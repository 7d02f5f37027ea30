\* The defaults of the two clients, in units of 20 s: timeouts of 10 s + 30 s, a leeway
\* of 60 s, an assertion of 60 s; a token that lives 100 s.
SPECIFICATION LmsSpec
CONSTANTS
  cv = cv
  bs = bs
  Threads = {t1}
  Services = {cv, bs}
  Caches = {cv, bs}
  CacheOf <- OwnCaches
  ScopeLists <- TwoLists
  Lifetimes = {5}
  Says = {"told"}
  DefaultLifetime = 3
  Leeway = 3
  AssertionLife = 3
  Backdate = 1
  Skew <- Behind
  Timeout = 2
  MaxClock = 5
  Lms <- Kinds
  ClientScopes <- ScopesOfClients
  Containers = {"r", "a", "b", "c"}
  Root = "r"
  Topics = {"x", "y"}
  CoursesOf <- CourseSets
  MaxPages = 2
  MaxDepth = 2
  PageTimeout = 2
  MaxEdits = 0
INVARIANT TokenOutlivesThePage
