SPECIFICATION LmsFairSpec
CONSTANTS
  cv = cv
  bs = bs
  Threads = {t1}
  Services = {cv, bs}
  Caches = {cv, bs}
  CacheOf <- OwnCaches
  ScopeLists <- TwoLists
  Lifetimes = {2}
  Says = {"told"}
  DefaultLifetime = 3
  Leeway = 1
  AssertionLife = 3
  Backdate = 1
  Skew <- Behind
  Timeout = 1
  MaxClock = 3
  Lms <- Kinds
  ClientScopes <- ScopesOfClients
  Containers = {"r", "a", "b", "c"}
  Root = "r"
  Topics = {"x", "y"}
  CoursesOf <- CourseSets
  MaxPages = 2
  MaxDepth = 2
  PageTimeout = 1
  MaxEdits = 1
INVARIANTS LmsTypeOK TokenFitsTheCall AssertionIsTimely ListingIsComplete NoModuleTwice DeadOnlyBriefly
PROPERTY ListingsEnd
