SPECIFICATION Spec
CONSTANTS
  Threads = {t1, t2}
  Services = {s1}
  Caches = {s1}
  CacheOf <- OwnCaches
  ScopeLists <- OneList
  Lifetimes = {0, 3}
  Says = {"told", "untold"}
  DefaultLifetime = 2
  Leeway = 1
  AssertionLife = 3
  Backdate = 1
  Skew = 0
  Timeout = 1
  MaxClock = 6
SYMMETRY Symmetry
INVARIANT ServedTokenIsValid
PROPERTY ReusedUntilNearExpiry
