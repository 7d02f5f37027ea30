SPECIFICATION Spec
CONSTANTS
  Logins = {f1, f2}
  Browsers = {b1, b2}
  MaxPosts = 2
  MaxLaunches = 2
  Faults = {"claims"}
  Storage = "cache"
  Secure = TRUE
  StateTtl = 1
  DataTtl = 2
  MaxClock = 1
  Overlap = TRUE
  CookiesMayBeDropped = TRUE
  NoSid = NoSid
  NoBrowser = NoBrowser
CHECK_DEADLOCK FALSE
SYMMETRY Symmetry
INVARIANTS TypeOK AcceptedWhereBegun StoredOnlyIfVetted RestoredIsVetted NoCookieOnlyIfRepeated
PROPERTY ImplementsContract
