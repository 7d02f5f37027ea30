SPECIFICATION Spec
CONSTANTS
  Logins = {f1, f2}
  Browsers = {b1}
  MaxPosts = 1
  MaxLaunches = 2
  Faults = {"claims"}
  Storage = "session"
  Secure = TRUE
  StateTtl = 1
  DataTtl = 2
  MaxClock = 1
  Overlap = TRUE
  CookiesMayBeDropped = FALSE
  NoSid = NoSid
  NoBrowser = NoBrowser
CHECK_DEADLOCK FALSE
INVARIANT LoginSurvivesRoundTrip
