SPECIFICATION FairSpec
CONSTANTS
  Logins = {f1, f2}
  Browsers = {b1}
  MaxPosts = 2
  MaxLaunches = 3
  Faults = {"claims", "format"}
  Storage = "session"
  Secure = TRUE
  StateTtl = 1
  DataTtl = 2
  MaxClock = 1
  Overlap = FALSE
  CookiesMayBeDropped = FALSE
  NoSid = NoSid
  NoBrowser = NoBrowser
CHECK_DEADLOCK FALSE
INVARIANT LoginSurvivesRoundTrip
PROPERTIES ReloadAccepted GoodLoginSucceeds
