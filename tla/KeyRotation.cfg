SPECIFICATION VerificationSpec
CONSTANTS
  Launches = {l1, l2}
  Sids = {l1, l2}
  SidOf <- Cookies
  NoSid = none
  LastKey = 2
  CacheLifetime = 2
  FetchTime = 1
  Inputs <- MessageInputs
  MaxClock = 3
SYMMETRY Symmetry
INVARIANTS VerificationTypeOK RetiredKeyIsDropped KeyIsMissedBriefly AcceptedIsUsable
PROPERTIES FetchedOnlyWhenDue ImplementsVerification
