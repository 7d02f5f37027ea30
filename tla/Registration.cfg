SPECIFICATION FairSpec
CONSTANTS
  i1 = i1
  i2 = i2
  e1 = e1
  e2 = e2
  p1 = p1
  p2 = p2
  Requests = {r1, r2}
  Workers = {w1, w2}
  Stores = {"db"}
  StoreOf <- OneStore
  Durable = TRUE
  Platforms = {p1, p2}
  Issuers = {i1, i2}
  Endpoints = {e1, e2}
  ClientIds = {1, 2}
  NoClient = NoClient
  Deployments = {d1, d2}
  NoDeployment = NoDeployment
  Documents <- Served
  MaxCrashes = 2
  NoRecord = NoRecord
CHECK_DEADLOCK FALSE
INVARIANTS TypeOK CompletedResolves UnknownOnlyIfFailed
PROPERTIES FallbackIsStable RegistrationEnds
