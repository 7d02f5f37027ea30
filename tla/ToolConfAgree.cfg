SPECIFICATION Spec
CONSTANTS
  Confs = {a, b}
  Issuers = {i1, i2}
  Clients = {c1, c2}
  Deployments = {d1, d2}
  Keys = {k1, k2}
  i1 = i1
  i2 = i2
  c1 = c1
  c2 = c2
  d1 = d1
  d2 = d2
  k1 = k1
  k2 = k2
  Documents <- Agreeing
  NoClient = NoClient
  NoKey = NoKey
  NoItem = NoItem
CHECK_DEADLOCK FALSE
INVARIANTS LaunchFollowsDocument LoginUsesDefault PublishesNamedKeys
