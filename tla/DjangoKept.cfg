SPECIFICATION Spec
CONSTANTS
  Workers = {w1}
  Keeps = TRUE
  Issuers = {i1}
  Clients = {c1, c2}
  Deployments = {d1, d2}
  Keys = {k1, k2}
  c1 = c1
  c2 = c2
  d1 = d1
  d2 = d2
  k1 = k1
  k2 = k2
  Rows <- Moving
  NoClient = NoClient
  NoRow = NoRow
  Miss = Miss
  Crash = Crash
  MaxEdits = 4
INVARIANT LaunchAsStored
