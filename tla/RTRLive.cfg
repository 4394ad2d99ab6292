SPECIFICATION FairSpec
CONSTANTS
  Ops = {o1}
  Engines = {e1}
  Routers = {r1}
  Vrp = {v1, v2}
  Malformed = {v2}
  Settings <- OneSetting
  Kinds <- UpdateKinds
  MaxSerial = 2
  MaxHistory = 2
  MaxCrashes = 0
  None = None
  NoRow = NoRow
CHECK_DEADLOCK FALSE
INVARIANT SyncedCovers
PROPERTY RoutersConverge
