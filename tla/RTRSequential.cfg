SPECIFICATION Spec
CONSTANTS
  Ops = {o1}
  Engines = {e1, e2}
  Routers = {}
  Vrp = {v1}
  Malformed = {}
  Settings <- SomeSettings
  Kinds <- AllKinds
  MaxSerial = 2
  MaxHistory = 2
  MaxCrashes = 1
  None = None
  NoRow = NoRow
CHECK_DEADLOCK FALSE
INVARIANTS SerialAgrees ContentCurrent StatusHonest DeletedStopped HistoryComplete
