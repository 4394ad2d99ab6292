SPECIFICATION FairSpec
CONSTANTS
  Ops = {o1, o2}
  Engines = {e1}
  Routers = {r1}
  Vrp = {}
  Malformed = {}
  Settings <- OneSetting
  Kinds <- RestartKinds
  MaxSerial = 1
  MaxHistory = 1
  MaxCrashes = 0
  None = None
  NoRow = NoRow
CHECK_DEADLOCK FALSE
PROPERTIES CallsReturn
