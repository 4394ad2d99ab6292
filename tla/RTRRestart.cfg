SPECIFICATION Spec
CONSTANTS
  Ops = {o1}
  Engines = {e1}
  Routers = {r1}
  Vrp = {v1}
  Malformed = {}
  Settings <- OneSetting
  Kinds <- RestartKinds
  MaxSerial = 1
  MaxHistory = 1
  MaxCrashes = 0
  None = None
  NoRow = NoRow
CHECK_DEADLOCK FALSE
INVARIANT SerialIdentifies
