SPECIFICATION Spec
CONSTANTS
  Ops = {o1, o2}
  Engines = {e1, e2}
  Routers = {r1, r2}
  Vrp = {}
  Malformed = {}
  Settings <- OneSetting
  Kinds <- LifecycleKinds
  MaxSerial = 1
  MaxHistory = 1
  MaxCrashes = 0
  None = None
  NoRow = NoRow
CHECK_DEADLOCK FALSE
SYMMETRY Symmetry
INVARIANTS IInv NoOrphanEngine OnlyPoolRuns PoolServes
