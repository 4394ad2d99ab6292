SPECIFICATION DetectionSpec
CONSTANTS
  None = None
  Deleted = Deleted
  Width = 2
  AsnInfo <- SomeAsns
  Net <- ObservedNet
  Origins = {a1, a2}
  Paths <- SomePaths
  Points = {x1, x2, x3}
  PossibleVrps <- SomeVrps
  Probes <- SomeProbes
  Asset <- SomeAsset
  MaxRows = 3
  MaxWithdraws = 1
  MaxVrps = 2
  RuleIds = {r1, r2}
  AlertIds = {e1, e2}
  RuleRows <- SomeRules
  Scans <- SomeScans
  TypeFilters = {{}, {"moas"}}
  Asns = {a2, a5}
  Ledger <- SomeLedger
  AuthIds = {i1}
  WindowIds = {w1}
  NodeIds = {n1}
  RecordIds = {c1}
  RaisedIds = {e3}
  AuthRows <- SomeAuths
  WindowRows <- SomeWindows
  NodeRows <- SomeNodes
  AlertRows <- SomeAlerts
  SourceRows <- SomeSources
  RecordTypes = {"resource_transfer"}
  MaxTime = 2
  a1 = a1
  a2 = a2
  a3 = a3
  a4 = a4
  a5 = a5
  x1 = x1
  x2 = x2
  x3 = x3
  y1 = y1
  y2 = y2
CHECK_DEADLOCK FALSE
INVARIANTS DetectorsSound EventsFaithful ScanComplete BenignGrounded
PROPERTIES RiskFollowsRpki EvidenceCounts
SYMMETRY Symmetry
