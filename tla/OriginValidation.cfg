SPECIFICATION Spec
CONSTANTS
  Requests = {q1, q2}
  Roas = {r1, r2}
  VoteIds = {}
  Ops = {o1}
  Prefixes <- SomePrefixes
  Origins <- SomeASNs
  Lengths <- SomeLengths
  Contents <- SomeContents
  Changes <- SomeChanges
  Unparsable = {}
  RuleTables <- Automatic
  Types = {"create", "modify", "revoke"}
  MaxCrashes = 0
  None = None
  Width = 2
  Spelled <- SomeSpelled
  all = all
  half = half
  one = one
  other = other
  loose = loose
  a1 = a1
  a2 = a2
CHECK_DEADLOCK FALSE
INVARIANTS AgreesWithRouters AuthorizedOnly
PROPERTY ForecastTrue
SYMMETRY Symmetry
