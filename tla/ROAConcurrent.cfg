SPECIFICATION Spec
CONSTANTS
  Requests = {q1, q2}
  Roas = {r1}
  VoteIds = {x1, x2}
  Ops = {o1, o2}
  Prefixes = {p1, p2}
  Origins = {a1, a2}
  Lengths = {m1}
  Contents <- OneContent
  Changes <- OneChange
  Unparsable = {p2}
  RuleTables <- TwoRules
  Types = {"create", "revoke"}
  MaxCrashes = 0
  None = None
  p1 = p1
  p2 = p2
  a1 = a1
  a2 = a2
  m1 = m1
CHECK_DEADLOCK FALSE
INVARIANT Reviewed
SYMMETRY Symmetry
