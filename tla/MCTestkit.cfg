CONSTANTS
  Calls = {c1, c2}
  Ports = {p1, p2}
  None = None
  Setups <- MCSetups
  MaxTests = 2
CHECK_DEADLOCK FALSE
SPECIFICATION Spec
SYMMETRY Symmetry
INVARIANTS
  FailClosed
  GateFollowsLookup
  NothingBehindARejection
  NoneForgotten
