CONSTANTS
  Procs = {p1, p2}
  Nobody = Nobody
SPECIFICATION Spec
INVARIANTS
  NothingUnverified
  LeftoversDoNoHarm
PROPERTY ReturnedRuns
SYMMETRY Symmetry
