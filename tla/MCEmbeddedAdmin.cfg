CONSTANTS
  Clients = {c1, c2}
  Ports = {p1, p2}
  Stubs = {s1}
  NoStub = NoStub
SPECIFICATION Spec
INVARIANTS
  RegistryCatchesUp
  EveryWaitIsOnItsWay
SYMMETRY Symmetry
