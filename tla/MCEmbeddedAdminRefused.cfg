CONSTANTS
  Clients = {c1, c2}
  Ports = {p1}
  Stubs = {s1}
  NoStub = NoStub
SPECIFICATION Spec
INVARIANTS
  RefusedEngineIsClosed
