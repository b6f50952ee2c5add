CONSTANTS
  Closers = {c1, c2, c3}
SPECIFICATION FairSpawnSpec
INVARIANTS
  NoOrphanAfterThrow
  StoppedMeansStopped
PROPERTIES
  NoSignalToTheDead
  EverythingSettles
