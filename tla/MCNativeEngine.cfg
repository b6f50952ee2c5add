CONSTANTS
  MaxCalls = 3
SPECIFICATION FairSpec
INVARIANTS
  SettledOnceOrPending
  RefTracksInFlight
  NoDrainUnderAnAwait
  NoThreadLeak
PROPERTIES
  EveryCallSettles
  CloseCompletes
  ImplementsSettleOnce
