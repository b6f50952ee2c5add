CONSTANTS
  Callers = {c1, c2}
  Calls <- MCCalls
  Transports = {"embedded", "spawn", "remote"}
  Options <- MCOptions
  Uses <- MCUses
SPECIFICATION FairSpec
INVARIANTS
  OptionsNeverIgnored
  NoHandleToNothing
  EveryStringGoesBack
PROPERTIES
  EveryCallSettles
