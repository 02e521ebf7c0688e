CONSTANTS
  Dur <- MCDur
  NodeGlow = 2
  EdgeGlow = 1
  MaxPerEdge = 1
  Coalesce = 1
  MaxFresh = 1
  EventTypes <- MCEventTypes
  MaxSignals = 3
SPECIFICATION EngineFairSpec
INVARIANTS OneLoop EveryHopOnce
PROPERTIES EventuallyStill
