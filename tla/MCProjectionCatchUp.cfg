CONSTANTS
  Cell <- MCCell
  Spawn <- MCSpawn
  Sees <- MCSees
  Routes <- MCRoutes
  FireCells <- MCHiddenFireCells
  MountainCells <- MCMountainCells
  ResponderCells <- MCResponderCells
  Control <- MCControl
  Intensity <- MCIntensity
  MaxFires = 1
  MaxResponders = 2
  MaxCommands = 5
  MaxFailures = 1
SPECIFICATION PSpec
INVARIANT CentralStateCatchesUp
CHECK_DEADLOCK FALSE
