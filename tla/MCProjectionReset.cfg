CONSTANTS
  Cell <- MCCell
  Spawn <- MCSpawn
  Sees <- MCSees
  Routes <- MCRoutes
  FireCells <- MCFireCells
  MountainCells <- MCMountainCells
  ResponderCells <- MCResponderCells
  Control <- MCControl
  Intensity <- MCIntensity
  MaxFires = 1
  MaxResponders = 2
  MaxCommands = 5
  MaxFailures = 1
SPECIFICATION PSpec
INVARIANT ResetIsProjected
CHECK_DEADLOCK FALSE
