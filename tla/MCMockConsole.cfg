CONSTANTS
  Shared = Shared
  NoEvent = NoEvent
  Spawn <- MCSpawn
  Grid <- MCGrid
  Sees <- MCMockSees
  PathBetween <- MCPathBetween
  FireIntensity = 7
  MaxRecent = 1
  MaxEvents = 2
  FireCells <- MCFireCells
  MountainCells <- MCMountainCells
  ResponderCells <- MCResponderCells
  ControlCells <- MCControl
  SeedMountains <- MCSeedMountains
  SeedFires <- MCSeedFires
  SeedResponders <- MCSeedResponders
  MaxCommands = 3
  MaxExpiries = 2
SPECIFICATION Spec
INVARIANTS StoreAgreesWithMock MockWorldSound MirrorsServer GridTellsTruth
