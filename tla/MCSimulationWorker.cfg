CONSTANTS
  Command <- MCCommand
  World <- MCWorld
  Body <- MCBody
  FirstWorld <- MCFirstWorld
  Handle <- MCHandle
  TickBodies <- MCTickBodies
  Apply <- MCApply
  MaxCommands = 2
  MaxFaults = 2
SPECIFICATION FairSpec
INVARIANTS SettledInOrder LedgeredIsWhole LogTellsWorld
PROPERTIES LedgeredNotRepeated EventuallySettled
CHECK_DEADLOCK FALSE
