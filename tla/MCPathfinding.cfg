CONSTANTS
  Width = 4
  Height = 3
  Starts <- MCStarts
  Goals <- Grid
  Walls <- MCWalls
SPECIFICATION Spec
INVARIANTS FindsShortestPath
PROPERTIES Terminates
CHECK_DEADLOCK FALSE
