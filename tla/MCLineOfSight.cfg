CONSTANTS
  Froms <- MCFroms
  Tos <- MCTos
SPECIFICATION LineSpec
INVARIANTS DrawsIdealLine
PROPERTIES ReachesEnd
CHECK_DEADLOCK FALSE
