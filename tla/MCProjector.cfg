CONSTANTS
  Workers = {w1, w2}
  None = None
  MaxLog = 3
  MaxCrashes = 2
  MaxRebalances = 1
  Body <- MCBody
  Model <- MCModel
  EmptyModel <- MCEmptyModel
  Apply <- MCApply
  Accepts <- MCAccepts
SPECIFICATION FairSpec
INVARIANTS ExactlyOnceInOrder OffsetBehindLedger NoLostUpdate
PROPERTIES OffsetNeverRewinds ImplementsAppliedLog EventuallyApplied
CHECK_DEADLOCK FALSE
