CONSTANTS
  NoState = NoState
  NoEvent = NoEvent
  MaxEvents = 2
  MaxRecent = 1
  MaxSnapshots = 2
  Mission <- MCMission
  FirstMission <- MCFirstMission
  Log <- MCLog
  Reduce <- MCReduce
SPECIFICATION FairSpec
INVARIANTS FoldsTimeline FrameWasSeen OneReplayTimer
PROPERTIES ReplayEnds
