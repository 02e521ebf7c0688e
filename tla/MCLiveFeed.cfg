CONSTANTS
  NoState = NoState
  NoEvent = NoEvent
  MaxEvents = 2
  MaxRecent = 1
  MaxAttempts = 2
  MaxVisits = 2
  MaxFaults = 1
  Missions = {1, 2}
  mission <- MCMissionOf
  FirstMission <- MCFirstMission
  State <- MCState
  Log <- MCLog
  Reduce <- MCReduce
SPECIFICATION FairSpec
INVARIANTS OnlyThisMission ConvergesWhenCovered
PROPERTIES EventuallyLoaded
CHECK_DEADLOCK FALSE
