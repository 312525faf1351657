SPECIFICATION Spec
CONSTANTS
  Nodes = {2}
  Self = 1
  GroundStation = 9
  Packets = {"a", "b", "c"}
  Dst <- mcDstQueue
  Positions = {"invalid", "origin"}
  Invalid = "invalid"
  Origin = "origin"
  Motions <- mcMotions
  TTI <- mcTTI
  SecurityState = TRUE
  IsGroundStation = FALSE
  MaxQueueLen = 2
  MaxQueueTime = 3
  LifeTime = 1
  FirstCheck = 1
  Recheck = 2
  MaxStamp = 3
INVARIANTS TypeOK NoStrandedPacket OneOutcome QueueWithinBound
PROPERTIES LeavesForCause FreshNextHop QueuedNextHop CheckServes LineSpec
