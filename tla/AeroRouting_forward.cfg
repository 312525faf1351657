SPECIFICATION Spec
CONSTANTS
  Nodes = {2, 3}
  Self = 1
  GroundStation = 9
  Packets = {"a"}
  Dst <- mcDst1
  Positions = {"invalid", "origin", "far"}
  Invalid = "invalid"
  Origin = "origin"
  Motions <- mcMotions
  TTI <- mcTTI
  SecurityState = FALSE
  IsGroundStation = FALSE
  MaxQueueLen = 1
  MaxQueueTime = 2
  LifeTime = 1
  FirstCheck = 1
  Recheck = 2
  MaxStamp = 1
PROPERTIES ForwardedTowardsDestination
