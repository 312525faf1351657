SPECIFICATION FairSpec
CONSTANTS
  Nodes = {2}
  Self = 1
  GroundStation = 9
  Packets = {"a"}
  Dst <- mcDst1
  Positions = {"invalid", "origin"}
  Invalid = "invalid"
  Origin = "origin"
  Motions <- mcMotions
  TTI <- mcTTI
  SecurityState = FALSE
  IsGroundStation = FALSE
  MaxQueueLen = 1
  MaxQueueTime = 1
  LifeTime = 1
  FirstCheck = 1
  Recheck = 2
  MaxStamp = 1
PROPERTIES BufferedForLimitedTime
