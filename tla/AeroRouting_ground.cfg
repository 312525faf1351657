SPECIFICATION FairSpec
CONSTANTS
  Nodes = {2}
  Self = 1
  GroundStation = 9
  Packets = {"a", "b", "c"}
  Dst <- mcDstSelf
  Positions = {"invalid", "origin"}
  Invalid = "invalid"
  Origin = "origin"
  Motions <- mcMotions
  TTI <- mcTTI
  SecurityState = FALSE
  IsGroundStation = TRUE
  MaxQueueLen = 2
  MaxQueueTime = 2
  LifeTime = 2
  FirstCheck = 1
  Recheck = 2
  MaxStamp = 3
INVARIANTS NoStrandedPacket OneOutcome
PROPERTIES RouteMeansSent
