SPECIFICATION Spec
CONSTANTS
  Scale = 2
  Coordinates = {3}
  Speeds <- mcSpeeds
  MaxU32 = 1
INVARIANTS TypeOK MotionAsSaid
