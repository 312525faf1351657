SPECIFICATION Spec
CONSTANTS
  NumRows = 3
  NumSlots = 4
  Nobody = Nobody
INVARIANTS TypeOK SlotsAsAllotted NoHoleByDefault
CHECK_DEADLOCK FALSE
