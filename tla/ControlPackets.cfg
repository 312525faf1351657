SPECIFICATION Spec
CONSTANTS
  An = An
  Gs = Gs
  Me = Me
  Broadcast = Broadcast
  Elsewhere <- mcElsewhere
  Unknown = Unknown
  SharedKey = SharedKey
  NoKey = NoKey
  Scale = 2
  Coordinates <- mcCoordinates
  Speeds <- mcSpeeds
  MaxU32 = 3
  Flights <- mcFlights
  Parked <- mcParked
  Undefined <- mcUndefined
  DataSizes = {27, 44, 1000}
  MaxUp = 2
  MaxMessages = 3
  Told = {An, Gs}
INVARIANTS TypeOK TakenForWhatItIs SecuredOpens PositionsAsTold
PROPERTIES CodecSpec
