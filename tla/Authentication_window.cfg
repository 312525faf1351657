SPECIFICATION Spec
CONSTANTS
  Nodes = {1}
  GS = 0
  Base = 1000
  Randoms = {7}
  SharedKey = SharedKey
  NoKey = NoKey
  Window = 3
  AuthInterval = 3
  Networks <- mcReliable
  MaxNow = 5
PROPERTIES FreshRequestAnswered
