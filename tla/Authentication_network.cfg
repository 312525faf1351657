SPECIFICATION FairSpec
CONSTANTS
  Nodes = {1, 2}
  GS = 0
  Base = 1000
  Randoms = {7, 8}
  SharedKey = SharedKey
  NoKey = NoKey
  Window = 3
  AuthInterval = 1
  Networks <- mcNetworks
  MaxNow = 5
INVARIANTS TypeOK  OnlyMembersHeard NoneLeftBehind
PROPERTIES AuthenticatedForGood EveryoneHeard GroupSpec
