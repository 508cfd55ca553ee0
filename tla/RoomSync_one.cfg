SPECIFICATION FairSpec
CONSTANTS
  tab1 = tab1
  alice = alice
  Clients = {tab1}
  Users = {alice}
  UserOf <- OneAccount
  EnforceFloor = TRUE
  RingCap = 2
  BroadcastCap = 1
  MaxSeq = 3
  MaxOpens = 2
  MaxRestarts = 1
INVARIANTS RingLacksOnlyDropped EgressGapOnlyDropped GaplessUnlessLost AppliedInOrder
PROPERTIES Converges ImplementsStream
CHECK_DEADLOCK FALSE
