SPECIFICATION FairSpec
CONSTANTS
  tab1 = tab1
  alice = alice
  bob = bob
  NoIntent = NoIntent
  Tabs = {tab1}
  Self = alice
  Accounts = {alice, bob}
  MaxIntents = 3
  MaxOpens = 2
  MaxOthers = 1
CHECK_DEADLOCK FALSE
INVARIANTS PendingIsUnanswered CommittedAtMostOnce
PROPERTY Settles
