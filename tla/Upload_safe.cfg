SPECIFICATION FairSpec
CONSTANTS
  Parts = 2
  Retries = 2
  HandlersDrop = TRUE
  MaxRestarts = 1
CHECK_DEADLOCK FALSE
INVARIANTS AssetWhole RefundedOnce NothingLeftBehind
PROPERTY SessionEndsUnlessOrphaned
