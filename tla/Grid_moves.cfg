SPECIFICATION Spec
CONSTANTS
  P = 8
  W = 3
  H = 3
  Worlds <- MCWorlds
  Jumps <- MCJumps
  MaxMoves = 2
INVARIANTS PreviewHolds RouteIsCheapest WalksOnlySeen
CHECK_DEADLOCK FALSE
