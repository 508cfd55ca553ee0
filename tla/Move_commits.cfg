SPECIFICATION MoveSpec
CONSTANTS
  Size = 4
  Full = 3
  Corridors <- MCCorridors
  Duration = 1
  MaxMoves = 4
  MaxTurns = 3
  MaxClock = 3
  MaxFailures = 1
INVARIANTS BudgetKept HopsOnce
CHECK_DEADLOCK FALSE
