CONSTANTS
  A = A  B = B  E = E  F = F  W1 = W1  W2 = W2
  Combatants = {A, B, E, F}
  Life <- MCLife
  Hidden = {B}
  Owned = {A}
  Gain <- MCGain
  MaxRes = 1
  Inits = {1}
  MaxHistory = 2
  Worlds <- MCWorlds
  Workers = {W1, W2}
  Nobody = nobody
  MaxRound = 2
  MaxRequests = 4
  MaxWrites = 1
SYMMETRY MCSymmetry
SPECIFICATION Spec
INVARIANTS CursorAtClockUnlessTorn UnracedCommits
PROPERTIES NoTurnSkippedUnlessTorn TurnSettlesUnlessReordered RestoresUnlessRaced
CHECK_DEADLOCK FALSE
