--------------------------- MODULE MCCombatClock ---------------------------
(***************************************************************************)
(* Up to three combatants for CombatClock: an actor a player owns, whose   *)
(* resource goes down when his turn ends and up when it starts, a hidden   *)
(* one no player acts for, and events of one turn and of two.  In the last *)
(* world nobody in the order acts, and the actor may come back to it.  Two *)
(* requests in flight.                                                     *)
(***************************************************************************)
EXTENDS CombatClock, TLC

CONSTANTS A, B, E, F, W1, W2

MCLife == (E :> 1) @@ (F :> 2)
MCSymmetry == Permutations({W1, W2})
MCGain == [turn_start |-> 1, turn_end |-> -1, round_start |-> 0, round_end |-> 0]
Rules(o, b, f) ==
  [owner_may_end |-> o, rewind_restore |-> b, forward_restore |-> f]
MCWorlds == {[order |-> <<A, E>>, rules |-> Rules(TRUE, TRUE, TRUE), other |-> FALSE, away |-> {F}],
             [order |-> <<F, A>>, rules |-> Rules(FALSE, TRUE, FALSE), other |-> TRUE, away |-> {}],
             [order |-> <<A, B>>, rules |-> Rules(FALSE, FALSE, FALSE), other |-> FALSE, away |-> {}],
             [order |-> <<B>>, rules |-> Rules(TRUE, TRUE, TRUE), other |-> FALSE, away |-> {A}]}
=============================================================================
