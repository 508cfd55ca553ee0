------------------------- MODULE MCOptimisticIntents -------------------------
(***************************************************************************)
(* OptimisticIntents on small instances: one tab of alice's, and bob.      *)
(***************************************************************************)
EXTENDS OptimisticIntents

CONSTANTS tab1, alice, bob

=============================================================================
