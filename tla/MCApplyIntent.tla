--------------------------- MODULE MCApplyIntent ---------------------------
(***************************************************************************)
(* Small worlds for ApplyIntent: two combats that share two scenes; three  *)
(* plain documents in any tree; two folders with an asset; a combat and    *)
(* its combatant; two documents of a singleton type.                       *)
(***************************************************************************)
EXTENDS ApplyIntent

CONSTANTS C1, C2, C3, M, I1, I2, I3, F1, F2, S1, S2

MCDocs == {C1, C2, C3, M, I1, I2, I3, F1, F2, S1, S2}
MCTypeOf ==
  [d \in MCDocs |-> CASE d \in {C1, C2, C3} -> "combat"
                     [] d = M              -> "combatant"
                     [] d \in {F1, F2} -> "folder"
                     [] d \in {S1, S2}     -> "single"
                     [] OTHER              -> "item"]
MCBodies ==
  [d \in MCDocs |-> CASE d \in {C1, C2} -> [active : BOOLEAN, scene : {"s", "t"}]
                     [] d = C3        -> [active : {FALSE}, scene : {"s"}]
                     [] d \in {M, S1} -> [val : {0, 1}]
                     [] OTHER         -> [val : {0}]]
MCWorlds == {{C1, C2}, {I1, I2, I3}, {F1, F2}, {C3, M}, {S1, S2}}
MCOwned == {I1, I3, S1, M}
=============================================================================
