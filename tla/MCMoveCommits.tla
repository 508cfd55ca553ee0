---------------------------- MODULE MCMoveCommits ----------------------------
(***************************************************************************)
(* MoveCommits on corridors of four cells: portals that lead to each other *)
(* and to no scene at all, regions that drain, restore and arrest.         *)
(***************************************************************************)
EXTENDS MoveCommits

Region(scene, cells, on, effect, arrests) ==
  [scene |-> scene, cells |-> cells, on |-> on, effect |-> effect, arrests |-> arrests]
Teleport(scene, c) == [is |-> "teleport", scene |-> scene, cell |-> c]
Resource(by) == [is |-> "resource", by |-> by]

Loop == {Region("here", {2}, "enter", Teleport("there", 1), FALSE),
         Region("there", {1, 2}, "enter", Teleport("here", 2), FALSE),
         Region("here", {2, 3}, "enter", Resource(1), FALSE)}
Trap == {Region("here", {1}, "arrest", Resource(-1), TRUE),
         Region("here", {1, 2}, "enter", Resource(2), FALSE),
         Region("here", {3}, "enter", Teleport("nowhere", 0), FALSE)}
Within == {Region("here", {3}, "enter", Teleport("here", 1), FALSE),
           Region("here", {1}, "enter", Resource(-1), TRUE)}

MCCorridors == {[enforcement |-> e, regions |-> r] : e \in {"hard", "soft"}, r \in {Loop, Trap, Within}}
=============================================================================
