----------------------------- MODULE MCGridMoves -----------------------------
(***************************************************************************)
(* GridMoves on a grid of 3 x 3 cells, over three families of scenes:      *)
(* terrain to route through under every rule, walls and masks to walk      *)
(* into, and scenes with a secret, for a player or the GM.                 *)
(***************************************************************************)
EXTENDS GridMoves

Corner == <<0, 0>>
Rules == {"chebyshev", "manhattan", "alternating"}
Kinds == {<<"impassable", 1>>, <<"arrest", 1>>, <<"terrain", 2>>, <<"terrain", 3>>}
On(cells, kind, secret) ==
  [cells |-> cells, behavior |-> kind[1], cost |-> kind[2], secret |-> secret]
Wall(a, b, secret) == [a |-> a, b |-> b, secret |-> secret]
Budget(n) == [is |-> "budget", cells |-> n]

Plain == [rule |-> "chebyshev", walls |-> {}, regions |-> {}, masked |-> FALSE, mask |-> Cells,
          radius |-> 0, budget |-> None, gm |-> FALSE, start |-> cell_center(Corner),
          goals |-> {<<<<2, 2>>>>}]

(* Two regions, which overlap in (1,1), under every rule, and a budget.    *)
Terrain ==
  {[Plain EXCEPT !.rule = rule, !.budget = b,
                 !.regions = {On({<<1, 1>>, c}, k, FALSE), On({<<1, 1>>, <<1, 0>>}, l, FALSE)},
                 !.goals = {<<<<2, 2>>>>, <<<<1, 2>>>>, <<<<2, 1>>, <<0, 1>>>>, <<<<1, 1>>, <<2, 2>>>>}] :
     rule \in Rules, b \in {None, Budget(3)}, c \in {<<0, 1>>, <<2, 1>>, <<1, 2>>},
     k \in Kinds, l \in Kinds}

Full == Wall(<<2 * P, 0>>, <<2 * P, 2 * P>>, FALSE)
Half == Wall(<<P, P \div 2 - 1>>, <<P, P \div 2 + 1>>, FALSE)
Slant == Wall(<<P + 1, 2 * P - 1>>, <<2 * P - 1, P + 1>>, FALSE)
Walled ==
  {[Plain EXCEPT !.walls = w, !.masked = TRUE, !.mask = Cells \ gone, !.radius = r, !.start = s] :
     w \in {{}, {Full}, {Half}, {Slant}, {Full, Slant}},
     gone \in {{}, {<<1, 0>>}, {<<0, 1>>}, {<<1, 1>>}, {<<2, 1>>}, {<<1, 0>>, <<1, 2>>}},
     r \in {0, P \div 2 - 1, P \div 2 + 1},
     s \in {cell_center(Corner), cell_center(<<1, 1>>), <<P \div 2 - 2, P \div 2 + 2>>}}

Secret ==
  {[Plain EXCEPT !.gm = g, !.regions = {On({<<1, 1>>, <<0, 1>>}, k, TRUE)},
                 !.walls = {[w EXCEPT !.secret = TRUE]}, !.budget = Budget(3), !.masked = TRUE,
                 !.mask = Cells \ {<<2, 2>>}, !.goals = {<<<<2, 1>>>>, <<<<1, 2>>>>}] :
     g \in BOOLEAN, k \in Kinds, w \in {Full, Slant}}

MCWorlds == Terrain \cup Walled \cup Secret
MCJumps == {<<<<2, 2>>>>, <<<<1, 1>>, <<2, 0>>>>, <<<<2, 1>>>>, <<<<0, 1>>, <<2, 2>>>>, <<<<1, 2>>>>}
=============================================================================
