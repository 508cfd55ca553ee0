------------------------------ MODULE GridMoves ------------------------------
(***************************************************************************)
(* A token's walk over a square grid: the route the server previews        *)
(* (scene/pathfinding.rs, A* over cells) and the walk it executes when the *)
(* client sends a path back (scene/move_exec.rs, a walk over the path      *)
(* itself), with the walls, the visibility mask, the regions and the       *)
(* budget both are held against.                                           *)
(*                                                                         *)
(* Positions are points of a lattice of P units to the cell, so that every *)
(* sum, product and comparison of the code is exact.  A path whose samples *)
(* would leave the lattice is not asked for (Samples).  GridStepped square *)
(* scenes only: hexes, the continuous model and the Euclidean rule need    *)
(* reals.  The search window is the W x H grid (WINDOW_MARGIN is left out) *)
(* and shapes are given by the cells they cover.                           *)
(***************************************************************************)
EXTENDS Integers, Sequences, FiniteSets, FiniteSetsExt, SequencesExt, TLC

CONSTANTS
  P,          \* lattice units to a cell, even
  W, H,       \* the grid
  Worlds,     \* what a scene may hold; see Init
  Jumps,      \* the paths a client makes up, as sequences of cells after the start
  MaxMoves    \* bound on the moves of the token

ASSUME GridAssumption == P \in Nat /\ P > 0 /\ P % 2 = 0 /\ W \in Nat \ {0} /\ H \in Nat \ {0}

VARIABLES
  world,      \* the scene: rule, walls, regions, mask, footprint, budget, gm
  pos,        \* the token's committed position
  route,      \* the last previewed route, or None
  last,       \* what the last executed path was and came to, or None
  moves       \* moves so far

vars == <<world, pos, route, last, moves>>

None == [is |-> "none"]
Cells == (0..W - 1) \X (0..H - 1)
Far == 1000     \* more than any cost on the grid

-----------------------------------------------------------------------------
(* Geometry.                                                               *)
Abs(n) == IF n < 0 THEN -n ELSE n
Larger(a, b) == IF a < b THEN b ELSE a
cell_center(c) == <<P * c[1] + P \div 2, P * c[2] + P \div 2>>
cell_of(p) == <<p[1] \div P, p[2] \div P>>
AtCenter(p) == p = cell_center(cell_of(p))

orient(a, b, c) == (b[1] - a[1]) * (c[2] - a[2]) - (b[2] - a[2]) * (c[1] - a[1])
on_segment(a, b, p) ==
  \A k \in 1..2 : \/ a[k] <= p[k] /\ p[k] <= b[k]
                  \/ b[k] <= p[k] /\ p[k] <= a[k]
segments_cross(a, b, c, d) ==
  LET d1 == orient(c, d, a)  d2 == orient(c, d, b)
      d3 == orient(a, b, c)  d4 == orient(a, b, d)
  IN \/ d1 * d2 < 0 /\ d3 * d4 < 0
     \/ d1 = 0 /\ on_segment(c, d, a)
     \/ d2 = 0 /\ on_segment(c, d, b)
     \/ d3 = 0 /\ on_segment(a, b, c)
     \/ d4 = 0 /\ on_segment(a, b, d)

(* The disc of radius r about p reaches into the wall.                     *)
Reaches(p, r, w) ==
  LET dx == w.b[1] - w.a[1]
      dy == w.b[2] - w.a[2]
      along == (p[1] - w.a[1]) * dx + (p[2] - w.a[2]) * dy
      len2 == dx * dx + dy * dy
      dist2(q) == (p[1] - q[1]) * (p[1] - q[1]) + (p[2] - q[2]) * (p[2] - q[2])
  IN CASE along <= 0    -> dist2(w.a) < r * r
       [] along >= len2 -> dist2(w.b) < r * r
       [] OTHER -> orient(w.a, w.b, p) * orient(w.a, w.b, p) < r * r * len2

(* The cells the disc overlaps; a point lies in one cell.                  *)
footprint_cells(p, r) ==
  IF r = 0 THEN {cell_of(p)}
  ELSE LET outside(c, k) == Larger(Larger(P * c[k] - p[k], 0), p[k] - P * (c[k] + 1))
           around == ((p[1] - r) \div P .. (p[1] + r) \div P)
                       \X ((p[2] - r) \div P .. (p[2] + r) \div P)
           near == {c \in around : outside(c, 1) * outside(c, 1)
                                     + outside(c, 2) * outside(c, 2) <= r * r}
       IN IF near = {} THEN {cell_of(p)} ELSE near

(* The cells the segment passes, cell by cell: across the grid line it     *)
(* meets first, and across a corner with both cells beside it.  A cell     *)
(* owes each axis the lines still between it and the end.                  *)
supercover_cells(a, b) ==
  LET d(k) == b[k] - a[k]
      dir(k) == IF d(k) > 0 THEN 1 ELSE -1
      line(c, k) == IF d(k) > 0 THEN P * (c[k] + 1) ELSE P * c[k]
      reach(c, k, other) == Abs(line(c, k) - a[k]) * Abs(d(other))
      owed(c, k) == Abs(cell_of(b)[k] - c[k])
      tied(c) == d(1) # 0 /\ d(2) # 0 /\ reach(c, 1, 2) = reach(c, 2, 1)
      first(c) == d(1) # 0 /\ (d(2) = 0 \/ reach(c, 1, 2) < reach(c, 2, 1))
      step(s, n) ==
        LET c == s.at
            i == <<c[1] + dir(1), c[2]>>
            j == <<c[1], c[2] + dir(2)>>
            both == <<c[1] + dir(1), c[2] + dir(2)>>
        IN CASE c = cell_of(b) -> s
             [] c # cell_of(b) /\ tied(c) /\ owed(c, 1) > 0 /\ owed(c, 2) > 0 ->
                  [at |-> both, out |-> s.out \cup {i, j, both}]
             [] c # cell_of(b) /\ ~(tied(c) /\ owed(c, 1) > 0 /\ owed(c, 2) > 0)
                /\ (owed(c, 2) = 0 \/ (owed(c, 1) > 0 /\ first(c))) ->
                  [at |-> i, out |-> s.out \cup {i}]
             [] OTHER -> [at |-> j, out |-> s.out \cup {j}]
      start == cell_of(a)
  IN FoldLeft(step, [at |-> start, out |-> {start}],
              [n \in 1..(owed(start, 1) + owed(start, 2)) |-> n]).out

(* Mutant: a corner is passed as the diagonal alone.                       *)
ThinLine(a, b) ==
  IF \A k \in 1..2 : Abs(cell_of(a)[k] - cell_of(b)[k]) = 1
  THEN {cell_of(a), cell_of(b)} ELSE supercover_cells(a, b)
line_traversal(a, b) == supercover_cells(a, b)

-----------------------------------------------------------------------------
(* Regions.  Where several cover a cell, impassable wins, then arrest,     *)
(* then the dearest terrain.  A viewer's field lacks the secret ones.      *)
compose(there) ==
  CASE \E r \in there : r.behavior = "impassable" -> [is |-> "impassable", cost |-> 1]
    [] /\ \A r \in there : r.behavior # "impassable"
       /\ \E r \in there : r.behavior = "arrest" -> [is |-> "arrest", cost |-> 1]
    [] OTHER -> [is |-> "terrain", cost |-> Max({1} \cup {r.cost : r \in there})]
region_field(regions) == [c \in Cells |-> compose({r \in regions : c \in r.cells})]

AtCell(field, c) == IF c \in Cells THEN field[c] ELSE compose({})
is_impassable(field, c) == AtCell(field, c).is = "impassable"
is_arrest(field, c) == AtCell(field, c).is = "arrest"
terrain_cost(field, c) == AtCell(field, c).cost

(* The price of a step to a neighbour, and the diagonal parity after it.   *)
step_cost(rule, di, dj, parity) ==
  IF di = 0 \/ dj = 0 THEN <<1, parity>>
  ELSE CASE rule = "chebyshev"   -> <<1, parity>>
         [] rule = "manhattan"   -> <<2, parity>>
         [] rule = "alternating" -> <<1 + parity, 1 - parity>>
Steps == (-1..1) \X (-1..1) \ {<<0, 0>>}

budget_admits_step(spent, step, budget) == budget = None \/ spent + step <= budget.cells

Iterate(step(_), s, n) ==
  LET it[k \in 0..n] == IF k = 0 THEN s ELSE step(it[k - 1]) IN it[n]

-----------------------------------------------------------------------------
(* The router (pathfinding.rs).  A view is what the requester may know:    *)
(* its walls, its region field, its mask, and the rule and footprint.      *)
View(regions, walls) ==
  [field |-> region_field(regions), walls |-> walls, rule |-> world.rule,
   masked |-> world.masked /\ ~world.gm, mask |-> world.mask, radius |-> world.radius]
requester_view ==
  IF world.gm THEN View(world.regions, world.walls)
  ELSE View({r \in world.regions : ~r.secret}, {w \in world.walls : ~w.secret})

cell_enterable(v, from, to) ==
  LET a == cell_center(from)
      b == cell_center(to)
  IN /\ to \in Cells
     /\ \A w \in v.walls : ~Reaches(b, v.radius, w) /\ ~segments_cross(a, b, w.a, w.b)
     /\ v.masked => footprint_cells(b, v.radius) \cup line_traversal(a, b) \subseteq v.mask
     /\ \A c \in footprint_cells(b, v.radius) : ~is_impassable(v.field, c)

Nodes == Cells \X {0, 1}
heuristic(rule, c, goal) ==
  LET di == Abs(goal[1] - c[1])
      dj == Abs(goal[2] - c[2])
  IN IF rule = "manhattan" THEN di + dj ELSE Larger(di, dj)

(* Mutant: every rule is priced as the strictest, which overestimates.     *)
GreedyHeuristic(rule, c, goal) == Abs(goal[1] - c[1]) + Abs(goal[2] - c[2])
Estimate(rule, c, goal) == heuristic(rule, c, goal)

(* The heap's order: least f, then the larger cell, then the larger parity *)
Rank(q) == q.f * 2 * W * H - 2 * (q.node[1][1] * H + q.node[1][2]) - q.node[2]
Pop(open) == CHOOSE q \in open : \A o \in open : Rank(q) <= Rank(o)

(* The steps out of a node, with the node they reach and their price.      *)
neighbors_with_cost(v, node) ==
  LET at(d) == <<node[1][1] + d[1], node[1][2] + d[2]>>
      price(d) == step_cost(v.rule, d[1], d[2], node[2])
  IN {[node |-> <<at(d), price(d)[2]>>, cost |-> price(d)[1] * terrain_cost(v.field, at(d))] :
        d \in {e \in Steps : cell_enterable(v, node[1], at(e))}}

astar_leg(v, start, goal, parity) ==
  LET entry(n, g) == [node |-> n, g |-> g, f |-> g + Estimate(v.rule, n[1], goal)]
      expand(s, q) ==
        LET better == {e \in neighbors_with_cost(v, q.node) : q.g + e.cost < s.best[e.node]}
            to == {e.node : e \in better}
            g(n) == q.g + (CHOOSE e \in better : e.node = n).cost
        IN [s EXCEPT !.open = (@ \ {q}) \cup {entry(n, g(n)) : n \in to},
                     !.best = [n \in Nodes |-> IF n \in to THEN g(n) ELSE @[n]],
                     !.from = [n \in Nodes |-> IF n \in to THEN q.node ELSE @[n]]]
      pop(s, q) ==
        IF q.node[1] = goal THEN [s EXCEPT !.done = q]
        ELSE IF q.g > s.best[q.node] THEN [s EXCEPT !.open = @ \ {q}]
        ELSE expand(s, q)
      turn(s) == IF s.done # None \/ s.open = {} THEN s ELSE pop(s, Pop(s.open))
      first == [open |-> {entry(<<start, parity>>, 0)}, done |-> None,
                best |-> [n \in Nodes |-> IF n = <<start, parity>> THEN 0 ELSE Far],
                from |-> [n \in Nodes |-> n]]
      leg(end) ==
        LET back(nodes) == IF end.from[nodes[1]] = nodes[1] THEN nodes
                           ELSE <<end.from[nodes[1]]>> \o nodes
            walked == Iterate(back, <<end.done.node>>, 2 * W * H)
        IN IF end.done = None THEN [is |-> "unreachable"]
           ELSE [is |-> "leg", cells |-> [i \in DOMAIN walked |-> walked[i][1]],
                 cost |-> end.done.g, parity |-> end.done.node[2]]
  IN leg(Iterate(turn, first, 8 * W * H))

(* Legs one after another; the parity goes on from leg to leg.             *)
CarriedParity(leg) == leg.parity
ResetParity(leg) == 0       \* Mutant: every leg is priced from parity 0.
EndParity(leg) == CarriedParity(leg)

join(v, sofar, goal) ==
  LET onto(leg) ==
        IF sofar.is = "unreachable" \/ leg.is = "unreachable" THEN [sofar EXCEPT !.is = "unreachable"]
        ELSE [is |-> "leg", cells |-> sofar.cells \o Tail(leg.cells),
              cost |-> sofar.cost + leg.cost, parity |-> EndParity(leg)]
  IN onto(astar_leg(v, Last(sofar.cells), goal, sofar.parity))

(* What a sequence of cells costs from parity 0, step by step.             *)
replay_step_costs(v, cells) ==
  LET price(i, p) == step_cost(v.rule, cells[i + 1][1] - cells[i][1],
                               cells[i + 1][2] - cells[i][2], p)
      after(p, i) == price(i, p)[2]
      parity[i \in 1..Len(cells)] == IF i = 1 THEN 0 ELSE after(parity[i - 1], i - 1)
  IN [i \in 1..(Len(cells) - 1) |-> price(i, parity[i])[1] * terrain_cost(v.field, cells[i + 1])]

Total(costs) == FoldLeft(LAMBDA a, b : a + b, 0, costs)

(* The route is cut at the first arrest it enters, then where the budget   *)
(* ends; its first point is where the token stands.                        *)
find(v, start, goals, budget) ==
  LET cut(legs, cells, costs) ==
        LET fits == {n \in 0..Len(costs) :
                       \A i \in 1..n : budget_admits_step(Total(SubSeq(costs, 1, i - 1)), costs[i], budget)}
            kept == Max(fits)
            short == kept < Len(costs)
            arrested == is_arrest(v.field, Last(cells)) /\ Len(cells) > 1
        IN [is |-> "route", cost |-> IF short THEN Total(SubSeq(costs, 1, kept))
                                     ELSE IF arrested THEN Total(costs) ELSE legs.cost,
            arrested |-> arrested /\ ~short, truncated |-> short,
            path |-> [i \in 1..(kept + 1) |-> IF i = 1 THEN start ELSE cell_center(cells[i])]]
      held(legs) ==
        LET stops == {i \in 2..Len(legs.cells) : is_arrest(v.field, legs.cells[i])}
        IN IF stops = {} THEN legs.cells ELSE SubSeq(legs.cells, 1, Min(stops))
      shown(legs, cells) ==
        IF legs.is = "unreachable" THEN [is |-> "unreachable"]
        ELSE cut(legs, cells, replay_step_costs(v, cells))
      route_of(legs) == shown(legs, held(legs))
  IN route_of(FoldLeft(LAMBDA s, g : join(v, s, g),
                       [is |-> "leg", cells |-> <<cell_of(start)>>, cost |-> 0, parity |-> 0], goals))

-----------------------------------------------------------------------------
(* The executor (move_exec.rs).  A segment longer than a cell is walked in *)
(* equal pieces of at most a cell.                                         *)
Pieces(a, b) ==
  LET long == Larger(Abs(b[1] - a[1]), Abs(b[2] - a[2]))
  IN IF long <= P THEN 1 ELSE (long + P - 1) \div P
OnLattice(path) ==
  \A i \in 1..(Len(path) - 1) : \A k \in 1..2 :
    (path[i + 1][k] - path[i][k]) % Pieces(path[i], path[i + 1]) = 0
gate_walk(path) ==
  LET piece(i) ==
        LET n == Pieces(path[i], path[i + 1])
            at(m, k) == path[i][k] + m * ((path[i + 1][k] - path[i][k]) \div n)
        IN [m \in 1..n |-> <<at(m, 1), at(m, 2)>>]
  IN <<path[1]>> \o FlattenSeq([i \in 1..(Len(path) - 1) |-> piece(i)])

(* The authoritative view: every wall and region, secret or not.           *)
execute_move(path) ==
  LET v == View(world.regions, world.walls)
      walk == gate_walk(path)
      checked == ~world.gm
      budget == IF checked THEN world.budget ELSE None
      blocked(a, b) == \E w \in v.walls : Reaches(b, v.radius, w) \/ segments_cross(a, b, w.a, w.b)
      unseen(a, b) == ~(line_traversal(a, b) \cup footprint_cells(b, v.radius) \subseteq v.mask)
      shut(b) == \E c \in footprint_cells(b, v.radius) : is_impassable(v.field, c)
      halt(s) == [s EXCEPT !.halted = TRUE]
      enter(s, i) ==
        LET c == cell_of(walk[i])
            price == step_cost(v.rule, c[1] - s.cell[1], c[2] - s.cell[2], s.parity)
            step == price[1] * terrain_cost(v.field, c)
            held == checked /\ is_arrest(v.field, c)
        IN IF \/ checked /\ shut(walk[i])
              \/ ~budget_admits_step(s.cost, step, budget)
           THEN halt(s)
           ELSE [s EXCEPT !.at = i, !.cell = c, !.parity = price[2], !.cost = @ + step,
                          !.entered = Append(@, c), !.halted = held, !.arrested = held]
      go(s, i) ==
        IF s.halted THEN s
        ELSE IF \/ checked /\ blocked(walk[i - 1], walk[i])
                \/ v.masked /\ unseen(walk[i - 1], walk[i])
        THEN halt(s)
        ELSE IF cell_of(walk[i]) = s.cell THEN [s EXCEPT !.at = i]
        ELSE enter(s, i)
      walked(end) ==
        [is |-> "walk", stop |-> walk[end.at], cost |-> end.cost, entered |-> end.entered,
         arrested |-> end.arrested, truncated |-> end.halted, walked |-> SubSeq(walk, 1, end.at)]
  IN walked(FoldLeft(go, [at |-> 1, cell |-> cell_of(walk[1]), parity |-> 0, cost |-> 0,
                          entered |-> <<>>, halted |-> FALSE, arrested |-> FALSE],
                     [n \in 1..(Len(walk) - 1) |-> n + 1]))

-----------------------------------------------------------------------------
Init ==
  /\ world \in Worlds
  /\ pos = world.start
  /\ route = None /\ last = None /\ moves = 0

(* A PathFind request, to one goal or through several.                     *)
pathfind(goals) ==
  /\ moves < MaxMoves
  /\ route' = [is |-> "shown", goals |-> goals,
                route |-> find(requester_view, pos, goals, IF world.gm THEN None ELSE world.budget)]
  /\ last' = None
  /\ UNCHANGED <<world, pos, moves>>

(* The token walks a path: the route it was shown, or one of its own.      *)
Walk(path, shown) ==
  /\ moves < MaxMoves /\ moves' = moves + 1
  /\ Len(path) >= 2 /\ OnLattice(path)
  /\ LET outcome == execute_move(path)
     IN /\ pos' = outcome.stop
        /\ last' = [path |-> path] @@ outcome
  /\ route' = IF shown = "route" THEN route ELSE None
  /\ UNCHANGED world
FollowRoute ==
  /\ route # None /\ last = None /\ route.route.is = "route"
  /\ Walk(route.route.path, "route")
OwnPath(cells) == route = None /\ Walk(<<pos>> \o [i \in DOMAIN cells |-> cell_center(cells[i])], "own")

Next ==
  \/ \E goals \in world.goals : pathfind(goals)
  \/ FollowRoute
  \/ \E cells \in Jumps : OwnPath(cells)

Spec == Init /\ [][Next]_vars

-----------------------------------------------------------------------------
(* Properties.                                                             *)

(* The cells whose inside the segment passes, by clipping it against each. *)
Touched(a, b) ==
  LET d(k) == b[k] - a[k]
      scale(k) == IF d(k) = 0 THEN 1 ELSE Abs(d(k))
      sign(k) == IF d(k) < 0 THEN -1 ELSE 1
      end == scale(1) * scale(2)
      at(edge, k) == (edge - a[k]) * sign(k) * scale(3 - k)
      lo(c, k) == IF d(k) > 0 THEN at(P * c[k], k) ELSE at(P * (c[k] + 1), k)
      hi(c, k) == IF d(k) > 0 THEN at(P * (c[k] + 1), k) ELSE at(P * c[k], k)
      within(c, k) == d(k) # 0 \/ (P * c[k] < a[k] /\ a[k] < P * (c[k] + 1))
      clip == {k \in 1..2 : d(k) # 0}
  IN {c \in Cells : /\ \A k \in 1..2 : within(c, k)
                    /\ Max({0} \cup {lo(c, k) : k \in clip})
                         < Min({end} \cup {hi(c, k) : k \in clip})}

(* A player's token is never walked over a cell its mask does not hold,    *)
(* whatever path the client makes up, from wherever an earlier walk was    *)
(* cut short: the supercover misses no cell the walk passes through        *)
(* (move_exec.rs:535, movement.rs:36).                                     *)
WalksOnlySeen ==
  last # None /\ world.masked /\ ~world.gm =>
    \A i \in 1..(Len(last.walked) - 1) :
      Touched(last.walked[i], last.walked[i + 1]) \subseteq world.mask

(* The nodes that can be reached, each with its least cost, by extending   *)
(* every walk until nothing is found cheaper.                              *)
Cheapest(v, start) ==
  LET edges == [n \in Nodes |-> neighbors_with_cost(v, n)]
      extend(known) ==
        LET all == known \cup UNION {{[node |-> e.node, cost |-> k.cost + e.cost] :
                                        e \in edges[k.node]} : k \in known}
        IN {x \in all : \A y \in all : y.node = x.node => x.cost <= y.cost}
  IN Iterate(extend, {[node |-> <<start, 0>>, cost |-> 0]}, 2 * W * H)

(* A* finds a cheapest route to a single goal, and fails only when there   *)
(* is none: each rule's heuristic is consistent whatever terrain           *)
(* multiplies, so the first goal popped is optimal and a stale entry may   *)
(* be skipped (pathfinding.rs:336).  Budget and arrest cut it afterwards.  *)
RouteIsCheapest ==
  route # None /\ last = None /\ Len(route.goals) = 1 =>
    LET costs == {x.cost : x \in {k \in Cheapest(requester_view, cell_of(pos)) :
                                    k.node[1] = route.goals[1]}}
        found == route.route
    IN IF found.is = "unreachable" THEN costs = {}
       ELSE found.arrested \/ found.truncated \/ found.cost = Min(costs)

(* Route and gate agree: a walk along a route the requester was shown goes *)
(* where the preview ended, at the cost it said and held by the arrest it  *)
(* showed, when nothing is secret from the requester and the token set out *)
(* from the middle of its cell (move_exec.rs:28, pathfinding.rs:530).      *)
AsShown ==
  LET shown == route.route
  IN /\ last.stop = Last(shown.path) /\ last.cost = shown.cost
     /\ last.arrested = shown.arrested /\ last.truncated = shown.arrested
Secretless == \A x \in world.regions \cup world.walls : ~x.secret
PreviewHolds ==
  last # None /\ route # None /\ ~world.gm /\ Secretless /\ AtCenter(last.path[1]) => AsShown
=============================================================================
