----------------------------- MODULE MoveCommits -----------------------------
(***************************************************************************)
(* A token's move as the Room commits it (ws/room.rs): under publish_guard *)
(* the walk is committed, then the combat resource it cost, then what the  *)
(* regions it entered do to the token, each a transaction of its own that  *)
(* a crash or a storage error may cut off from the one before.  Turns pass *)
(* meanwhile, from snapshots loaded without the guard.                     *)
(*                                                                         *)
(* The walk is GridMoves' on a corridor of cells at one unit each; a       *)
(* combat of two runs on the scene "here", none on "there".                *)
(***************************************************************************)
EXTENDS Integers, Sequences, FiniteSets, SequencesExt, FiniteSetsExt

CONSTANTS
  Size,         \* cells of a corridor
  Full,         \* the resource's maximum, which a turn's start recovers
  Corridors,    \* the enforcement and the regions; see MoveInit
  Duration,     \* how long a move's stream runs
  MaxMoves, MaxTurns, MaxClock, MaxFailures    \* bounds

VARIABLES
  world,        \* enforcement and regions, fixed
  token,        \* its scene and cell
  combat,       \* whose turn, which round, what the token's combatant has left
  advance,      \* an advance in flight: the combat it loaded, or None
  flight,       \* the holder of publish_guard, step by step, or None
  moving,       \* when the token's stream ends
  clock,
  ledger        \* of this turn: paced by the player, granted by regions; of all: what failed

moveVars == <<world, token, combat, advance, flight, moving, clock, ledger>>

None == [is |-> "none"]
Floor == 0..Size - 1
Scenes == {"here", "there"}

ASSUME MoveAssumption ==
  /\ Size \in Nat \ {0} /\ Full \in Nat /\ Duration \in Nat \ {0}
  /\ \A w \in Corridors : \A r \in w.regions :
       r.effect.is = "teleport" /\ r.effect.scene \in Scenes => r.effect.cell \in Floor

Clamp(n) == Max({0, Min({n, Full})})

-----------------------------------------------------------------------------
(* The budget gate: none off the combat's scene; the GM is exempt, and     *)
(* soft enforcement stops nobody.  What the walk costs is spent all the    *)
(* same.                                                                   *)
Gated == token.scene = "here"
Held(gm) == Gated /\ ~gm /\ world.enforcement = "hard"
NotYourTurn(gm) == Held(gm) /\ combat.turn # "mine"
resource_cells(gm) == IF Held(gm) THEN combat.left ELSE Size

Arrests(scene, c) == \E r \in world.regions : r.scene = scene /\ c \in r.cells /\ r.arrests

(* How far towards a cell the walk gets: the budget, or the first arrest.  *)
Steps(to, gm) ==
  LET dir == IF to < token.cell THEN -1 ELSE 1
      all == [i \in 1..((to - token.cell) * dir) |-> token.cell + i * dir]
      paid == SubSeq(all, 1, Min({Len(all), resource_cells(gm)}))
      held == IF gm THEN {} ELSE {i \in DOMAIN paid : Arrests(token.scene, paid[i])}
  IN IF held = {} THEN paid ELSE SubSeq(paid, 1, Min(held))

(* Commit 1: the position.  No progress commits, locks and fires nothing.  *)
execute_move(gm, to) ==
  /\ flight = None /\ ledger.moves < MaxMoves
  /\ clock >= moving /\ ~NotYourTurn(gm)
  /\ LET entered == Steps(to, gm)
         stop == Last(entered)
     IN /\ entered # <<>>
        /\ token' = [token EXCEPT !.cell = stop]
        /\ flight' = [is |-> "moved", scene |-> token.scene, entered |-> Range(entered),
                      arrest |-> ~gm /\ Arrests(token.scene, stop), gated |-> Gated,
                      had |-> combat.left, cost |-> Len(entered), hop |-> TRUE, walk |-> TRUE]
        /\ ledger' = [ledger EXCEPT !.moves = @ + 1, !.hops = 0,
                                    !.paced = IF Held(gm) THEN @ + Len(entered) ELSE @]
  /\ UNCHANGED <<world, combat, advance, moving, clock>>

(* Commit 2: the resource, at the pre-image the budget was resolved from.  *)
(* A failure is logged and the move stands.                                *)
Unspent == [ledger EXCEPT !.failures = @ + 1, !.unpaid = TRUE]
Spend(left) == [combat EXCEPT !.left = left]
Decrement == Spend(Max({flight.had - flight.cost, 0}))

(* Mutant: an arrested walk is not charged.                                *)
OnlyFreeWalks == IF flight.arrest THEN combat ELSE Decrement
Charged == Decrement

spend_budget ==
  /\ flight.is = "moved"
  /\ flight' = [flight EXCEPT !.is = "fire"]
  /\ \/ /\ flight.gated /\ combat.left = flight.had
        /\ combat' = Charged /\ UNCHANGED ledger
     \/ /\ flight.gated /\ ledger.failures < MaxFailures
        /\ ledger' = Unspent /\ UNCHANGED combat
     \/ ~flight.gated /\ UNCHANGED <<combat, ledger>>
  /\ UNCHANGED <<world, token, advance, moving, clock>>

-----------------------------------------------------------------------------
(* Commit 3: the effects of the regions entered, in one batch.  Conditions *)
(* and notices are further members of the batch and are left out.          *)
fired_triggers ==
  {r \in world.regions :
     /\ r.scene = flight.scene
     /\ IF r.on = "enter" THEN flight.entered \cap r.cells # {}
        ELSE flight.arrest /\ token.cell \in r.cells}

Fired(effect) == {r \in fired_triggers : r.effect.is = effect}

(* One teleport is taken, the first that fired, in no particular order; it *)
(* needs a scene of this world, and is refused after a hop.                *)
Taken ==
  LET portals == {r.effect : r \in Fired("teleport")}
      to(e) == IF flight.hop /\ e.scene \in Scenes THEN e ELSE None
  IN IF portals = {} THEN {None} ELSE {to(e) : e \in portals}
(* Mutant: a portal entered through a portal takes the token on.           *)
ChainedHop == [flight EXCEPT !.hop = TRUE]
OneHop == [flight EXCEPT !.hop = FALSE]
AfterHop == OneHop

(* Resource effects are summed, then clamped; off the combat's scene they  *)
(* are refused with a notice.                                              *)
DeltaOf(regions) == MapThenSumSet(LAMBDA r : r.effect.by, regions)
ASSUME DeltaAssumption ==
  \A w \in Corridors : \A regions \in SUBSET {r \in w.regions : r.effect.is = "resource"} :
    DeltaOf(regions) \in Int
Resourced ==
  IF flight.scene = "here" THEN Clamp(combat.left + DeltaOf(Fired("resource"))) ELSE combat.left

Done == [flight EXCEPT !.is = "done"]
Refire(e) == [AfterHop EXCEPT !.scene = e.scene, !.entered = {e.cell}, !.arrest = FALSE]

Effects(e) ==
  /\ token' = [scene |-> IF e = None THEN token.scene ELSE e.scene,
               cell |-> IF e = None THEN token.cell ELSE e.cell]
  /\ combat' = [combat EXCEPT !.left = Resourced]
  /\ flight' = IF e = None THEN Done ELSE Refire(e)
  /\ ledger' = [ledger EXCEPT !.granted = @ + Max({0, Resourced - combat.left}),
                              !.hops = IF e = None THEN @ ELSE @ + 1]

fire_region_triggers ==
  /\ flight.is = "fire"
  /\ \/ fired_triggers = {} /\ flight' = Done /\ UNCHANGED <<token, combat, ledger>>
     \/ /\ fired_triggers # {}
        /\ \E e \in Taken : Effects(e)
     \/ /\ fired_triggers # {} /\ ledger.failures < MaxFailures
        /\ flight' = Done /\ ledger' = [ledger EXCEPT !.failures = @ + 1]
        /\ UNCHANGED <<token, combat>>
  /\ UNCHANGED <<world, advance, moving, clock>>

(* The stream is registered, the guard let go.  A placement has no stream. *)
Finish ==
  /\ flight.is = "done"
  /\ moving' = IF flight.walk THEN clock + Duration ELSE moving
  /\ flight' = None
  /\ UNCHANGED <<world, token, combat, advance, clock, ledger>>

(* The GM drags the token: publish asks for no turn, budget or lock, and   *)
(* fires where the token lands.                                            *)
fire_placement_triggers(c) ==
  /\ flight = None /\ ledger.moves < MaxMoves /\ c # token.cell
  /\ token' = [token EXCEPT !.cell = c]
  /\ flight' = [is |-> "fire", scene |-> token.scene, entered |-> {c}, arrest |-> FALSE,
                gated |-> FALSE, had |-> 0, cost |-> 0, hop |-> TRUE, walk |-> FALSE]
  /\ ledger' = [ledger EXCEPT !.moves = @ + 1, !.hops = 0]
  /\ UNCHANGED <<world, combat, advance, moving, clock>>

-----------------------------------------------------------------------------
(* An advance: loaded at any moment, committed under the guard against     *)
(* what it read and writes: the turn, the round, and a resource its        *)
(* recovery changes.                                                       *)
LoadAdvance ==
  /\ advance = None /\ combat.round < MaxTurns
  /\ advance' = combat @@ [is |-> "loaded"]
  /\ UNCHANGED <<world, token, combat, flight, moving, clock, ledger>>

Recovers == advance.turn = "theirs" /\ advance.left # Full
Conflicts ==
  \/ combat.turn # advance.turn \/ combat.round # advance.round
  \/ Recovers /\ combat.left # advance.left
CommitAdvance ==
  /\ advance # None /\ flight = None
  /\ advance' = None
  /\ \/ Conflicts /\ UNCHANGED <<combat, ledger>>
     \/ /\ ~Conflicts
        /\ combat' = [turn |-> IF advance.turn = "mine" THEN "theirs" ELSE "mine",
                      round |-> combat.round + 1,
                      left |-> IF Recovers THEN Full ELSE combat.left]
        /\ ledger' = IF combat'.turn = "mine" THEN [ledger EXCEPT !.paced = 0, !.granted = 0]
                     ELSE ledger
  /\ UNCHANGED <<world, token, flight, moving, clock>>

Tick ==
  /\ clock < MaxClock /\ clock' = clock + 1
  /\ UNCHANGED <<world, token, combat, advance, flight, moving, ledger>>

(* The server restarts: what was committed is what there is.               *)
Crash ==
  /\ ledger.failures < MaxFailures
  /\ flight # None
  /\ ledger' = [ledger EXCEPT !.failures = @ + 1, !.unpaid = @ \/ flight.is = "moved"]
  /\ flight' = None /\ advance' = None /\ moving' = 0
  /\ UNCHANGED <<world, token, combat, clock>>

MoveInit ==
  /\ world \in Corridors
  /\ token = [scene |-> "here", cell |-> 0]
  /\ combat = [turn |-> "mine", round |-> 1, left |-> Full]
  /\ advance = None /\ flight = None
  /\ moving = 0 /\ clock = 0
  /\ ledger = [moves |-> 0, hops |-> 0, paced |-> 0, granted |-> 0, failures |-> 0, unpaid |-> FALSE]

MoveNext ==
  \/ \E gm \in BOOLEAN, to \in Floor : execute_move(gm, to)
  \/ spend_budget \/ fire_region_triggers \/ Finish
  \/ \E c \in Floor : fire_placement_triggers(c)
  \/ LoadAdvance \/ CommitAdvance \/ Tick \/ Crash

MoveSpec == MoveInit /\ [][MoveNext]_moveVars

-----------------------------------------------------------------------------
(* The phases of a move: positioned, charged, fired.                       *)
Flights ==
  [is : {"moved", "fire", "done"}, scene : Scenes, entered : SUBSET Floor, arrest : BOOLEAN,
   gated : BOOLEAN, had : Nat, cost : Nat, hop : BOOLEAN, walk : BOOLEAN]
Ledger ==
  [moves : Nat, hops : Nat, paced : Nat, granted : Nat, failures : Nat, unpaid : BOOLEAN]
MoveTypeOK ==
  /\ world \in Corridors
  /\ token \in [scene : Scenes, cell : Floor]
  /\ combat \in [turn : {"mine", "theirs"}, round : Nat, left : 0..Full]
  /\ flight = None \/ flight \in Flights
  /\ moving \in Nat /\ clock \in Nat
  /\ ledger \in Ledger


(* Under hard enforcement a player never walks further in a turn than its  *)
(* resource paid for, however walks, drags, regions, portals and advances  *)
(* interleave: what it has walked since the turn began and what it has     *)
(* left come to no more than a full resource and what regions gave it.     *)
(* Only a decrement that failed alone breaks it (room.rs:1876).            *)
BudgetKept ==
  /\ world.enforcement = "hard" /\ ~ledger.unpaid
  /\ flight = None \/ flight.is # "moved"
  => ledger.paced + combat.left <= Full + ledger.granted

(* One hop per move: portals that lead to each other pass a token on once, *)
(* and a move's effects come to an end (room.rs:2513).                     *)
HopsOnce == ledger.hops <= 1
=============================================================================
