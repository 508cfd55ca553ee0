---------------------------- MODULE CombatClock ----------------------------
(***************************************************************************)
(* The combat clock (server/src/combat): a request loads a snapshot of the *)
(* combat with several queries and no lock, a pure transition turns it     *)
(* into field changes that carry the values they were computed from, and   *)
(* commit_combat (ws/room.rs) hands them to apply_intent, whose comparison *)
(* of those values with the stored ones is all that orders two requests.   *)
(* Ordinary writes to combatants and the scene's other combat interleave.  *)
(*                                                                         *)
(* Effects on hosts are abstracted to one resource per actor, recovered at *)
(* turn boundaries; messages and the byte bound of the history are left    *)
(* out.  Positions in order and records are counted from 1.                *)
(***************************************************************************)
EXTENDS Integers, Sequences, FiniteSets, Functions, SequencesExt

CONSTANTS
  Combatants,   \* combatant ids
  Life,         \* Life[c]: an event's lifespan (0: none); actors are not in its domain
  Hidden,       \* combatants players may not read
  Owned,        \* combatants a player owns
  Gain,         \* Gain[phase]: what the resource recovers at a phase
  MaxRes,       \* the resource's maximum
  Inits,        \* initiatives a roll may give
  MaxHistory,   \* MAX_TURN_HISTORY
  Worlds,       \* what a combat may start from: its order, the rules resolved for it,
                \*   whether the scene's other combat runs, combatants that are elsewhere
  Workers,      \* requests in flight
  Nobody,       \* no turn, no initiative
  MaxRound,     \* bound: the rounds explored
  MaxRequests,  \* bound: requests served
  MaxWrites     \* bound: ordinary writes that interleave

ASSUME ClockConstants ==
  /\ DOMAIN Life \subseteq Combatants /\ Hidden \subseteq Combatants /\ Owned \subseteq Combatants
  /\ MaxHistory \in Nat \ {0} /\ MaxRes \in Nat /\ Inits \subseteq Int
  /\ IsFiniteSet(Combatants)
  /\ \A w \in Worlds :
       /\ w.order \in Seq(Combatants) /\ Cardinality(Range(w.order)) = Len(w.order)
       /\ w.away \subseteq Combatants
       /\ w.rules \in [owner_may_end : BOOLEAN, rewind_restore : BOOLEAN,
                      forward_restore : BOOLEAN]

VARIABLES
  db,       \* the stored documents
  rules,    \* the rules snapshotted onto the combat
  flight,   \* flight[w]: a request being served
  done,     \* history: what the last step was
  torn,     \* history: an advance computed from documents of two moments was accepted
  served,   \* requests so far
  writes    \* ordinary writes so far

vars == <<db, rules, flight, done, torn, served, writes>>

IsEvent(c) == c \in DOMAIN Life
Idle == [at |-> "idle"]
Nothing == [kind |-> "none"]
Fresh(c) == [init |-> Nobody, res |-> IF IsEvent(c) THEN 0 ELSE MaxRes,
             life |-> IF IsEvent(c) THEN Life[c] ELSE 0]

-----------------------------------------------------------------------------
(* f where it is defined, g elsewhere; the elements of a sequence in S.    *)
Over(f, g) == [x \in DOMAIN f \cup DOMAIN g |-> IF x \in DOMAIN f THEN f[x] ELSE g[x]]
Kept(seq, S) ==
  FoldLeft(LAMBDA out, x : IF x \in S THEN Append(out, x) ELSE out, <<>>, seq)

(* Paths into the stored documents, and field changes.                     *)
Get(d, at) == IF Len(at) = 1 THEN d[at[1]]
              ELSE IF Len(at) = 2 THEN d.members[at[2]] ELSE d.members[at[2]][at[3]]
Put(d, at, v) == IF Len(at) = 1 THEN [d EXCEPT ![at[1]] = v]
                 ELSE IF Len(at) = 2 THEN [d EXCEPT !.members[at[2]] = v]
                 ELSE [d EXCEPT !.members[at[2]][at[3]] = v]

(* Working: the documents as the transition sees them, the changes so far, *)
(* the combatants it deletes and creates, and why it fails.                *)
Begin(d) == [d |-> d, changes |-> <<>>, deletes |-> {}, creates |-> [c \in {} |-> Nobody], err |-> "ok"]
Fail(w, why) == [w EXCEPT !.err = why]
set_engine(w, at, v) ==
  [w EXCEPT !.d = Put(@, at, v),
            !.changes = Append(@, [at |-> at, old |-> Get(w.d, at), new |-> v])]
SetIfNew(w, at, v) == IF Get(w.d, at) = v THEN w ELSE set_engine(w, at, v)

(* Mutant: changes of one field are left side by side.                     *)
Uncoalesced(w) == w
coalesce_updates(w) ==
  LET first(at) == CHOOSE i \in DOMAIN w.changes :
                     w.changes[i].at = at /\ \A j \in 1..i - 1 : w.changes[j].at # at
      gone(at) == Len(at) > 1 /\ at[2] \notin DOMAIN w.d.members
      merge(out, c) ==
        IF gone(c.at) \/ \E i \in DOMAIN out : out[i].at = c.at THEN out
        ELSE Append(out, [at |-> c.at, old |-> w.changes[first(c.at)].old,
                          new |-> Get(w.d, c.at)])
  IN [w EXCEPT !.changes = FoldLeft(merge, <<>>, w.changes)]

drop_departed(d) == Kept(d.order, DOMAIN d.members)
heal_order(w) == SetIfNew(w, <<"order">>, drop_departed(w.d))

(* Initiative decides, nobody's last; a tie keeps the order there was.     *)
(* An arrival goes to the end first.                                       *)
rebuild_order(members, existing) ==
  LET stay == Kept(existing, DOMAIN members)
      ids  == stay \o SetToSeq(DOMAIN members \ Range(stay))
      pos(c) == CHOOSE i \in DOMAIN ids : ids[i] = c
      before(b, c) ==
        LET x == members[b].init  y == members[c].init
        IN IF x = y THEN pos(b) < pos(c)
           ELSE y = Nobody \/ (x # Nobody /\ x > y)
  IN [i \in 1..Len(ids) |->
        CHOOSE c \in Range(ids) : Cardinality({b \in Range(ids) : before(b, c)}) = i - 1]

-----------------------------------------------------------------------------
(* History: the records of turn boundaries, a cursor at the present one.   *)

(* The oldest record goes when there are too many.                         *)
KeepsAll(records) == records
bounded_push(records) ==
  IF Len(records) > MaxHistory THEN SubSeq(records, Len(records) - MaxHistory + 1, Len(records))
  ELSE records

Record(d) == [round |-> d.round, turn |-> d.turn, members |-> d.members]

append_record(w) ==
  LET h == w.d.history
      kept == bounded_push(Append(SubSeq(h.records, 1, h.cursor), Record(w.d)))
  IN set_engine(w, <<"history">>, [records |-> kept, cursor |-> Len(kept)])

(* Every captured combatant back to its captured state: one change where   *)
(* it differs, a create where it is gone (which the mutant forgets).       *)
RestoreLive(w, record) ==
  FoldLeft(LAMBDA v, c : SetIfNew(v, <<"members", c>>, record.members[c]), w,
           SetToSeq(DOMAIN record.members \cap DOMAIN w.d.members))
restore(w, record) ==
  LET write(v, c) == IF c \in DOMAIN v.d.members
                     THEN SetIfNew(v, <<"members", c>>, record.members[c])
                     ELSE [v EXCEPT !.creates = Over([e \in {c} |-> record.members[e]], @)]
  IN FoldLeft(write, w, SetToSeq(DOMAIN record.members))

live_equals(d, record) ==
  \A c \in DOMAIN record.members : c \in DOMAIN d.members /\ d.members[c] = record.members[c]

resulting_combatants(d, record) == Over(record.members, d.members)

(* Clock, order and cursor to a record (rewind and fast_forward).          *)
GoTo(w, record, order, history) ==
  set_engine(SetIfNew(set_engine(set_engine(w, <<"round">>, record.round),
                                 <<"turn">>, record.turn),
                      <<"order">>, order), <<"history">>, history)

-----------------------------------------------------------------------------
(* The boundaries a turn walk crosses.                                     *)

recover(w, c, phase) ==
  IF IsEvent(c) THEN w
  ELSE LET sum == w.d.members[c].res + Gain[phase]
           new == IF sum < 0 THEN 0 ELSE IF sum > MaxRes THEN MaxRes ELSE sum
       IN SetIfNew(w, <<"members", c, "res">>, new)

(* When a round starts everyone in the order recovers, at a wrap for the   *)
(* end of the last one first.                                              *)
Everyone(w, wraps) ==
  FoldLeft(LAMBDA v, c : recover(IF wraps THEN recover(v, c, "round_end") ELSE v, c, "round_start"),
           w, w.d.order)
round_wrap(w) == Everyone(set_engine(w, <<"round">>, w.d.round + 1), TRUE)

(* Mutant: the boundary is recorded before the turn moves.                 *)
RecordedFirst(w, c) ==
  set_engine(append_record(recover(w, c, "turn_start")), <<"turn">>, c)
enter_turn(w, c) ==
  append_record(set_engine(recover(w, c, "turn_start"), <<"turn">>, c))

(* An event counts its lifespan down; an exhausted one leaves the order    *)
(* and is deleted.                                                         *)
Exhausted(w, c) == IsEvent(c) /\ w.d.members[c].life = 1
LeavesOrder(w, c) ==
  LET out == set_engine(w, <<"order">>, Kept(w.d.order, Range(w.d.order) \ {c}))
  IN [out EXCEPT !.d.members = Restrict(@, DOMAIN @ \ {c}), !.deletes = @ \cup {c}]
resolve_event(w, c) ==
  IF Exhausted(w, c) THEN LeavesOrder(w, c)
  ELSE IF w.d.members[c].life = 0 THEN w
  ELSE set_engine(w, <<"members", c, "life">>, w.d.members[c].life - 1)

auto_resolves(c) == IsEvent(c) \/ (c \in Hidden /\ rules.owner_may_end)

(* From a position, where the walk goes on: past the end a round wraps.    *)
advance_from(w, i, removed) ==
  LET next == IF removed THEN i ELSE i + 1
  IN IF next > Len(w.d.order) THEN <<round_wrap(w), 1>> ELSE <<w, next>>

(* Mutant: one step short of a full pass.                                  *)
ShortBudget(w) == Len(w.d.order) - 1
Budget(w) == Len(w.d.order)

(* Enter each turn from position i on; resolve and pass the ones nobody    *)
(* acts in, for one full pass and one step more per event that goes.       *)
settle_step(s, n) ==
  IF s.stop THEN s
  ELSE IF s.w.d.order = <<>> THEN [s EXCEPT !.stop = TRUE, !.w = Fail(@, "empty")]
  ELSE IF s.w.d.order[s.i] \notin DOMAIN s.w.d.members
  THEN [s EXCEPT !.stop = TRUE, !.w = Fail(@, "not found")]
  ELSE LET c == s.w.d.order[s.i]
           entered == enter_turn(s.w, c)
       IN IF ~auto_resolves(c) THEN [s EXCEPT !.stop = TRUE, !.w = entered]
          ELSE LET removed == Exhausted(entered, c)
                   over == IF removed THEN resolve_event(entered, c)
                           ELSE recover(IF IsEvent(c) THEN resolve_event(entered, c) ELSE entered,
                                        c, "turn_end")
                   next == advance_from(over, s.i, removed)
               IN IF ~removed /\ n >= s.budget THEN [s EXCEPT !.stop = TRUE, !.w = over]
                  ELSE [s EXCEPT !.w = next[1], !.i = next[2],
                                 !.budget = IF removed THEN @ + 1 ELSE @]
settle_turn(start, from) ==
  FoldLeft(settle_step, [stop |-> FALSE, w |-> start, i |-> from, budget |-> Budget(start)],
           [n \in 1..2 * Len(start.d.order) + 1 |-> n]).w

-----------------------------------------------------------------------------
(* The transitions: from a snapshot to changes, or a refusal.              *)

start(snap) ==
  LET healed == heal_order(Begin(snap))
      alone  == IF snap.other THEN set_engine(healed, <<"other">>, FALSE) ELSE healed
      open   == LET w == set_engine(set_engine(alone, <<"round">>, 1), <<"turn">>, alone.d.order[1])
                IN settle_turn(Everyone(w, FALSE), 1)
      ready  == IF alone.d.turn # Nobody THEN alone
                ELSE IF alone.d.order = <<>> THEN Fail(alone, "empty") ELSE open
  IN coalesce_updates(set_engine(ready, <<"active">>, TRUE))

CanFastForward(snap) ==
  /\ rules.forward_restore /\ snap.active
  /\ snap.history.cursor \in 1..Len(snap.history.records) - 1
  /\ live_equals(snap, snap.history.records[snap.history.cursor])

fast_forward(snap) ==
  LET h == snap.history
      next == h.records[h.cursor + 1]
  IN GoTo(restore(Begin(snap), next), next,
          rebuild_order(resulting_combatants(snap, next), snap.order),
          [h EXCEPT !.cursor = @ + 1])

advance(snap) ==
  IF CanFastForward(snap) THEN fast_forward(snap)
  ELSE IF ~snap.active THEN Fail(Begin(snap), "not running")
  ELSE IF snap.order = <<>> THEN Fail(Begin(snap), "empty")
  ELSE LET w == heal_order(Begin(snap))
           at == {i \in DOMAIN w.d.order : w.d.order[i] = snap.turn}
       IN IF at = {} THEN Fail(w, "not found")
          ELSE LET next == advance_from(recover(w, snap.turn, "turn_end"),
                                        CHOOSE i \in at : TRUE, FALSE)
               IN coalesce_updates(settle_turn(next[1], next[2]))

pause(snap) ==
  IF snap.active THEN set_engine(Begin(snap), <<"active">>, FALSE)
  ELSE Fail(Begin(snap), "not running")

(* CombatEngine::validate: no one twice in the order, and the turn in it.  *)
Valid(turn, order) ==
  /\ Cardinality(Range(order)) = Len(order)
  /\ turn = Nobody \/ turn \in Range(order)

rewind(snap) ==
  LET h == snap.history
      target == h.records[h.cursor - 1]
      order == IF rules.rewind_restore
               THEN rebuild_order(resulting_combatants(snap, target), snap.order) ELSE snap.order
      back == [records |-> IF rules.forward_restore THEN h.records
                           ELSE SubSeq(h.records, 1, h.cursor - 1),
               cursor |-> h.cursor - 1]
      from == IF rules.rewind_restore THEN restore(Begin(snap), target) ELSE Begin(snap)
  IN IF h.cursor < 2 THEN Fail(Begin(snap), "unrewindable")
     ELSE IF ~Valid(target.turn, order) THEN Fail(Begin(snap), "unreachable")
     ELSE GoTo(from, target, order, back)

roll(snap, c, init) ==
  IF c \notin DOMAIN snap.members THEN Fail(Begin(snap), "not found")
  ELSE LET w == set_engine(Begin(snap), <<"members", c, "init">>, init)
       IN set_engine(w, <<"order">>, rebuild_order(w.d.members, snap.order))

sort(snap) == SetIfNew(Begin(snap), <<"order">>, rebuild_order(snap.members, snap.order))

resource(snap, c, delta) ==
  IF c \notin DOMAIN snap.members \/ IsEvent(c) THEN Fail(Begin(snap), "not found")
  ELSE LET sum == snap.members[c].res + delta
       IN set_engine(Begin(snap), <<"members", c, "res">>,
                     IF sum < 0 THEN 0 ELSE IF sum > MaxRes THEN MaxRes ELSE sum)

build_ops(snap, r) ==
  CASE r.kind = "start"    -> start(snap)
    [] r.kind = "advance"  -> advance(snap)
    [] r.kind = "pause"    -> pause(snap)
    [] r.kind = "rewind"   -> rewind(snap)
    [] r.kind = "sort"     -> sort(snap)
    [] r.kind = "end"      -> Begin(snap)
    [] r.kind = "roll"     -> roll(snap, r.c, r.init)
    [] r.kind = "resource" -> resource(snap, r.c, r.delta)

(* A GM may always; a player may end a turn he owns where owners may, and  *)
(* roll and spend for combatants he owns; he must be able to read them.    *)
authorize(snap, r) ==
  LET owns(c) == c \in DOMAIN snap.members /\ c \in Owned \ Hidden
  IN \/ r.who = "gm"
     \/ r.kind = "advance" /\ rules.owner_may_end /\ owns(snap.turn)
     \/ r.kind \in {"roll", "resource"} /\ owns(r.c)

Requests ==
  [kind : {"start", "advance", "pause", "rewind", "sort", "end"}, who : {"gm"}]
    \cup [kind : {"advance"}, who : {"player"}]
    \cup [kind : {"roll"}, c : Owned, init : Inits, who : {"player"}]
    \cup [kind : {"resource"}, c : Owned, delta : {-1}, who : {"player"}]

-----------------------------------------------------------------------------
(* Everyone else in flight has been overtaken.                             *)
Overtake(f) == [w \in Workers |-> IF f[w].at = "idle" THEN f[w] ELSE [f[w] EXCEPT !.raced = TRUE]]

(* load_snapshot reads the combat's document ...                           *)
ReadCombat(w, r) ==
  /\ flight[w] = Idle /\ db.exists /\ served < MaxRequests
  /\ served' = served + 1
  /\ flight' = [flight EXCEPT ![w] = [at |-> "read", r |-> r, raced |-> FALSE,
                  combat |-> Restrict(db, {"active", "round", "turn", "order"})]]
  /\ done' = Nothing /\ UNCHANGED <<db, rules, torn, writes>>

(* ... and then its children and the scene's other combats; authorize and  *)
(* build_ops follow without another await.  A refusal ends the request.    *)
BuildOps(w) ==
  /\ flight[w].at = "read"
  /\ LET snap == Over(flight[w].combat, db)
         ops  == build_ops(snap, flight[w].r)
     IN flight' = [flight EXCEPT ![w] =
          IF db.exists /\ authorize(snap, flight[w].r) /\ ops.err = "ok" /\ ops.d.round <= MaxRound
          THEN [at |-> "built", kind |-> flight[w].r.kind,
                raced |-> flight[w].raced, torn |-> flight[w].raced,
                saw |-> <<snap.round, snap.turn, snap.order>>,
                redo |-> flight[w].r.kind = "advance" /\ CanFastForward(snap),
                ops |-> Restrict(ops, {"changes", "deletes", "creates"})]
          ELSE Idle]
  /\ done' = Nothing /\ UNCHANGED <<db, rules, torn, served, writes>>

(* apply_intent: a document that is gone or there again, a value that is   *)
(* not the one the change was made from, a scene that another combat has.  *)
(* A history document that is created has no value to compare.             *)
Conflicts(ops) ==
  \/ \E i \in DOMAIN ops.changes :
       LET c == ops.changes[i]
       IN \/ Len(c.at) > 1 /\ c.at[2] \notin DOMAIN db.members
          \/ /\ Len(c.at) = 1 \/ c.at[2] \in DOMAIN db.members
             /\ Get(db, c.at) # c.old
             /\ c.at # <<"history">> \/ c.old.cursor # 0
  \/ \E c \in ops.deletes : c \notin DOMAIN db.members
  \/ \E c \in DOMAIN ops.creates : c \in DOMAIN db.members \cup db.away

(* Mutant: the last writer wins.                                           *)
GoneOnly(ops) ==
  \/ \E i \in DOMAIN ops.changes :
       Len(ops.changes[i].at) > 1 /\ ops.changes[i].at[2] \notin DOMAIN db.members
  \/ \E c \in ops.deletes : c \notin DOMAIN db.members
  \/ \E c \in DOMAIN ops.creates : c \in DOMAIN db.members \cup db.away
Refused(ops) == Conflicts(ops)

Applied(ops) ==
  LET put == FoldLeft(LAMBDA d, c : Put(d, c.at, c.new), db, ops.changes)
  IN [put EXCEPT !.members = Restrict(Over(ops.creates, @), DOMAIN Over(ops.creates, @) \ ops.deletes)]

commit_combat(w) ==
  /\ flight[w].at = "built"
  /\ LET f == flight[w]
         after == Applied(f.ops)
         free == [flight EXCEPT ![w] = Idle]
         told(kind) == [kind |-> kind, raced |-> f.raced, saw |-> f.saw]
     IN IF ~db.exists \/ Refused(f.ops)
        THEN /\ done' = told("conflict") /\ flight' = free /\ UNCHANGED <<db, torn>>
        ELSE IF ~Valid(after.turn, after.order) \/ (after.active /\ after.other)
        THEN /\ done' = told("invalid") /\ flight' = free /\ UNCHANGED <<db, torn>>
        ELSE /\ db' = IF f.kind = "end" THEN [db EXCEPT !.exists = FALSE, !.active = FALSE] ELSE after
             /\ done' = told(IF f.redo THEN "redo" ELSE f.kind)
             /\ torn' = (torn \/ (f.torn /\ f.kind = "advance" /\ ~f.redo))
             /\ flight' = IF db' = db THEN free ELSE Overtake(free)
  /\ UNCHANGED <<rules, served, writes>>

-----------------------------------------------------------------------------
(* Ordinary intents: a combatant is added, deleted, or moved out of the    *)
(* combat and back; the scene's other combat starts and pauses.            *)
Write(d) ==
  /\ writes < MaxWrites /\ writes' = writes + 1
  /\ db' = d /\ flight' = Overtake(flight) /\ done' = Nothing
  /\ UNCHANGED <<rules, torn, served>>

AddCombatant(c) ==
  /\ db.exists /\ c \notin DOMAIN db.members \cup db.away
  /\ Write([db EXCEPT !.members = Over([e \in {c} |-> Fresh(e)], @)])
DeleteCombatant(c) ==
  /\ db.exists /\ c \in DOMAIN db.members
  /\ Write([db EXCEPT !.members = Restrict(@, DOMAIN @ \ {c})])
MoveCombatant(c) ==
  /\ db.exists
  /\ \/ /\ c \in DOMAIN db.members
        /\ Write([db EXCEPT !.members = Restrict(@, DOMAIN @ \ {c}), !.away = @ \cup {c}])
     \/ /\ c \in db.away
        /\ Write([db EXCEPT !.members = Over([e \in {c} |-> Fresh(e)], @), !.away = @ \ {c}])
OtherCombat ==
  \/ ~db.other /\ Write([db EXCEPT !.other = TRUE, !.active = FALSE])
  \/ db.other /\ Write([db EXCEPT !.other = FALSE])

Init ==
  /\ \E w \in Worlds :
       /\ rules = w.rules
       /\ db = [exists |-> TRUE, active |-> FALSE, round |-> 0, turn |-> Nobody, order |-> w.order,
                history |-> [records |-> <<>>, cursor |-> 0], other |-> w.other, away |-> w.away,
                members |-> [c \in Range(w.order) |-> Fresh(c)]]
  /\ flight = [w \in Workers |-> Idle]
  /\ done = Nothing /\ torn = FALSE /\ served = 0 /\ writes = 0

Next ==
  \/ \E w \in Workers : (\E r \in Requests : ReadCombat(w, r)) \/ BuildOps(w) \/ commit_combat(w)
  \/ \E c \in Combatants : AddCombatant(c) \/ DeleteCombatant(c) \/ MoveCombatant(c)
  \/ OtherCombat

Spec == Init /\ [][Next]_vars

-----------------------------------------------------------------------------
TypeOK ==
  /\ db.active \in BOOLEAN /\ db.round \in 0..MaxRound
  /\ Valid(db.turn, db.order) /\ Range(db.order) \subseteq Combatants
  /\ DOMAIN db.members \subseteq Combatants /\ db.away \cap DOMAIN db.members = {}
  /\ \A c \in DOMAIN db.members : db.members[c].res \in 0..MaxRes
  /\ Len(db.history.records) <= MaxHistory
  /\ \E w \in Worlds : rules = w.rules

(* The history's cursor names the boundary the clock stands at, whatever   *)
(* walks, rewinds, redos, evictions and races there were: rewind and       *)
(* fast_forward count from it without looking at the clock.  An advance    *)
(* whose snapshot is of two moments is the exception, for it may add a     *)
(* boundary in a round that is over: a full round later the turn is as it  *)
(* read it, and it does not write the round.                               *)
CursorAtClockUnlessTorn ==
  db.history.cursor # 0 /\ ~torn =>
    LET record == db.history.records[db.history.cursor]
    IN record.round = db.round /\ record.turn = db.turn

(* Two requests to end one turn end it once: an advance that is accepted   *)
(* ends the turn of the round it was computed from, again unless one was   *)
(* accepted whose snapshot is of two moments: past it, going back and      *)
(* forth in the history changes the round under an advance in flight.      *)
NoTurnSkippedUnlessTorn ==
  [][done'.kind \in {"advance", "redo"} /\ ~torn' =>
       done'.saw[1] = db.round /\ done'.saw[2] = db.turn]_vars

(* The changes of a transition never contradict each other or the          *)
(* documents they were computed from: one that nobody overtook is not a    *)
(* conflict (coalesce_updates), unless a combatant it brings back has      *)
(* moved elsewhere.                                                        *)
UnracedCommits ==
  done.kind = "conflict" => done.raced \/ db.away # {}

(* "turn" stops at a turn somebody acts in, as long as there is one in     *)
(* the order, unless the order changed under it: a walk that passes nobody *)
(* out of the order does not write it, and does not notice somebody who    *)
(* came into it since.  An event goes with its place in the order, always. *)
TurnSettlesUnlessReordered ==
  [][done'.kind = "advance" =>
       /\ auto_resolves(db'.turn) /\ done'.saw[3] = db.order
            => \A c \in Range(db'.order) : auto_resolves(c)
       /\ \A c \in DOMAIN db.members \ DOMAIN db'.members : c \notin Range(db'.order)]_vars

(* A restoring rewind, or a redo, that nobody overtook leaves every        *)
(* captured combatant as it was at the boundary the clock went to.         *)
RestoresUnlessRaced ==
  [][(done'.kind = "redo" \/ (done'.kind = "rewind" /\ rules.rewind_restore)) /\ ~done'.raced
       => live_equals(db', db'.history.records[db'.history.cursor])]_vars
=============================================================================
