------------------------------ MODULE RoomSync ------------------------------
(***************************************************************************)
(* One world's event stream, from the publish path of the server's Room    *)
(* (src/server/src/ws/room.rs) through each connection's ingress and       *)
(* egress tasks (ws/conn.rs) to the client's WsClient (client/core/src/    *)
(* ws-client.ts), with the snapshot bootstrap of a session                 *)
(* (worldSession.svelte.ts, http/routes.rs).  An event is its seq: what a  *)
(* command contains is another module's business.                          *)
(***************************************************************************)
EXTENDS Integers, Sequences

CONSTANTS
  Clients,       \* client sessions (browser tabs)
  Users,         \* accounts
  UserOf,        \* the account a session is logged in as
  EnforceFloor,  \* Room.resync_floor_enforced_flag: TRUE in production
  RingCap,       \* MAX_EVENTS
  BroadcastCap,  \* BROADCAST_CAPACITY
  MaxSeq,        \* bound: commands committed
  MaxOpens,      \* bound: sockets each session opens
  MaxRestarts    \* bound: server restarts

ASSUME ConstantsOK ==
  /\ UserOf \in [Clients -> Users]
  /\ EnforceFloor \in BOOLEAN
  /\ RingCap \in Nat \ {0}
  /\ BroadcastCap \in Nat \ {0}
  /\ MaxSeq \in Nat
  /\ MaxOpens \in Nat
  /\ MaxRestarts \in Nat

VARIABLES
  events,          \* the durable log is 1..events (worlds.seq, the events table)
  commit,          \* how far commit_ops_locked has got with seq `events`
  current_seq,     \* Room.current_seq
  ring,            \* Room.ring, oldest first
  dropped,         \* history: the stored seqs whose publish this Room saw cut off
  session_floors,  \* Room.session_floors
  stale,           \* handle_socket calls whose socket is dead and that still count
  sess,            \* sess[c]: how far handle_socket has got for c's socket
  rx,              \* rx[c]: events in c's broadcast receiver
  lagged,          \* lagged[c]: rx[c] overflowed since the last recv
  erx,             \* erx[c]: Egress::Resync commands queued for c's egress
  next_expected,   \* next_expected[c]: the egress loop's watermark
  up, down,        \* frames in flight from and to c
  phase,           \* phase[c]: the session's own progress
  hasEverOpened,   \* WsClient.#hasEverOpened
  nextExpected,    \* WsClient.nextExpected
  base,            \* history: the watermark c's WsClient started from
  seen,            \* history: the seqs handed to onCommand, in order
  catchingUp,      \* history: c's socket has a catch-up replay yet to be served
  lost,            \* history: lost[c]: the seqs a replay since c entered passed by
  opens, restarts  \* counters for the bounds

room   == <<events, commit, current_seq, ring, dropped>>
server == <<room, session_floors, stale>>
egress == <<sess, rx, lagged, erx, next_expected>>
wire   == <<up, down>>
client == <<phase, hasEverOpened, nextExpected, base, seen>>
causes == <<catchingUp, lost>>
bounds == <<opens, restarts>>
vars   == <<server, egress, wire, client, causes, bounds>>

NoFloor == -1
NotEntered == -1

UpFrame   == [type : {"hello_cold", "hello"}, seq : Nat]
               \cup [type : {"resync_request"}, seq : Nat \ {0}]
DownFrame == [type : {"welcome", "event", "resync_end"}, seq : Nat]

MaxOf(a, b) == IF a >= b THEN a ELSE b
MinOf(a, b) == IF a <= b THEN a ELSE b

-----------------------------------------------------------------------------
(* RingBuffer                                                              *)

(* A push that forgets MAX_EVENTS.                                         *)
PushRingUncapped(r, n) ==
  {SubSeq(Append(r, n), Len(r) + 2 - k, Len(r) + 1) : k \in 1..(Len(r) + 1)}

(* push: append, then drop the oldest beyond MAX_EVENTS and every one more *)
(* than MAX_AGE_MS older than the newest.  How many the age rule drops is  *)
(* any number, but never the event just pushed.                            *)
PushRing(r, n) ==
  {SubSeq(Append(r, n), Len(r) + 2 - k, Len(r) + 1) :
     k \in 1..MinOf(Len(r) + 1, RingCap)}

(* Where the residents with seq >= from start in an ascending ring.        *)
FirstFrom(r, from) ==
  CHOOSE i \in 1..(Len(r) + 1) :
    /\ \A j \in 1..(i - 1) : r[j] < from
    /\ \A j \in i..Len(r) : r[j] >= from

(* A range_from that never compares the oldest resident with from.         *)
ResidentUnchecked(r, from) == r # <<>>

(* range_from says Some when the oldest resident is at or before from.     *)
Resident(r, from) == r # <<>> /\ r[1] <= from

RangeFrom(r, from) == SubSeq(r, FirstFrom(r, from), Len(r))

(* resync_range: the hot ring when it holds the whole range, else the log. *)
ResyncRange(from) ==
  IF Resident(ring, from)
    THEN RangeFrom(ring, from)
    ELSE [i \in 1..(IF from > events THEN 0 ELSE events - from + 1) |-> from + i - 1]

-----------------------------------------------------------------------------
(* Room                                                                    *)

(* The lowest from_seq a user's explicit resync may ask for.               *)
ResyncFloor(u) ==
  IF session_floors[u] = NoFloor THEN current_seq + 1 ELSE session_floors[u] + 1

ClampFrom(u, from) ==
  IF EnforceFloor THEN MaxOf(from, ResyncFloor(u)) ELSE from

(* The fields of Room::new over the durable log: get_or_create after the   *)
(* room was reaped or the process restarted.  Nothing of the old room's    *)
(* memory survives, an unfinished publish's broadcast included.            *)
FreshRoom ==
  /\ commit' = "idle"
  /\ current_seq' = events
  /\ ring' = <<>>
  /\ dropped' = {}
  /\ session_floors' = [u \in Users |-> NoFloor]

(* commit_ops_locked, under publish_guard, in its four visible steps: the  *)
(* transaction of apply_intent, the ring, the atomic, the broadcast.  A    *)
(* refused intent changes none of them.                                    *)
CommitStore ==
  /\ commit = "idle"
  /\ events < MaxSeq
  /\ events' = events + 1
  /\ commit' = "stored"
  /\ UNCHANGED <<current_seq, ring, dropped, session_floors, stale, egress, wire,
                 client, causes, bounds>>

(* A publish may run inside an HTTP request (write_ops), and the server    *)
(* drops a request's future with its connection: at the awaits of the      *)
(* scene's and the ring's lock the command is stored and nothing else is   *)
(* done.  publish_guard is released, and the next command finds a ring and *)
(* a current_seq that never heard of this one.                             *)
PublishDropped ==
  /\ commit = "stored"
  /\ commit' = "idle"
  /\ dropped' = dropped \cup {events}
  /\ UNCHANGED <<events, current_seq, ring, session_floors, stale, egress, wire,
                 client, causes, bounds>>

CommitRing ==
  /\ commit = "stored"
  /\ ring' \in PushRing(ring, events)
  /\ commit' = "pushed"
  /\ UNCHANGED <<events, current_seq, dropped, session_floors, stale, egress, wire,
                 client, causes, bounds>>

CommitSeq ==
  /\ commit = "pushed"
  /\ current_seq' = events
  /\ commit' = "visible"
  /\ UNCHANGED <<events, ring, dropped, session_floors, stale, egress, wire,
                 client, causes, bounds>>

(* A full receiver loses its oldest event and reports Lagged on its next   *)
(* recv (tokio::sync::broadcast).                                          *)
Overflows(c) == sess[c] # "none" /\ Len(rx[c]) >= BroadcastCap

Received(c) ==
  IF sess[c] = "none" THEN rx[c]
  ELSE IF Overflows(c) THEN Append(Tail(rx[c]), events)
  ELSE Append(rx[c], events)

CommitSend ==
  /\ commit = "visible"
  /\ commit' = "idle"
  /\ rx' = [c \in Clients |-> Received(c)]
  /\ lagged' = [c \in Clients |-> lagged[c] \/ Overflows(c)]
  /\ UNCHANGED <<events, current_seq, ring, dropped, session_floors, stale, sess,
                 erx, next_expected, wire, client, causes, bounds>>

Commit == CommitStore \/ PublishDropped \/ CommitRing \/ CommitSeq \/ CommitSend

-----------------------------------------------------------------------------
(* The session's bootstrap and its socket's life                           *)

(* world_snapshot reads the documents first and the room's seq afterwards. *)
SnapshotDocs(c) ==
  /\ phase[c] = "out"
  /\ phase' = [phase EXCEPT ![c] = "snapshot"]
  /\ UNCHANGED <<server, egress, wire, hasEverOpened, nextExpected, base, seen,
                 causes, bounds>>

StartAt(c, seq) ==
  /\ phase' = [phase EXCEPT ![c] = "closed"]
  /\ base' = [base EXCEPT ![c] = seq]
  /\ nextExpected' = [nextExpected EXCEPT ![c] = MaxOf(@, seq + 1)]

(* The rest of world_snapshot, then enter's seedDocuments, seedWatermark   *)
(* and start.                                                              *)
SnapshotSeq(c) ==
  /\ phase[c] = "snapshot"
  /\ StartAt(c, current_seq)
  /\ UNCHANGED <<server, egress, wire, hasEverOpened, seen, causes, bounds>>

(* enter's catch: the watermark stays unseeded.                            *)
SnapshotFails(c) ==
  /\ phase[c] \in {"out", "snapshot"}
  /\ StartAt(c, 0)
  /\ UNCHANGED <<server, egress, wire, hasEverOpened, seen, causes, bounds>>

(* A hello whose watermark is one short of the last event applied.         *)
HelloShort(c) ==
  IF hasEverOpened[c] THEN [type |-> "hello", seq |-> nextExpected[c] - 2]
                      ELSE [type |-> "hello_cold", seq |-> 0]

(* WsClient.open: the socket is accepted, handle_socket counts and         *)
(* subscribes it, and Hello is the client's first frame, with last_seq     *)
(* null only on this instance's first open.                                *)
Hello(c) ==
  IF hasEverOpened[c] THEN [type |-> "hello", seq |-> nextExpected[c] - 1]
                      ELSE [type |-> "hello_cold", seq |-> 0]

Connect(c) ==
  /\ phase[c] = "closed"
  /\ opens[c] < MaxOpens
  /\ opens' = [opens EXCEPT ![c] = @ + 1]
  /\ phase' = [phase EXCEPT ![c] = "open"]
  /\ hasEverOpened' = [hasEverOpened EXCEPT ![c] = TRUE]
  /\ up' = [up EXCEPT ![c] = <<Hello(c)>>]
  /\ sess' = [sess EXCEPT ![c] = "subscribed"]
  /\ UNCHANGED <<server, rx, lagged, erx, next_expected, down,
                 nextExpected, base, seen, causes, restarts>>

(* An egress watermark at the newest event instead of the one after it.    *)
WelcomeShort(c) ==
  /\ sess[c] = "subscribed"
  /\ sess' = [sess EXCEPT ![c] = "live"]
  /\ next_expected' = [next_expected EXCEPT ![c] = current_seq]
  /\ down' = [down EXCEPT ![c] = <<[type |-> "welcome", seq |-> current_seq]>>]
  /\ catchingUp' = [catchingUp EXCEPT ![c] = current_seq >= nextExpected[c]]
  /\ UNCHANGED <<server, rx, lagged, erx, up, client, lost, bounds>>

(* subscribe's second half reads current_seq; the egress loop opens with   *)
(* Welcome and that watermark.                                             *)
Welcome(c) ==
  /\ sess[c] = "subscribed"
  /\ sess' = [sess EXCEPT ![c] = "live"]
  /\ next_expected' = [next_expected EXCEPT ![c] = current_seq + 1]
  /\ down' = [down EXCEPT ![c] = <<[type |-> "welcome", seq |-> current_seq]>>]
  /\ catchingUp' = [catchingUp EXCEPT ![c] = current_seq >= nextExpected[c]]
  /\ UNCHANGED <<server, rx, lagged, erx, up, client, lost, bounds>>

(* The socket is gone: frames in flight both ways are lost, and what the   *)
(* connection's tasks held is dropped.                                     *)
Cut(S) ==
  /\ sess' = [c \in Clients |-> IF c \in S THEN "none" ELSE sess[c]]
  /\ rx' = [c \in Clients |-> IF c \in S THEN <<>> ELSE rx[c]]
  /\ lagged' = [c \in Clients |-> c \notin S /\ lagged[c]]
  /\ erx' = [c \in Clients |-> IF c \in S THEN <<>> ELSE erx[c]]
  /\ up' = [c \in Clients |-> IF c \in S THEN <<>> ELSE up[c]]
  /\ down' = [c \in Clients |-> IF c \in S THEN <<>> ELSE down[c]]
  /\ next_expected' = [c \in Clients |-> IF c \in S THEN 0 ELSE next_expected[c]]
  /\ catchingUp' = [c \in Clients |-> c \notin S /\ catchingUp[c]]

(* handleClose: the watermark survives, the session will reconnect.        *)
Disconnect(c) ==
  /\ phase[c] = "open"
  /\ Cut({c})
  /\ phase' = [phase EXCEPT ![c] = "closed"]
  /\ stale' = stale + 1
  /\ UNCHANGED <<room, session_floors, hasEverOpened, nextExpected, base, seen,
                 lost, bounds>>

(* leave, or an evicted frame: the session is over.  Entering again builds *)
(* a new WsClient (or a new page).                                         *)
Leave(c) ==
  /\ phase[c] \in {"closed", "open"}
  /\ Cut({c})
  /\ phase' = [phase EXCEPT ![c] = "out"]
  /\ hasEverOpened' = [hasEverOpened EXCEPT ![c] = FALSE]
  /\ nextExpected' = [nextExpected EXCEPT ![c] = 1]
  /\ base' = [base EXCEPT ![c] = NotEntered]
  /\ seen' = [seen EXCEPT ![c] = <<>>]
  /\ lost' = [lost EXCEPT ![c] = {}]
  /\ stale' = IF phase[c] = "open" THEN stale + 1 ELSE stale
  /\ UNCHANGED <<room, session_floors, bounds>>

Attached == {c \in Clients : sess[c] # "none"}

(* The end of handle_socket, some time after its socket died: the last one *)
(* out reaps the room (reap_if_empty), and a later get_or_create builds a  *)
(* fresh one.                                                              *)
HandlerEnds ==
  /\ stale > 0
  /\ stale' = stale - 1
  /\ IF stale' = 0 /\ Attached = {}
       THEN FreshRoom /\ UNCHANGED events
       ELSE UNCHANGED <<room, session_floors>>
  /\ UNCHANGED <<egress, wire, client, causes, bounds>>

(* The process stops, at any point, and starts again.                      *)
Restart ==
  /\ restarts < MaxRestarts
  /\ restarts' = restarts + 1
  /\ FreshRoom
  /\ stale' = 0
  /\ Cut(Clients)
  /\ phase' = [c \in Clients |->
                 CASE phase[c] = "open" -> "closed"
                   [] phase[c] = "snapshot" -> "out"
                   [] OTHER -> phase[c]]
  /\ UNCHANGED <<events, hasEverOpened, nextExpected, base, seen,
                 lost, opens>>

-----------------------------------------------------------------------------
(* The connection's tasks                                                  *)

(* The ingress loop takes the next frame.                                  *)
IngressHello(c) ==
  /\ sess[c] = "live" /\ up[c] # <<>>
  /\ Head(up[c]).type \in {"hello_cold", "hello"}
  /\ up' = [up EXCEPT ![c] = Tail(@)]
  /\ session_floors' = IF Head(up[c]).type = "hello_cold"
                         THEN [session_floors EXCEPT ![UserOf[c]] = current_seq]
                         ELSE session_floors
  /\ UNCHANGED <<room, stale, egress, down, client, causes, bounds>>

IngressResync(c) ==
  /\ sess[c] = "live" /\ up[c] # <<>>
  /\ Head(up[c]).type = "resync_request"
  /\ up' = [up EXCEPT ![c] = Tail(@)]
  /\ erx' = [erx EXCEPT ![c] = Append(@, Head(up[c]).seq)]
  /\ UNCHANGED <<server, sess, rx, lagged, next_expected, down, client, causes, bounds>>

(* A replay of nothing that claims the event it was asked for.             *)
ReplayToAsked(from, frames) == IF frames = <<>> THEN from ELSE frames[Len(frames)]

(* replay: the events of a resync range and the resync_end naming where it *)
(* got to.                                                                 *)
ReplayTo(from, frames) == IF frames = <<>> THEN from - 1 ELSE frames[Len(frames)]

ReplayFrames(from, frames) ==
  Append([i \in 1..Len(frames) |-> [type |-> "event", seq |-> frames[i]]],
         [type |-> "resync_end", seq |-> ReplayTo(from, frames)])

(* What a replay costs c: the first event c lacks, that the replay passed  *)
(* by for one of the reasons in `why`, and all that follow it up to the    *)
(* replay's end, for a client applies nothing across a gap and takes       *)
(* resync_end at its word.                                                 *)
Holds(s, n) == \E i \in 1..Len(s) : s[i] = n

PassedBy(c, why, frames, to) ==
  {n \in nextExpected[c]..to :
     \E d \in nextExpected[c]..n : d \in why /\ ~Holds(frames, d)}

Loses(c, why, frames, to) ==
  lost' = [lost EXCEPT ![c] = @ \cup PassedBy(c, why, frames, to)]

(* A replay from the egress watermark overtakes a catch-up replay that is  *)
(* still to be served.                                                     *)
Overtaken(c) == IF catchingUp[c] THEN nextExpected[c]..(next_expected[c] - 1) ELSE {}

(* Egress::Resync, which the biased select serves before any broadcast.    *)
EgressResync(c) ==
  /\ sess[c] = "live" /\ erx[c] # <<>>
  /\ LET asked == Head(erx[c])
         from == ClampFrom(UserOf[c], asked)
         frames == ResyncRange(from)
     IN /\ down' = [down EXCEPT ![c] = @ \o ReplayFrames(from, frames)]
        /\ next_expected' = [next_expected EXCEPT
                               ![c] = MaxOf(ReplayTo(from, frames) + 1, @)]
        /\ Loses(c, dropped \cup asked..(from - 1), frames, ReplayTo(from, frames))
  /\ erx' = [erx EXCEPT ![c] = Tail(@)]
  /\ catchingUp' = [catchingUp EXCEPT ![c] = FALSE]
  /\ UNCHANGED <<server, sess, rx, lagged, up, client, bounds>>

(* rx.recv() returns Lagged: replay from the connection's own watermark.   *)
EgressLagged(c) ==
  /\ sess[c] = "live" /\ erx[c] = <<>> /\ lagged[c]
  /\ LET from == next_expected[c]
         frames == ResyncRange(from)
     IN /\ down' = [down EXCEPT ![c] = @ \o ReplayFrames(from, frames)]
        /\ next_expected' = [next_expected EXCEPT ![c] = ReplayTo(from, frames) + 1]
        /\ Loses(c, dropped \cup Overtaken(c), frames, ReplayTo(from, frames))
  /\ lagged' = [lagged EXCEPT ![c] = FALSE]
  /\ UNCHANGED <<server, sess, rx, erx, up, client, catchingUp, bounds>>

(* rx.recv() returns an event the connection has yet to send: skip it if a *)
(* resync already delivered it, send it if it comes next.                  *)
EgressEvent(c) ==
  /\ sess[c] = "live" /\ erx[c] = <<>> /\ ~lagged[c] /\ rx[c] # <<>>
  /\ LET n == Head(rx[c])
     IN /\ n <= next_expected[c]
        /\ down' = [down EXCEPT
                      ![c] = @ \o IF n = next_expected[c]
                                    THEN <<[type |-> "event", seq |-> n]>> ELSE <<>>]
        /\ next_expected' = [next_expected EXCEPT ![c] = MaxOf(n + 1, @)]
  /\ rx' = [rx EXCEPT ![c] = Tail(@)]
  /\ UNCHANGED <<server, sess, lagged, erx, up, client, causes, bounds>>

(* rx.recv() returns an event beyond the watermark: replay what lies       *)
(* between, and send the event too if the replay did not reach it.         *)
EgressGap(c) ==
  /\ sess[c] = "live" /\ erx[c] = <<>> /\ ~lagged[c] /\ rx[c] # <<>>
  /\ LET n == Head(rx[c])
         from == next_expected[c]
         frames == ResyncRange(from)
         to == ReplayTo(from, frames)
     IN /\ n > from
        /\ down' = [down EXCEPT
                      ![c] = @ \o ReplayFrames(from, frames)
                               \o IF n > to THEN <<[type |-> "event", seq |-> n]>> ELSE <<>>]
        /\ next_expected' = [next_expected EXCEPT ![c] = MaxOf(to, n) + 1]
        /\ Loses(c, dropped \cup Overtaken(c), frames, to)
  /\ rx' = [rx EXCEPT ![c] = Tail(@)]
  /\ UNCHANGED <<server, sess, lagged, erx, up, client, catchingUp, bounds>>

-----------------------------------------------------------------------------
(* WsClient.handleFrame                                                    *)

(* A gap noticed and never asked about.                                    *)
RequestNothing(c) == UNCHANGED up

RequestResync(c) ==
  up' = [up EXCEPT ![c] = Append(@, [type |-> "resync_request", seq |-> nextExpected[c]])]

Take(c, type) ==
  /\ phase[c] = "open" /\ down[c] # <<>>
  /\ Head(down[c]).type = type
  /\ down' = [down EXCEPT ![c] = Tail(@)]
  /\ UNCHANGED <<server, egress, phase, hasEverOpened, base, causes, bounds>>

ClientWelcome(c) ==
  /\ Take(c, "welcome")
  /\ IF Head(down[c]).seq >= nextExpected[c] THEN RequestResync(c) ELSE UNCHANGED up
  /\ UNCHANGED <<nextExpected, seen>>

(* A client that takes the event it has just applied for the next one.     *)
AppliesAgain(c, n) == n \in {nextExpected[c] - 1, nextExpected[c]}

(* applyEvent: a duplicate is dropped, a gap is asked for, the next one is *)
(* applied.                                                                *)
DropsEvent(c, n) == n < nextExpected[c]
AppliesEvent(c, n) == n = nextExpected[c]

ClientEvent(c) ==
  /\ Take(c, "event")
  /\ LET n == Head(down[c]).seq
     IN \/ DropsEvent(c, n) /\ UNCHANGED <<up, nextExpected, seen>>
        \/ /\ ~DropsEvent(c, n) /\ ~AppliesEvent(c, n)
           /\ RequestResync(c)
           /\ UNCHANGED <<nextExpected, seen>>
        \/ /\ AppliesEvent(c, n)
           /\ nextExpected' = [nextExpected EXCEPT ![c] = n + 1]
           /\ seen' = [seen EXCEPT ![c] = Append(@, n)]
           /\ UNCHANGED up

ClientResyncEnd(c) ==
  /\ Take(c, "resync_end")
  /\ nextExpected' = [nextExpected EXCEPT ![c] = MaxOf(@, Head(down[c]).seq + 1)]
  /\ UNCHANGED <<up, seen>>

-----------------------------------------------------------------------------
Init ==
  /\ events = 0
  /\ commit = "idle"
  /\ current_seq = 0
  /\ ring = <<>>
  /\ dropped = {}
  /\ session_floors = [u \in Users |-> NoFloor]
  /\ stale = 0
  /\ sess = [c \in Clients |-> "none"]
  /\ rx = [c \in Clients |-> <<>>]
  /\ lagged = [c \in Clients |-> FALSE]
  /\ erx = [c \in Clients |-> <<>>]
  /\ next_expected = [c \in Clients |-> 0]
  /\ up = [c \in Clients |-> <<>>]
  /\ down = [c \in Clients |-> <<>>]
  /\ phase = [c \in Clients |-> "out"]
  /\ hasEverOpened = [c \in Clients |-> FALSE]
  /\ nextExpected = [c \in Clients |-> 1]
  /\ base = [c \in Clients |-> NotEntered]
  /\ seen = [c \in Clients |-> <<>>]
  /\ catchingUp = [c \in Clients |-> FALSE]
  /\ lost = [c \in Clients |-> {}]
  /\ opens = [c \in Clients |-> 0]
  /\ restarts = 0

Ingress(c) == IngressHello(c) \/ IngressResync(c)
Egress(c) == Welcome(c) \/ EgressResync(c) \/ EgressLagged(c)
               \/ EgressEvent(c) \/ EgressGap(c)
HandleFrame(c) == ClientWelcome(c) \/ ClientEvent(c) \/ ClientResyncEnd(c)
Bootstrap(c) == SnapshotDocs(c) \/ SnapshotSeq(c) \/ SnapshotFails(c)

Next ==
  \/ Commit
  \/ HandlerEnds
  \/ Restart
  \/ \E c \in Clients :
       Bootstrap(c) \/ Connect(c) \/ Ingress(c) \/ Egress(c) \/ HandleFrame(c)
         \/ Disconnect(c) \/ Leave(c)

Spec == Init /\ [][Next]_vars

(* A publish that has the ring's lock awaits nothing more; the tokio tasks *)
(* of a live connection and the client's message loop run whenever they    *)
(* have something to take; a session that is running reconnects.  A stored *)
(* command may wait for the ring for ever, or lose its publish.            *)
Fairness ==
  /\ WF_vars(CommitSeq \/ CommitSend)
  /\ \A c \in Clients : WF_vars(Ingress(c)) /\ WF_vars(Egress(c))
                          /\ WF_vars(HandleFrame(c)) /\ WF_vars(Connect(c))

FairSpec == Spec /\ Fairness

-----------------------------------------------------------------------------
(* Properties                                                              *)

TypeOK ==
  /\ events \in Nat /\ current_seq \in Nat /\ stale \in Nat
  /\ commit \in {"idle", "stored", "pushed", "visible"}
  /\ ring \in Seq(Nat) /\ dropped \in SUBSET Nat
  /\ session_floors \in [Users -> Nat \cup {NoFloor}]
  /\ sess \in [Clients -> {"none", "subscribed", "live"}]
  /\ rx \in [Clients -> Seq(Nat)] /\ erx \in [Clients -> Seq(Nat \ {0})]
  /\ lagged \in [Clients -> BOOLEAN]
  /\ next_expected \in [Clients -> Nat]
  /\ up \in [Clients -> Seq(UpFrame)] /\ down \in [Clients -> Seq(DownFrame)]
  /\ phase \in [Clients -> {"out", "snapshot", "closed", "open"}]
  /\ hasEverOpened \in [Clients -> BOOLEAN]
  /\ nextExpected \in [Clients -> Nat \ {0}]
  /\ base \in [Clients -> Nat \cup {NotEntered}]
  /\ seen \in [Clients -> Seq(Nat)]
  /\ catchingUp \in [Clients -> BOOLEAN]
  /\ lost \in [Clients -> SUBSET Nat]
  /\ opens \in [Clients -> Nat] /\ restarts \in Nat

(* The ring holds at most MAX_EVENTS events, oldest first, ending at the   *)
(* newest one pushed, and every event from its oldest resident on except   *)
(* those whose publish was cut off: so "oldest resident at or before from" *)
(* (range_from) means that nothing else is missing from there on.          *)
Pushed == IF commit = "pushed" THEN events ELSE current_seq

RingLacksOnlyDropped ==
  /\ Len(ring) <= RingCap
  /\ \A i, j \in 1..Len(ring) : i < j => ring[i] < ring[j]
  /\ ring # <<>> =>
       /\ ring[Len(ring)] = Pushed
       /\ \A n \in ring[1]..Pushed : Holds(ring, n) \/ n \in dropped

(* A broadcast receiver that has not lagged holds all there is to send     *)
(* from the egress watermark on: the gap branch of the egress loop         *)
(* (gaps_detected) finds nothing but dropped publishes.                    *)
EgressGapOnlyDropped ==
  \A c \in Clients :
    sess[c] = "live" /\ ~lagged[c] /\ rx[c] # <<>> =>
      \A n \in next_expected[c]..(Head(rx[c]) - 1) : n \in dropped

(* An event between the watermark a session entered at and the one it has  *)
(* reached was applied, except for those a replay passed by: because the   *)
(* resync floor cut what c had asked for, because a replay from the egress *)
(* watermark overtook c's catch-up, or because the ring lacked one.        *)
GaplessUnlessLost ==
  \A c \in Clients : base[c] # NotEntered =>
    \A n \in (base[c] + 1)..(nextExpected[c] - 1) : Holds(seen[c], n) \/ n \in lost[c]

(* Whatever the floor and the lag replays do, no watermark, frame in       *)
(* flight included, ever claims an event the durable log does not hold: so *)
(* none is invalidated by a crash.                                         *)
NothingInvented ==
  /\ current_seq <= events
  /\ \A c \in Clients :
       /\ nextExpected[c] <= events + 1
       /\ next_expected[c] <= events + 1
       /\ \A i \in DOMAIN down[c] : down[c][i].seq <= events

(* An event reaches onCommand at most once and in seq order, holes or not, *)
(* across reconnects, replays and restarts.                                *)
AppliedInOrder ==
  \A c \in Clients : \A i, j \in 1..Len(seen[c]) : i < j => seen[c][i] < seen[c][j]

(* A session whose socket stays up ends past the newest event the room has *)
(* announced.                                                              *)
CaughtUp(c) == nextExpected[c] > current_seq

Converges == \A c \in Clients : <>[](phase[c] = "open" => CaughtUp(c))
=============================================================================
