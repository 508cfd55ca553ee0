-------------------------- MODULE OptimisticIntents --------------------------
(***************************************************************************)
(* How a client's predictions are confirmed: WorldSession.dispatchIntent   *)
(* and its offline queue (worldSession.svelte.ts), OptimisticClient        *)
(* (client/core/src/optimistic.ts), WsClient's frames, and the server's    *)
(* ingress and egress tasks for them (ws/conn.rs).  No frame answers an    *)
(* intent that was accepted: the client takes the next command of its own  *)
(* account for the confirmation of its oldest prediction.                  *)
(*                                                                         *)
(* Receivers that lag, the resync floor and the hot ring are RoomSync's:   *)
(* here no receiver overflows and a replay reads the whole log.            *)
(***************************************************************************)
EXTENDS Integers, Sequences, Functions

CONSTANTS
  Tabs,         \* the sessions of one account
  Self,         \* that account
  Accounts,     \* every account
  NoIntent,     \* a command that answers no intent
  MaxIntents,   \* bound: intents a session dispatches
  MaxOpens,     \* bound: sockets a session opens
  MaxOthers     \* bound: commands that answer no intent

ASSUME ConstantsOK ==
  /\ Self \in Accounts
  /\ NoIntent \notin Tabs \X (Nat \ {0})
  /\ MaxIntents \in Nat /\ MaxOpens \in Nat /\ MaxOthers \in Nat

VARIABLES
  log,            \* the world's commands: who authored each, which intent it answers
  sess,           \* sess[t]: how far handle_socket has got for t's socket
  rx,             \* rx[t]: broadcasts waiting for t's egress task
  erx,            \* erx[t]: Egress::Frame(Reject) and Egress::Resync waiting for it
  next_expected,  \* next_expected[t]: the egress loop's watermark
  up,             \* up[t][g]: frames on their way from t's g-th socket to its ingress task
  down,           \* down[t]: frames on their way to t
  opens,          \* opens[t]: sockets t has opened; the last is its live one
  nextExpected,   \* nextExpected[t]: WsClient.nextExpected
  pending,        \* pending[t]: OptimisticClient.pending, as intent numbers
  offlineQueue,   \* offlineQueue[t]: WorldSession.#offlineQueue
  dispatched,     \* dispatched[t]: intents t has dispatched, numbered from 1
  rejected,       \* history: rejected[t]: the intents whose Reject reached t
  outOfOrder,     \* history: an intent was committed before an older one was settled
  overtaken       \* history: a replay carried a later echo past a queued Reject

egress == <<sess, rx, erx, next_expected>>
wire   == <<up, down>>
client == <<nextExpected, pending, offlineQueue, dispatched, rejected>>
causes == <<outOfOrder, overtaken>>
vars   == <<log, egress, wire, opens, client, causes>>

Sockets == 1..MaxOpens
Command == [author : Accounts, intent : (Tabs \X (Nat \ {0})) \cup {NoIntent}]
Frame(type, arg) == [type |-> type, arg |-> arg]

MaxOf(a, b) == IF a >= b THEN a ELSE b

Connected(t) == sess[t] # "none"
Transmit(t, frames) == up' = [up EXCEPT ![t][opens[t]] = @ \o frames]

-----------------------------------------------------------------------------
(* WorldSession                                                            *)

(* dispatchIntent: predict under a new id (FromZero: one that repeats the  *)
(* last), then send now or queue for the next resync.                      *)
NextIdFromZero(t) == dispatched[t]
NextId(t) == dispatched[t] + 1

Dispatch(t) ==
  /\ dispatched[t] < MaxIntents
  /\ dispatched' = [dispatched EXCEPT ![t] = NextId(t)]
  /\ pending' = [pending EXCEPT ![t] = Append(@, NextId(t))]
  /\ IF Connected(t)
       THEN /\ Transmit(t, <<Frame("intent", NextId(t))>>)
            /\ UNCHANGED offlineQueue
       ELSE /\ offlineQueue' = [offlineQueue EXCEPT ![t] = Append(@, NextId(t))]
            /\ UNCHANGED up
  /\ UNCHANGED <<log, egress, down, opens, nextExpected, rejected, causes>>

(* Variants of #flushOfflineQueue: one never sends, one forgets to empty   *)
(* the queue.                                                              *)
FlushNothing(t) == UNCHANGED <<up, offlineQueue>>

FlushAgain(t) ==
  /\ Transmit(t, [i \in DOMAIN offlineQueue[t] |-> Frame("intent", offlineQueue[t][i])])
  /\ UNCHANGED offlineQueue

(* #flushOfflineQueue, run by onResyncComplete.                            *)
FlushOfflineQueue(t) ==
  /\ Transmit(t, [i \in DOMAIN offlineQueue[t] |-> Frame("intent", offlineQueue[t][i])])
  /\ offlineQueue' = [offlineQueue EXCEPT ![t] = <<>>]

Connect(t) ==
  /\ ~Connected(t)
  /\ opens[t] < MaxOpens
  /\ opens' = [opens EXCEPT ![t] = @ + 1]
  /\ sess' = [sess EXCEPT ![t] = "accepted"]
  /\ UNCHANGED <<log, rx, erx, next_expected, wire, client, causes>>

(* The socket dies.  The client notices at once; the server's ingress task *)
(* may still read what had been sent on it.                                *)
Disconnect(t) ==
  /\ Connected(t)
  /\ sess' = [sess EXCEPT ![t] = "none"]
  /\ rx' = [rx EXCEPT ![t] = <<>>]
  /\ erx' = [erx EXCEPT ![t] = <<>>]
  /\ next_expected' = [next_expected EXCEPT ![t] = 0]
  /\ down' = [down EXCEPT ![t] = <<>>]
  /\ UNCHANGED <<log, up, opens, client, causes>>

Dead(t, g) == g < opens[t] \/ (g = opens[t] /\ ~Connected(t))

FramesLost(t, g) ==
  /\ Dead(t, g) /\ up[t][g] # <<>>
  /\ up' = [up EXCEPT ![t][g] = <<>>]
  /\ UNCHANGED <<log, egress, down, opens, client, causes>>

-----------------------------------------------------------------------------
(* The server                                                              *)

(* handle_socket subscribes and its egress task sends Welcome.             *)
Welcome(t) ==
  /\ sess[t] = "accepted"
  /\ sess' = [sess EXCEPT ![t] = "live"]
  /\ next_expected' = [next_expected EXCEPT ![t] = Len(log) + 1]
  /\ down' = [down EXCEPT ![t] = <<Frame("welcome", Len(log))>>]
  /\ UNCHANGED <<log, rx, erx, up, opens, client, causes>>

(* A command committed and broadcast.                                      *)
Publish(author, intent) ==
  /\ log' = Append(log, [author |-> author, intent |-> intent])
  /\ rx' = [t \in Tabs |-> IF sess[t] = "live" THEN Append(rx[t], Len(log)+1) ELSE rx[t]]

(* The commands that answer no intent: everyone else's, and this account's *)
(* own chat messages, moves, combat turns, merges and uploads.             *)
OtherCommand(author) ==
  /\ Len(SelectSeq(log, LAMBDA cmd : cmd.intent = NoIntent)) < MaxOthers
  /\ Publish(author, NoIntent)
  /\ UNCHANGED <<sess, erx, next_expected, wire, opens, client, causes>>

(* The ingress task of the g-th socket has read its next frame; only the   *)
(* live socket has an egress task left to answer on.                       *)
Receives(t, g, type) ==
  /\ up[t][g] # <<>> /\ Head(up[t][g]).type = type
  /\ Dead(t, g) \/ sess[t] = "live"
  /\ up' = [up EXCEPT ![t][g] = Tail(@)]

Reply(t, g, frame) ==
  erx' = IF Dead(t, g) THEN erx ELSE [erx EXCEPT ![t] = Append(@, frame)]

(* The intents of t that no ingress task has taken up yet.                 *)
Unread(t) ==
  Range(offlineQueue[t])
    \cup {n \in 1..dispatched[t] :
            \E g \in Sockets : Frame("intent", n) \in Range(up[t][g])}

IngressCommits(t, g) ==
  /\ Receives(t, g, "intent")
  /\ LET n == Head(up[t][g]).arg
     IN /\ Publish(Self, <<t, n>>)
        /\ outOfOrder' = [outOfOrder EXCEPT ![t] = @ \/ \E i \in Unread(t) : i < n]
  /\ UNCHANGED <<sess, erx, next_expected, down, opens, client, overtaken>>

IngressRejects(t, g) ==
  /\ Receives(t, g, "intent")
  /\ Reply(t, g, Frame("reject", Head(up[t][g]).arg))
  /\ UNCHANGED <<log, sess, rx, next_expected, down, opens, client, causes>>

IngressResync(t, g) ==
  /\ Receives(t, g, "resync_request")
  /\ Reply(t, g, Frame("resync", Head(up[t][g]).arg))
  /\ UNCHANGED <<log, sess, rx, next_expected, down, opens, client, causes>>

EgressReject(t) ==
  /\ erx[t] # <<>> /\ Head(erx[t]).type = "reject"
  /\ down' = [down EXCEPT ![t] = Append(@, Head(erx[t]))]
  /\ erx' = [erx EXCEPT ![t] = Tail(@)]
  /\ UNCHANGED <<log, sess, rx, next_expected, up, opens, client, causes>>

(* Egress::Resync: replay what the log holds now, from the seq asked for.  *)
Replay(from) ==
  Append([i \in 1..(Len(log) + 1 - from) |-> Frame("event", from + i - 1)],
         Frame("resync_end", MaxOf(Len(log), from - 1)))

(* t's intents among the commands from..to.                                *)
IntentsIn(t, from, to) ==
  {n \in 1..dispatched[t] : \E i \in from..to : log[i].intent = <<t, n>>}

(* The intents whose Reject is queued for t's egress task.                 *)
Refused(t) ==
  {n \in 1..dispatched[t] : Frame("reject", n) \in Range(erx[t])}

EgressResync(t) ==
  /\ erx[t] # <<>> /\ Head(erx[t]).type = "resync"
  /\ LET from == Head(erx[t]).arg
     IN /\ down' = [down EXCEPT ![t] = @ \o Replay(from)]
        /\ next_expected' = [next_expected EXCEPT ![t] = MaxOf(@, Len(log) + 1)]
        /\ overtaken' =
             [overtaken EXCEPT ![t] =
                @ \/ \E n \in IntentsIn(t, from, Len(log)), i \in Refused(t) : i < n]
  /\ erx' = [erx EXCEPT ![t] = Tail(@)]
  /\ UNCHANGED <<log, sess, rx, up, opens, client, outOfOrder>>

(* The select is biased, replies before broadcasts; without that, any      *)
(* ready branch.                                                           *)
AnyReady(t) == TRUE
NoReplyWaits(t) == erx[t] = <<>>

EgressEvent(t) ==
  /\ NoReplyWaits(t) /\ rx[t] # <<>>
  /\ LET n == Head(rx[t])
     IN IF n < next_expected[t]
          THEN UNCHANGED <<down, next_expected>>
          ELSE /\ down' = [down EXCEPT ![t] = Append(@, Frame("event", n))]
               /\ next_expected' = [next_expected EXCEPT ![t] = n + 1]
  /\ rx' = [rx EXCEPT ![t] = Tail(@)]
  /\ UNCHANGED <<log, sess, erx, up, opens, client, causes>>

-----------------------------------------------------------------------------
(* WsClient.handleFrame and its handlers                                   *)

Take(t, type) ==
  /\ down[t] # <<>> /\ Head(down[t]).type = type
  /\ down' = [down EXCEPT ![t] = Tail(@)]
  /\ UNCHANGED <<log, egress, opens, dispatched, causes>>

RequestResync(t) ==
  /\ Transmit(t, <<Frame("resync_request", nextExpected[t])>>)
  /\ UNCHANGED offlineQueue

ClientWelcome(t) ==
  /\ Take(t, "welcome")
  /\ IF Head(down[t]).arg >= nextExpected[t] THEN RequestResync(t) ELSE FlushOfflineQueue(t)
  /\ UNCHANGED <<nextExpected, pending, rejected>>

(* OptimisticClient.applyCommand: a command of our own account confirms    *)
(* the oldest prediction.                                                  *)
Confirm(t, cmd) ==
  pending' = IF cmd.author = Self /\ pending[t] # <<>>
               THEN [pending EXCEPT ![t] = Tail(@)]
               ELSE pending

ClientEvent(t) ==
  /\ Take(t, "event")
  /\ LET n == Head(down[t]).arg
     IN \/ n < nextExpected[t] /\ UNCHANGED <<up, offlineQueue, nextExpected, pending>>
        \/ n > nextExpected[t] /\ RequestResync(t) /\ UNCHANGED <<nextExpected, pending>>
        \/ /\ n = nextExpected[t]
           /\ Confirm(t, log[n])
           /\ nextExpected' = [nextExpected EXCEPT ![t] = n + 1]
           /\ UNCHANGED <<up, offlineQueue>>
  /\ UNCHANGED rejected

ClientResyncEnd(t) ==
  /\ Take(t, "resync_end")
  /\ nextExpected' = [nextExpected EXCEPT ![t] = MaxOf(@, Head(down[t]).arg + 1)]
  /\ FlushOfflineQueue(t)
  /\ UNCHANGED <<pending, rejected>>

(* OptimisticClient.reject: findIndex, and splice what it finds.           *)
Splice(s, i) == SubSeq(s, 1, i - 1) \o SubSeq(s, i + 1, Len(s))
FindIndex(s, n) ==
  {i \in DOMAIN s : s[i] = n /\ \A j \in DOMAIN s : j < i => s[j] # n}

ClientReject(t) ==
  /\ Take(t, "reject")
  /\ LET n == Head(down[t]).arg
     IN /\ \/ FindIndex(pending[t], n) = {} /\ UNCHANGED pending
           \/ \E i \in FindIndex(pending[t], n) :
                pending' = [pending EXCEPT ![t] = Splice(@, i)]
        /\ rejected' = [rejected EXCEPT ![t] = @ \cup {n}]
  /\ UNCHANGED <<up, offlineQueue, nextExpected>>

-----------------------------------------------------------------------------
Init ==
  /\ log = <<>>
  /\ sess = [t \in Tabs |-> "none"]
  /\ rx = [t \in Tabs |-> <<>>]
  /\ erx = [t \in Tabs |-> <<>>]
  /\ next_expected = [t \in Tabs |-> 0]
  /\ up = [t \in Tabs |-> [g \in Sockets |-> <<>>]]
  /\ down = [t \in Tabs |-> <<>>]
  /\ opens = [t \in Tabs |-> 0]
  /\ nextExpected = [t \in Tabs |-> 1]
  /\ pending = [t \in Tabs |-> <<>>]
  /\ offlineQueue = [t \in Tabs |-> <<>>]
  /\ dispatched = [t \in Tabs |-> 0]
  /\ rejected = [t \in Tabs |-> {}]
  /\ outOfOrder = [t \in Tabs |-> FALSE]
  /\ overtaken = [t \in Tabs |-> FALSE]

Ingress(t, g) == IngressCommits(t, g) \/ IngressRejects(t, g) \/ IngressResync(t, g)
Egress(t) == Welcome(t) \/ EgressReject(t) \/ EgressResync(t) \/ EgressEvent(t)
HandleFrame(t) == ClientWelcome(t) \/ ClientEvent(t) \/ ClientResyncEnd(t) \/ ClientReject(t)

Next ==
  \/ \E a \in Accounts : OtherCommand(a)
  \/ \E t \in Tabs :
       \/ Dispatch(t) \/ Connect(t) \/ Disconnect(t) \/ Egress(t) \/ HandleFrame(t)
       \/ \E g \in Sockets : FramesLost(t, g) \/ Ingress(t, g)

Spec == Init /\ [][Next]_vars

(* The tasks of a live connection, the client's message loop and its       *)
(* reconnects run whenever they can; what a dead socket still holds is     *)
(* read or lost with it.                                                   *)
Fairness ==
  \A t \in Tabs :
    /\ WF_vars(\E g \in Sockets : Ingress(t, g) \/ FramesLost(t, g))
    /\ WF_vars(Egress(t)) /\ WF_vars(HandleFrame(t)) /\ WF_vars(Connect(t))

FairSpec == Spec /\ Fairness

-----------------------------------------------------------------------------
(* Properties                                                              *)

Intents(t) == 1..dispatched[t]
Committed(t) == IntentsIn(t, 1, Len(log))
InBase(t) == IntentsIn(t, 1, nextExpected[t] - 1)

Rejecting(t) ==
  Refused(t) \cup {n \in Intents(t) : Frame("reject", n) \in Range(down[t])}

(* The ways a session's predictions come apart.  Lost: a socket took an    *)
(* intent, or its Reject, with it.  Foreign: its account has committed a   *)
(* command that none of the session's own intents asked for.               *)
Lost(t) ==
  Intents(t) \ (Unread(t) \cup Committed(t) \cup Rejecting(t) \cup rejected[t]) # {}

Foreign(t) ==
  \E i \in DOMAIN log : log[i].author = Self /\ log[i].intent \notin {t} \X Intents(t)

Aligned(t) == ~Lost(t) /\ ~Foreign(t) /\ ~outOfOrder[t] /\ ~overtaken[t]

TypeOK ==
  /\ log \in Seq(Command)
  /\ sess \in [Tabs -> {"none", "accepted", "live"}]
  /\ rx \in [Tabs -> Seq(Nat \ {0})] /\ next_expected \in [Tabs -> Nat]
  /\ erx \in [Tabs -> Seq([type : {"reject", "resync"}, arg : Nat \ {0}])]
  /\ up \in [Tabs -> [Sockets -> Seq([type : {"intent", "resync_request"}, arg : Nat \ {0}])]]
  /\ down \in [Tabs -> Seq([type : {"welcome", "event", "resync_end", "reject"}, arg : Nat])]
  /\ opens \in [Tabs -> 0..MaxOpens] /\ dispatched \in [Tabs -> Nat]
  /\ nextExpected \in [Tabs -> Nat \ {0}]
  /\ pending \in [Tabs -> Seq(Nat \ {0})] /\ offlineQueue \in [Tabs -> Seq(Nat \ {0})]
  /\ rejected \in [Tabs -> SUBSET (Nat \ {0})]
  /\ outOfOrder \in [Tabs -> BOOLEAN] /\ overtaken \in [Tabs -> BOOLEAN]

(* OptimisticClient: view is base plus pending.  As long as none of the    *)
(* four things above has happened to a session, what it predicts is        *)
(* exactly what it has dispatched and is neither in base nor refused, in   *)
(* the order it was dispatched: no effect is shown twice, none flickers    *)
(* out, and each confirmation falls on the intent it completes.            *)
PendingIsUnanswered ==
  \A t \in Tabs : Aligned(t) =>
    /\ Range(pending[t]) = Intents(t) \ (InBase(t) \cup rejected[t])
    /\ \A i, j \in DOMAIN pending[t] : i < j => pending[t][i] < pending[t][j]

(* An intent is committed at most once, whatever happens to the sockets    *)
(* that carried it: the offline queue is handed over once.                 *)
CommittedAtMostOnce ==
  \A i, j \in DOMAIN log : log[i].intent = log[j].intent /\ log[i].intent # NoIntent => i = j

(* While its socket stays up, a session's predictions all end confirmed or *)
(* rolled back.                                                            *)
Settles == \A t \in Tabs : <>[](Connected(t) /\ Aligned(t) => pending[t] = <<>>)
=============================================================================
