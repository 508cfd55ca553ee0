---------------------------- MODULE IntentProofs ----------------------------
(***************************************************************************)
(* Proofs about OptimisticIntents, for any number of sessions, sockets,    *)
(* intents and other commands.                                             *)
(***************************************************************************)
EXTENDS OptimisticIntents, SequenceTheorems, TLAPS

-----------------------------------------------------------------------------
(* The frames, and the invariant.                                          *)

UpFrames   == [type : {"intent", "resync_request"}, arg : Nat \ {0}]
Replies    == [type : {"reject", "resync"}, arg : Nat \ {0}]
DownFrames == [type : {"welcome", "event", "resync_end", "reject"}, arg : Nat]
Channels   == [Tabs -> [Sockets -> Seq(UpFrames)]]

(* Nobody expects, awaits or is about to be sent an event the log has not. *)
Expecting(t) == nextExpected[t] <= Len(log) + 1
Awaiting(t) == \A i \in DOMAIN rx[t] : rx[t][i] <= Len(log)
Serving(t) ==
  \A i \in DOMAIN erx[t] : erx[t][i].type = "resync" => erx[t][i].arg <= nextExpected[t]
Arriving(t) ==
  \A i \in DOMAIN down[t] : down[t][i].type = "event" => down[t][i].arg \in 1..Len(log)
Asking(t) ==
  \A g \in Sockets : \A i \in DOMAIN up[t][g] :
    up[t][g][i].type = "resync_request" => up[t][g][i].arg <= nextExpected[t]

WireInv ==
  \A t \in Tabs : Expecting(t) /\ Awaiting(t) /\ Serving(t) /\ Arriving(t) /\ Asking(t)

(* To a client that expects event n, a resync_end comes right after the    *)
(* events it answers for, those at least that the client still expects.    *)
Replays(s, n) ==
  \A p \in DOMAIN s : s[p].type = "resync_end" =>
    \A e \in n..s[p].arg :
      LET q == p - 1 - (s[p].arg - e)
      IN q >= 1 /\ s[q] = Frame("event", e)

ReplayInv == \A t \in Tabs : Replays(down[t], nextExpected[t])

(* Only what was dispatched is queued, sent, refused or committed, and the *)
(* queue is in the order of dispatch.                                      *)
QueueInv ==
  \A t \in Tabs :
    /\ \A i \in DOMAIN offlineQueue[t] : offlineQueue[t][i] \in Intents(t)
    /\ \A i, j \in DOMAIN offlineQueue[t] : i < j => offlineQueue[t][i] < offlineQueue[t][j]

RepliesInv ==
  \A t \in Tabs :
    /\ rejected[t] \subseteq Intents(t)
    /\ \A i \in DOMAIN erx[t] : erx[t][i].type = "reject" => erx[t][i].arg \in Intents(t)
    /\ \A i \in DOMAIN down[t] : down[t][i].type = "reject" => down[t][i].arg \in Intents(t)

(* An intent is on its way at most once, on one socket, and no longer in   *)
(* the queue.                                                              *)
FramesInv ==
  \A t \in Tabs : \A g \in Sockets : \A i \in DOMAIN up[t][g] :
    up[t][g][i].type = "intent" =>
      /\ up[t][g][i].arg \in Intents(t)
      /\ up[t][g][i].arg \notin Range(offlineQueue[t])
      /\ \A h \in Sockets : \A j \in DOMAIN up[t][h] :
           up[t][h][j] = up[t][g][i] => g = h /\ i = j

LogInv ==
  /\ \A i \in DOMAIN log : \A t \in Tabs : \A n \in Nat \ {0} :
       log[i].intent = <<t, n>> => log[i].author = Self /\ n \in Intents(t)
  /\ CommittedAtMostOnce

(* What has been answered is nowhere on its way, and is answered once.     *)
AnswersInv ==
  \A t \in Tabs :
    /\ Unread(t) \cap (Committed(t) \cup Rejecting(t) \cup rejected[t]) = {}
    /\ Committed(t) \cap (Rejecting(t) \cup rejected[t]) = {}

(* Until an intent is committed out of order, intents are committed in the *)
(* order of dispatch, and those still on their way are younger.            *)
OrderInv ==
  \A t \in Tabs : ~outOfOrder[t] =>
    /\ \A k \in Committed(t), m \in Unread(t) : k < m
    /\ \A i, j \in DOMAIN log : \A k, m \in Intents(t) :
         i < j /\ log[i].intent = <<t, k>> /\ log[j].intent = <<t, m>> => k < m

(* Until a replay overtakes a Reject, no echo is on its way with the       *)
(* refusal of an older intent behind it.                                   *)
OvertakeInv ==
  \A t \in Tabs : ~outOfOrder[t] /\ ~overtaken[t] =>
    \A i \in DOMAIN down[t] : down[t][i].type = "event" =>
      \A k \in Intents(t) : log[down[t][i].arg].intent = <<t, k>> =>
        /\ \A m \in Refused(t) : k < m
        /\ \A j \in DOMAIN down[t] : i < j /\ down[t][j].type = "reject" => k < down[t][j].arg

-----------------------------------------------------------------------------
(* Frames and sequences.                                                   *)

LEMMA FrameIs ==
  ASSUME NEW x, NEW n
  PROVE  /\ Frame(x, n).type = x /\ Frame(x, n).arg = n
         /\ \A y, m : Frame(x, n) = Frame(y, m) => x = y /\ n = m
<1>1. Frame(x, n).type = x /\ Frame(x, n).arg = n
  BY DEF Frame
<1>2. ASSUME NEW y, NEW m, Frame(x, n) = Frame(y, m) PROVE x = y /\ n = m
  <2>1. Frame(y, m).type = y /\ Frame(y, m).arg = m
    BY DEF Frame
  <2> QED BY <1>1, <2>1, <1>2
<1> QED BY <1>1, <1>2

(* A frame is its type and its argument.                                   *)
LEMMA FrameOf ==
  ASSUME NEW f \in UpFrames \cup Replies \cup DownFrames
  PROVE  f = Frame(f.type, f.arg)
BY DEF Frame, UpFrames, Replies, DownFrames

LEMMA FrameTyped ==
  /\ \A n \in Nat \ {0} : /\ Frame("intent", n) \in UpFrames
                          /\ Frame("resync_request", n) \in UpFrames
                          /\ Frame("reject", n) \in Replies
                          /\ Frame("resync", n) \in Replies
  /\ \A n \in Nat : /\ Frame("welcome", n) \in DownFrames
                    /\ Frame("event", n) \in DownFrames
                    /\ Frame("resync_end", n) \in DownFrames
                    /\ Frame("reject", n) \in DownFrames
BY DEF Frame, UpFrames, Replies, DownFrames

LEMMA OneFrame ==
  ASSUME NEW S, NEW e \in S
  PROVE  <<e>> \in Seq(S) /\ DOMAIN <<e>> = 1..1 /\ <<e>>[1] = e
OBVIOUS

LEMMA Appended ==
  ASSUME NEW S, NEW s \in Seq(S), NEW e \in S
  PROVE  /\ Append(s, e) \in Seq(S)
         /\ Len(s) \in Nat /\ Len(Append(s, e)) = Len(s) + 1
         /\ DOMAIN s = 1..Len(s) /\ DOMAIN Append(s, e) = 1..(Len(s) + 1)
         /\ \A i \in DOMAIN s : Append(s, e)[i] = s[i]
         /\ Append(s, e)[Len(s) + 1] = e
         /\ \A i \in DOMAIN Append(s, e) :
              \/ i \in DOMAIN s /\ Append(s, e)[i] = s[i]
              \/ i = Len(s) + 1 /\ Append(s, e)[i] = e
<1>1. Len(s) \in Nat /\ DOMAIN s = 1..Len(s)
  BY LenProperties
<1>2. /\ Append(s, e) \in Seq(S) /\ Len(Append(s, e)) = Len(s) + 1
      /\ \A i \in 1..Len(s) : Append(s, e)[i] = s[i]
      /\ Append(s, e)[Len(s) + 1] = e
  BY AppendProperties
<1>3. DOMAIN Append(s, e) = 1..(Len(s) + 1)
  BY <1>2, LenProperties
<1> QED BY <1>1, <1>2, <1>3

LEMMA Tailed ==
  ASSUME NEW S, NEW s \in Seq(S), s # <<>>
  PROVE  /\ Tail(s) \in Seq(S) /\ Head(s) = s[1] /\ 1 \in DOMAIN s /\ Head(s) \in S
         /\ Len(s) \in Nat /\ Len(Tail(s)) = Len(s) - 1
         /\ DOMAIN s = 1..Len(s) /\ DOMAIN Tail(s) = 1..(Len(s) - 1)
         /\ \A i \in DOMAIN Tail(s) : i \in Nat /\ i + 1 \in DOMAIN s /\ Tail(s)[i] = s[i + 1]
<1>1. Len(s) \in Nat /\ DOMAIN s = 1..Len(s) /\ Len(s) # 0
  BY LenProperties, EmptySeq
<1>2. /\ Head(s) \in S /\ Tail(s) \in Seq(S) /\ Len(Tail(s)) = Len(s) - 1
      /\ \A i \in 1..Len(Tail(s)) : Tail(s)[i] = s[i + 1]
  BY HeadTailProperties
<1>3. DOMAIN Tail(s) = 1..(Len(s) - 1)
  BY <1>2, LenProperties
<1>4. Head(s) = s[1]
  BY <1>1
<1> QED BY <1>1, <1>2, <1>3, <1>4

LEMMA Joined ==
  ASSUME NEW S, NEW s \in Seq(S), NEW r \in Seq(S)
  PROVE  /\ s \o r \in Seq(S)
         /\ Len(s) \in Nat /\ Len(r) \in Nat /\ Len(s \o r) = Len(s) + Len(r)
         /\ DOMAIN s = 1..Len(s) /\ DOMAIN r = 1..Len(r)
         /\ DOMAIN (s \o r) = 1..(Len(s) + Len(r))
         /\ \A i \in DOMAIN s : i \in DOMAIN (s \o r) /\ (s \o r)[i] = s[i]
         /\ \A i \in DOMAIN r : Len(s) + i \in DOMAIN (s \o r) /\ (s \o r)[Len(s) + i] = r[i]
         /\ \A i \in DOMAIN (s \o r) :
              \/ i \in DOMAIN s /\ (s \o r)[i] = s[i]
              \/ i - Len(s) \in DOMAIN r /\ (s \o r)[i] = r[i - Len(s)]
<1>1. Len(s) \in Nat /\ Len(r) \in Nat /\ DOMAIN s = 1..Len(s) /\ DOMAIN r = 1..Len(r)
  BY LenProperties
<1>2. /\ s \o r \in Seq(S) /\ Len(s \o r) = Len(s) + Len(r)
      /\ \A i \in 1..(Len(s) + Len(r)) :
           (s \o r)[i] = IF i <= Len(s) THEN s[i] ELSE r[i - Len(s)]
  BY ConcatProperties
<1>3. DOMAIN (s \o r) = 1..(Len(s) + Len(r))
  BY <1>2, LenProperties
<1>4. \A i \in DOMAIN r : Len(s) + i \in DOMAIN (s \o r) /\ (s \o r)[Len(s) + i] = r[i]
  <2> SUFFICES ASSUME NEW i \in 1..Len(r)
               PROVE  Len(s) + i \in DOMAIN (s \o r) /\ (s \o r)[Len(s) + i] = r[i]
    BY <1>1
  <2> DEFINE j == Len(s) + i
  <2>1. j \in 1..(Len(s) + Len(r)) /\ ~(j <= Len(s)) /\ j - Len(s) = i
    BY <1>1
  <2> QED BY <1>2, <1>3, <2>1
<1> QED BY <1>1, <1>2, <1>3, <1>4

(* reject takes one element out.                                           *)
LEMMA Spliced ==
  ASSUME NEW S, NEW s \in Seq(S), NEW i \in DOMAIN s
  PROVE  /\ Splice(s, i) \in Seq(S)
         /\ Len(s) \in Nat /\ DOMAIN s = 1..Len(s) /\ DOMAIN Splice(s, i) = 1..(Len(s) - 1)
         /\ \A j \in DOMAIN Splice(s, i) :
              Splice(s, i)[j] = IF j < i THEN s[j] ELSE s[j + 1]
<1>1. Len(s) \in Nat /\ DOMAIN s = 1..Len(s) /\ \A j \in 1..Len(s) : s[j] \in S
  BY LenProperties, ElementOfSeq
<1>2. i \in 1..Len(s) /\ i - 1 \in Nat /\ i + 1 \in Nat
  BY <1>1
<1> DEFINE a == SubSeq(s, 1, i - 1)
           b == SubSeq(s, i + 1, Len(s))
<1>3. /\ a \in Seq(S) /\ Len(a) = i - 1
      /\ \A j \in 1..(i - 1) : a[j] = s[j]
  <2>1. \A j \in 1..(i - 1) : s[j] \in S
    BY <1>1, <1>2
  <2>2. /\ a \in Seq(S) /\ Len(a) = IF 1 <= i - 1 THEN (i - 1) - 1 + 1 ELSE 0
        /\ \A j \in 1..((i - 1) - 1 + 1) : a[j] = s[1 + j - 1]
    BY <1>2, <2>1, SubSeqProperties
  <2> QED BY <1>2, <2>2
<1>4. /\ b \in Seq(S) /\ Len(b) = Len(s) - i
      /\ \A j \in 1..(Len(s) - i) : b[j] = s[i + j]
  <2>1. \A j \in (i + 1)..Len(s) : s[j] \in S
    BY <1>1, <1>2
  <2>2. /\ b \in Seq(S) /\ Len(b) = IF i + 1 <= Len(s) THEN Len(s) - (i + 1) + 1 ELSE 0
        /\ \A j \in 1..(Len(s) - (i + 1) + 1) : b[j] = s[(i + 1) + j - 1]
    BY <1>1, <1>2, <2>1, SubSeqProperties
  <2>3. \A j \in 1..(Len(s) - i) : (i + 1) + j - 1 = i + j
    BY <1>2
  <2> QED BY <1>1, <1>2, <2>2, <2>3
<1>5. Splice(s, i) = a \o b
  BY DEF Splice
<1> HIDE DEF a, b
<1>6. /\ a \o b \in Seq(S) /\ DOMAIN (a \o b) = 1..(Len(a) + Len(b))
      /\ \A j \in DOMAIN (a \o b) :
           \/ j \in DOMAIN a /\ (a \o b)[j] = a[j]
           \/ j - Len(a) \in DOMAIN b /\ (a \o b)[j] = b[j - Len(a)]
      /\ DOMAIN a = 1..Len(a) /\ DOMAIN b = 1..Len(b)
  <2>1. a \in Seq(S) /\ b \in Seq(S)
    BY <1>3, <1>4
  <2> QED BY <2>1, Joined
<1>7. DOMAIN (a \o b) = 1..(Len(s) - 1)
  BY <1>1, <1>2, <1>3, <1>4, <1>6
<1>8. ASSUME NEW j \in 1..(Len(s) - 1)
      PROVE  (a \o b)[j] = IF j < i THEN s[j] ELSE s[j + 1]
  <2>1. \/ j \in 1..(i - 1) /\ (a \o b)[j] = a[j]
        \/ j - (i - 1) \in 1..(Len(s) - i) /\ (a \o b)[j] = b[j - (i - 1)]
    BY <1>3, <1>4, <1>6, <1>7
  <2>2. CASE j \in 1..(i - 1) /\ (a \o b)[j] = a[j]
    BY <1>2, <1>3, <2>2
  <2>3. CASE j - (i - 1) \in 1..(Len(s) - i) /\ (a \o b)[j] = b[j - (i - 1)]
    <3>1. b[j - (i - 1)] = s[i + (j - (i - 1))]
      BY <1>4, <2>3
    <3>2. i + (j - (i - 1)) = j + 1 /\ ~(j < i)
      BY <1>1, <1>2, <2>3
    <3> QED BY <2>3, <3>1, <3>2
  <2> QED BY <2>1, <2>2, <2>3
<1> QED BY <1>1, <1>5, <1>6, <1>7, <1>8

-----------------------------------------------------------------------------
(* What the steps do to the frames on their way up.                        *)

LEMMA Sends ==
  ASSUME TypeOK, NEW t \in Tabs, NEW fs \in Seq(UpFrames), Transmit(t, fs)
  PROVE  /\ up' \in Channels
         /\ \A u \in Tabs : \A g \in Sockets :
              up'[u][g] = up[u][g] \/ (u = t /\ up'[u][g] = up[u][g] \o fs)
<1>1. up \in Channels
  BY DEF TypeOK, Channels, UpFrames
<1> DEFINE m == [up[t] EXCEPT ![opens[t]] = up[t][opens[t]] \o fs]
<1>2. up' = [up EXCEPT ![t] = m]
  BY DEF Transmit
<1>3. up[t] \in [Sockets -> Seq(UpFrames)]
  BY <1>1 DEF Channels
<1>4. m \in [Sockets -> Seq(UpFrames)]
  <2>1. CASE opens[t] \in Sockets
    <3>1. up[t][opens[t]] \in Seq(UpFrames)
      BY <1>3, <2>1
    <3>2. up[t][opens[t]] \o fs \in Seq(UpFrames)
      BY <3>1, Joined
    <3> QED BY <1>3, <3>2
  <2>2. CASE opens[t] \notin Sockets
    BY <1>3, <2>2
  <2> QED BY <2>1, <2>2
<1>5. \A g \in Sockets : m[g] = up[t][g] \/ m[g] = up[t][g] \o fs
  BY <1>3
<1> HIDE DEF m
<1>6. up' \in Channels
  BY <1>1, <1>2, <1>4 DEF Channels
<1>7. \A u \in Tabs : up'[u] = IF u = t THEN m ELSE up[u]
  BY <1>1, <1>2 DEF Channels
<1> QED BY <1>5, <1>6, <1>7

Replaced(t, g, fs) == [up EXCEPT ![t] = [up[t] EXCEPT ![g] = fs]]

(* One socket's frames, and no others, change.                             *)
LEMMA OneSocket ==
  ASSUME TypeOK, NEW t \in Tabs, NEW g \in Sockets, NEW fs \in Seq(UpFrames)
  PROVE  /\ Replaced(t, g, fs) \in Channels
         /\ Replaced(t, g, fs)[t][g] = fs
         /\ \A u \in Tabs : \A h \in Sockets :
              u # t \/ h # g => Replaced(t, g, fs)[u][h] = up[u][h]
<1>1. up \in Channels
  BY DEF TypeOK, Channels, UpFrames
<1>2. up[t] \in [Sockets -> Seq(UpFrames)]
  BY <1>1 DEF Channels
<1>3. [up[t] EXCEPT ![g] = fs] \in [Sockets -> Seq(UpFrames)]
  BY <1>2
<1>4. Replaced(t, g, fs) \in Channels
  BY <1>1, <1>3 DEF Channels, Replaced
<1>5. \A u \in Tabs : Replaced(t, g, fs)[u] = IF u = t THEN [up[t] EXCEPT ![g] = fs] ELSE up[u]
  BY <1>1 DEF Channels, Replaced
<1> QED BY <1>2, <1>4, <1>5

LEMMA FrameRead ==
  ASSUME TypeOK, NEW t \in Tabs, NEW g \in Sockets, NEW type, Receives(t, g, type)
  PROVE  /\ up' \in Channels
         /\ up[t][g] \in Seq(UpFrames) /\ 1 \in DOMAIN up[t][g]
         /\ Head(up[t][g]) = up[t][g][1] /\ Head(up[t][g]) \in UpFrames
         /\ Head(up[t][g]).type = type
         /\ \A i \in DOMAIN up'[t][g] :
              i \in Nat /\ i + 1 \in DOMAIN up[t][g] /\ up'[t][g][i] = up[t][g][i + 1]
         /\ \A u \in Tabs : \A h \in Sockets : u # t \/ h # g => up'[u][h] = up[u][h]
<1>1. up[t][g] \in Seq(UpFrames)
  BY DEF TypeOK, UpFrames
<1>2. up[t][g] # <<>> /\ Head(up[t][g]).type = type /\ up' = [up EXCEPT ![t][g] = Tail(up[t][g])]
  BY DEF Receives
<1>3. PICK r \in Seq(UpFrames) : r = Tail(up[t][g])
  BY <1>1, <1>2, Tailed
<1>4. up' = Replaced(t, g, r)
  BY <1>2, <1>3 DEF Replaced
<1>5. /\ up' \in Channels /\ up'[t][g] = r
      /\ \A u \in Tabs : \A h \in Sockets : u # t \/ h # g => up'[u][h] = up[u][h]
  BY <1>4, OneSocket
<1>6. /\ 1 \in DOMAIN up[t][g] /\ Head(up[t][g]) = up[t][g][1] /\ Head(up[t][g]) \in UpFrames
      /\ \A i \in DOMAIN r :
           i \in Nat /\ i + 1 \in DOMAIN up[t][g] /\ r[i] = up[t][g][i + 1]
  BY <1>1, <1>2, <1>3, Tailed
<1> QED BY <1>1, <1>2, <1>5, <1>6

(* FramesLost.                                                             *)
LEMMA FramesGone ==
  ASSUME TypeOK, NEW t \in Tabs, NEW g \in Sockets, FramesLost(t, g)
  PROVE  /\ up' \in Channels
         /\ DOMAIN up'[t][g] = {}
         /\ \A u \in Tabs : \A h \in Sockets : u # t \/ h # g => up'[u][h] = up[u][h]
<1>1. PICK r \in Seq(UpFrames) : r = <<>>
  BY EmptySeq
<1>2. up' = Replaced(t, g, r)
  BY <1>1 DEF FramesLost, Replaced
<1>3. DOMAIN r = {}
  BY <1>1
<1>4. /\ up' \in Channels /\ up'[t][g] = r
      /\ \A u \in Tabs : \A h \in Sockets : u # t \/ h # g => up'[u][h] = up[u][h]
  BY <1>2, OneSocket
<1> QED BY <1>3, <1>4

-----------------------------------------------------------------------------
(* What the steps do to the other channels.                                *)

LEMMA Flushed ==
  ASSUME TypeOK, NEW t \in Tabs
  PROVE  /\ offlineQueue[t] \in Seq(Nat \ {0})
         /\ [i \in DOMAIN offlineQueue[t] |-> Frame("intent", offlineQueue[t][i])] \in Seq(UpFrames)
<1>1. offlineQueue[t] \in Seq(Nat \ {0})
  BY DEF TypeOK
<1> DEFINE q == offlineQueue[t]
           fs == [i \in DOMAIN q |-> Frame("intent", q[i])]
<1>2. Len(q) \in Nat /\ DOMAIN q = 1..Len(q) /\ \A i \in 1..Len(q) : q[i] \in Nat \ {0}
  BY <1>1, LenProperties, ElementOfSeq
<1>3. \A i \in 1..Len(q) : Frame("intent", q[i]) \in UpFrames
  BY <1>2, FrameTyped
<1>4. fs \in [1..Len(q) -> UpFrames]
  BY <1>2, <1>3
<1> HIDE DEF q, fs
<1>5. fs \in Seq(UpFrames)
  BY <1>2, <1>4
<1> QED BY <1>1, <1>5 DEF fs, q

LEMMA Published ==
  ASSUME TypeOK, NEW a \in Accounts, NEW x \in (Tabs \X (Nat \ {0})) \cup {NoIntent},
         Publish(a, x)
  PROVE  /\ log \in Seq(Command) /\ log' \in Seq(Command)
         /\ Len(log) \in Nat /\ Len(log') = Len(log) + 1
         /\ DOMAIN log = 1..Len(log) /\ DOMAIN log' = 1..(Len(log) + 1)
         /\ \A i \in DOMAIN log : log'[i] = log[i]
         /\ log'[Len(log) + 1].author = a /\ log'[Len(log) + 1].intent = x
         /\ rx' \in [Tabs -> Seq(Nat \ {0})]
         /\ \A u \in Tabs : rx'[u] = rx[u] \/ rx'[u] = Append(rx[u], Len(log) + 1)
<1>1. log \in Seq(Command) /\ rx \in [Tabs -> Seq(Nat \ {0})]
  BY DEF TypeOK
<1>2. PICK c \in Command : c = [author |-> a, intent |-> x]
  BY DEF Command
<1>3. log' = Append(log, c)
  BY <1>2 DEF Publish
<1>4. /\ log' \in Seq(Command) /\ Len(log) \in Nat /\ Len(log') = Len(log) + 1
      /\ DOMAIN log = 1..Len(log) /\ DOMAIN log' = 1..(Len(log) + 1)
      /\ \A i \in DOMAIN log : log'[i] = log[i]
      /\ log'[Len(log) + 1] = c
  BY <1>1, <1>3, Appended
<1>5. /\ rx' = [t \in Tabs |-> IF sess[t] = "live" THEN Append(rx[t], Len(log) + 1) ELSE rx[t]]
  BY DEF Publish
<1>6. Len(log) + 1 \in Nat \ {0}
  BY <1>4
<1>7. \A u \in Tabs : Append(rx[u], Len(log) + 1) \in Seq(Nat \ {0})
  BY <1>1, <1>6, Appended
<1>8. rx' \in [Tabs -> Seq(Nat \ {0})]
  BY <1>1, <1>5, <1>7
<1> QED BY <1>1, <1>2, <1>4, <1>5, <1>8

LEMMA Replied ==
  ASSUME TypeOK, NEW t \in Tabs, NEW g \in Sockets, NEW f \in Replies, Reply(t, g, f)
  PROVE  /\ erx' \in [Tabs -> Seq(Replies)]
         /\ \A u \in Tabs : erx'[u] = erx[u] \/ (u = t /\ erx'[u] = Append(erx[u], f))
<1>1. erx \in [Tabs -> Seq(Replies)]
  BY DEF TypeOK, Replies
<1>2. erx' = erx \/ erx' = [erx EXCEPT ![t] = Append(erx[t], f)]
  BY DEF Reply
<1>3. Append(erx[t], f) \in Seq(Replies)
  BY <1>1, Appended
<1> QED BY <1>1, <1>2, <1>3

(* The client takes a frame.                                               *)
LEMMA Taken ==
  ASSUME TypeOK, NEW t \in Tabs, NEW type, Take(t, type)
  PROVE  /\ down' \in [Tabs -> Seq(DownFrames)]
         /\ down[t] \in Seq(DownFrames) /\ down[t] # <<>> /\ 1 \in DOMAIN down[t]
         /\ Head(down[t]) = down[t][1] /\ Head(down[t]).type = type
         /\ Head(down[t]) \in DownFrames /\ Head(down[t]).arg \in Nat
         /\ DOMAIN down[t] = 1..Len(down[t]) /\ Len(down[t]) \in Nat
         /\ \A i \in DOMAIN down'[t] :
              i \in Nat \ {0} /\ i + 1 \in DOMAIN down[t] /\ down'[t][i] = down[t][i + 1]
         /\ \A u \in Tabs : u # t => down'[u] = down[u]
<1>1. down \in [Tabs -> Seq(DownFrames)]
  BY DEF TypeOK, DownFrames
<1>2. /\ down[t] # <<>> /\ Head(down[t]).type = type
      /\ down' = [down EXCEPT ![t] = Tail(down[t])]
  BY DEF Take
<1>3. PICK r \in Seq(DownFrames) :
        /\ r = Tail(down[t])
        /\ Head(down[t]) = down[t][1] /\ 1 \in DOMAIN down[t] /\ Head(down[t]) \in DownFrames
        /\ Len(down[t]) \in Nat /\ DOMAIN down[t] = 1..Len(down[t])
        /\ DOMAIN r = 1..(Len(down[t]) - 1)
        /\ \A i \in DOMAIN r : i \in Nat /\ i + 1 \in DOMAIN down[t] /\ r[i] = down[t][i + 1]
  <2>1. down[t] \in Seq(DownFrames) /\ down[t] # <<>>
    BY <1>1, <1>2
  <2>2. PICK r \in Seq(DownFrames) : r = Tail(down[t])
    BY <2>1, Tailed
  <2> QED BY <2>1, <2>2, Tailed
<1>4. down' = [down EXCEPT ![t] = r]
  BY <1>2, <1>3
<1>5. Head(down[t]).arg \in Nat
  BY <1>3 DEF DownFrames
<1>6. \A i \in DOMAIN r : i \in Nat \ {0}
  BY <1>3
<1>7. down' \in [Tabs -> Seq(DownFrames)] /\ down'[t] = r /\ \A u \in Tabs : u # t => down'[u] = down[u]
  BY <1>1, <1>4
<1> QED BY <1>1, <1>2, <1>3, <1>5, <1>6, <1>7

(* The egress task takes a reply from its channel.                         *)
LEMMA ReplyTaken ==
  ASSUME TypeOK, NEW t \in Tabs, erx[t] # <<>>, erx' = [erx EXCEPT ![t] = Tail(@)]
  PROVE  /\ erx' \in [Tabs -> Seq(Replies)]
         /\ 1 \in DOMAIN erx[t] /\ Head(erx[t]) = erx[t][1] /\ Head(erx[t]) \in Replies
         /\ Head(erx[t]).arg \in Nat \ {0}
         /\ \A i \in DOMAIN erx'[t] :
              i \in Nat /\ i + 1 \in DOMAIN erx[t] /\ erx'[t][i] = erx[t][i + 1]
         /\ \A u \in Tabs : u # t => erx'[u] = erx[u]
<1>1. erx \in [Tabs -> Seq(Replies)]
  BY DEF TypeOK, Replies
<1>2. PICK r \in Seq(Replies) :
        /\ r = Tail(erx[t])
        /\ Head(erx[t]) = erx[t][1] /\ 1 \in DOMAIN erx[t] /\ Head(erx[t]) \in Replies
        /\ \A i \in DOMAIN r : i \in Nat /\ i + 1 \in DOMAIN erx[t] /\ r[i] = erx[t][i + 1]
  <2>1. erx[t] \in Seq(Replies)
    BY <1>1
  <2>2. PICK r \in Seq(Replies) : r = Tail(erx[t])
    BY <2>1, Tailed
  <2> QED BY <2>1, <2>2, Tailed
<1>3. erx' = [erx EXCEPT ![t] = r]
  BY <1>2
<1>4. Head(erx[t]).arg \in Nat \ {0}
  BY <1>2 DEF Replies
<1>5. erx' \in [Tabs -> Seq(Replies)] /\ erx'[t] = r /\ \A u \in Tabs : u # t => erx'[u] = erx[u]
  BY <1>1, <1>3
<1> QED BY <1>2, <1>4, <1>5

(* replay: the events from the seq asked for to the last, then resync_end. *)
LEMMA Replayed ==
  ASSUME TypeOK, NEW from \in Nat \ {0}, from <= Len(log) + 1
  PROVE  /\ Replay(from) \in Seq(DownFrames) /\ Len(log) \in Nat
         /\ Len(Replay(from)) = Len(log) + 2 - from
         /\ \A i \in 1..(Len(log) + 1 - from) : Replay(from)[i] = Frame("event", from + i - 1)
         /\ Replay(from)[Len(log) + 2 - from] = Frame("resync_end", Len(log))
<1>1. Len(log) \in Nat
  BY LenProperties DEF TypeOK
<1>2. PICK n \in Nat : n = Len(log) + 1 - from
  BY <1>1
<1> DEFINE es == [i \in 1..n |-> Frame("event", from + i - 1)]
<1>3. \A i \in 1..n : Frame("event", from + i - 1) \in DownFrames
  BY <1>2, FrameTyped
<1>4. es \in [1..n -> DownFrames]
  BY <1>3
<1>5. es \in Seq(DownFrames) /\ Len(es) = n /\ \A i \in 1..n : es[i] = Frame("event", from + i - 1)
  <2>1. \A i \in 1..n : es[i] = Frame("event", from + i - 1)
    OBVIOUS
  <2> HIDE DEF es
  <2>2. Len(es) = n
    BY <1>2, <1>4
  <2>3. es \in Seq(DownFrames)
    BY <1>2, <1>4
  <2> QED BY <2>1, <2>2, <2>3
<1>6. MaxOf(Len(log), from - 1) = Len(log)
  BY <1>1 DEF MaxOf
<1>7. Replay(from) = Append(es, Frame("resync_end", Len(log)))
  BY <1>2, <1>6 DEF Replay
<1>8. Frame("resync_end", Len(log)) \in DownFrames
  BY <1>1, FrameTyped
<1> HIDE DEF es
<1>9. /\ Replay(from) \in Seq(DownFrames) /\ Len(Replay(from)) = n + 1
      /\ \A i \in 1..n : Replay(from)[i] = es[i]
      /\ Replay(from)[n + 1] = Frame("resync_end", Len(log))
  BY <1>5, <1>7, <1>8, AppendProperties
<1>10. n + 1 = Len(log) + 2 - from
  BY <1>1, <1>2
<1> QED BY <1>1, <1>2, <1>5, <1>9, <1>10

-----------------------------------------------------------------------------
(* Types.                                                                  *)

Typed == TypeOK /\ WireInv

(* TypeOK, channel by channel.                                             *)
ClientTyped ==
  /\ nextExpected \in [Tabs -> Nat \ {0}] /\ dispatched \in [Tabs -> Nat]
  /\ pending \in [Tabs -> Seq(Nat \ {0})] /\ offlineQueue \in [Tabs -> Seq(Nat \ {0})]
  /\ rejected \in [Tabs -> SUBSET (Nat \ {0})]
ServerTyped ==
  /\ log \in Seq(Command) /\ sess \in [Tabs -> {"none", "accepted", "live"}]
  /\ rx \in [Tabs -> Seq(Nat \ {0})] /\ next_expected \in [Tabs -> Nat]
  /\ erx \in [Tabs -> Seq(Replies)]
WireTyped ==
  /\ up \in Channels /\ down \in [Tabs -> Seq(DownFrames)] /\ opens \in [Tabs -> 0..MaxOpens]
CausesTyped == outOfOrder \in [Tabs -> BOOLEAN] /\ overtaken \in [Tabs -> BOOLEAN]

LEMMA TypesApart == TypeOK <=> ClientTyped /\ ServerTyped /\ WireTyped /\ CausesTyped
BY DEF TypeOK, ClientTyped, ServerTyped, WireTyped, CausesTyped, Replies, DownFrames,
       Channels, UpFrames

LEMMA TypesApart2 == TypeOK' <=> ClientTyped' /\ ServerTyped' /\ WireTyped' /\ CausesTyped'
BY DEF TypeOK, ClientTyped, ServerTyped, WireTyped, CausesTyped, Replies, DownFrames,
       Channels, UpFrames

LEMMA TypesDispatch ==
  ASSUME TypeOK, NEW t \in Tabs, Dispatch(t)
  PROVE  TypeOK'
<1> USE TypesApart
<1>1. PICK n \in Nat \ {0} : n = NextId(t)
  BY DEF NextId, ClientTyped
<1>2. dispatched' = [dispatched EXCEPT ![t] = n] /\ pending' = [pending EXCEPT ![t] = Append(pending[t], n)]
  BY <1>1 DEF Dispatch
<1>3. Append(pending[t], n) \in Seq(Nat \ {0}) /\ Append(offlineQueue[t], n) \in Seq(Nat \ {0})
  BY Appended DEF ClientTyped
<1>4. offlineQueue' \in [Tabs -> Seq(Nat \ {0})]
  BY <1>1, <1>3 DEF Dispatch, ClientTyped
<1>5. up' \in Channels
  <2>1. CASE Connected(t)
    <3>1. PICK fs \in Seq(UpFrames) : fs = <<Frame("intent", n)>>
      BY FrameTyped, OneFrame
    <3>2. Transmit(t, fs)
      BY <1>1, <2>1, <3>1 DEF Dispatch
    <3> QED BY <3>2, Sends
  <2>2. CASE ~Connected(t)
    BY <2>2 DEF Dispatch, WireTyped
  <2> QED BY <2>1, <2>2
<1>6. ClientTyped'
  <2>1. UNCHANGED <<nextExpected, rejected>>
    BY DEF Dispatch
  <2> QED BY <1>2, <1>3, <1>4, <2>1 DEF ClientTyped
<1>7. WireTyped' /\ ServerTyped' /\ CausesTyped'
  <2>1. UNCHANGED <<log, egress, down, opens, causes>>
    BY DEF Dispatch
  <2>2. WireTyped'
    BY <1>5, <2>1 DEF WireTyped
  <2>3. ServerTyped' /\ CausesTyped'
    BY <2>1 DEF ServerTyped, CausesTyped, egress, causes
  <2> QED BY <2>2, <2>3
<1> QED BY <1>6, <1>7, TypesApart2

LEMMA TypesConnection ==
  ASSUME TypeOK, NEW t \in Tabs, Connect(t) \/ Disconnect(t) \/ Welcome(t)
  PROVE  TypeOK'
<1>1. ClientTyped /\ ServerTyped /\ WireTyped /\ CausesTyped
  BY TypesApart
<1>2. CASE Connect(t)
  <2>1. opens' \in [Tabs -> 0..MaxOpens]
    <3>1. PICK n \in 0..MaxOpens : n = opens[t] + 1
      BY <1>1, <1>2, ConstantsOK DEF Connect, WireTyped, ConstantsOK
    <3> QED BY <1>1, <1>2, <3>1 DEF Connect, WireTyped
  <2>2. sess' \in [Tabs -> {"none", "accepted", "live"}]
    BY <1>1, <1>2 DEF Connect, ServerTyped
  <2> QED BY <1>1, <1>2, <2>1, <2>2, TypesApart2
     DEF Connect, ClientTyped, ServerTyped, WireTyped, CausesTyped, client, causes, wire
<1>3. CASE Disconnect(t)
  <2>1. ClientTyped' /\ CausesTyped'
    BY <1>1, <1>3 DEF Disconnect, ClientTyped, CausesTyped, client, causes
  <2>2. ServerTyped'
    BY <1>1, <1>3 DEF Disconnect, ServerTyped
  <2>3. WireTyped'
    <3>1. <<>> \in Seq(DownFrames)
      OBVIOUS
    <3>2. down' = [down EXCEPT ![t] = <<>>] /\ up' = up /\ opens' = opens
      BY <1>3 DEF Disconnect
    <3>3. down' \in [Tabs -> Seq(DownFrames)]
      BY <1>1, <3>1, <3>2 DEF WireTyped
    <3> QED BY <1>1, <3>2, <3>3 DEF WireTyped
  <2> QED BY <2>1, <2>2, <2>3, TypesApart2
<1>4. CASE Welcome(t)
  <2>1. Len(log) \in Nat
    BY <1>1, LenProperties DEF ServerTyped
  <2>2. PICK f \in Seq(DownFrames) : f = <<Frame("welcome", Len(log))>>
    BY <2>1, FrameTyped, OneFrame
  <2>3. down' = [down EXCEPT ![t] = f] /\ next_expected' \in [Tabs -> Nat]
    BY <1>1, <1>4, <2>1, <2>2 DEF Welcome, ServerTyped
  <2>4. ClientTyped' /\ CausesTyped'
    BY <1>1, <1>4 DEF Welcome, ClientTyped, CausesTyped, client, causes
  <2>5. ServerTyped'
    BY <1>1, <1>4, <2>3 DEF Welcome, ServerTyped
  <2>6. WireTyped'
    BY <1>1, <1>4, <2>2, <2>3 DEF Welcome, WireTyped
  <2> QED BY <2>4, <2>5, <2>6, TypesApart2
<1> QED BY <1>2, <1>3, <1>4

LEMMA Asked ==
  ASSUME TypeOK, NEW t \in Tabs, RequestResync(t)
  PROVE  \E f \in UpFrames :
           /\ f = Frame("resync_request", nextExpected[t])
           /\ up' \in Channels
           /\ \A u \in Tabs : \A g \in Sockets :
                up'[u][g] = up[u][g] \/ (u = t /\ up'[u][g] = up[u][g] \o <<f>>)
<1>1. nextExpected[t] \in Nat \ {0}
  BY DEF TypeOK
<1>2. PICK f \in UpFrames : f = Frame("resync_request", nextExpected[t])
  BY <1>1, FrameTyped
<1>3. <<f>> \in Seq(UpFrames)
  BY OneFrame
<1>4. Transmit(t, <<f>>)
  BY <1>2 DEF RequestResync
<1> QED BY <1>2, <1>3, <1>4, Sends

Intended(q) == [i \in DOMAIN q |-> Frame("intent", q[i])]

LEMMA Handed ==
  ASSUME TypeOK, NEW t \in Tabs, FlushOfflineQueue(t)
  PROVE  /\ Intended(offlineQueue[t]) \in Seq(UpFrames)
         /\ up' \in Channels /\ offlineQueue' \in [Tabs -> Seq(Nat \ {0})]
         /\ \A u \in Tabs : \A g \in Sockets :
              up'[u][g] = up[u][g] \/ (u = t /\ up'[u][g] = up[u][g] \o Intended(offlineQueue[t]))
         /\ DOMAIN offlineQueue'[t] = {}
         /\ \A u \in Tabs : u # t => offlineQueue'[u] = offlineQueue[u]
<1>1. Intended(offlineQueue[t]) \in Seq(UpFrames)
  BY Flushed DEF Intended
<1>2. Transmit(t, Intended(offlineQueue[t]))
  BY DEF FlushOfflineQueue, Intended
<1>3. PICK r \in Seq(Nat \ {0}) : r = <<>>
  BY EmptySeq
<1>4. offlineQueue' = [offlineQueue EXCEPT ![t] = r] /\ DOMAIN r = {}
  BY <1>3 DEF FlushOfflineQueue
<1>5. offlineQueue \in [Tabs -> Seq(Nat \ {0})]
  BY DEF TypeOK
<1>6. /\ offlineQueue' \in [Tabs -> Seq(Nat \ {0})] /\ DOMAIN offlineQueue'[t] = {}
      /\ \A u \in Tabs : u # t => offlineQueue'[u] = offlineQueue[u]
  BY <1>4, <1>5
<1> QED BY <1>1, <1>2, <1>6, Sends

LEMMA TypesIngress ==
  ASSUME TypeOK, NEW t \in Tabs, NEW g \in Sockets, FramesLost(t, g) \/ Ingress(t, g)
  PROVE  TypeOK'
<1> USE TypesApart
<1>1. CASE FramesLost(t, g)
  BY <1>1, FramesGone, TypesApart2
     DEF FramesLost, ClientTyped, ServerTyped, WireTyped, CausesTyped, egress, client, causes
<1>2. CASE IngressCommits(t, g)
  <2>1. PICK n \in Nat \ {0} : n = Head(up[t][g]).arg
    <3>1. Receives(t, g, "intent")
      BY <1>2 DEF IngressCommits
    <3> QED BY <3>1, FrameRead DEF UpFrames
  <2>2. up' \in Channels
    BY <1>2, FrameRead DEF IngressCommits
  <2>3. Publish(Self, <<t, n>>) /\ outOfOrder' \in [Tabs -> BOOLEAN]
    BY <1>2, <2>1 DEF IngressCommits, CausesTyped
  <2>4. log' \in Seq(Command) /\ rx' \in [Tabs -> Seq(Nat \ {0})]
    BY <2>3, Published, ConstantsOK DEF ConstantsOK
  <2> QED BY <1>2, <2>2, <2>3, <2>4, TypesApart2
     DEF IngressCommits, ClientTyped, ServerTyped, WireTyped, CausesTyped, client
<1>3. ASSUME IngressRejects(t, g) \/ IngressResync(t, g) PROVE TypeOK'
  <2>1. PICK type : Receives(t, g, type)
    BY <1>3 DEF IngressRejects, IngressResync
  <2>2. PICK n \in Nat \ {0} : n = Head(up[t][g]).arg
    BY <2>1, FrameRead DEF UpFrames
  <2>3. erx' \in [Tabs -> Seq(Replies)]
    <3>1. PICK f \in Replies : Reply(t, g, f)
      BY <1>3, <2>2, FrameTyped DEF IngressRejects, IngressResync
    <3> QED BY <3>1, Replied
  <2>4. up' \in Channels
    BY <2>1, FrameRead
  <2> QED BY <1>3, <2>3, <2>4, TypesApart2
     DEF IngressRejects, IngressResync, ClientTyped, ServerTyped, WireTyped, CausesTyped, client,
         causes
<1> QED BY <1>1, <1>2, <1>3 DEF Ingress

LEMMA TypesEgress ==
  ASSUME TypeOK, WireInv, NEW t \in Tabs, EgressReject(t) \/ EgressResync(t) \/ EgressEvent(t)
  PROVE  TypeOK'
<1>1. ClientTyped /\ ServerTyped /\ WireTyped /\ CausesTyped
  BY TypesApart
<1>2. Len(log) \in Nat
  BY <1>1, LenProperties DEF ServerTyped
<1>3. CASE EgressReject(t)
  <2>1. erx' \in [Tabs -> Seq(Replies)] /\ Head(erx[t]) \in Replies
    BY <1>3, ReplyTaken DEF EgressReject
  <2>2. PICK f \in DownFrames : f = Head(erx[t])
    BY <1>3, <2>1 DEF Replies, DownFrames, EgressReject
  <2>3. Append(down[t], f) \in Seq(DownFrames)
    BY <1>1, Appended DEF WireTyped
  <2>4. down' \in [Tabs -> Seq(DownFrames)]
    BY <1>1, <1>3, <2>2, <2>3 DEF WireTyped, EgressReject
  <2> QED BY <1>1, <1>3, <2>1, <2>4, TypesApart2
     DEF EgressReject, ClientTyped, ServerTyped, WireTyped, CausesTyped, client, causes
<1>4. CASE EgressResync(t)
  <2>1. /\ erx' \in [Tabs -> Seq(Replies)] /\ Head(erx[t]) = erx[t][1] /\ 1 \in DOMAIN erx[t]
        /\ Head(erx[t]).arg \in Nat \ {0}
    BY <1>4, ReplyTaken DEF EgressResync
  <2>2. PICK from \in Nat \ {0} : from = Head(erx[t]).arg
    BY <2>1
  <2>3. from <= Len(log) + 1
    <3>1. from <= nextExpected[t] /\ nextExpected[t] <= Len(log) + 1
      BY <1>4, <2>1, <2>2 DEF WireInv, Serving, Expecting, EgressResync
    <3>2. nextExpected[t] \in Nat
      BY <1>1 DEF ClientTyped
    <3> QED BY <1>2, <3>1, <3>2
  <2>4. PICK r \in Seq(DownFrames) : r = Replay(from)
    BY <2>2, <2>3, Replayed
  <2>5. down[t] \o r \in Seq(DownFrames)
    BY <1>1, Joined DEF WireTyped
  <2>6. down' \in [Tabs -> Seq(DownFrames)]
    BY <1>1, <1>4, <2>2, <2>4, <2>5 DEF WireTyped, EgressResync
  <2>7. next_expected' \in [Tabs -> Nat]
    <3>1. PICK k \in Nat : k = MaxOf(next_expected[t], Len(log) + 1)
      BY <1>1, <1>2 DEF ServerTyped, MaxOf
    <3> QED BY <1>1, <1>4, <3>1 DEF ServerTyped, EgressResync
  <2>8. overtaken' \in [Tabs -> BOOLEAN]
    BY <1>1, <1>4 DEF EgressResync, CausesTyped
  <2> QED BY <1>1, <1>4, <2>1, <2>6, <2>7, <2>8, TypesApart2
     DEF EgressResync, ClientTyped, ServerTyped, WireTyped, CausesTyped, client
<1>5. CASE EgressEvent(t)
  <2>1. rx[t] \in Seq(Nat \ {0}) /\ rx[t] # <<>>
    BY <1>1, <1>5 DEF ServerTyped, EgressEvent
  <2>2. PICK n \in Nat \ {0} : n = Head(rx[t])
    BY <2>1, Tailed
  <2>3. rx' \in [Tabs -> Seq(Nat \ {0})]
    <3>1. PICK r \in Seq(Nat \ {0}) : r = Tail(rx[t])
      BY <2>1, Tailed
    <3> QED BY <1>1, <1>5, <3>1 DEF ServerTyped, EgressEvent
  <2>4. next_expected' \in [Tabs -> Nat]
    <3>1. PICK k \in Nat : k = n + 1
      BY <2>2
    <3> QED BY <1>1, <1>5, <2>2, <3>1 DEF ServerTyped, EgressEvent
  <2>5. down' \in [Tabs -> Seq(DownFrames)]
    <3>1. PICK f \in DownFrames : f = Frame("event", n)
      BY FrameTyped
    <3>2. Append(down[t], f) \in Seq(DownFrames)
      BY <1>1, Appended DEF WireTyped
    <3> QED BY <1>1, <1>5, <2>2, <3>1, <3>2 DEF WireTyped, EgressEvent
  <2> QED BY <1>1, <1>5, <2>3, <2>4, <2>5, TypesApart2
     DEF EgressEvent, ClientTyped, ServerTyped, WireTyped, CausesTyped, client, causes
<1> QED BY <1>3, <1>4, <1>5

(* The three replies the client makes to a frame; at most one of them.     *)
LEMMA Answered ==
  ASSUME TypeOK, NEW t \in Tabs,
         RequestResync(t) \/ FlushOfflineQueue(t) \/ UNCHANGED <<up, offlineQueue>>
  PROVE  up' \in Channels /\ offlineQueue' \in [Tabs -> Seq(Nat \ {0})]
<1>1. offlineQueue \in [Tabs -> Seq(Nat \ {0})] /\ up \in Channels
  BY TypesApart DEF ClientTyped, WireTyped
<1>2. CASE RequestResync(t)
  BY <1>1, <1>2, Asked DEF RequestResync
<1>3. CASE FlushOfflineQueue(t)
  BY <1>3, Handed
<1>4. CASE UNCHANGED <<up, offlineQueue>>
  BY <1>1, <1>4
<1> QED BY <1>2, <1>3, <1>4

LEMMA TypesClient ==
  ASSUME TypeOK, WireInv, RepliesInv, NEW t \in Tabs, HandleFrame(t)
  PROVE  TypeOK'
<1>1. ClientTyped /\ ServerTyped /\ WireTyped /\ CausesTyped
  BY TypesApart
<1>2. PICK type : Take(t, type)
  BY DEF HandleFrame, ClientWelcome, ClientEvent, ClientResyncEnd, ClientReject
<1>3. down' \in [Tabs -> Seq(DownFrames)]
  BY <1>2, Taken
<1>4. PICK n \in Nat : n = Head(down[t]).arg
  BY <1>2, Taken
<1>5. \/ RequestResync(t) \/ FlushOfflineQueue(t) \/ UNCHANGED <<up, offlineQueue>>
  BY DEF HandleFrame, ClientWelcome, ClientEvent, ClientResyncEnd, ClientReject
<1>6. up' \in Channels /\ offlineQueue' \in [Tabs -> Seq(Nat \ {0})]
  BY <1>5, Answered
<1>7. nextExpected' \in [Tabs -> Nat \ {0}]
  <2>1. nextExpected \in [Tabs -> Nat \ {0}]
    BY <1>1 DEF ClientTyped
  <2>2. CASE ClientResyncEnd(t)
    <3>1. PICK k \in Nat \ {0} : k = MaxOf(nextExpected[t], n + 1)
      BY <2>1 DEF MaxOf
    <3> QED BY <1>4, <2>1, <2>2, <3>1 DEF ClientResyncEnd
  <2>3. CASE ClientEvent(t)
    <3>1. PICK k \in Nat \ {0} : k = n + 1
      OBVIOUS
    <3> QED BY <1>4, <2>1, <2>3, <3>1 DEF ClientEvent
  <2>4. CASE ClientWelcome(t) \/ ClientReject(t)
    BY <2>1, <2>4 DEF ClientWelcome, ClientReject
  <2> QED BY <2>2, <2>3, <2>4 DEF HandleFrame
<1>8. pending' \in [Tabs -> Seq(Nat \ {0})]
  <2>1. pending \in [Tabs -> Seq(Nat \ {0})]
    BY <1>1 DEF ClientTyped
  <2>2. pending' = pending \/ \E r \in Seq(Nat \ {0}) : pending' = [pending EXCEPT ![t] = r]
    <3>1. CASE ClientEvent(t)
      <4>1. \/ pending' = pending
            \/ pending[t] # <<>> /\ pending' = [pending EXCEPT ![t] = Tail(pending[t])]
        BY <3>1 DEF ClientEvent, Confirm
      <4>2. pending[t] # <<>> => Tail(pending[t]) \in Seq(Nat \ {0})
        BY <2>1, Tailed
      <4> QED BY <4>1, <4>2
    <3>2. CASE ClientReject(t)
      <4>1. \/ pending' = pending
            \/ \E i \in DOMAIN pending[t] : pending' = [pending EXCEPT ![t] = Splice(pending[t], i)]
        BY <3>2 DEF ClientReject, FindIndex
      <4>2. \A i \in DOMAIN pending[t] : Splice(pending[t], i) \in Seq(Nat \ {0})
        BY <2>1, Spliced
      <4> QED BY <4>1, <4>2
    <3>3. CASE ClientWelcome(t) \/ ClientResyncEnd(t)
      BY <3>3 DEF ClientWelcome, ClientResyncEnd
    <3> QED BY <3>1, <3>2, <3>3 DEF HandleFrame
  <2> QED BY <2>1, <2>2
<1>9. UNCHANGED <<log, egress, opens, dispatched, causes>>
  BY <1>2 DEF Take
<1>10. rejected' \in [Tabs -> SUBSET (Nat \ {0})]
  <2>1. \/ rejected' = rejected
        \/ n \in Nat \ {0} /\ rejected' = [rejected EXCEPT ![t] = rejected[t] \cup {n}]
    <3>1. CASE ClientReject(t)
      <4>1. Take(t, "reject") /\ rejected' = [rejected EXCEPT ![t] = rejected[t] \cup {n}]
        BY <1>4, <3>1 DEF ClientReject
      <4>2. down[t][1].type = "reject" /\ 1 \in DOMAIN down[t] /\ down[t][1].arg = n
        BY <1>4, <4>1, Taken
      <4>3. n \in Intents(t) /\ dispatched[t] \in Nat
        BY <1>1, <4>2 DEF RepliesInv, ClientTyped
      <4> QED BY <4>1, <4>3 DEF Intents
    <3>2. CASE ClientEvent(t)
      BY <3>2 DEF ClientEvent
    <3>3. CASE ClientWelcome(t)
      BY <3>3 DEF ClientWelcome
    <3>4. CASE ClientResyncEnd(t)
      BY <3>4 DEF ClientResyncEnd
    <3> QED BY <3>1, <3>2, <3>3, <3>4 DEF HandleFrame
  <2> QED BY <1>1, <2>1 DEF ClientTyped
<1> QED BY <1>1, <1>3, <1>6, <1>7, <1>8, <1>9, <1>10, TypesApart2
   DEF ClientTyped, ServerTyped, WireTyped, CausesTyped, egress, causes

LEMMA TypesStep ==
  ASSUME TypeOK, WireInv, RepliesInv, [Next]_vars
  PROVE  TypeOK'
<1>1. CASE \E a \in Accounts : OtherCommand(a)
  <2>1. PICK a \in Accounts : OtherCommand(a)
    BY <1>1
  <2>2. log' \in Seq(Command) /\ rx' \in [Tabs -> Seq(Nat \ {0})]
    BY <2>1, Published DEF OtherCommand
  <2>3. ClientTyped /\ ServerTyped /\ WireTyped /\ CausesTyped
    BY TypesApart
  <2> QED BY <2>1, <2>2, <2>3, TypesApart2
     DEF OtherCommand, ClientTyped, ServerTyped, WireTyped, CausesTyped, wire, client, causes
<1>2. ASSUME NEW t \in Tabs, Dispatch(t) \/ Connect(t) \/ Disconnect(t) \/ Egress(t) \/ HandleFrame(t)
      PROVE  TypeOK'
  BY <1>2, TypesDispatch, TypesConnection, TypesEgress, TypesClient DEF Egress
<1>3. ASSUME NEW t \in Tabs, NEW g \in Sockets, FramesLost(t, g) \/ Ingress(t, g)
      PROVE  TypeOK'
  BY <1>3, TypesIngress
<1>4. CASE UNCHANGED vars
  BY <1>4 DEF vars, egress, wire, client, causes, TypeOK
<1> QED BY <1>1, <1>2, <1>3, <1>4 DEF Next

-----------------------------------------------------------------------------
(* Nobody is ahead of the log.                                             *)

LEMMA Numbers ==
  ASSUME TypeOK
  PROVE  /\ Len(log) \in Nat /\ DOMAIN log = 1..Len(log)
         /\ \A t \in Tabs : nextExpected[t] \in Nat \ {0} /\ dispatched[t] \in Nat
BY LenProperties DEF TypeOK

(* A published command reaches receivers that were up to date.             *)
LEMMA WirePublish ==
  ASSUME TypeOK, WireInv, NEW a \in Accounts, NEW x \in (Tabs \X (Nat \ {0})) \cup {NoIntent},
         Publish(a, x), UNCHANGED <<erx, down, nextExpected>>,
         NEW u \in Tabs
  PROVE  (Expecting(u) /\ Awaiting(u) /\ Serving(u) /\ Arriving(u))'
<1>1. Len(log) \in Nat /\ Len(log') = Len(log) + 1 /\ rx[u] \in Seq(Nat \ {0})
  BY Published DEF TypeOK
<1>2. Awaiting(u)'
  <2>1. Awaiting(u)
    BY DEF WireInv
  <2>2. rx'[u] = rx[u] \/ rx'[u] = Append(rx[u], Len(log) + 1)
    BY Published
  <2>3. CASE rx'[u] = rx[u]
    <3>1. ASSUME NEW i \in DOMAIN rx[u] PROVE rx[u][i] <= Len(log) + 1
      <4>1. rx[u][i] \in Nat
        BY <1>1, ElementOfSeq, LenProperties
      <4> QED BY <1>1, <2>1, <4>1 DEF Awaiting
    <3> QED BY <1>1, <2>3, <3>1 DEF Awaiting
  <2>4. CASE rx'[u] = Append(rx[u], Len(log) + 1)
    <3>1. PICK k \in Nat \ {0} : k = Len(log) + 1
      BY <1>1
    <3>2. ASSUME NEW i \in DOMAIN Append(rx[u], k) PROVE Append(rx[u], k)[i] <= k
      <4>1. CASE i \in DOMAIN rx[u] /\ Append(rx[u], k)[i] = rx[u][i]
        <5>1. rx[u][i] \in Nat
          BY <1>1, <4>1, ElementOfSeq, LenProperties
        <5> QED BY <1>1, <2>1, <3>1, <4>1, <5>1 DEF Awaiting
      <4>2. CASE Append(rx[u], k)[i] = k
        BY <4>2
      <4> QED BY <1>1, <3>2, <4>1, <4>2, Appended
    <3> QED BY <1>1, <2>4, <3>1, <3>2 DEF Awaiting
  <2> QED BY <2>2, <2>3, <2>4
<1>3. Serving(u)'
  BY DEF WireInv, Serving
<1>4. Expecting(u)'
  <2>1. nextExpected[u] <= Len(log) + 1 /\ nextExpected[u] \in Nat
    BY Numbers DEF WireInv, Expecting
  <2> QED BY <1>1, <2>1 DEF Expecting
<1>5. Arriving(u)'
  <2>1. \A i \in DOMAIN down[u] : down[u][i].type = "event" => down[u][i].arg \in 1..Len(log)
    BY DEF WireInv, Arriving
  <2>2. 1..Len(log) \subseteq 1..(Len(log) + 1)
    BY <1>1
  <2> QED BY <1>1, <2>1, <2>2 DEF Arriving
<1> QED BY <1>2, <1>3, <1>4, <1>5

(* Frames sent up that ask for nothing new.                                *)
LEMMA AskingSends ==
  ASSUME TypeOK, WireInv, NEW t \in Tabs, NEW fs \in Seq(UpFrames),
         \A u \in Tabs : nextExpected'[u] \in Nat /\ nextExpected[u] <= nextExpected'[u],
         \A u \in Tabs : \A g \in Sockets :
           up'[u][g] = up[u][g] \/ (u = t /\ up'[u][g] = up[u][g] \o fs),
         \A i \in DOMAIN fs : fs[i].type = "resync_request" => fs[i].arg <= nextExpected[t]
  PROVE  \A u \in Tabs : Asking(u)'
<1> SUFFICES ASSUME NEW u \in Tabs, NEW g \in Sockets, NEW i \in DOMAIN up'[u][g],
                    up'[u][g][i].type = "resync_request"
             PROVE  up'[u][g][i].arg <= nextExpected'[u]
  BY DEF Asking
<1>1. up[u][g] \in Seq(UpFrames)
  BY DEF TypeOK, UpFrames
<1>2. \A j \in DOMAIN up[u][g] :
        up[u][g][j].type = "resync_request" => up[u][g][j].arg <= nextExpected[u]
  BY DEF WireInv, Asking
<1>3. \E f \in UpFrames : /\ up'[u][g][i] = f
                          /\ f.type = "resync_request" => f.arg <= nextExpected[u]
  <2>1. CASE up'[u][g] = up[u][g]
    BY <1>1, <1>2, <2>1, ElementOfSeq, LenProperties
  <2>2. CASE u = t /\ up'[u][g] = up[u][g] \o fs
    <3>1. \/ i \in DOMAIN up[u][g] /\ up'[u][g][i] = up[u][g][i]
          \/ i - Len(up[u][g]) \in DOMAIN fs /\ up'[u][g][i] = fs[i - Len(up[u][g])]
      BY <1>1, <2>2, Joined
    <3>2. CASE i \in DOMAIN up[u][g] /\ up'[u][g][i] = up[u][g][i]
      BY <1>1, <1>2, <3>2, ElementOfSeq, LenProperties
    <3>3. CASE i - Len(up[u][g]) \in DOMAIN fs /\ up'[u][g][i] = fs[i - Len(up[u][g])]
      <4>1. fs[i - Len(up[u][g])] \in UpFrames
        BY <3>3, ElementOfSeq, LenProperties
      <4> QED BY <2>2, <3>3, <4>1
    <3> QED BY <3>1, <3>2, <3>3
  <2> QED BY <2>1, <2>2
<1>4. PICK f \in UpFrames : up'[u][g][i] = f /\ f.arg <= nextExpected[u]
  BY <1>3
<1>5. f.arg \in Nat
  BY DEF UpFrames
<1> QED BY <1>4, <1>5, Numbers

(* Frames that leave the wire.                                             *)
LEMMA AskingLess ==
  ASSUME TypeOK, WireInv,
         \A u \in Tabs : nextExpected'[u] \in Nat /\ nextExpected[u] <= nextExpected'[u],
         \A u \in Tabs : \A g \in Sockets : \A i \in DOMAIN up'[u][g] :
           \E j \in DOMAIN up[u][g] : up'[u][g][i] = up[u][g][j]
  PROVE  \A u \in Tabs : Asking(u)'
<1> SUFFICES ASSUME NEW u \in Tabs, NEW g \in Sockets, NEW i \in DOMAIN up'[u][g],
                    up'[u][g][i].type = "resync_request"
             PROVE  up'[u][g][i].arg <= nextExpected'[u]
  BY DEF Asking
<1>1. PICK j \in DOMAIN up[u][g] : up'[u][g][i] = up[u][g][j]
  OBVIOUS
<1>2. up[u][g] \in Seq(UpFrames)
  BY DEF TypeOK, UpFrames
<1>3. up[u][g][j].arg <= nextExpected[u]
  BY <1>1 DEF WireInv, Asking
<1>4. up[u][g][j] \in UpFrames
  BY <1>2, ElementOfSeq, LenProperties
<1>5. up[u][g][j].arg \in Nat
  BY <1>4 DEF UpFrames
<1> QED BY <1>1, <1>3, <1>5, Numbers

LEMMA WireDispatch ==
  ASSUME TypeOK, WireInv, NEW t \in Tabs, Dispatch(t)
  PROVE  WireInv'
<1>1. \A u \in Tabs : Expecting(u) /\ Awaiting(u) /\ Serving(u) /\ Arriving(u) /\ Asking(u)
  BY DEF WireInv
<1>2. UNCHANGED <<log, rx, erx, down, nextExpected>>
  BY DEF Dispatch, egress
<1>3. \A u \in Tabs : Asking(u)'
  <2>1. CASE Connected(t)
    <3>1. PICK f \in UpFrames : f = Frame("intent", NextId(t))
      <4>1. NextId(t) \in Nat \ {0}
        BY Numbers DEF NextId
      <4> QED BY <4>1, FrameTyped
    <3>2. <<f>> \in Seq(UpFrames) /\ Transmit(t, <<f>>)
      BY <2>1, <3>1, OneFrame DEF Dispatch
    <3>3. \A i \in DOMAIN <<f>> : <<f>>[i].type # "resync_request"
      BY <3>1, FrameIs, OneFrame
    <3>4. \A u \in Tabs : \A g \in Sockets :
            up'[u][g] = up[u][g] \/ (u = t /\ up'[u][g] = up[u][g] \o <<f>>)
      BY <3>2, Sends
    <3>5. \A u \in Tabs : nextExpected'[u] \in Nat /\ nextExpected[u] <= nextExpected'[u]
      BY <1>2, Numbers
    <3> QED BY <3>2, <3>3, <3>4, <3>5, AskingSends
  <2>2. CASE ~Connected(t)
    BY <1>1, <1>2, <2>2 DEF Dispatch, Asking
  <2> QED BY <2>1, <2>2
<1> QED BY <1>1, <1>2, <1>3 DEF WireInv, Expecting, Awaiting, Serving, Arriving

LEMMA WireConnection ==
  ASSUME TypeOK, WireInv, NEW t \in Tabs, Connect(t) \/ Disconnect(t) \/ Welcome(t)
  PROVE  WireInv'
<1>1. \A u \in Tabs : Expecting(u) /\ Awaiting(u) /\ Serving(u) /\ Arriving(u) /\ Asking(u)
  BY DEF WireInv
<1>2. CASE Connect(t)
  BY <1>1, <1>2
     DEF Connect, client, wire, WireInv, Expecting, Awaiting, Serving, Arriving, Asking
<1>3. CASE Disconnect(t)
  <2>1. UNCHANGED <<log, up, nextExpected>>
    BY <1>3 DEF Disconnect, client
  <2>2. \A u \in Tabs :
          /\ rx'[u] = rx[u] \/ rx'[u] = <<>>
          /\ erx'[u] = erx[u] \/ erx'[u] = <<>>
          /\ down'[u] = down[u] \/ down'[u] = <<>>
    BY <1>3 DEF Disconnect, TypeOK
  <2>3. ASSUME NEW u \in Tabs PROVE Awaiting(u)'
    <3>1. CASE rx'[u] = rx[u]
      BY <1>1, <2>1, <3>1 DEF Awaiting
    <3>2. CASE rx'[u] = <<>>
      BY <3>2 DEF Awaiting
    <3> QED BY <2>2, <3>1, <3>2
  <2>4. ASSUME NEW u \in Tabs PROVE Serving(u)'
    <3>1. CASE erx'[u] = erx[u]
      BY <1>1, <2>1, <3>1 DEF Serving
    <3>2. CASE erx'[u] = <<>>
      BY <3>2 DEF Serving
    <3> QED BY <2>2, <3>1, <3>2
  <2>5. ASSUME NEW u \in Tabs PROVE Arriving(u)'
    BY <1>1, <2>1, <2>2 DEF Arriving
  <2> QED BY <1>1, <2>1, <2>3, <2>4, <2>5 DEF WireInv, Expecting, Asking
<1>4. CASE Welcome(t)
  <2>1. UNCHANGED <<log, up, rx, erx, nextExpected>>
    BY <1>4 DEF Welcome, client
  <2>2. PICK f \in DownFrames : f = Frame("welcome", Len(log))
    BY Numbers, FrameTyped
  <2>3. \A u \in Tabs : down'[u] = down[u] \/ down'[u] = <<f>>
    BY <1>4, <2>2 DEF Welcome, TypeOK
  <2>4. \A i \in DOMAIN <<f>> : <<f>>[i].type # "event"
    BY <2>2, FrameIs, OneFrame
  <2> QED BY <1>1, <2>1, <2>3, <2>4 DEF WireInv, Expecting, Awaiting, Serving, Arriving, Asking
<1> QED BY <1>2, <1>3, <1>4

LEMMA WireIngress ==
  ASSUME TypeOK, WireInv, NEW t \in Tabs, NEW g \in Sockets, FramesLost(t, g) \/ Ingress(t, g)
  PROVE  WireInv'
<1>1. \A u \in Tabs : Expecting(u) /\ Awaiting(u) /\ Serving(u) /\ Arriving(u) /\ Asking(u)
  BY DEF WireInv
<1>2. UNCHANGED <<down, nextExpected>>
  BY DEF FramesLost, Ingress, IngressCommits, IngressRejects, IngressResync, client
<1>3. CASE FramesLost(t, g)
  <2>1. \A u \in Tabs : Asking(u)'
    BY <1>2, <1>3, FramesGone, Numbers, AskingLess
  <2> QED BY <1>1, <1>2, <1>3, <2>1
     DEF FramesLost, egress, WireInv, Expecting, Awaiting, Serving, Arriving
<1>4. ASSUME NEW type, Receives(t, g, type) PROVE \A u \in Tabs : Asking(u)'
  BY <1>2, <1>4, FrameRead, Numbers, AskingLess
<1>5. CASE IngressCommits(t, g)
  <2>1. Receives(t, g, "intent")
    BY <1>5 DEF IngressCommits
  <2>2. PICK n \in Nat \ {0} : n = Head(up[t][g]).arg
    BY <2>1, FrameRead DEF UpFrames
  <2>3. Publish(Self, <<t, n>>) /\ erx' = erx
    BY <1>5, <2>2 DEF IngressCommits
  <2>4. \A u \in Tabs : (Expecting(u) /\ Awaiting(u) /\ Serving(u) /\ Arriving(u))'
    BY <1>2, <2>3, ConstantsOK, WirePublish DEF ConstantsOK
  <2> QED BY <1>4, <2>1, <2>4 DEF WireInv
<1>6. ASSUME NEW x \in {"reject", "resync"}, NEW n \in Nat \ {0}, Reply(t, g, Frame(x, n)),
             UNCHANGED <<log, rx>>, x = "resync" => n <= nextExpected[t],
             \A u \in Tabs : Asking(u)'
      PROVE  WireInv'
  <2>1. PICK f \in Replies : f = Frame(x, n)
    BY FrameTyped
  <2>2. f.type = x /\ f.arg = n
    BY <2>1, FrameIs
  <2>3. ASSUME NEW u \in Tabs PROVE Serving(u)'
    <3>1. erx'[u] = erx[u] \/ (u = t /\ erx'[u] = Append(erx[u], f))
      BY <1>6, <2>1, Replied
    <3>2. erx[u] \in Seq(Replies)
      BY TypesApart DEF ServerTyped
    <3>3. \A i \in DOMAIN Append(erx[u], f) :
            \/ i \in DOMAIN erx[u] /\ Append(erx[u], f)[i] = erx[u][i]
            \/ Append(erx[u], f)[i] = f
      BY <3>2, Appended
    <3> QED BY <1>1, <1>2, <1>6, <2>2, <3>1, <3>3 DEF Serving
  <2> QED BY <1>1, <1>2, <1>6, <2>3 DEF WireInv, Expecting, Awaiting, Arriving
<1>7. CASE IngressRejects(t, g)
  <2>1. Receives(t, g, "intent") /\ Reply(t, g, Frame("reject", Head(up[t][g]).arg))
    BY <1>7 DEF IngressRejects
  <2>2. PICK n \in Nat \ {0} : n = Head(up[t][g]).arg
    BY <2>1, FrameRead DEF UpFrames
  <2> QED BY <1>4, <1>6, <1>7, <2>1, <2>2 DEF IngressRejects
<1>8. CASE IngressResync(t, g)
  <2>1. Receives(t, g, "resync_request") /\ Reply(t, g, Frame("resync", Head(up[t][g]).arg))
    BY <1>8 DEF IngressResync
  <2>2. PICK n \in Nat \ {0} : n = Head(up[t][g]).arg
    BY <2>1, FrameRead DEF UpFrames
  <2>3. n <= nextExpected[t]
    BY <1>1, <2>1, <2>2, FrameRead DEF Asking
  <2> QED BY <1>4, <1>6, <1>8, <2>1, <2>2, <2>3 DEF IngressResync
<1> QED BY <1>3, <1>5, <1>7, <1>8 DEF Ingress

-----------------------------------------------------------------------------
(* Replays.                                                                *)

LEMMA ReplaysEmpty ==
  ASSUME NEW s, s = <<>>, NEW n \in Nat
  PROVE  Replays(s, n)
BY DEF Replays

LEMMA ReplaysOne ==
  ASSUME NEW f \in DownFrames, f.type # "resync_end", NEW n \in Nat
  PROVE  Replays(<<f>>, n)
BY OneFrame DEF Replays

LEMMA ReplaysAppend ==
  ASSUME NEW s \in Seq(DownFrames), NEW f \in DownFrames, NEW n \in Nat,
         Replays(s, n), f.type # "resync_end"
  PROVE  Replays(Append(s, f), n)
<1> SUFFICES ASSUME NEW p \in DOMAIN Append(s, f), Append(s, f)[p].type = "resync_end",
                    NEW e \in n..Append(s, f)[p].arg
             PROVE  LET q == p - 1 - (Append(s, f)[p].arg - e)
                    IN q >= 1 /\ Append(s, f)[q] = Frame("event", e)
  BY DEF Replays
<1>1. p \in DOMAIN s /\ Append(s, f)[p] = s[p]
  BY Appended
<1>2. s[p].type = "resync_end" /\ e \in n..s[p].arg /\ s[p].arg \in Nat
  <2>1. s[p] \in DownFrames
    BY <1>1, ElementOfSeq, LenProperties
  <2> QED BY <1>1, <2>1 DEF DownFrames
<1>3. PICK q \in Int : q = p - 1 - (s[p].arg - e)
  BY <1>1, <1>2, LenProperties
<1>4. q >= 1 /\ s[q] = Frame("event", e)
  BY <1>1, <1>2, <1>3 DEF Replays
<1>5. q \in DOMAIN s
  BY <1>1, <1>2, <1>3, <1>4, LenProperties
<1> QED BY <1>1, <1>3, <1>4, <1>5, Appended

(* The client takes a frame.                                               *)
LEMMA ReplaysTail ==
  ASSUME NEW s \in Seq(DownFrames), s # <<>>, NEW n \in Nat, NEW m \in {n, n + 1},
         Replays(s, n), s[1] = Frame("event", n) => m = n + 1
  PROVE  Replays(Tail(s), m)
<1>1. PICK r \in Seq(DownFrames) :
        /\ r = Tail(s) /\ Len(s) \in Nat /\ DOMAIN s = 1..Len(s) /\ DOMAIN r = 1..(Len(s) - 1)
        /\ \A i \in DOMAIN r : i \in Nat /\ i + 1 \in DOMAIN s /\ r[i] = s[i + 1]
  <2>1. PICK r \in Seq(DownFrames) : r = Tail(s)
    BY Tailed
  <2> QED BY <2>1, Tailed
<1> SUFFICES ASSUME NEW p \in DOMAIN r, r[p].type = "resync_end", NEW e \in m..r[p].arg
             PROVE  LET q == p - 1 - (r[p].arg - e)
                    IN q >= 1 /\ r[q] = Frame("event", e)
  BY <1>1 DEF Replays
<1>2. p + 1 \in DOMAIN s /\ r[p] = s[p + 1] /\ s[p + 1] \in DownFrames /\ p \in Nat
  BY <1>1, ElementOfSeq
<1>3. PICK a \in Nat : a = s[p + 1].arg
  BY <1>2 DEF DownFrames
<1>4. e \in Int /\ n <= e /\ e <= a /\ m <= e
  BY <1>2, <1>3
<1>5. \A d \in n..a : (p + 1) - 1 - (a - d) >= 1 /\ s[(p + 1) - 1 - (a - d)] = Frame("event", d)
  BY <1>2, <1>3 DEF Replays
<1>6. PICK q \in Int : q = p - (a - e)
  BY <1>2, <1>3, <1>4
<1>7. q >= 1 /\ s[q] = Frame("event", e)
  <2>1. q = (p + 1) - 1 - (a - e)
    BY <1>2, <1>3, <1>4, <1>6
  <2> QED BY <1>4, <1>5, <2>1
<1>8. q # 1
  <2> SUFFICES ASSUME q = 1 PROVE FALSE
    OBVIOUS
  <2>1. CASE e = n
    BY <1>4, <1>7, <2>1
  <2>2. CASE e # n
    <3>1. PICK d \in n..a : d = e - 1
      BY <1>4, <2>2
    <3>2. p \in Int /\ a \in Int /\ e \in Int /\ d \in Int /\ d = e - 1 /\ p - (a - e) = 1
      BY <1>2, <1>3, <1>4, <1>6, <3>1
    <3>3. (p + 1) - 1 - (a - d) = 0
      BY <3>2
    <3> QED BY <1>5, <3>3
  <2> QED BY <2>1, <2>2
<1>9. PICK k \in Nat : k = q - 1 /\ k >= 1
  BY <1>7, <1>8
<1>10. k = p - 1 - (r[p].arg - e)
  <2>1. r[p].arg = a
    BY <1>2, <1>3
  <2>2. p \in Int /\ a \in Int /\ e \in Int
    BY <1>2, <1>3, <1>4
  <2>3. k = p - 1 - (a - e)
    BY <1>6, <1>9, <2>2
  <2> QED BY <2>1, <2>3
<1>11. k \in DOMAIN r
  <2>1. p + 1 \in 1..Len(s) /\ Len(s) \in Nat
    BY <1>1, <1>2
  <2>2. q <= p
    BY <1>2, <1>4, <1>6
  <2>3. k <= Len(s) - 1
    BY <1>6, <1>9, <2>1, <2>2
  <2> QED BY <1>1, <1>9, <2>1, <2>3
<1>12. k + 1 = q
  BY <1>9
<1>13. r[k] = Frame("event", e)
  BY <1>1, <1>7, <1>11, <1>12
<1> QED BY <1>9, <1>10, <1>13

(* A replay is appended, of an event the client has not passed.            *)
LEMMA ReplaysReplay ==
  ASSUME TypeOK, NEW s \in Seq(DownFrames), NEW n \in Nat, NEW from \in Nat \ {0},
         from <= n, n <= Len(log) + 1, Replays(s, n)
  PROVE  Replays(s \o Replay(from), n)
<1>1. Len(log) \in Nat
  BY Numbers
<1>2. PICK r \in Seq(DownFrames) : r = Replay(from)
  BY <1>1, Replayed
<1>3. /\ Len(r) = Len(log) + 2 - from
      /\ \A i \in 1..(Len(log) + 1 - from) : r[i] = Frame("event", from + i - 1)
      /\ r[Len(log) + 2 - from] = Frame("resync_end", Len(log))
  <2>1. from <= Len(log) + 1
    BY <1>1
  <2> QED BY <1>2, <2>1, Replayed
<1>4. /\ Len(s) \in Nat /\ Len(r) \in Nat /\ DOMAIN s = 1..Len(s) /\ DOMAIN r = 1..Len(r)
      /\ \A i \in DOMAIN s : i \in DOMAIN (s \o r) /\ (s \o r)[i] = s[i]
      /\ \A i \in DOMAIN r : Len(s) + i \in DOMAIN (s \o r) /\ (s \o r)[Len(s) + i] = r[i]
      /\ \A i \in DOMAIN (s \o r) :
           \/ i \in DOMAIN s /\ (s \o r)[i] = s[i]
           \/ i - Len(s) \in DOMAIN r /\ (s \o r)[i] = r[i - Len(s)]
      /\ DOMAIN (s \o r) = 1..(Len(s) + Len(r))
  BY Joined
<1> SUFFICES ASSUME NEW p \in DOMAIN (s \o r), (s \o r)[p].type = "resync_end",
                    NEW e \in n..(s \o r)[p].arg
             PROVE  LET q == p - 1 - ((s \o r)[p].arg - e)
                    IN q >= 1 /\ (s \o r)[q] = Frame("event", e)
  BY <1>2 DEF Replays
<1>5. CASE p \in DOMAIN s /\ (s \o r)[p] = s[p]
  <2>1. s[p].arg \in Nat
    <3>1. s[p] \in DownFrames
      BY <1>4, <1>5, ElementOfSeq
    <3> QED BY <3>1 DEF DownFrames
  <2>2. PICK q \in Int : q = p - 1 - (s[p].arg - e)
    BY <1>4, <1>5, <2>1
  <2>3. q >= 1 /\ s[q] = Frame("event", e)
    BY <1>5, <2>2 DEF Replays
  <2>4. q \in DOMAIN s
    BY <1>4, <1>5, <2>1, <2>2, <2>3
  <2> QED BY <1>4, <1>5, <2>2, <2>3, <2>4
<1>6. CASE p - Len(s) \in DOMAIN r /\ (s \o r)[p] = r[p - Len(s)]
  <2>0. PICK f \in DOMAIN r : f = p - Len(s) /\ (s \o r)[p] = r[f]
    BY <1>6
  <2>1. f = Len(log) + 2 - from
    <3> SUFFICES ASSUME f # Len(log) + 2 - from PROVE FALSE
      OBVIOUS
    <3>1. PICK l \in Nat : l = Len(log)
      BY <1>1
    <3>2. f \in 1..(l + 2 - from) /\ f # l + 2 - from
      BY <1>3, <1>4, <2>0, <3>1
    <3>3. f \in 1..(l + 1 - from)
      BY <3>2
    <3>4. r[f] = Frame("event", from + f - 1)
      BY <1>3, <3>1, <3>3
    <3>5. r[f].type = "event"
      BY <3>4, FrameIs
    <3> QED BY <2>0, <3>5
  <2>2. (s \o r)[p].arg = Len(log)
    <3>1. r[f] = Frame("resync_end", Len(log))
      BY <1>3, <2>1
    <3>2. r[f].arg = Len(log)
      BY <3>1, FrameIs
    <3> QED BY <2>0, <3>2
  <2>3. e \in Nat /\ n <= e /\ e <= Len(log) /\ p = Len(s) + (Len(log) + 2 - from)
    <3>1. e \in n..Len(log)
      BY <2>2
    <3>2. p \in Int /\ Len(s) \in Nat
      BY <1>4
    <3>3. p = Len(s) + f
      BY <2>0, <3>2
    <3> QED BY <1>1, <2>1, <3>1, <3>3
  <2>4. PICK i \in 1..(Len(log) + 1 - from) : i = e + 1 - from
    BY <1>1, <2>3
  <2>5. from + i - 1 = e /\ i \in DOMAIN r
    BY <1>1, <1>3, <1>4, <2>3, <2>4
  <2>6. (s \o r)[Len(s) + i] = Frame("event", e)
    BY <1>3, <1>4, <2>4, <2>5
  <2>7. Len(s) + i = p - 1 - ((s \o r)[p].arg - e) /\ Len(s) + i >= 1
    BY <1>1, <1>4, <2>2, <2>3, <2>4
  <2> QED BY <2>6, <2>7
<1> QED BY <1>4, <1>5, <1>6

LEMMA ResyncServed ==
  ASSUME TypeOK, WireInv, NEW t \in Tabs, EgressResync(t)
  PROVE  \E from \in Nat \ {0} :
           /\ from = Head(erx[t]).arg
           /\ from <= nextExpected[t] /\ nextExpected[t] <= Len(log) + 1 /\ from <= Len(log) + 1
           /\ Replay(from) \in Seq(DownFrames)
           /\ down' = [down EXCEPT ![t] = down[t] \o Replay(from)]
<1>1. Len(log) \in Nat /\ nextExpected[t] \in Nat
  BY Numbers
<1>2. /\ Head(erx[t]) = erx[t][1] /\ 1 \in DOMAIN erx[t] /\ Head(erx[t]).arg \in Nat \ {0}
      /\ erx[t][1].type = "resync"
  BY ReplyTaken DEF EgressResync
<1>3. PICK from \in Nat \ {0} : from = Head(erx[t]).arg
  BY <1>2
<1>4. from <= nextExpected[t] /\ nextExpected[t] <= Len(log) + 1
  BY <1>2, <1>3 DEF WireInv, Serving, Expecting
<1>5. from <= Len(log) + 1
  BY <1>1, <1>4
<1>6. down' = [down EXCEPT ![t] = down[t] \o Replay(from)]
  BY <1>3 DEF EgressResync
<1> QED BY <1>3, <1>4, <1>5, <1>6, Replayed

(* EgressEvent: a broadcast is dropped, or sent.                           *)
LEMMA EventSent ==
  ASSUME TypeOK, WireInv, NEW t \in Tabs, EgressEvent(t)
  PROVE  \E n \in 1..Len(log) :
           /\ UNCHANGED down \/ down' = [down EXCEPT ![t] = Append(down[t], Frame("event", n))]
           /\ Frame("event", n) \in DownFrames
           /\ \A u \in Tabs : \A i \in DOMAIN rx'[u] : \E j \in DOMAIN rx[u] : rx'[u][i] = rx[u][j]
<1>1. rx \in [Tabs -> Seq(Nat \ {0})] /\ rx[t] # <<>> /\ Len(log) \in Nat
  BY Numbers DEF TypeOK, EgressEvent
<1>2. /\ 1 \in DOMAIN rx[t] /\ Head(rx[t]) = rx[t][1] /\ Head(rx[t]) \in Nat \ {0}
      /\ \A i \in DOMAIN Tail(rx[t]) : i + 1 \in DOMAIN rx[t] /\ Tail(rx[t])[i] = rx[t][i + 1]
  <2>1. rx[t] \in Seq(Nat \ {0})
    BY <1>1
  <2> QED BY <1>1, <2>1, Tailed
<1>3. rx[t][1] <= Len(log)
  BY <1>2 DEF WireInv, Awaiting
<1>4. PICK n \in 1..Len(log) : n = Head(rx[t])
  BY <1>1, <1>2, <1>3
<1>5. rx' = [rx EXCEPT ![t] = Tail(rx[t])]
  BY DEF EgressEvent
<1>6. \A u \in Tabs : \A i \in DOMAIN rx'[u] : \E j \in DOMAIN rx[u] : rx'[u][i] = rx[u][j]
  <2> SUFFICES ASSUME NEW u \in Tabs, NEW i \in DOMAIN rx'[u]
               PROVE  \E j \in DOMAIN rx[u] : rx'[u][i] = rx[u][j]
    OBVIOUS
  <2>1. CASE u = t
    <3>1. rx'[t] = Tail(rx[t])
      BY <1>1, <1>5
    <3> QED BY <1>2, <2>1, <3>1
  <2>2. CASE u # t
    <3>1. rx'[u] = rx[u]
      BY <1>1, <1>5, <2>2
    <3> QED BY <3>1
  <2> QED BY <2>1, <2>2
<1>7. Frame("event", n) \in DownFrames
  BY <1>1, FrameTyped
<1> QED BY <1>4, <1>6, <1>7 DEF EgressEvent

(* A frame is sent down.                                                   *)
LEMMA FrameSent ==
  ASSUME TypeOK, NEW t \in Tabs, NEW f \in DownFrames,
         down' = [down EXCEPT ![t] = Append(down[t], f)],
         NEW u \in Tabs
  PROVE  /\ down[u] \in Seq(DownFrames)
         /\ down'[u] = down[u] \/ (u = t /\ down'[u] = Append(down[u], f))
         /\ \A i \in DOMAIN down'[u] :
              \/ i \in DOMAIN down[u] /\ down'[u][i] = down[u][i]
              \/ u = t /\ down'[u][i] = f
<1>1. down \in [Tabs -> Seq(DownFrames)]
  BY TypesApart DEF WireTyped
<1>2. down[u] \in Seq(DownFrames) /\ (down'[u] = down[u] \/ (u = t /\ down'[u] = Append(down[u], f)))
  BY <1>1
<1>3. CASE down'[u] = down[u]
  BY <1>2, <1>3
<1>4. CASE u = t /\ down'[u] = Append(down[u], f)
  BY <1>2, <1>4, Appended
<1> QED BY <1>2, <1>3, <1>4

LEMMA WireEgress ==
  ASSUME TypeOK, WireInv, NEW t \in Tabs, EgressReject(t) \/ EgressResync(t) \/ EgressEvent(t)
  PROVE  WireInv'
<1>1. \A u \in Tabs : Expecting(u) /\ Awaiting(u) /\ Serving(u) /\ Arriving(u) /\ Asking(u)
  BY DEF WireInv
<1>2. UNCHANGED <<log, up, nextExpected>>
  BY DEF EgressReject, EgressResync, EgressEvent, client
<1>3. \A u \in Tabs : Expecting(u)' /\ Asking(u)'
  BY <1>1, <1>2 DEF Expecting, Asking
<1>4. ASSUME erx[t] # <<>>, erx' = [erx EXCEPT ![t] = Tail(@)], NEW u \in Tabs
      PROVE  Serving(u)'
  <2>1. CASE u = t
    <3>1. \A i \in DOMAIN erx'[t] : i + 1 \in DOMAIN erx[t] /\ erx'[t][i] = erx[t][i + 1]
      BY <1>4, ReplyTaken
    <3> QED BY <1>1, <1>2, <2>1, <3>1 DEF Serving
  <2>2. CASE u # t
    <3>1. erx'[u] = erx[u]
      BY <1>4, <2>2, ReplyTaken
    <3> QED BY <1>1, <1>2, <3>1 DEF Serving
  <2> QED BY <2>1, <2>2
<1>5. CASE EgressReject(t)
  <2>1. Head(erx[t]) \in Replies /\ Head(erx[t]).type = "reject"
    BY <1>5, ReplyTaken DEF EgressReject
  <2>2. PICK f \in DownFrames : f = Head(erx[t]) /\ f.type = "reject"
    BY <2>1 DEF Replies, DownFrames
  <2>3. down' = [down EXCEPT ![t] = Append(down[t], f)] /\ rx' = rx
    BY <1>5, <2>2 DEF EgressReject
  <2>4. ASSUME NEW u \in Tabs PROVE Arriving(u)'
    BY <1>1, <1>2, <2>2, <2>3, FrameSent DEF Arriving
  <2>5. \A u \in Tabs : Serving(u)'
    BY <1>4, <1>5 DEF EgressReject
  <2> QED BY <1>1, <1>2, <1>3, <2>3, <2>4, <2>5 DEF WireInv, Awaiting
<1>6. CASE EgressResync(t)
  <2>1. rx' = rx
    BY <1>6 DEF EgressResync
  <2>2. \A u \in Tabs : Serving(u)'
    BY <1>4, <1>6 DEF EgressResync
  <2>3. PICK from \in Nat \ {0} : /\ from <= Len(log) + 1
                                 /\ Replay(from) \in Seq(DownFrames)
                                 /\ down' = [down EXCEPT ![t] = down[t] \o Replay(from)]
    BY <1>6, ResyncServed
  <2>4. ASSUME NEW u \in Tabs PROVE Arriving(u)'
    <3>1. down \in [Tabs -> Seq(DownFrames)]
      BY TypesApart DEF WireTyped
    <3>2. CASE u # t
      <4>1. down'[u] = down[u]
        BY <2>3, <3>1, <3>2
      <4> QED BY <1>1, <1>2, <4>1 DEF Arriving
    <3>3. CASE u = t
      <4>1. PICK r \in Seq(DownFrames) : r = Replay(from)
        BY <2>3
      <4>2. down'[t] = down[t] \o r
        BY <2>3, <3>1, <4>1
      <4>3. Len(log) \in Nat /\ DOMAIN r = 1..(Len(log) + 2 - from)
        BY <2>3, <4>1, Numbers, Replayed, LenProperties
      <4>4. ASSUME NEW i \in DOMAIN r, r[i].type = "event" PROVE r[i].arg \in 1..Len(log)
        <5>1. i \in 1..(Len(log) + 1 - from) \/ i = Len(log) + 2 - from
          BY <4>3
        <5>2. CASE i \in 1..(Len(log) + 1 - from)
          <6>1. r[i] = Frame("event", from + i - 1)
            BY <2>3, <4>1, <5>2, Replayed
          <6> QED BY <4>3, <5>2, <6>1, FrameIs
        <5>3. CASE i = Len(log) + 2 - from
          <6>1. r[i] = Frame("resync_end", Len(log))
            BY <2>3, <4>1, <5>3, Replayed
          <6> QED BY <4>4, <6>1, FrameIs
        <5> QED BY <5>1, <5>2, <5>3
      <4>5. \A i \in DOMAIN (down[t] \o r) :
              \/ i \in DOMAIN down[t] /\ (down[t] \o r)[i] = down[t][i]
              \/ i - Len(down[t]) \in DOMAIN r /\ (down[t] \o r)[i] = r[i - Len(down[t])]
        BY <3>1, Joined
      <4> QED BY <1>1, <1>2, <3>3, <4>2, <4>4, <4>5 DEF Arriving
    <3> QED BY <3>2, <3>3
  <2> QED BY <1>1, <1>2, <1>3, <2>1, <2>2, <2>4 DEF WireInv, Awaiting
<1>7. CASE EgressEvent(t)
  <2>1. erx' = erx
    BY <1>7 DEF EgressEvent
  <2>2. PICK n \in 1..Len(log) :
          /\ UNCHANGED down \/ down' = [down EXCEPT ![t] = Append(down[t], Frame("event", n))]
          /\ Frame("event", n) \in DownFrames
          /\ \A u \in Tabs : \A i \in DOMAIN rx'[u] : \E j \in DOMAIN rx[u] : rx'[u][i] = rx[u][j]
    BY <1>7, EventSent
  <2>3. PICK f \in DownFrames : f = Frame("event", n)
    BY <2>2
  <2>4. f.arg = n
    BY <2>3, FrameIs
  <2>5. ASSUME NEW u \in Tabs PROVE Arriving(u)'
    <3>1. CASE UNCHANGED down
      BY <1>1, <1>2, <3>1 DEF Arriving
    <3>2. CASE down' = [down EXCEPT ![t] = Append(down[t], f)]
      <4>1. \A i \in DOMAIN down'[u] :
              \/ i \in DOMAIN down[u] /\ down'[u][i] = down[u][i]
              \/ down'[u][i] = f
        BY <3>2, FrameSent
      <4> QED BY <1>1, <1>2, <2>4, <4>1 DEF Arriving
    <3> QED BY <2>2, <2>3, <3>1, <3>2
  <2>6. \A u \in Tabs : Awaiting(u)'
    BY <1>1, <1>2, <2>2 DEF Awaiting
  <2> QED BY <1>1, <1>2, <1>3, <2>1, <2>5, <2>6 DEF WireInv, Serving
<1> QED BY <1>5, <1>6, <1>7

(* A resync_end moves the client past nothing.                             *)
LEMMA EndAnswers ==
  ASSUME TypeOK, ReplayInv, NEW t \in Tabs, Take(t, "resync_end")
  PROVE  Head(down[t]).arg < nextExpected[t]
<1>1. /\ 1 \in DOMAIN down[t] /\ Head(down[t]) = down[t][1] /\ down[t][1].type = "resync_end"
      /\ down[t][1].arg \in Nat
  BY Taken
<1>2. PICK a \in Nat : a = down[t][1].arg
  BY <1>1
<1>3. PICK n \in Nat : n = nextExpected[t]
  BY Numbers
<1>4. \A e \in n..a : 1 - 1 - (a - e) >= 1
  BY <1>1, <1>2, <1>3 DEF ReplayInv, Replays
<1>5. ~(n <= a)
  <2> SUFFICES ASSUME n <= a PROVE FALSE
    OBVIOUS
  <2>1. a \in n..a
    BY <1>2, <1>3
  <2> QED BY <1>4, <2>1
<1> QED BY <1>1, <1>2, <1>3, <1>5

(* What the client's handlers do to nextExpected.                          *)
LEMMA Advances ==
  ASSUME TypeOK, WireInv, ReplayInv, NEW t \in Tabs, HandleFrame(t)
  PROVE  \/ nextExpected' = nextExpected /\ Head(down[t]) # Frame("event", nextExpected[t])
         \/ /\ Head(down[t]) = Frame("event", nextExpected[t]) /\ nextExpected[t] \in 1..Len(log)
            /\ nextExpected' = [nextExpected EXCEPT ![t] = nextExpected[t] + 1]
            /\ UNCHANGED <<up, offlineQueue>>
<1>1. nextExpected \in [Tabs -> Nat \ {0}]
  BY DEF TypeOK
<1>2. CASE ClientEvent(t)
  <2>1. Take(t, "event")
    BY <1>2 DEF ClientEvent
  <2>2. PICK n \in Nat : n = Head(down[t]).arg
    BY <2>1, Taken
  <2>3. Head(down[t]) = Frame("event", n)
    BY <2>1, <2>2, Taken, FrameOf
  <2>4. CASE n # nextExpected[t] /\ nextExpected' = nextExpected
    BY <2>3, <2>4, FrameIs
  <2>5. CASE /\ n = nextExpected[t] /\ nextExpected' = [nextExpected EXCEPT ![t] = n + 1]
             /\ UNCHANGED <<up, offlineQueue>>
    <3>1. n \in 1..Len(log)
      BY <2>1, <2>2, Taken DEF WireInv, Arriving
    <3> QED BY <2>3, <2>5, <3>1
  <2> QED BY <1>1, <1>2, <2>2, <2>4, <2>5 DEF ClientEvent
<1>3. ASSUME NEW x, x # "event", Take(t, x), nextExpected' = nextExpected
      PROVE  nextExpected' = nextExpected /\ Head(down[t]) # Frame("event", nextExpected[t])
  BY <1>3, Taken, FrameIs
<1>4. CASE ClientResyncEnd(t)
  <2>1. Take(t, "resync_end") /\ Head(down[t]).arg < nextExpected[t]
    BY <1>4, EndAnswers DEF ClientResyncEnd
  <2>2. PICK a \in Nat : a = Head(down[t]).arg
    BY <2>1, Taken
  <2>3. MaxOf(nextExpected[t], a + 1) = nextExpected[t]
    BY <1>1, <2>1, <2>2 DEF MaxOf
  <2>4. nextExpected' = nextExpected
    BY <1>1, <1>4, <2>2, <2>3 DEF ClientResyncEnd
  <2> QED BY <1>3, <2>1, <2>4
<1>5. CASE ClientWelcome(t)
  BY <1>3, <1>5 DEF ClientWelcome
<1>6. CASE ClientReject(t)
  BY <1>3, <1>6 DEF ClientReject
<1> QED BY <1>2, <1>4, <1>5, <1>6 DEF HandleFrame

LEMMA WireClient ==
  ASSUME TypeOK, WireInv, ReplayInv, NEW t \in Tabs, HandleFrame(t)
  PROVE  WireInv'
<1>1. \A u \in Tabs : Expecting(u) /\ Awaiting(u) /\ Serving(u) /\ Arriving(u) /\ Asking(u)
  BY DEF WireInv
<1>2. PICK type : Take(t, type)
  BY DEF HandleFrame, ClientWelcome, ClientEvent, ClientResyncEnd, ClientReject
<1>3. UNCHANGED <<log, rx, erx>>
  BY <1>2 DEF Take, egress
<1>4. \A u \in Tabs : /\ nextExpected'[u] \in Nat /\ nextExpected[u] <= nextExpected'[u]
                      /\ nextExpected'[u] <= Len(log) + 1
  <2>1. nextExpected \in [Tabs -> Nat \ {0}] /\ Len(log) \in Nat
    BY Numbers DEF TypeOK
  <2>2. CASE nextExpected' = nextExpected
    BY <1>1, <2>1, <2>2 DEF Expecting
  <2>3. CASE /\ nextExpected[t] \in 1..Len(log)
             /\ nextExpected' = [nextExpected EXCEPT ![t] = nextExpected[t] + 1]
    <3>1. PICK n \in Nat : n = nextExpected[t] + 1 /\ n <= Len(log) + 1 /\ nextExpected[t] <= n
      BY <2>1, <2>3
    <3>2. nextExpected' = [nextExpected EXCEPT ![t] = n]
      BY <2>3, <3>1
    <3> QED BY <1>1, <2>1, <3>1, <3>2 DEF Expecting
  <2> QED BY <2>2, <2>3, Advances
<1>5. ASSUME NEW u \in Tabs PROVE Serving(u)'
  <2> SUFFICES ASSUME NEW i \in DOMAIN erx[u], erx[u][i].type = "resync"
               PROVE  erx[u][i].arg <= nextExpected'[u]
    BY <1>3 DEF Serving
  <2>1. erx[u][i].arg <= nextExpected[u]
    BY <1>1 DEF Serving
  <2>2. erx[u][i].arg \in Nat
    <3>1. erx[u] \in Seq(Replies)
      BY TypesApart DEF ServerTyped
    <3>2. erx[u][i] \in Replies
      BY <3>1, ElementOfSeq, LenProperties
    <3> QED BY <3>2 DEF Replies
  <2> QED BY <1>4, <2>1, <2>2, Numbers
<1>6. ASSUME NEW u \in Tabs PROVE Arriving(u)'
  <2>1. CASE u = t
    BY <1>1, <1>2, <1>3, <2>1, Taken DEF Arriving
  <2>2. CASE u # t
    <3>1. down'[u] = down[u]
      BY <1>2, <2>2, Taken
    <3> QED BY <1>1, <1>3, <3>1 DEF Arriving
  <2> QED BY <2>1, <2>2
<1>7. \A u \in Tabs : Asking(u)'
  <2>1. CASE RequestResync(t)
    <3>1. PICK f \in UpFrames :
            /\ f = Frame("resync_request", nextExpected[t])
            /\ \A u \in Tabs : \A g \in Sockets :
                up'[u][g] = up[u][g] \/ (u = t /\ up'[u][g] = up[u][g] \o <<f>>)
      BY <2>1, Asked
    <3>2. \A i \in DOMAIN <<f>> : <<f>>[i].arg <= nextExpected[t]
      BY <3>1, FrameIs, OneFrame, Numbers
    <3>3. <<f>> \in Seq(UpFrames)
      BY OneFrame
    <3> QED BY <1>4, <3>1, <3>2, <3>3, AskingSends
  <2>2. CASE FlushOfflineQueue(t)
    <3>1. \A i \in DOMAIN Intended(offlineQueue[t]) :
            Intended(offlineQueue[t])[i].type # "resync_request"
      BY FrameIs DEF Intended
    <3>2. PICK fs \in Seq(UpFrames) :
            /\ fs = Intended(offlineQueue[t])
            /\ \A u \in Tabs : \A g \in Sockets :
                up'[u][g] = up[u][g] \/ (u = t /\ up'[u][g] = up[u][g] \o fs)
      BY <2>2, Handed
    <3> QED BY <1>4, <3>1, <3>2, AskingSends
  <2>3. CASE UNCHANGED up
    BY <1>4, <2>3, AskingLess
  <2> QED BY <2>1, <2>2, <2>3
      DEF HandleFrame, ClientWelcome, ClientEvent, ClientResyncEnd, ClientReject
<1> QED BY <1>1, <1>3, <1>4, <1>5, <1>6, <1>7 DEF WireInv, Expecting, Awaiting

LEMMA WireStep ==
  ASSUME TypeOK, WireInv, ReplayInv, [Next]_vars
  PROVE  WireInv'
<1>1. CASE \E a \in Accounts : OtherCommand(a)
  <2>1. PICK a \in Accounts : OtherCommand(a)
    BY <1>1
  <2>2. Publish(a, NoIntent) /\ UNCHANGED <<erx, down, up, nextExpected>>
    BY <2>1 DEF OtherCommand, wire, client
  <2>3. \A u \in Tabs : (Expecting(u) /\ Awaiting(u) /\ Serving(u) /\ Arriving(u))'
    BY <2>2, WirePublish
  <2> QED BY <2>2, <2>3 DEF WireInv, Asking
<1>2. ASSUME NEW t \in Tabs, Dispatch(t) \/ Connect(t) \/ Disconnect(t) \/ Egress(t) \/ HandleFrame(t)
      PROVE  WireInv'
  BY <1>2, WireDispatch, WireConnection, WireEgress, WireClient DEF Egress
<1>3. ASSUME NEW t \in Tabs, NEW g \in Sockets, FramesLost(t, g) \/ Ingress(t, g)
      PROVE  WireInv'
  BY <1>3, WireIngress
<1>4. CASE UNCHANGED vars
  BY <1>4 DEF vars, egress, wire, client, WireInv, Expecting, Awaiting, Serving, Arriving, Asking
<1> QED BY <1>1, <1>2, <1>3, <1>4 DEF Next

LEMMA ReplayStep ==
  ASSUME TypeOK, WireInv, ReplayInv, [Next]_vars
  PROVE  ReplayInv'
<1> SUFFICES ASSUME NEW u \in Tabs PROVE Replays(down'[u], nextExpected'[u])
  BY DEF ReplayInv
<1>1. Replays(down[u], nextExpected[u]) /\ nextExpected[u] \in Nat
  BY Numbers DEF ReplayInv
<1>2. down \in [Tabs -> Seq(DownFrames)]
  BY TypesApart DEF WireTyped
<1>3. CASE UNCHANGED <<down, nextExpected>>
  BY <1>1, <1>3
<1>4. ASSUME NEW t \in Tabs, NEW f \in DownFrames, f.type # "resync_end",
             nextExpected' = nextExpected, down' = [down EXCEPT ![t] = Append(down[t], f)]
      PROVE  Replays(down'[u], nextExpected'[u])
  <2>1. down[u] \in Seq(DownFrames) /\ (down'[u] = down[u] \/ down'[u] = Append(down[u], f))
    BY <1>2, <1>4
  <2> QED BY <1>1, <1>4, <2>1, ReplaysAppend
<1>5. ASSUME NEW t \in Tabs, Disconnect(t) PROVE Replays(down'[u], nextExpected'[u])
  <2>1. nextExpected' = nextExpected /\ down' = [down EXCEPT ![t] = <<>>]
    BY <1>5 DEF Disconnect, client
  <2>2. CASE u = t
    <3>1. down'[u] = <<>>
      BY <1>2, <2>1, <2>2
    <3> QED BY <1>1, <2>1, <3>1, ReplaysEmpty
  <2>3. CASE u # t
    BY <1>1, <1>2, <2>1, <2>3
  <2> QED BY <2>2, <2>3
<1>6. ASSUME NEW t \in Tabs, Welcome(t) PROVE Replays(down'[u], nextExpected'[u])
  <2>1. PICK f \in DownFrames : f = Frame("welcome", Len(log))
    BY Numbers, FrameTyped
  <2>2. nextExpected' = nextExpected /\ (down'[u] = down[u] \/ down'[u] = <<f>>)
    BY <1>2, <1>6, <2>1 DEF Welcome, client
  <2>3. f.type # "resync_end"
    BY <2>1, FrameIs
  <2> QED BY <1>1, <2>2, <2>3, ReplaysOne
<1>7. ASSUME NEW t \in Tabs, EgressReject(t) PROVE Replays(down'[u], nextExpected'[u])
  <2>1. Head(erx[t]) \in Replies /\ Head(erx[t]).type = "reject"
    BY <1>7, ReplyTaken DEF EgressReject
  <2>2. PICK f \in DownFrames : f = Head(erx[t]) /\ f.type = "reject"
    BY <2>1 DEF Replies, DownFrames
  <2>3. down' = [down EXCEPT ![t] = Append(down[t], f)] /\ nextExpected' = nextExpected
    BY <1>7, <2>2 DEF EgressReject, client
  <2> QED BY <1>4, <2>2, <2>3
<1>8. ASSUME NEW t \in Tabs, EgressResync(t) PROVE Replays(down'[u], nextExpected'[u])
  <2>1. nextExpected' = nextExpected
    BY <1>8 DEF EgressResync, client
  <2>2. PICK from \in Nat \ {0} : /\ from <= nextExpected[t] /\ nextExpected[t] <= Len(log) + 1
                                 /\ down' = [down EXCEPT ![t] = down[t] \o Replay(from)]
    BY <1>8, ResyncServed
  <2>3. down'[u] = down[u] \/ (u = t /\ down'[u] = down[u] \o Replay(from))
    BY <1>2, <2>2
  <2>4. down[u] \in Seq(DownFrames)
    BY <1>2
  <2> QED BY <1>1, <2>1, <2>2, <2>3, <2>4, ReplaysReplay
<1>9. ASSUME NEW t \in Tabs, EgressEvent(t) PROVE Replays(down'[u], nextExpected'[u])
  <2>1. nextExpected' = nextExpected
    BY <1>9 DEF EgressEvent, client
  <2>2. PICK n \in 1..Len(log) :
          /\ UNCHANGED down \/ down' = [down EXCEPT ![t] = Append(down[t], Frame("event", n))]
          /\ Frame("event", n) \in DownFrames
    BY <1>9, EventSent
  <2>3. PICK f \in DownFrames : f = Frame("event", n) /\ f.type # "resync_end"
    BY <2>2, FrameIs
  <2> QED BY <1>3, <1>4, <2>1, <2>2, <2>3
<1>10. ASSUME NEW t \in Tabs, HandleFrame(t) PROVE Replays(down'[u], nextExpected'[u])
  <2>1. PICK type : Take(t, type)
    BY <1>10 DEF HandleFrame, ClientWelcome, ClientEvent, ClientResyncEnd, ClientReject
  <2>2. nextExpected \in [Tabs -> Nat \ {0}]
    BY DEF TypeOK
  <2>3. CASE u # t
    <3>1. down'[u] = down[u]
      BY <2>1, <2>3, Taken
    <3>2. nextExpected'[u] = nextExpected[u]
      BY <1>10, <2>2, <2>3, Advances
    <3> QED BY <1>1, <3>1, <3>2
  <2>4. CASE u = t
    <3>1. down[u] \in Seq(DownFrames) /\ down[u] # <<>> /\ Head(down[u]) = down[u][1]
      BY <2>1, <2>4, Taken
    <3>2. down'[u] = Tail(down[u])
      BY <1>2, <2>1, <2>4 DEF Take
    <3>3. \/ nextExpected'[u] = nextExpected[u] /\ down[u][1] # Frame("event", nextExpected[u])
          \/ nextExpected'[u] = nextExpected[u] + 1
      BY <1>10, <2>2, <2>4, <3>1, Advances
    <3>4. PICK m \in {nextExpected[u], nextExpected[u] + 1} :
            /\ m = nextExpected'[u]
            /\ down[u][1] = Frame("event", nextExpected[u]) => m = nextExpected[u] + 1
      BY <3>3
    <3> QED BY <1>1, <3>1, <3>2, <3>4, ReplaysTail
  <2> QED BY <2>3, <2>4
<1>11. UNCHANGED <<down, nextExpected>> \/
       \E t \in Tabs : Disconnect(t) \/ Egress(t) \/ HandleFrame(t)
  <2>1. CASE \E a \in Accounts : OtherCommand(a)
    BY <2>1 DEF OtherCommand, wire, client
  <2>2. ASSUME NEW t \in Tabs, Dispatch(t) \/ Connect(t)
        PROVE  UNCHANGED <<down, nextExpected>>
    BY <2>2 DEF Dispatch, Connect, wire, client
  <2>3. ASSUME NEW t \in Tabs, NEW g \in Sockets, FramesLost(t, g) \/ Ingress(t, g)
        PROVE  UNCHANGED <<down, nextExpected>>
    BY <2>3 DEF FramesLost, Ingress, IngressCommits, IngressRejects, IngressResync, client
  <2>4. CASE UNCHANGED vars
    BY <2>4 DEF vars, wire, client
  <2> QED BY <2>1, <2>2, <2>3, <2>4 DEF Next
<1> QED BY <1>3, <1>5, <1>6, <1>7, <1>8, <1>9, <1>10, <1>11 DEF Egress

-----------------------------------------------------------------------------
(* An intent is on its way once.                                           *)

Queued(t, n) == \E i \in DOMAIN offlineQueue[t] : offlineQueue[t][i] = n

InFlight(t, n) ==
  \E g \in Sockets : \E i \in DOMAIN up[t][g] : up[t][g][i] = Frame("intent", n)

LEMMA UnreadIs ==
  ASSUME FramesInv, NEW t \in Tabs, NEW n
  PROVE  n \in Unread(t) <=> Queued(t, n) \/ InFlight(t, n)
<1>1. n \in Range(offlineQueue[t]) <=> Queued(t, n)
  BY DEF Range, Queued
<1>2. InFlight(t, n) => n \in Intents(t)
  BY FrameIs DEF FramesInv, InFlight
<1>3. (\E g \in Sockets : Frame("intent", n) \in Range(up[t][g])) <=> InFlight(t, n)
  BY DEF Range, InFlight
<1> QED BY <1>1, <1>2, <1>3 DEF Unread, Intents

LEMMA UnreadIsNext ==
  ASSUME FramesInv', NEW t \in Tabs, NEW n
  PROVE  n \in Unread(t)' <=> Queued(t, n)' \/ InFlight(t, n)'
<1>1. n \in Range(offlineQueue'[t]) <=> Queued(t, n)'
  BY DEF Range, Queued
<1>2. InFlight(t, n)' => n \in Intents(t)'
  BY FrameIs DEF FramesInv, InFlight
<1>3. (\E g \in Sockets : Frame("intent", n) \in Range(up'[t][g])) <=> InFlight(t, n)'
  BY DEF Range, InFlight
<1> QED BY <1>1, <1>2, <1>3 DEF Unread, Intents

LEMMA SendsToOne ==
  ASSUME TypeOK, NEW t \in Tabs, NEW fs \in Seq(UpFrames), Transmit(t, fs),
         NEW u \in Tabs, NEW g \in Sockets
  PROVE  /\ up[u][g] \in Seq(UpFrames)
         /\ \A i \in DOMAIN up'[u][g] :
              \/ i \in DOMAIN up[u][g] /\ up'[u][g][i] = up[u][g][i]
              \/ /\ u = t /\ g = opens[t] /\ i - Len(up[u][g]) \in DOMAIN fs
                 /\ up'[u][g][i] = fs[i - Len(up[u][g])]
<1>1. up \in Channels
  BY TypesApart DEF WireTyped
<1>2. up[u] \in [Sockets -> Seq(UpFrames)] /\ up[u][g] \in Seq(UpFrames)
  BY <1>1 DEF Channels
<1>3. CASE u # t
  <2>1. up'[u] = up[u]
    BY <1>1, <1>3 DEF Transmit, Channels
  <2> QED BY <1>2, <2>1
<1>4. CASE u = t
  <2>1. up'[u] = [up[u] EXCEPT ![opens[t]] = up[u][opens[t]] \o fs]
    BY <1>1, <1>4 DEF Transmit, Channels
  <2>2. CASE g # opens[t]
    <3>1. up'[u][g] = up[u][g]
      BY <1>2, <2>1, <2>2
    <3> QED BY <1>2, <3>1
  <2>3. CASE g = opens[t]
    <3>1. up'[u][g] = up[u][g] \o fs
      BY <1>2, <2>1, <2>3
    <3> QED BY <1>2, <1>4, <2>3, <3>1, Joined
  <2> QED BY <2>2, <2>3
<1> QED BY <1>3, <1>4

(* Sending what is not on its way already.                                 *)
LEMMA FramesSentUp ==
  ASSUME TypeOK, FramesInv, NEW t \in Tabs, NEW fs \in Seq(UpFrames), Transmit(t, fs),
         \A u \in Tabs : Intents(u) \subseteq Intents(u)',
         \A u \in Tabs : Range(offlineQueue'[u]) \subseteq Range(offlineQueue[u]),
         \A i \in DOMAIN fs : fs[i].type = "intent" =>
           /\ fs[i].arg \in Intents(t)' /\ fs[i].arg \notin Range(offlineQueue'[t])
           /\ ~InFlight(t, fs[i].arg),
         \A i, j \in DOMAIN fs : fs[i].type = "intent" /\ fs[i] = fs[j] => i = j
  PROVE  FramesInv'
<1> SUFFICES ASSUME NEW u \in Tabs, NEW g \in Sockets, NEW i \in DOMAIN up'[u][g],
                    up'[u][g][i].type = "intent"
             PROVE  /\ up'[u][g][i].arg \in Intents(u)'
                    /\ up'[u][g][i].arg \notin Range(offlineQueue'[u])
                    /\ \A h \in Sockets : \A j \in DOMAIN up'[u][h] :
                         up'[u][h][j] = up'[u][g][i] => g = h /\ i = j
  BY DEF FramesInv
<1> DEFINE Old(h, j) == j \in DOMAIN up[u][h] /\ up'[u][h][j] = up[u][h][j]
           New(h, j) == /\ u = t /\ h = opens[t] /\ j - Len(up[u][h]) \in DOMAIN fs
                        /\ up'[u][h][j] = fs[j - Len(up[u][h])]
<1>1. \A h \in Sockets : \A j \in DOMAIN up'[u][h] : Old(h, j) \/ New(h, j)
  BY SendsToOne
<1>2. \A h \in Sockets : \A j \in DOMAIN up[u][h] : up[u][h][j].type = "intent" =>
        /\ up[u][h][j].arg \in Intents(u) /\ up[u][h][j].arg \notin Range(offlineQueue[u])
        /\ up[u][h][j] = Frame("intent", up[u][h][j].arg)
  <2>1. ASSUME NEW h \in Sockets, NEW j \in DOMAIN up[u][h] PROVE up[u][h][j] \in UpFrames
    <3>1. up[u][h] \in Seq(UpFrames)
      BY SendsToOne
    <3> QED BY <3>1, ElementOfSeq, LenProperties
  <2> QED BY <2>1, FrameOf DEF FramesInv
<1>3. up'[u][g][i].arg \in Intents(u)' /\ up'[u][g][i].arg \notin Range(offlineQueue'[u])
  <2>1. CASE Old(g, i)
    BY <1>2, <2>1
  <2>2. CASE New(g, i)
    BY <2>2
  <2> QED BY <1>1, <2>1, <2>2
<1>4. ASSUME NEW h \in Sockets, NEW j \in DOMAIN up'[u][h], up'[u][h][j] = up'[u][g][i]
      PROVE  g = h /\ i = j
  <2>1. CASE Old(g, i) /\ Old(h, j)
    BY <1>4, <2>1 DEF FramesInv
  <2>2. CASE Old(g, i) /\ New(h, j)
    <3>1. InFlight(t, fs[j - Len(up[u][h])].arg)
      BY <1>2, <1>4, <2>2 DEF InFlight
    <3> QED BY <1>4, <2>2, <3>1
  <2>3. CASE New(g, i) /\ Old(h, j)
    <3>1. InFlight(t, fs[i - Len(up[u][g])].arg)
      BY <1>2, <1>4, <2>3 DEF InFlight
    <3> QED BY <1>4, <2>3, <3>1
  <2>4. CASE New(g, i) /\ New(h, j)
    <3>1. g = h /\ i - Len(up[u][g]) = j - Len(up[u][h])
      BY <1>4, <2>4
    <3>2. i \in Int /\ j \in Int /\ Len(up[u][g]) \in Int
      <4>1. up' \in Channels
        BY Sends
      <4>2. up'[u][g] \in Seq(UpFrames) /\ up[u][g] \in Seq(UpFrames)
        BY <4>1, SendsToOne DEF Channels
      <4> QED BY <3>1, <4>2, LenProperties
    <3> QED BY <3>1, <3>2
  <2> QED BY <1>1, <2>1, <2>2, <2>3, <2>4
<1> QED BY <1>3, <1>4

(* Frames read or lost, from the front.                                    *)
LEMMA FramesLeft ==
  ASSUME FramesInv, UNCHANGED <<offlineQueue, dispatched>>,
         NEW t \in Tabs, NEW g \in Sockets,
         \A i \in DOMAIN up'[t][g] :
           i \in Nat /\ i + 1 \in DOMAIN up[t][g] /\ up'[t][g][i] = up[t][g][i + 1],
         \A u \in Tabs : \A h \in Sockets : u # t \/ h # g => up'[u][h] = up[u][h]
  PROVE  FramesInv'
<1> SUFFICES ASSUME NEW u \in Tabs, NEW h \in Sockets, NEW i \in DOMAIN up'[u][h],
                    up'[u][h][i].type = "intent"
             PROVE  /\ up'[u][h][i].arg \in Intents(u)
                    /\ up'[u][h][i].arg \notin Range(offlineQueue[u])
                    /\ \A k \in Sockets : \A j \in DOMAIN up'[u][k] :
                         up'[u][k][j] = up'[u][h][i] => h = k /\ i = j
  BY DEF FramesInv, Intents
<1> DEFINE P(k, j) == IF u = t /\ k = g THEN j + 1 ELSE j
<1>1. \A k \in Sockets : \A j \in DOMAIN up'[u][k] :
        P(k, j) \in DOMAIN up[u][k] /\ up'[u][k][j] = up[u][k][P(k, j)]
  OBVIOUS
<1>2. ASSUME NEW k \in Sockets, NEW j \in DOMAIN up'[u][k], up'[u][k][j] = up'[u][h][i]
      PROVE  h = k /\ i = j
  <2>1. h = k /\ P(h, i) = P(k, j)
    BY <1>1, <1>2 DEF FramesInv
  <2>2. CASE u = t /\ h = g
    BY <2>1, <2>2
  <2>3. CASE ~(u = t /\ h = g)
    BY <2>1, <2>3
  <2> QED BY <2>2, <2>3
<1>3. up'[u][h][i].arg \in Intents(u) /\ up'[u][h][i].arg \notin Range(offlineQueue[u])
  BY <1>1 DEF FramesInv
<1> QED BY <1>2, <1>3

LEMMA InFlightSent ==
  ASSUME TypeOK, NEW t \in Tabs, NEW fs \in Seq(UpFrames), Transmit(t, fs),
         NEW u \in Tabs, NEW n, InFlight(u, n)'
  PROVE  InFlight(u, n) \/ (u = t /\ \E i \in DOMAIN fs : fs[i] = Frame("intent", n))
<1>1. PICK g \in Sockets : \E i \in DOMAIN up'[u][g] : up'[u][g][i] = Frame("intent", n)
  BY DEF InFlight
<1>2. PICK i \in DOMAIN up'[u][g] : up'[u][g][i] = Frame("intent", n)
  BY <1>1
<1>3. \/ i \in DOMAIN up[u][g] /\ up'[u][g][i] = up[u][g][i]
      \/ u = t /\ i - Len(up[u][g]) \in DOMAIN fs /\ up'[u][g][i] = fs[i - Len(up[u][g])]
  BY <1>2, SendsToOne
<1> QED BY <1>2, <1>3 DEF InFlight

LEMMA DispatchFrames ==
  ASSUME TypeOK, QueueInv, FramesInv, NEW t \in Tabs, Dispatch(t)
  PROVE  /\ QueueInv' /\ FramesInv'
         /\ \A u \in Tabs : Unread(u)' \subseteq Unread(u) \cup (IF u = t THEN {NextId(t)} ELSE {})
<1>1. PICK d \in Nat \ {0} : d = NextId(t) /\ d = dispatched[t] + 1
  BY Numbers DEF NextId
<1>2. /\ dispatched \in [Tabs -> Nat] /\ dispatched' = [dispatched EXCEPT ![t] = d]
      /\ offlineQueue \in [Tabs -> Seq(Nat \ {0})]
  BY <1>1 DEF Dispatch, TypeOK
<1>3. \A u \in Tabs : Intents(u)' = IF u = t THEN Intents(t) \cup {d} ELSE Intents(u)
  <2>1. dispatched'[t] = d /\ \A u \in Tabs : u # t => dispatched'[u] = dispatched[u]
    BY <1>2
  <2>2. dispatched[t] \in Nat /\ 1..d = (1..dispatched[t]) \cup {d}
    BY <1>1, <1>2
  <2> QED BY <2>1, <2>2 DEF Intents
<1>4. d \notin Intents(t) /\ \A n \in Intents(t) : n < d
  BY <1>1, <1>2 DEF Intents
<1>5. \A n : Queued(t, n) \/ InFlight(t, n) => n \in Intents(t)
  BY FrameIs DEF FramesInv, QueueInv, Queued, InFlight
<1>6. CASE Connected(t)
  <2>1. offlineQueue' = offlineQueue /\ Transmit(t, <<Frame("intent", d)>>)
    BY <1>1, <1>6 DEF Dispatch
  <2>2. PICK f \in UpFrames : f = Frame("intent", d) /\ f.arg = d
    BY FrameTyped, FrameIs
  <2>3. PICK fs \in Seq(UpFrames) : fs = <<f>> /\ DOMAIN fs = 1..1 /\ fs[1] = f
    BY OneFrame
  <2>4. Transmit(t, fs) /\ \A i \in DOMAIN fs : i = 1 /\ fs[i] = f
    BY <2>1, <2>2, <2>3
  <2>5. \A u \in Tabs : Range(offlineQueue[u]) \subseteq Intents(u)
    BY DEF QueueInv, Range
  <2>6. FramesInv'
    <3>1. \A i \in DOMAIN fs : fs[i].type = "intent" =>
            /\ fs[i].arg \in Intents(t)' /\ fs[i].arg \notin Range(offlineQueue'[t])
            /\ ~InFlight(t, fs[i].arg)
      BY <1>3, <1>4, <1>5, <2>1, <2>2, <2>4, <2>5
    <3>2. \A i, j \in DOMAIN fs : fs[i].type = "intent" /\ fs[i] = fs[j] => i = j
      BY <2>4
    <3>3. \A u \in Tabs : Intents(u) \subseteq Intents(u)'
      BY <1>3
    <3>4. \A u \in Tabs : Range(offlineQueue'[u]) \subseteq Range(offlineQueue[u])
      BY <2>1
    <3> QED BY <2>4, <3>1, <3>2, <3>3, <3>4, FramesSentUp
  <2>7. QueueInv'
    BY <1>3, <2>1 DEF QueueInv
  <2>8. ASSUME NEW u \in Tabs, NEW n \in Unread(u)' PROVE n \in Unread(u) \/ (u = t /\ n = d)
    <3>1. Queued(u, n)' \/ InFlight(u, n)'
      BY <2>6, <2>8, UnreadIsNext
    <3>2. CASE Queued(u, n)'
      <4>1. Queued(u, n)
        BY <2>1, <3>2 DEF Queued
      <4> QED BY <4>1, UnreadIs
    <3>3. CASE InFlight(u, n)'
      <4>1. InFlight(u, n) \/ (u = t /\ \E i \in DOMAIN fs : fs[i] = Frame("intent", n))
        BY <2>4, <3>3, InFlightSent
      <4> QED BY <2>2, <2>4, <4>1, FrameIs, UnreadIs
    <3> QED BY <3>1, <3>2, <3>3
  <2> QED BY <1>1, <2>6, <2>7, <2>8
<1>7. CASE ~Connected(t)
  <2>1. up' = up /\ offlineQueue' = [offlineQueue EXCEPT ![t] = Append(offlineQueue[t], d)]
    BY <1>1, <1>7 DEF Dispatch
  <2>2. offlineQueue[t] \in Seq(Nat \ {0}) /\ offlineQueue'[t] = Append(offlineQueue[t], d)
    BY <1>2, <2>1
  <2>3. /\ Len(offlineQueue[t]) \in Nat
        /\ DOMAIN offlineQueue[t] = 1..Len(offlineQueue[t])
        /\ \A i \in DOMAIN offlineQueue'[t] :
             \/ i \in DOMAIN offlineQueue[t] /\ offlineQueue'[t][i] = offlineQueue[t][i]
             \/ i = Len(offlineQueue[t]) + 1 /\ offlineQueue'[t][i] = d
    BY <2>2, Appended
  <2>4. \A u \in Tabs : u # t => offlineQueue'[u] = offlineQueue[u]
    BY <1>2, <2>1
  <2>5. \A u \in Tabs : \A n : Queued(u, n)' => Queued(u, n) \/ (u = t /\ n = d)
    BY <2>3, <2>4 DEF Queued
  <2>6. FramesInv'
    <3> SUFFICES ASSUME NEW u \in Tabs, NEW g \in Sockets, NEW i \in DOMAIN up[u][g],
                        up[u][g][i].type = "intent"
                 PROVE  /\ up[u][g][i].arg \in Intents(u)'
                        /\ up[u][g][i].arg \notin Range(offlineQueue'[u])
                        /\ \A h \in Sockets : \A j \in DOMAIN up[u][h] :
                             up[u][h][j] = up[u][g][i] => g = h /\ i = j
      BY <2>1 DEF FramesInv
    <3>1. PICK n : n = up[u][g][i].arg
      OBVIOUS
    <3>2. /\ n \in Intents(u) /\ ~Queued(u, n)
          /\ \A h \in Sockets : \A j \in DOMAIN up[u][h] :
               up[u][h][j] = up[u][g][i] => g = h /\ i = j
      BY <3>1 DEF FramesInv, Queued, Range
    <3>3. ~Queued(u, n)'
      BY <1>4, <2>5, <3>2
    <3> QED BY <1>3, <3>1, <3>2, <3>3 DEF Range, Queued
  <2>7. QueueInv'
    <3> SUFFICES ASSUME NEW u \in Tabs
                 PROVE  /\ \A i \in DOMAIN offlineQueue'[u] : offlineQueue'[u][i] \in Intents(u)'
                        /\ \A i, j \in DOMAIN offlineQueue'[u] :
                             i < j => offlineQueue'[u][i] < offlineQueue'[u][j]
      BY DEF QueueInv
    <3>1. CASE u # t
      BY <1>3, <2>4, <3>1 DEF QueueInv
    <3>2. CASE u = t
      <4>1. \A i \in DOMAIN offlineQueue'[u] : offlineQueue'[u][i] \in Intents(u)'
        BY <1>3, <2>3, <3>2 DEF QueueInv
      <4>2. ASSUME NEW i \in DOMAIN offlineQueue'[u], NEW j \in DOMAIN offlineQueue'[u], i < j
            PROVE  offlineQueue'[u][i] < offlineQueue'[u][j]
        <5>1. i \in DOMAIN offlineQueue[t] /\ offlineQueue'[t][i] = offlineQueue[t][i]
          BY <2>3, <3>2, <4>2
        <5>2. CASE j \in DOMAIN offlineQueue[t] /\ offlineQueue'[t][j] = offlineQueue[t][j]
          BY <3>2, <4>2, <5>1, <5>2 DEF QueueInv
        <5>3. CASE offlineQueue'[t][j] = d
          BY <1>4, <3>2, <5>1, <5>3 DEF QueueInv
        <5> QED BY <2>3, <3>2, <5>2, <5>3
      <4> QED BY <4>1, <4>2
    <3> QED BY <3>1, <3>2
  <2>8. \A u \in Tabs : \A n : InFlight(u, n)' => InFlight(u, n)
    BY <2>1 DEF InFlight
  <2>9. ASSUME NEW u \in Tabs, NEW n \in Unread(u)' PROVE n \in Unread(u) \/ (u = t /\ n = d)
    <3>1. Queued(u, n)' \/ InFlight(u, n)'
      BY <2>6, <2>9, UnreadIsNext
    <3> QED BY <2>5, <2>8, <3>1, UnreadIs
  <2> QED BY <1>1, <2>6, <2>7, <2>9
<1> QED BY <1>6, <1>7

LEMMA FlushFrames ==
  ASSUME TypeOK, QueueInv, FramesInv, NEW t \in Tabs, FlushOfflineQueue(t), dispatched' = dispatched
  PROVE  /\ QueueInv' /\ FramesInv'
         /\ \A u \in Tabs : Unread(u)' \subseteq Unread(u)
<1>1. PICK fs \in Seq(UpFrames) : fs = Intended(offlineQueue[t]) /\ Transmit(t, fs)
  BY Flushed DEF Intended, FlushOfflineQueue
<1>2. DOMAIN fs = DOMAIN offlineQueue[t] /\ \A i \in DOMAIN fs : fs[i] = Frame("intent", offlineQueue[t][i])
  BY <1>1 DEF Intended
<1>3. DOMAIN offlineQueue'[t] = {} /\ \A u \in Tabs : u # t => offlineQueue'[u] = offlineQueue[u]
  BY Handed
<1>4. FramesInv'
  <2>1. \A i \in DOMAIN fs : /\ fs[i].arg \in Intents(t)'
                            /\ fs[i].arg \notin Range(offlineQueue'[t])
                            /\ ~InFlight(t, fs[i].arg)
    <3> SUFFICES ASSUME NEW i \in DOMAIN fs
                 PROVE  /\ fs[i].arg \in Intents(t)' /\ fs[i].arg \notin Range(offlineQueue'[t])
                        /\ ~InFlight(t, fs[i].arg)
      OBVIOUS
    <3>1. fs[i].arg = offlineQueue[t][i] /\ i \in DOMAIN offlineQueue[t]
      BY <1>2, FrameIs
    <3>2. fs[i].arg \in Intents(t)'
      BY <3>1 DEF QueueInv, Intents
    <3>3. fs[i].arg \notin Range(offlineQueue'[t])
      BY <1>3 DEF Range
    <3>4. ~InFlight(t, fs[i].arg)
      BY <3>1, FrameIs DEF FramesInv, InFlight, Range
    <3> QED BY <3>2, <3>3, <3>4
  <2>2. ASSUME NEW i \in DOMAIN fs, NEW j \in DOMAIN fs, fs[i] = fs[j] PROVE i = j
    <3>1. offlineQueue[t][i] = offlineQueue[t][j] /\ i \in DOMAIN offlineQueue[t] /\ j \in DOMAIN offlineQueue[t]
      BY <1>2, <2>2, FrameIs
    <3>2. /\ offlineQueue[t] \in Seq(Nat \ {0})
          /\ i < j => offlineQueue[t][i] < offlineQueue[t][j]
          /\ j < i => offlineQueue[t][j] < offlineQueue[t][i]
      BY <3>1, Flushed DEF QueueInv
    <3>3. i \in Int /\ j \in Int /\ offlineQueue[t][i] \in Int
      BY <3>1, <3>2, LenProperties, ElementOfSeq
    <3> QED BY <3>1, <3>2, <3>3
  <2>3. \A u \in Tabs : /\ Intents(u) \subseteq Intents(u)'
                       /\ Range(offlineQueue'[u]) \subseteq Range(offlineQueue[u])
    BY <1>3 DEF Intents, Range
  <2> QED BY <1>1, <2>1, <2>2, <2>3, FramesSentUp
<1>5. QueueInv'
  BY <1>3 DEF QueueInv, Intents
<1>6. ASSUME NEW u \in Tabs, NEW n \in Unread(u)' PROVE n \in Unread(u)
  <2>1. Queued(u, n)' \/ InFlight(u, n)'
    BY <1>4, <1>6, UnreadIsNext
  <2>2. CASE Queued(u, n)'
    <3>1. Queued(u, n)
      BY <1>3, <2>2 DEF Queued
    <3> QED BY <3>1, UnreadIs
  <2>3. CASE InFlight(u, n)'
    <3>1. InFlight(u, n) \/ (u = t /\ \E i \in DOMAIN fs : fs[i] = Frame("intent", n))
      BY <1>1, <2>3, InFlightSent
    <3>2. InFlight(u, n) \/ Queued(u, n)
      BY <1>2, <3>1, FrameIs DEF Queued
    <3> QED BY <3>2, UnreadIs
  <2> QED BY <2>1, <2>2, <2>3
<1> QED BY <1>4, <1>5, <1>6

LEMMA AskFrames ==
  ASSUME TypeOK, QueueInv, FramesInv, NEW t \in Tabs, RequestResync(t), dispatched' = dispatched
  PROVE  /\ QueueInv' /\ FramesInv'
         /\ \A u \in Tabs : Unread(u)' \subseteq Unread(u)
<1>1. PICK f \in UpFrames : f = Frame("resync_request", nextExpected[t])
  BY Numbers, FrameTyped
<1>2. PICK fs \in Seq(UpFrames) : fs = <<f>> /\ DOMAIN fs = 1..1 /\ fs[1] = f
  BY OneFrame
<1>3. /\ Transmit(t, fs) /\ offlineQueue' = offlineQueue
      /\ \A i \in DOMAIN fs : fs[i].type # "intent" /\ fs[i] = f
  BY <1>1, <1>2, FrameIs DEF RequestResync
<1>4. \A u \in Tabs : /\ Intents(u) \subseteq Intents(u)'
                     /\ Range(offlineQueue'[u]) \subseteq Range(offlineQueue[u])
  BY <1>3 DEF Intents
<1>5. FramesInv'
  BY <1>3, <1>4, FramesSentUp
<1>6. QueueInv'
  BY <1>3 DEF QueueInv, Intents
<1>7. ASSUME NEW u \in Tabs, NEW n \in Unread(u)' PROVE n \in Unread(u)
  <2>1. Queued(u, n)' \/ InFlight(u, n)'
    BY <1>5, <1>7, UnreadIsNext
  <2>2. Queued(u, n)' => Queued(u, n)
    BY <1>3 DEF Queued
  <2>3. InFlight(u, n)' => InFlight(u, n)
    BY <1>1, <1>3, InFlightSent, FrameIs
  <2> QED BY <2>1, <2>2, <2>3, UnreadIs
<1> QED BY <1>5, <1>6, <1>7

LEMMA LeftFrames ==
  ASSUME QueueInv, FramesInv, UNCHANGED <<offlineQueue, dispatched>>,
         NEW t \in Tabs, NEW g \in Sockets,
         \A i \in DOMAIN up'[t][g] :
           i \in Nat /\ i + 1 \in DOMAIN up[t][g] /\ up'[t][g][i] = up[t][g][i + 1],
         \A u \in Tabs : \A h \in Sockets : u # t \/ h # g => up'[u][h] = up[u][h]
  PROVE  /\ QueueInv' /\ FramesInv'
         /\ \A u \in Tabs : Unread(u)' \subseteq Unread(u)
<1>1. QueueInv' /\ FramesInv'
  BY FramesLeft DEF QueueInv, Intents
<1>2. ASSUME NEW u \in Tabs, NEW n, InFlight(u, n)' PROVE InFlight(u, n)
  <2>1. PICK h \in Sockets : \E i \in DOMAIN up'[u][h] : up'[u][h][i] = Frame("intent", n)
    BY <1>2 DEF InFlight
  <2>2. PICK i \in DOMAIN up'[u][h] : up'[u][h][i] = Frame("intent", n)
    BY <2>1
  <2>3. CASE u = t /\ h = g
    BY <2>2, <2>3 DEF InFlight
  <2>4. CASE ~(u = t /\ h = g)
    BY <2>2, <2>4 DEF InFlight
  <2> QED BY <2>3, <2>4
<1>3. ASSUME NEW u \in Tabs, NEW n \in Unread(u)' PROVE n \in Unread(u)
  <2>1. Queued(u, n)' \/ InFlight(u, n)'
    BY <1>1, <1>3, UnreadIsNext
  <2>2. Queued(u, n)' => Queued(u, n)
    BY DEF Queued
  <2> QED BY <1>2, <2>1, <2>2, UnreadIs
<1> QED BY <1>1, <1>3

(* An ingress task takes an intent up: it was on its way, and is no more.  *)
LEMMA IntentRead ==
  ASSUME TypeOK, QueueInv, FramesInv, UNCHANGED <<offlineQueue, dispatched>>,
         NEW t \in Tabs, NEW g \in Sockets, Receives(t, g, "intent")
  PROVE  \E n \in Intents(t) : /\ n = Head(up[t][g]).arg /\ n \in Nat \ {0}
                               /\ n \in Unread(t) /\ n \notin Unread(t)'
<1>1. /\ 1 \in DOMAIN up[t][g] /\ Head(up[t][g]) = up[t][g][1] /\ Head(up[t][g]) \in UpFrames
      /\ Head(up[t][g]).type = "intent"
      /\ \A i \in DOMAIN up'[t][g] :
           i \in Nat /\ i + 1 \in DOMAIN up[t][g] /\ up'[t][g][i] = up[t][g][i + 1]
      /\ \A u \in Tabs : \A h \in Sockets : u # t \/ h # g => up'[u][h] = up[u][h]
  BY FrameRead
<1>2. PICK n : n = Head(up[t][g]).arg
  OBVIOUS
<1>3. up[t][g][1] = Frame("intent", n) /\ n \in Nat \ {0}
  <2>1. n \in Nat \ {0}
    BY <1>1, <1>2 DEF UpFrames
  <2> QED BY <1>1, <1>2, <2>1, FrameOf
<1>4. /\ n \in Intents(t) /\ n \notin Range(offlineQueue[t])
      /\ \A h \in Sockets : \A j \in DOMAIN up[t][h] : up[t][h][j] = Frame("intent", n) => g = h /\ 1 = j
  BY <1>1, <1>2, <1>3 DEF FramesInv
<1>5. n \in Unread(t)
  BY <1>1, <1>3, UnreadIs DEF InFlight
<1>6. FramesInv'
  BY <1>1, FramesLeft
<1>7. ~Queued(t, n)'
  BY <1>4 DEF Queued, Range
<1>8. ~InFlight(t, n)'
  <2> SUFFICES ASSUME NEW h \in Sockets, NEW i \in DOMAIN up'[t][h], up'[t][h][i] = Frame("intent", n)
               PROVE  FALSE
    BY DEF InFlight
  <2>1. CASE h = g
    <3>1. i \in Nat /\ i + 1 = 1
      BY <1>1, <1>4, <2>1
    <3>2. up[t][g][i + 1] = Frame("intent", n) /\ i + 1 \in DOMAIN up[t][g] /\ i = 0
      BY <1>1, <2>1, <3>1
    <3>3. up' \in Channels
      BY FrameRead
    <3>4. up'[t][h] \in Seq(UpFrames)
      BY <3>3 DEF Channels
    <3> QED BY <3>2, <3>4, LenProperties
  <2>2. CASE h # g
    BY <1>1, <1>4, <2>2
  <2> QED BY <2>1, <2>2
<1> QED BY <1>2, <1>3, <1>4, <1>5, <1>6, <1>7, <1>8, UnreadIsNext

(* No step puts an intent back on its way.                                 *)
LEMMA FramesStep ==
  ASSUME TypeOK, QueueInv, FramesInv, [Next]_vars
  PROVE  /\ QueueInv' /\ FramesInv'
         /\ \A u \in Tabs : Unread(u)' \subseteq Unread(u) \cup (Intents(u)' \ Intents(u))
<1>1. ASSUME NEW t \in Tabs, Dispatch(t)
      PROVE  /\ QueueInv' /\ FramesInv'
             /\ \A u \in Tabs : Unread(u)' \subseteq Unread(u) \cup (Intents(u)' \ Intents(u))
  <2>1. dispatched[t] \in Nat /\ dispatched'[t] = NextId(t) /\ NextId(t) = dispatched[t] + 1
    BY <1>1 DEF Dispatch, TypeOK, NextId
  <2>2. NextId(t) \in Intents(t)' \ Intents(t)
    BY <2>1 DEF Intents
  <2> QED BY <1>1, <2>2, DispatchFrames
<1>2. ASSUME NEW t \in Tabs, NEW g \in Sockets, FramesLost(t, g)
      PROVE  QueueInv' /\ FramesInv' /\ \A u \in Tabs : Unread(u)' \subseteq Unread(u)
  <2>1. UNCHANGED <<offlineQueue, dispatched>>
    BY <1>2 DEF FramesLost, client
  <2>2. /\ \A i \in DOMAIN up'[t][g] :
             i \in Nat /\ i + 1 \in DOMAIN up[t][g] /\ up'[t][g][i] = up[t][g][i + 1]
        /\ \A u \in Tabs : \A h \in Sockets : u # t \/ h # g => up'[u][h] = up[u][h]
    BY <1>2, FramesGone
  <2> QED BY <2>1, <2>2, LeftFrames
<1>3. ASSUME NEW t \in Tabs, NEW g \in Sockets, Ingress(t, g)
      PROVE  QueueInv' /\ FramesInv' /\ \A u \in Tabs : Unread(u)' \subseteq Unread(u)
  <2>1. UNCHANGED <<offlineQueue, dispatched>> /\ \E type : Receives(t, g, type)
    BY <1>3 DEF Ingress, IngressCommits, IngressRejects, IngressResync, client
  <2>2. /\ \A i \in DOMAIN up'[t][g] :
             i \in Nat /\ i + 1 \in DOMAIN up[t][g] /\ up'[t][g][i] = up[t][g][i + 1]
        /\ \A u \in Tabs : \A h \in Sockets : u # t \/ h # g => up'[u][h] = up[u][h]
    BY <2>1, FrameRead
  <2> QED BY <2>1, <2>2, LeftFrames
<1>4. CASE UNCHANGED <<up, offlineQueue, dispatched>>
  <2>1. QueueInv' /\ FramesInv' /\ \A u \in Tabs : Unread(u)' = Unread(u)
    BY <1>4 DEF QueueInv, FramesInv, Unread, Intents
  <2> QED BY <2>1
<1>5. ASSUME NEW t \in Tabs, HandleFrame(t)
      PROVE  QueueInv' /\ FramesInv' /\ \A u \in Tabs : Unread(u)' \subseteq Unread(u)
  <2>1. dispatched' = dispatched
    BY <1>5 DEF HandleFrame, ClientWelcome, ClientEvent, ClientResyncEnd, ClientReject, Take
  <2>2. UNCHANGED <<up, offlineQueue>> \/ RequestResync(t) \/ FlushOfflineQueue(t)
    BY <1>5 DEF HandleFrame, ClientWelcome, ClientEvent, ClientResyncEnd, ClientReject
  <2>3. CASE UNCHANGED <<up, offlineQueue>>
    <3>1. QueueInv' /\ FramesInv' /\ \A u \in Tabs : Unread(u)' = Unread(u)
      BY <2>1, <2>3 DEF QueueInv, FramesInv, Unread, Intents
    <3> QED BY <3>1
  <2> QED BY <2>1, <2>2, <2>3, AskFrames, FlushFrames
<1>6. \/ UNCHANGED <<up, offlineQueue, dispatched>>
      \/ \E t \in Tabs : \/ Dispatch(t) \/ HandleFrame(t)
                         \/ \E g \in Sockets : FramesLost(t, g) \/ Ingress(t, g)
  <2>1. CASE \E a \in Accounts : OtherCommand(a)
    BY <2>1 DEF OtherCommand, wire, client
  <2>2. ASSUME NEW t \in Tabs, Connect(t) \/ Disconnect(t) \/ Egress(t)
        PROVE  UNCHANGED <<up, offlineQueue, dispatched>>
    BY <2>2 DEF Connect, Disconnect, Egress, Welcome, EgressReject, EgressResync, EgressEvent,
                wire, client
  <2>3. CASE UNCHANGED vars
    BY <2>3 DEF vars, wire, client
  <2> QED BY <2>1, <2>2, <2>3 DEF Next
<1> QED BY <1>1, <1>2, <1>3, <1>4, <1>5, <1>6

-----------------------------------------------------------------------------
(* An intent is refused once, and its refusal travels from the ingress     *)
(* task to the client.                                                     *)

Refusing(t, n) == \E i \in DOMAIN erx[t] : erx[t][i] = Frame("reject", n)
Returning(t, n) == \E i \in DOMAIN down[t] : down[t][i] = Frame("reject", n)
Denied(t, n) == Refusing(t, n) \/ Returning(t, n) \/ n \in rejected[t]
Refusals(t) == Rejecting(t) \cup rejected[t]

LEMMA RepliesIs ==
  ASSUME TypeOK
  PROVE  RepliesInv <=> \A t \in Tabs : \A n : Denied(t, n) => n \in Intents(t)
<1>1. ASSUME NEW t \in Tabs
      PROVE  /\ \A i \in DOMAIN erx[t] : erx[t][i] \in Replies
             /\ \A i \in DOMAIN down[t] : down[t][i] \in DownFrames
  <2>1. erx[t] \in Seq(Replies) /\ down[t] \in Seq(DownFrames)
    BY DEF TypeOK, Replies, DownFrames
  <2> QED BY <2>1, ElementOfSeq, LenProperties
<1>2. ASSUME RepliesInv, NEW t \in Tabs, NEW n, Denied(t, n) PROVE n \in Intents(t)
  BY <1>2, FrameIs DEF RepliesInv, Denied, Refusing, Returning
<1>3. ASSUME \A t \in Tabs : \A n : Denied(t, n) => n \in Intents(t) PROVE RepliesInv
  <2> SUFFICES ASSUME NEW t \in Tabs
               PROVE  /\ rejected[t] \subseteq Intents(t)
                      /\ \A i \in DOMAIN erx[t] :
                           erx[t][i].type = "reject" => erx[t][i].arg \in Intents(t)
                      /\ \A i \in DOMAIN down[t] :
                           down[t][i].type = "reject" => down[t][i].arg \in Intents(t)
    BY DEF RepliesInv
  <2>1. rejected[t] \subseteq Intents(t)
    BY <1>3 DEF Denied
  <2>2. ASSUME NEW i \in DOMAIN erx[t], erx[t][i].type = "reject" PROVE erx[t][i].arg \in Intents(t)
    <3>1. erx[t][i] = Frame("reject", erx[t][i].arg)
      BY <1>1, <2>2, FrameOf
    <3> QED BY <1>3, <3>1 DEF Denied, Refusing
  <2>3. ASSUME NEW i \in DOMAIN down[t], down[t][i].type = "reject" PROVE down[t][i].arg \in Intents(t)
    <3>1. down[t][i] = Frame("reject", down[t][i].arg)
      BY <1>1, <2>3, FrameOf
    <3> QED BY <1>3, <3>1 DEF Denied, Returning
  <2> QED BY <2>1, <2>2, <2>3
<1> QED BY <1>2, <1>3

LEMMA RepliesIsNext ==
  ASSUME TypeOK', \A t \in Tabs : \A n : Denied(t, n)' => n \in Intents(t)'
  PROVE  RepliesInv'
<1>1. ASSUME NEW t \in Tabs
      PROVE  /\ \A i \in DOMAIN erx'[t] : erx'[t][i] \in Replies
             /\ \A i \in DOMAIN down'[t] : down'[t][i] \in DownFrames
  <2>1. erx'[t] \in Seq(Replies) /\ down'[t] \in Seq(DownFrames)
    BY DEF TypeOK, Replies, DownFrames
  <2> QED BY <2>1, ElementOfSeq, LenProperties
<1> SUFFICES ASSUME NEW t \in Tabs
             PROVE  /\ rejected'[t] \subseteq Intents(t)'
                    /\ \A i \in DOMAIN erx'[t] :
                         erx'[t][i].type = "reject" => erx'[t][i].arg \in Intents(t)'
                    /\ \A i \in DOMAIN down'[t] :
                         down'[t][i].type = "reject" => down'[t][i].arg \in Intents(t)'
  BY DEF RepliesInv
<1>2. rejected'[t] \subseteq Intents(t)'
  BY DEF Denied
<1>3. ASSUME NEW i \in DOMAIN erx'[t], erx'[t][i].type = "reject" PROVE erx'[t][i].arg \in Intents(t)'
  <2>1. erx'[t][i] = Frame("reject", erx'[t][i].arg)
    BY <1>1, <1>3, FrameOf
  <2> QED BY <2>1 DEF Denied, Refusing
<1>4. ASSUME NEW i \in DOMAIN down'[t], down'[t][i].type = "reject" PROVE down'[t][i].arg \in Intents(t)'
  <2>1. down'[t][i] = Frame("reject", down'[t][i].arg)
    BY <1>1, <1>4, FrameOf
  <2> QED BY <2>1 DEF Denied, Returning
<1> QED BY <1>2, <1>3, <1>4

LEMMA RefusalsIs ==
  ASSUME TypeOK, RepliesInv, NEW t \in Tabs, NEW n
  PROVE  n \in Refusals(t) <=> Denied(t, n)
<1>1. Denied(t, n) => n \in Intents(t)
  BY RepliesIs
<1> QED BY <1>1 DEF Refusals, Rejecting, Refused, Denied, Refusing, Returning, Range, Intents

(* A refusal moves on, or begins with an intent just taken up.             *)
LEMMA RefusedStep ==
  ASSUME TypeOK, WireInv, QueueInv, FramesInv, [Next]_vars, NEW u \in Tabs, NEW n
  PROVE  /\ Refusing(u, n)' =>
              \/ Refusing(u, n)
              \/ n \in Unread(u) /\ n \notin Unread(u)' /\ UNCHANGED <<log, dispatched>>
         /\ Returning(u, n)' => Returning(u, n) \/ Refusing(u, n)
         /\ n \in rejected'[u] => n \in rejected[u] \/ Returning(u, n)
<1>1. CASE UNCHANGED <<erx, down, rejected>>
  BY <1>1 DEF Refusing, Returning
<1>2. ASSUME NEW t \in Tabs, Disconnect(t)
      PROVE  /\ Refusing(u, n)' => Refusing(u, n)
             /\ Returning(u, n)' => Returning(u, n)
             /\ rejected' = rejected
  <2>1. /\ erx' = [erx EXCEPT ![t] = <<>>] /\ down' = [down EXCEPT ![t] = <<>>]
        /\ rejected' = rejected
    BY <1>2 DEF Disconnect, client
  <2>2. erx \in [Tabs -> Seq(Replies)] /\ down \in [Tabs -> Seq(DownFrames)]
    BY TypesApart DEF ServerTyped, WireTyped
  <2>3. (erx'[u] = erx[u] /\ down'[u] = down[u]) \/ (erx'[u] = <<>> /\ down'[u] = <<>>)
    BY <2>1, <2>2
  <2> QED BY <2>1, <2>3 DEF Refusing, Returning
<1>3. ASSUME NEW t \in Tabs, Welcome(t)
      PROVE  Returning(u, n)' => Returning(u, n)
  <2>1. down' = [down EXCEPT ![t] = <<Frame("welcome", Len(log))>>]
    BY <1>3 DEF Welcome
  <2>2. down \in [Tabs -> Seq(DownFrames)]
    BY TypesApart DEF WireTyped
  <2>3. PICK f : f = Frame("welcome", Len(log)) /\ f # Frame("reject", n)
    BY FrameIs
  <2>4. down'[u] = down[u] \/ down'[u] = <<f>>
    BY <2>1, <2>2, <2>3
  <2> QED BY <2>3, <2>4 DEF Returning
<1>4. ASSUME NEW t \in Tabs, NEW g \in Sockets, IngressRejects(t, g) \/ IngressResync(t, g)
      PROVE  /\ Refusing(u, n)' =>
                  \/ Refusing(u, n)
                  \/ n \in Unread(u) /\ n \notin Unread(u)' /\ UNCHANGED <<log, dispatched>>
             /\ UNCHANGED <<down, rejected>>
  <2>1. UNCHANGED <<log, down, rejected, offlineQueue, dispatched>>
    BY <1>4 DEF IngressRejects, IngressResync, client
  <2>2. CASE IngressRejects(t, g)
    <3>1. Receives(t, g, "intent") /\ Reply(t, g, Frame("reject", Head(up[t][g]).arg))
      BY <2>2 DEF IngressRejects
    <3>2. PICK m \in Intents(t) : /\ m = Head(up[t][g]).arg /\ m \in Nat \ {0}
                                 /\ m \in Unread(t) /\ m \notin Unread(t)'
      BY <2>1, <3>1, IntentRead
    <3>3. PICK f \in Replies : f = Frame("reject", m) /\ Reply(t, g, f)
      BY <3>1, <3>2, FrameTyped
    <3>4. erx'[u] = erx[u] \/ (u = t /\ erx'[u] = Append(erx[u], f))
      BY <3>3, Replied
    <3>5. CASE erx'[u] = erx[u]
      BY <2>1, <3>5 DEF Refusing
    <3>6. CASE u = t /\ erx'[u] = Append(erx[u], f)
      <4>1. erx[u] \in Seq(Replies)
        BY DEF TypeOK, Replies
      <4>2. \A i \in DOMAIN erx'[u] : \/ i \in DOMAIN erx[u] /\ erx'[u][i] = erx[u][i]
                                      \/ erx'[u][i] = f
        BY <3>6, <4>1, Appended
      <4>3. Refusing(u, n)' => Refusing(u, n) \/ n = m
        BY <3>3, <4>2, FrameIs DEF Refusing
      <4> QED BY <2>1, <3>2, <3>6, <4>3
    <3> QED BY <3>4, <3>5, <3>6
  <2>3. CASE IngressResync(t, g)
    <3>1. Receives(t, g, "resync_request") /\ Reply(t, g, Frame("resync", Head(up[t][g]).arg))
      BY <2>3 DEF IngressResync
    <3>2. Head(up[t][g]).arg \in Nat \ {0}
      BY <3>1, FrameRead DEF UpFrames
    <3>3. PICK f \in Replies : f = Frame("resync", Head(up[t][g]).arg) /\ Reply(t, g, f)
      BY <3>1, <3>2, FrameTyped
    <3>4. erx'[u] = erx[u] \/ (u = t /\ erx'[u] = Append(erx[u], f))
      BY <3>3, Replied
    <3>5. erx[u] \in Seq(Replies)
      BY DEF TypeOK, Replies
    <3>6. f # Frame("reject", n)
      BY <3>3, FrameIs
    <3>7. \A i \in DOMAIN erx'[u] : \/ i \in DOMAIN erx[u] /\ erx'[u][i] = erx[u][i]
                                    \/ erx'[u][i] = f
      <4>1. CASE erx'[u] = erx[u]
        BY <4>1
      <4>2. CASE erx'[u] = Append(erx[u], f)
        BY <3>5, <4>2, Appended
      <4> QED BY <3>4, <4>1, <4>2
    <3> QED BY <2>1, <3>6, <3>7 DEF Refusing
  <2> QED BY <1>4, <2>1, <2>2, <2>3
<1>5. ASSUME NEW t \in Tabs, EgressReject(t) \/ EgressResync(t)
      PROVE  /\ Refusing(u, n)' => Refusing(u, n)
             /\ Returning(u, n)' => Returning(u, n) \/ Refusing(u, n)
             /\ rejected' = rejected
  <2>1. erx[t] # <<>> /\ erx' = [erx EXCEPT ![t] = Tail(@)] /\ rejected' = rejected
    BY <1>5 DEF EgressReject, EgressResync, client
  <2>2. /\ 1 \in DOMAIN erx[t] /\ Head(erx[t]) = erx[t][1] /\ Head(erx[t]) \in Replies
        /\ \A i \in DOMAIN erx'[t] : i + 1 \in DOMAIN erx[t] /\ erx'[t][i] = erx[t][i + 1]
        /\ \A v \in Tabs : v # t => erx'[v] = erx[v]
    BY <2>1, ReplyTaken
  <2>3. Refusing(u, n)' => Refusing(u, n)
    <3>1. CASE u = t
      BY <2>2, <3>1 DEF Refusing
    <3>2. CASE u # t
      BY <2>2, <3>2 DEF Refusing
    <3> QED BY <3>1, <3>2
  <2>4. CASE EgressReject(t)
    <3>1. PICK f \in DownFrames : f = Head(erx[t])
      BY <2>2, <2>4 DEF EgressReject, Replies, DownFrames
    <3>2. down' = [down EXCEPT ![t] = Append(down[t], f)]
      BY <2>4, <3>1 DEF EgressReject
    <3>3. \A i \in DOMAIN down'[u] : \/ i \in DOMAIN down[u] /\ down'[u][i] = down[u][i]
                                     \/ u = t /\ down'[u][i] = f
      BY <3>2, FrameSent
    <3> QED BY <2>1, <2>2, <2>3, <3>1, <3>3 DEF Refusing, Returning
  <2>5. CASE EgressResync(t)
    <3>1. PICK from \in Nat \ {0} :
            /\ from <= Len(log) + 1 /\ Replay(from) \in Seq(DownFrames)
            /\ down' = [down EXCEPT ![t] = down[t] \o Replay(from)]
      BY <2>5, ResyncServed
    <3>2. /\ Len(log) \in Nat /\ Len(Replay(from)) = Len(log) + 2 - from
          /\ \A i \in 1..(Len(log) + 1 - from) : Replay(from)[i] = Frame("event", from + i - 1)
          /\ Replay(from)[Len(log) + 2 - from] = Frame("resync_end", Len(log))
      BY <3>1, Replayed
    <3>3. \A i \in DOMAIN Replay(from) : Replay(from)[i] # Frame("reject", n)
      <4> SUFFICES ASSUME NEW i \in DOMAIN Replay(from) PROVE Replay(from)[i] # Frame("reject", n)
        OBVIOUS
      <4>1. i \in 1..(Len(log) + 2 - from)
        BY <3>1, <3>2, LenProperties
      <4>2. i \in 1..(Len(log) + 1 - from) \/ i = Len(log) + 2 - from
        BY <3>1, <3>2, <4>1
      <4> QED BY <3>2, <4>2, FrameIs
    <3>4. down \in [Tabs -> Seq(DownFrames)]
      BY TypesApart DEF WireTyped
    <3>5. down'[u] = down[u] \/ down'[u] = down[u] \o Replay(from)
      BY <3>1, <3>4
    <3>6. \A i \in DOMAIN down'[u] : \/ i \in DOMAIN down[u] /\ down'[u][i] = down[u][i]
                                     \/ down'[u][i] # Frame("reject", n)
      <4>1. CASE down'[u] = down[u]
        BY <4>1
      <4>2. CASE down'[u] = down[u] \o Replay(from)
        <5>1. down[u] \in Seq(DownFrames)
          BY <3>4
        <5>2. PICK r \in Seq(DownFrames) : r = Replay(from)
          BY <3>1
        <5>3. \A i \in DOMAIN (down[u] \o r) :
                \/ i \in DOMAIN down[u] /\ (down[u] \o r)[i] = down[u][i]
                \/ i - Len(down[u]) \in DOMAIN r /\ (down[u] \o r)[i] = r[i - Len(down[u])]
          BY <5>1, Joined
        <5> QED BY <3>3, <4>2, <5>2, <5>3
      <4> QED BY <3>5, <4>1, <4>2
    <3> QED BY <2>1, <2>3, <3>6 DEF Returning
  <2> QED BY <1>5, <2>4, <2>5
<1>6. ASSUME NEW t \in Tabs, EgressEvent(t)
      PROVE  Returning(u, n)' => Returning(u, n)
  <2>1. PICK m \in 1..Len(log) :
          /\ UNCHANGED down \/ down' = [down EXCEPT ![t] = Append(down[t], Frame("event", m))]
          /\ Frame("event", m) \in DownFrames
    BY <1>6, EventSent
  <2>2. PICK f \in DownFrames : f = Frame("event", m) /\ f # Frame("reject", n)
    BY <2>1, FrameIs
  <2>3. \A i \in DOMAIN down'[u] : \/ i \in DOMAIN down[u] /\ down'[u][i] = down[u][i]
                                   \/ u = t /\ down'[u][i] = f
    BY <2>1, <2>2, FrameSent
  <2> QED BY <2>2, <2>3 DEF Returning
<1>7. ASSUME NEW t \in Tabs, HandleFrame(t)
      PROVE  /\ Returning(u, n)' => Returning(u, n)
             /\ n \in rejected'[u] => n \in rejected[u] \/ Returning(u, n)
             /\ erx' = erx
  <2>1. PICK type : Take(t, type)
    BY <1>7 DEF HandleFrame, ClientWelcome, ClientEvent, ClientResyncEnd, ClientReject
  <2>2. /\ 1 \in DOMAIN down[t] /\ Head(down[t]) = down[t][1] /\ Head(down[t]).type = type
        /\ Head(down[t]) \in DownFrames
        /\ \A i \in DOMAIN down'[t] : i + 1 \in DOMAIN down[t] /\ down'[t][i] = down[t][i + 1]
        /\ \A v \in Tabs : v # t => down'[v] = down[v]
    BY <2>1, Taken
  <2>3. Returning(u, n)' => Returning(u, n)
    <3>1. CASE u = t
      BY <2>2, <3>1 DEF Returning
    <3>2. CASE u # t
      BY <2>2, <3>2 DEF Returning
    <3> QED BY <3>1, <3>2
  <2>4. erx' = erx
    BY <2>1 DEF Take, egress
  <2>5. CASE rejected' = rejected
    BY <2>3, <2>4, <2>5
  <2>6. CASE ClientReject(t)
    <3>1. PICK m : /\ m = Head(down[t]).arg
                   /\ rejected' = [rejected EXCEPT ![t] = rejected[t] \cup {m}]
      BY <2>6 DEF ClientReject
    <3>2. Head(down[t]).type = "reject"
      BY <2>6 DEF ClientReject, Take
    <3>3. down[t][1] = Frame("reject", m)
      BY <2>2, <3>1, <3>2, FrameOf
    <3>4. Returning(t, m)
      BY <2>2, <3>3 DEF Returning
    <3>5. rejected \in [Tabs -> SUBSET (Nat \ {0})]
      BY DEF TypeOK
    <3>6. n \in rejected'[u] => n \in rejected[u] \/ (u = t /\ n = m)
      BY <3>1, <3>5
    <3> QED BY <2>3, <2>4, <3>4, <3>6
  <2> QED BY <1>7, <2>5, <2>6 DEF HandleFrame, ClientWelcome, ClientEvent, ClientResyncEnd
<1>8. \/ UNCHANGED <<erx, down, rejected>>
      \/ \E t \in Tabs :
           \/ Disconnect(t) \/ EgressReject(t) \/ EgressResync(t) \/ HandleFrame(t)
           \/ Welcome(t) /\ UNCHANGED <<erx, rejected>>
           \/ EgressEvent(t) /\ UNCHANGED <<erx, rejected>>
           \/ \E g \in Sockets : IngressRejects(t, g) \/ IngressResync(t, g)
  <2>1. CASE \E a \in Accounts : OtherCommand(a)
    BY <2>1 DEF OtherCommand, wire, client
  <2>2. ASSUME NEW t \in Tabs, Dispatch(t) \/ Connect(t)
        PROVE  UNCHANGED <<erx, down, rejected>>
    BY <2>2 DEF Dispatch, Connect, egress, wire, client
  <2>3. ASSUME NEW t \in Tabs, Welcome(t) \/ EgressEvent(t)
        PROVE  UNCHANGED <<erx, rejected>>
    BY <2>3 DEF Welcome, EgressEvent, client
  <2>4. ASSUME NEW t \in Tabs, NEW g \in Sockets, FramesLost(t, g) \/ IngressCommits(t, g)
        PROVE  UNCHANGED <<erx, down, rejected>>
    BY <2>4 DEF FramesLost, IngressCommits, egress, client
  <2>5. CASE UNCHANGED vars
    BY <2>5 DEF vars, egress, wire, client
  <2> QED BY <2>1, <2>2, <2>3, <2>4, <2>5 DEF Next, Ingress, Egress
<1>9. UNCHANGED erx => (Refusing(u, n)' => Refusing(u, n))
  BY DEF Refusing
<1>10. UNCHANGED down => (Returning(u, n)' => Returning(u, n))
  BY DEF Returning
<1> QED BY <1>1, <1>2, <1>3, <1>4, <1>5, <1>6, <1>7, <1>8, <1>9, <1>10

-----------------------------------------------------------------------------
(* An intent is answered once, by a commit or by a refusal.                *)

LEMMA CommittedIs ==
  ASSUME TypeOK, NEW t \in Tabs, NEW n
  PROVE  n \in Committed(t) <=> n \in Intents(t) /\ \E i \in DOMAIN log : log[i].intent = <<t, n>>
BY Numbers DEF Committed, IntentsIn, Intents

LEMMA CommittedIsNext ==
  ASSUME TypeOK', NEW t \in Tabs, NEW n
  PROVE  n \in Committed(t)' <=>
           n \in Intents(t)' /\ \E i \in DOMAIN log' : log'[i].intent = <<t, n>>
<1>1. DOMAIN log' = 1..Len(log')
  BY LenProperties DEF TypeOK
<1> QED BY <1>1 DEF Committed, IntentsIn, Intents

LEMMA IntentsGrow ==
  ASSUME TypeOK, [Next]_vars, NEW u \in Tabs
  PROVE  /\ Intents(u) \subseteq Intents(u)' /\ Intents(u) \subseteq Nat \ {0}
         /\ \/ Intents(u)' = Intents(u)
            \/ /\ Dispatch(u) /\ NextId(u) \in Nat \ {0}
               /\ Intents(u)' = Intents(u) \cup {NextId(u)} /\ NextId(u) \notin Intents(u)
               /\ \A n \in Intents(u) : n < NextId(u)
<1>1. dispatched \in [Tabs -> Nat]
  BY DEF TypeOK
<1>2. dispatched' = dispatched \/ \E t \in Tabs : Dispatch(t)
  <2>1. CASE \E a \in Accounts : OtherCommand(a)
    BY <2>1 DEF OtherCommand, client
  <2>2. ASSUME NEW t \in Tabs, Connect(t) \/ Disconnect(t) \/ Egress(t)
        PROVE  dispatched' = dispatched
    BY <2>2 DEF Connect, Disconnect, Egress, Welcome, EgressReject, EgressResync, EgressEvent, client
  <2>3. ASSUME NEW t \in Tabs, HandleFrame(t) PROVE dispatched' = dispatched
    BY <2>3 DEF HandleFrame, ClientWelcome, ClientEvent, ClientResyncEnd, ClientReject, Take
  <2>4. ASSUME NEW t \in Tabs, NEW g \in Sockets, FramesLost(t, g) \/ Ingress(t, g)
        PROVE  dispatched' = dispatched
    BY <2>4 DEF FramesLost, Ingress, IngressCommits, IngressRejects, IngressResync, client
  <2>5. CASE UNCHANGED vars
    BY <2>5 DEF vars, client
  <2> QED BY <2>1, <2>2, <2>3, <2>4, <2>5 DEF Next
<1>3. CASE dispatched' = dispatched
  BY <1>1, <1>3 DEF Intents
<1>4. ASSUME NEW t \in Tabs, Dispatch(t), u # t PROVE Intents(u)' = Intents(u)
  <2>1. dispatched' = [dispatched EXCEPT ![t] = NextId(t)]
    BY <1>4 DEF Dispatch
  <2> QED BY <1>1, <1>4, <2>1 DEF Intents
<1>5. CASE Dispatch(u)
  <2>1. PICK d \in Nat \ {0} : d = NextId(u) /\ d = dispatched[u] + 1
    BY <1>1 DEF NextId
  <2>2. dispatched'[u] = d /\ dispatched[u] \in Nat
    BY <1>1, <1>5, <2>1 DEF Dispatch
  <2>3. /\ 1..d = (1..dispatched[u]) \cup {d} /\ d \notin 1..dispatched[u]
        /\ \A n \in 1..dispatched[u] : n < d
    BY <2>1, <2>2
  <2> QED BY <1>5, <2>1, <2>2, <2>3 DEF Intents
<1>6. Intents(u) \subseteq Nat \ {0}
  BY <1>1 DEF Intents
<1> QED BY <1>2, <1>3, <1>4, <1>5, <1>6

(* What a step adds to the log.                                            *)
LEMMA LogStep ==
  ASSUME TypeOK, QueueInv, FramesInv, [Next]_vars
  PROVE  \/ log' = log /\ UNCHANGED outOfOrder
         \/ /\ Len(log) \in Nat
            /\ DOMAIN log = 1..Len(log) /\ DOMAIN log' = 1..(Len(log) + 1)
            /\ \A i \in DOMAIN log : log'[i] = log[i]
            /\ UNCHANGED <<erx, down, client, overtaken>>
            /\ \/ log'[Len(log) + 1].intent = NoIntent /\ UNCHANGED outOfOrder
               \/ \E t \in Tabs : \E n \in Unread(t) :
                    /\ n \in Intents(t) /\ n \in Nat \ {0} /\ n \notin Unread(t)'
                    /\ log'[Len(log) + 1].author = Self /\ log'[Len(log) + 1].intent = <<t, n>>
                    /\ outOfOrder' =
                         [outOfOrder EXCEPT ![t] = @ \/ \E i \in Unread(t) : i < n]
<1>1. CASE \E a \in Accounts : OtherCommand(a)
  <2>1. PICK a \in Accounts : OtherCommand(a)
    BY <1>1
  <2>2. Publish(a, NoIntent) /\ UNCHANGED <<erx, down, client, causes>>
    BY <2>1 DEF OtherCommand, wire
  <2>3. /\ Len(log) \in Nat
        /\ DOMAIN log = 1..Len(log) /\ DOMAIN log' = 1..(Len(log) + 1)
        /\ \A i \in DOMAIN log : log'[i] = log[i]
        /\ log'[Len(log) + 1].intent = NoIntent
    BY <2>2, Published
  <2> QED BY <2>2, <2>3 DEF causes
<1>2. ASSUME NEW t \in Tabs, NEW g \in Sockets, IngressCommits(t, g)
      PROVE  /\ Len(log) \in Nat
             /\ DOMAIN log = 1..Len(log) /\ DOMAIN log' = 1..(Len(log) + 1)
             /\ \A i \in DOMAIN log : log'[i] = log[i]
             /\ UNCHANGED <<erx, down, client, overtaken>>
             /\ \E n \in Unread(t) :
                  /\ n \in Intents(t) /\ n \in Nat \ {0} /\ n \notin Unread(t)'
                  /\ log'[Len(log) + 1].author = Self /\ log'[Len(log) + 1].intent = <<t, n>>
                  /\ outOfOrder' = [outOfOrder EXCEPT ![t] = @ \/ \E i \in Unread(t) : i < n]
  <2>1. /\ Receives(t, g, "intent") /\ UNCHANGED <<erx, down, client, overtaken>>
        /\ UNCHANGED <<offlineQueue, dispatched>>
    BY <1>2 DEF IngressCommits, client
  <2>2. PICK n \in Intents(t) : /\ n = Head(up[t][g]).arg /\ n \in Nat \ {0}
                               /\ n \in Unread(t) /\ n \notin Unread(t)'
    BY <2>1, IntentRead
  <2>3. /\ Publish(Self, <<t, n>>)
        /\ outOfOrder' = [outOfOrder EXCEPT ![t] = @ \/ \E i \in Unread(t) : i < n]
    BY <1>2, <2>2 DEF IngressCommits
  <2>4. Self \in Accounts
    BY ConstantsOK
  <2>5. /\ Len(log) \in Nat
        /\ DOMAIN log = 1..Len(log) /\ DOMAIN log' = 1..(Len(log) + 1)
        /\ \A i \in DOMAIN log : log'[i] = log[i]
        /\ log'[Len(log) + 1].author = Self /\ log'[Len(log) + 1].intent = <<t, n>>
    BY <2>2, <2>3, <2>4, Published
  <2> QED BY <2>1, <2>2, <2>3, <2>5
<1>3. \/ log' = log /\ UNCHANGED outOfOrder
      \/ \E a \in Accounts : OtherCommand(a)
      \/ \E t \in Tabs : \E g \in Sockets : IngressCommits(t, g)
  <2>1. ASSUME NEW t \in Tabs, Dispatch(t) \/ Connect(t) \/ Disconnect(t) \/ Egress(t)
        PROVE  log' = log /\ UNCHANGED outOfOrder
    BY <2>1 DEF Dispatch, Connect, Disconnect, Egress, Welcome, EgressReject, EgressResync,
                EgressEvent, causes
  <2>2. ASSUME NEW t \in Tabs, HandleFrame(t) PROVE log' = log /\ UNCHANGED outOfOrder
    BY <2>2 DEF HandleFrame, ClientWelcome, ClientEvent, ClientResyncEnd, ClientReject, Take, causes
  <2>3. ASSUME NEW t \in Tabs, NEW g \in Sockets,
               FramesLost(t, g) \/ IngressRejects(t, g) \/ IngressResync(t, g)
        PROVE  log' = log /\ UNCHANGED outOfOrder
    BY <2>3 DEF FramesLost, IngressRejects, IngressResync, causes
  <2>4. CASE UNCHANGED vars
    BY <2>4 DEF vars, causes
  <2> QED BY <2>1, <2>2, <2>3, <2>4 DEF Next, Ingress
<1> QED BY <1>1, <1>2, <1>3

LEMMA LogInvStep ==
  ASSUME TypeOK, QueueInv, FramesInv, LogInv, AnswersInv, [Next]_vars
  PROVE  LogInv'
<1>1. \A i \in DOMAIN log : \A t \in Tabs : \A n \in Nat \ {0} :
        log[i].intent = <<t, n>> => log[i].author = Self /\ n \in Intents(t)'
  BY IntentsGrow DEF LogInv
<1>2. CASE log' = log
  <2>1. CommittedAtMostOnce'
    BY <1>2 DEF LogInv, CommittedAtMostOnce
  <2> QED BY <1>1, <1>2, <2>1 DEF LogInv
<1>3. ASSUME Len(log) \in Nat, DOMAIN log = 1..Len(log), DOMAIN log' = 1..(Len(log) + 1),
             \A i \in DOMAIN log : log'[i] = log[i],
             log'[Len(log) + 1].intent = NoIntent
      PROVE  LogInv'
  <2>1. \A i \in DOMAIN log' : (i \in DOMAIN log /\ log'[i] = log[i]) \/ log'[i].intent = NoIntent
    BY <1>3
  <2>2. \A t \in Tabs : \A n \in Nat \ {0} : NoIntent # <<t, n>>
    BY ConstantsOK
  <2>3. CommittedAtMostOnce'
    BY <2>1 DEF LogInv, CommittedAtMostOnce
  <2>4. \A i \in DOMAIN log' : \A t \in Tabs : \A n \in Nat \ {0} :
          log'[i].intent = <<t, n>> => log'[i].author = Self /\ n \in Intents(t)'
    BY <1>1, <2>1, <2>2
  <2> QED BY <2>3, <2>4 DEF LogInv
<1>4. ASSUME Len(log) \in Nat, DOMAIN log = 1..Len(log), DOMAIN log' = 1..(Len(log) + 1),
             \A i \in DOMAIN log : log'[i] = log[i],
             NEW t \in Tabs, NEW n \in Unread(t), n \in Intents(t), n \in Nat \ {0},
             log'[Len(log) + 1].author = Self, log'[Len(log) + 1].intent = <<t, n>>
      PROVE  LogInv'
  <2>1. \A i \in DOMAIN log' :
          \/ i \in DOMAIN log /\ log'[i] = log[i]
          \/ i = Len(log) + 1 /\ log'[i].author = Self /\ log'[i].intent = <<t, n>>
    BY <1>4
  <2>2. n \notin Committed(t)
    BY <1>4 DEF AnswersInv
  <2>3. \A i \in DOMAIN log : log[i].intent # <<t, n>>
    BY <1>4, <2>2, CommittedIs
  <2>4. CommittedAtMostOnce'
    BY <2>1, <2>3 DEF LogInv, CommittedAtMostOnce
  <2>5. n \in Intents(t)'
    BY <1>4, IntentsGrow
  <2>6. ASSUME NEW i \in DOMAIN log', NEW u \in Tabs, NEW m \in Nat \ {0},
               log'[i].intent = <<u, m>>
        PROVE  log'[i].author = Self /\ m \in Intents(u)'
    <3>1. CASE i \in DOMAIN log /\ log'[i] = log[i]
      BY <1>1, <2>6, <3>1
    <3>2. CASE log'[i].author = Self /\ log'[i].intent = <<t, n>>
      <4>1. u = t /\ m = n
        BY <2>6, <3>2
      <4> QED BY <2>5, <3>2, <4>1
    <3> QED BY <2>1, <3>1, <3>2
  <2> QED BY <2>4, <2>6 DEF LogInv
<1> QED BY <1>2, <1>3, <1>4, LogStep

LEMMA UnreadDispatched ==
  ASSUME QueueInv, FramesInv, NEW t \in Tabs
  PROVE  Unread(t) \subseteq Intents(t)
BY UnreadIs, FrameIs DEF QueueInv, FramesInv, Queued, InFlight

AnswersApart(t) ==
  /\ Unread(t) \cap (Committed(t) \cup Refusals(t)) = {}
  /\ Committed(t) \cap Refusals(t) = {}

LEMMA AnswersAre == AnswersInv <=> \A t \in Tabs : AnswersApart(t)
BY DEF AnswersInv, AnswersApart, Refusals

LEMMA AnswersAreNext == AnswersInv' <=> \A t \in Tabs : AnswersApart(t)'
BY DEF AnswersInv, AnswersApart, Refusals

(* What a step makes of a session's intents: those that become unread are  *)
(* new, and those that become committed or refused, in one step never      *)
(* both, were unread and no longer are.                                    *)
LEMMA Effects ==
  ASSUME TypeOK, WireInv, QueueInv, FramesInv, RepliesInv, LogInv, [Next]_vars, TypeOK',
         NEW u \in Tabs
  PROVE  /\ Unread(u)' \subseteq Unread(u) \cup (Intents(u)' \ Intents(u))
         /\ Committed(u)' \subseteq Committed(u) \cup (Unread(u) \ Unread(u)')
         /\ Refusals(u)' \subseteq Refusals(u) \cup (Unread(u) \ Unread(u)')
         /\ Committed(u)' \subseteq Committed(u) \/ Refusals(u)' \subseteq Refusals(u)
<1>1. ASSUME NEW n \in Committed(u)', ~(n \in Unread(u) \ Unread(u)') \/ log' = log
      PROVE  n \in Committed(u)
  <2>1. PICK i \in DOMAIN log' : log'[i].intent = <<u, n>>
    BY <1>1, CommittedIsNext
  <2>2. n \in Nat \ {0}
    <3>1. dispatched'[u] \in Nat
      BY DEF TypeOK
    <3> QED BY <3>1, CommittedIsNext DEF Intents
  <2>3. CASE i \in DOMAIN log /\ log'[i] = log[i]
    <3>1. n \in Intents(u)
      BY <2>1, <2>2, <2>3 DEF LogInv
    <3> QED BY <2>1, <2>3, <3>1, CommittedIs
  <2>4. CASE ~(i \in DOMAIN log /\ log'[i] = log[i])
    <3>1. i = Len(log) + 1
      BY <2>1, <2>4, LogStep
    <3>2. log' # log
      BY <2>1, <2>4
    <3>3. \/ log'[i].intent = NoIntent
          \/ \E t \in Tabs : \E m \in Unread(t) : m \notin Unread(t)' /\ log'[i].intent = <<t, m>>
      BY <3>1, <3>2, LogStep
    <3>4. <<u, n>> # NoIntent
      BY <2>2, ConstantsOK
    <3> QED BY <1>1, <2>1, <3>2, <3>3, <3>4
  <2> QED BY <2>3, <2>4
<1>2. ASSUME NEW n \in Refusals(u)', n \notin Refusals(u)
      PROVE  n \in Unread(u) \ Unread(u)' /\ log' = log
  <2>1. Denied(u, n)'
    BY <1>2 DEF Refusals, Rejecting, Refused, Denied, Refusing, Returning, Range
  <2>2. ~Denied(u, n)
    BY <1>2, RefusalsIs
  <2> QED BY <2>1, <2>2, RefusedStep DEF Denied
<1>3. Unread(u)' \subseteq Unread(u) \cup (Intents(u)' \ Intents(u))
  BY FramesStep
<1> QED BY <1>1, <1>2, <1>3

LEMMA AnswersStep ==
  ASSUME TypeOK, WireInv, QueueInv, FramesInv, RepliesInv, LogInv, AnswersInv, [Next]_vars, TypeOK'
  PROVE  RepliesInv' /\ AnswersInv'
<1>1. ASSUME NEW u \in Tabs, NEW n, Denied(u, n)' PROVE n \in Intents(u)'
  <2>1. Denied(u, n) \/ n \in Unread(u)
    BY <1>1, RefusedStep DEF Denied
  <2>2. n \in Intents(u)
    BY <2>1, RepliesIs, UnreadDispatched
  <2> QED BY <2>2, IntentsGrow
<1>2. RepliesInv'
  BY <1>1, RepliesIsNext
<1>3. ASSUME NEW u \in Tabs PROVE AnswersApart(u)'
  <2>1. AnswersApart(u)
    BY AnswersAre
  <2>2. /\ Unread(u) \subseteq Intents(u) /\ Committed(u) \subseteq Intents(u)
        /\ Refusals(u) \subseteq Intents(u)
    <3>1. Unread(u) \subseteq Intents(u)
      BY UnreadDispatched
    <3>2. Committed(u) \subseteq Intents(u)
      BY CommittedIs
    <3>3. Refusals(u) \subseteq Intents(u)
      BY RefusalsIs, RepliesIs
    <3> QED BY <3>1, <3>2, <3>3
  <2>3. /\ Unread(u)' \subseteq Unread(u) \cup (Intents(u)' \ Intents(u))
        /\ Committed(u)' \subseteq Committed(u) \cup (Unread(u) \ Unread(u)')
        /\ Refusals(u)' \subseteq Refusals(u) \cup (Unread(u) \ Unread(u)')
        /\ Committed(u)' \subseteq Committed(u) \/ Refusals(u)' \subseteq Refusals(u)
    BY Effects
  <2>4. (Unread(u)' \cap (Committed(u)' \cup Refusals(u)')) = {}
    BY <2>1, <2>2, <2>3 DEF AnswersApart
  <2>5. (Committed(u)' \cap Refusals(u)') = {}
    BY <2>1, <2>3 DEF AnswersApart
  <2> QED BY <2>4, <2>5 DEF AnswersApart
<1>4. AnswersInv'
  BY <1>3, AnswersAreNext
<1> QED BY <1>2, <1>4

IntentInv ==
  /\ TypeOK /\ WireInv /\ ReplayInv
  /\ QueueInv /\ FramesInv /\ RepliesInv /\ LogInv /\ AnswersInv

LEMMA IntentInvInit == Init => IntentInv
<1> SUFFICES ASSUME Init PROVE IntentInv
  OBVIOUS
<1>1. log = <<>> /\ Len(log) = 0 /\ DOMAIN log = {}
  BY DEF Init
<1>2. ASSUME NEW t \in Tabs
      PROVE  /\ rx[t] = <<>> /\ erx[t] = <<>> /\ down[t] = <<>> /\ offlineQueue[t] = <<>>
             /\ nextExpected[t] = 1 /\ dispatched[t] = 0 /\ rejected[t] = {}
             /\ \A g \in Sockets : up[t][g] = <<>>
  BY <1>2 DEF Init
<1>3. TypeOK
  <2>1. log \in Seq(Command)
    BY <1>1, EmptySeq
  <2>2. 0 \in Nat /\ 0 \in 0..MaxOpens
    BY ConstantsOK
  <2> QED BY <2>1, <2>2, EmptySeq DEF Init, TypeOK
<1>4. WireInv
  BY <1>1, <1>2 DEF WireInv, Expecting, Awaiting, Serving, Arriving, Asking
<1>5. ReplayInv
  BY <1>2, ReplaysEmpty DEF ReplayInv
<1>6. QueueInv /\ FramesInv
  BY <1>2 DEF QueueInv, FramesInv
<1>7. RepliesInv
  BY <1>2 DEF RepliesInv
<1>8. LogInv
  BY <1>1 DEF LogInv, CommittedAtMostOnce
<1>9. AnswersInv
  <2>1. ASSUME NEW t \in Tabs PROVE Unread(t) = {} /\ Committed(t) = {}
    <3>1. Intents(t) = {}
      BY <1>2 DEF Intents
    <3> QED BY <1>6, <3>1, UnreadDispatched, <1>3, CommittedIs
  <2> QED BY <2>1 DEF AnswersInv
<1> QED BY <1>3, <1>4, <1>5, <1>6, <1>7, <1>8, <1>9 DEF IntentInv

LEMMA IntentInvStep == IntentInv /\ [Next]_vars => IntentInv'
<1> SUFFICES ASSUME IntentInv, [Next]_vars PROVE IntentInv'
  OBVIOUS
<1> USE DEF IntentInv
<1>1. TypeOK'
  BY TypesStep
<1>2. WireInv' /\ ReplayInv'
  BY WireStep, ReplayStep
<1>3. QueueInv' /\ FramesInv'
  BY FramesStep
<1>4. LogInv'
  BY LogInvStep
<1>5. RepliesInv' /\ AnswersInv'
  BY <1>1, AnswersStep
<1> QED BY <1>1, <1>2, <1>3, <1>4, <1>5

LEMMA IntentInvAlways == Spec => []IntentInv
BY IntentInvInit, IntentInvStep, PTL DEF Spec

(* Type correctness: the queues of both sides hold the frames they may,    *)
(* and the client's next event is one the server can have.                 *)
THEOREM IntentTyped == Spec => []TypeOK
<1>1. IntentInv => TypeOK
  BY DEF IntentInv
<1> QED BY <1>1, IntentInvAlways, PTL

(* An intent is committed at most once: of those that were sent, queued    *)
(* and flushed by dispatchIntent and #flushOfflineQueue, on whichever      *)
(* sockets, the ingress tasks publish none twice.                          *)
THEOREM CommittedOnceAlways == Spec => []CommittedAtMostOnce
<1>1. IntentInv => CommittedAtMostOnce
  BY DEF IntentInv, LogInv
<1> QED BY <1>1, IntentInvAlways, PTL

-----------------------------------------------------------------------------
(* The order of commits, and of the frames that tell of them.              *)

(* Where the log's entry for an intent comes from.                         *)
LEMMA EntryOf ==
  ASSUME IntentInv, [Next]_vars, NEW u \in Tabs, NEW n \in Nat \ {0},
         NEW i \in DOMAIN log', log'[i].intent = <<u, n>>
  PROVE  \/ i \in DOMAIN log /\ log'[i] = log[i] /\ n \in Committed(u)
         \/ /\ Len(log) \in Nat /\ i = Len(log) + 1 /\ i \notin DOMAIN log /\ n \in Unread(u)
            /\ ~outOfOrder'[u] => \A m \in Unread(u) : ~(m < n)
            /\ UNCHANGED <<erx, down, client, overtaken>>
<1>1. CASE i \in DOMAIN log /\ log'[i] = log[i]
  <2>1. n \in Intents(u)
    BY <1>1 DEF IntentInv, LogInv
  <2>2. n \in Committed(u)
    BY <1>1, <2>1, CommittedIs DEF IntentInv
  <2> QED BY <1>1, <2>2
<1>2. CASE ~(i \in DOMAIN log /\ log'[i] = log[i])
  <2>1. TypeOK /\ QueueInv /\ FramesInv
    BY DEF IntentInv
  <2>2. log' # log
    BY <1>2
  <2>3. /\ Len(log) \in Nat
        /\ DOMAIN log = 1..Len(log) /\ DOMAIN log' = 1..(Len(log) + 1)
        /\ \A j \in DOMAIN log : log'[j] = log[j]
        /\ UNCHANGED <<erx, down, client, overtaken>>
        /\ \/ log'[Len(log) + 1].intent = NoIntent
           \/ \E t \in Tabs : \E m \in Unread(t) :
                /\ log'[Len(log) + 1].intent = <<t, m>>
                /\ outOfOrder' = [outOfOrder EXCEPT ![t] = @ \/ \E j \in Unread(t) : j < m]
    BY <2>1, <2>2, LogStep
  <2>4. i = Len(log) + 1 /\ i \notin DOMAIN log
    BY <1>2, <2>3
  <2>5. <<u, n>> # NoIntent
    BY ConstantsOK
  <2>6. PICK t \in Tabs : \E m \in Unread(t) :
                /\ log'[Len(log) + 1].intent = <<t, m>>
                /\ outOfOrder' = [outOfOrder EXCEPT ![t] = @ \/ \E j \in Unread(t) : j < m]
    BY <2>3, <2>4, <2>5
  <2>7. PICK m \in Unread(t) :
                /\ log'[Len(log) + 1].intent = <<t, m>>
                /\ outOfOrder' = [outOfOrder EXCEPT ![t] = @ \/ \E j \in Unread(t) : j < m]
    BY <2>6
  <2>8. t = u /\ m = n
    BY <2>4, <2>7
  <2>9. outOfOrder' = [outOfOrder EXCEPT ![u] = @ \/ \E j \in Unread(u) : j < n]
    BY <2>7, <2>8
  <2>10. outOfOrder'[u] = (outOfOrder[u] \/ \E j \in Unread(u) : j < n)
    BY <2>1, <2>9 DEF TypeOK
  <2> QED BY <2>3, <2>4, <2>7, <2>8, <2>10
<1> QED BY <1>1, <1>2

LEMMA OutOfOrderStays ==
  ASSUME IntentInv, [Next]_vars, NEW u \in Tabs, ~outOfOrder'[u]
  PROVE  ~outOfOrder[u]
<1>1. TypeOK /\ QueueInv /\ FramesInv /\ outOfOrder \in [Tabs -> BOOLEAN]
  BY DEF IntentInv, TypeOK
<1>2. \/ UNCHANGED outOfOrder
      \/ \E t \in Tabs : \E n \in Unread(t) :
           outOfOrder' = [outOfOrder EXCEPT ![t] = @ \/ \E i \in Unread(t) : i < n]
  BY <1>1, LogStep
<1>3. CASE UNCHANGED outOfOrder
  BY <1>3
<1>4. ASSUME NEW t \in Tabs, NEW n \in Unread(t),
             outOfOrder' = [outOfOrder EXCEPT ![t] = @ \/ \E i \in Unread(t) : i < n]
      PROVE  ~outOfOrder[u]
  <2>1. CASE u = t
    BY <1>1, <1>4, <2>1
  <2>2. CASE u # t
    BY <1>1, <1>4, <2>2
  <2> QED BY <2>1, <2>2
<1> QED BY <1>2, <1>3, <1>4

LEMMA OvertakenStays ==
  ASSUME IntentInv, [Next]_vars, NEW u \in Tabs, ~overtaken'[u]
  PROVE  ~overtaken[u]
<1>1. overtaken \in [Tabs -> BOOLEAN]
  BY DEF IntentInv, TypeOK
<1>2. UNCHANGED overtaken \/ \E t \in Tabs : EgressResync(t)
  <2>1. CASE \E a \in Accounts : OtherCommand(a)
    BY <2>1 DEF OtherCommand, causes
  <2>2. ASSUME NEW t \in Tabs, Dispatch(t) \/ Connect(t) \/ Disconnect(t) \/ HandleFrame(t)
        PROVE  UNCHANGED overtaken
    BY <2>2 DEF Dispatch, Connect, Disconnect, HandleFrame, ClientWelcome, ClientEvent,
                ClientResyncEnd, ClientReject, Take, causes
  <2>3. ASSUME NEW t \in Tabs, Welcome(t) \/ EgressReject(t) \/ EgressEvent(t)
        PROVE  UNCHANGED overtaken
    BY <2>3 DEF Welcome, EgressReject, EgressEvent, causes
  <2>4. ASSUME NEW t \in Tabs, NEW g \in Sockets, FramesLost(t, g) \/ Ingress(t, g)
        PROVE  UNCHANGED overtaken
    BY <2>4 DEF FramesLost, Ingress, IngressCommits, IngressRejects, IngressResync, causes
  <2>5. CASE UNCHANGED vars
    BY <2>5 DEF vars, causes
  <2> QED BY <2>1, <2>2, <2>3, <2>4, <2>5 DEF Next, Egress
<1>3. ASSUME NEW t \in Tabs, EgressResync(t) PROVE ~overtaken[u]
  <2>1. PICK X \in BOOLEAN : overtaken' = [overtaken EXCEPT ![t] = overtaken[t] \/ X]
    BY <1>3 DEF EgressResync
  <2>2. CASE u = t
    BY <1>1, <2>1, <2>2
  <2>3. CASE u # t
    BY <1>1, <2>1, <2>3
  <2> QED BY <2>2, <2>3
<1> QED BY <1>2, <1>3

LEMMA OrderStep ==
  ASSUME IntentInv, OrderInv, [Next]_vars, TypeOK'
  PROVE  OrderInv'
<1> SUFFICES ASSUME NEW u \in Tabs, ~outOfOrder'[u]
             PROVE  /\ \A k \in Committed(u)', m \in Unread(u)' : k < m
                    /\ \A i, j \in DOMAIN log' : \A k, m \in Intents(u)' :
                         i < j /\ log'[i].intent = <<u, k>> /\ log'[j].intent = <<u, m>> => k < m
  BY DEF OrderInv
<1>1. ~outOfOrder[u]
  BY OutOfOrderStays
<1>2. /\ \A k \in Committed(u), m \in Unread(u) : k < m
      /\ \A i, j \in DOMAIN log : \A k, m \in Intents(u) :
           i < j /\ log[i].intent = <<u, k>> /\ log[j].intent = <<u, m>> => k < m
  BY <1>1 DEF OrderInv
<1>3. /\ TypeOK /\ Intents(u)' \subseteq Nat \ {0}
      /\ Unread(u) \subseteq Intents(u) /\ Committed(u) \subseteq Intents(u)
      /\ Intents(u) \subseteq Nat \ {0}
  <2>1. TypeOK /\ QueueInv /\ FramesInv
    BY DEF IntentInv
  <2>2. dispatched'[u] \in Nat
    BY DEF TypeOK
  <2> QED BY <2>1, <2>2, UnreadDispatched, CommittedIs, IntentsGrow DEF Intents
<1>4. ASSUME NEW k \in Committed(u)', NEW m \in Unread(u)' PROVE k < m
  <2>1. /\ m \in Unread(u) \/ m \in Intents(u)' \ Intents(u)
        /\ k \in Committed(u) \/ k \in Unread(u) \ Unread(u)'
    BY <1>4, Effects DEF IntentInv
  <2>2. CASE m \in Intents(u)' \ Intents(u)
    BY <1>3, <2>1, <2>2, IntentsGrow
  <2>3. CASE k \in Committed(u) /\ m \in Unread(u)
    BY <1>2, <2>3
  <2>4. CASE k \notin Committed(u) /\ m \in Unread(u)
    <3>1. PICK i \in DOMAIN log' : log'[i].intent = <<u, k>>
      BY <1>4, CommittedIsNext
    <3>2. k \in Nat \ {0} /\ m \in Nat \ {0} /\ k # m
      BY <1>3, <1>4, <2>1, <2>4
    <3>3. ~(m < k)
      BY <2>4, <3>1, <3>2, EntryOf
    <3> QED BY <3>2, <3>3
  <2> QED BY <2>1, <2>2, <2>3, <2>4
<1>5. ASSUME NEW i \in DOMAIN log', NEW j \in DOMAIN log', NEW k \in Intents(u)', NEW m \in Intents(u)',
             i < j, log'[i].intent = <<u, k>>, log'[j].intent = <<u, m>>
      PROVE  k < m
  <2>1. k \in Nat \ {0} /\ m \in Nat \ {0}
    BY <1>3
  <2>2. \/ i \in DOMAIN log /\ log'[i] = log[i] /\ k \in Committed(u)
        \/ Len(log) \in Nat /\ i = Len(log) + 1 /\ i \notin DOMAIN log
    BY <1>5, <2>1, EntryOf
  <2>3. \/ j \in DOMAIN log /\ log'[j] = log[j] /\ m \in Committed(u)
        \/ Len(log) \in Nat /\ j = Len(log) + 1 /\ j \notin DOMAIN log /\ m \in Unread(u)
    BY <1>5, <2>1, EntryOf
  <2>4. DOMAIN log = 1..Len(log) /\ Len(log) \in Nat
    BY <1>3, Numbers
  <2>5. CASE i \notin DOMAIN log
    BY <1>5, <2>2, <2>3, <2>4, <2>5
  <2>6. CASE i \in DOMAIN log /\ j \in DOMAIN log
    BY <1>2, <1>3, <1>5, <2>2, <2>3, <2>6
  <2>7. CASE i \in DOMAIN log /\ j \notin DOMAIN log
    BY <1>2, <2>2, <2>3, <2>7
  <2> QED BY <2>5, <2>6, <2>7
<1> QED BY <1>4, <1>5

(* How a step changes the frames on their way down to a client.            *)
LEMMA DownStep ==
  ASSUME IntentInv, [Next]_vars, NEW u \in Tabs
  PROVE  \/ down'[u] = down[u]
         \/ \A i \in DOMAIN down'[u] :
              i \in Nat /\ i + 1 \in DOMAIN down[u] /\ down'[u][i] = down[u][i + 1]
         \/ \A i \in DOMAIN down'[u] : down'[u][i].type \notin {"event", "reject"}
         \/ \E f \in DownFrames : /\ down'[u] = Append(down[u], f) /\ f.type = "reject"
                                  /\ f.arg \in Refused(u)
         \/ \E f \in DownFrames : /\ down'[u] = Append(down[u], f) /\ f.type = "event"
                                  /\ erx'[u] = <<>>
         \/ EgressResync(u)
<1>1. TypeOK /\ WireInv /\ RepliesInv
  BY DEF IntentInv
<1>2. down \in [Tabs -> Seq(DownFrames)]
  BY <1>1, TypesApart DEF WireTyped
<1>3. ASSUME NEW t \in Tabs, Disconnect(t) PROVE down'[u] = down[u] \/ down'[u] = <<>>
  BY <1>2, <1>3 DEF Disconnect
<1>4. ASSUME NEW t \in Tabs, Welcome(t)
      PROVE  down'[u] = down[u] \/ \A i \in DOMAIN down'[u] : down'[u][i].type = "welcome"
  <2>1. PICK f \in DownFrames : f = Frame("welcome", Len(log)) /\ f.type = "welcome"
    BY <1>1, Numbers, FrameTyped, FrameIs
  <2>2. PICK fs \in Seq(DownFrames) : fs = <<f>> /\ DOMAIN fs = 1..1 /\ fs[1] = f
    BY OneFrame
  <2>3. down'[u] = down[u] \/ down'[u] = fs
    BY <1>2, <1>4, <2>1, <2>2 DEF Welcome
  <2> QED BY <2>1, <2>2, <2>3
<1>5. ASSUME NEW t \in Tabs, EgressReject(t)
      PROVE  \/ down'[u] = down[u]
             \/ \E f \in DownFrames : /\ down'[u] = Append(down[u], f) /\ f.type = "reject"
                                      /\ f.arg \in Refused(u)
  <2>1. erx[t] # <<>> /\ erx' = [erx EXCEPT ![t] = Tail(@)] /\ Head(erx[t]).type = "reject"
    BY <1>5 DEF EgressReject
  <2>2. 1 \in DOMAIN erx[t] /\ Head(erx[t]) = erx[t][1] /\ Head(erx[t]) \in Replies
    BY <1>1, <2>1, ReplyTaken
  <2>3. PICK f \in DownFrames : f = Head(erx[t]) /\ f.type = "reject"
    BY <2>1, <2>2 DEF Replies, DownFrames
  <2>4. down' = [down EXCEPT ![t] = Append(down[t], f)]
    BY <1>5, <2>3 DEF EgressReject
  <2>5. f = Frame("reject", f.arg)
    BY <2>3, FrameOf
  <2>6. f.arg \in Refused(t)
    BY <1>1, <2>2, <2>3, <2>5 DEF RepliesInv, Refused, Range, Intents
  <2>7. down'[u] = down[u] \/ (u = t /\ down'[u] = Append(down[u], f))
    BY <1>1, <2>4, FrameSent
  <2> QED BY <2>3, <2>6, <2>7
<1>6. ASSUME NEW t \in Tabs, EgressResync(t) PROVE down'[u] = down[u] \/ EgressResync(u)
  BY <1>2, <1>6 DEF EgressResync
<1>7. ASSUME NEW t \in Tabs, EgressEvent(t)
      PROVE  \/ down'[u] = down[u]
             \/ \E f \in DownFrames : /\ down'[u] = Append(down[u], f) /\ f.type = "event"
                                      /\ erx'[u] = <<>>
  <2>1. PICK n \in 1..Len(log) :
          /\ UNCHANGED down \/ down' = [down EXCEPT ![t] = Append(down[t], Frame("event", n))]
          /\ Frame("event", n) \in DownFrames
    BY <1>1, <1>7, EventSent
  <2>2. PICK f \in DownFrames : f = Frame("event", n) /\ f.type = "event"
    BY <2>1, FrameIs
  <2>3. down'[u] = down[u] \/ (u = t /\ down'[u] = Append(down[u], f))
    BY <1>1, <2>1, <2>2, FrameSent
  <2>4. erx'[t] = <<>>
    BY <1>7 DEF EgressEvent, NoReplyWaits
  <2> QED BY <2>2, <2>3, <2>4
<1>8. ASSUME NEW t \in Tabs, HandleFrame(t)
      PROVE  \/ down'[u] = down[u]
             \/ \A i \in DOMAIN down'[u] :
                  i \in Nat /\ i + 1 \in DOMAIN down[u] /\ down'[u][i] = down[u][i + 1]
  <2>1. PICK type : Take(t, type)
    BY <1>8 DEF HandleFrame, ClientWelcome, ClientEvent, ClientResyncEnd, ClientReject
  <2>2. /\ \A i \in DOMAIN down'[t] :
             i \in Nat \ {0} /\ i + 1 \in DOMAIN down[t] /\ down'[t][i] = down[t][i + 1]
        /\ \A v \in Tabs : v # t => down'[v] = down[v]
    BY <1>1, <2>1, Taken
  <2> QED BY <2>2
<1>9. UNCHANGED down \/ \E t \in Tabs : Disconnect(t) \/ Egress(t) \/ HandleFrame(t)
  <2>1. CASE \E a \in Accounts : OtherCommand(a)
    BY <2>1 DEF OtherCommand, wire
  <2>2. ASSUME NEW t \in Tabs, Dispatch(t) \/ Connect(t)
        PROVE  UNCHANGED down
    BY <2>2 DEF Dispatch, Connect, wire
  <2>3. ASSUME NEW t \in Tabs, NEW g \in Sockets, FramesLost(t, g) \/ Ingress(t, g)
        PROVE  UNCHANGED down
    BY <2>3 DEF FramesLost, Ingress, IngressCommits, IngressRejects, IngressResync
  <2>4. CASE UNCHANGED vars
    BY <2>4 DEF vars, wire
  <2> QED BY <2>1, <2>2, <2>3, <2>4 DEF Next
<1> QED BY <1>3, <1>4, <1>5, <1>6, <1>7, <1>8, <1>9 DEF Egress

Behind(u, i, k) ==
  /\ \A m \in Refused(u) : k < m
  /\ \A j \in DOMAIN down[u] : i < j /\ down[u][j].type = "reject" => k < down[u][j].arg

(* The echo of an intent that was on its way before the step.              *)
LEMMA OldEcho ==
  ASSUME IntentInv, OrderInv, OvertakeInv, [Next]_vars, TypeOK', NEW u \in Tabs,
         ~outOfOrder[u], ~overtaken[u], ~outOfOrder'[u],
         NEW i \in DOMAIN down[u], down[u][i].type = "event",
         NEW k \in Intents(u)', log'[down[u][i].arg].intent = <<u, k>>
  PROVE  Behind(u, i, k) /\ \A m \in Refused(u)' : k < m
<1>1. TypeOK /\ WireInv /\ QueueInv /\ FramesInv /\ RepliesInv
  BY DEF IntentInv
<1>2. down[u][i].arg \in 1..Len(log) /\ DOMAIN log = 1..Len(log)
  BY <1>1, Numbers DEF WireInv, Arriving
<1>3. k \in Nat \ {0}
  <2>1. dispatched'[u] \in Nat
    BY DEF TypeOK
  <2> QED BY <2>1 DEF Intents
<1>4. down[u][i].arg \in DOMAIN log'
  BY <1>1, <1>2, LogStep
<1>5. log'[down[u][i].arg] = log[down[u][i].arg] /\ k \in Committed(u)
  BY <1>2, <1>3, <1>4, EntryOf
<1>6. k \in Intents(u) /\ log[down[u][i].arg].intent = <<u, k>>
  BY <1>1, <1>5, CommittedIs
<1>7. Behind(u, i, k)
  BY <1>6 DEF OvertakeInv, Behind
<1>8. ASSUME NEW m \in Refused(u)' PROVE k < m
  <2>1. Refusing(u, m)'
    BY DEF Refused, Refusing, Range
  <2>2. Refusing(u, m) \/ m \in Unread(u)
    BY <1>1, <2>1, RefusedStep
  <2>3. CASE Refusing(u, m)
    <3>1. m \in Intents(u)
      BY <1>1, <2>3, RepliesIs DEF Denied
    <3>2. m \in Refused(u)
      BY <2>3, <3>1 DEF Refused, Refusing, Range, Intents
    <3> QED BY <1>7, <3>2 DEF Behind
  <2>4. CASE m \in Unread(u)
    BY <1>5, <2>4 DEF OrderInv
  <2> QED BY <2>2, <2>3, <2>4
<1> QED BY <1>7, <1>8

LEMMA OvertakeStep ==
  ASSUME IntentInv, OrderInv, OvertakeInv, [Next]_vars, TypeOK'
  PROVE  OvertakeInv'
<1> SUFFICES ASSUME NEW u \in Tabs, ~outOfOrder'[u], ~overtaken'[u],
                    NEW i \in DOMAIN down'[u], down'[u][i].type = "event",
                    NEW k \in Intents(u)', log'[down'[u][i].arg].intent = <<u, k>>
             PROVE  Behind(u, i, k)'
  BY DEF OvertakeInv, Behind
<1>1. TypeOK /\ WireInv /\ QueueInv /\ FramesInv /\ RepliesInv
  BY DEF IntentInv
<1>2. ~outOfOrder[u] /\ ~overtaken[u]
  BY OutOfOrderStays, OvertakenStays
<1>3. down[u] \in Seq(DownFrames) /\ Len(down[u]) \in Nat /\ DOMAIN down[u] = 1..Len(down[u])
  <2>1. down \in [Tabs -> Seq(DownFrames)]
    BY <1>1, TypesApart DEF WireTyped
  <2> QED BY <2>1, LenProperties
<1>4. CASE down'[u] = down[u]
  BY <1>2, <1>4, OldEcho DEF Behind
<1>5. CASE \A j \in DOMAIN down'[u] :
             j \in Nat /\ j + 1 \in DOMAIN down[u] /\ down'[u][j] = down[u][j + 1]
  <2>1. PICK e \in DOMAIN down[u] : e = i + 1 /\ down'[u][i] = down[u][e] /\ i \in Nat
    BY <1>5
  <2>2. Behind(u, e, k) /\ \A m \in Refused(u)' : k < m
    BY <1>2, <2>1, OldEcho
  <2>3. ASSUME NEW j \in DOMAIN down'[u], i < j, down'[u][j].type = "reject"
        PROVE  k < down'[u][j].arg
    <3>1. PICK q \in DOMAIN down[u] : q = j + 1 /\ down'[u][j] = down[u][q] /\ j \in Nat
      BY <1>5
    <3>2. e < q
      BY <2>1, <2>3, <3>1
    <3> QED BY <2>2, <2>3, <3>1, <3>2 DEF Behind
  <2> QED BY <2>2, <2>3 DEF Behind
<1>6. CASE \A j \in DOMAIN down'[u] : down'[u][j].type \notin {"event", "reject"}
  BY <1>6
<1>7. ASSUME NEW f \in DownFrames, down'[u] = Append(down[u], f), f.type = "reject",
             f.arg \in Refused(u)
      PROVE  Behind(u, i, k)'
  <2>1. \A j \in DOMAIN down'[u] : \/ j \in DOMAIN down[u] /\ down'[u][j] = down[u][j]
                                   \/ j = Len(down[u]) + 1 /\ down'[u][j] = f
    BY <1>3, <1>7, Appended
  <2>2. i \in DOMAIN down[u] /\ down'[u][i] = down[u][i]
    BY <1>7, <2>1
  <2>3. Behind(u, i, k) /\ \A m \in Refused(u)' : k < m
    BY <1>2, <2>2, OldEcho
  <2>4. ASSUME NEW j \in DOMAIN down'[u], i < j, down'[u][j].type = "reject"
        PROVE  k < down'[u][j].arg
    BY <1>7, <2>1, <2>3, <2>4 DEF Behind
  <2> QED BY <2>3, <2>4 DEF Behind
<1>8. ASSUME NEW f \in DownFrames, down'[u] = Append(down[u], f), f.type = "event", erx'[u] = <<>>
      PROVE  Behind(u, i, k)'
  <2>1. \A j \in DOMAIN down'[u] : \/ j \in DOMAIN down[u] /\ down'[u][j] = down[u][j]
                                   \/ j = Len(down[u]) + 1 /\ down'[u][j] = f
    BY <1>3, <1>8, Appended
  <2>2. Refused(u)' = {}
    BY <1>8 DEF Refused, Range
  <2>3. ASSUME NEW j \in DOMAIN down'[u], i < j, down'[u][j].type = "reject"
        PROVE  k < down'[u][j].arg
    <3>1. j \in DOMAIN down[u] /\ down'[u][j] = down[u][j]
      BY <1>8, <2>1, <2>3
    <3>2. i \in DOMAIN down[u] /\ down'[u][i] = down[u][i]
      BY <1>3, <2>1, <2>3, <3>1
    <3>3. Behind(u, i, k)
      BY <1>2, <3>2, OldEcho
    <3> QED BY <2>3, <3>1, <3>3 DEF Behind
  <2> QED BY <2>2, <2>3 DEF Behind
<1>9. CASE EgressResync(u)
  <2>1. PICK from \in Nat \ {0} :
          /\ from = Head(erx[u]).arg /\ from <= Len(log) + 1
          /\ Replay(from) \in Seq(DownFrames)
          /\ down' = [down EXCEPT ![u] = down[u] \o Replay(from)]
    BY <1>1, <1>9, ResyncServed
  <2>2. PICK r \in Seq(DownFrames) : r = Replay(from)
    BY <2>1
  <2>3. /\ log' = log /\ dispatched' = dispatched
        /\ erx[u] # <<>> /\ erx' = [erx EXCEPT ![u] = Tail(@)]
        /\ overtaken' = [overtaken EXCEPT ![u] =
             @ \/ \E n \in IntentsIn(u, from, Len(log)), m \in Refused(u) : m < n]
    BY <1>9, <2>1 DEF EgressResync, client
  <2>4. \A j \in DOMAIN r : \/ \E e \in from..Len(log) : r[j] = Frame("event", e)
                            \/ r[j] = Frame("resync_end", Len(log))
    <3> SUFFICES ASSUME NEW j \in DOMAIN r
                 PROVE  \/ \E e \in from..Len(log) : r[j] = Frame("event", e)
                        \/ r[j] = Frame("resync_end", Len(log))
      OBVIOUS
    <3>1. /\ Len(log) \in Nat /\ Len(r) = Len(log) + 2 - from
          /\ \A l \in 1..(Len(log) + 1 - from) : r[l] = Frame("event", from + l - 1)
          /\ r[Len(log) + 2 - from] = Frame("resync_end", Len(log))
      BY <1>1, <2>1, <2>2, Replayed
    <3>2. j \in 1..Len(r)
      BY LenProperties
    <3>3. CASE j = Len(log) + 2 - from
      BY <3>1, <3>3
    <3>4. CASE j # Len(log) + 2 - from
      <4>1. PICK n \in Nat : n = Len(log)
        BY <3>1
      <4>2. j \in 1..(n + 2 - from) /\ j # n + 2 - from
        BY <3>1, <3>2, <3>4, <4>1
      <4>3. j \in 1..(n + 1 - from) /\ from + j - 1 \in from..n
        BY <4>2
      <4> QED BY <3>1, <4>1, <4>3
    <3> QED BY <3>3, <3>4
  <2>5. \A j \in DOMAIN down'[u] :
          \/ j \in DOMAIN down[u] /\ down'[u][j] = down[u][j]
          \/ /\ j \in Nat /\ j > Len(down[u]) /\ j - Len(down[u]) \in DOMAIN r
             /\ down'[u][j] = r[j - Len(down[u])]
    <3>1. down'[u] = down[u] \o r
      <4>1. down \in [Tabs -> Seq(DownFrames)]
        BY <1>1, TypesApart DEF WireTyped
      <4> QED BY <2>1, <2>2, <4>1
    <3>2. DOMAIN r = 1..Len(r) /\ Len(r) \in Nat
      BY LenProperties
    <3>3. /\ DOMAIN (down[u] \o r) = 1..(Len(down[u]) + Len(r))
          /\ \A j \in DOMAIN (down[u] \o r) :
               \/ j \in DOMAIN down[u] /\ (down[u] \o r)[j] = down[u][j]
               \/ j - Len(down[u]) \in DOMAIN r /\ (down[u] \o r)[j] = r[j - Len(down[u])]
      BY <1>3, Joined
    <3>4. DOMAIN down'[u] = 1..(Len(down[u]) + Len(r))
      BY <3>1, <3>3
    <3> SUFFICES ASSUME NEW j \in DOMAIN down'[u]
                 PROVE  \/ j \in DOMAIN down[u] /\ down'[u][j] = down[u][j]
                        \/ /\ j \in Nat /\ j > Len(down[u]) /\ j - Len(down[u]) \in DOMAIN r
                           /\ down'[u][j] = r[j - Len(down[u])]
      OBVIOUS
    <3>5. Len(down[u]) \in Nat
      BY <1>3
    <3>6. j \in Nat
      BY <3>2, <3>4, <3>5
    <3>7. \/ j \in DOMAIN down[u] /\ down'[u][j] = down[u][j]
          \/ j - Len(down[u]) \in DOMAIN r /\ down'[u][j] = r[j - Len(down[u])]
      BY <3>1, <3>3
    <3>8. j - Len(down[u]) \in DOMAIN r => j > Len(down[u])
      BY <3>2, <3>5, <3>6
    <3> QED BY <3>6, <3>7, <3>8
  <2>6. Refused(u)' \subseteq Refused(u)
    <3>1. \A j \in DOMAIN erx'[u] : j + 1 \in DOMAIN erx[u] /\ erx'[u][j] = erx[u][j + 1]
      BY <1>1, <2>3, ReplyTaken
    <3> QED BY <2>3, <3>1 DEF Refused, Range
  <2>7. ASSUME NEW j \in DOMAIN down'[u], down'[u][j].type = "reject"
        PROVE  j \in DOMAIN down[u] /\ down'[u][j] = down[u][j]
    <3>1. \A l \in DOMAIN r : r[l].type # "reject"
      BY <2>4, FrameIs
    <3> QED BY <2>5, <2>7, <3>1
  <2>8. CASE i \in DOMAIN down[u] /\ down'[u][i] = down[u][i]
    <3>1. Behind(u, i, k) /\ \A m \in Refused(u)' : k < m
      BY <1>2, <2>8, OldEcho
    <3> QED BY <2>7, <3>1 DEF Behind
  <2>9. CASE /\ i \in Nat /\ i > Len(down[u]) /\ i - Len(down[u]) \in DOMAIN r
             /\ down'[u][i] = r[i - Len(down[u])]
    <3>1. PICK e \in from..Len(log) : down'[u][i] = Frame("event", e) /\ down'[u][i].arg = e
      BY <2>4, <2>9, FrameIs
    <3>2. k \in IntentsIn(u, from, Len(log))
      BY <2>3, <3>1 DEF IntentsIn, Intents
    <3>3. k \in Committed(u)
      <4>1. e \in DOMAIN log /\ k \in Intents(u)
        BY <1>1, <2>3, <3>1, Numbers DEF Intents
      <4> QED BY <1>1, <2>3, <3>1, <4>1, CommittedIs
    <3>4. ASSUME NEW m \in Refused(u) PROVE k < m
      <4>1. ~(m < k)
        <5>1. overtaken \in [Tabs -> BOOLEAN]
          BY <1>1 DEF TypeOK
        <5>2. overtaken'[u] =
                (overtaken[u] \/ \E n \in IntentsIn(u, from, Len(log)), l \in Refused(u) : l < n)
          BY <2>3, <5>1
        <5> QED BY <3>2, <3>4, <5>2
      <4>2. m # k
        BY <3>3, <3>4 DEF IntentInv, AnswersInv, Rejecting
      <4>3. m \in Nat /\ k \in Nat
        BY <1>1, <2>3, Numbers DEF Refused, Intents
      <4> QED BY <4>1, <4>2, <4>3
    <3>5. \A j \in DOMAIN down'[u] : ~(i < j /\ down'[u][j].type = "reject")
      BY <1>3, <2>5, <2>7, <2>9
    <3> QED BY <2>6, <3>4, <3>5 DEF Behind
  <2> QED BY <2>5, <2>8, <2>9
<1> QED BY <1>4, <1>5, <1>6, <1>7, <1>8, <1>9, DownStep

-----------------------------------------------------------------------------
(* The predictions.                                                        *)

Sorted(s) == \A i, j \in DOMAIN s : i < j => s[i] < s[j]

LEMMA HeadGone ==
  ASSUME NEW S \in SUBSET Nat, NEW s \in Seq(S), Sorted(s), s # <<>>
  PROVE  /\ Range(Tail(s)) = Range(s) \ {Head(s)} /\ Sorted(Tail(s))
         /\ Head(s) \in Range(s) /\ Head(s) \in Nat /\ \A x \in Range(s) : Head(s) = x \/ Head(s) < x
<1>1. PICK r \in Seq(S) :
        /\ r = Tail(s) /\ Head(s) = s[1] /\ 1 \in DOMAIN s /\ Head(s) \in S
        /\ Len(s) \in Nat /\ DOMAIN s = 1..Len(s) /\ DOMAIN r = 1..(Len(s) - 1)
        /\ \A i \in DOMAIN r : i \in Nat /\ i + 1 \in DOMAIN s /\ r[i] = s[i + 1]
  <2>1. PICK r \in Seq(S) : r = Tail(s)
    BY Tailed
  <2> QED BY <2>1, Tailed
<1>2. \A i \in DOMAIN s : s[i] \in Nat
  BY <1>1, ElementOfSeq
<1>3. \A i \in DOMAIN s : i = 1 \/ (s[1] < s[i] /\ i - 1 \in DOMAIN r /\ r[i - 1] = s[i])
  <2> SUFFICES ASSUME NEW i \in DOMAIN s, i # 1
               PROVE  s[1] < s[i] /\ i - 1 \in DOMAIN r /\ r[i - 1] = s[i]
    OBVIOUS
  <2>1. i \in 1..Len(s) /\ 1 < i
    BY <1>1
  <2>2. PICK p \in DOMAIN r : p = i - 1 /\ p + 1 = i
    BY <1>1, <2>1
  <2> QED BY <1>1, <2>1, <2>2 DEF Sorted
<1>4. Sorted(r)
  BY <1>1 DEF Sorted
<1>5. \A i \in DOMAIN r : r[i] \in Range(s) /\ r[i] # s[1]
  <2> SUFFICES ASSUME NEW i \in DOMAIN r PROVE r[i] \in Range(s) /\ r[i] # s[1]
    OBVIOUS
  <2>1. i + 1 \in DOMAIN s /\ r[i] = s[i + 1] /\ i + 1 # 1
    BY <1>1
  <2>2. s[1] < r[i] /\ s[1] \in Nat
    BY <1>2, <1>3, <1>1, <2>1
  <2> QED BY <2>1, <2>2 DEF Range
<1>6. Range(r) = Range(s) \ {s[1]}
  <2>1. \A x \in Range(r) : x \in Range(s) \ {s[1]}
    BY <1>5 DEF Range
  <2>2. \A x \in Range(s) : x # s[1] => x \in Range(r)
    BY <1>3 DEF Range
  <2> QED BY <2>1, <2>2
<1>7. \A x \in Range(s) : s[1] = x \/ s[1] < x
  BY <1>3 DEF Range
<1>8. Head(s) \in Range(s) /\ Head(s) \in Nat
  BY <1>1 DEF Range
<1>9. \A x \in Range(s) : Head(s) = x \/ Head(s) < x
  BY <1>1, <1>7
<1>10. Range(Tail(s)) = Range(s) \ {Head(s)} /\ Sorted(Tail(s))
  BY <1>1, <1>4, <1>6
<1> QED BY <1>8, <1>9, <1>10

LEMMA OneGone ==
  ASSUME NEW S \in SUBSET Nat, NEW s \in Seq(S), Sorted(s), NEW p \in DOMAIN s
  PROVE  Range(Splice(s, p)) = Range(s) \ {s[p]} /\ Sorted(Splice(s, p))
<1>1. PICK r \in Seq(S) :
        /\ r = Splice(s, p) /\ Len(s) \in Nat /\ DOMAIN s = 1..Len(s) /\ DOMAIN r = 1..(Len(s) - 1)
        /\ \A j \in DOMAIN r : r[j] = IF j < p THEN s[j] ELSE s[j + 1]
  BY Spliced
<1>2. \A i \in DOMAIN s : s[i] \in Nat
  BY <1>1, ElementOfSeq
<1> DEFINE Old(j) == IF j < p THEN j ELSE j + 1
<1>3. ASSUME NEW j \in DOMAIN r
      PROVE  Old(j) \in DOMAIN s /\ Old(j) # p /\ r[j] = s[Old(j)]
  BY <1>1
<1>4. ASSUME NEW i \in DOMAIN r, NEW j \in DOMAIN r, i < j PROVE Old(i) < Old(j)
  BY <1>1, <1>4
<1>5. ASSUME NEW i \in DOMAIN s, i # p PROVE \E j \in DOMAIN r : Old(j) = i
  <2>1. CASE i < p
    <3>1. i \in DOMAIN r /\ Old(i) = i
      BY <1>1, <2>1
    <3> QED BY <3>1
  <2>2. CASE ~(i < p)
    <3>1. i - 1 \in DOMAIN r /\ Old(i - 1) = i
      BY <1>1, <1>5, <2>2
    <3> QED BY <3>1
  <2> QED BY <2>1, <2>2
<1>6. \A i \in DOMAIN s : i # p => s[i] # s[p]
  <2> SUFFICES ASSUME NEW i \in DOMAIN s, i # p PROVE s[i] # s[p]
    OBVIOUS
  <2>1. i < p \/ p < i
    BY <1>1
  <2>2. s[i] < s[p] \/ s[p] < s[i]
    BY <2>1 DEF Sorted
  <2> QED BY <1>2, <2>2
<1> HIDE DEF Old
<1>7. Sorted(r)
  BY <1>3, <1>4 DEF Sorted
<1>8. Range(r) = Range(s) \ {s[p]}
  <2>1. \A x \in Range(r) : x \in Range(s) \ {s[p]}
    BY <1>3, <1>6 DEF Range
  <2>2. ASSUME NEW i \in DOMAIN s, s[i] # s[p] PROVE s[i] \in Range(r)
    <3>1. PICK j \in DOMAIN r : Old(j) = i
      BY <1>5, <2>2
    <3> QED BY <1>3, <3>1 DEF Range
  <2> QED BY <2>1, <2>2 DEF Range
<1> QED BY <1>1, <1>7, <1>8

LEMMA OneMore ==
  ASSUME NEW S \in SUBSET Nat, NEW s \in Seq(S), Sorted(s), NEW e \in S, \A x \in Range(s) : x < e
  PROVE  Range(Append(s, e)) = Range(s) \cup {e} /\ Sorted(Append(s, e))
<1>1. PICK r \in Seq(S) :
        /\ r = Append(s, e) /\ Len(s) \in Nat /\ DOMAIN s = 1..Len(s) /\ DOMAIN r = 1..(Len(s) + 1)
        /\ \A i \in DOMAIN s : r[i] = s[i]
        /\ r[Len(s) + 1] = e
        /\ \A i \in DOMAIN r : i \in DOMAIN s \/ i = Len(s) + 1
  <2>1. PICK r \in Seq(S) : r = Append(s, e)
    BY Appended
  <2> QED BY <2>1, Appended
<1>2. \A i \in DOMAIN s : i \in DOMAIN r /\ s[i] < e
  BY <1>1 DEF Range
<1>3. Len(s) + 1 \in DOMAIN r
  BY <1>1
<1>4. Range(r) = Range(s) \cup {e}
  BY <1>1, <1>2, <1>3 DEF Range
<1>5. ASSUME NEW i \in DOMAIN r, NEW j \in DOMAIN r, i < j PROVE r[i] < r[j]
  <2>1. i \in DOMAIN s
    BY <1>1, <1>5
  <2>2. CASE j \in DOMAIN s
    BY <1>1, <1>5, <2>1, <2>2 DEF Sorted
  <2>3. CASE j = Len(s) + 1
    BY <1>1, <1>2, <2>1, <2>3
  <2> QED BY <1>1, <2>2, <2>3
<1> QED BY <1>1, <1>4, <1>5 DEF Sorted

(* What has come apart stays apart.                                        *)
LEMMA AlignedBefore ==
  ASSUME IntentInv, [Next]_vars, TypeOK', NEW u \in Tabs, Aligned(u)'
  PROVE  Aligned(u)
<1>1. TypeOK /\ WireInv /\ QueueInv /\ FramesInv /\ RepliesInv /\ LogInv
  BY DEF IntentInv
<1>2. ~outOfOrder[u] /\ ~overtaken[u]
  BY OutOfOrderStays, OvertakenStays DEF Aligned
<1>3. ~Lost(u)
  <2> SUFFICES ASSUME NEW k \in Intents(u), k \notin Unread(u), k \notin Committed(u), k \notin Refusals(u)
               PROVE  FALSE
    BY DEF Lost, Refusals
  <2>1. k \in Intents(u)'
    BY <1>1, IntentsGrow
  <2>2. k \notin Unread(u)' /\ k \notin Committed(u)' /\ k \notin Refusals(u)'
    BY <1>1, Effects
  <2> QED BY <2>1, <2>2 DEF Aligned, Lost, Refusals
<1>4. ~Foreign(u)
  <2> SUFFICES ASSUME NEW i \in DOMAIN log, log[i].author = Self,
                      log[i].intent \notin {u} \X Intents(u)
               PROVE  FALSE
    BY DEF Foreign
  <2>1. i \in DOMAIN log' /\ log'[i] = log[i]
    BY <1>1, LogStep
  <2>2. PICK n \in Intents(u)' : log[i].intent = <<u, n>>
    BY <2>1 DEF Aligned, Foreign
  <2>3. n \in Nat \ {0}
    <3>1. dispatched'[u] \in Nat
      BY DEF TypeOK
    <3> QED BY <3>1 DEF Intents
  <2>4. n \in Intents(u)
    BY <1>1, <2>2, <2>3 DEF LogInv
  <2> QED BY <2>2, <2>4
<1> QED BY <1>2, <1>3, <1>4 DEF Aligned

LEMMA BaseKept ==
  ASSUME IntentInv, [Next]_vars, TypeOK', NEW u \in Tabs, nextExpected'[u] = nextExpected[u]
  PROVE  InBase(u)' = InBase(u)
<1>1. TypeOK /\ WireInv /\ QueueInv /\ FramesInv /\ LogInv
  BY DEF IntentInv
<1>2. /\ Len(log) \in Nat /\ DOMAIN log = 1..Len(log) /\ nextExpected[u] \in Nat
      /\ nextExpected[u] <= Len(log) + 1
  BY <1>1, Numbers DEF WireInv, Expecting
<1>3. \A i \in 1..(nextExpected[u] - 1) : i \in DOMAIN log
  BY <1>2
<1>4. \A i \in 1..(nextExpected[u] - 1) : log'[i] = log[i]
  BY <1>1, <1>3, LogStep
<1>5. Intents(u) \subseteq Intents(u)' /\ Intents(u)' \subseteq Nat \ {0}
  <2>1. dispatched'[u] \in Nat
    BY DEF TypeOK
  <2> QED BY <1>1, <2>1, IntentsGrow DEF Intents
<1>6. ASSUME NEW n \in Intents(u)', NEW i \in 1..(nextExpected[u] - 1), log[i].intent = <<u, n>>
      PROVE  n \in Intents(u)
  BY <1>1, <1>3, <1>5, <1>6 DEF LogInv
<1> QED BY <1>4, <1>5, <1>6 DEF InBase, IntentsIn, Intents

Unanswered(t) ==
  /\ Range(pending[t]) = Intents(t) \ (InBase(t) \cup rejected[t])
  /\ Sorted(pending[t])

LEMMA PendingIs == PendingIsUnanswered <=> \A t \in Tabs : Aligned(t) => Unanswered(t)
BY DEF PendingIsUnanswered, Unanswered, Sorted

LEMMA PendingIsNext == PendingIsUnanswered' <=> \A t \in Tabs : Aligned(t)' => Unanswered(t)'
BY DEF PendingIsUnanswered, Unanswered, Sorted

(* The steps of the server, of the sockets and of other sessions leave a   *)
(* session's predictions, its base and its answers alone.                  *)
LEMMA PendingMoves ==
  ASSUME IntentInv, [Next]_vars, NEW u \in Tabs
  PROVE  \/ /\ nextExpected'[u] = nextExpected[u] /\ pending'[u] = pending[u]
            /\ rejected'[u] = rejected[u] /\ Intents(u)' = Intents(u)
         \/ Dispatch(u) \/ ClientEvent(u) \/ ClientReject(u)
<1>1. /\ nextExpected \in [Tabs -> Nat \ {0}] /\ pending \in [Tabs -> Seq(Nat \ {0})]
      /\ rejected \in [Tabs -> SUBSET (Nat \ {0})] /\ dispatched \in [Tabs -> Nat]
  BY DEF IntentInv, TypeOK
<1>2. ASSUME NEW t \in Tabs, HandleFrame(t), u # t
      PROVE  /\ nextExpected'[u] = nextExpected[u] /\ pending'[u] = pending[u]
             /\ rejected'[u] = rejected[u] /\ Intents(u)' = Intents(u)
  <2>1. dispatched' = dispatched
    BY <1>2 DEF HandleFrame, ClientWelcome, ClientEvent, ClientResyncEnd, ClientReject, Take
  <2>2. nextExpected'[u] = nextExpected[u]
    BY <1>1, <1>2, Advances DEF IntentInv
  <2>3. pending' = pending \/ \E s : pending' = [pending EXCEPT ![t] = s]
    <3>1. CASE ClientEvent(t)
      BY <3>1 DEF ClientEvent, Confirm
    <3>2. CASE ClientReject(t)
      BY <3>2 DEF ClientReject
    <3>3. CASE ClientWelcome(t) \/ ClientResyncEnd(t)
      BY <3>3 DEF ClientWelcome, ClientResyncEnd
    <3> QED BY <1>2, <3>1, <3>2, <3>3 DEF HandleFrame
  <2>4. rejected' = rejected \/ \E X : rejected' = [rejected EXCEPT ![t] = X]
    BY <1>2 DEF HandleFrame, ClientWelcome, ClientEvent, ClientResyncEnd, ClientReject
  <2>5. pending'[u] = pending[u]
    BY <1>1, <1>2, <2>3
  <2>6. rejected'[u] = rejected[u]
    BY <1>1, <1>2, <2>4
  <2> QED BY <2>1, <2>2, <2>5, <2>6 DEF Intents
<1>3. CASE ClientWelcome(u)
  BY <1>3 DEF ClientWelcome, Take, Intents
<1>4. CASE ClientResyncEnd(u)
  <2>1. Head(down[u]).type = "resync_end" /\ HandleFrame(u)
    BY <1>4 DEF ClientResyncEnd, Take, HandleFrame
  <2>2. nextExpected' = nextExpected
    BY <2>1, Advances, FrameIs DEF IntentInv
  <2> QED BY <1>4, <2>2 DEF ClientResyncEnd, Take, Intents
<1>5. ASSUME NEW t \in Tabs, Dispatch(t), u # t
      PROVE  /\ nextExpected'[u] = nextExpected[u] /\ pending'[u] = pending[u]
             /\ rejected'[u] = rejected[u] /\ Intents(u)' = Intents(u)
  <2>1. UNCHANGED <<nextExpected, rejected>>
    BY <1>5 DEF Dispatch
  <2>2. pending'[u] = pending[u]
    BY <1>1, <1>5 DEF Dispatch
  <2>3. dispatched'[u] = dispatched[u]
    BY <1>1, <1>5 DEF Dispatch
  <2> QED BY <2>1, <2>2, <2>3 DEF Intents
<1>6. UNCHANGED <<nextExpected, pending, rejected, dispatched>>
      \/ \E t \in Tabs : Dispatch(t) \/ HandleFrame(t)
  <2>1. CASE \E a \in Accounts : OtherCommand(a)
    BY <2>1 DEF OtherCommand, client
  <2>2. CASE \E t \in Tabs : Connect(t) \/ Disconnect(t) \/ Egress(t)
    BY <2>2 DEF Connect, Disconnect, Egress, Welcome, EgressReject, EgressResync, EgressEvent,
                client
  <2>3. CASE \E t \in Tabs : \E g \in Sockets : FramesLost(t, g) \/ Ingress(t, g)
    BY <2>3 DEF FramesLost, Ingress, IngressCommits, IngressRejects, IngressResync, client
  <2>4. CASE UNCHANGED vars
    BY <2>4 DEF vars, client
  <2> QED BY <2>1, <2>2, <2>3, <2>4 DEF Next
<1> QED BY <1>2, <1>3, <1>4, <1>5, <1>6 DEF HandleFrame, Intents

LEMMA PendingDispatch ==
  ASSUME IntentInv, [Next]_vars, TypeOK', NEW t \in Tabs, Dispatch(t), Unanswered(t)
  PROVE  Unanswered(t)'
<1>1. PICK d : d = NextId(t)
  OBVIOUS
<1>2. /\ dispatched[t] \in Nat /\ d = dispatched[t] + 1 /\ dispatched' = [dispatched EXCEPT ![t] = d]
      /\ pending \in [Tabs -> Seq(Nat \ {0})] /\ dispatched \in [Tabs -> Nat]
      /\ UNCHANGED <<nextExpected, rejected>>
      /\ pending' = [pending EXCEPT ![t] = Append(pending[t], d)]
  BY <1>1 DEF Dispatch, IntentInv, TypeOK, NextId
<1>3. /\ d \in Nat \ {0} /\ Intents(t)' = Intents(t) \cup {d} /\ d \notin Intents(t)
      /\ \A n \in Intents(t) : n < d
  <2>1. d \in Nat \ {0} /\ dispatched'[t] = d
    BY <1>2
  <2>2. 1..d = (1..dispatched[t]) \cup {d} /\ \A n \in 1..dispatched[t] : n < d
    BY <1>2, <2>1
  <2>3. d \notin 1..dispatched[t]
    BY <1>2
  <2> QED BY <2>1, <2>2, <2>3 DEF Intents
<1>4. InBase(t)' = InBase(t) /\ InBase(t) \subseteq Intents(t)
  BY <1>2, BaseKept DEF InBase, IntentsIn, Intents
<1>5. rejected[t] \subseteq Intents(t)
  BY DEF IntentInv, RepliesInv
<1>6. pending[t] \in Seq(Nat \ {0}) /\ pending'[t] = Append(pending[t], d)
  BY <1>2
<1>7. \A x \in Range(pending[t]) : x < d
  BY <1>3 DEF Unanswered
<1>8. Range(pending'[t]) = Range(pending[t]) \cup {d} /\ Sorted(pending'[t])
  <2>1. PICK S \in SUBSET Nat : S = Nat \ {0}
    OBVIOUS
  <2>2. PICK p \in Seq(S) : p = pending[t]
    BY <1>6, <2>1
  <2>3. Sorted(p) /\ d \in S /\ \A x \in Range(p) : x < d
    BY <1>3, <1>7, <2>1, <2>2 DEF Unanswered
  <2>4. Range(Append(p, d)) = Range(p) \cup {d} /\ Sorted(Append(p, d))
    BY <2>3, OneMore
  <2> QED BY <1>6, <2>2, <2>4
<1> QED BY <1>2, <1>3, <1>4, <1>5, <1>8 DEF Unanswered

LEMMA PendingReject ==
  ASSUME IntentInv, [Next]_vars, TypeOK', NEW t \in Tabs, ClientReject(t), Unanswered(t)
  PROVE  Unanswered(t)'
<1>1. PICK n : n = Head(down[t]).arg
  OBVIOUS
<1>2. /\ rejected \in [Tabs -> SUBSET (Nat \ {0})] /\ pending \in [Tabs -> Seq(Nat \ {0})]
      /\ rejected' = [rejected EXCEPT ![t] = rejected[t] \cup {n}]
      /\ UNCHANGED <<nextExpected, dispatched>>
      /\ \/ FindIndex(pending[t], n) = {} /\ UNCHANGED pending
         \/ \E i \in FindIndex(pending[t], n) :
              pending' = [pending EXCEPT ![t] = Splice(pending[t], i)]
  BY <1>1 DEF ClientReject, Take, IntentInv, TypeOK
<1>3. /\ rejected'[t] = rejected[t] \cup {n} /\ Intents(t)' = Intents(t)
      /\ InBase(t)' = InBase(t)
  <2>1. InBase(t)' = InBase(t)
    BY <1>2, BaseKept
  <2> QED BY <1>2, <2>1 DEF Intents
<1>4. Len(pending[t]) \in Nat /\ DOMAIN pending[t] = 1..Len(pending[t])
  BY <1>2, LenProperties
<1>5. CASE FindIndex(pending[t], n) = {} /\ UNCHANGED pending
  <2>1. n \notin Range(pending[t])
    <3> SUFFICES ASSUME NEW i \in DOMAIN pending[t], pending[t][i] = n PROVE FALSE
      BY DEF Range
    <3>1. \A j \in DOMAIN pending[t] : pending[t][j] \in Nat
      BY <1>2, <1>4, ElementOfSeq
    <3>2. \A j \in DOMAIN pending[t] : j < i => pending[t][j] # n
      BY <3>1 DEF Unanswered, Sorted
    <3> QED BY <1>5, <3>2 DEF FindIndex
  <2> QED BY <1>3, <1>5, <2>1 DEF Unanswered
<1>6. ASSUME NEW i \in FindIndex(pending[t], n),
             pending' = [pending EXCEPT ![t] = Splice(pending[t], i)]
      PROVE  Unanswered(t)'
  <2>1. i \in DOMAIN pending[t] /\ pending[t][i] = n
    BY DEF FindIndex
  <2>2. pending[t] \in Seq(Nat \ {0}) /\ pending'[t] = Splice(pending[t], i)
    BY <1>2, <1>6
  <2>3. Range(pending'[t]) = Range(pending[t]) \ {n} /\ Sorted(pending'[t])
    <3>1. (Nat \ {0}) \in SUBSET Nat
      OBVIOUS
    <3> QED BY <2>1, <2>2, <3>1, OneGone DEF Unanswered
  <2> QED BY <1>3, <2>3 DEF Unanswered
<1> QED BY <1>2, <1>5, <1>6

(* The next event: if it is of this account, it is the echo of the oldest  *)
(* prediction.                                                             *)
LEMMA PendingEvent ==
  ASSUME IntentInv, OrderInv, OvertakeInv, [Next]_vars, TypeOK', NEW t \in Tabs, ClientEvent(t),
         Aligned(t), Unanswered(t)
  PROVE  Unanswered(t)'
<1>1. /\ TypeOK /\ WireInv /\ QueueInv /\ FramesInv /\ RepliesInv /\ LogInv /\ AnswersInv
  BY DEF IntentInv
<1>2. PICK n : n = Head(down[t]).arg
  OBVIOUS
<1>3. /\ Take(t, "event") /\ rejected' = rejected /\ dispatched' = dispatched /\ log' = log
      /\ nextExpected \in [Tabs -> Nat \ {0}] /\ pending \in [Tabs -> Seq(Nat \ {0})]
      /\ \/ UNCHANGED <<nextExpected, pending>>
         \/ /\ n = nextExpected[t] /\ Confirm(t, log[n])
            /\ nextExpected' = [nextExpected EXCEPT ![t] = n + 1]
  BY <1>1, <1>2 DEF ClientEvent, Take, TypeOK
<1>4. Intents(t)' = Intents(t) /\ Intents(t) \subseteq Nat \ {0}
  BY <1>1, <1>3, IntentsGrow DEF Intents
<1>5. CASE UNCHANGED <<nextExpected, pending>>
  <2>1. InBase(t)' = InBase(t)
    BY <1>5, BaseKept
  <2> QED BY <1>3, <1>4, <1>5, <2>1 DEF Unanswered
<1>6. CASE /\ n = nextExpected[t] /\ Confirm(t, log[n])
           /\ nextExpected' = [nextExpected EXCEPT ![t] = n + 1]
  <2>1. /\ 1 \in DOMAIN down[t] /\ down[t][1] = Head(down[t]) /\ down[t][1].type = "event"
        /\ down[t][1].arg = n
        /\ DOMAIN down[t] = 1..Len(down[t]) /\ Len(down[t]) \in Nat
    BY <1>1, <1>2, <1>3, Taken
  <2>2. n \in 1..Len(log) /\ DOMAIN log = 1..Len(log) /\ Len(log) \in Nat /\ n \in DOMAIN log
    <3>1. n \in 1..Len(log)
      BY <1>1, <2>1 DEF WireInv, Arriving
    <3> QED BY <1>1, <3>1, Numbers
  <2>3. nextExpected'[t] = n + 1 /\ (n + 1) - 1 = n
    BY <1>3, <1>6, <2>2
  <2>4. InBase(t) = IntentsIn(t, 1, n - 1) /\ InBase(t)' = IntentsIn(t, 1, n)
    <3>1. InBase(t) = IntentsIn(t, 1, n - 1)
      BY <1>6 DEF InBase
    <3>2. InBase(t)' = {m \in Intents(t) : \E i \in 1..((n + 1) - 1) : log[i].intent = <<t, m>>}
      BY <1>3, <1>4, <2>3 DEF InBase, IntentsIn, Intents
    <3> QED BY <2>3, <3>1, <3>2 DEF IntentsIn, Intents
  <2>5. \A m : m \in InBase(t)' <=>
          m \in InBase(t) \/ (m \in Intents(t) /\ log[n].intent = <<t, m>>)
    <3>1. \A i : i \in 1..n <=> i \in 1..(n - 1) \/ i = n
      BY <2>2
    <3> QED BY <2>4, <3>1 DEF IntentsIn, Intents
  <2>6. pending[t] \in Seq(Nat \ {0})
    BY <1>3
  <2>7. CASE log[n].author # Self
    <3>1. \A m \in Intents(t) : log[n].intent # <<t, m>>
      BY <1>1, <1>4, <2>2, <2>7 DEF LogInv
    <3>2. InBase(t)' = InBase(t)
      BY <2>5, <3>1
    <3>3. pending' = pending
      BY <1>6, <2>7 DEF Confirm
    <3> QED BY <1>3, <1>4, <3>2, <3>3 DEF Unanswered
  <2>8. CASE log[n].author = Self
    <3>1. PICK k \in Intents(t) : log[n].intent = <<t, k>>
      BY <2>2, <2>8 DEF Aligned, Foreign
    <3>2. k \in Committed(t)
      BY <1>1, <2>2, <3>1, CommittedIs
    <3>3. /\ \A m \in Unread(t) : k < m
          /\ \A i, j \in DOMAIN log : \A l, m \in Intents(t) :
               i < j /\ log[i].intent = <<t, l>> /\ log[j].intent = <<t, m>> => l < m
      BY <3>2 DEF Aligned, OrderInv
    <3>4. Behind(t, 1, k)
      BY <2>1, <3>1 DEF Aligned, OvertakeInv, Behind
    <3>5. k \notin InBase(t)
      <4> SUFFICES ASSUME NEW i \in 1..(n - 1), log[i].intent = <<t, k>> PROVE FALSE
        BY <2>4 DEF IntentsIn
      <4>1. i \in DOMAIN log /\ i < n
        BY <2>2
      <4>2. k < k
        BY <2>2, <3>1, <3>3, <4>1
      <4> QED BY <1>4, <4>2
    <3>6. k \notin rejected[t]
      BY <1>1, <3>2 DEF AnswersInv
    <3>7. k \in Range(pending[t])
      BY <3>5, <3>6 DEF Unanswered
    <3>8. ASSUME NEW m \in Range(pending[t]), m < k PROVE FALSE
      <4>1. m \in Intents(t) /\ m \notin InBase(t) /\ m \notin rejected[t]
        BY DEF Unanswered
      <4>2. m \in Nat /\ k \in Nat /\ ~(k < m)
        BY <1>4, <3>8, <4>1
      <4>3. m \notin Unread(t)
        BY <3>3, <4>2
      <4>4. m \notin Refused(t)
        BY <3>4, <4>2 DEF Behind
      <4>5. ~Returning(t, m)
        <5> SUFFICES ASSUME NEW j \in DOMAIN down[t], down[t][j] = Frame("reject", m) PROVE FALSE
          BY DEF Returning
        <5>1. down[t][j].type = "reject" /\ down[t][j].arg = m
          BY FrameIs
        <5>2. j # 1 /\ 1 < j
          BY <2>1, <5>1
        <5> QED BY <3>4, <4>2, <5>1, <5>2 DEF Behind
      <4>6. m \notin Committed(t)
        <5> SUFFICES ASSUME NEW i \in DOMAIN log, log[i].intent = <<t, m>> PROVE FALSE
          BY <1>1, CommittedIs
        <5>1. i \in 1..Len(log)
          BY <2>2
        <5>2. CASE i < n
          <6>1. i \in 1..(n - 1)
            BY <2>2, <5>1, <5>2
          <6> QED BY <2>4, <4>1, <6>1 DEF IntentsIn, Intents
        <5>3. CASE i = n
          <6>1. m = k
            BY <3>1, <5>3
          <6> QED BY <3>8, <4>2, <6>1
        <5>4. CASE n < i
          BY <2>2, <3>1, <3>3, <4>1, <4>2, <5>4
        <5> QED BY <2>2, <5>1, <5>2, <5>3, <5>4
      <4>7. m \notin Rejecting(t)
        BY <4>4, <4>5 DEF Rejecting, Returning, Range
      <4> QED BY <4>1, <4>3, <4>6, <4>7 DEF Aligned, Lost
    <3>9. pending[t] # <<>>
      BY <3>7 DEF Range
    <3>10. pending'[t] = Tail(pending[t])
      BY <1>3, <1>6, <2>8, <3>9 DEF Confirm
    <3>11. /\ Range(pending'[t]) = Range(pending[t]) \ {k} /\ Sorted(pending'[t])
      <4>1. PICK S \in SUBSET Nat : S = Nat \ {0}
        OBVIOUS
      <4>2. PICK p \in Seq(S) : p = pending[t] /\ p # <<>>
        BY <2>6, <3>9, <4>1
      <4>3. /\ Range(Tail(p)) = Range(p) \ {Head(p)} /\ Sorted(Tail(p))
            /\ Head(p) \in Range(p) /\ \A x \in Range(p) : Head(p) = x \/ Head(p) < x
        BY <4>2, HeadGone DEF Unanswered
      <4>4. Head(p) = k
        BY <3>7, <3>8, <4>2, <4>3
      <4> QED BY <3>10, <4>2, <4>3, <4>4
    <3>12. \A m : m \in InBase(t)' <=> m \in InBase(t) \/ m = k
      BY <2>5, <3>1
    <3> QED BY <1>3, <1>4, <3>11, <3>12 DEF Unanswered
  <2> QED BY <2>7, <2>8
<1> QED BY <1>3, <1>5, <1>6

LEMMA PendingStep ==
  ASSUME IntentInv, OrderInv, OvertakeInv, PendingIsUnanswered, [Next]_vars, TypeOK'
  PROVE  PendingIsUnanswered'
<1> SUFFICES ASSUME NEW t \in Tabs, Aligned(t)' PROVE Unanswered(t)'
  BY PendingIsNext
<1>1. Aligned(t) /\ Unanswered(t)
  BY AlignedBefore, PendingIs
<1>2. CASE /\ nextExpected'[t] = nextExpected[t] /\ pending'[t] = pending[t]
           /\ rejected'[t] = rejected[t] /\ Intents(t)' = Intents(t)
  <2>1. InBase(t)' = InBase(t)
    BY <1>2, BaseKept
  <2> QED BY <1>1, <1>2, <2>1 DEF Unanswered
<1> QED BY <1>1, <1>2, PendingMoves, PendingDispatch, PendingEvent, PendingReject

PendingInv == IntentInv /\ OrderInv /\ OvertakeInv /\ PendingIsUnanswered

LEMMA PendingInvInit == Init => PendingInv
<1> SUFFICES ASSUME Init PROVE PendingInv
  OBVIOUS
<1>1. IntentInv
  BY IntentInvInit
<1>2. DOMAIN log = {}
  BY DEF Init
<1>3. ASSUME NEW t \in Tabs
      PROVE  /\ DOMAIN down[t] = {} /\ DOMAIN pending[t] = {} /\ Intents(t) = {}
  BY DEF Init, Intents
<1>4. OrderInv
  BY <1>1, <1>2, CommittedIs DEF OrderInv, IntentInv
<1>5. OvertakeInv
  BY <1>3 DEF OvertakeInv
<1>6. PendingIsUnanswered
  BY <1>3 DEF PendingIsUnanswered, Range
<1> QED BY <1>1, <1>4, <1>5, <1>6 DEF PendingInv

LEMMA PendingInvStep == PendingInv /\ [Next]_vars => PendingInv'
<1> SUFFICES ASSUME PendingInv, [Next]_vars PROVE PendingInv'
  OBVIOUS
<1>1. IntentInv /\ OrderInv /\ OvertakeInv /\ PendingIsUnanswered
  BY DEF PendingInv
<1>2. IntentInv' /\ TypeOK'
  <2>1. IntentInv'
    BY <1>1, IntentInvStep
  <2> QED BY <2>1 DEF IntentInv
<1> QED BY <1>1, <1>2, OrderStep, OvertakeStep, PendingStep DEF PendingInv

(* As long as no socket took an intent or its answer with it, the account  *)
(* has committed nothing else, commits came in the order of dispatch and   *)
(* no replay overtook a Reject, OptimisticClient.pending is exactly what   *)
(* the session dispatched and has neither in base nor refused, in order:   *)
(* the confirmations applyCommand counts off by author fall on the         *)
(* intents they complete.                                                  *)
THEOREM PendingUnansweredAlways == Spec => []PendingIsUnanswered
<1>1. PendingInv => PendingIsUnanswered
  BY DEF PendingInv
<1> QED BY <1>1, PendingInvInit, PendingInvStep, PTL DEF Spec

=============================================================================
