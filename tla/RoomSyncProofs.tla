--------------------------- MODULE RoomSyncProofs ---------------------------
(***************************************************************************)
(* Proofs about RoomSync, for every number of clients, accounts, commits,  *)
(* dropped publishes, reconnects and restarts and every size of the ring   *)
(* and the broadcast.  The argument has three layers: the room (types, the *)
(* ring, the order of commit_ops_locked's steps), the watermarks, and what *)
(* the frames in flight to a client will do to it.  It ends in the         *)
(* refinement.                                                             *)
(***************************************************************************)
EXTENDS RoomSyncStream, SequenceTheorems, WellFoundedInduction, TLAPS

(* The newest seq whose publish is over, sent or dropped.                  *)
Sent == IF commit = "idle" THEN events ELSE events - 1

(* Layer one: where the atomic stands in each step of a publish, and that  *)
(* only dropped publishes lie between it and the log.                      *)
CommitSteps ==
  /\ commit # "idle" => events > 0
  /\ current_seq <= events
  /\ commit \in {"stored", "pushed"} => current_seq < events
  /\ commit = "visible" => current_seq = events
  /\ \A n \in (current_seq + 1)..Sent : n \in dropped

Started == \A c \in Clients : sess[c] = "live" => next_expected[c] > 0

RoomInv == TypeOK /\ RingLacksOnlyDropped /\ CommitSteps /\ Started

-----------------------------------------------------------------------------
Rising(s) == \A i, j \in 1..Len(s) : i < j => s[i] < s[j]

(* Of from..last, s lacks only members of D.                               *)
Covers(s, from, last, D) == \A n \in from..last : Holds(s, n) \/ n \in D

LEMMA LeastOf ==
  ASSUME NEW T, T \subseteq Nat, T # {}
  PROVE  \E x \in T : \A y \in T : x <= y
<1>1. PICK x \in T : \A y \in T : ~(<<y, x>> \in OpToRel(<, Nat))
  BY WFMin, NatLessThanWellFounded, Zenon
<1>2. \A y \in T : <<y, x>> \in Nat \X Nat OBVIOUS
<1>3. \A y \in T : ~(y < x) BY <1>1, <1>2, Zenon DEF OpToRel
<1>4. \A y \in T : y \in Nat /\ x \in Nat OBVIOUS
<1>5. QED BY <1>3, <1>4

(* In a rising sequence, a later place holds a later event.                *)
LEMMA RisingPlaces ==
  ASSUME NEW s \in Seq(Nat), Rising(s), NEW i \in 1..Len(s), NEW j \in 1..Len(s)
  PROVE  /\ s[i] \in Nat /\ s[j] \in Nat
         /\ i <= j <=> s[i] <= s[j]
<1>1. s[i] \in Nat /\ s[j] \in Nat BY ElementOfSeq
<1>2. i < j => s[i] < s[j] BY DEF Rising
<1>3. j < i => s[j] < s[i] BY DEF Rising
<1>4. QED BY <1>1, <1>2, <1>3

(* push keeps the ring rising up to the event just pushed, at most RingCap *)
(* long, lacking from its oldest resident on only what was dropped.        *)
LEMMA PushRingCovers ==
  ASSUME NEW r \in Seq(Nat), NEW last \in Nat, NEW n \in Nat, last < n, NEW D,
         Rising(r), r # <<>> => r[Len(r)] = last /\ Covers(r, r[1], last, D),
         \A x \in (last + 1)..(n - 1) : x \in D,
         NEW s \in PushRing(r, n)
  PROVE  /\ s \in Seq(Nat) /\ Len(s) <= RingCap /\ Rising(s)
         /\ s # <<>> /\ s[Len(s)] = n
         /\ Covers(s, s[1], n, D)
<1> DEFINE a == Append(r, n)
<1>1. PICK k \in 1..MinOf(Len(r) + 1, RingCap) : s = SubSeq(a, Len(r) + 2 - k, Len(r) + 1)
  BY DEF PushRing
<1>2. k \in Nat /\ 1 <= k /\ k <= Len(r) + 1 /\ k <= RingCap
  BY <1>1, ConstantsOK DEF MinOf
<1>3. PICK l \in Nat : l = Len(r) OBVIOUS
<1>4. /\ a \in Seq(Nat) /\ Len(a) = l + 1
      /\ \A i \in 1..l : a[i] = r[i]
      /\ a[l + 1] = n
  BY <1>3, AppendProperties
<1> HIDE DEF a
<1>5. PICK d \in Nat : d = l + 1 - k /\ d <= l
  <2>1. l + 1 - k \in Nat /\ l + 1 - k <= l BY <1>2, <1>3
  <2>2. QED BY <2>1
<1>6. /\ s \in Seq(Nat) /\ Len(s) = k
      /\ \A i \in 1..k : s[i] = a[d + i]
  <2>1. \A i \in (d + 1)..(l + 1) : a[i] \in Nat
    BY <1>4, <1>5, ElementOfSeq
  <2>2. s = SubSeq(a, d + 1, l + 1) BY <1>1, <1>3, <1>5
  <2>3. /\ s \in Seq(Nat) /\ Len(s) = (l + 1) - (d + 1) + 1
        /\ \A i \in 1..((l + 1) - (d + 1) + 1) : s[i] = a[(d + 1) + i - 1]
    BY <1>4, <1>5, <2>1, <2>2, SubSeqProperties
  <2>4. QED BY <1>2, <1>5, <2>3
<1>7. \A i \in 1..l : r[i] \in Nat /\ r[i] <= last
  <2> SUFFICES ASSUME NEW i \in 1..l PROVE r[i] \in Nat /\ r[i] <= last OBVIOUS
  <2>1. r # <<>> /\ l \in 1..l BY <1>3
  <2>2. r[l] = last BY <1>3, <2>1
  <2>3. QED BY <1>3, <2>1, <2>2, RisingPlaces
<1>8. Rising(s)
  <2> SUFFICES ASSUME NEW i \in 1..k, NEW j \in 1..k, i < j PROVE s[i] < s[j]
    BY <1>6 DEF Rising
  <2>1. d + i \in 1..l /\ s[i] = r[d + i] BY <1>4, <1>5, <1>6
  <2>2. CASE j = k
    <3>1. s[j] = n BY <1>4, <1>5, <1>6, <2>2
    <3>2. QED BY <1>7, <2>1, <3>1
  <2>3. CASE j # k
    <3>1. d + j \in 1..l /\ s[j] = r[d + j] BY <1>4, <1>5, <1>6, <2>3
    <3>2. QED BY <1>3, <2>1, <3>1 DEF Rising
  <2>4. QED BY <2>2, <2>3
<1>9. s[k] = n BY <1>2, <1>4, <1>5, <1>6
<1>10. ASSUME NEW x \in s[1]..n PROVE Holds(s, x) \/ x \in D
  <2>1. CASE x = n
    <3>1. k \in 1..Len(s) BY <1>2, <1>6
    <3>2. QED BY <1>9, <2>1, <3>1 DEF Holds
  <2>2. CASE x # n /\ x > last BY <2>2
  <2>3. CASE x <= last
    <3>1. s[1] \in Nat /\ s[1] <= x BY <1>2, <1>6, ElementOfSeq
    <3>2. k # 1 BY <1>9, <2>3, <3>1
    <3>3. d + 1 \in 1..l /\ s[1] = r[d + 1] BY <1>2, <1>4, <1>5, <1>6, <3>2
    <3>4. 1 \in 1..l /\ r # <<>> BY <1>3, <3>3
    <3>5. r[1] \in Nat /\ r[1] <= r[d + 1] BY <1>3, <3>3, <3>4, RisingPlaces
    <3>6. x \in r[1]..last BY <2>3, <3>1, <3>3, <3>5
    <3>7. Holds(r, x) \/ x \in D BY <3>4, <3>6 DEF Covers
    <3>8. ASSUME NEW i \in 1..Len(r), r[i] = x PROVE Holds(s, x)
      <4>1. r[d + 1] <= r[i] BY <3>1, <3>3, <3>8
      <4>2. d + 1 <= i BY <1>3, <3>3, <4>1, RisingPlaces
      <4>3. i - d \in 1..k /\ d + (i - d) = i BY <1>2, <1>3, <1>5, <4>2
      <4>4. s[i - d] = r[i] BY <1>3, <1>4, <1>6, <4>3
      <4>5. QED BY <1>6, <3>8, <4>3, <4>4 DEF Holds
    <3>9. QED BY <3>7, <3>8 DEF Holds
  <2>4. QED BY <2>1, <2>2, <2>3
<1>11. s # <<>> BY <1>2, <1>6
<1>12. QED BY <1>2, <1>6, <1>8, <1>9, <1>10, <1>11 DEF Covers

(* Where the residents at or after `from` start.                           *)
LEMMA FirstFromPlace ==
  ASSUME NEW r \in Seq(Nat), Rising(r), NEW from \in Nat
  PROVE  /\ FirstFrom(r, from) \in 1..(Len(r) + 1)
         /\ \A j \in 1..(FirstFrom(r, from) - 1) : r[j] < from
         /\ \A j \in FirstFrom(r, from)..Len(r) : r[j] >= from
<1> DEFINE T == {i \in 1..(Len(r) + 1) : i = Len(r) + 1 \/ r[i] >= from}
<1>1. PICK l \in Nat : l = Len(r) OBVIOUS
<1>2. T \subseteq Nat /\ l + 1 \in T BY <1>1
<1>3. PICK k \in T : \A y \in T : k <= y BY <1>2, LeastOf
<1>4. k \in 1..(l + 1) BY <1>1, <1>3
<1>5. ASSUME NEW j \in 1..(k - 1) PROVE r[j] < from
  <2>1. j \in 1..l /\ j < k BY <1>4
  <2>2. r[j] \in Nat BY <1>1, <2>1, ElementOfSeq
  <2>3. j \notin T BY <1>3, <2>1
  <2>4. QED BY <1>1, <2>1, <2>2, <2>3
<1>6. ASSUME NEW j \in k..Len(r) PROVE r[j] >= from
  <2>1. j \in 1..l /\ k \in 1..l BY <1>1, <1>4
  <2>2. r[k] >= from BY <1>1, <1>3, <2>1
  <2>3. r[k] <= r[j] /\ r[k] \in Nat /\ r[j] \in Nat BY <1>1, <2>1, RisingPlaces
  <2>4. QED BY <2>2, <2>3
<1>7. \E i \in 1..(Len(r) + 1) :
         /\ \A j \in 1..(i - 1) : r[j] < from
         /\ \A j \in i..Len(r) : r[j] >= from
  BY <1>1, <1>4, <1>5, <1>6
<1>8. QED BY <1>7 DEF FirstFrom

(* What a resync range sends: rising events of from..to, lacking only      *)
(* members of D, ending at `to` if there are any.                          *)
Reply(s, from, to, D) ==
  /\ s \in Seq(Nat) /\ Rising(s)
  /\ \A i \in 1..Len(s) : s[i] \in from..to
  /\ Covers(s, from, to, D)
  /\ to = ReplayTo(from, s)

(* range_from on such a ring.                                              *)
LEMMA RangeFromReplies ==
  ASSUME NEW r \in Seq(Nat), Rising(r), NEW from \in Nat \ {0}, NEW last \in Nat, NEW D,
         Resident(r, from), r[Len(r)] = last, Covers(r, r[1], last, D)
  PROVE  \E to \in Nat : /\ Reply(RangeFrom(r, from), from, to, D)
                         /\ to = IF from > last THEN from - 1 ELSE last
<1>1. PICK l \in Nat \ {0} : l = Len(r) BY EmptySeq DEF Resident
<1>2. PICK k \in 1..(l + 1) :
        /\ k = FirstFrom(r, from)
        /\ \A j \in 1..(k - 1) : r[j] < from
        /\ \A j \in k..l : r[j] >= from
  BY <1>1, FirstFromPlace
<1>3. PICK s : s = RangeFrom(r, from) /\ s = SubSeq(r, k, l) BY <1>1, <1>2 DEF RangeFrom
<1>4. \A i \in 1..l : r[i] \in Nat /\ r[i] <= last
  <2> SUFFICES ASSUME NEW i \in 1..l PROVE r[i] \in Nat /\ r[i] <= last OBVIOUS
  <2>1. l \in 1..l OBVIOUS
  <2>2. QED BY <1>1, <2>1, RisingPlaces
<1>5. PICK d \in Nat : d = k - 1 /\ d <= l BY <1>2
<1>6. /\ s \in Seq(Nat) /\ Len(s) = l - d
      /\ \A i \in 1..(l - d) : s[i] = r[d + i]
  <2>1. \A i \in k..l : r[i] \in Nat BY <1>2, <1>4
  <2>2. /\ s \in Seq(Nat)
        /\ Len(s) = IF k <= l THEN l - k + 1 ELSE 0
        /\ \A i \in 1..(l - k + 1) : s[i] = r[k + i - 1]
    BY <1>1, <1>2, <1>3, <2>1, SubSeqProperties
  <2>3. QED BY <1>5, <2>2
<1>7. ASSUME NEW i \in 1..Len(s) PROVE d + i \in k..l /\ s[i] = r[d + i] /\ s[i] \in from..last
  <2>1. d + i \in k..l /\ s[i] = r[d + i] BY <1>5, <1>6
  <2>2. r[d + i] >= from /\ d + i \in 1..l BY <1>2, <2>1
  <2>3. r[d + i] \in Nat /\ r[d + i] <= last BY <1>4, <2>2
  <2>4. QED BY <2>1, <2>2, <2>3
<1>8. Rising(s)
  <2> SUFFICES ASSUME NEW i \in 1..Len(s), NEW j \in 1..Len(s), i < j PROVE s[i] < s[j]
    BY DEF Rising
  <2>1. d + i \in k..l /\ s[i] = r[d + i] /\ d + j \in k..l /\ s[j] = r[d + j] BY <1>7
  <2>2. d + i \in 1..l /\ d + j \in 1..l
    <3>1. \A x \in k..l : x \in 1..l BY <1>2
    <3>2. QED BY <2>1, <3>1
  <2>3. i \in Nat /\ j \in Nat BY <1>6
  <2>4. d + i < d + j BY <2>3
  <2>5. QED BY <1>1, <2>1, <2>2, <2>4 DEF Rising
<1>9. ASSUME NEW x \in from..last PROVE Holds(s, x) \/ x \in D
  <2>1. 1 \in 1..l /\ r[1] <= from BY DEF Resident
  <2>2. r[1] \in Nat BY <1>4, <2>1
  <2>3. x \in r[1]..last BY <2>1, <2>2
  <2>4. Holds(r, x) \/ x \in D BY <2>3 DEF Covers
  <2>5. ASSUME NEW i \in 1..Len(r), r[i] = x PROVE Holds(s, x)
    <3>1. ~(i <= d) BY <1>1, <1>2, <1>5, <2>5
    <3>2. i - d \in 1..(l - d) /\ d + (i - d) = i BY <1>1, <1>5, <3>1
    <3>3. QED BY <1>6, <2>5, <3>2 DEF Holds
  <2>6. QED BY <2>4, <2>5 DEF Holds
<1>10. CASE from > last
  <2>1. s = <<>>
    <3>1. ASSUME Len(s) # 0 PROVE FALSE
      <4>1. 1 \in 1..Len(s) BY <1>6, <3>1
      <4>2. s[1] \in from..last BY <1>7, <4>1
      <4>3. QED BY <1>10, <4>2
    <3>2. QED BY <1>6, <3>1, EmptySeq
  <2>2. ReplayTo(from, s) = from - 1 BY <2>1 DEF ReplayTo
  <2>3. Len(s) = 0 BY <2>1
  <2>4. Reply(s, from, from - 1, D) BY <1>6, <1>8, <2>2, <2>3 DEF Reply, Covers
  <2>5. QED BY <1>3, <1>10, <2>4
<1>11. CASE ~(from > last)
  <2>1. k <= l
    <3>1. l \in 1..l OBVIOUS
    <3>2. k = l + 1 => r[l] < from BY <1>2, <3>1
    <3>3. QED BY <1>1, <1>11, <3>2
  <2>2. Len(s) \in 1..Len(s) /\ d + Len(s) = l BY <1>5, <1>6, <2>1
  <2>3. s # <<>> /\ s[Len(s)] = last BY <1>1, <1>6, <2>2
  <2>4. ReplayTo(from, s) = last BY <2>3 DEF ReplayTo
  <2>5. Reply(s, from, last, D) BY <1>6, <1>7, <1>8, <1>9, <2>4 DEF Reply, Covers
  <2>6. QED BY <1>3, <1>11, <2>5
<1>12. QED BY <1>10, <1>11

LEMMA RoomTyped ==
  RoomInv => /\ events \in Nat /\ current_seq \in Nat /\ Sent \in Nat /\ Pushed \in Nat
             /\ Sent <= events /\ current_seq <= Pushed /\ Pushed <= events
             /\ ring \in Seq(Nat)
             /\ \A n \in (Pushed + 1)..Sent : n \in dropped
BY DEF RoomInv, TypeOK, CommitSteps, Pushed, Sent

(* A resync range reaches the newest event pushed, and lacks only dropped  *)
(* publishes, whichever tier serves it.                                    *)
LEMMA ResyncReplies ==
  ASSUME RoomInv, NEW from \in Nat \ {0}
  PROVE  \E to \in Nat :
           /\ Reply(ResyncRange(from), from, to, dropped)
           /\ Pushed <= to /\ from - 1 <= to
           /\ from <= events + 1 => to <= events
<1>1. PICK p \in Nat, e \in Nat : p = Pushed /\ e = events /\ p <= e BY RoomTyped
<1>2. CASE Resident(ring, from)
  <2>1. /\ ring \in Seq(Nat) /\ Rising(ring) /\ ring # <<>>
        /\ ring[Len(ring)] = p /\ Covers(ring, ring[1], p, dropped)
    BY <1>1, <1>2, RoomTyped DEF RoomInv, RingLacksOnlyDropped, Resident, Rising, Covers
  <2>2. PICK to \in Nat : /\ Reply(RangeFrom(ring, from), from, to, dropped)
                          /\ to = IF from > p THEN from - 1 ELSE p
    BY <1>2, <2>1, RangeFromReplies
  <2>3. p <= to /\ from - 1 <= to /\ (from <= e + 1 => to <= e) BY <1>1, <2>2
  <2>4. QED BY <1>1, <1>2, <2>2, <2>3 DEF ResyncRange
<1>3. CASE ~Resident(ring, from)
  <2> DEFINE n == IF from > e THEN 0 ELSE e - from + 1
             s == [i \in 1..n |-> from + i - 1]
  <2>1. n \in Nat BY <1>1
  <2>2. ResyncRange(from) = s BY <1>1, <1>3 DEF ResyncRange
  <2>3. \A i \in 1..n : from + i - 1 \in Nat BY <2>1
  <2>4. PICK to \in Nat : to = from + n - 1 BY <2>1
  <2>5. p <= to /\ from - 1 <= to /\ (from <= e + 1 => to <= e) /\ (n # 0 => to = e)
    BY <1>1, <2>4
  <2> HIDE DEF n
  <2>6. s \in Seq(Nat) BY <2>1, <2>3, IsASeq
  <2>7. Len(s) = n BY <2>1
  <2>8. Rising(s) BY <2>1, <2>7 DEF Rising
  <2>9. \A i \in 1..Len(s) : s[i] \in from..to BY <2>1, <2>4, <2>7
  <2>10. Covers(s, from, to, dropped)
    <3> SUFFICES ASSUME NEW x \in from..to PROVE Holds(s, x) BY DEF Covers
    <3>1. x - from + 1 \in 1..n BY <2>1, <2>4
    <3>2. s[x - from + 1] = x BY <3>1
    <3>3. QED BY <2>7, <3>1, <3>2 DEF Holds
  <2>11. to = ReplayTo(from, s)
    <3>1. CASE n = 0
      <4>1. s = <<>> BY <2>6, <2>7, <3>1, EmptySeq
      <4>2. QED BY <2>4, <3>1, <4>1 DEF ReplayTo
    <3>2. CASE n # 0
      <4>1. s # <<>> /\ n \in 1..n BY <2>1, <2>7, <3>2
      <4>2. s[Len(s)] = from + n - 1 BY <2>7, <4>1
      <4> HIDE DEF s
      <4>3. QED BY <2>4, <4>1, <4>2 DEF ReplayTo
    <3>3. QED BY <3>1, <3>2
  <2>12. Reply(s, from, to, dropped) BY <2>6, <2>8, <2>9, <2>10, <2>11 DEF Reply
  <2> HIDE DEF s
  <2>13. QED BY <1>1, <2>2, <2>5, <2>12
<1>4. QED BY <1>2, <1>3

(* What replay sends is well formed, whatever the range.                   *)
LEMMA ReplayTyped ==
  ASSUME RoomInv, NEW from \in Nat \ {0}
  PROVE  /\ ReplayTo(from, ResyncRange(from)) \in Nat
         /\ ReplayFrames(from, ResyncRange(from)) \in Seq(DownFrame)
<1> DEFINE fr == ResyncRange(from)
           ev == [i \in 1..Len(fr) |-> [type |-> "event", seq |-> fr[i]]]
<1>1. fr \in Seq(Nat) /\ ReplayTo(from, fr) \in Nat BY ResyncReplies DEF Reply
<1> HIDE DEF fr
<1>2. Len(fr) \in Nat /\ \A i \in 1..Len(fr) : fr[i] \in Nat
  BY <1>1, ElementOfSeq
<1>4. \A i \in 1..Len(fr) : [type |-> "event", seq |-> fr[i]] \in DownFrame
  BY <1>2 DEF DownFrame
<1>5. ev \in Seq(DownFrame) BY <1>2, <1>4, IsASeq
<1>6. [type |-> "resync_end", seq |-> ReplayTo(from, fr)] \in DownFrame
  BY <1>1 DEF DownFrame
<1>7. ReplayFrames(from, fr) \in Seq(DownFrame)
  BY <1>5, <1>6, AppendProperties DEF ReplayFrames
<1>8. QED BY <1>1, <1>7 DEF fr

-----------------------------------------------------------------------------
LEMMA RoomInvInit == Init => RoomInv
<1> SUFFICES ASSUME Init PROVE RoomInv OBVIOUS
<1>1. TypeOK BY ConstantsOK, EmptySeq DEF Init, TypeOK, NoFloor, NotEntered
<1>2. RingLacksOnlyDropped BY ConstantsOK, EmptySeq DEF Init, RingLacksOnlyDropped
<1>3. CommitSteps /\ Started BY DEF Init, CommitSteps, Sent, Started
<1>4. QED BY <1>1, <1>2, <1>3 DEF RoomInv

(* What the ring lacks stays so as long as the ring and where it ends do.  *)
LEMMA RingStays ==
  ASSUME RoomInv, ring' = ring, Pushed' = Pushed, dropped \subseteq dropped'
  PROVE  RingLacksOnlyDropped'
<1>1. RingLacksOnlyDropped BY DEF RoomInv
<1>2. ring # <<>> => /\ ring[Len(ring)] = Pushed
                     /\ \A n \in ring[1]..Pushed : Holds(ring, n) \/ n \in dropped'
  BY <1>1 DEF RingLacksOnlyDropped
<1>3. QED BY <1>1, <1>2 DEF RingLacksOnlyDropped

LEMMA RoomStays ==
  ASSUME RoomInv, UNCHANGED room
  PROVE  RingLacksOnlyDropped' /\ CommitSteps'
<1>1. Pushed' = Pushed /\ Sent' = Sent BY DEF room, Pushed, Sent
<1>2. RingLacksOnlyDropped' BY <1>1, RingStays DEF room
<1>3. CommitSteps' BY <1>1 DEF room, RoomInv, CommitSteps
<1>4. QED BY <1>2, <1>3

LEMMA CommitKeepsRoomInv == RoomInv /\ Commit => RoomInv'
<1> SUFFICES ASSUME RoomInv, Commit PROVE RoomInv' OBVIOUS
<1>1. /\ TypeOK /\ CommitSteps /\ Started /\ RingLacksOnlyDropped
      /\ events \in Nat /\ current_seq \in Nat /\ ring \in Seq(Nat)
  BY DEF RoomInv, TypeOK
<1> USE DEF server, room, egress, wire, client, causes, bounds
<1>2. CASE CommitStore
  <2>1. TypeOK' /\ Started' BY <1>1, <1>2 DEF CommitStore, TypeOK, Started
  <2>2. Pushed' = Pushed /\ Sent' = Sent BY <1>1, <1>2 DEF CommitStore, Pushed, Sent
  <2>3. RingLacksOnlyDropped' BY <1>2, <2>2, RingStays DEF CommitStore
  <2>4. CommitSteps' BY <1>1, <1>2, <2>2 DEF CommitStore, CommitSteps
  <2>5. QED BY <2>1, <2>3, <2>4 DEF RoomInv
<1>3. CASE PublishDropped
  <2>1. TypeOK' /\ Started' BY <1>1, <1>3 DEF PublishDropped, TypeOK, Started
  <2>2. Pushed' = Pushed BY <1>3 DEF PublishDropped, Pushed
  <2>3. RingLacksOnlyDropped' BY <1>3, <2>2, RingStays DEF PublishDropped
  <2>4. \A n \in (current_seq + 1)..events : n \in dropped'
    <3>1. \A n \in (current_seq + 1)..(events - 1) : n \in dropped
      BY <1>1, <1>3 DEF PublishDropped, CommitSteps, Sent
    <3>2. dropped' = dropped \cup {events} BY <1>3 DEF PublishDropped
    <3>3. QED BY <1>1, <3>1, <3>2
  <2>5. CommitSteps' BY <1>1, <1>3, <2>4 DEF PublishDropped, CommitSteps, Sent
  <2>6. QED BY <2>1, <2>3, <2>5 DEF RoomInv
<1>4. CASE CommitRing
  <2>1. /\ current_seq < events /\ ring' \in PushRing(ring, events)
        /\ \A x \in (current_seq + 1)..(events - 1) : x \in dropped
        /\ Pushed = current_seq /\ Pushed' = events /\ Sent' = Sent
        /\ dropped' = dropped
    BY <1>1, <1>4 DEF CommitRing, CommitSteps, Sent, Pushed
  <2>2. Rising(ring) BY <1>1 DEF RingLacksOnlyDropped, Rising
  <2>3. ring # <<>> => ring[Len(ring)] = current_seq /\ Covers(ring, ring[1], current_seq, dropped)
    BY <1>1, <2>1 DEF RingLacksOnlyDropped, Covers
  <2>4. /\ ring' \in Seq(Nat) /\ Len(ring') <= RingCap /\ Rising(ring')
        /\ ring' # <<>> /\ ring'[Len(ring')] = events
        /\ Covers(ring', ring'[1], events, dropped)
    BY <1>1, <2>1, <2>2, <2>3, PushRingCovers
  <2>5. RingLacksOnlyDropped' BY <2>1, <2>4 DEF RingLacksOnlyDropped, Rising, Covers
  <2>6. TypeOK' /\ Started' BY <1>1, <1>4, <2>4 DEF CommitRing, TypeOK, Started
  <2>7. CommitSteps' BY <1>1, <1>4, <2>1 DEF CommitRing, CommitSteps
  <2>8. QED BY <2>5, <2>6, <2>7 DEF RoomInv
<1>5. CASE CommitSeq
  <2>1. TypeOK' /\ Started' BY <1>1, <1>5 DEF CommitSeq, TypeOK, Started
  <2>2. Pushed' = Pushed BY <1>5 DEF CommitSeq, Pushed
  <2>3. RingLacksOnlyDropped' BY <1>5, <2>2, RingStays DEF CommitSeq
  <2>4. CommitSteps' BY <1>1, <1>5 DEF CommitSeq, CommitSteps, Sent
  <2>5. QED BY <2>1, <2>3, <2>4 DEF RoomInv
<1>6. CASE CommitSend
  <2>1. rx' \in [Clients -> Seq(Nat)]
    <3>1. \A c \in Clients : Received(c) \in Seq(Nat)
      <4> SUFFICES ASSUME NEW c \in Clients PROVE Received(c) \in Seq(Nat) OBVIOUS
      <4>1. rx[c] \in Seq(Nat) BY <1>1 DEF TypeOK
      <4>2. Append(rx[c], events) \in Seq(Nat) BY <1>1, <4>1, AppendProperties
      <4>3. Overflows(c) => Append(Tail(rx[c]), events) \in Seq(Nat)
        <5> SUFFICES ASSUME Overflows(c)
                     PROVE Append(Tail(rx[c]), events) \in Seq(Nat)
          OBVIOUS
        <5>1. rx[c] # <<>> BY <4>1, EmptySeq, ConstantsOK DEF Overflows
        <5>2. Tail(rx[c]) \in Seq(Nat) BY <4>1, <5>1, HeadTailProperties
        <5>3. QED BY <1>1, <5>2, AppendProperties
      <4>4. QED BY <4>1, <4>2, <4>3 DEF Received
    <3>2. QED BY <1>6, <3>1 DEF CommitSend
  <2>2. lagged' \in [Clients -> BOOLEAN]
    BY <1>1, <1>6 DEF CommitSend, Overflows, TypeOK
  <2>3. TypeOK' /\ Started' BY <1>1, <1>6, <2>1, <2>2 DEF CommitSend, TypeOK, Started
  <2>4. Pushed' = Pushed BY <1>6 DEF CommitSend, Pushed
  <2>5. RingLacksOnlyDropped' BY <1>6, <2>4, RingStays DEF CommitSend
  <2>6. CommitSteps' BY <1>1, <1>6 DEF CommitSend, CommitSteps, Sent
  <2>7. QED BY <2>3, <2>5, <2>6 DEF RoomInv
<1>7. QED BY <1>2, <1>3, <1>4, <1>5, <1>6 DEF Commit

(* A fresh room over the log satisfies the room's part.                    *)
LEMMA FreshRoomOK ==
  ASSUME RoomInv, FreshRoom, events' = events
  PROVE  /\ RingLacksOnlyDropped' /\ CommitSteps'
         /\ ring' \in Seq(Nat) /\ current_seq' \in Nat
         /\ commit' \in {"idle", "stored", "pushed", "visible"}
         /\ session_floors' \in [Users -> Nat \cup {NoFloor}]
         /\ dropped' \in SUBSET Nat
<1>1. events \in Nat BY DEF RoomInv, TypeOK
<1>2. CommitSteps' BY <1>1 DEF FreshRoom, CommitSteps, Sent
<1>3. ring' = <<>> /\ ring' \in Seq(Nat) /\ Len(ring') = 0
  BY EmptySeq DEF FreshRoom
<1>4. RingLacksOnlyDropped' BY <1>3, ConstantsOK DEF RingLacksOnlyDropped
<1>5. QED BY <1>1, <1>2, <1>3, <1>4 DEF FreshRoom, NoFloor

LEMMA CutTyped ==
  ASSUME TypeOK, NEW S, Cut(S)
  PROVE  /\ sess' \in [Clients -> {"none", "subscribed", "live"}]
         /\ rx' \in [Clients -> Seq(Nat)] /\ erx' \in [Clients -> Seq(Nat \ {0})]
         /\ lagged' \in [Clients -> BOOLEAN]
         /\ next_expected' \in [Clients -> Nat]
         /\ up' \in [Clients -> Seq(UpFrame)] /\ down' \in [Clients -> Seq(DownFrame)]
         /\ catchingUp' \in [Clients -> BOOLEAN]
         /\ Started => Started'
<1> USE DEF TypeOK, Cut
<1>1. /\ rx' \in [Clients -> Seq(Nat)] /\ erx' \in [Clients -> Seq(Nat \ {0})]
      /\ up' \in [Clients -> Seq(UpFrame)] /\ down' \in [Clients -> Seq(DownFrame)]
  BY EmptySeq
<1>2. /\ sess' \in [Clients -> {"none", "subscribed", "live"}]
      /\ next_expected' \in [Clients -> Nat]
      /\ Started => Started'
  BY DEF Started
<1>3. lagged' \in [Clients -> BOOLEAN] /\ catchingUp' \in [Clients -> BOOLEAN]
  BY Zenon
<1>4. QED BY <1>1, <1>2, <1>3

LEMMA SessionKeepsRoomInv ==
  ASSUME RoomInv, NEW c \in Clients,
         Bootstrap(c) \/ Connect(c) \/ Welcome(c) \/ Disconnect(c) \/ Leave(c)
  PROVE  RoomInv'
<1> USE DEF RoomInv, TypeOK, Started, server, room, egress, wire,
            client, causes, bounds
<1>1. CASE Bootstrap(c)
  <2>1. TypeOK' /\ Started'
    <3>1. CASE SnapshotDocs(c) BY <3>1 DEF SnapshotDocs
    <3>2. ASSUME NEW seq \in Nat, StartAt(c, seq)
          PROVE  /\ phase' \in [Clients -> {"out", "snapshot", "closed", "open"}]
                 /\ base' \in [Clients -> Nat \cup {NotEntered}]
                 /\ nextExpected' \in [Clients -> Nat \ {0}]
      <4>1. MaxOf(nextExpected[c], seq + 1) \in Nat \ {0} BY DEF MaxOf
      <4>2. QED BY <3>2, <4>1 DEF StartAt
    <3>3. CASE SnapshotSeq(c) \/ SnapshotFails(c)
      <4>1. StartAt(c, current_seq) \/ StartAt(c, 0)
        BY <3>3 DEF SnapshotSeq, SnapshotFails
      <4>2. /\ phase' \in [Clients -> {"out", "snapshot", "closed", "open"}]
            /\ base' \in [Clients -> Nat \cup {NotEntered}]
            /\ nextExpected' \in [Clients -> Nat \ {0}]
        BY <3>2, <4>1
      <4>3. UNCHANGED <<server, egress, wire, hasEverOpened, seen, causes, bounds>>
        BY <3>3 DEF SnapshotSeq, SnapshotFails
      <4>6. QED BY <4>2, <4>3
    <3>4. QED BY <1>1, <3>1, <3>3 DEF Bootstrap
  <2>2. RingLacksOnlyDropped' /\ CommitSteps'
    BY <1>1, RoomStays DEF Bootstrap, SnapshotDocs, SnapshotSeq, SnapshotFails
  <2>3. QED BY <2>1, <2>2
<1>2. CASE Connect(c)
  <2>1. Hello(c) \in UpFrame BY DEF Hello, UpFrame
  <2>2. <<Hello(c)>> \in Seq(UpFrame) BY <2>1
  <2>3. up' \in [Clients -> Seq(UpFrame)] BY <1>2, <2>2 DEF Connect
  <2>4. TypeOK'
    <3>1. opens' \in [Clients -> Nat] BY <1>2 DEF Connect
    <3>2. /\ phase' \in [Clients -> {"out", "snapshot", "closed", "open"}]
          /\ hasEverOpened' \in [Clients -> BOOLEAN]
          /\ sess' \in [Clients -> {"none", "subscribed", "live"}]
      BY <1>2 DEF Connect
    <3>3. UNCHANGED <<server, rx, lagged, erx, next_expected, down, nextExpected,
                      base, seen, causes, restarts>>
      BY <1>2 DEF Connect
    <3>4. QED BY <2>3, <3>1, <3>2, <3>3
  <2>5. ASSUME NEW d \in Clients, sess'[d] = "live" PROVE next_expected'[d] > 0
    <3>1. sess' = [sess EXCEPT ![c] = "subscribed"] /\ next_expected' = next_expected
      BY <1>2 DEF Connect
    <3>2. sess[d] = "live" BY <2>5, <3>1
    <3>3. QED BY <3>1, <3>2
  <2>6. RingLacksOnlyDropped' /\ CommitSteps' BY <1>2, RoomStays DEF Connect
  <2>7. QED BY <2>4, <2>5, <2>6
<1>3. CASE Welcome(c)
  <2>1. <<[type |-> "welcome", seq |-> current_seq]>> \in Seq(DownFrame)
    BY DEF DownFrame
  <2>2. (current_seq >= nextExpected[c]) \in BOOLEAN OBVIOUS
  <2>3. TypeOK' /\ Started'
    <3>1. /\ sess' \in [Clients -> {"none", "subscribed", "live"}]
          /\ next_expected' \in [Clients -> Nat]
          /\ down' \in [Clients -> Seq(DownFrame)]
      <4>1. sess' \in [Clients -> {"none", "subscribed", "live"}] BY <1>3 DEF Welcome
      <4>2. next_expected' \in [Clients -> Nat] BY <1>3 DEF Welcome
      <4>3. down' \in [Clients -> Seq(DownFrame)] BY <1>3, <2>1 DEF Welcome
      <4>4. QED BY <4>1, <4>2, <4>3
    <3>2. catchingUp' \in [Clients -> BOOLEAN] BY <1>3, <2>2 DEF Welcome
    <3>3. UNCHANGED <<server, rx, lagged, erx, up, client, lost, bounds>>
      BY <1>3 DEF Welcome
    <3>4. TypeOK' BY <3>1, <3>2, <3>3
    <3>5. ASSUME NEW d \in Clients, sess'[d] = "live" PROVE next_expected'[d] > 0
      <4>1. /\ sess' = [sess EXCEPT ![c] = "live"]
            /\ next_expected' = [next_expected EXCEPT ![c] = current_seq + 1]
        BY <1>3 DEF Welcome
      <4>2. CASE d = c BY <4>1, <4>2
      <4>3. CASE d # c BY <3>5, <4>1, <4>3
      <4>4. QED BY <4>2, <4>3
    <3>6. QED BY <3>4, <3>5
  <2>4. RingLacksOnlyDropped' /\ CommitSteps' BY <1>3, RoomStays DEF Welcome
  <2>5. QED BY <2>3, <2>4
<1>4. CASE Disconnect(c)
  <2>1. TypeOK' /\ Started'
    <3>1. Cut({c}) BY <1>4 DEF Disconnect
    <3>2. /\ sess' \in [Clients -> {"none", "subscribed", "live"}]
          /\ rx' \in [Clients -> Seq(Nat)] /\ erx' \in [Clients -> Seq(Nat \ {0})]
          /\ lagged' \in [Clients -> BOOLEAN]
          /\ next_expected' \in [Clients -> Nat]
          /\ up' \in [Clients -> Seq(UpFrame)] /\ down' \in [Clients -> Seq(DownFrame)]
          /\ catchingUp' \in [Clients -> BOOLEAN]
          /\ Started'
      BY <3>1, CutTyped
    <3>3. phase' \in [Clients -> {"out", "snapshot", "closed", "open"}]
      BY <1>4 DEF Disconnect
    <3>4. /\ stale' \in Nat
          /\ UNCHANGED <<room, session_floors, hasEverOpened, nextExpected,
                          base, seen, lost, bounds>>
      BY <1>4 DEF Disconnect
    <3>5. QED BY <3>2, <3>3, <3>4
  <2>2. RingLacksOnlyDropped' /\ CommitSteps' BY <1>4, RoomStays DEF Disconnect
  <2>3. QED BY <2>1, <2>2
<1>5. CASE Leave(c)
  <2>1. TypeOK' /\ Started'
    <3>1. Cut({c}) BY <1>5 DEF Leave
    <3>2. /\ sess' \in [Clients -> {"none", "subscribed", "live"}]
          /\ rx' \in [Clients -> Seq(Nat)] /\ erx' \in [Clients -> Seq(Nat \ {0})]
          /\ lagged' \in [Clients -> BOOLEAN]
          /\ next_expected' \in [Clients -> Nat]
          /\ up' \in [Clients -> Seq(UpFrame)] /\ down' \in [Clients -> Seq(DownFrame)]
          /\ catchingUp' \in [Clients -> BOOLEAN]
          /\ Started'
      BY <3>1, CutTyped
    <3>3. /\ phase' \in [Clients -> {"out", "snapshot", "closed", "open"}]
          /\ hasEverOpened' \in [Clients -> BOOLEAN]
          /\ lost' \in [Clients -> SUBSET Nat]
          /\ stale' \in Nat
      BY <1>5 DEF Leave
    <3>4. /\ nextExpected' \in [Clients -> Nat \ {0}]
          /\ base' \in [Clients -> Nat \cup {NotEntered}]
          /\ seen' \in [Clients -> Seq(Nat)]
      BY <1>5, EmptySeq DEF Leave
    <3>5. QED BY <1>5, <3>2, <3>3, <3>4 DEF Leave
  <2>2. RingLacksOnlyDropped' /\ CommitSteps' BY <1>5, RoomStays DEF Leave
  <2>3. QED BY <2>1, <2>2
<1>6. QED BY <1>1, <1>2, <1>3, <1>4, <1>5

LEMMA RebuildKeepsRoomInv ==
  ASSUME RoomInv, HandlerEnds \/ Restart
  PROVE  RoomInv'
<1> USE DEF RoomInv, TypeOK, Started, server, room, egress, wire,
            client, causes, bounds
<1>1. CASE HandlerEnds
  <2>1. CASE stale' = 0 /\ Attached = {}
    <3>1. FreshRoom /\ events' = events BY <1>1, <2>1 DEF HandlerEnds
    <3>2. RingLacksOnlyDropped' /\ CommitSteps' BY <3>1, FreshRoomOK
    <3>3. stale' \in Nat BY <1>1 DEF HandlerEnds
    <3>4. /\ ring' \in Seq(Nat) /\ current_seq' \in Nat /\ dropped' \in SUBSET Nat
          /\ commit' \in {"idle", "stored", "pushed", "visible"}
          /\ session_floors' \in [Users -> Nat \cup {NoFloor}]
      BY <3>1, FreshRoomOK
    <3>5. TypeOK' /\ Started' BY <1>1, <3>1, <3>3, <3>4 DEF HandlerEnds
    <3>6. QED BY <3>2, <3>5
  <2>2. CASE ~(stale' = 0 /\ Attached = {})
    <3>1. UNCHANGED <<room, session_floors>> BY <1>1, <2>2 DEF HandlerEnds
    <3>2. RingLacksOnlyDropped' /\ CommitSteps' BY <3>1, RoomStays
    <3>3. TypeOK' /\ Started' BY <1>1, <3>1 DEF HandlerEnds
    <3>4. QED BY <3>2, <3>3
  <2>3. QED BY <2>1, <2>2
<1>2. CASE Restart
  <2>1. FreshRoom /\ events' = events BY <1>2 DEF Restart
  <2>2. RingLacksOnlyDropped' /\ CommitSteps' BY <2>1, FreshRoomOK
  <2>3. phase' \in [Clients -> {"out", "snapshot", "closed", "open"}]
    BY <1>2 DEF Restart
  <2>4. TypeOK' /\ Started'
    <3>1. Cut(Clients) BY <1>2 DEF Restart
    <3>2. restarts' \in Nat /\ stale' \in Nat
      BY <1>2 DEF Restart
    <3>3. QED BY <1>2, <2>1, <2>3, <3>1, <3>2, FreshRoomOK, CutTyped DEF Restart
  <2>5. QED BY <2>2, <2>4
<1>3. QED BY <1>1, <1>2

LEMMA IngressKeepsRoomInv ==
  ASSUME RoomInv, NEW c \in Clients, Ingress(c)
  PROVE  RoomInv'
<1> USE DEF RoomInv, TypeOK, Started, server, room, egress, wire,
            client, causes, bounds
<1>1. up[c] # <<>> /\ up' = [up EXCEPT ![c] = Tail(@)]
  BY DEF Ingress, IngressHello, IngressResync
<1>2. Head(up[c]) \in UpFrame /\ Tail(up[c]) \in Seq(UpFrame)
  BY <1>1, HeadTailProperties
<1>3. up' \in [Clients -> Seq(UpFrame)]
  BY <1>1, <1>2
<1>4. RingLacksOnlyDropped' /\ CommitSteps'
  BY RoomStays DEF Ingress, IngressHello, IngressResync
<1>5. CASE IngressHello(c)
  <2>1. session_floors' \in [Users -> Nat \cup {NoFloor}]
    BY <1>5, ConstantsOK DEF IngressHello
  <2>2. TypeOK' /\ Started' BY <1>3, <1>5, <2>1 DEF IngressHello
  <2>3. QED BY <1>4, <2>2
<1>6. CASE IngressResync(c)
  <2>1. Head(up[c]).seq \in Nat \ {0} BY <1>2, <1>6 DEF IngressResync, UpFrame
  <2>2. Append(erx[c], Head(up[c]).seq) \in Seq(Nat \ {0})
    BY <2>1, AppendProperties
  <2>3. erx' \in [Clients -> Seq(Nat \ {0})] BY <1>6, <2>2 DEF IngressResync
  <2>4. TypeOK' /\ Started' BY <1>3, <1>6, <2>3 DEF IngressResync
  <2>5. QED BY <1>4, <2>4
<1>7. QED BY <1>5, <1>6 DEF Ingress

LEMMA EgressKeepsRoomInv ==
  ASSUME RoomInv, NEW c \in Clients,
         EgressResync(c) \/ EgressLagged(c) \/ EgressEvent(c) \/ EgressGap(c)
  PROVE  RoomInv'
<1>1. UNCHANGED server
  BY DEF EgressResync, EgressLagged, EgressEvent, EgressGap
<1>2. RingLacksOnlyDropped' /\ CommitSteps' BY <1>1, RoomStays DEF server
<1>3. next_expected[c] \in Nat \ {0}
  <2>1. sess[c] = "live" BY DEF EgressResync, EgressLagged, EgressEvent, EgressGap
  <2>2. QED BY <2>1 DEF RoomInv, TypeOK, Started
<1>4. down[c] \in Seq(DownFrame) BY DEF RoomInv, TypeOK
<1>5. ASSUME NEW q \in Seq(DownFrame), down' = [down EXCEPT ![c] = @ \o q]
      PROVE  down' \in [Clients -> Seq(DownFrame)]
  <2>1. down[c] \o q \in Seq(DownFrame) BY <1>4, ConcatProperties
  <2>2. QED BY <1>5, <2>1 DEF RoomInv, TypeOK
<1>6. ASSUME NEW n \in Nat \ {0}, next_expected' = [next_expected EXCEPT ![c] = n],
             sess' = sess
      PROVE  next_expected' \in [Clients -> Nat] /\ Started'
  BY <1>6 DEF RoomInv, TypeOK, Started
<1>7. ASSUME NEW why, NEW frames, NEW to \in Nat, Loses(c, why, frames, to)
      PROVE  lost' \in [Clients -> SUBSET Nat]
  <2>1. PassedBy(c, why, frames, to) \in SUBSET Nat BY DEF PassedBy, RoomInv, TypeOK
  <2>2. PICK S \in SUBSET Nat : S = PassedBy(c, why, frames, to) BY <2>1
  <2>3. lost' = [lost EXCEPT ![c] = @ \cup S] BY <1>7, <2>2 DEF Loses
  <2>4. lost \in [Clients -> SUBSET Nat] BY DEF RoomInv, TypeOK
  <2>5. QED BY <2>3, <2>4
<1>8. CASE EgressResync(c)
  <2> DEFINE from == ClampFrom(UserOf[c], Head(erx[c]))
             fr == ResyncRange(from)
  <2>1. erx[c] \in Seq(Nat \ {0}) /\ erx[c] # <<>>
    BY <1>8 DEF RoomInv, TypeOK, EgressResync
  <2>2. Head(erx[c]) \in Nat \ {0} /\ Tail(erx[c]) \in Seq(Nat \ {0})
    BY <2>1, HeadTailProperties
  <2>3. from \in Nat \ {0}
    <3>1. ResyncFloor(UserOf[c]) \in Nat
      BY ConstantsOK DEF RoomInv, TypeOK, ResyncFloor, NoFloor
    <3>2. QED BY <2>2, <3>1 DEF ClampFrom, MaxOf
  <2>4. ReplayTo(from, fr) \in Nat /\ ReplayFrames(from, fr) \in Seq(DownFrame)
    BY <2>3, ReplayTyped
  <2>5. /\ down' = [down EXCEPT ![c] = @ \o ReplayFrames(from, fr)]
        /\ next_expected' = [next_expected EXCEPT ![c] = MaxOf(ReplayTo(from, fr) + 1, @)]
        /\ Loses(c, dropped \cup Head(erx[c])..(from - 1), fr, ReplayTo(from, fr))
        /\ erx' = [erx EXCEPT ![c] = Tail(@)]
        /\ catchingUp' = [catchingUp EXCEPT ![c] = FALSE]
        /\ UNCHANGED <<server, sess, rx, lagged, up, client, bounds>>
    BY <1>8 DEF EgressResync
  <2> HIDE DEF from, fr
  <2>6. MaxOf(ReplayTo(from, fr) + 1, next_expected[c]) \in Nat \ {0}
    BY <1>3, <2>4 DEF MaxOf
  <2>7. down' \in [Clients -> Seq(DownFrame)] BY <1>5, <2>4, <2>5
  <2>8. next_expected' \in [Clients -> Nat] /\ Started' BY <1>6, <2>5, <2>6
  <2>9. erx' \in [Clients -> Seq(Nat \ {0})] BY <2>2, <2>5 DEF RoomInv, TypeOK
  <2>10. catchingUp' \in [Clients -> BOOLEAN] BY <2>5, Zenon DEF RoomInv, TypeOK
  <2>11. lost' \in [Clients -> SUBSET Nat] BY <1>7, <2>4, <2>5
  <2>12. TypeOK'
    BY <2>5, <2>7, <2>8, <2>9, <2>10, <2>11 DEF RoomInv, TypeOK, server, room, client, bounds
  <2>13. QED BY <1>2, <2>8, <2>12 DEF RoomInv
<1>9. CASE EgressLagged(c)
  <2> DEFINE from == next_expected[c]
             fr == ResyncRange(from)
  <2>1. ReplayTo(from, fr) \in Nat /\ ReplayFrames(from, fr) \in Seq(DownFrame)
    BY <1>3, ReplayTyped
  <2>2. /\ down' = [down EXCEPT ![c] = @ \o ReplayFrames(from, fr)]
        /\ next_expected' = [next_expected EXCEPT ![c] = ReplayTo(from, fr) + 1]
        /\ Loses(c, dropped \cup Overtaken(c), fr, ReplayTo(from, fr))
        /\ lagged' = [lagged EXCEPT ![c] = FALSE]
        /\ UNCHANGED <<server, sess, rx, erx, up, client, catchingUp, bounds>>
    BY <1>9 DEF EgressLagged
  <2> HIDE DEF from, fr
  <2>3. ReplayTo(from, fr) + 1 \in Nat \ {0} BY <2>1
  <2>4. down' \in [Clients -> Seq(DownFrame)] BY <1>5, <2>1, <2>2
  <2>5. next_expected' \in [Clients -> Nat] /\ Started' BY <1>6, <2>2, <2>3
  <2>6. lagged' \in [Clients -> BOOLEAN] BY <2>2, Zenon DEF RoomInv, TypeOK
  <2>7. lost' \in [Clients -> SUBSET Nat] BY <1>7, <2>1, <2>2
  <2>8. TypeOK'
    BY <2>2, <2>4, <2>5, <2>6, <2>7 DEF RoomInv, TypeOK, server, room, client, bounds
  <2>9. QED BY <1>2, <2>5, <2>8 DEF RoomInv
<1>10. CASE EgressEvent(c)
  <2> DEFINE n == Head(rx[c])
             live == IF n = next_expected[c] THEN <<[type |-> "event", seq |-> n]>> ELSE <<>>
  <2>1. rx[c] \in Seq(Nat) /\ rx[c] # <<>>
    BY <1>10 DEF RoomInv, TypeOK, EgressEvent
  <2>2. n \in Nat /\ Tail(rx[c]) \in Seq(Nat) BY <2>1, HeadTailProperties
  <2>3. live \in Seq(DownFrame)
    <3>1. [type |-> "event", seq |-> n] \in DownFrame BY <2>2 DEF DownFrame
    <3> HIDE DEF n
    <3>2. QED BY <3>1, EmptySeq
  <2>4. /\ down' = [down EXCEPT ![c] = @ \o live]
        /\ next_expected' = [next_expected EXCEPT ![c] = MaxOf(n + 1, @)]
        /\ rx' = [rx EXCEPT ![c] = Tail(@)]
        /\ UNCHANGED <<server, sess, lagged, erx, up, client, causes, bounds>>
    BY <1>10 DEF EgressEvent
  <2> HIDE DEF n, live
  <2>5. MaxOf(n + 1, next_expected[c]) \in Nat \ {0} BY <1>3, <2>2 DEF MaxOf
  <2>6. down' \in [Clients -> Seq(DownFrame)] BY <1>5, <2>3, <2>4
  <2>7. next_expected' \in [Clients -> Nat] /\ Started' BY <1>6, <2>4, <2>5
  <2>8. rx' \in [Clients -> Seq(Nat)] BY <2>2, <2>4 DEF RoomInv, TypeOK
  <2>9. TypeOK'
    BY <2>4, <2>6, <2>7, <2>8
       DEF RoomInv, TypeOK, server, room, client, causes, bounds
  <2>10. QED BY <1>2, <2>7, <2>9 DEF RoomInv
<1>11. CASE EgressGap(c)
  <2> DEFINE n == Head(rx[c])
             from == next_expected[c]
             fr == ResyncRange(from)
             to == ReplayTo(from, fr)
             live == IF n > to THEN <<[type |-> "event", seq |-> n]>> ELSE <<>>
  <2>1. rx[c] \in Seq(Nat) /\ rx[c] # <<>>
    BY <1>11 DEF RoomInv, TypeOK, EgressGap
  <2>2. n \in Nat /\ Tail(rx[c]) \in Seq(Nat) BY <2>1, HeadTailProperties
  <2>3. to \in Nat /\ ReplayFrames(from, fr) \in Seq(DownFrame)
    BY <1>3, ReplayTyped
  <2>4. live \in Seq(DownFrame)
    <3>1. [type |-> "event", seq |-> n] \in DownFrame BY <2>2 DEF DownFrame
    <3> HIDE DEF n, to
    <3>2. QED BY <3>1, EmptySeq
  <2>5. /\ down' = [down EXCEPT ![c] = @ \o ReplayFrames(from, fr) \o live]
        /\ next_expected' = [next_expected EXCEPT ![c] = MaxOf(to, n) + 1]
        /\ Loses(c, dropped \cup Overtaken(c), fr, to)
        /\ rx' = [rx EXCEPT ![c] = Tail(@)]
        /\ UNCHANGED <<server, sess, lagged, erx, up, client, catchingUp, bounds>>
    BY <1>11 DEF EgressGap
  <2> HIDE DEF n, from, fr, to, live
  <2>6. MaxOf(to, n) + 1 \in Nat \ {0} BY <2>2, <2>3 DEF MaxOf
  <2>7. down[c] \o ReplayFrames(from, fr) \o live \in Seq(DownFrame)
    BY <1>4, <2>3, <2>4, ConcatProperties
  <2>8. down' \in [Clients -> Seq(DownFrame)] BY <2>5, <2>7 DEF RoomInv, TypeOK
  <2>9. next_expected' \in [Clients -> Nat] /\ Started' BY <1>6, <2>5, <2>6
  <2>10. rx' \in [Clients -> Seq(Nat)] BY <2>2, <2>5 DEF RoomInv, TypeOK
  <2>11. lost' \in [Clients -> SUBSET Nat] BY <1>7, <2>3, <2>5
  <2>12. TypeOK'
    BY <2>5, <2>8, <2>9, <2>10, <2>11
       DEF RoomInv, TypeOK, server, room, client, bounds
  <2>13. QED BY <1>2, <2>9, <2>12 DEF RoomInv
<1>12. QED BY <1>8, <1>9, <1>10, <1>11

LEMMA FrameKeepsRoomInv ==
  ASSUME RoomInv, NEW c \in Clients, HandleFrame(c)
  PROVE  RoomInv'
<1> USE DEF RoomInv, server, room, egress, causes, bounds, HandleFrame,
            ClientWelcome, ClientEvent, ClientResyncEnd, Take
<1>1. RingLacksOnlyDropped' /\ CommitSteps' BY RoomStays
<1>2. Started' BY DEF Started
<1>3. down[c] \in Seq(DownFrame) /\ down[c] # <<>> /\ nextExpected[c] \in Nat \ {0}
  BY DEF TypeOK
<1>4. Head(down[c]).seq \in Nat /\ Tail(down[c]) \in Seq(DownFrame)
  <2>1. Head(down[c]) \in DownFrame /\ Tail(down[c]) \in Seq(DownFrame)
    BY <1>3, HeadTailProperties
  <2>2. QED BY <2>1 DEF DownFrame
<1>5. down' \in [Clients -> Seq(DownFrame)] BY <1>4 DEF TypeOK
<1>6. up' \in [Clients -> Seq(UpFrame)]
  <2>1. [type |-> "resync_request", seq |-> nextExpected[c]] \in UpFrame
    BY <1>3 DEF UpFrame
  <2>2. Append(up[c], [type |-> "resync_request", seq |-> nextExpected[c]]) \in Seq(UpFrame)
    BY <2>1, AppendProperties DEF TypeOK
  <2>3. RequestResync(c) => up' \in [Clients -> Seq(UpFrame)]
    BY <2>2 DEF RequestResync, TypeOK
  <2>4. RequestResync(c) \/ UNCHANGED up OBVIOUS
  <2>5. QED BY <2>3, <2>4 DEF TypeOK
<1>7. nextExpected' \in [Clients -> Nat \ {0}]
  <2>1. MaxOf(nextExpected[c], Head(down[c]).seq + 1) \in Nat \ {0}
    BY <1>3, <1>4 DEF MaxOf
  <2>2. \/ UNCHANGED nextExpected
        \/ nextExpected' = [nextExpected EXCEPT ![c] = Head(down[c]).seq + 1]
        \/ nextExpected' = [nextExpected EXCEPT ![c] = MaxOf(@, Head(down[c]).seq + 1)]
    OBVIOUS
  <2>3. nextExpected \in [Clients -> Nat \ {0}] BY DEF TypeOK
  <2>4. CASE nextExpected' = [nextExpected EXCEPT ![c] = Head(down[c]).seq + 1]
    BY <1>4, <2>3, <2>4
  <2>5. CASE nextExpected' = [nextExpected EXCEPT
                                ![c] = MaxOf(@, Head(down[c]).seq + 1)]
    BY <2>1, <2>3, <2>5
  <2>6. QED BY <2>2, <2>3, <2>4, <2>5
<1>8. seen' \in [Clients -> Seq(Nat)]
  <2>1. Append(seen[c], Head(down[c]).seq) \in Seq(Nat)
    BY <1>4, AppendProperties DEF TypeOK
  <2>2. UNCHANGED seen \/ seen' = [seen EXCEPT ![c] = Append(@, Head(down[c]).seq)]
    OBVIOUS
  <2>3. seen \in [Clients -> Seq(Nat)] BY DEF TypeOK
  <2>4. CASE UNCHANGED seen BY <2>3, <2>4
  <2>5. CASE seen' = [seen EXCEPT ![c] = Append(@, Head(down[c]).seq)]
    BY <2>1, <2>3, <2>5
  <2>6. QED BY <2>2, <2>4, <2>5
<1>9. TypeOK' BY <1>5, <1>6, <1>7, <1>8 DEF TypeOK
<1>10. QED BY <1>1, <1>2, <1>9

LEMMA RoomCorrect == Spec => []RoomInv
<1>1. RoomInv /\ [Next]_vars => RoomInv'
  <2> SUFFICES ASSUME RoomInv, [Next]_vars PROVE RoomInv' OBVIOUS
  <2>1. CASE Commit BY <2>1, CommitKeepsRoomInv
  <2>2. CASE HandlerEnds \/ Restart BY <2>2, RebuildKeepsRoomInv
  <2>3. ASSUME NEW c \in Clients,
               Bootstrap(c) \/ Connect(c) \/ Ingress(c) \/ Egress(c)
                 \/ HandleFrame(c) \/ Disconnect(c) \/ Leave(c)
        PROVE  RoomInv'
    BY <2>3, SessionKeepsRoomInv, IngressKeepsRoomInv, EgressKeepsRoomInv,
       FrameKeepsRoomInv DEF Egress
  <2>4. CASE UNCHANGED vars
    <3>1. RingLacksOnlyDropped' /\ CommitSteps' BY <2>4, RoomStays DEF vars, server
    <3>2. TypeOK' /\ Started'
      BY <2>4 DEF RoomInv, TypeOK, Started, vars, server, room, egress, wire, client,
                  causes, bounds
    <3>3. QED BY <3>1, <3>2 DEF RoomInv
  <2>5. QED BY <2>1, <2>2, <2>3, <2>4 DEF Next
<1>2. QED BY RoomInvInit, <1>1, PTL DEF Spec

(* Frames, registers and counters keep their types through every           *)
(* interleaving of the publish path, the connections' tasks, disconnects,  *)
(* reaps and restarts.                                                     *)
THEOREM TypeCorrect == Spec => []TypeOK
<1>1. RoomInv => TypeOK BY DEF RoomInv
<1>2. QED BY RoomCorrect, <1>1, PTL

(* The ring always ends at the newest event pushed and lacks, from its     *)
(* oldest resident on, nothing but dropped publishes, whatever the count   *)
(* and the age rule dropped: so far range_from may trust it.               *)
THEOREM RingCorrect == Spec => []RingLacksOnlyDropped
<1>1. RoomInv => RingLacksOnlyDropped BY DEF RoomInv
<1>2. QED BY RoomCorrect, <1>1, PTL

-----------------------------------------------------------------------------
(***************************************************************************)
(* The watermarks of RoomSync: a receiver that has not lagged holds what   *)
(* is to come from the egress watermark on, dropped publishes apart, and   *)
(* nothing on its way to a client, or asked by it, is ahead of the log.    *)
(***************************************************************************)
Within(s, last) == \A i \in 1..Len(s) : s[i] <= last

Linked(c) ==
  /\ phase[c] = "open" <=> sess[c] # "none"
  /\ sess[c] = "none" => rx[c] = <<>> /\ up[c] = <<>> /\ ~lagged[c]
  /\ sess[c] # "live" => erx[c] = <<>> /\ down[c] = <<>>
  /\ Rising(rx[c]) /\ Within(rx[c], Sent)
  /\ sess[c] = "live" /\ ~lagged[c] => Covers(rx[c], next_expected[c], Sent, dropped)

DownTo(b) == {f \in DownFrame : f.seq <= b}
UpTo(b)   == {f \in UpFrame : f.type = "resync_request" => f.seq <= b}

Bounded(c) ==
  /\ nextExpected[c] <= events + 1
  /\ next_expected[c] <= events + 1
  /\ down[c] \in Seq(DownTo(events))
  /\ up[c] \in Seq(UpTo(nextExpected[c]))
  /\ erx[c] \in Seq(1..nextExpected[c])

FloorsBounded == \A u \in Users : session_floors[u] <= events

LinkInv == FloorsBounded /\ \A c \in Clients : Linked(c) /\ Bounded(c)

LEMMA SeqMonotone ==
  ASSUME NEW S, NEW T, S \subseteq T, NEW s \in Seq(S)
  PROVE  s \in Seq(T)
BY ElementOfSeq, SeqDef

(* A receiver takes a new event behind the ones it holds.                  *)
LEMMA RisesBy ==
  ASSUME NEW s \in Seq(Nat), NEW last \in Nat, NEW n \in Nat, last < n,
         Rising(s), Within(s, last)
  PROVE  /\ Append(s, n) \in Seq(Nat)
         /\ Rising(Append(s, n)) /\ Within(Append(s, n), n)
         /\ Holds(Append(s, n), n)
         /\ \A x : Holds(s, x) => Holds(Append(s, n), x)
<1>1. PICK k \in Nat : k = Len(s) OBVIOUS
<1>0. /\ Append(s, n) \in Seq(Nat)
      /\ Len(Append(s, n)) = k + 1
      /\ Append(s, n)[k + 1] = n
      /\ \A i \in 1..k : Append(s, n)[i] = s[i]
  BY ONLY <1>1, s \in Seq(Nat), n \in Nat, AppendProperties
<1>2. PICK a \in Seq(Nat) :
        /\ a = Append(s, n) /\ Len(a) = k + 1 /\ a[k + 1] = n
        /\ \A i \in 1..k : a[i] = s[i]
  BY ONLY <1>0
<1>3. \A i \in 1..k : s[i] \in Nat /\ s[i] < n
  <2> SUFFICES ASSUME NEW i \in 1..k PROVE s[i] \in Nat /\ s[i] < n OBVIOUS
  <2>1. s[i] \in Nat BY <1>1, ElementOfSeq
  <2>2. s[i] <= last BY <1>1 DEF Within
  <2>3. QED BY <2>1, <2>2
<1>4. Rising(a)
  <2> SUFFICES ASSUME NEW i \in 1..(k + 1), NEW j \in 1..(k + 1), i < j PROVE a[i] < a[j]
    BY <1>2 DEF Rising
  <2>1. i \in 1..k OBVIOUS
  <2>2. CASE j = k + 1 BY <1>2, <1>3, <2>1, <2>2
  <2>3. CASE j # k + 1
    <3>1. j \in 1..k BY <2>3
    <3>2. s[i] < s[j] BY <1>1, <2>1, <3>1 DEF Rising
    <3>3. QED BY <1>2, <2>1, <3>1, <3>2
  <2>4. QED BY <2>2, <2>3
<1>5. Within(a, n)
  <2> SUFFICES ASSUME NEW i \in 1..(k + 1) PROVE a[i] <= n BY <1>2 DEF Within
  <2>1. CASE i = k + 1 BY <1>2, <2>1
  <2>2. CASE i # k + 1
    <3>1. i \in 1..k BY <2>2
    <3>2. QED BY <1>2, <1>3, <3>1
  <2>3. QED BY <2>1, <2>2
<1>6. k + 1 \in 1..Len(a) /\ \A i \in 1..k : i \in 1..Len(a) BY <1>2
<1>7. Holds(a, n) BY <1>2, <1>6 DEF Holds
<1>8. \A x : Holds(s, x) => Holds(a, x) BY <1>1, <1>2, <1>6 DEF Holds
<1>9. QED BY <1>2, <1>4, <1>5, <1>7, <1>8

(* What it holds once the oldest is gone.                                  *)
LEMMA RisesOn ==
  ASSUME NEW s \in Seq(Nat), s # <<>>, Rising(s), NEW last \in Nat, Within(s, last)
  PROVE  /\ Tail(s) \in Seq(Nat) /\ Rising(Tail(s)) /\ Within(Tail(s), last)
         /\ Head(s) \in Nat /\ Head(s) <= last /\ Holds(s, Head(s))
         /\ \A x : Holds(s, x) => x = Head(s) \/ Holds(Tail(s), x)
         /\ \A x : Holds(s, x) => x \in Nat /\ Head(s) <= x
<1>1. PICK k \in Nat \ {0} : k = Len(s) BY EmptySeq
<1>2. PICK t \in Seq(Nat) :
        /\ t = Tail(s) /\ Len(t) = k - 1
        /\ \A i \in 1..(k - 1) : t[i] = s[i + 1]
  BY <1>1, HeadTailProperties
<1>3. PICK h : h = Head(s) /\ h = s[1] BY HeadTailProperties
<1>4. 1 \in 1..k OBVIOUS
<1>5. Rising(t)
  <2> SUFFICES ASSUME NEW i \in 1..(k - 1), NEW j \in 1..(k - 1), i < j PROVE t[i] < t[j]
    BY <1>2 DEF Rising
  <2>1. i + 1 \in 1..k /\ j + 1 \in 1..k /\ i + 1 < j + 1 OBVIOUS
  <2>2. QED BY <1>1, <1>2, <2>1 DEF Rising
<1>6. Within(t, last)
  <2> SUFFICES ASSUME NEW i \in 1..(k - 1) PROVE t[i] <= last BY <1>2 DEF Within
  <2>1. i + 1 \in 1..k OBVIOUS
  <2>2. QED BY <1>1, <1>2, <2>1 DEF Within
<1>7. h \in Nat /\ h <= last /\ Holds(s, h)
  <2>1. s[1] \in Nat BY <1>1, <1>4, ElementOfSeq
  <2>2. s[1] <= last BY <1>1, <1>4 DEF Within
  <2>3. QED BY <1>1, <1>3, <1>4, <2>1, <2>2 DEF Holds
<1>8. ASSUME NEW x, Holds(s, x) PROVE (x = h \/ Holds(t, x)) /\ x \in Nat /\ h <= x
  <2>1. PICK i \in 1..k : s[i] = x BY <1>1, <1>8 DEF Holds
  <2>2. x \in Nat /\ h <= x BY <1>1, <1>3, <1>4, <2>1, RisingPlaces
  <2>3. CASE i = 1 BY <1>3, <2>1, <2>2, <2>3
  <2>4. CASE i # 1
    <3>1. i - 1 \in 1..(k - 1) /\ (i - 1) + 1 = i BY <2>4
    <3>2. t[i - 1] = x BY <1>2, <2>1, <3>1
    <3>3. QED BY <1>2, <2>2, <3>1, <3>2 DEF Holds
  <2>5. QED BY <2>3, <2>4
<1>9. QED BY <1>2, <1>3, <1>5, <1>6, <1>7, <1>8

LEMMA CoversLater ==
  ASSUME NEW s, NEW from \in Nat, NEW last \in Nat, NEW D, Covers(s, from, last, D),
         NEW on \in Nat, from <= on
  PROVE  Covers(s, on, last, D)
<1>1. \A x \in on..last : x \in from..last OBVIOUS
<1>2. QED BY <1>1 DEF Covers

(* The receiver's next event taken, and the watermark past it.             *)
LEMMA CoversOn ==
  ASSUME NEW s \in Seq(Nat), s # <<>>, Rising(s), NEW last \in Nat, Within(s, last),
         NEW from \in Nat, NEW D, Covers(s, from, last, D),
         NEW on \in Nat, from <= on, Head(s) < on
  PROVE  Covers(Tail(s), on, last, D)
<1> SUFFICES ASSUME NEW x \in on..last PROVE Holds(Tail(s), x) \/ x \in D
  BY DEF Covers
<1>1. x \in from..last OBVIOUS
<1>2. Holds(s, x) \/ x \in D BY <1>1 DEF Covers
<1>3. Head(s) \in Nat /\ (Holds(s, x) => x = Head(s) \/ Holds(Tail(s), x)) BY RisesOn
<1>4. x # Head(s) BY <1>3
<1>5. QED BY <1>2, <1>3, <1>4

LEMMA NoneRises == Rising(<<>>) /\ \A last : Within(<<>>, last)
<1>1. Len(<<>>) = 0 OBVIOUS
<1>2. QED BY <1>1 DEF Rising, Within

(* What a replay from a watermark within the log reaches.                  *)
LEMMA ReplayReach ==
  ASSUME RoomInv, NEW from \in 1..(events + 1)
  PROVE  \E to \in Nat : /\ to = ReplayTo(from, ResyncRange(from))
                         /\ Reply(ResyncRange(from), from, to, dropped)
                         /\ Pushed <= to /\ to <= events /\ from - 1 <= to
<1>1. from \in Nat \ {0} /\ from <= events + 1 BY RoomTyped
<1>2. PICK to \in Nat : /\ Reply(ResyncRange(from), from, to, dropped)
                        /\ Pushed <= to /\ from - 1 <= to
                        /\ from <= events + 1 => to <= events
  BY <1>1, ResyncReplies
<1>3. QED BY <1>1, <1>2 DEF Reply

(* A replay: an event for each member of s, and its end.                   *)
IsReplay(fs, s, to) ==
  /\ fs \in Seq(DownFrame)
  /\ Len(fs) = Len(s) + 1
  /\ \A i \in 1..Len(s) : fs[i] = [type |-> "event", seq |-> s[i]]
  /\ fs[Len(s) + 1] = [type |-> "resync_end", seq |-> to]

(* What ReplayFrames builds is one.                                        *)
LEMMA ReplayShape ==
  ASSUME NEW from \in Nat \ {0}, NEW fr \in Seq(Nat), NEW to \in Nat, to = ReplayTo(from, fr)
  PROVE  IsReplay(ReplayFrames(from, fr), fr, to)
<1> DEFINE ev == [i \in 1..Len(fr) |-> [type |-> "event", seq |-> fr[i]]]
           end == [type |-> "resync_end", seq |-> to]
<1>1. PICK k \in Nat : k = Len(fr) OBVIOUS
<1>2. \A i \in 1..k : fr[i] \in Nat BY <1>1, ElementOfSeq
<1>3. \A i \in 1..k : [type |-> "event", seq |-> fr[i]] \in DownFrame
  BY <1>2 DEF DownFrame
<1>4. ev \in Seq(DownFrame) /\ Len(ev) = k
  <2>1. ev \in Seq(DownFrame) BY <1>1, <1>3, IsASeq
  <2>2. DOMAIN ev = 1..k BY <1>1
  <2> HIDE DEF ev
  <2>3. QED BY <1>1, <2>1, <2>2, LenProperties
<1>5. end \in DownFrame BY DEF DownFrame
<1>6. \A i \in 1..k : ev[i] = [type |-> "event", seq |-> fr[i]] BY <1>1
<1>7. ReplayFrames(from, fr) = Append(ev, end) BY DEF ReplayFrames
<1> HIDE DEF ev, end
<1>8. QED BY <1>1, <1>4, <1>5, <1>6, <1>7, AppendProperties DEF end, IsReplay

LEMMA LinkInvInit == Init => LinkInv
<1> SUFFICES ASSUME Init PROVE LinkInv OBVIOUS
<1>1. FloorsBounded BY DEF Init, FloorsBounded, NoFloor
<1>2. ASSUME NEW c \in Clients PROVE Linked(c) /\ Bounded(c)
  <2>1. /\ events = 0 /\ commit = "idle" /\ phase[c] = "out" /\ sess[c] = "none"
        /\ rx[c] = <<>> /\ up[c] = <<>> /\ erx[c] = <<>> /\ down[c] = <<>>
        /\ ~lagged[c] /\ next_expected[c] = 0 /\ nextExpected[c] = 1
    BY DEF Init
  <2>3. Linked(c) BY <2>1, NoneRises DEF Linked
  <2>4. <<>> \in Seq(DownTo(0)) /\ <<>> \in Seq(UpTo(1)) /\ <<>> \in Seq(1..1)
    BY EmptySeq
  <2>5. Bounded(c) BY <2>1, <2>4 DEF Bounded
  <2>6. QED BY <2>3, <2>5
<1>3. QED BY <1>1, <1>2 DEF LinkInv

(* Steps of the room alone.                                                *)
LEMMA CommitKeepsLinkInv == RoomInv /\ LinkInv /\ Commit => LinkInv'
<1> SUFFICES ASSUME RoomInv, LinkInv, Commit PROVE LinkInv' OBVIOUS
<1> USE DEF server, room, egress, wire, client, causes, bounds
<1>1. events \in Nat /\ events' \in Nat /\ events <= events'
  BY DEF RoomInv, TypeOK, Commit, CommitStore, PublishDropped, CommitRing, CommitSeq,
         CommitSend
<1>2. FloorsBounded'
  <2>1. session_floors' = session_floors
    BY DEF Commit, CommitStore, PublishDropped, CommitRing, CommitSeq, CommitSend
  <2> SUFFICES ASSUME NEW u \in Users PROVE session_floors[u] <= events'
    BY <2>1 DEF FloorsBounded
  <2>2. session_floors[u] \in Nat \cup {NoFloor} BY DEF RoomInv, TypeOK
  <2>3. session_floors[u] <= events BY DEF LinkInv, FloorsBounded
  <2>4. QED BY <1>1, <2>2, <2>3 DEF NoFloor
<1>3. ASSUME NEW c \in Clients PROVE Bounded(c)'
  <2>1. UNCHANGED <<next_expected, up, erx, down, nextExpected>>
    BY DEF Commit, CommitStore, PublishDropped, CommitRing, CommitSeq, CommitSend
  <2>2. Bounded(c) BY DEF LinkInv
  <2>3. nextExpected[c] \in Nat /\ next_expected[c] \in Nat BY DEF RoomInv, TypeOK
  <2>4. DownTo(events) \subseteq DownTo(events') BY <1>1 DEF DownTo, DownFrame
  <2>5. down'[c] \in Seq(DownTo(events')) BY <2>1, <2>2, <2>4, SeqMonotone DEF Bounded
  <2>6. QED BY <1>1, <2>1, <2>2, <2>3, <2>5 DEF Bounded
<1>4. ASSUME NEW c \in Clients PROVE Linked(c)'
  <2>1. Linked(c) BY DEF LinkInv
  <2>2. /\ rx[c] \in Seq(Nat) /\ Sent \in Nat /\ dropped \subseteq dropped'
        /\ next_expected[c] \in Nat
    BY RoomTyped DEF RoomInv, TypeOK, Commit, CommitStore, PublishDropped, CommitRing,
                     CommitSeq, CommitSend
  <2>3. CASE CommitStore \/ CommitRing \/ CommitSeq
    <3>1. Sent' = Sent /\ dropped' = dropped
      <4>1. CASE CommitStore BY <1>1, <4>1 DEF CommitStore, Sent
      <4>2. CASE CommitRing BY <1>1, <4>2 DEF CommitRing, Sent
      <4>3. CASE CommitSeq BY <1>1, <4>3 DEF CommitSeq, Sent
      <4>4. QED BY <2>3, <4>1, <4>2, <4>3
    <3>2. UNCHANGED <<egress, wire, client>>
      BY <2>3 DEF CommitStore, CommitRing, CommitSeq
    <3>3. QED BY <2>1, <3>1, <3>2 DEF Linked
  <2>4. CASE PublishDropped
    <3>1. Sent' = Sent + 1 /\ Sent' = events /\ dropped' = dropped \cup {events}
      BY <1>1, <2>4 DEF PublishDropped, Sent
    <3>2. UNCHANGED <<egress, wire, client>> BY <2>4 DEF PublishDropped
    <3>3. Within(rx[c], Sent')
      <4>1. \A i \in 1..Len(rx[c]) : rx[c][i] \in Nat BY <2>2, ElementOfSeq
      <4>2. QED BY <2>1, <2>2, <3>1, <4>1 DEF Linked, Within
    <3>4. ASSUME sess[c] = "live", ~lagged[c]
          PROVE  Covers(rx[c], next_expected[c], Sent', dropped')
      <4>1. Covers(rx[c], next_expected[c], Sent, dropped) BY <2>1, <3>4 DEF Linked
      <4>2. QED BY <2>2, <3>1, <4>1 DEF Covers
    <3>5. QED BY <2>1, <3>2, <3>3, <3>4 DEF Linked
  <2>5. CASE CommitSend
    <3>1. Sent' = Sent + 1 /\ Sent' = events /\ Sent < events /\ dropped' = dropped
      BY <1>1, <2>2, <2>5 DEF CommitSend, Sent
    <3>2. rx'[c] = Received(c) /\ lagged'[c] = (lagged[c] \/ Overflows(c))
      BY <2>5 DEF CommitSend
    <3>3. UNCHANGED <<sess, erx, next_expected, wire, client>>
      BY <2>5 DEF CommitSend
    <3>4. CASE sess[c] = "none"
      <4>1. rx[c] = <<>> /\ ~lagged[c] BY <2>1, <3>4 DEF Linked
      <4>2. rx'[c] = <<>> /\ ~lagged'[c] BY <3>2, <3>4, <4>1 DEF Received, Overflows
      <4>3. QED BY <2>1, <3>3, <3>4, <4>2, NoneRises DEF Linked
    <3>5. CASE sess[c] # "none" /\ ~Overflows(c)
      <4>1. rx'[c] = Append(rx[c], events) BY <3>2, <3>5 DEF Received
      <4>2. /\ Rising(rx'[c]) /\ Within(rx'[c], Sent') /\ Holds(rx'[c], events)
            /\ \A x : Holds(rx[c], x) => Holds(rx'[c], x)
        BY <1>1, <2>1, <2>2, <3>1, <4>1, RisesBy DEF Linked
      <4>3. ASSUME sess'[c] = "live", ~lagged'[c]
            PROVE  Covers(rx'[c], next_expected'[c], Sent', dropped')
        <5>1. sess[c] = "live" /\ ~lagged[c] BY <3>2, <3>3, <4>3, Zenon
        <5>2. Covers(rx[c], next_expected[c], Sent, dropped) BY <2>1, <5>1 DEF Linked
        <5>3. ASSUME NEW x \in next_expected[c]..events PROVE Holds(rx'[c], x) \/ x \in dropped
          <6>1. x = events \/ x \in next_expected[c]..Sent BY <1>1, <2>2, <3>1
          <6>2. QED BY <4>2, <5>2, <6>1 DEF Covers
        <5>4. QED BY <3>1, <3>3, <5>3 DEF Covers
      <4>4. QED BY <2>1, <3>3, <3>5, <4>2, <4>3 DEF Linked
    <3>6. CASE sess[c] # "none" /\ Overflows(c)
      <4>1. rx[c] # <<>>
        <5>1. Len(rx[c]) >= BroadcastCap /\ BroadcastCap \in Nat \ {0}
          BY <3>6, ConstantsOK DEF Overflows
        <5>2. Len(<<>>) = 0 OBVIOUS
        <5>3. QED BY <5>1, <5>2
      <4>2. Tail(rx[c]) \in Seq(Nat) /\ Rising(Tail(rx[c])) /\ Within(Tail(rx[c]), Sent)
        BY <2>1, <2>2, <4>1, RisesOn DEF Linked
      <4>3. rx'[c] = Append(Tail(rx[c]), events) BY <3>2, <3>6 DEF Received
      <4>4. Rising(rx'[c]) /\ Within(rx'[c], Sent')
        BY <1>1, <2>2, <3>1, <4>2, <4>3, RisesBy
      <4>5. lagged'[c] BY <3>2, <3>6
      <4>6. QED BY <2>1, <3>3, <3>6, <4>4, <4>5 DEF Linked
    <3>7. QED BY <3>4, <3>5, <3>6
  <2>6. QED BY <2>3, <2>4, <2>5 DEF Commit
<1>5. QED BY <1>2, <1>3, <1>4 DEF LinkInv

-----------------------------------------------------------------------------
(* What of the room its sessions' links depend on stays.                   *)
RoomKept == Sent' = Sent /\ events' = events /\ dropped' = dropped

(* A client none of whose state moves.                                     *)
Untouched(c) ==
  /\ phase'[c] = phase[c] /\ sess'[c] = sess[c] /\ rx'[c] = rx[c]
  /\ lagged'[c] = lagged[c] /\ erx'[c] = erx[c] /\ next_expected'[c] = next_expected[c]
  /\ up'[c] = up[c] /\ down'[c] = down[c] /\ nextExpected'[c] = nextExpected[c]

LEMMA UntouchedLinks ==
  ASSUME LinkInv, NEW c \in Clients, Untouched(c), RoomKept
  PROVE  Linked(c)' /\ Bounded(c)'
<1>1. Linked(c) /\ Bounded(c) BY DEF LinkInv
<1>2. Linked(c)' BY <1>1 DEF Untouched, RoomKept, Linked
<1>3. Bounded(c)' BY <1>1 DEF Untouched, RoomKept, Bounded
<1>4. QED BY <1>2, <1>3

(* A session whose socket is gone.                                         *)
LEMMA CutLinks ==
  ASSUME NEW S, Cut(S), NEW c \in Clients, c \in S, phase'[c] # "open",
         NEW e \in Nat, events' = e,
         NEW n \in Nat \ {0}, nextExpected'[c] = n, n <= e + 1
  PROVE  Linked(c)' /\ Bounded(c)'
<1>1. /\ sess'[c] = "none" /\ rx'[c] = <<>> /\ ~lagged'[c] /\ erx'[c] = <<>>
      /\ up'[c] = <<>> /\ down'[c] = <<>> /\ next_expected'[c] = 0
  BY DEF Cut
<1>3. Linked(c)' BY <1>1, NoneRises DEF Linked
<1>4. <<>> \in Seq(DownTo(e)) /\ <<>> \in Seq(UpTo(n)) /\ <<>> \in Seq(1..n)
  BY EmptySeq
<1>5. Bounded(c)' BY <1>1, <1>4 DEF Bounded
<1>6. QED BY <1>3, <1>5

(* A session that the cut leaves alone.                                    *)
LEMMA CutUntouched ==
  ASSUME RoomInv, NEW S, Cut(S), NEW c \in Clients, c \notin S, phase'[c] = phase[c],
         nextExpected'[c] = nextExpected[c]
  PROVE  Untouched(c)
<1>1. lagged[c] \in BOOLEAN BY DEF RoomInv, TypeOK
<1>2. lagged'[c] = (c \notin S /\ lagged[c]) BY DEF Cut
<1>3. lagged'[c] = lagged[c] BY <1>1, <1>2
<1>4. QED BY <1>3 DEF Untouched, Cut

LEMMA RoomIsKept ==
  UNCHANGED <<events, commit, dropped>> => RoomKept
BY DEF Sent, RoomKept

LEMMA SessionKeepsLinkInv ==
  ASSUME RoomInv, LinkInv, NEW c \in Clients,
         Bootstrap(c) \/ Connect(c) \/ Disconnect(c) \/ Leave(c)
  PROVE  LinkInv'
<1> USE DEF server, room, egress, wire, causes, bounds
<1>1. UNCHANGED <<events, commit, dropped, session_floors>>
  BY DEF Bootstrap, SnapshotDocs, SnapshotSeq, SnapshotFails, Connect, Disconnect, Leave
<1>2. RoomKept /\ events' = events /\ Sent' = Sent BY <1>1, RoomIsKept DEF RoomKept
<1>3. FloorsBounded' BY <1>1 DEF LinkInv, FloorsBounded
<1>4. Linked(c) /\ Bounded(c) BY DEF LinkInv
<1>5. ASSUME NEW d \in Clients, d # c PROVE Untouched(d)
  <2>1. CASE Bootstrap(c)
    BY <1>5, <2>1 DEF Bootstrap, SnapshotDocs, SnapshotSeq, SnapshotFails, StartAt,
                      Untouched, RoomInv, TypeOK
  <2>2. CASE Connect(c) BY <1>5, <2>2 DEF Connect, Untouched, RoomInv, TypeOK
  <2>3. CASE Disconnect(c)
    <3>1. Cut({c}) /\ phase'[d] = phase[d] /\ nextExpected'[d] = nextExpected[d]
      BY <1>5, <2>3 DEF Disconnect, RoomInv, TypeOK
    <3>2. d \notin {c} BY <1>5
    <3>3. QED BY <3>1, <3>2, CutUntouched
  <2>4. CASE Leave(c)
    <3>1. Cut({c}) /\ phase'[d] = phase[d] /\ nextExpected'[d] = nextExpected[d]
      BY <1>5, <2>4 DEF Leave, RoomInv, TypeOK
    <3>2. d \notin {c} BY <1>5
    <3>3. QED BY <3>1, <3>2, CutUntouched
  <2>5. QED BY <2>1, <2>2, <2>3, <2>4
<1>6. Linked(c)' /\ Bounded(c)'
  <2>1. events \in Nat /\ Sent \in Nat /\ current_seq \in Nat BY RoomTyped
  <2>2. nextExpected[c] \in Nat \ {0} /\ nextExpected[c] <= events + 1
    BY <1>4 DEF Bounded, RoomInv, TypeOK
  <2>3. CASE Bootstrap(c)
    <3>1. /\ phase[c] # "open" /\ phase'[c] # "open"
          /\ UNCHANGED <<sess, rx, lagged, erx, next_expected, up, down>>
      BY <2>3 DEF Bootstrap, SnapshotDocs, SnapshotSeq, SnapshotFails, StartAt,
                  RoomInv, TypeOK
    <3>2. nextExpected'[c] \in {nextExpected[c], MaxOf(nextExpected[c], current_seq + 1),
                                MaxOf(nextExpected[c], 1)}
      BY <2>3 DEF Bootstrap, SnapshotDocs, SnapshotSeq, SnapshotFails, StartAt,
                  RoomInv, TypeOK
    <3>3. current_seq <= events BY <2>1 DEF RoomInv, CommitSteps
    <3>4. nextExpected'[c] \in Nat \ {0} /\ nextExpected'[c] <= events + 1
      BY <2>1, <2>2, <3>2, <3>3 DEF MaxOf
    <3>5. sess[c] = "none" BY <1>4, <3>1 DEF Linked
    <3>6. /\ rx[c] = <<>> /\ up[c] = <<>> /\ ~lagged[c] /\ erx[c] = <<>> /\ down[c] = <<>>
      BY <1>4, <3>5 DEF Linked
    <3>7. Linked(c)'
      <4>1. sess'[c] = "none" /\ rx'[c] = <<>> /\ up'[c] = <<>> /\ ~lagged'[c]
            /\ erx'[c] = <<>> /\ down'[c] = <<>> /\ phase'[c] # "open"
        BY <3>1, <3>5, <3>6
      <4> QED BY <4>1, NoneRises DEF Linked
    <3>8. <<>> \in Seq(UpTo(nextExpected'[c])) /\ <<>> \in Seq(1..nextExpected'[c])
      BY EmptySeq
    <3>9. Bounded(c)' BY <1>2, <1>4, <3>1, <3>4, <3>6, <3>8 DEF Bounded
    <3>10. QED BY <3>7, <3>9
  <2>4. CASE Connect(c)
    <3>1. /\ phase[c] # "open" /\ phase'[c] = "open" /\ sess'[c] = "subscribed"
          /\ up'[c] = <<Hello(c)>>
          /\ UNCHANGED <<rx, lagged, erx, next_expected, down, nextExpected>>
      BY <2>4 DEF Connect, RoomInv, TypeOK
    <3>2. sess[c] = "none" BY <1>4, <3>1 DEF Linked
    <3>3. rx[c] = <<>> /\ erx[c] = <<>> /\ down[c] = <<>> BY <1>4, <3>2 DEF Linked
    <3>4. Linked(c)' BY <1>4, <3>1, <3>3, NoneRises DEF Linked
    <3>5. Hello(c) \in UpTo(nextExpected[c])
      BY <2>2 DEF Hello, UpTo, UpFrame
    <3>6. <<Hello(c)>> \in Seq(UpTo(nextExpected[c])) BY <3>5
    <3>7. Bounded(c)' BY <1>2, <1>4, <3>1, <3>6 DEF Bounded
    <3>8. QED BY <3>4, <3>7
  <2>5. CASE Disconnect(c)
    <3>1. Cut({c}) /\ phase'[c] # "open" /\ nextExpected'[c] = nextExpected[c]
      BY <2>5 DEF Disconnect, RoomInv, TypeOK
    <3>2. c \in {c} OBVIOUS
    <3>3. QED BY <1>2, <2>1, <2>2, <3>1, <3>2, CutLinks
  <2>6. CASE Leave(c)
    <3>1. Cut({c}) /\ phase'[c] # "open" /\ nextExpected'[c] = 1
      BY <2>6 DEF Leave, RoomInv, TypeOK
    <3>2. c \in {c} OBVIOUS
    <3>3. nextExpected'[c] \in Nat \ {0} /\ nextExpected'[c] <= events' + 1
      BY <1>2, <2>1, <3>1
    <3>4. QED BY <1>2, <2>1, <3>1, <3>2, <3>3, CutLinks
  <2>7. QED BY <2>3, <2>4, <2>5, <2>6
<1>7. ASSUME NEW d \in Clients PROVE Linked(d)' /\ Bounded(d)'
  <2>1. CASE d = c BY <1>6, <2>1
  <2>2. CASE d # c BY <1>2, <1>5, <2>2, UntouchedLinks
  <2>3. QED BY <2>1, <2>2
<1>8. QED BY <1>3, <1>7 DEF LinkInv

(* Welcome sets the watermark right behind the newest event the receiver   *)
(* can have missed.                                                        *)
LEMMA WelcomeKeepsLinkInv ==
  ASSUME RoomInv, LinkInv, NEW c \in Clients, Welcome(c)
  PROVE  LinkInv'
<1>1. UNCHANGED <<events, commit, dropped, session_floors>> BY DEF Welcome, server, room
<1>2. RoomKept /\ events' = events /\ Sent' = Sent BY <1>1, RoomIsKept DEF RoomKept
<1>3. FloorsBounded' BY <1>1 DEF LinkInv, FloorsBounded
<1>4. Linked(c) /\ Bounded(c) BY DEF LinkInv
<1>5. /\ sess[c] = "subscribed" /\ sess'[c] = "live" /\ phase'[c] = phase[c]
      /\ rx'[c] = rx[c] /\ lagged'[c] = lagged[c] /\ erx'[c] = erx[c] /\ up'[c] = up[c]
      /\ nextExpected'[c] = nextExpected[c]
      /\ next_expected'[c] = current_seq + 1
      /\ down'[c] = <<[type |-> "welcome", seq |-> current_seq]>>
  BY DEF Welcome, client, RoomInv, TypeOK
<1>6. events \in Nat /\ current_seq \in Nat /\ current_seq <= events
  BY RoomTyped DEF RoomInv, CommitSteps
<1>7. Covers(rx[c], current_seq + 1, Sent, dropped)
  BY DEF RoomInv, CommitSteps, Covers
<1>8. Linked(c)'
  <2>1. dropped' = dropped BY <1>2 DEF RoomKept
  <2>2. QED BY <1>2, <1>4, <1>5, <1>7, <2>1 DEF Linked
<1>9. Bounded(c)'
  <2>1. [type |-> "welcome", seq |-> current_seq] \in DownTo(events)
    BY <1>6 DEF DownTo, DownFrame
  <2>2. down'[c] \in Seq(DownTo(events)) BY <1>5, <2>1
  <2>3. next_expected'[c] <= events + 1 BY <1>5, <1>6
  <2>4. QED BY <1>2, <1>4, <1>5, <2>2, <2>3 DEF Bounded
<1>10. ASSUME NEW d \in Clients PROVE Linked(d)' /\ Bounded(d)'
  <2>1. CASE d = c BY <1>8, <1>9, <2>1
  <2>2. CASE d # c
    <3>1. Untouched(d)
      BY <2>2 DEF Welcome, client, Untouched, RoomInv, TypeOK
    <3>2. QED BY <1>2, <3>1, UntouchedLinks
  <2>3. QED BY <2>1, <2>2
<1>11. QED BY <1>3, <1>10 DEF LinkInv

(* A fresh room has nobody's receivers.                                    *)
LEMMA RebuildKeepsLinkInv ==
  ASSUME RoomInv, LinkInv, HandlerEnds \/ Restart
  PROVE  LinkInv'
<1> USE DEF server, room, egress, wire, client, causes, bounds
<1>1. events' = events BY DEF HandlerEnds, Restart
<1>2. Sent \in Nat /\ events \in Nat BY RoomTyped
<1>3. ASSUME FreshRoom PROVE FloorsBounded'
  <2>1. session_floors' = [u \in Users |-> NoFloor] /\ commit' = "idle"
    BY <1>3 DEF FreshRoom
  <2>2. \A u \in Users : session_floors'[u] <= events BY <1>2, <2>1 DEF NoFloor
  <2>3. FloorsBounded' BY <1>1, <2>2 DEF FloorsBounded
  <2>4. QED BY <2>3
<1>4. CASE Restart
  <2>1. FreshRoom /\ Cut(Clients) /\ nextExpected' = nextExpected BY <1>4 DEF Restart
  <2>2. ASSUME NEW c \in Clients PROVE Linked(c)' /\ Bounded(c)'
    <3>1. phase'[c] # "open" BY <1>4 DEF Restart
    <3>2. nextExpected[c] \in Nat \ {0} /\ nextExpected[c] <= events + 1
      BY DEF LinkInv, Bounded, RoomInv, TypeOK
    <3>3. nextExpected'[c] = nextExpected[c] BY <2>1
    <3>4. QED BY <1>1, <1>2, <1>3, <2>1, <3>1, <3>2, <3>3, CutLinks
  <2>3. QED BY <1>3, <2>1, <2>2 DEF LinkInv
<1>5. CASE HandlerEnds /\ UNCHANGED <<room, session_floors>>
  <2>1. RoomKept BY <1>5, RoomIsKept
  <2>2. FloorsBounded' BY <1>5 DEF LinkInv, FloorsBounded
  <2>3. ASSUME NEW c \in Clients PROVE Linked(c)' /\ Bounded(c)'
    <3>1. Untouched(c) BY <1>5 DEF HandlerEnds, Untouched
    <3>2. QED BY <1>1, <2>1, <3>1, UntouchedLinks
  <2>4. QED BY <2>2, <2>3 DEF LinkInv
<1>6. CASE HandlerEnds /\ ~UNCHANGED <<room, session_floors>>
  <2>1. Attached = {} /\ FreshRoom BY <1>6 DEF HandlerEnds
  <2>2. ASSUME NEW c \in Clients PROVE Linked(c)' /\ Bounded(c)'
    <3>1. Linked(c) /\ Bounded(c) BY DEF LinkInv
    <3>2. sess[c] = "none" BY <2>1 DEF Attached
    <3>3. /\ phase[c] # "open" /\ rx[c] = <<>> /\ up[c] = <<>> /\ ~lagged[c]
          /\ erx[c] = <<>> /\ down[c] = <<>>
      BY <3>1, <3>2 DEF Linked
    <3>4. Untouched(c) BY <1>6 DEF HandlerEnds, Untouched
    <3>5. Bounded(c)' BY <1>1, <3>1, <3>4 DEF Bounded, Untouched
    <3>6. /\ sess'[c] = "none" /\ phase'[c] # "open" /\ rx'[c] = <<>> /\ up'[c] = <<>>
          /\ ~lagged'[c] /\ erx'[c] = <<>> /\ down'[c] = <<>>
      BY <3>2, <3>3, <3>4 DEF Untouched
    <3>7. Linked(c)' BY <3>6, NoneRises DEF Linked
    <3>8. QED BY <3>5, <3>7
  <2>3. QED BY <1>3, <2>1, <2>2 DEF LinkInv
<1>7. QED BY <1>4, <1>5, <1>6

(* The ingress loop: a floor is a seq the room has seen, and what is asked *)
(* for stays what the client was missing.                                  *)
LEMMA IngressKeepsLinkInv ==
  ASSUME RoomInv, LinkInv, NEW c \in Clients, Ingress(c)
  PROVE  LinkInv'
<1> USE DEF server, room, egress, wire, client, causes, bounds
<1>1. UNCHANGED <<events, commit, dropped>> BY DEF Ingress, IngressHello, IngressResync
<1>2. RoomKept /\ events' = events /\ Sent' = Sent BY <1>1, RoomIsKept DEF RoomKept
<1>3. Linked(c) /\ Bounded(c) BY DEF LinkInv
<1>4. /\ up[c] # <<>> /\ sess[c] = "live" /\ up'[c] = Tail(up[c])
      /\ phase'[c] = phase[c] /\ sess'[c] = sess[c] /\ rx'[c] = rx[c]
      /\ lagged'[c] = lagged[c] /\ next_expected'[c] = next_expected[c]
      /\ down'[c] = down[c] /\ nextExpected'[c] = nextExpected[c]
  BY DEF Ingress, IngressHello, IngressResync, RoomInv, TypeOK
<1>5. /\ Head(up[c]) \in UpTo(nextExpected[c])
      /\ Tail(up[c]) \in Seq(UpTo(nextExpected[c]))
  BY <1>3, <1>4, HeadTailProperties DEF Bounded
<1>6. FloorsBounded'
  <2>1. current_seq <= events /\ current_seq \in Nat /\ events \in Nat
    BY RoomTyped DEF RoomInv, CommitSteps
  <2>2. \/ session_floors' = session_floors
        \/ session_floors' = [session_floors EXCEPT ![UserOf[c]] = current_seq]
    BY DEF Ingress, IngressHello, IngressResync
  <2>3. ASSUME NEW u \in Users PROVE session_floors'[u] <= events
    BY <2>1, <2>2 DEF LinkInv, FloorsBounded, RoomInv, TypeOK
  <2>4. QED BY <1>2, <2>3 DEF FloorsBounded
<1>7. Linked(c)' BY <1>2, <1>3, <1>4 DEF Linked, RoomKept
<1>8. Bounded(c)'
  <2>1. erx'[c] \in Seq(1..nextExpected[c])
    <3>1. CASE IngressHello(c) BY <1>3, <3>1 DEF IngressHello, Bounded
    <3>2. CASE IngressResync(c)
      <4>1. /\ Head(up[c]).type = "resync_request"
            /\ erx'[c] = Append(erx[c], Head(up[c]).seq)
        BY <3>2 DEF IngressResync, RoomInv, TypeOK
      <4>2. Head(up[c]).seq \in Nat \ {0} /\ Head(up[c]).seq <= nextExpected[c]
        BY <1>5, <4>1 DEF UpTo, UpFrame
      <4>3. nextExpected[c] \in Nat BY DEF RoomInv, TypeOK
      <4>4. Head(up[c]).seq \in 1..nextExpected[c] BY <4>2, <4>3
      <4>5. erx[c] \in Seq(1..nextExpected[c]) BY <1>3 DEF Bounded
      <4>6. QED BY <4>1, <4>4, <4>5, AppendProperties
    <3>3. QED BY <3>1, <3>2 DEF Ingress
  <2>2. QED BY <1>2, <1>3, <1>4, <1>5, <2>1 DEF Bounded
<1>9. ASSUME NEW d \in Clients PROVE Linked(d)' /\ Bounded(d)'
  <2>1. CASE d = c BY <1>7, <1>8, <2>1
  <2>2. CASE d # c
    <3>1. Untouched(d)
      BY <2>2 DEF Ingress, IngressHello, IngressResync, Untouched, RoomInv, TypeOK
    <3>2. QED BY <1>2, <3>1, UntouchedLinks
  <2>3. QED BY <2>1, <2>2
<1>10. QED BY <1>6, <1>9 DEF LinkInv

-----------------------------------------------------------------------------
(* What a replay puts on the wire stays within the log.                    *)
LEMMA ReplayDown ==
  ASSUME RoomInv, NEW from \in 1..(events + 1), NEW q \in Seq(DownTo(events))
  PROVE  q \o ReplayFrames(from, ResyncRange(from)) \in Seq(DownTo(events))
<1>1. PICK to \in Nat : /\ to = ReplayTo(from, ResyncRange(from))
                        /\ Reply(ResyncRange(from), from, to, dropped)
                        /\ to <= events
  BY ReplayReach
<1>2. PICK fr \in Seq(Nat) : fr = ResyncRange(from) BY <1>1 DEF Reply
<1>3. PICK k \in Nat : k = Len(fr) OBVIOUS
<1>4. PICK fs : fs = ReplayFrames(from, fr) OBVIOUS
<1>5. from \in Nat \ {0} /\ events \in Nat BY RoomTyped
<1>6. IsReplay(fs, fr, to) BY <1>1, <1>2, <1>4, <1>5, ReplayShape
<1>7. fs \in Seq(DownFrame) /\ Len(fs) = k + 1 BY <1>3, <1>6 DEF IsReplay
<1>8. ASSUME NEW i \in 1..(k + 1) PROVE fs[i] \in DownTo(events)
  <2>1. fs[i] \in DownFrame BY <1>7, ElementOfSeq
  <2>2. CASE i = k + 1
    <3>1. fs[i] = [type |-> "resync_end", seq |-> to] BY <1>3, <1>6, <2>2 DEF IsReplay
    <3>2. fs[i].seq = to BY <3>1
    <3>3. QED BY <1>1, <2>1, <3>2 DEF DownTo
  <2>3. CASE i # k + 1
    <3>1. i \in 1..k BY <2>3
    <3>2. fs[i] = [type |-> "event", seq |-> fr[i]] BY <1>3, <1>6, <3>1 DEF IsReplay
    <3>3. fr[i] \in from..to BY <1>1, <1>2, <1>3, <3>1 DEF Reply
    <3>4. fs[i].seq = fr[i] BY <3>2
    <3>5. fs[i].seq <= events BY <1>1, <1>5, <3>3, <3>4
    <3>6. QED BY <2>1, <3>5 DEF DownTo
  <2>4. QED BY <2>2, <2>3
<1>9. fs \in Seq(DownTo(events))
  <2>1. fs \in [1..(k + 1) -> DownFrame] BY <1>7, LenProperties
  <2>2. fs \in [1..(k + 1) -> DownTo(events)] BY <1>8, <2>1
  <2>3. QED BY <1>3, <2>2, SeqDef
<1>10. q \o fs \in Seq(DownTo(events)) BY <1>9, ConcatProperties
<1>11. QED BY <1>2, <1>4, <1>10

(* The egress loop.                                                        *)
LEMMA EgressKeepsLinkInv ==
  ASSUME RoomInv, LinkInv, NEW c \in Clients,
         EgressResync(c) \/ EgressLagged(c) \/ EgressEvent(c) \/ EgressGap(c)
  PROVE  LinkInv'
<1> USE DEF server, room, client, bounds
<1>1. UNCHANGED <<events, commit, dropped, session_floors>>
  BY DEF EgressResync, EgressLagged, EgressEvent, EgressGap
<1>2. RoomKept /\ events' = events /\ Sent' = Sent /\ dropped' = dropped
  BY <1>1, RoomIsKept DEF RoomKept
<1>3. Linked(c) /\ Bounded(c) BY DEF LinkInv
<1>4. FloorsBounded' BY <1>1 DEF LinkInv, FloorsBounded
<1>5. /\ sess[c] = "live" /\ sess'[c] = sess[c] /\ phase'[c] = phase[c] /\ up'[c] = up[c]
      /\ nextExpected'[c] = nextExpected[c]
  BY DEF EgressResync, EgressLagged, EgressEvent, EgressGap
<1>6. PICK ne \in Nat : ne = next_expected[c] /\ ne > 0 /\ ne <= events + 1
  BY <1>3, <1>5 DEF Bounded, RoomInv, TypeOK, Started
<1>7. PICK last \in Nat : last = Sent BY RoomTyped
<1>8. PICK e \in Nat : e = events /\ last <= e BY <1>7, RoomTyped
<1>9. /\ rx[c] \in Seq(Nat) /\ Rising(rx[c]) /\ Within(rx[c], last)
      /\ ~lagged[c] => Covers(rx[c], ne, last, dropped)
      /\ down[c] \in Seq(DownTo(events))
  BY <1>3, <1>5, <1>6, <1>7 DEF Linked, Bounded, RoomInv, TypeOK
<1>10. ne \in 1..(events + 1) BY <1>6, <1>8
<1>11. ASSUME NEW h \in Nat, h <= e PROVE <<[type |-> "event", seq |-> h]>> \in Seq(DownTo(events))
  <2>1. [type |-> "event", seq |-> h] \in DownTo(events)
    BY <1>8, <1>11 DEF DownTo, DownFrame
  <2>2. QED BY <2>1
<1>12. ASSUME EgressEvent(c) \/ EgressGap(c)
       PROVE  /\ rx[c] # <<>> /\ ~lagged[c] /\ rx'[c] = Tail(rx[c])
              /\ lagged'[c] = lagged[c] /\ erx'[c] = erx[c]
              /\ Head(rx[c]) \in Nat /\ Head(rx[c]) <= last
              /\ Rising(rx'[c]) /\ Within(rx'[c], last)
              /\ \A on \in Nat : ne <= on /\ Head(rx[c]) < on
                                 => Covers(rx'[c], on, last, dropped)
  <2>1. /\ rx[c] # <<>> /\ ~lagged[c] /\ rx'[c] = Tail(rx[c])
        /\ lagged'[c] = lagged[c] /\ erx'[c] = erx[c]
    BY <1>12 DEF EgressEvent, EgressGap, RoomInv, TypeOK
  <2>2. QED BY <1>9, <2>1, RisesOn, CoversOn
<1>13. Linked(c)' /\ Bounded(c)'
  <2>1. CASE EgressResync(c)
    <3> DEFINE from == ClampFrom(UserOf[c], Head(erx[c]))
               to == ReplayTo(from, ResyncRange(from))
    <3>1. /\ down'[c] = down[c] \o ReplayFrames(from, ResyncRange(from))
          /\ next_expected'[c] = MaxOf(to + 1, next_expected[c])
          /\ erx[c] # <<>> /\ erx'[c] = Tail(erx[c])
          /\ rx'[c] = rx[c] /\ lagged'[c] = lagged[c]
      BY <2>1 DEF EgressResync, RoomInv, TypeOK
    <3>2. /\ Head(erx[c]) \in 1..nextExpected[c]
          /\ Tail(erx[c]) \in Seq(1..nextExpected[c])
      BY <1>3, <3>1, HeadTailProperties DEF Bounded
    <3>3. from \in 1..(events + 1)
      <4>1. PICK h \in Nat \ {0} : h = Head(erx[c]) /\ h <= e + 1
        BY <1>3, <1>8, <3>2 DEF Bounded, RoomInv, TypeOK
      <4>2. PICK f \in Nat \ {0} : f = ResyncFloor(UserOf[c]) /\ f <= e + 1
        <5>1. UserOf[c] \in Users BY ConstantsOK
        <5>2. current_seq \in Nat /\ current_seq <= e
          BY <1>8, RoomTyped DEF RoomInv, CommitSteps
        <5>3. /\ session_floors[UserOf[c]] \in Nat \cup {NoFloor}
              /\ session_floors[UserOf[c]] <= e
          BY <1>8, <5>1 DEF LinkInv, FloorsBounded, RoomInv, TypeOK
        <5>4. QED BY <5>2, <5>3 DEF ResyncFloor, NoFloor
      <4>3. from \in {h, f} BY <4>1, <4>2 DEF ClampFrom, MaxOf
      <4>4. QED BY <1>8, <4>1, <4>2, <4>3
    <3> HIDE DEF from
    <3>4. PICK t \in Nat : t = to /\ t <= e BY <1>8, <3>3, ReplayReach
    <3> HIDE DEF to
    <3>5. down'[c] \in Seq(DownTo(events)) BY <1>9, <3>1, <3>3, ReplayDown
    <3>6. PICK m \in Nat : m = next_expected'[c] /\ m >= ne /\ m <= e + 1
      BY <1>6, <1>8, <3>1, <3>4 DEF MaxOf
    <3>7. ~lagged[c] => Covers(rx[c], m, last, dropped) BY <1>9, <3>6, CoversLater
    <3>8. Linked(c)'
      BY <1>2, <1>3, <1>5, <1>7, <1>9, <3>1, <3>6, <3>7 DEF Linked
    <3>9. Bounded(c)' BY <1>2, <1>3, <1>5, <1>8, <3>1, <3>2, <3>5, <3>6 DEF Bounded
    <3>10. QED BY <3>8, <3>9
  <2>2. CASE EgressLagged(c)
    <3> DEFINE to == ReplayTo(ne, ResyncRange(ne))
    <3>1. /\ down'[c] = down[c] \o ReplayFrames(ne, ResyncRange(ne))
          /\ next_expected'[c] = to + 1
          /\ erx'[c] = erx[c] /\ rx'[c] = rx[c]
      BY <1>6, <2>2 DEF EgressLagged, RoomInv, TypeOK
    <3>2. PICK p \in Nat : p = Pushed /\ \A x \in (p + 1)..last : x \in dropped
      BY <1>7, RoomTyped
    <3>3. PICK t \in Nat : t = to /\ t <= e /\ p <= t BY <1>8, <1>10, <3>2, ReplayReach
    <3> HIDE DEF to
    <3>4. down'[c] \in Seq(DownTo(events)) BY <1>9, <1>10, <3>1, ReplayDown
    <3>5. next_expected'[c] = t + 1 /\ t + 1 <= e + 1 BY <3>1, <3>3
    <3>6. Covers(rx[c], t + 1, last, dropped) BY <3>2, <3>3 DEF Covers
    <3>7. Linked(c)'
      BY <1>2, <1>3, <1>5, <1>7, <1>9, <3>1, <3>5, <3>6 DEF Linked
    <3>8. Bounded(c)' BY <1>2, <1>3, <1>5, <1>8, <3>1, <3>4, <3>5 DEF Bounded
    <3>9. QED BY <3>7, <3>8
  <2>3. CASE EgressEvent(c)
    <3>1. PICK n \in Nat : n = Head(rx[c]) /\ n <= e BY <1>8, <1>12, <2>3
    <3>2. /\ next_expected'[c] = MaxOf(n + 1, ne)
          /\ down'[c] = down[c] \o (IF n = ne THEN <<[type |-> "event", seq |-> n]>> ELSE <<>>)
      BY <1>6, <2>3, <3>1 DEF EgressEvent, RoomInv, TypeOK
    <3>3. PICK m \in Nat : m = MaxOf(n + 1, ne) /\ n < m /\ ne <= m /\ m <= e + 1
      BY <1>6, <1>8, <3>1 DEF MaxOf
    <3>4. Covers(rx'[c], m, last, dropped) BY <1>12, <2>3, <3>1, <3>3
    <3>5. Linked(c)'
      BY <1>2, <1>3, <1>5, <1>7, <1>12, <2>3, <3>2, <3>3, <3>4 DEF Linked
    <3>6. down'[c] \in Seq(DownTo(events))
      <4>1. <<>> \in Seq(DownTo(events)) BY EmptySeq
      <4>2. CASE n = ne BY <1>9, <1>11, <3>1, <3>2, <4>2, ConcatProperties
      <4>3. CASE n # ne BY <1>9, <3>2, <4>1, <4>3, ConcatProperties
      <4>4. QED BY <4>2, <4>3
    <3>7. Bounded(c)' BY <1>2, <1>3, <1>5, <1>8, <1>12, <2>3, <3>2, <3>3, <3>6 DEF Bounded
    <3>8. QED BY <3>5, <3>7
  <2>4. CASE EgressGap(c)
    <3> DEFINE to == ReplayTo(ne, ResyncRange(ne))
               replay == ReplayFrames(ne, ResyncRange(ne))
    <3>1. PICK n \in Nat : n = Head(rx[c]) /\ n <= e BY <1>8, <1>12, <2>4
    <3>2. /\ next_expected'[c] = MaxOf(to, n) + 1 /\ ne < n
          /\ down'[c] = down[c] \o replay
                          \o (IF n > to THEN <<[type |-> "event", seq |-> n]>> ELSE <<>>)
      BY <1>6, <2>4, <3>1 DEF EgressGap, RoomInv, TypeOK
    <3>3. PICK t \in Nat : t = to /\ t <= e BY <1>8, <1>10, ReplayReach
    <3>4. PICK q \in Seq(DownTo(events)) : q = down[c] \o replay
      BY <1>9, <1>10, ReplayDown
    <3> HIDE DEF to, replay
    <3>5. PICK m \in Nat : m = MaxOf(t, n) + 1 /\ n < m /\ ne <= m /\ m <= e + 1
      BY <3>1, <3>2, <3>3 DEF MaxOf
    <3>6. Covers(rx'[c], m, last, dropped) BY <1>12, <2>4, <3>1, <3>5
    <3>7. Linked(c)'
      BY <1>2, <1>3, <1>5, <1>7, <1>12, <2>4, <3>2, <3>3, <3>5, <3>6 DEF Linked
    <3>8. down'[c] \in Seq(DownTo(events))
      <4>1. <<>> \in Seq(DownTo(events)) BY EmptySeq
      <4>2. CASE n > to BY <1>11, <3>1, <3>2, <3>4, <4>2, ConcatProperties
      <4>3. CASE ~(n > to) BY <3>2, <3>4, <4>1, <4>3, ConcatProperties
      <4>4. QED BY <4>2, <4>3
    <3>9. Bounded(c)'
      BY <1>2, <1>3, <1>5, <1>8, <1>12, <2>4, <3>2, <3>3, <3>5, <3>8 DEF Bounded
    <3>10. QED BY <3>7, <3>9
  <2>5. QED BY <2>1, <2>2, <2>3, <2>4
<1>14. ASSUME NEW d \in Clients PROVE Linked(d)' /\ Bounded(d)'
  <2>1. CASE d = c BY <1>13, <2>1
  <2>2. CASE d # c
    <3>1. Untouched(d)
      <4>1. CASE EgressResync(c) BY <2>2, <4>1 DEF EgressResync, Untouched, RoomInv, TypeOK
      <4>2. CASE EgressLagged(c) BY <2>2, <4>2 DEF EgressLagged, Untouched, RoomInv, TypeOK
      <4>3. CASE EgressEvent(c) BY <2>2, <4>3 DEF EgressEvent, Untouched, RoomInv, TypeOK
      <4>4. CASE EgressGap(c) BY <2>2, <4>4 DEF EgressGap, Untouched, RoomInv, TypeOK
      <4>5. QED BY <4>1, <4>2, <4>3, <4>4
    <3>2. QED BY <1>2, <3>1, UntouchedLinks
  <2>3. QED BY <2>1, <2>2
<1>15. QED BY <1>4, <1>14 DEF LinkInv

(* The client: its watermark never passes what a frame told it.            *)
LEMMA FrameKeepsLinkInv ==
  ASSUME RoomInv, LinkInv, NEW c \in Clients, HandleFrame(c)
  PROVE  LinkInv'
<1> USE DEF server, room, egress, causes, bounds
<1>1. /\ UNCHANGED <<events, commit, dropped, session_floors>>
      /\ UNCHANGED <<phase, sess, rx, lagged, erx, next_expected>>
      /\ down[c] # <<>> /\ down' = [down EXCEPT ![c] = Tail(@)]
      /\ phase[c] = "open"
  BY DEF HandleFrame, ClientWelcome, ClientEvent, ClientResyncEnd, Take
<1>2. RoomKept /\ events' = events /\ Sent' = Sent BY <1>1, RoomIsKept DEF RoomKept
<1>3. Linked(c) /\ Bounded(c) BY DEF LinkInv
<1>4. FloorsBounded' BY <1>1, <1>2 DEF LinkInv, FloorsBounded
<1>5. PICK e \in Nat : e = events BY RoomTyped
<1>6. PICK x \in Nat \ {0} : x = nextExpected[c] /\ x <= e + 1
  BY <1>3, <1>5 DEF Bounded, RoomInv, TypeOK
<1>7. /\ Head(down[c]) \in DownTo(events) /\ down'[c] \in Seq(DownTo(events))
  <2>1. /\ Head(down[c]) \in DownTo(events) /\ Tail(down[c]) \in Seq(DownTo(events))
    BY <1>1, <1>3, HeadTailProperties DEF Bounded
  <2>2. down'[c] = Tail(down[c]) BY <1>1 DEF RoomInv, TypeOK
  <2>3. QED BY <2>1, <2>2
<1>8. PICK n \in Nat : n = Head(down[c]).seq /\ n <= e
  BY <1>5, <1>7 DEF DownTo, DownFrame
<1>9. \/ up' = up
      \/ nextExpected' = nextExpected /\ RequestResync(c)
  BY DEF HandleFrame, ClientWelcome, ClientEvent, ClientResyncEnd
<1>10. \/ nextExpected' = nextExpected
       \/ nextExpected' = [nextExpected EXCEPT ![c] = n + 1] /\ n = x
       \/ nextExpected' = [nextExpected EXCEPT ![c] = MaxOf(x, n + 1)]
  BY <1>6, <1>8 DEF HandleFrame, ClientWelcome, ClientEvent, ClientResyncEnd, AppliesEvent,
                    RoomInv, TypeOK
<1>11. PICK y \in Nat \ {0} : y = nextExpected'[c] /\ x <= y /\ y <= e + 1
  <2>1. CASE nextExpected' = nextExpected BY <1>6, <2>1
  <2>2. CASE nextExpected' = [nextExpected EXCEPT ![c] = n + 1] /\ n = x
    <3>1. nextExpected'[c] = n + 1 BY <2>2 DEF RoomInv, TypeOK
    <3>2. QED BY <1>6, <1>8, <2>2, <3>1
  <2>3. CASE nextExpected' = [nextExpected EXCEPT ![c] = MaxOf(x, n + 1)]
    <3>1. nextExpected'[c] = MaxOf(x, n + 1) BY <2>3 DEF RoomInv, TypeOK
    <3>2. QED BY <1>6, <1>8, <3>1 DEF MaxOf
  <2>4. QED BY <1>10, <2>1, <2>2, <2>3
<1>12. Linked(c)'
  <2>1. sess[c] # "none" BY <1>1, <1>3 DEF Linked
  <2>2. sess[c] = "live" BY <1>1, <1>3, <2>1 DEF Linked
  <2>3. QED BY <1>1, <1>2, <1>3, <2>2 DEF Linked, RoomKept
<1>13. Bounded(c)'
  <2>1. UpTo(x) \subseteq UpTo(y) /\ 1..x \subseteq 1..y
    BY <1>6, <1>11 DEF UpTo, UpFrame
  <2>2. up[c] \in Seq(UpTo(x)) /\ erx[c] \in Seq(1..x) BY <1>3, <1>6 DEF Bounded
  <2>3. up[c] \in Seq(UpTo(y)) /\ erx[c] \in Seq(1..y) BY <2>1, <2>2, SeqMonotone
  <2>4. up'[c] \in Seq(UpTo(y))
    <3>1. CASE up' = up BY <2>3, <3>1
    <3>2. CASE nextExpected' = nextExpected /\ RequestResync(c)
      <4>1. up'[c] = Append(up[c], [type |-> "resync_request", seq |-> x])
        BY <1>6, <3>2 DEF RequestResync, RoomInv, TypeOK
      <4>2. [type |-> "resync_request", seq |-> x] \in UpTo(y)
        BY <1>6, <1>11 DEF UpTo, UpFrame
      <4>3. QED BY <2>3, <4>1, <4>2, AppendProperties
    <3>3. QED BY <1>9, <3>1, <3>2
  <2>5. next_expected[c] <= events + 1 BY <1>3 DEF Bounded
  <2>6. QED BY <1>1, <1>2, <1>5, <1>7, <1>11, <2>3, <2>4, <2>5 DEF Bounded
<1>14. ASSUME NEW d \in Clients PROVE Linked(d)' /\ Bounded(d)'
  <2>1. CASE d = c BY <1>12, <1>13, <2>1
  <2>2. CASE d # c
    <3>1. nextExpected'[d] = nextExpected[d] BY <1>10, <2>2 DEF RoomInv, TypeOK
    <3>2. up'[d] = up[d] BY <1>9, <2>2 DEF RequestResync, RoomInv, TypeOK
    <3>3. down'[d] = down[d] BY <1>1, <2>2 DEF RoomInv, TypeOK
    <3>4. Untouched(d) BY <1>1, <3>1, <3>2, <3>3 DEF Untouched
    <3>5. QED BY <1>2, <3>4, UntouchedLinks
  <2>3. QED BY <2>1, <2>2
<1>15. QED BY <1>4, <1>14 DEF LinkInv

LEMMA LinksCorrect == Spec => [](RoomInv /\ LinkInv)
<1>1. LinkInv /\ RoomInv /\ [Next]_vars => LinkInv'
  <2> SUFFICES ASSUME RoomInv, LinkInv, [Next]_vars PROVE LinkInv' OBVIOUS
  <2>1. CASE Commit BY <2>1, CommitKeepsLinkInv
  <2>2. CASE HandlerEnds \/ Restart BY <2>2, RebuildKeepsLinkInv
  <2>3. ASSUME NEW c \in Clients,
               Bootstrap(c) \/ Connect(c) \/ Ingress(c) \/ Egress(c)
                 \/ HandleFrame(c) \/ Disconnect(c) \/ Leave(c)
        PROVE  LinkInv'
    BY <2>3, SessionKeepsLinkInv, WelcomeKeepsLinkInv, IngressKeepsLinkInv,
       EgressKeepsLinkInv, FrameKeepsLinkInv DEF Egress
  <2>4. CASE UNCHANGED vars
    <3>1. UNCHANGED <<events, commit, dropped, session_floors>> BY <2>4 DEF vars, server, room
    <3>2. \A c \in Clients : Untouched(c)
      BY <2>4 DEF vars, egress, wire, client, Untouched
    <3>3. RoomKept BY <3>1, RoomIsKept
    <3>4. FloorsBounded' BY <3>1 DEF LinkInv, FloorsBounded
    <3>5. QED BY <3>2, <3>3, <3>4, UntouchedLinks DEF LinkInv
  <2>5. QED BY <2>1, <2>2, <2>3, <2>4 DEF Next
<1>2. QED BY RoomCorrect, LinkInvInit, <1>1, PTL DEF Spec

(* The gap branch of the egress loop finds nothing but dropped publishes:  *)
(* what lies between an unlagged connection's watermark and its receiver's *)
(* next event was never sent to anyone.                                    *)
THEOREM NoGapCorrect == Spec => []EgressGapOnlyDropped
<1>1. RoomInv /\ LinkInv => EgressGapOnlyDropped
  <2> SUFFICES ASSUME RoomInv, LinkInv, NEW c \in Clients,
                      sess[c] = "live", ~lagged[c], rx[c] # <<>>,
                      NEW n \in next_expected[c]..(Head(rx[c]) - 1)
               PROVE  n \in dropped
    BY DEF EgressGapOnlyDropped
  <2>1. PICK last \in Nat : last = Sent BY RoomTyped
  <2>2. /\ rx[c] \in Seq(Nat) /\ Rising(rx[c]) /\ Within(rx[c], last)
        /\ Covers(rx[c], next_expected[c], last, dropped) /\ next_expected[c] \in Nat
    BY <2>1 DEF LinkInv, Linked, RoomInv, TypeOK
  <2>3. PICK h \in Nat : h = Head(rx[c]) /\ h <= last BY <2>2, RisesOn
  <2>4. Holds(rx[c], n) => h <= n BY <2>2, <2>3, RisesOn
  <2>5. ~Holds(rx[c], n) BY <2>2, <2>3, <2>4
  <2>6. n \in next_expected[c]..last BY <2>2, <2>3
  <2>7. QED BY <2>2, <2>5, <2>6 DEF Covers
<1>2. QED BY LinksCorrect, <1>1, PTL

(* No watermark and no frame in flight claims an event the log does not    *)
(* hold, so a crash invalidates none of them.                              *)
THEOREM NothingInventedCorrect == Spec => []NothingInvented
<1>1. RoomInv /\ LinkInv => NothingInvented
  <2> SUFFICES ASSUME RoomInv, LinkInv PROVE NothingInvented OBVIOUS
  <2>1. current_seq <= events BY RoomTyped DEF RoomInv, CommitSteps
  <2>2. ASSUME NEW c \in Clients, NEW i \in DOMAIN down[c] PROVE down[c][i].seq <= events
    <3>1. down[c] \in Seq(DownTo(events)) BY DEF LinkInv, Bounded
    <3>2. DOMAIN down[c] = 1..Len(down[c]) BY <3>1, LenProperties
    <3>3. down[c][i] \in DownTo(events) BY <3>1, <3>2, ElementOfSeq
    <3>4. QED BY <3>3 DEF DownTo
  <2>3. QED BY <2>1, <2>2 DEF NothingInvented, LinkInv, Bounded
<1>2. QED BY LinksCorrect, <1>1, PTL


-----------------------------------------------------------------------------
(* What one frame makes of a client that expects n, and when it is honest  *)
(* about L: a resync_end skips no event that is not in L.                  *)
After(n, f) ==
  CASE f.type = "event" /\ f.seq = n -> n + 1
    [] f.type = "resync_end" -> MaxOf(n, f.seq + 1)
    [] OTHER -> n

Honest(n, f, L) == f.type = "resync_end" => \A x \in n..f.seq : x \in L

(* s is what q makes, frame by frame, of a client that expects n; m is     *)
(* where it ends.                                                          *)
Trace(s, q, n, m, L) ==
  /\ s \in [0..Len(q) -> Nat]
  /\ s[0] = n /\ s[Len(q)] = m
  /\ \A i \in 0..Len(q) : s[i] <= m
  /\ \A i \in 1..Len(q) : s[i] = After(s[i - 1], q[i]) /\ Honest(s[i - 1], q[i], L)

Reads(q, n, m, L) == \E s : Trace(s, q, n, m, L)

LEMMA ReadsMore ==
  ASSUME NEW q, NEW n, NEW m, NEW L, NEW M, L \subseteq M, Reads(q, n, m, L)
  PROVE  Reads(q, n, m, M)
<1>1. PICK s : Trace(s, q, n, m, L) BY DEF Reads
<1>2. \A k, f : Honest(k, f, L) => Honest(k, f, M) BY DEF Honest
<1>3. Trace(s, q, n, m, M) BY <1>1, <1>2 DEF Trace
<1>4. QED BY <1>3 DEF Reads

LEMMA ReadsOne ==
  ASSUME NEW f \in DownFrame, NEW n \in Nat, f.type = "welcome", NEW L
  PROVE  Reads(<<f>>, n, n, L)
<1> DEFINE s == [i \in 0..1 |-> n]
<1>1. Len(<<f>>) = 1 /\ <<f>>[1] = f OBVIOUS
<1>2. s \in [0..1 -> Nat] /\ s[0] = n /\ s[1] = n OBVIOUS
<1>3. \A i \in 0..1 : s[i] <= n OBVIOUS
<1>4. After(n, f) = n /\ Honest(n, f, L) BY DEF After, Honest
<1> HIDE DEF s
<1>5. ASSUME NEW i \in 1..1
      PROVE  s[i] = After(s[i - 1], <<f>>[i]) /\ Honest(s[i - 1], <<f>>[i], L)
  <2>1. i = 1 /\ i - 1 = 0 OBVIOUS
  <2>2. QED BY <1>1, <1>2, <1>4, <2>1
<1>6. Trace(s, <<f>>, n, n, L) BY <1>1, <1>2, <1>3, <1>5 DEF Trace
<1>7. QED BY <1>6 DEF Reads

LEMMA ReadsAppend ==
  ASSUME NEW S, NEW q \in Seq(S), NEW n \in Nat, NEW m \in Nat, NEW L, Reads(q, n, m, L),
         NEW f \in S, Honest(m, f, L), NEW r \in Nat, r = After(m, f), r >= m
  PROVE  Reads(Append(q, f), n, r, L)
<1>1. PICK s : Trace(s, q, n, m, L) BY DEF Reads
<1>2. PICK k \in Nat : k = Len(q) OBVIOUS
<1> DEFINE a == Append(q, f)
           t == [i \in 0..(k + 1) |-> IF i = k + 1 THEN r ELSE s[i]]
<1>3. /\ Len(a) = k + 1 /\ \A i \in 1..k : a[i] = q[i]
      /\ a[k + 1] = f
  BY <1>2, AppendProperties
<1>4. \A i \in 0..k : s[i] \in Nat /\ s[i] <= m BY <1>1, <1>2 DEF Trace
<1>5. s[0] = n /\ s[k] = m BY <1>1, <1>2 DEF Trace
<1>6. \A i \in 1..k : s[i] = After(s[i - 1], q[i]) /\ Honest(s[i - 1], q[i], L)
  BY <1>1, <1>2 DEF Trace
<1> HIDE DEF a
<1>7. t \in [0..(k + 1) -> Nat]
  <2>1. ASSUME NEW i \in 0..(k + 1), i # k + 1 PROVE s[i] \in Nat BY <1>4, <2>1
  <2>2. QED BY <2>1
<1>8. t[k + 1] = r /\ \A i \in 0..k : t[i] = s[i] OBVIOUS
<1> HIDE DEF t
<1>9. t[0] = n BY <1>5, <1>8
<1>10. ASSUME NEW i \in 0..(k + 1) PROVE t[i] <= r
  <2>1. CASE i = k + 1 BY <1>8, <2>1
  <2>2. CASE i # k + 1
    <3>1. i \in 0..k BY <2>2
    <3>2. t[i] = s[i] /\ s[i] <= m /\ s[i] \in Nat BY <1>4, <1>8, <3>1
    <3>3. QED BY <3>2
  <2>3. QED BY <2>1, <2>2
<1>11. ASSUME NEW i \in 1..(k + 1)
       PROVE  t[i] = After(t[i - 1], a[i]) /\ Honest(t[i - 1], a[i], L)
  <2>1. CASE i = k + 1
    <3>1. i - 1 = k /\ k \in 0..k BY <2>1
    <3>2. t[i - 1] = m BY <1>5, <1>8, <3>1
    <3>3. QED BY <1>3, <1>8, <2>1, <3>2
  <2>2. CASE i # k + 1
    <3>1. i \in 1..k /\ i \in 0..k /\ i - 1 \in 0..k BY <2>2
    <3>2. t[i] = s[i] /\ t[i - 1] = s[i - 1] /\ a[i] = q[i] BY <1>3, <1>8, <3>1
    <3>3. QED BY <1>6, <3>1, <3>2
  <2>3. QED BY <2>1, <2>2
<1>12. Trace(t, a, n, r, L) BY <1>3, <1>7, <1>8, <1>9, <1>10, <1>11 DEF Trace
<1>13. QED BY <1>12 DEF Reads, a

LEMMA ReadsTail ==
  ASSUME NEW S, NEW q \in Seq(S), q # <<>>, NEW n \in Nat, NEW m \in Nat, NEW L,
         Reads(q, n, m, L)
  PROVE  /\ n <= m
         /\ Honest(n, Head(q), L)
         /\ Reads(Tail(q), After(n, Head(q)), m, L)
<1>1. PICK s : Trace(s, q, n, m, L) BY DEF Reads
<1>2. PICK k \in Nat : Len(q) = k + 1
  <2>1. Len(q) \in Nat /\ Len(q) # 0 BY EmptySeq
  <2>2. Len(q) - 1 \in Nat /\ Len(q) = (Len(q) - 1) + 1 BY <2>1
  <2>3. QED BY <2>2
<1> DEFINE b == Tail(q)
           t == [i \in 0..k |-> s[i + 1]]
<1>3. /\ Head(q) = q[1] /\ Len(b) = k /\ \A i \in 1..k : b[i] = q[i + 1]
  BY <1>2, HeadTailProperties
<1>4. \A i \in 0..(k + 1) : s[i] \in Nat /\ s[i] <= m BY <1>1, <1>2 DEF Trace
<1>5. s[0] = n /\ s[k + 1] = m BY <1>1, <1>2 DEF Trace
<1>6. \A i \in 1..(k + 1) : s[i] = After(s[i - 1], q[i]) /\ Honest(s[i - 1], q[i], L)
  BY <1>1, <1>2 DEF Trace
<1> HIDE DEF b
<1>7. 1 \in 1..(k + 1) /\ 1 - 1 = 0 /\ 0 \in 0..(k + 1) OBVIOUS
<1>8. s[1] = After(n, q[1]) /\ Honest(n, q[1], L) BY <1>5, <1>6, <1>7
<1>9. n <= m BY <1>4, <1>5, <1>7
<1>10. t \in [0..k -> Nat]
  <2>1. ASSUME NEW i \in 0..k PROVE s[i + 1] \in Nat BY <1>4
  <2>2. QED BY <2>1
<1>11. \A i \in 0..k : t[i] = s[i + 1] OBVIOUS
<1> HIDE DEF t
<1>12. t[0] = s[1]
  <2>1. 0 \in 0..k /\ 0 + 1 = 1 OBVIOUS
  <2>2. QED BY <1>11, <2>1
<1>13. t[k] = m BY <1>5, <1>11
<1>14. ASSUME NEW i \in 0..k PROVE t[i] <= m BY <1>4, <1>11
<1>15. ASSUME NEW i \in 1..k
       PROVE  t[i] = After(t[i - 1], b[i]) /\ Honest(t[i - 1], b[i], L)
  <2>1. i \in 0..k /\ i - 1 \in 0..k /\ i + 1 \in 1..(k + 1) /\ (i - 1) + 1 = i
        /\ (i + 1) - 1 = i
    OBVIOUS
  <2>2. t[i] = s[i + 1] /\ t[i - 1] = s[i] /\ b[i] = q[i + 1] BY <1>3, <1>11, <2>1
  <2>3. QED BY <1>6, <2>1, <2>2
<1>16. Trace(t, b, s[1], m, L) BY <1>3, <1>10, <1>12, <1>13, <1>14, <1>15 DEF Trace
<1>17. Reads(b, After(n, q[1]), m, L) BY <1>8, <1>16 DEF Reads
<1>18. QED BY <1>3, <1>8, <1>9, <1>17 DEF b

(* Where a client that expects m stands after the first i events of a      *)
(* rising replay: at the first event from m on that is not among them.     *)
At(fr, m, i, y) ==
  /\ y >= m
  /\ \A j \in 1..i : fr[j] # y
  /\ \A z \in m..(y - 1) : \E j \in 1..i : fr[j] = z

LEMMA AtSome ==
  ASSUME NEW fr \in Seq(Nat), Rising(fr), NEW m \in Nat, NEW i \in 0..Len(fr)
  PROVE  \E y \in Nat : At(fr, m, i, y)
<1> DEFINE T == {y \in Nat : y >= m /\ \A j \in 1..i : fr[j] # y}
<1>1. PICK l \in Nat : l = Len(fr) OBVIOUS
<1>2. T # {}
  <2>1. CASE i = 0
    <3>1. m \in T BY <2>1
    <3>2. QED BY <3>1
  <2>2. CASE i # 0
    <3>1. i \in 1..l BY <1>1, <2>2
    <3>2. PICK x \in Nat : x = fr[i] BY <1>1, <3>1, ElementOfSeq
    <3>3. ASSUME NEW j \in 1..i PROVE fr[j] \in Nat /\ fr[j] <= x
      <4>1. j \in 1..Len(fr) /\ i \in 1..Len(fr) /\ j <= i BY <1>1, <3>1
      <4>2. QED BY <3>2, <4>1, RisingPlaces
    <3>4. PICK y \in Nat : y = MaxOf(m, x + 1) /\ y >= m /\ y > x BY <3>2 DEF MaxOf
    <3>5. y \in T BY <3>3, <3>4
    <3>6. QED BY <3>5
  <2>3. QED BY <2>1, <2>2
<1>3. PICK y \in T : \A z \in T : y <= z
  <2>1. T \subseteq Nat OBVIOUS
  <2>2. QED BY <1>2, <2>1, LeastOf
<1>4. ASSUME NEW z \in m..(y - 1) PROVE \E j \in 1..i : fr[j] = z
  <2>1. z \in Nat /\ z >= m /\ z < y BY <1>3
  <2>2. z \notin T BY <1>3, <2>1
  <2>3. QED BY <2>1, <2>2
<1>5. QED BY <1>3, <1>4 DEF At

LEMMA AtOne ==
  ASSUME NEW fr, NEW m \in Nat, NEW i, NEW x \in Nat, NEW y \in Nat,
         At(fr, m, i, x), At(fr, m, i, y)
  PROVE  x = y
<1>1. ~(x < y)
  <2> SUFFICES ASSUME x < y PROVE FALSE OBVIOUS
  <2>1. x \in m..(y - 1) BY DEF At
  <2>2. QED BY <2>1 DEF At
<1>2. ~(y < x)
  <2> SUFFICES ASSUME y < x PROVE FALSE OBVIOUS
  <2>1. y \in m..(x - 1) BY DEF At
  <2>2. QED BY <2>1 DEF At
<1>3. QED BY <1>1, <1>2

(* The next event moves it if it is the one expected.                      *)
LEMMA AtNext ==
  ASSUME NEW fr \in Seq(Nat), Rising(fr), NEW m \in Nat, NEW i \in 1..Len(fr),
         NEW x \in Nat, At(fr, m, i - 1, x)
  PROVE  At(fr, m, i, IF fr[i] = x THEN x + 1 ELSE x)
<1>1. PICK l \in Nat : l = Len(fr) OBVIOUS
<1>2. fr[i] \in Nat BY ElementOfSeq
<1>3. i \in Nat /\ 1..i = (1..(i - 1)) \cup {i} BY <1>1
<1>4. CASE fr[i] = x
  <2>1. x + 1 >= m BY <1>4 DEF At
  <2>2. ASSUME NEW j \in 1..i PROVE fr[j] # x + 1
    <3>1. j \in 1..Len(fr) /\ i \in 1..Len(fr) /\ j <= i BY <1>1
    <3>2. fr[j] \in Nat /\ fr[j] <= fr[i] BY <3>1, RisingPlaces
    <3>3. QED BY <1>4, <3>2
  <2>3. ASSUME NEW z \in m..((x + 1) - 1) PROVE \E j \in 1..i : fr[j] = z
    <3>1. CASE z = x BY <1>3, <1>4, <3>1
    <3>2. CASE z # x
      <4>1. z \in m..(x - 1) BY <3>2
      <4>2. QED BY <1>3, <4>1 DEF At
    <3>3. QED BY <3>1, <3>2
  <2>4. At(fr, m, i, x + 1) BY <2>1, <2>2, <2>3 DEF At
  <2>5. QED BY <1>4, <2>4
<1>5. CASE fr[i] # x
  <2>1. At(fr, m, i, x) BY <1>3, <1>5 DEF At
  <2>2. QED BY <1>5, <2>1
<1>6. QED BY <1>4, <1>5

(* A replay takes the client that will expect m to the replay's end, and   *)
(* is honest about L if an event is in L once it or one before it, from m  *)
(* on, is not in the replay.                                               *)
LEMMA ReadsReplay ==
  ASSUME NEW q \in Seq(DownFrame), NEW n \in Nat, NEW m \in Nat, NEW L, Reads(q, n, m, L),
         NEW fr \in Seq(Nat), Rising(fr), NEW to \in Nat,
         \A i \in 1..Len(fr) : fr[i] <= to,
         \A x \in m..to : x \in L \/ \A y \in m..x : Holds(fr, y),
         NEW fs \in Seq(DownFrame), IsReplay(fs, fr, to)
  PROVE  Reads(q \o fs, n, MaxOf(m, to + 1), L)
<1>1. PICK s : Trace(s, q, n, m, L) BY DEF Reads
<1>2. PICK k \in Nat : k = Len(q) OBVIOUS
<1>3. PICK l \in Nat : l = Len(fr) OBVIOUS
<1>4. PICK End \in Nat : End = MaxOf(m, to + 1) /\ m <= End /\ to < End BY DEF MaxOf
<1> DEFINE v == [i \in 0..l |-> CHOOSE y \in Nat : At(fr, m, i, y)]
           a == q \o fs
           t == [i \in 0..(k + l + 1) |->
                   IF i <= k THEN s[i] ELSE IF i = k + l + 1 THEN End ELSE v[i - k]]
<1>5. \A i \in 0..l : v[i] \in Nat /\ At(fr, m, i, v[i]) BY <1>3, AtSome
<1> HIDE DEF v
<1>6. v[0] = m
  <2>1. At(fr, m, 0, m) BY DEF At
  <2>2. 0 \in 0..l OBVIOUS
  <2>3. QED BY <1>5, <2>1, <2>2, AtOne
<1>7. ASSUME NEW i \in 1..l PROVE v[i] = IF fr[i] = v[i - 1] THEN v[i - 1] + 1 ELSE v[i - 1]
  <2>1. i \in 1..Len(fr) /\ i \in 0..l /\ i - 1 \in 0..l BY <1>3
  <2>2. PICK x \in Nat : x = v[i - 1] /\ At(fr, m, i - 1, x) BY <1>5, <2>1
  <2>3. PICK y \in Nat : y = IF fr[i] = x THEN x + 1 ELSE x OBVIOUS
  <2>4. At(fr, m, i, y) BY <2>1, <2>2, <2>3, AtNext
  <2>5. v[i] = y BY <1>5, <2>1, <2>4, AtOne
  <2>6. QED BY <2>2, <2>3, <2>5
<1>8. ASSUME NEW i \in 0..l PROVE v[i] \in Nat /\ m <= v[i] /\ v[i] <= End
  <2>1. PICK x \in Nat : x = v[i] /\ At(fr, m, i, x) BY <1>5
  <2>2. m <= x BY <2>1 DEF At
  <2>3. x <= End
    <3>1. CASE x = m BY <1>4, <3>1
    <3>2. CASE x # m
      <4>1. x - 1 \in m..(x - 1) BY <2>2, <3>2
      <4>2. PICK j \in 1..i : fr[j] = x - 1 BY <2>1, <4>1 DEF At
      <4>3. j \in 1..Len(fr) BY <1>3
      <4>4. x - 1 <= to BY <4>2, <4>3
      <4>5. QED BY <1>4, <4>4
    <3>3. QED BY <3>1, <3>2
  <2>4. QED BY <2>1, <2>2, <2>3
<1>9. /\ Len(fs) = l + 1
      /\ \A i \in 1..l : fs[i] = [type |-> "event", seq |-> fr[i]]
      /\ fs[l + 1] = [type |-> "resync_end", seq |-> to]
  BY <1>3 DEF IsReplay
<1>10. /\ Len(a) = k + l + 1
       /\ \A i \in 1..k : a[i] = q[i]
       /\ \A i \in 1..(l + 1) : a[k + i] = fs[i]
  <2>1. /\ Len(a) = Len(q) + Len(fs)
        /\ \A i \in 1..(Len(q) + Len(fs)) : a[i] = IF i <= Len(q) THEN q[i] ELSE fs[i - Len(q)]
    BY ConcatProperties
  <2> HIDE DEF a
  <2>2. ASSUME NEW i \in 1..(l + 1) PROVE a[k + i] = fs[i]
    <3>1. k + i \in 1..(Len(q) + Len(fs)) /\ ~(k + i <= Len(q)) /\ (k + i) - Len(q) = i
      BY <1>2, <1>9
    <3>2. QED BY <2>1, <3>1
  <2>3. ASSUME NEW i \in 1..k PROVE a[i] = q[i]
    <3>1. i \in 1..(Len(q) + Len(fs)) /\ i <= Len(q) BY <1>2, <1>9
    <3>2. QED BY <2>1, <3>1
  <2>4. QED BY <1>2, <1>9, <2>1, <2>2, <2>3
<1> HIDE DEF a
<1>11. \A i \in 0..k : s[i] \in Nat /\ s[i] <= m BY <1>1, <1>2 DEF Trace
<1>12. s[0] = n /\ s[k] = m BY <1>1, <1>2 DEF Trace
<1>13. \A i \in 1..k : s[i] = After(s[i - 1], q[i]) /\ Honest(s[i - 1], q[i], L)
  BY <1>1, <1>2 DEF Trace
<1>14. \A i \in 0..k : t[i] = s[i] OBVIOUS
<1>15. t[k + l + 1] = End OBVIOUS
<1>16. ASSUME NEW i \in 0..l PROVE t[k + i] = v[i]
  <2>1. CASE i = 0
    <3>1. k + i = k /\ k \in 0..k BY <2>1
    <3>2. QED BY <1>6, <1>12, <1>14, <2>1, <3>1
  <2>2. CASE i # 0
    <3>1. ~(k + i <= k) /\ k + i # k + l + 1 /\ k + i \in 0..(k + l + 1)
      BY <2>2
    <3>2. (k + i) - k = i OBVIOUS
    <3>3. QED BY <3>1, <3>2
  <2>3. QED BY <2>1, <2>2
<1>17. t = [i \in 0..(k + l + 1) |-> t[i]] OBVIOUS
<1> HIDE DEF t
<1>18. ASSUME NEW i \in 0..(k + l + 1)
       PROVE  t[i] \in Nat /\ t[i] <= End
  <2>1. CASE i \in 0..k
    <3>1. t[i] = s[i] /\ s[i] \in Nat /\ s[i] <= m BY <1>11, <1>14, <2>1
    <3>2. QED BY <1>4, <3>1
  <2>2. CASE i = k + l + 1 BY <1>4, <1>15, <2>2
  <2>3. CASE i \notin 0..k /\ i # k + l + 1
    <3>1. PICK j \in 0..l : i = k + j
      <4>1. i - k \in 0..l /\ i = k + (i - k) BY <2>3
      <4>2. QED BY <4>1
    <3>2. QED BY <1>8, <1>16, <3>1
  <2>4. QED BY <2>1, <2>2, <2>3
<1>19. t \in [0..(k + l + 1) -> Nat] BY <1>17, <1>18
<1>20. t[0] = n
  <2>1. 0 \in 0..k OBVIOUS
  <2>2. QED BY <1>12, <1>14, <2>1
<1>21. ASSUME NEW i \in 1..(k + l + 1)
       PROVE  t[i] = After(t[i - 1], a[i]) /\ Honest(t[i - 1], a[i], L)
  <2>1. CASE i <= k
    <3>1. i \in 1..k /\ i \in 0..k /\ i - 1 \in 0..k BY <2>1
    <3>2. t[i] = s[i] /\ t[i - 1] = s[i - 1] /\ a[i] = q[i] BY <1>10, <1>14, <3>1
    <3>3. s[i] = After(s[i - 1], q[i]) /\ Honest(s[i - 1], q[i], L) BY <1>13, <3>1
    <3>4. QED BY <3>2, <3>3
  <2>2. CASE i = k + l + 1
    <3>1. i - 1 = k + l /\ l \in 0..l /\ l + 1 \in 1..(l + 1) /\ i = k + (l + 1) BY <2>2
    <3>2. PICK x \in Nat : /\ x = v[l] /\ At(fr, m, l, x) /\ m <= x /\ x <= End
                           /\ t[i - 1] = x
      BY <1>5, <1>8, <1>16, <3>1
    <3>3. PICK f : f = a[i] /\ f.type = "resync_end" /\ f.seq = to
      <4>1. a[i] = [type |-> "resync_end", seq |-> to] BY <1>9, <1>10, <3>1
      <4>2. a[i].type = "resync_end" /\ a[i].seq = to BY <4>1
      <4>3. QED BY <4>2
    <3>4. After(x, f) = End
      <4>1. MaxOf(x, to + 1) = End BY <1>4, <3>2 DEF MaxOf
      <4>2. QED BY <3>3, <4>1 DEF After
    <3>5. Honest(x, f, L)
      <4> SUFFICES ASSUME NEW y \in x..to PROVE y \in L BY <3>3 DEF Honest
      <4>1. y \in m..to /\ x \in m..y BY <3>2
      <4>2. ~Holds(fr, x) BY <1>3, <3>2 DEF Holds, At
      <4>3. QED BY <4>1, <4>2
    <3>6. QED BY <1>15, <2>2, <3>2, <3>3, <3>4, <3>5
  <2>3. CASE ~(i <= k) /\ i # k + l + 1
    <3>1. PICK j \in 1..l : i = k + j
      <4>1. i - k \in 1..l /\ i = k + (i - k) BY <2>3
      <4>2. QED BY <4>1
    <3>2. j \in 0..l /\ j - 1 \in 0..l /\ i - 1 = k + (j - 1) /\ j \in 1..(l + 1)
      BY <3>1
    <3>3. t[i] = v[j] /\ t[i - 1] = v[j - 1] BY <1>16, <3>1, <3>2
    <3>4. PICK f : f = a[i] /\ f.type = "event" /\ f.seq = fr[j]
      <4>1. a[i] = [type |-> "event", seq |-> fr[j]] BY <1>9, <1>10, <3>1, <3>2
      <4>2. a[i].type = "event" /\ a[i].seq = fr[j] BY <4>1
      <4>3. QED BY <4>2
    <3>5. After(v[j - 1], f) = v[j] BY <1>7, <3>4 DEF After
    <3>6. Honest(v[j - 1], f, L) BY <3>4 DEF Honest
    <3>7. QED BY <3>3, <3>4, <3>5, <3>6
  <2>4. QED BY <2>1, <2>2, <2>3
<1>22. Trace(t, a, n, End, L) BY <1>10, <1>15, <1>18, <1>19, <1>20, <1>21 DEF Trace
<1>23. QED BY <1>4, <1>22 DEF Reads, a

-----------------------------------------------------------------------------
(* Layer three's first half: what was applied is in order and behind the   *)
(* client's watermark, holes or not.                                       *)
Behind(c) ==
  /\ \A i \in 1..Len(seen[c]) : seen[c][i] < nextExpected[c]
  /\ \A i, j \in 1..Len(seen[c]) : i < j => seen[c][i] < seen[c][j]

(* A watermark that only rises past what was applied.                      *)
LEMMA BehindRises ==
  ASSUME RoomInv, NEW c \in Clients, Behind(c), seen'[c] = seen[c],
         NEW y \in Nat, nextExpected'[c] = y, nextExpected[c] <= y
  PROVE  Behind(c)'
<1>1. ASSUME NEW i \in 1..Len(seen[c]) PROVE seen[c][i] < y
  <2>1. PICK x \in Nat : x = nextExpected[c] BY DEF RoomInv, TypeOK
  <2>2. seen[c] \in Seq(Nat) BY DEF RoomInv, TypeOK
  <2>3. PICK a \in Nat : a = seen[c][i] BY <2>2, ElementOfSeq
  <2>4. a < x BY <2>1, <2>3 DEF Behind
  <2>5. QED BY <2>1, <2>3, <2>4
<1>2. QED BY <1>1 DEF Behind

(* Applying the expected event.                                            *)
LEMMA BehindApplies ==
  ASSUME RoomInv, NEW c \in Clients, Behind(c), NEW x \in Nat, nextExpected[c] = x,
         seen'[c] = Append(seen[c], x), nextExpected'[c] = x + 1
  PROVE  Behind(c)'
<1>1. PICK k \in Nat : k = Len(seen[c]) BY DEF RoomInv, TypeOK
<1>2. /\ Len(seen'[c]) = k + 1 /\ seen'[c][k + 1] = x
      /\ \A i \in 1..k : seen'[c][i] = seen[c][i]
  BY <1>1, AppendProperties DEF RoomInv, TypeOK
<1>3. ASSUME NEW i \in 1..k PROVE seen'[c][i] \in Nat /\ seen'[c][i] < x
  <2>1. seen[c] \in Seq(Nat) BY DEF RoomInv, TypeOK
  <2>2. seen[c][i] \in Nat BY <1>1, <2>1, ElementOfSeq
  <2>3. QED BY <1>1, <1>2, <2>2 DEF Behind
<1>4. ASSUME NEW i \in 1..(k + 1) PROVE seen'[c][i] < x + 1
  <2>1. CASE i = k + 1 BY <1>2, <2>1
  <2>2. CASE i # k + 1
    <3>1. i \in 1..k BY <2>2
    <3>2. QED BY <1>3, <3>1
  <2>3. QED BY <2>1, <2>2
<1>5. ASSUME NEW i \in 1..(k + 1), NEW j \in 1..(k + 1), i < j
      PROVE  seen'[c][i] < seen'[c][j]
  <2>1. i \in 1..k BY <1>5
  <2>2. CASE j = k + 1 BY <1>2, <1>3, <2>1, <2>2
  <2>3. CASE j # k + 1
    <3>1. j \in 1..k BY <2>3
    <3>2. seen[c][i] < seen[c][j] BY <1>1, <1>5, <2>1, <3>1 DEF Behind
    <3>3. QED BY <1>2, <2>1, <3>1, <3>2
  <2>4. QED BY <2>2, <2>3
<1>6. QED BY <1>2, <1>4, <1>5 DEF Behind

LEMMA FrameKeepsBehind ==
  ASSUME RoomInv, NEW c \in Clients, Behind(c), HandleFrame(c)
  PROVE  Behind(c)'
<1>1. PICK x \in Nat : x = nextExpected[c] BY DEF RoomInv, TypeOK
<1>2. PICK n \in Nat : n = Head(down[c]).seq
  <2>1. down[c] \in Seq(DownFrame) /\ down[c] # <<>>
    BY DEF RoomInv, TypeOK, HandleFrame, ClientWelcome, ClientEvent, ClientResyncEnd, Take
  <2>2. Head(down[c]) \in DownFrame BY <2>1, HeadTailProperties
  <2>3. QED BY <2>2 DEF DownFrame
<1>3. CASE nextExpected'[c] = nextExpected[c] /\ seen'[c] = seen[c]
  BY <1>1, <1>3, BehindRises
<1>4. CASE ClientEvent(c) /\ AppliesEvent(c, n) /\ ~DropsEvent(c, n)
  <2>1. n = x BY <1>1, <1>4 DEF AppliesEvent
  <2>2. seen' = [seen EXCEPT ![c] = Append(@, n)]
        /\ nextExpected' = [nextExpected EXCEPT ![c] = n + 1]
    BY <1>2, <1>4 DEF ClientEvent
  <2>3. seen'[c] = Append(seen[c], x) /\ nextExpected'[c] = x + 1
    BY <2>1, <2>2 DEF RoomInv, TypeOK
  <2>4. QED BY <1>1, <2>3, BehindApplies
<1>5. CASE ClientResyncEnd(c)
  <2>1. seen' = seen /\ nextExpected' = [nextExpected EXCEPT ![c] = MaxOf(@, n + 1)]
    BY <1>2, <1>5 DEF ClientResyncEnd
  <2>2. nextExpected'[c] = MaxOf(x, n + 1) BY <1>1, <2>1 DEF RoomInv, TypeOK
  <2>3. PICK y \in Nat : y = MaxOf(x, n + 1) /\ x <= y BY DEF MaxOf
  <2>4. QED BY <1>1, <2>1, <2>2, <2>3, BehindRises
<1>6. CASE ClientWelcome(c) BY <1>3, <1>6 DEF ClientWelcome
<1>7. CASE ClientEvent(c) /\ ~(AppliesEvent(c, n) /\ ~DropsEvent(c, n))
  <2>1. n = x => ~(n < x) BY <1>1
  <2>2. AppliesEvent(c, n) => ~DropsEvent(c, n)
    BY <1>1, <2>1 DEF AppliesEvent, DropsEvent
  <2>3. ~AppliesEvent(c, n) BY <1>7, <2>2
  <2>4. UNCHANGED <<nextExpected, seen>> BY <1>2, <1>7, <2>3 DEF ClientEvent
  <2>5. QED BY <1>3, <2>4
<1>8. QED BY <1>4, <1>5, <1>6, <1>7 DEF HandleFrame

(* The steps of the server's tasks, which leave the client's state alone.  *)
ClientStays == UNCHANGED <<phase, nextExpected, base, seen>>

LEMMA ServerLeavesClient ==
  ASSUME NEW c \in Clients, Commit \/ HandlerEnds \/ Ingress(c) \/ Egress(c)
  PROVE  ClientStays
BY DEF Commit, CommitStore, PublishDropped, CommitRing, CommitSeq, CommitSend, HandlerEnds,
       Ingress, IngressHello, IngressResync, Egress, Welcome, EgressResync, EgressLagged,
       EgressEvent, EgressGap, client, ClientStays

LEMMA StepKeepsBehind ==
  ASSUME RoomInv, [Next]_vars, NEW c \in Clients, Behind(c)
  PROVE  Behind(c)'
<1>1. CASE nextExpected'[c] = nextExpected[c] /\ seen'[c] = seen[c]
  <2>1. PICK x \in Nat : x = nextExpected[c] BY DEF RoomInv, TypeOK
  <2>2. QED BY <1>1, <2>1, BehindRises
<1>2. CASE Commit \/ HandlerEnds \/ UNCHANGED vars
  BY <1>1, <1>2, ServerLeavesClient DEF ClientStays, vars, client
<1>3. CASE Restart BY <1>1, <1>3 DEF Restart
<1>4. ASSUME NEW d \in Clients,
             Bootstrap(d) \/ Connect(d) \/ Ingress(d) \/ Egress(d)
               \/ HandleFrame(d) \/ Disconnect(d) \/ Leave(d)
      PROVE  Behind(c)'
  <2>1. CASE Connect(d) \/ Disconnect(d) \/ SnapshotDocs(d)
    BY <1>1, <2>1 DEF Connect, Disconnect, SnapshotDocs
  <2>2. CASE Ingress(d) \/ Egress(d) BY <1>1, <2>2, ServerLeavesClient DEF ClientStays
  <2>3. CASE d # c
    <3>1. CASE SnapshotSeq(d) \/ SnapshotFails(d) \/ Leave(d)
      <4>1. nextExpected'[c] = nextExpected[c] /\ seen'[c] = seen[c]
        <5>1. CASE SnapshotSeq(d)
          BY <2>3, <5>1 DEF SnapshotSeq, StartAt, RoomInv, TypeOK
        <5>2. CASE SnapshotFails(d)
          BY <2>3, <5>2 DEF SnapshotFails, StartAt, RoomInv, TypeOK
        <5>3. CASE Leave(d) BY <2>3, <5>3 DEF Leave, RoomInv, TypeOK
        <5>4. QED BY <3>1, <5>1, <5>2, <5>3
      <4>2. QED BY <1>1, <4>1
    <3>2. CASE HandleFrame(d)
      <4>1. nextExpected'[c] = nextExpected[c] /\ seen'[c] = seen[c]
        <5>1. CASE ClientWelcome(d) BY <2>3, <5>1 DEF ClientWelcome
        <5>2. CASE ClientEvent(d) BY <2>3, <5>2 DEF ClientEvent, RoomInv, TypeOK
        <5>3. CASE ClientResyncEnd(d) BY <2>3, <5>3 DEF ClientResyncEnd, RoomInv, TypeOK
        <5>4. QED BY <3>2, <5>1, <5>2, <5>3 DEF HandleFrame
      <4>2. QED BY <1>1, <4>1
    <3>3. QED BY <1>4, <2>1, <2>2, <3>1, <3>2 DEF Bootstrap
  <2>4. CASE d = c /\ (SnapshotSeq(c) \/ SnapshotFails(c))
    <3>1. PICK x \in Nat : x = nextExpected[c] BY DEF RoomInv, TypeOK
    <3>2. PICK s \in Nat :
            seen' = seen /\ nextExpected' = [nextExpected EXCEPT ![c] = MaxOf(@, s + 1)]
      <4>1. current_seq \in Nat BY RoomTyped
      <4>2. QED BY <2>4, <4>1 DEF SnapshotSeq, SnapshotFails, StartAt
    <3>3. PICK y \in Nat : y = MaxOf(x, s + 1) /\ x <= y BY DEF MaxOf
    <3>4. nextExpected'[c] = y BY <3>1, <3>2, <3>3 DEF RoomInv, TypeOK
    <3>5. QED BY <3>1, <3>2, <3>3, <3>4, BehindRises
  <2>5. CASE d = c /\ HandleFrame(c) BY <2>5, FrameKeepsBehind
  <2>6. CASE d = c /\ Leave(c)
    <3>1. seen'[c] = <<>> BY <2>6 DEF Leave, RoomInv, TypeOK
    <3>2. Len(seen'[c]) = 0 BY <3>1
    <3>3. QED BY <3>2 DEF Behind
  <2>7. QED BY <1>4, <2>1, <2>2, <2>3, <2>4, <2>5, <2>6 DEF Bootstrap
<1>5. QED BY <1>2, <1>3, <1>4 DEF Next

BehindInv == \A c \in Clients : Behind(c)

LEMMA BehindCorrect == Spec => []BehindInv
<1>1. Init => BehindInv
  <2> SUFFICES ASSUME Init, NEW c \in Clients PROVE Behind(c) BY DEF BehindInv
  <2>1. seen[c] = <<>> /\ Len(<<>>) = 0 BY DEF Init
  <2>2. QED BY <2>1 DEF Behind
<1>2. RoomInv /\ BehindInv /\ [Next]_vars => BehindInv' BY StepKeepsBehind DEF BehindInv
<1>3. QED BY RoomCorrect, <1>1, <1>2, PTL DEF Spec

(* An event reaches onCommand at most once and in seq order, whatever the  *)
(* floor and the lag replays made the client miss.                         *)
THEOREM InOrderCorrect == Spec => []AppliedInOrder
<1>1. BehindInv => AppliedInOrder BY DEF BehindInv, Behind, AppliedInOrder
<1>2. QED BY BehindCorrect, <1>1, PTL

-----------------------------------------------------------------------------
(* Layer three's second half.  What a session has not applied it has lost; *)
(* what is in flight to it takes it, honestly, at least to where its egress*)
(* loop stands; and while its catch-up replay is outstanding, at least to  *)
(* where that replay will reach.                                           *)
Entered(c) ==
  /\ phase[c] \in {"out", "snapshot"} => nextExpected[c] = 1 /\ seen[c] = <<>>
  /\ phase[c] \in {"out", "snapshot"} <=> base[c] = NotEntered

Accounted(c) ==
  base[c] # NotEntered =>
    /\ \A i \in 1..Len(seen[c]) : base[c] < seen[c][i]
    /\ \A n \in (base[c] + 1)..(nextExpected[c] - 1) : Holds(seen[c], n) \/ n \in lost[c]

Arrives(c, m) ==
  /\ Reads(down[c], nextExpected[c], m, lost[c])
  /\ next_expected[c] <= m \/ (catchingUp[c] /\ next_expected[c] <= Pushed + 1)

(* A receiver holds nothing that current_seq does not cover yet.           *)
Announced(c) == Within(rx[c], current_seq)

Sound(c) ==
  /\ Entered(c) /\ Accounted(c) /\ Announced(c)
  /\ sess[c] = "live" => \E m \in Nat : Arrives(c, m)

(* Neither the atomic nor what a replay reaches is ever taken back.        *)
LEMMA SeqRises ==
  ASSUME RoomInv, [Next]_vars
  PROVE  /\ Pushed' \in Nat /\ Pushed <= Pushed'
         /\ current_seq' \in Nat /\ current_seq <= current_seq'
<1> PICK e \in Nat, s \in Nat : e = events /\ s = current_seq /\ s <= e BY RoomTyped
<1>1. commit = "stored" => s < e BY DEF RoomInv, CommitSteps
<1>2. commit = "visible" => s = e BY DEF RoomInv, CommitSteps
<1>3. commit \in {"idle", "stored", "pushed", "visible"} BY DEF RoomInv, TypeOK
<1>4. Pushed = IF commit = "pushed" THEN e ELSE s BY DEF Pushed
<1>5. CASE UNCHANGED <<commit, events, current_seq>> BY <1>4, <1>5 DEF Pushed
<1>6. CASE UNCHANGED <<events, current_seq>> /\ commit # "pushed"
  <2>1. Pushed' = IF commit' = "pushed" THEN e ELSE s BY <1>6 DEF Pushed
  <2>2. QED BY <1>4, <1>6, <2>1
<1>7. CASE commit' # "pushed" /\ current_seq' = events
  <2>1. Pushed' = e /\ current_seq' = e BY <1>7 DEF Pushed
  <2>2. QED BY <1>4, <2>1
<1>8. CASE CommitStore
  <2>1. commit = "idle" /\ commit' = "stored" /\ current_seq' = s BY <1>8 DEF CommitStore
  <2>2. Pushed' = s /\ Pushed = s BY <1>4, <2>1 DEF Pushed
  <2>3. QED BY <2>1, <2>2
<1>9. CASE PublishDropped \/ CommitRing BY <1>6, <1>9 DEF PublishDropped, CommitRing
<1>10. CASE CommitSeq BY <1>7, <1>10 DEF CommitSeq
<1>11. CASE CommitSend BY <1>6, <1>11 DEF CommitSend
<1>12. CASE HandlerEnds \/ Restart
  BY <1>5, <1>7, <1>12 DEF HandlerEnds, Restart, FreshRoom, room
<1>13. ASSUME NEW d \in Clients,
              Bootstrap(d) \/ Connect(d) \/ Ingress(d) \/ Egress(d)
                \/ HandleFrame(d) \/ Disconnect(d) \/ Leave(d)
       PROVE  UNCHANGED <<commit, events, current_seq>>
  BY <1>13 DEF Bootstrap, SnapshotDocs, SnapshotSeq, SnapshotFails, Connect, Ingress,
     IngressHello, IngressResync, Egress, Welcome, EgressResync, EgressLagged, EgressEvent,
     EgressGap, HandleFrame, ClientWelcome, ClientEvent, ClientResyncEnd, Take, Disconnect,
     Leave, server, room
<1>14. QED BY <1>5, <1>8, <1>9, <1>10, <1>11, <1>12, <1>13 DEF Next, Commit, vars, server, room

LEMMA WithinTail ==
  ASSUME NEW s \in Seq(Nat), s # <<>>, NEW x \in Nat, Within(s, x)
  PROVE  Tail(s) \in Seq(Nat) /\ Within(Tail(s), x)
<1>1. PICK k \in Nat : k = Len(s) /\ k # 0 BY EmptySeq
<1>2. /\ Tail(s) \in Seq(Nat) /\ Len(Tail(s)) = Len(s) - 1
      /\ \A i \in 1..Len(Tail(s)) : Tail(s)[i] = s[i + 1]
  BY HeadTailProperties
<1>3. ASSUME NEW i \in 1..Len(Tail(s)) PROVE Tail(s)[i] <= x
  <2>1. i + 1 \in 1..Len(s) BY <1>1, <1>2
  <2>2. QED BY <1>2, <2>1 DEF Within
<1>4. QED BY <1>2, <1>3 DEF Within

LEMMA WithinAppend ==
  ASSUME NEW s \in Seq(Nat), NEW x \in Nat, Within(s, x)
  PROVE  Within(Append(s, x), x)
<1>1. PICK k \in Nat : k = Len(s) OBVIOUS
<1>2. /\ Len(Append(s, x)) = Len(s) + 1 /\ Append(s, x)[Len(s) + 1] = x
      /\ \A i \in 1..Len(s) : Append(s, x)[i] = s[i]
  BY AppendProperties
<1>3. ASSUME NEW i \in 1..Len(Append(s, x)) PROVE Append(s, x)[i] <= x
  <2>1. CASE i = k + 1 BY <1>1, <1>2, <2>1
  <2>2. CASE i # k + 1
    <3>1. i \in 1..Len(s) BY <1>1, <1>2, <2>2
    <3>2. QED BY <1>2, <3>1 DEF Within
  <2>3. QED BY <2>1, <2>2
<1>4. QED BY <1>3 DEF Within

LEMMA WithinMore ==
  ASSUME NEW s \in Seq(Nat), NEW x \in Nat, NEW y \in Nat, x <= y, Within(s, x)
  PROVE  Within(s, y)
<1> SUFFICES ASSUME NEW i \in 1..Len(s) PROVE s[i] <= y BY DEF Within
<1>1. s[i] \in Nat /\ s[i] <= x BY ElementOfSeq DEF Within
<1>2. QED BY <1>1

LEMMA AnnouncedStays ==
  ASSUME RoomInv, [Next]_vars, NEW c \in Clients, Announced(c)
  PROVE  Announced(c)'
<1>1. PICK r \in Seq(Nat), s \in Nat, z \in Nat :
        r = rx[c] /\ s = current_seq /\ z = current_seq' /\ s <= z /\ Within(r, s)
  BY SeqRises, RoomTyped DEF RoomInv, TypeOK, Announced
<1>2. Within(r, z) BY <1>1, WithinMore
<1>3. r # <<>> => Tail(r) \in Seq(Nat) /\ Within(Tail(r), z) BY <1>2, WithinTail
<1>4. CASE rx'[c] = r BY <1>1, <1>2, <1>4 DEF Announced
<1>5. CASE rx'[c] = <<>> BY <1>5, NoneRises DEF Announced
<1>6. CASE r # <<>> /\ rx'[c] = Tail(r) BY <1>1, <1>3, <1>6 DEF Announced
<1>7. CASE CommitSend
  <2>1. events = z BY <1>1, <1>7 DEF CommitSend, RoomInv, CommitSteps
  <2>2. rx'[c] = Received(c) BY <1>7 DEF CommitSend
  <2>3. CASE sess[c] = "none" BY <1>1, <1>4, <2>2, <2>3 DEF Received
  <2>4. CASE sess[c] # "none" /\ Overflows(c)
    <3>1. r # <<>>
      <4>1. Len(r) >= BroadcastCap /\ BroadcastCap \in Nat \ {0}
        BY <1>1, <2>4, ConstantsOK DEF Overflows
      <4>2. QED BY <4>1
    <3>2. rx'[c] = Append(Tail(r), z) BY <1>1, <2>1, <2>2, <2>4 DEF Received
    <3>3. QED BY <1>1, <1>3, <3>1, <3>2, WithinAppend DEF Announced
  <2>5. CASE sess[c] # "none" /\ ~Overflows(c)
    <3>1. rx'[c] = Append(r, z) BY <1>1, <2>1, <2>2, <2>5 DEF Received
    <3>2. QED BY <1>1, <1>2, <3>1, WithinAppend DEF Announced
  <2>6. QED BY <2>3, <2>4, <2>5
<1>8. CASE Commit \/ HandlerEnds \/ UNCHANGED vars
  BY <1>1, <1>4, <1>7, <1>8 DEF Commit, CommitStore, PublishDropped, CommitRing, CommitSeq,
     HandlerEnds, vars, egress
<1>9. CASE Restart
  <2>1. rx'[c] = <<>> BY <1>9 DEF Restart, Cut
  <2>2. QED BY <1>5, <2>1
<1>10. ASSUME NEW d \in Clients,
              Bootstrap(d) \/ Connect(d) \/ Ingress(d) \/ Egress(d)
                \/ HandleFrame(d) \/ Disconnect(d) \/ Leave(d)
       PROVE  Announced(c)'
  <2>1. CASE EgressEvent(d) \/ EgressGap(d)
    <3>1. rx' = [rx EXCEPT ![d] = Tail(@)] /\ rx[d] # <<>>
      BY <2>1 DEF EgressEvent, EgressGap
    <3>2. CASE d = c
      <4>1. r # <<>> /\ rx'[c] = Tail(r) BY <1>1, <3>1, <3>2 DEF RoomInv, TypeOK
      <4>2. QED BY <1>6, <4>1
    <3>3. CASE d # c
      <4>1. rx'[c] = r BY <1>1, <3>1, <3>3 DEF RoomInv, TypeOK
      <4>2. QED BY <1>4, <4>1
    <3>4. QED BY <3>2, <3>3
  <2>2. CASE Disconnect(d) \/ Leave(d)
    <3>1. rx'[c] = IF c \in {d} THEN <<>> ELSE rx[c] BY <2>2 DEF Disconnect, Leave, Cut
    <3>2. QED BY <1>1, <1>4, <1>5, <3>1
  <2>3. CASE rx' = rx BY <1>1, <1>4, <2>3
  <2>4. CASE Bootstrap(d) \/ Connect(d) \/ Ingress(d) \/ HandleFrame(d)
             \/ Welcome(d) \/ EgressResync(d) \/ EgressLagged(d)
    BY <2>3, <2>4 DEF Bootstrap, SnapshotDocs, SnapshotSeq, SnapshotFails, Connect, Ingress,
       IngressHello, IngressResync, Welcome, EgressResync, EgressLagged,
       HandleFrame, ClientWelcome, ClientEvent, ClientResyncEnd, Take, egress
  <2>5. QED BY <1>10, <2>1, <2>2, <2>4 DEF Egress
<1>11. QED BY <1>8, <1>9, <1>10 DEF Next

(* A step that leaves the session alone.                                   *)
Steady(c) ==
  /\ phase'[c] = phase[c] /\ sess'[c] = sess[c] /\ down'[c] = down[c]
  /\ next_expected'[c] = next_expected[c] /\ nextExpected'[c] = nextExpected[c]
  /\ base'[c] = base[c] /\ seen'[c] = seen[c] /\ catchingUp'[c] = catchingUp[c]
  /\ lost'[c] = lost[c]

LEMMA SoundStays ==
  ASSUME RoomInv, NEW c \in Clients, Sound(c), Steady(c), Announced(c)',
         NEW p \in Nat, Pushed' = p, Pushed <= p
  PROVE  Sound(c)'
<1>1. Entered(c)' /\ Accounted(c)' BY DEF Sound, Entered, Accounted, Steady
<1>2. ASSUME sess'[c] = "live" PROVE (\E m \in Nat : Arrives(c, m))'
  <2>1. PICK m \in Nat : Arrives(c, m) BY <1>2 DEF Sound, Steady
  <2>2. PICK q \in Nat : q = Pushed /\ q <= p BY RoomTyped
  <2>3. PICK ne \in Nat : ne = next_expected[c] BY DEF RoomInv, TypeOK
  <2>4. ne <= m \/ (catchingUp[c] /\ ne <= q + 1) BY <2>1, <2>2, <2>3 DEF Arrives
  <2>5. ne <= m \/ (catchingUp[c] /\ ne <= p + 1)
    <3>1. ne <= q + 1 => ne <= p + 1 BY <2>2
    <3>2. QED BY <2>4, <3>1, Zenon
  <2>6. next_expected'[c] = ne /\ catchingUp'[c] = catchingUp[c] BY <2>3 DEF Steady
  <2>7. Reads(down'[c], nextExpected'[c], m, lost'[c]) BY <2>1 DEF Arrives, Steady
  <2>8. Arrives(c, m)' BY <2>5, <2>6, <2>7, Pushed' = p DEF Arrives
  <2>9. QED BY <2>8
<1>3. QED BY <1>1, <1>2 DEF Sound

(* What a replay for a client that expects n, and will expect m when it    *)
(* comes, costs it: all it does not bring there is in PassedBy.            *)
LEMMA ReplayLands ==
  ASSUME RoomInv, NEW c \in Clients, NEW q \in Seq(DownFrame),
         NEW n \in Nat, n = nextExpected[c], NEW m \in Nat, n <= m,
         NEW L, Reads(q, n, m, L),
         NEW from \in 1..(events + 1), NEW fr, fr = ResyncRange(from),
         NEW to, to = ReplayTo(from, fr), NEW fs, fs = ReplayFrames(from, fr),
         NEW why, dropped \subseteq why, \A d \in m..(from - 1) : d \in why,
         NEW P, P = PassedBy(c, why, fr, to)
  PROVE  to \in Nat /\ Pushed <= to /\ Reads(q \o fs, n, MaxOf(m, to + 1), L \cup P)
<1>1. to \in Nat /\ Reply(fr, from, to, dropped) /\ Pushed <= to BY ReplayReach
<1>2. fr \in Seq(Nat) BY <1>1 DEF Reply
<1>3. from \in Nat \ {0} BY RoomTyped
<1>5. IsReplay(fs, fr, to) /\ fs \in Seq(DownFrame)
  BY <1>1, <1>2, <1>3, ReplayShape DEF IsReplay
<1>6. Rising(fr) /\ \A i \in 1..Len(fr) : fr[i] <= to
  <2>1. Rising(fr) /\ \A i \in 1..Len(fr) : fr[i] \in from..to BY <1>1 DEF Reply
  <2>2. QED BY <1>1, <1>3, <2>1
<1>8. ASSUME NEW x \in m..to PROVE x \in L \cup P \/ \A y \in m..x : Holds(fr, y)
  <2> SUFFICES ASSUME NEW y \in m..x, ~Holds(fr, y) PROVE x \in P OBVIOUS
  <2>1. y \in why
    <3>1. CASE y < from
      <4>1. y \in m..(from - 1) BY <1>3, <3>1
      <4>2. QED BY <4>1
    <3>2. CASE ~(y < from)
      <4>1. y \in from..to BY <1>1, <1>3, <3>2
      <4>2. y \in dropped BY <1>1, <4>1 DEF Reply, Covers
      <4>3. QED BY <4>2
    <3>3. QED BY <3>1, <3>2
  <2>2. x \in nextExpected[c]..to /\ y \in nextExpected[c]..x BY <1>1
  <2>3. QED BY <2>1, <2>2 DEF PassedBy
<1>9. Reads(q, n, m, L \cup P) BY ReadsMore
<1>10. Reads(q \o fs, n, MaxOf(m, to + 1), L \cup P)
  BY <1>1, <1>2, <1>5, <1>6, <1>8, <1>9, ReadsReplay
<1>11. QED BY <1>1, <1>10

(* A session's watermark is past the one it entered at.                    *)
FromBase == \A c \in Clients : base[c] < nextExpected[c]

LEMMA StepKeepsFromBase ==
  ASSUME RoomInv, [Next]_vars, FromBase
  PROVE  FromBase'
<1> SUFFICES ASSUME NEW c \in Clients PROVE base'[c] < nextExpected'[c] BY DEF FromBase
<1>1. PICK x \in Nat \ {0} : x = nextExpected[c] BY DEF RoomInv, TypeOK
<1>2. PICK b \in Nat \cup {NotEntered} : b = base[c] /\ b < x
  BY <1>1 DEF FromBase, RoomInv, TypeOK
<1>3. CASE base'[c] = base[c] /\ nextExpected'[c] = nextExpected[c] BY <1>1, <1>2, <1>3
<1>4. CASE Commit \/ HandlerEnds \/ UNCHANGED vars
  BY <1>3, <1>4, ServerLeavesClient DEF ClientStays, vars, client
<1>5. CASE Restart BY <1>3, <1>5 DEF Restart
<1>6. ASSUME NEW d \in Clients,
             Bootstrap(d) \/ Connect(d) \/ Ingress(d) \/ Egress(d)
               \/ HandleFrame(d) \/ Disconnect(d) \/ Leave(d)
      PROVE  base'[c] < nextExpected'[c]
  <2>1. CASE Connect(d) \/ Disconnect(d) \/ SnapshotDocs(d)
    BY <1>3, <2>1 DEF Connect, Disconnect, SnapshotDocs
  <2>2. CASE Ingress(d) \/ Egress(d) BY <1>3, <2>2, ServerLeavesClient DEF ClientStays
  <2>3. CASE SnapshotSeq(d) \/ SnapshotFails(d)
    <3>1. PICK s \in Nat : /\ base' = [base EXCEPT ![d] = s]
                           /\ nextExpected' = [nextExpected EXCEPT ![d] = MaxOf(@, s + 1)]
      <4>1. current_seq \in Nat BY RoomTyped
      <4>2. QED BY <2>3, <4>1 DEF SnapshotSeq, SnapshotFails, StartAt
    <3>2. CASE d = c
      <4>1. base'[c] = s /\ nextExpected'[c] = MaxOf(x, s + 1)
        BY <1>1, <3>1, <3>2 DEF RoomInv, TypeOK
      <4>2. s < MaxOf(x, s + 1) BY DEF MaxOf
      <4>3. QED BY <4>1, <4>2
    <3>3. CASE d # c BY <1>3, <3>1, <3>3 DEF RoomInv, TypeOK
    <3>4. QED BY <3>2, <3>3
  <2>4. CASE HandleFrame(d)
    <3>1. base' = base
      BY <2>4 DEF HandleFrame, ClientWelcome, ClientEvent, ClientResyncEnd, Take
    <3>2. PICK y \in Nat : nextExpected'[c] = y /\ x <= y
      <4>1. CASE nextExpected'[c] = nextExpected[c] BY <1>1, <4>1
      <4>2. PICK n \in Nat : n = Head(down[d]).seq
        <5>1. down[d] \in Seq(DownFrame) /\ down[d] # <<>>
          BY <2>4 DEF HandleFrame, ClientWelcome, ClientEvent, ClientResyncEnd, Take,
                      RoomInv, TypeOK
        <5>2. Head(down[d]) \in DownFrame BY <5>1, HeadTailProperties
        <5>3. QED BY <5>2 DEF DownFrame
      <4>3. CASE d = c /\ nextExpected' = [nextExpected EXCEPT ![c] = n + 1] /\ n = x
        <5>1. nextExpected'[c] = n + 1 BY <4>3 DEF RoomInv, TypeOK
        <5>2. QED BY <4>3, <5>1
      <4>4. CASE d = c /\ nextExpected' = [nextExpected EXCEPT ![c] = MaxOf(@, n + 1)]
        <5>1. nextExpected'[c] = MaxOf(x, n + 1) BY <1>1, <4>4 DEF RoomInv, TypeOK
        <5>2. x <= MaxOf(x, n + 1) /\ MaxOf(x, n + 1) \in Nat BY DEF MaxOf
        <5>3. QED BY <5>1, <5>2
      <4>5. CASE ClientWelcome(d) BY <4>1, <4>5 DEF ClientWelcome
      <4>6. CASE ClientEvent(d)
        <5>1. CASE d # c BY <4>1, <4>6, <5>1 DEF ClientEvent, RoomInv, TypeOK
        <5>2. CASE d = c
          BY <1>1, <4>1, <4>2, <4>3, <4>6, <5>2 DEF ClientEvent, AppliesEvent
        <5>3. QED BY <5>1, <5>2
      <4>7. CASE ClientResyncEnd(d)
        <5>1. CASE d # c BY <4>1, <4>7, <5>1 DEF ClientResyncEnd, RoomInv, TypeOK
        <5>2. CASE d = c BY <4>2, <4>4, <4>7, <5>2 DEF ClientResyncEnd
        <5>3. QED BY <5>1, <5>2
      <4>8. QED BY <2>4, <4>5, <4>6, <4>7 DEF HandleFrame
    <3>3. QED BY <1>2, <3>1, <3>2 DEF NotEntered
  <2>5. CASE Leave(d)
    <3>1. CASE d = c
      <4>1. base'[c] = NotEntered /\ nextExpected'[c] = 1
        BY <2>5, <3>1 DEF Leave, RoomInv, TypeOK
      <4>2. QED BY <4>1 DEF NotEntered
    <3>2. CASE d # c BY <1>3, <2>5, <3>2 DEF Leave, RoomInv, TypeOK
    <3>3. QED BY <3>1, <3>2
  <2>6. QED BY <1>6, <2>1, <2>2, <2>3, <2>4, <2>5 DEF Bootstrap
<1>7. QED BY <1>4, <1>5, <1>6 DEF Next

LEMMA FromBaseCorrect == Spec => []FromBase
<1>1. Init => FromBase
  <2> SUFFICES ASSUME Init, NEW c \in Clients PROVE base[c] < nextExpected[c]
    BY DEF FromBase
  <2>1. base[c] = NotEntered /\ nextExpected[c] = 1 BY DEF Init
  <2>2. QED BY <2>1 DEF NotEntered
<1>2. QED BY RoomCorrect, StepKeepsFromBase, <1>1, PTL DEF Spec

(* A session that is not on a live socket has only itself to answer for.   *)
LEMMA SoundOffline ==
  ASSUME NEW c \in Clients, sess'[c] # "live", Entered(c)', Accounted(c)', Announced(c)'
  PROVE  Sound(c)'
BY DEF Sound

LEMMA SessionKeepsSound ==
  ASSUME RoomInv, LinkInv, NEW c \in Clients, Sound(c), Announced(c)',
         Bootstrap(c) \/ Connect(c) \/ Disconnect(c) \/ Leave(c)
  PROVE  Sound(c)'
<1> USE DEF server, room, egress, wire, causes, bounds
<1>1. Entered(c) /\ Accounted(c) BY DEF Sound
<1>2. phase[c] \in {"out", "snapshot", "closed", "open"} BY DEF RoomInv, TypeOK
<1>3. phase[c] # "open" => sess[c] = "none" BY DEF LinkInv, Linked
<1>4. CASE SnapshotDocs(c)
  <2>1. /\ phase[c] = "out" /\ phase'[c] = "snapshot" /\ base'[c] = base[c]
        /\ nextExpected'[c] = nextExpected[c] /\ seen'[c] = seen[c] /\ sess'[c] = sess[c]
    BY <1>4 DEF SnapshotDocs, RoomInv, TypeOK
  <2>2. base[c] = NotEntered /\ Entered(c)' BY <1>1, <2>1 DEF Entered
  <2>3. Accounted(c)' BY <2>1, <2>2 DEF Accounted
  <2>4. sess'[c] # "live" BY <1>3, <2>1
  <2>5. QED BY <2>2, <2>3, <2>4, SoundOffline
<1>5. CASE SnapshotSeq(c) \/ SnapshotFails(c)
  <2>1. PICK s \in Nat : StartAt(c, s)
    BY <1>5, RoomTyped DEF SnapshotSeq, SnapshotFails
  <2>2. /\ phase[c] \in {"out", "snapshot"} /\ seen'[c] = seen[c] /\ sess'[c] = sess[c]
    BY <1>5 DEF SnapshotSeq, SnapshotFails
  <2>3. seen[c] = <<>> /\ nextExpected[c] = 1 BY <1>1, <2>2 DEF Entered
  <2>4. phase'[c] = "closed" /\ base'[c] = s /\ nextExpected'[c] = MaxOf(1, s + 1)
    BY <2>1, <2>3 DEF StartAt, RoomInv, TypeOK
  <2>5. nextExpected'[c] = s + 1 BY <2>4 DEF MaxOf
  <2>6. Len(seen'[c]) = 0 BY <2>2, <2>3
  <2>7. Accounted(c)' BY <2>4, <2>5, <2>6 DEF Accounted
  <2>8. Entered(c)' BY <2>4 DEF Entered, NotEntered
  <2>9. sess'[c] # "live" BY <1>3, <2>2
  <2>10. QED BY <2>7, <2>8, <2>9, SoundOffline
<1>6. CASE Connect(c) \/ Disconnect(c)
  <2>1. /\ phase[c] \in {"closed", "open"} /\ phase'[c] \in {"closed", "open"}
        /\ base'[c] = base[c] /\ nextExpected'[c] = nextExpected[c] /\ seen'[c] = seen[c]
        /\ lost'[c] = lost[c]
    BY <1>6 DEF Connect, Disconnect, RoomInv, TypeOK
  <2>2. sess'[c] # "live" BY <1>6 DEF Connect, Disconnect, Cut, RoomInv, TypeOK
  <2>3. Entered(c)' BY <1>1, <2>1 DEF Entered
  <2>4. Accounted(c)' BY <1>1, <2>1 DEF Accounted
  <2>5. QED BY <2>2, <2>3, <2>4, SoundOffline
<1>7. CASE Leave(c)
  <2>1. /\ phase'[c] = "out" /\ base'[c] = NotEntered /\ nextExpected'[c] = 1
        /\ seen'[c] = <<>>
    BY <1>7 DEF Leave, RoomInv, TypeOK
  <2>2. sess'[c] # "live" BY <1>7 DEF Leave, Cut
  <2>3. Entered(c)' /\ Accounted(c)' BY <2>1 DEF Entered, Accounted
  <2>4. QED BY <2>2, <2>3, SoundOffline
<1>8. QED BY <1>4, <1>5, <1>6, <1>7 DEF Bootstrap

LEMMA RestartKeepsSound ==
  ASSUME RoomInv, NEW c \in Clients, Sound(c), Restart, Announced(c)'
  PROVE  Sound(c)'
<1>1. /\ Entered(c) /\ Accounted(c)
      /\ phase[c] \in {"out", "snapshot", "closed", "open"}
  BY DEF Sound, RoomInv, TypeOK
<1>2. /\ base'[c] = base[c] /\ nextExpected'[c] = nextExpected[c] /\ seen'[c] = seen[c]
      /\ lost'[c] = lost[c]
      /\ phase[c] \in {"out", "snapshot"} <=> phase'[c] \in {"out", "snapshot"}
  <2>1. phase'[c] = CASE phase[c] = "open" -> "closed"
                      [] phase[c] = "snapshot" -> "out"
                      [] OTHER -> phase[c]
    BY DEF Restart
  <2>2. phase[c] \in {"out", "snapshot"} <=> phase'[c] \in {"out", "snapshot"}
    BY <1>1, <2>1
  <2>3. QED BY <2>2 DEF Restart
<1>3. sess'[c] # "live" BY DEF Restart, Cut
<1>4. Entered(c)' BY <1>1, <1>2 DEF Entered
<1>5. Accounted(c)' BY <1>1, <1>2 DEF Accounted
<1>6. QED BY <1>3, <1>4, <1>5, SoundOffline

(* Welcome alone is in flight, and says what the egress loop starts from.  *)
LEMMA WelcomeKeepsSound ==
  ASSUME RoomInv, NEW c \in Clients, Sound(c), Welcome(c), Announced(c)'
  PROVE  Sound(c)'
<1>1. /\ down'[c] = <<[type |-> "welcome", seq |-> current_seq]>>
      /\ next_expected'[c] = current_seq + 1
      /\ catchingUp'[c] = (current_seq >= nextExpected[c])
      /\ UNCHANGED <<events, commit, current_seq>>
  BY DEF Welcome, server, room, RoomInv, TypeOK
<1>2. UNCHANGED <<phase, nextExpected, base, seen, lost>>
  BY DEF Welcome, client
<1>3. PICK x \in Nat : x = nextExpected[c] BY DEF RoomInv, TypeOK
<1>4. PICK w \in Nat, p \in Nat : w = current_seq /\ p = Pushed /\ w <= p BY RoomTyped
<1>5. Pushed' = p BY <1>1, <1>4 DEF Pushed
<1>6. PICK L : L = lost[c] OBVIOUS
<1>7. Reads(down'[c], x, x, L)
  <2>0. [type |-> "welcome", seq |-> w] \in DownFrame BY DEF DownFrame
  <2>1. PICK f \in DownFrame : f = [type |-> "welcome", seq |-> w] /\ f.type = "welcome"
    BY <2>0
  <2>2. Reads(<<f>>, x, x, L) BY <2>1, ReadsOne
  <2>3. QED BY <1>1, <1>4, <2>1, <2>2
<1>8. w + 1 <= x \/ (catchingUp'[c] /\ w + 1 <= p + 1)
  <2>1. w + 1 <= p + 1 BY <1>4
  <2>2. CASE w >= x
    <3>1. catchingUp'[c] BY <1>1, <1>3, <1>4, <2>2
    <3>2. QED BY <2>1, <3>1
  <2>3. CASE ~(w >= x) BY <2>3
  <2>4. QED BY <2>2, <2>3
<1>9. Arrives(c, x)' BY <1>1, <1>2, <1>3, <1>4, <1>5, <1>6, <1>7, <1>8 DEF Arrives
<1>10. Entered(c)' BY <1>2 DEF Sound, Entered
<1>11. Accounted(c)' BY <1>2 DEF Sound, Accounted
<1>12. QED BY <1>9, <1>10, <1>11 DEF Sound

(* What a live socket has in flight.                                       *)
LEMMA InFlight ==
  ASSUME RoomInv, LinkInv, NEW c \in Clients, sess[c] = "live", Sound(c)
  PROVE  \E n \in Nat \ {0}, m \in Nat, ne \in Nat \ {0}, q \in Seq(DownFrame), L \in SUBSET Nat,
            p \in Nat :
           /\ n = nextExpected[c] /\ ne = next_expected[c] /\ q = down[c] /\ L = lost[c]
           /\ ne \in 1..(events + 1) /\ p = Pushed
           /\ Reads(q, n, m, L) /\ n <= m
           /\ ne <= m \/ (catchingUp[c] /\ ne <= p + 1)
<1>1. PICK m \in Nat : Arrives(c, m) BY DEF Sound
<1>2. /\ nextExpected[c] \in Nat \ {0} /\ next_expected[c] \in Nat \ {0}
      /\ down[c] \in Seq(DownFrame) /\ events \in Nat /\ lost[c] \in SUBSET Nat
      /\ Pushed \in Nat
  <2>1. next_expected[c] \in Nat /\ next_expected[c] > 0 BY DEF RoomInv, TypeOK, Started
  <2>2. Pushed \in Nat /\ events \in Nat BY RoomTyped
  <2>3. /\ nextExpected[c] \in Nat \ {0} /\ down[c] \in Seq(DownFrame)
        /\ lost[c] \in SUBSET Nat
    BY DEF RoomInv, TypeOK
  <2>4. QED BY <2>1, <2>2, <2>3
<1>3. next_expected[c] <= events + 1 BY DEF LinkInv, Bounded
<1>4. next_expected[c] \in 1..(events + 1) BY <1>2, <1>3
<1>5. Reads(down[c], nextExpected[c], m, lost[c]) BY <1>1 DEF Arrives
<1>6. nextExpected[c] <= m
  <2>1. PICK s : Trace(s, down[c], nextExpected[c], m, lost[c]) BY <1>5 DEF Reads
  <2>2. 0 \in 0..Len(down[c]) BY <1>2
  <2>3. QED BY <2>1, <2>2 DEF Trace
<1>7. QED BY <1>1, <1>2, <1>4, <1>5, <1>6 DEF Arrives

(* The replays of the egress loop.                                         *)
LEMMA ReplayKeepsArrives ==
  ASSUME RoomInv, LinkInv, NEW c \in Clients, Sound(c), sess[c] = "live",
         NEW from \in 1..(events + 1), NEW why, dropped \subseteq why,
         \A d \in nextExpected[c]..(from - 1) :
            d \in why \/ (~catchingUp[c] /\ d < next_expected[c]),
         down'[c] = down[c] \o ReplayFrames(from, ResyncRange(from)),
         Loses(c, why, ResyncRange(from), ReplayTo(from, ResyncRange(from))),
         next_expected'[c] \in {ReplayTo(from, ResyncRange(from)) + 1, next_expected[c]},
         UNCHANGED <<nextExpected, events, commit, current_seq>>
  PROVE  (\E m \in Nat : Arrives(c, m))'
<1>1. PICK n \in Nat \ {0}, m \in Nat, ne \in Nat \ {0}, q \in Seq(DownFrame),
           L \in SUBSET Nat, p \in Nat :
           /\ n = nextExpected[c] /\ ne = next_expected[c] /\ q = down[c] /\ L = lost[c]
           /\ ne \in 1..(events + 1) /\ p = Pushed
           /\ Reads(q, n, m, L) /\ n <= m
           /\ ne <= m \/ (catchingUp[c] /\ ne <= p + 1)
  BY InFlight
<1>2. ASSUME NEW d \in m..(from - 1) PROVE d \in why
  <2>1. from \in Nat \ {0} BY RoomTyped
  <2>2. d \in Nat /\ d >= m /\ d \in nextExpected[c]..(from - 1) BY <1>1, <2>1
  <2>3. d \in why \/ (~catchingUp[c] /\ d < ne) BY <1>1, <2>2
  <2>4. ~(d < ne /\ ne <= m) BY <2>2
  <2>5. QED BY <1>1, <2>3, <2>4, Zenon
<1>3. PICK fr, fs : fr = ResyncRange(from) /\ fs = ReplayFrames(from, fr) OBVIOUS
<1>4. PICK t, P : t = ReplayTo(from, fr) /\ P = PassedBy(c, why, fr, t) OBVIOUS
<1>5. n \in Nat /\ n = nextExpected[c] /\ n <= m /\ Reads(q, n, m, L) BY <1>1
<1>6. t \in Nat /\ Pushed <= t /\ Reads(q \o fs, n, MaxOf(m, t + 1), L \cup P)
  BY <1>2, <1>3, <1>4, <1>5, ReplayLands
<1>7. lost'[c] = L \cup P BY <1>1, <1>3, <1>4 DEF Loses, RoomInv, TypeOK
<1>8. PICK r \in Nat : r = MaxOf(m, t + 1) /\ m <= r /\ t + 1 <= r BY <1>6 DEF MaxOf
<1>9. next_expected'[c] <= r
  <2>1. ne <= r
    <3>1. ne <= m => ne <= r BY <1>8
    <3>2. ne <= p + 1 => ne <= r BY <1>1, <1>6, <1>8
    <3>3. QED BY <1>1, <3>1, <3>2, Zenon
  <2>2. next_expected'[c] \in {t + 1, ne} BY <1>1, <1>3, <1>4
  <2>3. QED BY <1>6, <1>8, <2>1, <2>2
<1>10. Reads(down'[c], nextExpected'[c], r, lost'[c])
  BY <1>1, <1>3, <1>6, <1>7, <1>8
<1>11. Arrives(c, r)' BY <1>9, <1>10 DEF Arrives
<1>12. QED BY <1>11

(* What a session may ask for, clamped, lies within the log.               *)
LEMMA AskedInLog ==
  ASSUME RoomInv, LinkInv, NEW c \in Clients, erx[c] # <<>>
  PROVE  /\ Head(erx[c]) \in 1..nextExpected[c]
         /\ ClampFrom(UserOf[c], Head(erx[c])) \in 1..(events + 1)
<1>1. erx[c] \in Seq(1..nextExpected[c]) BY DEF LinkInv, Bounded
<1>2. Head(erx[c]) \in 1..nextExpected[c] BY <1>1, HeadTailProperties
<1>3. PICK e \in Nat : e = events /\ nextExpected[c] <= e + 1
  BY RoomTyped DEF LinkInv, Bounded
<1>4. PICK h \in Nat \ {0} : h = Head(erx[c]) /\ h <= e + 1
  <2>1. nextExpected[c] \in Nat BY DEF RoomInv, TypeOK
  <2>2. QED BY <1>2, <1>3, <2>1
<1>5. PICK f \in Nat \ {0} : f = ResyncFloor(UserOf[c]) /\ f <= e + 1
  <2>1. UserOf[c] \in Users BY ConstantsOK
  <2>2. current_seq \in Nat /\ current_seq <= e
    BY <1>3, RoomTyped DEF RoomInv, CommitSteps
  <2>3. /\ session_floors[UserOf[c]] \in Nat \cup {NoFloor}
        /\ session_floors[UserOf[c]] <= e
    BY <1>3, <2>1 DEF LinkInv, FloorsBounded, RoomInv, TypeOK
  <2>4. QED BY <2>2, <2>3 DEF ResyncFloor, NoFloor
<1>6. ClampFrom(UserOf[c], Head(erx[c])) \in {h, f} BY <1>4, <1>5 DEF ClampFrom, MaxOf
<1>7. QED BY <1>2, <1>3, <1>4, <1>5, <1>6

(* Replays and events: the egress loop appends what takes the client on.   *)
LEMMA EgressKeepsSound ==
  ASSUME RoomInv, LinkInv, NEW c \in Clients, Sound(c), Announced(c)',
         EgressResync(c) \/ EgressLagged(c) \/ EgressEvent(c) \/ EgressGap(c)
  PROVE  Sound(c)'
<1>1. /\ UNCHANGED <<phase, nextExpected, base, seen, events, commit, current_seq>>
      /\ sess[c] = "live" /\ sess'[c] = "live"
  BY DEF EgressResync, EgressLagged, EgressEvent, EgressGap, client, server, room
<1>2. Entered(c)' BY <1>1 DEF Sound, Entered
<1>3. PICK n \in Nat \ {0}, m \in Nat, ne \in Nat \ {0}, q \in Seq(DownFrame),
           L \in SUBSET Nat, p \in Nat :
           /\ n = nextExpected[c] /\ ne = next_expected[c] /\ q = down[c] /\ L = lost[c]
           /\ ne \in 1..(events + 1) /\ p = Pushed
           /\ Reads(q, n, m, L) /\ n <= m
           /\ ne <= m \/ (catchingUp[c] /\ ne <= p + 1)
  BY <1>1, InFlight
<1>4. Accounted(c)'
  <2>1. lost[c] \subseteq lost'[c]
    <3>1. CASE EgressEvent(c) BY <3>1 DEF EgressEvent, causes
    <3>2. CASE \E why, fr, to : Loses(c, why, fr, to)
      BY <3>2 DEF Loses, RoomInv, TypeOK
    <3>3. CASE EgressResync(c) \/ EgressLagged(c) \/ EgressGap(c)
      BY <3>2, <3>3 DEF EgressResync, EgressLagged, EgressGap
    <3>4. QED BY <3>1, <3>3
  <2>2. QED BY <1>1, <2>1 DEF Sound, Accounted
<1>5. CASE EgressResync(c)
  <2> DEFINE asked == Head(erx[c])
             from == ClampFrom(UserOf[c], asked)
             why == dropped \cup asked..(from - 1)
  <2>1. /\ down'[c] = down[c] \o ReplayFrames(from, ResyncRange(from))
        /\ next_expected'[c] = MaxOf(ReplayTo(from, ResyncRange(from)) + 1, next_expected[c])
        /\ Loses(c, why, ResyncRange(from), ReplayTo(from, ResyncRange(from)))
        /\ erx[c] # <<>>
    BY <1>5 DEF EgressResync, RoomInv, TypeOK
  <2>2. asked \in 1..nextExpected[c]
    BY <2>1, HeadTailProperties DEF LinkInv, Bounded
  <2>7. from \in 1..(events + 1) /\ from \in Nat BY <2>1, AskedInLog, RoomTyped
  <2>4. PICK h \in Nat \ {0} : h = asked /\ h <= n BY <1>3, <2>2
  <2>8. ASSUME NEW d \in nextExpected[c]..(from - 1) PROVE d \in why
    <3>1. d \in asked..(from - 1) BY <1>3, <2>4, <2>7
    <3>2. QED BY <3>1
  <2>9. dropped \subseteq why OBVIOUS
  <2> HIDE DEF from, why
  <2>10. PICK t \in Nat : t = ReplayTo(from, ResyncRange(from)) BY <2>7, ReplayReach
  <2>11. next_expected'[c] \in {ReplayTo(from, ResyncRange(from)) + 1, next_expected[c]}
    BY <2>1 DEF MaxOf
  <2>12. (\E k \in Nat : Arrives(c, k))'
    BY <1>1, <2>1, <2>7, <2>8, <2>9, <2>11, ReplayKeepsArrives
  <2>13. QED BY <1>2, <1>4, <2>12 DEF Sound
<1>6. CASE EgressLagged(c) \/ EgressGap(c)
  <2> DEFINE why == dropped \cup Overtaken(c)
             to == ReplayTo(ne, ResyncRange(ne))
  <2>1. Loses(c, why, ResyncRange(ne), to)
    BY <1>3, <1>6 DEF EgressLagged, EgressGap
  <2>2. ASSUME NEW d \in nextExpected[c]..(ne - 1)
        PROVE  d \in why \/ (~catchingUp[c] /\ d < next_expected[c])
    <3>1. d < next_expected[c] BY <1>3
    <3>2. catchingUp[c] => d \in Overtaken(c) BY <1>3 DEF Overtaken
    <3>3. QED BY <3>1, <3>2
  <2>3. PICK t \in Nat : t = to /\ p <= t BY <1>3, ReplayReach
  <2>4. down'[c] = down[c] \o ReplayFrames(ne, ResyncRange(ne)) /\ next_expected'[c] = to + 1
    <3>1. CASE EgressLagged(c) BY <1>3, <3>1 DEF EgressLagged, RoomInv, TypeOK
    <3>2. CASE EgressGap(c)
      <4>1. PICK h : h = Head(rx[c]) OBVIOUS
      <4>2. /\ next_expected'[c] = MaxOf(to, h) + 1
            /\ down'[c] = down[c] \o ReplayFrames(ne, ResyncRange(ne))
                            \o IF h > to THEN <<[type |-> "event", seq |-> h]>> ELSE <<>>
        BY <1>3, <3>2, <4>1 DEF EgressGap, RoomInv, TypeOK
      <4>3. rx[c] # <<>> /\ rx[c] \in Seq(Nat) /\ Announced(c)
        BY <3>2 DEF EgressGap, RoomInv, TypeOK, Sound
      <4>4. h \in Nat /\ h <= current_seq
        <5>1. 1 \in 1..Len(rx[c]) /\ h = rx[c][1] BY <4>1, <4>3
        <5>2. h \in Nat BY <4>3, <5>1, ElementOfSeq
        <5>3. QED BY <4>3, <5>1, <5>2 DEF Announced, Within
      <4>5. h <= t BY <1>3, <2>3, <4>4, RoomTyped
      <4>6. ~(h > to) /\ MaxOf(to, h) = to BY <2>3, <4>4, <4>5 DEF MaxOf
      <4>7. PICK r \in Seq(DownFrame) : r = q \o ReplayFrames(ne, ResyncRange(ne))
        BY ReplayTyped, ConcatProperties
      <4>8. r \o <<>> = r BY ConcatEmptySeq
      <4>9. QED BY <1>3, <4>2, <4>6, <4>7, <4>8
    <3>3. QED BY <1>6, <3>1, <3>2
  <2>5. dropped \subseteq why OBVIOUS
  <2> HIDE DEF why, to
  <2>6. next_expected'[c] \in {to + 1, next_expected[c]} BY <2>4
  <2>7. (\E k \in Nat : Arrives(c, k))'
    BY <1>1, <1>3, <2>1, <2>2, <2>4, <2>5, <2>6, ReplayKeepsArrives DEF to
  <2>8. QED BY <1>2, <1>4, <2>7 DEF Sound
<1>7. CASE EgressEvent(c)
  <2>1. /\ catchingUp'[c] = catchingUp[c] /\ lost'[c] = L /\ rx[c] # <<>>
        /\ rx[c] \in Seq(Nat) /\ Announced(c)
    BY <1>3, <1>7 DEF EgressEvent, causes, RoomInv, TypeOK, Sound
  <2>2. PICK h \in Nat : h = Head(rx[c]) /\ h <= p
    <3>1. 1 \in 1..Len(rx[c]) /\ Head(rx[c]) = rx[c][1] BY <2>1
    <3>2. PICK h \in Nat : h = Head(rx[c]) BY <2>1, <3>1, ElementOfSeq
    <3>3. h <= current_seq BY <2>1, <3>1, <3>2 DEF Announced, Within
    <3>4. QED BY <1>3, <3>2, <3>3, RoomTyped
  <2>3. /\ next_expected'[c] = MaxOf(h + 1, ne) /\ h <= ne
        /\ down'[c] = q \o (IF h = ne THEN <<[type |-> "event", seq |-> h]>> ELSE <<>>)
    BY <1>3, <1>7, <2>2 DEF EgressEvent, RoomInv, TypeOK
  <2>4. Pushed' = p BY <1>1, <1>3 DEF Pushed
  <2>5. CASE h # ne
    <3>1. MaxOf(h + 1, ne) = ne BY <2>3, <2>5 DEF MaxOf
    <3>2. next_expected'[c] = ne BY <2>3, <3>1
    <3>3. down'[c] = q BY <2>3, <2>5, ConcatEmptySeq
    <3>4. Arrives(c, m)' BY <1>1, <1>3, <2>1, <2>4, <3>2, <3>3 DEF Arrives
    <3>5. QED BY <1>2, <1>4, <3>4 DEF Sound
  <2>6. CASE h = ne
    <3>0. [type |-> "event", seq |-> h] \in DownFrame BY DEF DownFrame
    <3>1. PICK f \in DownFrame : /\ f = [type |-> "event", seq |-> h]
                                 /\ f.type = "event" /\ f.seq = h
      BY <3>0
    <3>2. next_expected'[c] = ne + 1
      <4>1. MaxOf(h + 1, ne) = ne + 1 BY <2>6 DEF MaxOf
      <4>2. QED BY <2>3, <4>1
    <3>3. down'[c] = Append(q, f)
      <4>1. down'[c] = q \o <<f>> BY <2>3, <2>6, <3>1
      <4>2. q \o <<f>> = Append(q, f) BY AppendIsConcat
      <4>3. QED BY <4>1, <4>2
    <3>4. Honest(m, f, L) BY <3>1 DEF Honest
    <3>5. PICK r \in Nat : r = After(m, f) /\ r >= m /\ (m = h => r = h + 1)
      BY <3>1 DEF After
    <3>6. Reads(Append(q, f), n, r, L) BY <1>3, <3>4, <3>5, ReadsAppend
    <3>7. ne + 1 <= r \/ (catchingUp[c] /\ ne + 1 <= p + 1)
      <4>1. ne <= m => ne + 1 <= r BY <2>6, <3>5
      <4>2. ne + 1 <= p + 1 BY <2>2, <2>6
      <4>3. QED BY <1>3, <4>1, <4>2, Zenon
    <3>8. Arrives(c, r)' BY <1>1, <1>3, <2>1, <2>4, <3>2, <3>3, <3>6, <3>7 DEF Arrives
    <3>9. QED BY <1>2, <1>4, <3>8 DEF Sound
  <2>7. QED BY <2>5, <2>6
<1>8. QED BY <1>5, <1>6, <1>7

(* A frame taken: the client goes where it was told it would.              *)
LEMMA FrameKeepsSound ==
  ASSUME RoomInv, LinkInv, FromBase, NEW c \in Clients, Sound(c), HandleFrame(c),
         Announced(c)'
  PROVE  Sound(c)'
<1> USE DEF server, room, egress, causes, bounds
<1>1. /\ UNCHANGED <<phase, base, sess, next_expected, catchingUp, lost>>
      /\ UNCHANGED <<events, commit, current_seq>>
      /\ phase[c] = "open" /\ down[c] # <<>> /\ down' = [down EXCEPT ![c] = Tail(@)]
  BY DEF HandleFrame, ClientWelcome, ClientEvent, ClientResyncEnd, Take
<1>2. sess[c] = "live" BY <1>1 DEF LinkInv, Linked, RoomInv, TypeOK
<1>3. Entered(c)' BY <1>1 DEF Sound, Entered
<1>4. PICK n \in Nat \ {0}, m \in Nat, ne \in Nat \ {0}, q \in Seq(DownFrame),
           L \in SUBSET Nat, p \in Nat :
           /\ n = nextExpected[c] /\ ne = next_expected[c] /\ q = down[c] /\ L = lost[c]
           /\ ne \in 1..(events + 1) /\ p = Pushed
           /\ Reads(q, n, m, L) /\ n <= m
           /\ ne <= m \/ (catchingUp[c] /\ ne <= p + 1)
  BY <1>2, InFlight
<1>5. PICK f \in DownFrame : f = Head(q)
  <2>1. q # <<>> BY <1>1, <1>4
  <2>2. QED BY <2>1, HeadTailProperties
<1>6. Honest(n, f, L) /\ Reads(Tail(q), After(n, f), m, L)
  <2>1. q # <<>> BY <1>1, <1>4
  <2>2. QED BY <1>4, <1>5, <2>1, ReadsTail
<1>7. PICK h \in Nat : h = f.seq BY DEF DownFrame
<1>8. nextExpected'[c] = After(n, f) /\ Accounted(c)'
  <2>1. Accounted(c) BY DEF Sound
  <2>2. CASE nextExpected'[c] = n /\ seen'[c] = seen[c] /\ After(n, f) = n
    BY <1>1, <1>4, <2>1, <2>2 DEF Accounted
  <2>3. CASE ClientWelcome(c)
    <3>1. f.type = "welcome" /\ UNCHANGED <<nextExpected, seen>>
      BY <1>4, <1>5, <2>3 DEF ClientWelcome, Take
    <3>2. After(n, f) = n BY <3>1 DEF After
    <3>3. QED BY <1>4, <2>2, <3>1, <3>2
  <2>4. PICK b \in Nat \cup {NotEntered} : b = base[c] /\ b < n
    BY <1>4 DEF FromBase, RoomInv, TypeOK
  <2>5. CASE ClientResyncEnd(c)
    <3>1. /\ f.type = "resync_end" /\ UNCHANGED seen
          /\ nextExpected' = [nextExpected EXCEPT ![c] = MaxOf(@, h + 1)]
      BY <1>4, <1>5, <1>7, <2>5 DEF ClientResyncEnd, Take
    <3>2. PICK y \in Nat : y = MaxOf(n, h + 1) /\ n <= y /\ (n < y => y = h + 1) BY DEF MaxOf
    <3>3. nextExpected'[c] = y /\ After(n, f) = y
      BY <1>4, <1>7, <3>1, <3>2 DEF After, RoomInv, TypeOK
    <3>4. ASSUME base[c] # NotEntered, NEW x \in (base[c] + 1)..(y - 1)
          PROVE  Holds(seen[c], x) \/ x \in L
      <4>1. CASE x < n
        <5>1. x \in (base[c] + 1)..(nextExpected[c] - 1) BY <1>4, <2>4, <4>1
        <5>2. QED BY <1>4, <2>1, <3>4, <5>1 DEF Accounted
      <4>2. CASE ~(x < n)
        <5>1. x \in n..h BY <2>4, <3>2, <4>2
        <5>2. QED BY <1>6, <1>7, <3>1, <5>1 DEF Honest
      <4>3. QED BY <4>1, <4>2
    <3>5. Accounted(c)' BY <1>1, <1>4, <2>1, <3>1, <3>3, <3>4 DEF Accounted
    <3>6. QED BY <3>3, <3>5
  <2>6. CASE ClientEvent(c)
    <3>1. f.type = "event" /\ h = Head(down[c]).seq
      BY <1>4, <1>5, <1>7, <2>6 DEF ClientEvent, Take
    <3>2. CASE h = n
      <4>1. ~(h < n) BY <3>2
      <4>2. /\ nextExpected' = [nextExpected EXCEPT ![c] = h + 1]
            /\ seen' = [seen EXCEPT ![c] = Append(@, h)]
        BY <1>4, <2>6, <3>1, <3>2, <4>1 DEF ClientEvent, DropsEvent, AppliesEvent
      <4>3. nextExpected'[c] = n + 1 /\ seen'[c] = Append(seen[c], n)
        BY <3>2, <4>2 DEF RoomInv, TypeOK
      <4>4. After(n, f) = n + 1 BY <1>7, <3>1, <3>2 DEF After
      <4>5. PICK k \in Nat : k = Len(seen[c]) BY DEF RoomInv, TypeOK
      <4>6. /\ Len(seen'[c]) = k + 1 /\ seen'[c][k + 1] = n
            /\ \A i \in 1..k : seen'[c][i] = seen[c][i]
        BY <4>3, <4>5, AppendProperties DEF RoomInv, TypeOK
      <4>7. ASSUME base[c] # NotEntered, NEW i \in 1..(k + 1) PROVE base[c] < seen'[c][i]
        <5>1. CASE i = k + 1 BY <2>4, <4>6, <5>1
        <5>2. CASE i # k + 1
          <6>1. i \in 1..k BY <5>2
          <6>2. QED BY <2>1, <4>5, <4>6, <4>7, <6>1 DEF Accounted
        <5>3. QED BY <5>1, <5>2
      <4>8. \A x : Holds(seen[c], x) => Holds(seen'[c], x)
        <5> SUFFICES ASSUME NEW i \in 1..k PROVE \E j \in 1..(k + 1) : seen'[c][j] = seen[c][i]
          BY <4>5, <4>6 DEF Holds
        <5>1. i \in 1..(k + 1) OBVIOUS
        <5>2. QED BY <4>6, <5>1
      <4>9. Holds(seen'[c], n)
        <5>1. k + 1 \in 1..(k + 1) OBVIOUS
        <5>2. QED BY <4>6, <5>1 DEF Holds
      <4>10. ASSUME base[c] # NotEntered, NEW x \in (base[c] + 1)..((n + 1) - 1)
             PROVE  Holds(seen'[c], x) \/ x \in L
        <5>1. CASE x = n BY <4>9, <5>1
        <5>2. CASE x # n
          <6>1. x \in (base[c] + 1)..(nextExpected[c] - 1) BY <1>4, <2>4, <5>2
          <6>2. QED BY <1>4, <2>1, <4>8, <4>10, <6>1 DEF Accounted
        <5>3. QED BY <5>1, <5>2
      <4>11. Accounted(c)' BY <1>1, <1>4, <4>3, <4>6, <4>7, <4>10 DEF Accounted
      <4>12. QED BY <4>3, <4>4, <4>11
    <3>3. CASE h # n
      <4>1. UNCHANGED <<nextExpected, seen>>
        BY <1>4, <2>6, <3>1, <3>3 DEF ClientEvent, AppliesEvent
      <4>2. After(n, f) = n BY <1>7, <3>1, <3>3 DEF After
      <4>3. QED BY <1>4, <2>2, <4>1, <4>2
    <3>4. QED BY <3>2, <3>3
  <2>7. QED BY <2>3, <2>5, <2>6 DEF HandleFrame
<1>9. down'[c] = Tail(q) BY <1>1, <1>4 DEF RoomInv, TypeOK
<1>10. Pushed' = p BY <1>1, <1>4 DEF Pushed
<1>11. Arrives(c, m)' BY <1>1, <1>4, <1>6, <1>8, <1>9, <1>10 DEF Arrives
<1>12. QED BY <1>3, <1>8, <1>11 DEF Sound

(* A step of another session, or of the room, or of this session's ingress.*)
LEMMA StepKeepsSound ==
  ASSUME RoomInv, LinkInv, FromBase, [Next]_vars, NEW c \in Clients, Sound(c)
  PROVE  Sound(c)'
<1>0. Announced(c)' BY AnnouncedStays DEF Sound
<1>1. CASE Steady(c)
  <2>1. PICK p \in Nat : Pushed' = p /\ Pushed <= p BY SeqRises
  <2>2. QED BY <1>0, <1>1, <2>1, SoundStays
<1> USE DEF server, room, egress, wire, client, causes, bounds
<1>2. CASE Commit
  BY <1>1, <1>2 DEF Steady, Commit, CommitStore, PublishDropped, CommitRing, CommitSeq, CommitSend
<1>3. CASE HandlerEnds \/ UNCHANGED vars
  BY <1>1, <1>3 DEF Steady, HandlerEnds, vars
<1>4. CASE Restart BY <1>0, <1>4, RestartKeepsSound
<1>5. ASSUME NEW d \in Clients,
             Bootstrap(d) \/ Connect(d) \/ Ingress(d) \/ Egress(d)
               \/ HandleFrame(d) \/ Disconnect(d) \/ Leave(d)
      PROVE  Sound(c)'
  <2>1. CASE Ingress(d) BY <1>1, <2>1 DEF Steady, Ingress, IngressHello, IngressResync
  <2>2. CASE d = c
    BY <1>0, <1>5, <2>1, <2>2, SessionKeepsSound, WelcomeKeepsSound, EgressKeepsSound,
       FrameKeepsSound DEF Egress
  <2>3. CASE d # c /\ (Bootstrap(d) \/ Connect(d))
    <3>1. CASE Bootstrap(d)
      <4>1. CASE SnapshotDocs(d)
        BY <1>1, <2>3, <4>1 DEF Steady, SnapshotDocs, RoomInv, TypeOK
      <4>2. CASE SnapshotSeq(d)
        BY <1>1, <2>3, <4>2 DEF Steady, SnapshotSeq, StartAt, RoomInv, TypeOK
      <4>3. CASE SnapshotFails(d)
        BY <1>1, <2>3, <4>3 DEF Steady, SnapshotFails, StartAt, RoomInv, TypeOK
      <4>4. QED BY <3>1, <4>1, <4>2, <4>3 DEF Bootstrap
    <3>2. CASE Connect(d) BY <1>1, <2>3, <3>2 DEF Steady, Connect, RoomInv, TypeOK
    <3>3. QED BY <2>3, <3>1, <3>2
  <2>4. CASE d # c /\ (Disconnect(d) \/ Leave(d))
    <3>1. lagged[c] \in BOOLEAN /\ catchingUp[c] \in BOOLEAN BY DEF RoomInv, TypeOK
    <3>2. c \notin {d} BY <2>4
    <3>3. catchingUp'[c] = (c \notin {d} /\ catchingUp[c])
      BY <2>4 DEF Disconnect, Leave, Cut
    <3>4. catchingUp'[c] = catchingUp[c] BY <3>1, <3>2, <3>3
    <3>5. /\ sess'[c] = sess[c] /\ down'[c] = down[c]
          /\ next_expected'[c] = next_expected[c]
      BY <2>4, <3>2 DEF Disconnect, Leave, Cut
    <3>6. /\ phase'[c] = phase[c] /\ nextExpected'[c] = nextExpected[c]
          /\ base'[c] = base[c] /\ seen'[c] = seen[c]
          /\ lost'[c] = lost[c]
      <4>1. CASE Disconnect(d) BY <2>4, <4>1 DEF Disconnect, RoomInv, TypeOK
      <4>2. CASE Leave(d) BY <2>4, <4>2 DEF Leave, RoomInv, TypeOK
      <4>3. QED BY <2>4, <4>1, <4>2
    <3>7. Steady(c) BY <3>4, <3>5, <3>6 DEF Steady
    <3>8. QED BY <1>1, <3>7
  <2>5. CASE d # c /\ Egress(d)
    <3>1. CASE Welcome(d) BY <1>1, <2>5, <3>1 DEF Steady, Welcome, RoomInv, TypeOK
    <3>2. CASE EgressResync(d)
      BY <1>1, <2>5, <3>2 DEF Steady, EgressResync, Loses, RoomInv, TypeOK
    <3>3. CASE EgressLagged(d)
      BY <1>1, <2>5, <3>3 DEF Steady, EgressLagged, Loses, RoomInv, TypeOK
    <3>4. CASE EgressEvent(d) BY <1>1, <2>5, <3>4 DEF Steady, EgressEvent, RoomInv, TypeOK
    <3>5. CASE EgressGap(d)
      BY <1>1, <2>5, <3>5 DEF Steady, EgressGap, Loses, RoomInv, TypeOK
    <3>6. QED BY <2>5, <3>1, <3>2, <3>3, <3>4, <3>5 DEF Egress
  <2>6. CASE d # c /\ HandleFrame(d)
    <3>1. CASE ClientWelcome(d)
      BY <1>1, <2>6, <3>1 DEF Steady, ClientWelcome, Take, RoomInv, TypeOK
    <3>2. CASE ClientEvent(d)
      <4>1. nextExpected'[c] = nextExpected[c] /\ seen'[c] = seen[c]
        BY <2>6, <3>2 DEF ClientEvent, RoomInv, TypeOK
      <4>2. Take(d, "event") BY <3>2 DEF ClientEvent
      <4>3. Steady(c) BY <2>6, <4>1, <4>2 DEF Take, Steady, RoomInv, TypeOK
      <4>4. QED BY <1>1, <4>3
    <3>3. CASE ClientResyncEnd(d)
      BY <1>1, <2>6, <3>3 DEF Steady, ClientResyncEnd, Take, RoomInv, TypeOK
    <3>4. QED BY <2>6, <3>1, <3>2, <3>3 DEF HandleFrame
  <2>7. QED BY <1>5, <2>1, <2>2, <2>3, <2>4, <2>5, <2>6
<1>6. QED BY <1>2, <1>3, <1>4, <1>5 DEF Next

SoundInv == \A c \in Clients : Sound(c)

LEMMA SoundCorrect == Spec => []SoundInv
<1>1. Init => SoundInv
  <2> SUFFICES ASSUME Init, NEW c \in Clients PROVE Sound(c) BY DEF SoundInv
  <2>1. /\ phase[c] = "out" /\ nextExpected[c] = 1 /\ seen[c] = <<>> /\ sess[c] = "none"
        /\ base[c] = NotEntered
    BY DEF Init
  <2>2. rx[c] = <<>> BY DEF Init
  <2>3. QED BY <2>1, <2>2, NoneRises DEF Sound, Entered, Accounted, Announced
<1>2. RoomInv /\ LinkInv /\ FromBase /\ SoundInv /\ [Next]_vars => SoundInv'
  BY StepKeepsSound DEF SoundInv
<1>3. QED BY LinksCorrect, FromBaseCorrect, <1>1, <1>2, PTL DEF Spec

(* Every event between the watermark a session entered at and the one it   *)
(* has reached was applied, or a replay passed it by: through every drop of*)
(* a publish, reconnect, lag, replay and restart.                          *)
THEOREM GaplessCorrect == Spec => []GaplessUnlessLost
<1>1. SoundInv => GaplessUnlessLost BY DEF SoundInv, Sound, Accounted, GaplessUnlessLost
<1>2. QED BY SoundCorrect, <1>1, PTL

-----------------------------------------------------------------------------
(* The refinement, step by step: what the invariants above say of a        *)
(* session is what makes each of its steps a step of the abstract stream,  *)
(* or none.                                                                *)

(* A replay that passes events by loses them, or none.                     *)
LEMMA LoseOrStay ==
  ASSUME RoomInv, LinkInv, NEW c \in Clients, base[c] # NotEntered,
         UNCHANGED <<events, base, seen>>,
         NEW why, NEW from \in 1..(events + 1),
         Loses(c, why, ResyncRange(from), ReplayTo(from, ResyncRange(from)))
  PROVE  Stream!Lose(c)
<1>1. PICK fr, to : fr = ResyncRange(from) /\ to = ReplayTo(from, fr) OBVIOUS
<1>2. to \in Nat /\ to <= events /\ events \in Nat BY <1>1, ReplayReach, RoomTyped
<1>3. PICK S : S = PassedBy(c, why, fr, to) OBVIOUS
<1>4. S \in SUBSET (1..events)
  <2>1. nextExpected[c] \in Nat \ {0} BY DEF RoomInv, TypeOK
  <2>2. QED BY <1>2, <1>3, <2>1 DEF PassedBy
<1>5. lost' = [lost EXCEPT ![c] = @ \cup S] BY <1>1, <1>3 DEF Loses
<1>6. QED BY <1>4, <1>5 DEF Stream!Lose, Stream!NotEntered, NotEntered

(* A session that applies the event it expects has lost all that lies      *)
(* between it and the newest one it has.                                   *)
LEMMA ApplySimulates ==
  ASSUME RoomInv, LinkInv, BehindInv, SoundInv, FromBase, NEW c \in Clients,
         base[c] # NotEntered, nextExpected[c] <= events,
         UNCHANGED <<events, base, lost>>,
         seen' = [seen EXCEPT ![c] = Append(@, nextExpected[c])]
  PROVE  Stream!Apply(c)
<1>1. PICK x \in Nat \ {0} : x = nextExpected[c] BY DEF RoomInv, TypeOK
<1>2. PICK e \in Nat : e = events /\ x <= e BY <1>1 DEF RoomInv, TypeOK
<1>3. PICK b \in Nat : b = base[c] /\ b < x BY <1>1 DEF FromBase, RoomInv, TypeOK
<1>4. seen[c] \in Seq(Nat) /\ Len(seen[c]) \in Nat BY DEF RoomInv, TypeOK
<1>5. PICK k \in Nat : k = Len(seen[c]) BY <1>4
<1>6. Accounted(c) BY DEF SoundInv, Sound
<1>7. PICK w \in Nat : /\ w = Stream!Newest(c) /\ w < x /\ b <= w
                       /\ \A d \in (w + 1)..(x - 1) : ~Holds(seen[c], d)
  <2>1. CASE seen[c] = <<>>
    <3>1. Stream!Newest(c) = b /\ k = 0 BY <1>3, <1>5, <2>1 DEF Stream!Newest
    <3>2. \A d : ~Holds(seen[c], d) BY <1>5, <3>1 DEF Holds
    <3>3. QED BY <1>3, <3>1, <3>2
  <2>2. CASE seen[c] # <<>>
    <3>1. k # 0 /\ k \in 1..k BY <1>4, <1>5, <2>2, EmptySeq
    <3>2. PICK w \in Nat : w = seen[c][k] BY <1>4, <1>5, <3>1, ElementOfSeq
    <3>3. w < x BY <1>1, <1>5, <3>1, <3>2 DEF BehindInv, Behind
    <3>4. b <= w
      <4>1. base[c] < seen[c][k] BY <1>5, <1>6, <3>1 DEF Accounted
      <4>2. QED BY <1>3, <3>2, <4>1
    <3>5. Stream!Newest(c) = w BY <1>5, <2>2, <3>2 DEF Stream!Newest
    <3>6. ASSUME NEW d \in (w + 1)..(x - 1), NEW i \in 1..k, seen[c][i] = d PROVE FALSE
      <4>1. Rising(seen[c]) BY DEF BehindInv, Behind, Rising
      <4>2. i \in 1..Len(seen[c]) /\ k \in 1..Len(seen[c]) /\ i <= k BY <1>5, <3>1
      <4>3. seen[c][i] <= seen[c][k] BY <1>4, <4>1, <4>2, RisingPlaces
      <4>4. QED BY <3>2, <3>6, <4>3
    <3>7. \A d \in (w + 1)..(x - 1) : ~Holds(seen[c], d) BY <1>5, <3>6 DEF Holds
    <3>8. QED BY <3>3, <3>4, <3>5, <3>7
  <2>3. QED BY <2>1, <2>2
<1>8. ASSUME NEW d \in (w + 1)..(x - 1) PROVE d \in lost[c]
  <2>1. d \in (base[c] + 1)..(nextExpected[c] - 1) BY <1>1, <1>3, <1>7
  <2>2. Holds(seen[c], d) \/ d \in lost[c] BY <1>6, <2>1 DEF Accounted
  <2>3. QED BY <1>7, <2>2
<1>9. x \in (w + 1)..e BY <1>1, <1>2, <1>7
<1>10. seen' = [seen EXCEPT ![c] = Append(@, x)] BY <1>1
<1>11. QED BY <1>2, <1>7, <1>8, <1>9, <1>10
       DEF Stream!Apply, Stream!NotEntered, NotEntered

LEMMA ServerSimulates ==
  ASSUME RoomInv, Commit \/ HandlerEnds \/ Restart \/ UNCHANGED vars
  PROVE  [Stream!Next]_Stream!vars
<1> USE DEF server, room, egress, wire, client, causes, bounds
<1>1. UNCHANGED <<base, seen, lost>>
  BY DEF Commit, CommitStore, PublishDropped, CommitRing, CommitSeq, CommitSend, HandlerEnds,
         Restart, vars
<1>2. CASE CommitStore
  BY <1>1, <1>2 DEF CommitStore, Stream!Next, Stream!Commit
<1>3. CASE events' = events BY <1>1, <1>3 DEF Stream!vars
<1>4. QED BY <1>2, <1>3 DEF Commit, PublishDropped, CommitRing, CommitSeq, CommitSend,
                            HandlerEnds, Restart, vars

LEMMA SessionSimulates ==
  ASSUME RoomInv, LinkInv, BehindInv, SoundInv, FromBase, NEW c \in Clients,
         Bootstrap(c) \/ Connect(c) \/ Ingress(c) \/ Egress(c)
           \/ HandleFrame(c) \/ Disconnect(c) \/ Leave(c)
  PROVE  Stream!Next \/ UNCHANGED Stream!vars
<1> USE DEF server, room, egress, wire, client, causes, bounds
<1>1. Entered(c) /\ phase[c] \in {"out", "snapshot", "closed", "open"}
  BY DEF SoundInv, Sound, RoomInv, TypeOK
<1>2. phase[c] \in {"closed", "open"} => base[c] # NotEntered BY <1>1 DEF Entered
<1>3. CASE UNCHANGED <<events, base, seen, lost>>
  BY <1>3 DEF Stream!vars
<1>4. CASE SnapshotDocs(c) \/ Connect(c) \/ Ingress(c) \/ Welcome(c) \/ EgressEvent(c)
             \/ Disconnect(c)
  BY <1>3, <1>4 DEF SnapshotDocs, Connect, Ingress, IngressHello, IngressResync, Welcome,
                    EgressEvent, Disconnect
<1>5. CASE SnapshotSeq(c) \/ SnapshotFails(c)
  <2>1. PICK s \in 0..events : base' = [base EXCEPT ![c] = s]
    <3>1. current_seq \in Nat /\ events \in Nat /\ current_seq <= events
      BY RoomTyped DEF RoomInv, CommitSteps
    <3>2. QED BY <1>5, <3>1 DEF SnapshotSeq, SnapshotFails, StartAt
  <2>2. base[c] = NotEntered BY <1>1, <1>5 DEF Entered, SnapshotSeq, SnapshotFails
  <2>3. UNCHANGED <<events, seen, lost>>
    BY <1>5 DEF SnapshotSeq, SnapshotFails
  <2>4. Stream!Enter(c)
    BY <2>1, <2>2, <2>3 DEF Stream!Enter, Stream!NotEntered, NotEntered
  <2>5. QED BY <2>4 DEF Stream!Next
<1>6. CASE EgressResync(c) \/ EgressLagged(c) \/ EgressGap(c)
  <2>1. sess[c] = "live" BY <1>6 DEF EgressResync, EgressLagged, EgressGap
  <2>2. phase[c] = "open" BY <2>1 DEF LinkInv, Linked
  <2>3. base[c] # NotEntered BY <1>2, <2>2
  <2>4. UNCHANGED <<events, base, seen>>
    BY <1>6 DEF EgressResync, EgressLagged, EgressGap
  <2>5. Stream!Lose(c)
    <3>1. next_expected[c] \in 1..(events + 1)
      <4>1. next_expected[c] \in Nat /\ next_expected[c] > 0
        BY <2>1 DEF RoomInv, TypeOK, Started
      <4>2. next_expected[c] <= events + 1 /\ events \in Nat
        BY RoomTyped DEF LinkInv, Bounded
      <4>3. QED BY <4>1, <4>2
    <3>2. CASE EgressLagged(c) \/ EgressGap(c)
      <4>1. Loses(c, dropped \cup Overtaken(c), ResyncRange(next_expected[c]),
                  ReplayTo(next_expected[c], ResyncRange(next_expected[c])))
        BY <3>2 DEF EgressLagged, EgressGap
      <4>2. QED BY <2>3, <2>4, <3>1, <4>1, LoseOrStay
    <3>3. CASE EgressResync(c)
      <4> DEFINE asked == Head(erx[c])
                 from == ClampFrom(UserOf[c], asked)
      <4>1. from \in 1..(events + 1) BY <3>3, AskedInLog DEF EgressResync
      <4>2. Loses(c, dropped \cup asked..(from - 1), ResyncRange(from),
                  ReplayTo(from, ResyncRange(from)))
        BY <3>3 DEF EgressResync
      <4> HIDE DEF from, asked
      <4>3. QED BY <2>3, <2>4, <4>1, <4>2, LoseOrStay
    <3>4. QED BY <1>6, <3>2, <3>3
  <2>6. QED BY <2>5 DEF Stream!Next
<1>7. CASE HandleFrame(c)
  <2>1. /\ UNCHANGED <<events, base, lost>>
        /\ phase[c] = "open" /\ down[c] # <<>>
    BY <1>7 DEF HandleFrame, ClientWelcome, ClientEvent, ClientResyncEnd, Take
  <2>2. CASE seen' = seen BY <1>3, <2>1, <2>2
  <2>3. CASE seen' # seen
    <3>1. /\ nextExpected[c] = Head(down[c]).seq
          /\ seen' = [seen EXCEPT ![c] = Append(@, nextExpected[c])]
      BY <1>7, <2>3 DEF HandleFrame, ClientWelcome, ClientEvent, ClientResyncEnd,
                        AppliesEvent
    <3>2. down[c] \in Seq(DownTo(events)) BY DEF LinkInv, Bounded
    <3>3. Head(down[c]) \in DownTo(events) BY <2>1, <3>2, HeadTailProperties
    <3>4. nextExpected[c] <= events BY <3>1, <3>3 DEF DownTo
    <3>5. Stream!Apply(c) BY <1>2, <2>1, <3>1, <3>4, ApplySimulates
    <3>6. QED BY <3>5 DEF Stream!Next
  <2>4. QED BY <2>2, <2>3
<1>8. CASE Leave(c)
  <2>1. base[c] # NotEntered BY <1>2, <1>8 DEF Leave
  <2>2. Stream!Leave(c)
    BY <1>8, <2>1 DEF Leave, Stream!Leave, Stream!NotEntered, NotEntered
  <2>3. QED BY <2>2 DEF Stream!Next
<1>9. QED BY <1>4, <1>5, <1>6, <1>7, <1>8 DEF Bootstrap, Egress

(* Every session, whatever publishes are dropped and whatever reconnects,  *)
(* replays, lags and restarts it goes through, follows the log as          *)
(* EventStream says it may.                                                *)
THEOREM StreamCorrect == Spec => ImplementsStream
<1>1. Init => Stream!Init
  BY DEF Init, Stream!Init, Stream!NotEntered, NotEntered
<1>2. RoomInv /\ LinkInv /\ BehindInv /\ SoundInv /\ FromBase /\ [Next]_vars
        => [Stream!Next]_Stream!vars
  BY ServerSimulates, SessionSimulates DEF Next
<1>3. QED BY LinksCorrect, BehindCorrect, SoundCorrect, FromBaseCorrect, <1>1, <1>2, PTL
          DEF Spec, ImplementsStream, Stream!Spec

=============================================================================
