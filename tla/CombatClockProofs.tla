-------------------------- MODULE CombatClockProofs --------------------------
(***************************************************************************)
(* Proofs about CombatClock, for any number of combatants and requests,    *)
(* any lifespans, initiatives, records kept, rounds and races.  A          *)
(* transition is a composition of folds over the documents, so the proof   *)
(* follows it from one field change to what a commit makes of the stored   *)
(* clock:                                                                  *)
(*   - one change, and what a transition at work keeps (WorkOK);           *)
(*   - the walk, restores, and each transition (Outcome);                  *)
(*   - a commit on documents that have moved on (Committed);               *)
(*   - what a restore brings back (Brings, Restoring);                     *)
(*   - the inductive invariant (ClockInv), and the theorems;               *)
(*   - where a walk ends (WalkSettles, Ends, Settling).                    *)
(***************************************************************************)
EXTENDS CombatClock, WellFoundedInduction, FiniteSetTheorems, TLAPS

-----------------------------------------------------------------------------
(* Induction, without an operator as its parameter: over a set of          *)
(* naturals.                                                               *)

LEMMA NatInd ==
  ASSUME NEW S, 0 \in S, \A n \in Nat : n \in S => n + 1 \in S
  PROVE Nat \subseteq S
<1> SUFFICES ASSUME {n \in Nat : n \notin S} # {} PROVE FALSE
  OBVIOUS
<1>1. PICK T \in SUBSET Nat : T = {n \in Nat : n \notin S}
  OBVIOUS
<1>2. IsWellFoundedOn({p \in Nat \X Nat : p[1] < p[2]}, Nat)
  BY NatLessThanWellFounded DEF OpToRel
<1>3. PICK R : R = {p \in Nat \X Nat : p[1] < p[2]}
  OBVIOUS
<1>4. PICK x \in T : \A y \in T : ~(<<y, x>> \in R)
  BY <1>1, <1>2, <1>3, WFMin
<1>5. \A y \in T : ~(y < x)
  BY <1>1, <1>3, <1>4
<1>6. x \in Nat /\ x # 0 /\ x - 1 \in Nat /\ x - 1 \notin T
  BY <1>1, <1>5
<1> QED BY <1>1, <1>6

LEMMA UpTo ==
  ASSUME NEW k \in Nat
  PROVE  /\ 1..k + 1 # {} /\ Max(1..k + 1) = k + 1
         /\ (1..k + 1) \ {k + 1} = 1..k
         /\ \A s \in SUBSET (1..k + 1) : k + 1 \in s => Max(s) = k + 1
<1>1. ASSUME NEW s \in SUBSET (1..k + 1), k + 1 \in s PROVE Max(s) = k + 1
  <2>1. \A y \in s : k + 1 >= y
    BY <1>1
  <2>2. \A x \in s : (\A y \in s : x >= y) => x = k + 1
    BY <1>1
  <2> QED BY <1>1, <2>1, <2>2 DEF Max
<1>2. k + 1 \in 1..k + 1 /\ 1..k + 1 \in SUBSET (1..k + 1)
  OBVIOUS
<1> QED BY <1>1, <1>2

(* What a fold returns is told from the values it passes through; each of  *)
(* the folds below is unrolled this way, once.                             *)
LEMMA KeptChain ==
  ASSUME NEW seq, NEW S, NEW n \in Nat, DOMAIN seq = 1..n
  PROVE  \E a : /\ a[0] = <<>> /\ a[n] = Kept(seq, S)
                /\ \A k \in Nat : k + 1 <= n =>
                     a[k + 1] = IF seq[k + 1] \in S THEN Append(a[k], seq[k + 1]) ELSE a[k]
<1> DEFINE Step(out, x) == IF x \in S THEN Append(out, x) ELSE out
           Iter(h, k) == h = [s \in SUBSET (1..k) |->
             IF s = {} THEN <<>> ELSE Step(h[s \ {Max(s)}], seq[Max(s)])]
<1>1. Kept(seq, S) = (CHOOSE h : Iter(h, n))[1..n]
  BY Zenon DEF Kept, FoldLeft, MapThenFoldSet
<1> HIDE DEF Step
<1>2. ASSUME NEW k \in Nat, NEW h, Iter(h, k) PROVE \E g : Iter(g, k + 1)
  <2> DEFINE g == [s \in SUBSET (1..k + 1) |->
        IF k + 1 \in s THEN Step(h[s \ {k + 1}], seq[k + 1]) ELSE h[s]]
  <2>1. ASSUME NEW s \in SUBSET (1..k + 1)
        PROVE  g[s] = IF s = {} THEN <<>> ELSE Step(g[s \ {Max(s)}], seq[Max(s)])
    <3>1. CASE k + 1 \in s
      <4>1. Max(s) = k + 1 /\ s # {} /\ s \ {k + 1} \in SUBSET (1..k)
        BY <3>1, UpTo
      <4>2. s \ {k + 1} \in SUBSET (1..k + 1) /\ k + 1 \notin s \ {k + 1}
        OBVIOUS
      <4>3. g[s \ {k + 1}] = h[s \ {k + 1}]
        BY <4>2
      <4> QED BY <3>1, <4>1, <4>3
    <3>2. CASE k + 1 \notin s
      <4>1. s \in SUBSET (1..k) /\ s \ {Max(s)} \in SUBSET (1..k) /\ k + 1 \notin s \ {Max(s)}
        <5>1. \A x \in s : x \in 1..k
          BY <3>2
        <5> QED BY <3>2, <5>1
      <4>2. s \ {Max(s)} \in SUBSET (1..k + 1)
        OBVIOUS
      <4>3. g[s] = h[s] /\ g[s \ {Max(s)}] = h[s \ {Max(s)}]
        BY <3>2, <4>1, <4>2
      <4> QED BY <1>2, <4>1, <4>3
    <3> QED BY <3>1, <3>2
  <2>2. Iter(g, k + 1)
    BY <2>1
  <2> QED BY <2>2
<1>3. PICK it : it = (CHOOSE h : Iter(h, n)) /\ Iter(it, n)
  <2>1. Iter([s \in SUBSET (1..0) |-> <<>>], 0)
    OBVIOUS
  <2>2. PICK T : T = {k \in Nat : \E h : Iter(h, k)}
    OBVIOUS
  <2> HIDE DEF Iter
  <2>3. 0 \in T
    BY <2>1, <2>2
  <2>4. ASSUME NEW k \in Nat, k \in T PROVE k + 1 \in T
    BY <1>2, <2>2, <2>4
  <2>5. Nat \subseteq T
    BY <2>3, <2>4, NatInd
  <2> QED BY <2>2, <2>5
<1>4. it[1..0] = <<>> /\ \A k \in Nat : k + 1 <= n => it[1..k + 1] = Step(it[1..k], seq[k + 1])
  <2>1. 1..0 \in SUBSET (1..n) /\ 1..0 = {}
    OBVIOUS
  <2>2. ASSUME NEW k \in Nat, k + 1 <= n
        PROVE it[1..k + 1] = Step(it[1..k], seq[k + 1])
    <3>1. 1..k + 1 \in SUBSET (1..n)
      BY <2>2
    <3>2. 1..k + 1 # {} /\ Max(1..k + 1) = k + 1 /\ (1..k + 1) \ {k + 1} = 1..k
      BY UpTo
    <3> QED BY <1>3, <3>1, <3>2
  <2> QED BY <1>3, <2>1, <2>2
<1> HIDE DEF Iter
<1>5. PICK a : a = [k \in 0..n |-> it[1..k]]
  OBVIOUS
<1>6. a[0] = <<>> /\ a[n] = Kept(seq, S)
  BY <1>1, <1>3, <1>4, <1>5
<1>7. ASSUME NEW k \in Nat, k + 1 <= n PROVE a[k + 1] = Step(a[k], seq[k + 1])
  <2>1. k \in 0..n /\ k + 1 \in 0..n
    BY <1>7
  <2>2. a[k] = it[1..k] /\ a[k + 1] = it[1..k + 1]
    BY <1>5, <2>1
  <2> QED BY <1>4, <1>7, <2>2
<1> QED BY <1>6, <1>7 DEF Step

LEMMA KeptFacts ==
  ASSUME NEW X, NEW seq \in Seq(X), NEW S
  PROVE  /\ Kept(seq, S) \in Seq(X)
         /\ Len(Kept(seq, S)) <= Len(seq)
         /\ Range(Kept(seq, S)) \subseteq S
         /\ ~(Range(seq) \subseteq S) => Len(Kept(seq, S)) < Len(seq)
<1>1. PICK n \in Nat : n = Len(seq) /\ DOMAIN seq = 1..n
  OBVIOUS
<1>2. PICK a : /\ a[0] = <<>> /\ a[n] = Kept(seq, S)
               /\ \A k \in Nat : k + 1 <= n =>
                    a[k + 1] = IF seq[k + 1] \in S THEN Append(a[k], seq[k + 1]) ELSE a[k]
  BY <1>1, KeptChain
<1> DEFINE Good(out, k) ==
      /\ out \in Seq(X) /\ Len(out) <= k
      /\ \A i \in 1..Len(out) : out[i] \in S
      /\ (\E i \in 1..k : seq[i] \notin S) => Len(out) < k
<1>3. Good(a[0], 0)
  <2>1. <<>> \in Seq(X) /\ Len(<<>>) = 0
    OBVIOUS
  <2> QED BY <1>2, <2>1
<1>4. ASSUME NEW k \in Nat, k + 1 <= n, Good(a[k], k) PROVE Good(a[k + 1], k + 1)
  <2>1. PICK out \in Seq(X) : out = a[k] /\ Good(out, k)
    BY <1>4
  <2>2. /\ a[k + 1] = IF seq[k + 1] \in S THEN Append(out, seq[k + 1]) ELSE out
        /\ seq[k + 1] \in X
    BY <1>1, <1>2, <1>4, <2>1
  <2>3. Len(out) \in Nat /\ Append(out, seq[k + 1]) \in Seq(X)
    BY <2>2
  <2>4. CASE seq[k + 1] \in S
    BY <2>1, <2>2, <2>3, <2>4
  <2>5. CASE seq[k + 1] \notin S
    BY <2>1, <2>2, <2>3, <2>5
  <2> QED BY <2>4, <2>5
<1>5. PICK T : T = {k \in Nat : k <= n => Good(a[k], k)}
  OBVIOUS
<1> HIDE DEF Good
<1>6. n \in T
  <2>1. 0 \in T
    BY <1>3, <1>5
  <2>2. ASSUME NEW k \in Nat, k \in T PROVE k + 1 \in T
    BY <1>1, <1>4, <1>5, <2>2
  <2> QED BY <1>1, <2>1, <2>2, NatInd
<1>7. PICK out : out = a[n]
  OBVIOUS
<1>8. out = Kept(seq, S) /\ Good(out, n)
  BY <1>2, <1>5, <1>6, <1>7
<1> QED BY <1>1, <1>8 DEF Good, Range

-----------------------------------------------------------------------------
(* The stored documents, paths into them, and what Put and Get make of     *)
(* each other. A value may be anything but for orders and histories;       *)
(* members are changed whole (n = 2) or field by field (n = 3), and one    *)
(* transition does one of the two.                                         *)

Scalars == {"active", "round", "turn", "order", "other", "history"}
Fields == Scalars \cup {"exists", "members", "away"}
IsSeq(s) == \E X : s \in Seq(X)
HistoryOK(h) ==
  /\ DOMAIN h = {"records", "cursor"} /\ IsSeq(h.records) /\ h.cursor \in 0..Len(h.records)
  /\ \A i \in 1..Len(h.records) : DOMAIN h.records[i].members \subseteq Combatants
DocsOK(d) ==
  /\ DOMAIN d = Fields /\ IsSeq(d.order) /\ HistoryOK(d.history)
  /\ DOMAIN d.members \subseteq Combatants
PathOK(at, n) ==
  \/ \E f \in Scalars : at = <<f>>
  \/ \E c : n = 2 /\ at = <<"members", c>>
  \/ \E c, f : n = 3 /\ at = <<"members", c, f>>
ValueOK(at, v) ==
  /\ at = <<"order">> => IsSeq(v)
  /\ at = <<"history">> => HistoryOK(v)
Present(d, at) == Len(at) = 1 \/ at[2] \in DOMAIN d.members

LEMMA PutDocs ==
  ASSUME NEW n \in {2, 3}, NEW d, DocsOK(d), NEW at, PathOK(at, n), NEW v, ValueOK(at, v)
  PROVE  /\ DocsOK(Put(d, at, v))
         /\ DOMAIN Put(d, at, v).members = DOMAIN d.members
         /\ at[1] \in Scalars => Put(d, at, v)[at[1]] = v
         /\ \A f \in Fields : <<f>> # at /\ (at[1] # "members" \/ f # "members") => Put(d, at, v)[f] = d[f]
<1>1. CASE \E f \in Scalars : at = <<f>>
  <2>1. PICK f \in Scalars : at = <<f>>
    BY <1>1
  <2>2. Len(at) = 1 /\ at[1] = f /\ Put(d, at, v) = [d EXCEPT ![f] = v]
    BY <2>1 DEF Put
  <2>3. \A g \in Fields : Put(d, at, v)[g] = IF g = f THEN v ELSE d[g]
    BY <2>2 DEF DocsOK
  <2>4. DOMAIN Put(d, at, v) = Fields
    BY <2>2 DEF DocsOK
  <2>5. f = "order" => IsSeq(v)
    BY <2>1 DEF ValueOK
  <2>6. f = "history" => HistoryOK(v)
    BY <2>1 DEF ValueOK
  <2>7. PICK u : u = Put(d, at, v)
    OBVIOUS
  <2>8. u["order"] = (IF f = "order" THEN v ELSE d["order"]) /\ u["history"] = (IF f = "history" THEN v ELSE d["history"])
        /\ u["members"] = d["members"]
    BY <2>3, <2>7 DEF Fields, Scalars
  <2>9. DocsOK(u)
    BY <2>4, <2>5, <2>6, <2>7, <2>8 DEF DocsOK
  <2>10. \A g \in Fields : <<g>> = at => g = f
    BY <2>2
  <2>11. u[at[1]] = v /\ \A g \in Fields : <<g>> # at => u[g] = d[g]
    BY <2>2, <2>3, <2>7, <2>1 DEF Fields
  <2> QED BY <2>7, <2>8, <2>9, <2>11
<1>2. CASE at[1] = "members" /\ (Len(at) = 2 \/ Len(at) = 3)
  <2>1. PICK m : /\ Put(d, at, v) = [d EXCEPT !.members = m]
                 /\ DOMAIN m = DOMAIN d.members
    <3>1. CASE Len(at) = 2
      <4>1. Put(d, at, v) = [d EXCEPT !.members = [d.members EXCEPT ![at[2]] = v]]
        BY <3>1 DEF Put
      <4> QED BY <4>1
    <3>2. CASE Len(at) = 3
      <4>1. Put(d, at, v) =
              [d EXCEPT !.members = [d.members EXCEPT ![at[2]] = [d.members[at[2]] EXCEPT ![at[3]] = v]]]
        BY <3>2 DEF Put
      <4> QED BY <4>1
    <3> QED BY <1>2, <3>1, <3>2
  <2>2. PICK u : u = Put(d, at, v)
    OBVIOUS
  <2>3. DOMAIN u = Fields /\ u["members"] = m /\ \A g \in Fields : g # "members" => u[g] = d[g]
    BY <2>1, <2>2 DEF DocsOK, Fields
  <2>4. DocsOK(u)
    BY <2>1, <2>3 DEF DocsOK, Fields, Scalars
  <2> QED BY <1>2, <2>1, <2>2, <2>3, <2>4 DEF Scalars
<1> QED BY <1>1, <1>2 DEF PathOK

LEMMA PutGet ==
  ASSUME NEW n \in {2, 3}, NEW d, DocsOK(d), NEW at, PathOK(at, n), NEW p, PathOK(p, n), at # p, NEW v
  PROVE  Get(Put(d, at, v), p) = Get(d, p)
<1>1. CASE \E f \in Scalars : at = <<f>>
  BY <1>1 DEF PathOK, Put, Get, DocsOK, Fields, Scalars
<1>2. CASE \E c : n = 2 /\ at = <<"members", c>>
  BY <1>2 DEF PathOK, Put, Get, DocsOK, Fields, Scalars
<1>3. CASE \E c, f : n = 3 /\ at = <<"members", c, f>>
  BY <1>3 DEF PathOK, Put, Get, DocsOK, Fields, Scalars
<1> QED BY <1>1, <1>2, <1>3 DEF PathOK

LEMMA AppendFacts ==
  ASSUME NEW s, IsSeq(s), NEW x
  PROVE  /\ IsSeq(Append(s, x)) /\ Len(s) \in Nat
         /\ Len(Append(s, x)) = Len(s) + 1 /\ Append(s, x)[Len(s) + 1] = x
         /\ \A i \in 1..Len(s) : Append(s, x)[i] = s[i]
<1>1. PICK X : s \in Seq(X)
  BY DEF IsSeq
<1>2. PICK Y : Y = X \cup {x}
  OBVIOUS
<1>3. s \in Seq(Y) /\ x \in Y
  BY <1>1, <1>2
<1>4. Append(s, x) \in Seq(Y)
  BY <1>3
<1> QED BY <1>1, <1>3, <1>4 DEF IsSeq

-----------------------------------------------------------------------------
(* A transition at work: wherever it has written, its first change of a    *)
(* field carries the value of the snapshot, and what it has not written is *)
(* as the snapshot has it.                                                 *)

Wrote(w, at) == \E i \in 1..Len(w.changes) : w.changes[i].at = at
WorkFields == {"d", "changes", "deletes", "creates", "err"}
WorkOK(snap, w, n) ==
  /\ DOMAIN w = WorkFields
  /\ DocsOK(w.d) /\ DOMAIN w.d.members \subseteq DOMAIN snap.members
  /\ IsSeq(w.changes)
  /\ \A i \in 1..Len(w.changes) :
       PathOK(w.changes[i].at, n) /\ ValueOK(w.changes[i].at, w.changes[i].new)
  /\ \A at : PathOK(at, n) /\ Present(w.d, at) /\ ~Wrote(w, at) => Get(w.d, at) = Get(snap, at)
  /\ \A i \in 1..Len(w.changes) :
       Present(w.d, w.changes[i].at) /\ (\A j \in 1..i - 1 : w.changes[j].at # w.changes[i].at)
         => w.changes[i].old = Get(snap, w.changes[i].at)
  /\ w.deletes \subseteq DOMAIN snap.members /\ DOMAIN w.creates \subseteq Combatants

(* The one primitive every transition is made of.                          *)
LEMMA SetEngine ==
  ASSUME NEW n \in {2, 3}, NEW snap, NEW w, WorkOK(snap, w, n),
         NEW at, PathOK(at, n), NEW v, ValueOK(at, v), NEW u, u = set_engine(w, at, v)
  PROVE  /\ WorkOK(snap, u, n)
         /\ \A p : Wrote(u, p) <=> Wrote(w, p) \/ p = at
         /\ \A p : PathOK(p, n) /\ p # at => Get(u.d, p) = Get(w.d, p)
         /\ at[1] \in Scalars => u.d[at[1]] = v
         /\ \A f \in Fields : <<f>> # at /\ (at[1] # "members" \/ f # "members") => u.d[f] = w.d[f]
         /\ DOMAIN u.d.members = DOMAIN w.d.members
         /\ u.err = w.err /\ u.deletes = w.deletes /\ u.creates = w.creates
<1>1. PICK m \in Nat : m = Len(w.changes)
  BY AppendFacts DEF WorkOK
<1>2. PICK ch : ch = [at |-> at, old |-> Get(w.d, at), new |-> v]
  OBVIOUS
<1>3. /\ DOMAIN u = WorkFields /\ u.d = Put(w.d, at, v) /\ u.changes = Append(w.changes, ch)
      /\ u.err = w.err /\ u.deletes = w.deletes /\ u.creates = w.creates
  BY <1>2 DEF set_engine, WorkOK, WorkFields
<1>4. /\ Len(u.changes) = m + 1 /\ u.changes[m + 1] = ch
      /\ \A i \in 1..m : u.changes[i] = w.changes[i]
      /\ IsSeq(u.changes)
  BY <1>1, <1>3, AppendFacts DEF WorkOK
<1>5. ASSUME NEW p PROVE Wrote(u, p) <=> Wrote(w, p) \/ p = at
  <2>1. m + 1 \in 1..m + 1 /\ u.changes[m + 1].at = at
    BY <1>2, <1>4
  <2>2. ASSUME NEW i \in 1..m PROVE i \in 1..m + 1 /\ u.changes[i].at = w.changes[i].at
    BY <1>4
  <2>3. \A i \in 1..m + 1 : i \in 1..m \/ i = m + 1
    OBVIOUS
  <2>4. Wrote(w, p) \/ p = at => Wrote(u, p)
    BY <1>1, <1>4, <2>1, <2>2 DEF Wrote
  <2>5. ASSUME NEW i \in 1..m + 1, u.changes[i].at = p PROVE Wrote(w, p) \/ p = at
    <3>1. CASE i \in 1..m
      BY <1>1, <2>2, <2>5, <3>1 DEF Wrote
    <3> QED BY <2>1, <2>3, <2>5, <3>1
  <2> QED BY <1>4, <2>4, <2>5 DEF Wrote
<1>6. /\ DocsOK(u.d) /\ DOMAIN u.d.members = DOMAIN w.d.members
      /\ at[1] \in Scalars => u.d[at[1]] = v
      /\ \A f \in Fields : <<f>> # at /\ (at[1] # "members" \/ f # "members") => u.d[f] = w.d[f]
  BY <1>3, PutDocs DEF WorkOK
<1>7. \A p : PathOK(p, n) /\ p # at => Get(u.d, p) = Get(w.d, p)
  BY <1>3, PutGet DEF WorkOK
<1>8. \A p : Present(u.d, p) <=> Present(w.d, p)
  BY <1>6 DEF Present
<1>9. \A p : PathOK(p, n) /\ Present(u.d, p) /\ ~Wrote(u, p) => Get(u.d, p) = Get(snap, p)
  BY <1>5, <1>7, <1>8 DEF WorkOK
<1>10. ASSUME NEW i \in 1..m + 1, Present(u.d, u.changes[i].at),
              \A j \in 1..i - 1 : u.changes[j].at # u.changes[i].at
       PROVE  u.changes[i].old = Get(snap, u.changes[i].at)
  <2>1. CASE i \in 1..m
    <3>1. u.changes[i] = w.changes[i] /\ \A j \in 1..i - 1 : u.changes[j] = w.changes[j]
      <4>1. \A j \in 1..i - 1 : j \in 1..m
        BY <2>1
      <4> QED BY <1>4, <2>1, <4>1
    <3>2. \A j \in 1..i - 1 : w.changes[j].at # w.changes[i].at
      BY <1>10, <3>1
    <3> QED BY <1>1, <1>8, <1>10, <2>1, <3>1, <3>2 DEF WorkOK
  <2>2. CASE i = m + 1
    <3>1. u.changes[i] = ch /\ ch.at = at /\ ch.old = Get(w.d, at)
      BY <1>2, <1>4, <2>2
    <3>2. ASSUME NEW j \in 1..m PROVE w.changes[j].at # at
      <4>1. j \in 1..i - 1
        BY <2>2
      <4> QED BY <1>4, <1>10, <3>1, <4>1
    <3>3. ~Wrote(w, at) /\ Present(w.d, at)
      BY <1>1, <1>8, <1>10, <3>1, <3>2 DEF Wrote
    <3> QED BY <3>1, <3>3 DEF WorkOK
  <2> QED BY <1>10, <2>1, <2>2
<1>11. \A i \in 1..m + 1 : PathOK(u.changes[i].at, n) /\ ValueOK(u.changes[i].at, u.changes[i].new)
  <2>1. PathOK(ch.at, n) /\ ValueOK(ch.at, ch.new)
    BY <1>2
  <2>2. \A i \in 1..m : PathOK(w.changes[i].at, n) /\ ValueOK(w.changes[i].at, w.changes[i].new)
    BY <1>1 DEF WorkOK
  <2> QED BY <1>4, <2>1, <2>2
<1>12. WorkOK(snap, u, n)
  BY <1>3, <1>4, <1>6, <1>9, <1>10, <1>11 DEF WorkOK
<1> QED BY <1>3, <1>5, <1>6, <1>7, <1>12

(* Steps that leave the clock, its history and what fails alone.           *)
Clock == {"round", "turn", "history"}
Quiet(v, w) ==
  /\ w.d.round = v.d.round /\ w.d.turn = v.d.turn /\ w.d.history = v.d.history
  /\ \A f \in Clock : Wrote(w, <<f>>) <=> Wrote(v, <<f>>)
  /\ w.err = v.err /\ w.creates = v.creates

LEMMA QuietTrans ==
  ASSUME NEW u, NEW v, NEW w, Quiet(u, v), Quiet(v, w)
  PROVE  Quiet(u, w)
BY DEF Quiet

LEMMA QuietSame ==
  ASSUME NEW u
  PROVE  Quiet(u, u)
BY DEF Quiet

(* Steps that leave the order, and who has gone from it, alone.            *)
Still(v, w) ==
  /\ w.d.order = v.d.order /\ w.deletes = v.deletes
  /\ Wrote(v, <<"order">>) => Wrote(w, <<"order">>)

LEMMA StillTrans ==
  ASSUME NEW u, NEW v, NEW w, Still(u, v), Still(v, w)
  PROVE  Still(u, w)
BY DEF Still

LEMMA StillSame ==
  ASSUME NEW u
  PROVE  Still(u, u)
BY DEF Still

LEMMA MemberSet ==
  ASSUME NEW snap, NEW w, WorkOK(snap, w, 3), NEW c, NEW f, NEW v,
         NEW u, u = set_engine(w, <<"members", c, f>>, v)
  PROVE  /\ WorkOK(snap, u, 3) /\ Quiet(w, u) /\ Still(w, u)
         /\ u.d.order = w.d.order /\ DOMAIN u.d.members = DOMAIN w.d.members
<1>1. PICK at : at = <<"members", c, f>>
  OBVIOUS
<1>2. PathOK(at, 3) /\ ValueOK(at, v) /\ at[1] \notin Scalars /\ \A g : <<g>> # at
  BY <1>1 DEF PathOK, ValueOK, Scalars
<1>3. /\ WorkOK(snap, u, 3)
      /\ \A p : Wrote(u, p) <=> Wrote(w, p) \/ p = at
      /\ \A g \in Fields : <<g>> # at /\ (at[1] # "members" \/ g # "members") => u.d[g] = w.d[g]
      /\ DOMAIN u.d.members = DOMAIN w.d.members
      /\ u.err = w.err /\ u.deletes = w.deletes /\ u.creates = w.creates
  BY <1>1, <1>2, SetEngine
<1>4. /\ u.d["round"] = w.d["round"] /\ u.d["turn"] = w.d["turn"] /\ u.d["history"] = w.d["history"]
      /\ u.d["order"] = w.d["order"]
  BY <1>2, <1>3 DEF Fields, Scalars
<1>5. \A g \in Clock : Wrote(u, <<g>>) <=> Wrote(w, <<g>>)
  BY <1>2, <1>3
<1> QED BY <1>3, <1>4, <1>5 DEF Quiet, Still

LEMMA ScalarSet ==
  ASSUME NEW n \in {2, 3}, NEW snap, NEW w, WorkOK(snap, w, n), NEW f \in Scalars, NEW v,
         ValueOK(<<f>>, v), NEW u, u = set_engine(w, <<f>>, v)
  PROVE  /\ WorkOK(snap, u, n)
         /\ u.d[f] = v /\ \A g \in Fields : g # f => u.d[g] = w.d[g]
         /\ DOMAIN u.d.members = DOMAIN w.d.members
         /\ \A p : Wrote(u, p) <=> Wrote(w, p) \/ p = <<f>>
         /\ u.err = w.err /\ u.deletes = w.deletes /\ u.creates = w.creates
         /\ f \notin Clock => Quiet(w, u)
         /\ f # "order" => Still(w, u)
<1>1. PICK at : at = <<f>>
  OBVIOUS
<1>2. PathOK(at, n) /\ ValueOK(at, v) /\ at[1] = f /\ at[1] # "members" /\ \A g : <<g>> = at => g = f
  BY <1>1 DEF PathOK, Scalars
<1>3. /\ WorkOK(snap, u, n)
      /\ \A p : Wrote(u, p) <=> Wrote(w, p) \/ p = at
      /\ u.d[at[1]] = v
      /\ \A g \in Fields : <<g>> # at /\ (at[1] # "members" \/ g # "members") => u.d[g] = w.d[g]
      /\ DOMAIN u.d.members = DOMAIN w.d.members
      /\ u.err = w.err /\ u.deletes = w.deletes /\ u.creates = w.creates
  BY <1>1, <1>2, SetEngine
<1>4. \A g \in Fields : g # f => u.d[g] = w.d[g]
  BY <1>2, <1>3
<1>5. ASSUME f \notin Clock PROVE Quiet(w, u)
  <2>1. u.d["round"] = w.d["round"] /\ u.d["turn"] = w.d["turn"] /\ u.d["history"] = w.d["history"]
    BY <1>4, <1>5 DEF Clock, Fields, Scalars
  <2>2. \A g \in Clock : Wrote(u, <<g>>) <=> Wrote(w, <<g>>)
    BY <1>2, <1>3, <1>5
  <2> QED BY <1>3, <2>1, <2>2 DEF Quiet
<1>6. f # "order" => Still(w, u)
  <2>1. "order" \in Fields
    BY DEF Fields, Scalars
  <2> QED BY <1>3, <1>4, <2>1 DEF Still
<1> QED BY <1>1, <1>2, <1>3, <1>4, <1>5, <1>6

LEMMA Recovered ==
  ASSUME NEW snap, NEW w, WorkOK(snap, w, 3), NEW c, NEW phase, NEW u, u = recover(w, c, phase)
  PROVE  /\ WorkOK(snap, u, 3) /\ Quiet(w, u) /\ Still(w, u)
         /\ u.d.order = w.d.order /\ DOMAIN u.d.members = DOMAIN w.d.members
<1>1. u = w \/ \E v : u = set_engine(w, <<"members", c, "res">>, v)
  BY DEF recover, SetIfNew
<1> QED BY <1>1, MemberSet, QuietSame, StillSame

LEMMA SubSeqFacts ==
  ASSUME NEW s, IsSeq(s), NEW i \in Nat \ {0}, NEW j \in 0..Len(s), i <= j + 1
  PROVE  /\ IsSeq(SubSeq(s, i, j)) /\ Len(SubSeq(s, i, j)) = j - i + 1
         /\ \A k \in 1..j - i + 1 : SubSeq(s, i, j)[k] = s[i + k - 1]
<1>1. PICK X : s \in Seq(X)
  BY DEF IsSeq
<1>2. SubSeq(s, i, j) \in Seq(X)
  BY <1>1
<1> QED BY <1>1, <1>2 DEF IsSeq

LEMMA PrefixFacts ==
  ASSUME NEW s, IsSeq(s), NEW j \in 0..Len(s), NEW t, t = SubSeq(s, 1, j)
  PROVE  IsSeq(t) /\ Len(t) = j /\ \A k \in 1..j : t[k] = s[k]
<1>1. PICK n \in Nat : n = Len(s)
  BY AppendFacts
<1>2. j \in Nat /\ j - 1 + 1 = j /\ \A k \in 1..j : 1 + k - 1 = k
  BY <1>1
<1>3. 1 \in Nat \ {0} /\ 1 <= j + 1
  BY <1>2
<1>4. /\ IsSeq(t) /\ Len(t) = j - 1 + 1
      /\ \A k \in 1..j - 1 + 1 : t[k] = s[1 + k - 1]
  BY <1>3, SubSeqFacts
<1> QED BY <1>2, <1>4

(* The newest record is of the clock, and the cursor is at it, even when   *)
(* the oldest is pushed out.                                               *)
LEMMA Appended ==
  ASSUME NEW n \in {2, 3}, NEW snap, NEW w, WorkOK(snap, w, n), NEW u, u = append_record(w)
  PROVE  /\ WorkOK(snap, u, n)
         /\ u.d.history.cursor # 0
         /\ u.d.history.records[u.d.history.cursor].round = w.d.round
         /\ u.d.history.records[u.d.history.cursor].turn = w.d.turn
         /\ \A g \in Fields : g # "history" => u.d[g] = w.d[g]
         /\ DOMAIN u.d.members = DOMAIN w.d.members
         /\ \A p : Wrote(u, p) <=> Wrote(w, p) \/ p = <<"history">>
         /\ u.err = w.err /\ u.deletes = w.deletes /\ u.creates = w.creates
         /\ Still(w, u)
<1>1. PICK h : h = w.d.history
  OBVIOUS
<1>2. HistoryOK(h) /\ DOMAIN w.d.members \subseteq Combatants
  BY <1>1 DEF WorkOK, DocsOK
<1>3. PICK c \in Nat : c = h.cursor /\ c <= Len(h.records) /\ Len(h.records) \in Nat
  BY <1>2, AppendFacts DEF HistoryOK
<1>4. PICK past : past = SubSeq(h.records, 1, c)
  OBVIOUS
<1>5. IsSeq(past) /\ Len(past) = c /\ \A k \in 1..c : past[k] = h.records[k]
  BY <1>2, <1>3, <1>4, SubSeqFacts DEF HistoryOK
<1>6. PICK all : all = Append(past, Record(w.d))
  OBVIOUS
<1>7. /\ IsSeq(all) /\ Len(all) = c + 1 /\ all[c + 1] = Record(w.d)
      /\ \A k \in 1..c : all[k] = h.records[k]
  BY <1>5, <1>6, AppendFacts
<1>8. \A k \in 1..c + 1 : DOMAIN all[k].members \subseteq Combatants
  <2>1. Record(w.d).members = w.d.members
    BY DEF Record
  <2>2. \A k \in 1..c : DOMAIN h.records[k].members \subseteq Combatants
    BY <1>2, <1>3 DEF HistoryOK
  <2> QED BY <1>2, <1>7, <2>1, <2>2
<1>9. PICK kept : kept = bounded_push(all)
  OBVIOUS
<1>10. /\ IsSeq(kept) /\ Len(kept) \in Nat \ {0} /\ kept[Len(kept)] = Record(w.d)
       /\ \A k \in 1..Len(kept) : DOMAIN kept[k].members \subseteq Combatants
  <2>1. PICK m \in Nat \ {0} : m = MaxHistory
    BY ClockConstants
  <2>2. CASE c + 1 > m
    <3>1. kept = SubSeq(all, c + 1 - m + 1, c + 1)
      BY <1>7, <1>9, <2>1, <2>2 DEF bounded_push
    <3>2. /\ IsSeq(kept) /\ Len(kept) = m
          /\ \A k \in 1..m : kept[k] = all[c + 1 - m + k]
      <4>1. c + 1 - m + 1 \in Nat \ {0} /\ c + 1 \in 0..Len(all)
        BY <1>7, <2>1, <2>2
      <4>2. \A k \in 1..m : c + 1 - m + 1 + k - 1 = c + 1 - m + k
        BY <2>1
      <4> QED BY <1>7, <2>1, <3>1, <4>1, <4>2, SubSeqFacts
    <3>3. kept[m] = Record(w.d)
      BY <1>7, <2>1, <3>2
    <3>4. \A k \in 1..m : c + 1 - m + k \in 1..c + 1
      BY <2>1, <2>2
    <3> QED BY <1>8, <2>1, <3>2, <3>3, <3>4
  <2>3. CASE ~(c + 1 > m)
    <3>1. kept = all
      BY <1>7, <1>9, <2>1, <2>3 DEF bounded_push
    <3> QED BY <1>7, <1>8, <3>1
  <2> QED BY <2>2, <2>3
<1>11. PICK new : new = [records |-> kept, cursor |-> Len(kept)]
  OBVIOUS
<1>12. HistoryOK(new) /\ new.cursor # 0 /\ new.records[new.cursor] = Record(w.d)
  BY <1>10, <1>11 DEF HistoryOK
<1>13. ValueOK(<<"history">>, new)
  BY <1>12 DEF ValueOK
<1>14. u = set_engine(w, <<"history">>, new)
  BY <1>1, <1>3, <1>4, <1>6, <1>9, <1>11 DEF append_record
<1>15. "history" \in Scalars /\ "history" # "order"
  BY DEF Scalars
<1>16. u.d["history"] = new
  BY <1>13, <1>14, <1>15, ScalarSet
<1>17. Record(w.d).round = w.d.round /\ Record(w.d).turn = w.d.turn
  BY DEF Record
<1> QED BY <1>12, <1>13, <1>14, <1>15, <1>16, <1>17, ScalarSet

(* What every walk ends in: the turn and the history are written, and the  *)
(* record at the cursor is of the clock.                                   *)
Recorded(w) ==
  /\ Wrote(w, <<"turn">>) /\ Wrote(w, <<"history">>) /\ w.d.history.cursor # 0
  /\ w.d.history.records[w.d.history.cursor].round = w.d.round
  /\ w.d.history.records[w.d.history.cursor].turn = w.d.turn

LEMMA RecordedQuiet ==
  ASSUME NEW v, NEW w, Recorded(v), Quiet(v, w)
  PROVE  Recorded(w)
BY DEF Recorded, Quiet, Clock

RoundKept(v, w) == Wrote(v, <<"round">>) => Wrote(w, <<"round">>)

LEMMA QuietRound ==
  ASSUME NEW v, NEW w, Quiet(v, w)
  PROVE  RoundKept(v, w)
BY DEF Quiet, Clock, RoundKept

LEMMA Entered ==
  ASSUME NEW snap, NEW w, WorkOK(snap, w, 3), NEW c, NEW u, u = enter_turn(w, c)
  PROVE  /\ WorkOK(snap, u, 3) /\ Recorded(u) /\ u.err = w.err /\ u.creates = w.creates
         /\ u.d.order = w.d.order /\ DOMAIN u.d.members = DOMAIN w.d.members
         /\ RoundKept(w, u) /\ Still(w, u) /\ u.d.turn = c
<1>1. PICK v : v = recover(w, c, "turn_start")
  OBVIOUS
<1>2. /\ WorkOK(snap, v, 3) /\ Quiet(w, v) /\ Still(w, v)
      /\ v.d.order = w.d.order /\ DOMAIN v.d.members = DOMAIN w.d.members
  BY <1>1, Recovered
<1>3. PICK t : t = set_engine(v, <<"turn">>, c)
  OBVIOUS
<1>4. "turn" \in Scalars /\ "turn" # "order" /\ ValueOK(<<"turn">>, c)
  BY DEF Scalars, ValueOK
<1>5. /\ WorkOK(snap, t, 3) /\ t.d.order = v.d.order /\ DOMAIN t.d.members = DOMAIN v.d.members
      /\ t.err = v.err /\ t.creates = v.creates /\ Wrote(t, <<"turn">>) /\ RoundKept(v, t)
      /\ Still(v, t) /\ t.d["turn"] = c
  BY <1>2, <1>3, <1>4, ScalarSet DEF Fields, Scalars, RoundKept
<1>6. u = append_record(t)
  BY <1>1, <1>3 DEF enter_turn
<1>7. /\ WorkOK(snap, u, 3) /\ u.d.history.cursor # 0
      /\ u.d.history.records[u.d.history.cursor].round = t.d.round
      /\ u.d.history.records[u.d.history.cursor].turn = t.d.turn
      /\ u.d["round"] = t.d["round"] /\ u.d["turn"] = t.d["turn"] /\ u.d["order"] = t.d["order"]
      /\ DOMAIN u.d.members = DOMAIN t.d.members
      /\ \A p : Wrote(u, p) <=> Wrote(t, p) \/ p = <<"history">>
      /\ u.err = t.err /\ u.creates = t.creates /\ Still(t, u)
  BY <1>5, <1>6, Appended DEF Fields, Scalars
<1>8. RoundKept(w, u)
  BY <1>2, <1>5, <1>7, QuietRound DEF RoundKept
<1>9. Still(w, u) /\ u.d.turn = c
  BY <1>2, <1>5, <1>7, StillTrans
<1> QED BY <1>2, <1>5, <1>7, <1>8, <1>9 DEF Recorded, Quiet

(* An exhausted event leaves the order and the documents.                  *)
(* What the transition is left with when c goes: u, from w.                *)
Leaving(snap, w, c, u) ==
  /\ WorkOK(snap, u, 3) /\ Quiet(w, u)
  /\ u.d.order = Kept(w.d.order, Range(w.d.order) \ {c})
  /\ u.deletes = w.deletes \cup {c} /\ Wrote(u, <<"order">>)
  /\ Len(u.d.order) \in Nat
  /\ c \in Range(w.d.order) => Len(u.d.order) < Len(w.d.order)

LEMMA Left ==
  ASSUME NEW snap, NEW w, WorkOK(snap, w, 3), NEW c \in DOMAIN w.d.members,
         NEW u, u = LeavesOrder(w, c)
  PROVE  Leaving(snap, w, c, u)
<1>1. PICK X : w.d.order \in Seq(X)
  BY DEF WorkOK, DocsOK, IsSeq
<1>2. PICK order : order = Kept(w.d.order, Range(w.d.order) \ {c})
  OBVIOUS
<1>3. /\ order \in Seq(X)
      /\ c \in Range(w.d.order) => Len(order) < Len(w.d.order)
  BY <1>1, <1>2, KeptFacts
<1>4. ValueOK(<<"order">>, order) /\ "order" \in Scalars /\ "order" \notin Clock
  BY <1>3 DEF ValueOK, IsSeq, Scalars, Clock
<1>5. PICK out : out = set_engine(w, <<"order">>, order)
  OBVIOUS
<1>6. /\ WorkOK(snap, out, 3) /\ Quiet(w, out) /\ out.d["order"] = order
      /\ DOMAIN out.d.members = DOMAIN w.d.members /\ out.deletes = w.deletes
      /\ Wrote(out, <<"order">>)
  BY <1>4, <1>5, ScalarSet
<1>7. PICK m : m = Restrict(out.d.members, DOMAIN out.d.members \ {c})
  OBVIOUS
<1>8. /\ DOMAIN m = DOMAIN out.d.members \ {c}
      /\ \A e \in DOMAIN m : m[e] = out.d.members[e]
  BY <1>7 DEF Restrict
<1>9. u = [out EXCEPT !.d.members = m, !.deletes = @ \cup {c}]
  BY <1>2, <1>5, <1>7 DEF LeavesOrder
<1>10. /\ DOMAIN out = WorkFields /\ DOMAIN out.d = Fields
  BY <1>6 DEF WorkOK, DocsOK
<1>11. PICK d : d = [out.d EXCEPT !.members = m]
  OBVIOUS
<1>12. /\ DOMAIN u = WorkFields /\ u.d = d /\ u.changes = out.changes
       /\ u.deletes = out.deletes \cup {c} /\ u.creates = out.creates /\ u.err = out.err
  BY <1>9, <1>10, <1>11 DEF WorkFields
<1>13. /\ DOMAIN d = Fields /\ d.members = m
       /\ \A f \in Fields : f # "members" => d[f] = out.d[f]
  BY <1>10, <1>11 DEF Fields
<1>14. /\ d["order"] = out.d["order"] /\ d["history"] = out.d["history"]
       /\ d["round"] = out.d["round"] /\ d["turn"] = out.d["turn"]
  BY <1>13 DEF Fields, Scalars
<1>15. \A p : Wrote(u, p) <=> Wrote(out, p)
  BY <1>12 DEF Wrote
<1>16. DocsOK(u.d) /\ DOMAIN u.d.members \subseteq DOMAIN snap.members
  BY <1>6, <1>8, <1>12, <1>13, <1>14 DEF WorkOK, DocsOK
<1>17. ASSUME NEW p, PathOK(p, 3), Present(d, p)
       PROVE  Present(out.d, p) /\ Get(d, p) = Get(out.d, p)
  <2>1. CASE \E f \in Scalars : p = <<f>>
    BY <1>13, <1>17, <2>1 DEF Present, Get, Fields, Scalars
  <2>2. CASE \E e, f : p = <<"members", e, f>>
    BY <1>8, <1>13, <1>17, <2>2 DEF Present, Get
  <2> QED BY <1>17, <2>1, <2>2 DEF PathOK
<1>18. WorkOK(snap, u, 3)
  <2>1. u.deletes \subseteq DOMAIN snap.members /\ DOMAIN u.creates \subseteq Combatants
    BY <1>6, <1>12 DEF WorkOK
  <2>2. \A p : PathOK(p, 3) /\ Present(u.d, p) /\ ~Wrote(u, p) => Get(u.d, p) = Get(snap, p)
    BY <1>6, <1>12, <1>15, <1>17 DEF WorkOK
  <2>3. ASSUME NEW i \in 1..Len(u.changes), Present(u.d, u.changes[i].at),
               \A j \in 1..i - 1 : u.changes[j].at # u.changes[i].at
        PROVE  u.changes[i].old = Get(snap, u.changes[i].at)
    <3>1. PathOK(out.changes[i].at, 3)
      BY <1>6, <1>12 DEF WorkOK
    <3>2. Present(out.d, out.changes[i].at)
      BY <1>12, <1>17, <2>3, <3>1
    <3> QED BY <1>6, <1>12, <2>3, <3>2 DEF WorkOK
  <2> QED BY <1>6, <1>12, <1>16, <2>1, <2>2, <2>3 DEF WorkOK
<1>19. Quiet(out, u)
  BY <1>12, <1>14, <1>15 DEF Quiet
<1>20. u.d.order = order /\ Len(order) \in Nat
  BY <1>3, <1>6, <1>12, <1>14
<1>21. u.deletes = w.deletes \cup {c} /\ Wrote(u, <<"order">>)
  BY <1>6, <1>12, <1>15
<1> QED BY <1>2, <1>3, <1>6, <1>18, <1>19, <1>20, <1>21, QuietTrans DEF Leaving

(* Recovery at the start of a round, one combatant after the other.        *)
LEMMA EveryoneChain ==
  ASSUME NEW w, NEW wraps, NEW n \in Nat, DOMAIN w.d.order = 1..n
  PROVE  \E a : /\ a[0] = w /\ a[n] = Everyone(w, wraps)
                /\ \A k \in Nat : k + 1 <= n => a[k + 1] = recover(IF wraps THEN recover(a[k], w.d.order[k + 1], "round_end") ELSE a[k], w.d.order[k + 1], "round_start")
<1> DEFINE Step(out, x) == recover(IF wraps THEN recover(out, x, "round_end") ELSE out, x, "round_start")
           Iter(h, k) == h = [s \in SUBSET (1..k) |->
             IF s = {} THEN w ELSE Step(h[s \ {Max(s)}], w.d.order[Max(s)])]
<1>1. Everyone(w, wraps) = (CHOOSE h : Iter(h, n))[1..n]
  BY Zenon DEF Everyone, FoldLeft, MapThenFoldSet
<1> HIDE DEF Step
<1>2. ASSUME NEW k \in Nat, NEW h, Iter(h, k) PROVE \E g : Iter(g, k + 1)
  <2> DEFINE g == [s \in SUBSET (1..k + 1) |->
        IF k + 1 \in s THEN Step(h[s \ {k + 1}], w.d.order[k + 1]) ELSE h[s]]
  <2>1. ASSUME NEW s \in SUBSET (1..k + 1)
        PROVE  g[s] = IF s = {} THEN w ELSE Step(g[s \ {Max(s)}], w.d.order[Max(s)])
    <3>1. CASE k + 1 \in s
      <4>1. Max(s) = k + 1 /\ s # {} /\ s \ {k + 1} \in SUBSET (1..k)
        BY <3>1, UpTo
      <4>2. s \ {k + 1} \in SUBSET (1..k + 1) /\ k + 1 \notin s \ {k + 1}
        OBVIOUS
      <4>3. g[s \ {k + 1}] = h[s \ {k + 1}]
        BY <4>2
      <4> QED BY <3>1, <4>1, <4>3
    <3>2. CASE k + 1 \notin s
      <4>1. \A x \in s : x \in 1..k
        BY <3>2
      <4>2. s \in SUBSET (1..k) /\ s \ {Max(s)} \in SUBSET (1..k) /\ k + 1 \notin s \ {Max(s)}
        BY <3>2, <4>1
      <4>3. s \ {Max(s)} \in SUBSET (1..k + 1)
        OBVIOUS
      <4>4. g[s] = h[s] /\ g[s \ {Max(s)}] = h[s \ {Max(s)}]
        BY <3>2, <4>2, <4>3
      <4> QED BY <1>2, <4>2, <4>4
    <3> QED BY <3>1, <3>2
  <2>2. Iter(g, k + 1)
    BY <2>1
  <2> QED BY <2>2
<1>3. PICK it : it = (CHOOSE h : Iter(h, n)) /\ Iter(it, n)
  <2>1. Iter([s \in SUBSET (1..0) |-> w], 0)
    OBVIOUS
  <2>2. PICK T : T = {k \in Nat : \E h : Iter(h, k)}
    OBVIOUS
  <2> HIDE DEF Iter
  <2>3. 0 \in T
    BY <2>1, <2>2
  <2>4. ASSUME NEW k \in Nat, k \in T PROVE k + 1 \in T
    BY <1>2, <2>2, <2>4
  <2>5. Nat \subseteq T
    BY <2>3, <2>4, NatInd
  <2> QED BY <2>2, <2>5
<1>4. it[1..0] = w
  <2>1. 1..0 \in SUBSET (1..n) /\ 1..0 = {}
    OBVIOUS
  <2> QED BY <1>3, <2>1
<1>5. ASSUME NEW k \in Nat, k + 1 <= n PROVE it[1..k + 1] = Step(it[1..k], w.d.order[k + 1])
  <2>1. 1..k + 1 \in SUBSET (1..n)
    BY <1>5
  <2>2. 1..k + 1 # {} /\ Max(1..k + 1) = k + 1 /\ (1..k + 1) \ {k + 1} = 1..k
    BY UpTo
  <2> QED BY <1>3, <2>1, <2>2
<1> HIDE DEF Iter
<1>6. PICK a : a = [k \in 0..n |-> it[1..k]]
  OBVIOUS
<1>7. a[0] = w /\ a[n] = Everyone(w, wraps)
  BY <1>1, <1>3, <1>4, <1>6
<1>8. ASSUME NEW k \in Nat, k + 1 <= n PROVE a[k + 1] = Step(a[k], w.d.order[k + 1])
  <2>1. k \in 0..n /\ k + 1 \in 0..n
    BY <1>8
  <2>2. a[k] = it[1..k] /\ a[k + 1] = it[1..k + 1]
    BY <1>6, <2>1
  <2> QED BY <1>5, <1>8, <2>2
<1> QED BY <1>7, <1>8 DEF Step

LEMMA EveryoneFacts ==
  ASSUME NEW snap, NEW w, WorkOK(snap, w, 3), NEW wraps \in BOOLEAN, NEW u, u = Everyone(w, wraps)
  PROVE  /\ WorkOK(snap, u, 3) /\ Quiet(w, u) /\ Still(w, u)
         /\ u.d.order = w.d.order /\ DOMAIN u.d.members = DOMAIN w.d.members
<1>1. PICK n \in Nat : DOMAIN w.d.order = 1..n
  BY DEF WorkOK, DocsOK, IsSeq
<1>2. PICK a : /\ a[0] = w /\ a[n] = u
               /\ \A k \in Nat : k + 1 <= n => a[k + 1] =
                    recover(IF wraps THEN recover(a[k], w.d.order[k + 1], "round_end") ELSE a[k],
                            w.d.order[k + 1], "round_start")
  BY <1>1, EveryoneChain
<1> DEFINE Good(v) == /\ WorkOK(snap, v, 3) /\ Quiet(w, v) /\ Still(w, v)
                      /\ v.d.order = w.d.order /\ DOMAIN v.d.members = DOMAIN w.d.members
<1>3. ASSUME NEW k \in Nat, k + 1 <= n, Good(a[k]) PROVE Good(a[k + 1])
  <2>1. PICK v : v = IF wraps THEN recover(a[k], w.d.order[k + 1], "round_end") ELSE a[k]
    OBVIOUS
  <2>2. Good(v)
    <3>1. CASE wraps
      <4>1. v = recover(a[k], w.d.order[k + 1], "round_end")
        BY <2>1, <3>1
      <4> QED BY <1>3, <4>1, Recovered, QuietTrans, StillTrans
    <3>2. CASE ~wraps
      BY <1>3, <2>1, <3>2
    <3> QED BY <3>1, <3>2
  <2>3. a[k + 1] = recover(v, w.d.order[k + 1], "round_start")
    BY <1>2, <1>3, <2>1
  <2> QED BY <2>2, <2>3, Recovered, QuietTrans, StillTrans
<1>4. PICK T : T = {k \in Nat : k <= n => Good(a[k])}
  OBVIOUS
<1>5. Good(a[0])
  BY <1>2, QuietSame, StillSame
<1> HIDE DEF Good
<1>6. 0 \in T
  BY <1>4, <1>5
<1>7. ASSUME NEW k \in Nat, k \in T PROVE k + 1 \in T
  BY <1>3, <1>4, <1>7
<1>8. n \in T
  BY <1>6, <1>7, NatInd
<1> QED BY <1>2, <1>4, <1>8 DEF Good

LEMMA RoundWrapped ==
  ASSUME NEW snap, NEW w, WorkOK(snap, w, 3), NEW u, u = round_wrap(w)
  PROVE  /\ WorkOK(snap, u, 3) /\ u.err = w.err /\ u.creates = w.creates
         /\ u.d.order = w.d.order /\ DOMAIN u.d.members = DOMAIN w.d.members
         /\ RoundKept(w, u) /\ Still(w, u)
<1>1. PICK v : v = set_engine(w, <<"round">>, w.d.round + 1)
  OBVIOUS
<1>2. "round" \in Scalars /\ "round" # "order" /\ ValueOK(<<"round">>, w.d.round + 1)
  BY DEF Scalars, ValueOK
<1>3. /\ WorkOK(snap, v, 3) /\ v.err = w.err /\ v.creates = w.creates
      /\ v.d["order"] = w.d["order"] /\ DOMAIN v.d.members = DOMAIN w.d.members
      /\ RoundKept(w, v) /\ Still(w, v)
  BY <1>1, <1>2, ScalarSet DEF Fields, Scalars, RoundKept
<1>4. u = Everyone(v, TRUE)
  BY <1>1 DEF round_wrap
<1>5. /\ WorkOK(snap, u, 3) /\ Quiet(v, u) /\ Still(v, u) /\ u.d.order = v.d.order
      /\ DOMAIN u.d.members = DOMAIN v.d.members
  <2>1. PICK wraps \in BOOLEAN : wraps = TRUE
    OBVIOUS
  <2>2. u = Everyone(v, wraps)
    BY <1>4, <2>1
  <2>3. WorkOK(snap, v, 3)
    BY <1>3
  <2> QED BY <2>2, <2>3, EveryoneFacts
<1>6. RoundKept(w, u) /\ Still(w, u)
  BY <1>3, <1>5, QuietRound, StillTrans DEF RoundKept
<1> QED BY <1>3, <1>5, <1>6 DEF Quiet

(* The position a walk goes on to.                                         *)
Onto(i, removed, n) ==
  IF removed THEN IF i > n THEN 1 ELSE i ELSE IF i + 1 > n THEN 1 ELSE i + 1

LEMMA AdvancedFrom ==
  ASSUME NEW snap, NEW w, WorkOK(snap, w, 3), NEW i \in Nat \ {0}, NEW removed
  PROVE  \E u, j :
           /\ advance_from(w, i, removed) = <<u, j>>
           /\ WorkOK(snap, u, 3) /\ u.err = w.err /\ u.creates = w.creates
           /\ u.d.order = w.d.order /\ DOMAIN u.d.members = DOMAIN w.d.members
           /\ j \in Nat \ {0}
           /\ j <= Len(w.d.order) \/ Len(w.d.order) = 0
           /\ RoundKept(w, u) /\ Still(w, u)
           /\ j = Onto(i, removed, Len(w.d.order))
<1>1. Len(w.d.order) \in Nat
  BY AppendFacts DEF WorkOK, DocsOK
<1>2. PICK j \in Nat \ {0} : j = IF removed THEN i ELSE i + 1
  OBVIOUS
<1>3. CASE j > Len(w.d.order)
  <2>1. advance_from(w, i, removed) = <<round_wrap(w), 1>>
    BY <1>2, <1>3 DEF advance_from
  <2>2. /\ 1 \in Nat \ {0} /\ (1 <= Len(w.d.order) \/ Len(w.d.order) = 0)
        /\ 1 = Onto(i, removed, Len(w.d.order))
    BY <1>1, <1>2, <1>3 DEF Onto
  <2>3. PICK u : u = round_wrap(w)
    OBVIOUS
  <2>4. /\ WorkOK(snap, u, 3) /\ u.err = w.err /\ u.creates = w.creates
        /\ u.d.order = w.d.order /\ DOMAIN u.d.members = DOMAIN w.d.members
        /\ RoundKept(w, u) /\ Still(w, u)
    BY <2>3, RoundWrapped
  <2>5. advance_from(w, i, removed) = <<u, 1>>
    BY <2>1, <2>3
  <2> QED BY <2>2, <2>4, <2>5
<1>4. CASE ~(j > Len(w.d.order))
  <2>1. advance_from(w, i, removed) = <<w, j>>
    BY <1>2, <1>4 DEF advance_from
  <2>2. RoundKept(w, w) /\ Still(w, w)
    BY StillSame DEF RoundKept
  <2>3. j = Onto(i, removed, Len(w.d.order))
    BY <1>1, <1>2, <1>4 DEF Onto
  <2> QED BY <1>1, <1>2, <1>4, <2>1, <2>2, <2>3
<1> QED BY <1>3, <1>4

LEMMA Resolved ==
  ASSUME NEW snap, NEW w, WorkOK(snap, w, 3), NEW c \in DOMAIN w.d.members, c \in Range(w.d.order),
         NEW u, u = resolve_event(w, c)
  PROVE  /\ WorkOK(snap, u, 3) /\ Quiet(w, u) /\ Len(u.d.order) \in Nat
         /\ IF Exhausted(w, c)
            THEN /\ Len(u.d.order) < Len(w.d.order)
                 /\ u.d.order = Kept(w.d.order, Range(w.d.order) \ {c})
                 /\ u.deletes = w.deletes \cup {c} /\ Wrote(u, <<"order">>)
            ELSE Still(w, u) /\ u.d.order = w.d.order /\ DOMAIN u.d.members = DOMAIN w.d.members
<1>1. CASE Exhausted(w, c)
  <2>1. u = LeavesOrder(w, c)
    BY <1>1 DEF resolve_event
  <2>2. Leaving(snap, w, c, u)
    BY <2>1, Left
  <2> QED BY <1>1, <2>2 DEF Leaving
<1>2. CASE ~Exhausted(w, c)
  <2>1. u = w \/ \E v : u = set_engine(w, <<"members", c, "life">>, v)
    BY <1>2 DEF resolve_event
  <2>2. Len(w.d.order) \in Nat
    BY AppendFacts DEF WorkOK, DocsOK
  <2>3. /\ WorkOK(snap, u, 3) /\ Quiet(w, u) /\ Still(w, u)
        /\ u.d.order = w.d.order /\ DOMAIN u.d.members = DOMAIN w.d.members
    BY <2>1, MemberSet, QuietSame, StillSame
  <2> QED BY <1>2, <2>2, <2>3
<1> QED BY <1>1, <1>2

-----------------------------------------------------------------------------
(* The walk over turns: position and budget stay within the order, and     *)
(* from its first step on a boundary is recorded.                          *)

WalkFields == {"stop", "w", "i", "budget"}
WalkOK(snap, begun, L, s, k) ==
  /\ DOMAIN s = WalkFields /\ WorkOK(snap, s.w, 3) /\ s.w.creates = begun.creates
  /\ s.stop \in BOOLEAN /\ RoundKept(begun, s.w)
  /\ s.stop /\ s.w.err = "ok" => Recorded(s.w)
  /\ ~s.stop => /\ s.budget \in Nat /\ Len(s.w.d.order) \in Nat /\ s.i \in Nat \ {0}
                /\ k <= s.budget /\ s.budget + Len(s.w.d.order) <= 2 * L
                /\ s.i <= Len(s.w.d.order) \/ Len(s.w.d.order) = 0

LEMMA Stepped ==
  ASSUME NEW snap, NEW begun, NEW L \in Nat, NEW k \in Nat, NEW s, WalkOK(snap, begun, L, s, k),
         NEW t, t = settle_step(s, k + 1)
  PROVE  WalkOK(snap, begun, L, t, k + 1)
<1>1. CASE s.stop
  <2>1. t = s
    BY <1>1 DEF settle_step
  <2> QED BY <1>1, <2>1 DEF WalkOK
<1>2. ASSUME ~s.stop, NEW why, why # "ok", t = [s EXCEPT !.stop = TRUE, !.w = Fail(@, why)]
      PROVE  WalkOK(snap, begun, L, t, k + 1)
  <2>1. PICK v : v = Fail(s.w, why)
    OBVIOUS
  <2>2. /\ DOMAIN v = WorkFields /\ v.err = why /\ v.d = s.w.d /\ v.changes = s.w.changes
        /\ v.deletes = s.w.deletes /\ v.creates = s.w.creates
    BY <2>1 DEF Fail, WalkOK, WorkOK, WorkFields
  <2>3. WorkOK(snap, v, 3) /\ RoundKept(begun, v)
    <3>1. \A p : Wrote(v, p) <=> Wrote(s.w, p)
      BY <2>2 DEF Wrote
    <3>2. WorkOK(snap, v, 3)
      BY <2>2, <3>1 DEF WalkOK, WorkOK
    <3> QED BY <3>1, <3>2 DEF WalkOK, RoundKept
  <2>4. DOMAIN t = WalkFields /\ t.stop = TRUE /\ t.w = v
    BY <1>2, <2>1 DEF WalkOK, WalkFields
  <2> QED BY <1>2, <2>2, <2>3, <2>4 DEF WalkOK
<1>3. CASE ~s.stop /\ s.w.d.order = <<>>
  <2>1. t = [s EXCEPT !.stop = TRUE, !.w = Fail(@, "empty")]
    BY <1>3 DEF settle_step
  <2> QED BY <1>2, <1>3, <2>1
<1>4. CASE ~s.stop /\ s.w.d.order # <<>> /\ s.w.d.order[s.i] \notin DOMAIN s.w.d.members
  <2>1. t = [s EXCEPT !.stop = TRUE, !.w = Fail(@, "not found")]
    BY <1>4 DEF settle_step
  <2> QED BY <1>2, <1>4, <2>1
<1>5. CASE ~s.stop /\ s.w.d.order # <<>> /\ s.w.d.order[s.i] \in DOMAIN s.w.d.members
  <2>1. PICK c : c = s.w.d.order[s.i] /\ c \in DOMAIN s.w.d.members
    BY <1>5
  <2>2. PICK entered : entered = enter_turn(s.w, c)
    OBVIOUS
  <2>3. /\ WorkOK(snap, entered, 3) /\ Recorded(entered) /\ entered.err = s.w.err
        /\ entered.creates = begun.creates /\ entered.d.order = s.w.d.order
        /\ DOMAIN entered.d.members = DOMAIN s.w.d.members /\ RoundKept(begun, entered)
    BY <2>2, Entered DEF WalkOK, RoundKept
  <2>4. CASE ~auto_resolves(c)
    <3>1. t = [s EXCEPT !.stop = TRUE, !.w = entered]
      BY <1>5, <2>1, <2>2, <2>4 DEF settle_step
    <3>2. DOMAIN t = WalkFields /\ t.stop = TRUE /\ t.w = entered
      BY <3>1 DEF WalkOK, WalkFields
    <3> QED BY <2>3, <3>2 DEF WalkOK
  <2>5. CASE auto_resolves(c)
    <3>1. c \in Range(entered.d.order) /\ c \in DOMAIN entered.d.members
      <4>1. PICK X : s.w.d.order \in Seq(X)
        BY DEF WalkOK, WorkOK, DocsOK, IsSeq
      <4>2. Len(s.w.d.order) # 0
        BY <1>5, <4>1
      <4>3. s.i \in DOMAIN s.w.d.order
        BY <1>5, <4>1, <4>2 DEF WalkOK
      <4> QED BY <2>1, <2>3, <4>3 DEF Range
    <3>2. PICK removed : removed = Exhausted(entered, c) /\ removed \in BOOLEAN
      BY DEF Exhausted
    <3>3. PICK over : over = IF removed THEN resolve_event(entered, c)
                             ELSE recover(IF IsEvent(c) THEN resolve_event(entered, c) ELSE entered,
                                          c, "turn_end")
      OBVIOUS
    <3>4. /\ WorkOK(snap, over, 3) /\ Quiet(entered, over) /\ Len(over.d.order) \in Nat
          /\ IF removed THEN Len(over.d.order) < Len(s.w.d.order) ELSE over.d.order = s.w.d.order
      <4>1. CASE removed
        BY <2>3, <3>1, <3>2, <3>3, <4>1, Resolved
      <4>2. CASE ~removed
        <5>1. PICK v : v = IF IsEvent(c) THEN resolve_event(entered, c) ELSE entered
          OBVIOUS
        <5>2. WorkOK(snap, v, 3) /\ Quiet(entered, v) /\ v.d.order = entered.d.order
          BY <2>3, <3>1, <3>2, <4>2, <5>1, Resolved, QuietSame
        <5>3. over = recover(v, c, "turn_end")
          BY <3>3, <4>2, <5>1
        <5>4. Len(over.d.order) \in Nat
          BY <5>2, <5>3, Recovered, AppendFacts DEF WorkOK, DocsOK
        <5> QED BY <2>3, <4>2, <5>2, <5>3, <5>4, Recovered, QuietTrans
      <4> QED BY <4>1, <4>2
    <3>5. /\ Recorded(over) /\ over.err = s.w.err /\ over.creates = begun.creates
          /\ RoundKept(begun, over)
      BY <2>3, <3>4, RecordedQuiet, QuietRound DEF Quiet, RoundKept
    <3>6. CASE ~removed /\ k + 1 >= s.budget
      <4>1. t = [s EXCEPT !.stop = TRUE, !.w = over]
        BY <1>5, <2>1, <2>2, <2>5, <3>2, <3>3, <3>6 DEF settle_step
      <4>2. DOMAIN t = WalkFields /\ t.stop = TRUE /\ t.w = over
        BY <4>1 DEF WalkOK, WalkFields
      <4> QED BY <3>4, <3>5, <4>2 DEF WalkOK
    <3>7. CASE ~(~removed /\ k + 1 >= s.budget)
      <4>1. PICK u, j :
              /\ advance_from(over, s.i, removed) = <<u, j>>
              /\ WorkOK(snap, u, 3) /\ u.err = over.err /\ u.creates = over.creates
              /\ u.d.order = over.d.order
              /\ j \in Nat \ {0}
              /\ j <= Len(over.d.order) \/ Len(over.d.order) = 0
              /\ RoundKept(over, u)
        <5>1. PICK i \in Nat \ {0} : i = s.i
          BY <1>5 DEF WalkOK
        <5>2. WorkOK(snap, over, 3)
          BY <3>4
        <5>3. \E u, j :
                /\ advance_from(over, i, removed) = <<u, j>>
                /\ WorkOK(snap, u, 3) /\ u.err = over.err /\ u.creates = over.creates
                /\ u.d.order = over.d.order
                /\ j \in Nat \ {0}
                /\ j <= Len(over.d.order) \/ Len(over.d.order) = 0
                /\ RoundKept(over, u)
          BY <5>2, AdvancedFrom
        <5> QED BY <5>1, <5>3
      <4>2. t = [s EXCEPT !.w = u, !.i = j, !.budget = IF removed THEN @ + 1 ELSE @]
        <5>1. PICK next : next = advance_from(over, s.i, removed) /\ next[1] = u /\ next[2] = j
          <6>1. PICK pair : pair = <<u, j>>
            BY Zenon
          <6>2. pair = advance_from(over, s.i, removed)
            BY <4>1, <6>1, Zenon
          <6>3. pair[1] = u /\ pair[2] = j
            BY ONLY <6>1
          <6> QED BY <6>2, <6>3, Zenon
        <5>2. t = [s EXCEPT !.w = next[1], !.i = next[2], !.budget = IF removed THEN @ + 1 ELSE @]
          BY <1>5, <2>1, <2>2, <2>5, <3>2, <3>3, <3>7, <5>1 DEF settle_step
        <5> QED BY <5>1, <5>2
      <4>3. /\ DOMAIN t = WalkFields /\ t.stop = s.stop /\ t.w = u /\ t.i = j
            /\ t.budget = IF removed THEN s.budget + 1 ELSE s.budget
        BY <4>2 DEF WalkOK, WalkFields
      <4>4. /\ s.budget \in Nat /\ Len(s.w.d.order) \in Nat /\ s.i \in Nat \ {0}
            /\ k <= s.budget /\ s.budget + Len(s.w.d.order) <= 2 * L
        BY <1>5 DEF WalkOK
      <4>5. /\ WorkOK(snap, t.w, 3) /\ t.w.err = over.err /\ t.w.creates = over.creates
            /\ t.w.d.order = over.d.order
            /\ t.i \in Nat \ {0} /\ (t.i <= Len(over.d.order) \/ Len(over.d.order) = 0)
            /\ RoundKept(begun, t.w)
        BY <3>5, <4>1, <4>3 DEF RoundKept
      <4>6. t.budget \in Nat /\ k + 1 <= t.budget /\ t.budget + Len(over.d.order) <= 2 * L
        <5>1. PICK b \in Nat, l \in Nat, o \in Nat :
                b = s.budget /\ l = Len(s.w.d.order) /\ o = Len(over.d.order)
          BY <3>4, <4>4
        <5>2. k <= b /\ b + l <= 2 * L
          BY <4>4, <5>1
        <5>3. CASE removed
          <6>1. t.budget = b + 1 /\ o < l
            BY <3>4, <4>3, <5>1, <5>3
          <6>2. k + 1 <= b + 1 /\ b + 1 + o <= 2 * L
            BY <5>2, <6>1
          <6> QED BY <5>1, <6>1, <6>2
        <5>4. CASE ~removed
          <6>1. t.budget = b /\ o = l /\ ~(k + 1 >= b)
            BY <3>4, <3>7, <4>3, <5>1, <5>4
          <6> QED BY <5>1, <5>2, <6>1
        <5> QED BY <5>3, <5>4
      <4> QED BY <1>5, <3>4, <3>5, <4>3, <4>5, <4>6 DEF WalkOK
    <3> QED BY <3>6, <3>7
  <2> QED BY <2>4, <2>5
<1> QED BY <1>1, <1>3, <1>4, <1>5 DEF WalkOK

Walk(base, ks) == FoldLeft(settle_step, base, ks)

LEMMA WalkChain ==
  ASSUME NEW base, NEW ks, NEW n \in Nat, DOMAIN ks = 1..n
  PROVE  \E a : /\ a[0] = base /\ a[n] = Walk(base, ks)
                /\ \A k \in Nat : k + 1 <= n => a[k + 1] = settle_step(a[k], ks[k + 1])
<1> DEFINE Step(out, x) == settle_step(out, x)
           Iter(h, k) == h = [s \in SUBSET (1..k) |->
             IF s = {} THEN base ELSE Step(h[s \ {Max(s)}], ks[Max(s)])]
<1>1. Walk(base, ks) = (CHOOSE h : Iter(h, n))[1..n]
  BY Zenon DEF Walk, FoldLeft, MapThenFoldSet
<1> HIDE DEF Step
<1>2. ASSUME NEW k \in Nat, NEW h, Iter(h, k) PROVE \E g : Iter(g, k + 1)
  <2> DEFINE g == [s \in SUBSET (1..k + 1) |->
        IF k + 1 \in s THEN Step(h[s \ {k + 1}], ks[k + 1]) ELSE h[s]]
  <2>1. ASSUME NEW s \in SUBSET (1..k + 1)
        PROVE  g[s] = IF s = {} THEN base ELSE Step(g[s \ {Max(s)}], ks[Max(s)])
    <3>1. CASE k + 1 \in s
      <4>1. Max(s) = k + 1 /\ s # {} /\ s \ {k + 1} \in SUBSET (1..k)
        BY <3>1, UpTo
      <4>2. s \ {k + 1} \in SUBSET (1..k + 1) /\ k + 1 \notin s \ {k + 1}
        OBVIOUS
      <4>3. g[s \ {k + 1}] = h[s \ {k + 1}]
        BY <4>2
      <4> QED BY <3>1, <4>1, <4>3
    <3>2. CASE k + 1 \notin s
      <4>1. \A x \in s : x \in 1..k
        BY <3>2
      <4>2. s \in SUBSET (1..k) /\ s \ {Max(s)} \in SUBSET (1..k) /\ k + 1 \notin s \ {Max(s)}
        BY <3>2, <4>1
      <4>3. s \ {Max(s)} \in SUBSET (1..k + 1)
        OBVIOUS
      <4>4. g[s] = h[s] /\ g[s \ {Max(s)}] = h[s \ {Max(s)}]
        BY <3>2, <4>2, <4>3
      <4> QED BY <1>2, <4>2, <4>4
    <3> QED BY <3>1, <3>2
  <2>2. Iter(g, k + 1)
    BY <2>1
  <2> QED BY <2>2
<1>3. PICK it : it = (CHOOSE h : Iter(h, n)) /\ Iter(it, n)
  <2>1. Iter([s \in SUBSET (1..0) |-> base], 0)
    OBVIOUS
  <2>2. PICK T : T = {k \in Nat : \E h : Iter(h, k)}
    OBVIOUS
  <2> HIDE DEF Iter
  <2>3. 0 \in T
    BY <2>1, <2>2
  <2>4. ASSUME NEW k \in Nat, k \in T PROVE k + 1 \in T
    BY <1>2, <2>2, <2>4
  <2>5. Nat \subseteq T
    BY <2>3, <2>4, NatInd
  <2> QED BY <2>2, <2>5
<1>4. it[1..0] = base
  <2>1. 1..0 \in SUBSET (1..n) /\ 1..0 = {}
    OBVIOUS
  <2> QED BY <1>3, <2>1
<1>5. ASSUME NEW k \in Nat, k + 1 <= n PROVE it[1..k + 1] = Step(it[1..k], ks[k + 1])
  <2>1. 1..k + 1 \in SUBSET (1..n)
    BY <1>5
  <2>2. 1..k + 1 # {} /\ Max(1..k + 1) = k + 1 /\ (1..k + 1) \ {k + 1} = 1..k
    BY UpTo
  <2> QED BY <1>3, <2>1, <2>2
<1> HIDE DEF Iter
<1>6. PICK a : a = [k \in 0..n |-> it[1..k]]
  OBVIOUS
<1>7. a[0] = base /\ a[n] = Walk(base, ks)
  BY <1>1, <1>3, <1>4, <1>6
<1>8. ASSUME NEW k \in Nat, k + 1 <= n PROVE a[k + 1] = Step(a[k], ks[k + 1])
  <2>1. k \in 0..n /\ k + 1 \in 0..n
    BY <1>8
  <2>2. a[k] = it[1..k] /\ a[k + 1] = it[1..k + 1]
    BY <1>6, <2>1
  <2> QED BY <1>5, <1>8, <2>2
<1> QED BY <1>7, <1>8 DEF Step

(* A walk from a position, step by step.                                   *)
LEMMA SettleChain ==
  ASSUME NEW w, NEW from, NEW L \in Nat, L = Len(w.d.order), NEW u, u = settle_turn(w, from),
         NEW n \in Nat, n = 2 * L + 1,
         NEW base, base = [stop |-> FALSE, w |-> w, i |-> from, budget |-> Budget(w)]
  PROVE  \E a : /\ a[0] = base /\ u = a[n].w
                /\ \A k \in Nat : k + 1 <= n => a[k + 1] = settle_step(a[k], k + 1)
<1>1. PICK ks : ks = [k \in 1..n |-> k]
  OBVIOUS
<1>2. u = Walk(base, ks).w
  BY <1>1 DEF settle_turn, Walk
<1>3. PICK fl : fl = Walk(base, ks)
  OBVIOUS
<1>4. PICK a : /\ a[0] = base /\ a[n] = fl
               /\ \A k \in Nat : k + 1 <= n => a[k + 1] = settle_step(a[k], ks[k + 1])
  <2>1. DOMAIN ks = 1..n /\ n \in Nat
    BY <1>1
  <2> QED BY ONLY <1>3, <2>1, WalkChain
<1>5. ASSUME NEW k \in Nat, k + 1 <= n PROVE a[k + 1] = settle_step(a[k], k + 1)
  <2>1. ks[k + 1] = k + 1
    BY <1>1, <1>5
  <2> QED BY <1>4, <1>5, <2>1
<1> QED BY <1>2, <1>3, <1>4, <1>5

LEMMA Settled ==
  ASSUME NEW snap, NEW w, WorkOK(snap, w, 3), NEW from \in Nat \ {0},
         from <= Len(w.d.order) \/ Len(w.d.order) = 0, NEW u, u = settle_turn(w, from)
  PROVE  /\ WorkOK(snap, u, 3) /\ u.creates = w.creates /\ RoundKept(w, u)
         /\ u.err = "ok" => Recorded(u)
<1>1. PICK L \in Nat : L = Len(w.d.order)
  BY AppendFacts DEF WorkOK, DocsOK
<1>2. PICK n \in Nat : n = 2 * L + 1
  OBVIOUS
<1>3. PICK base : base = [stop |-> FALSE, w |-> w, i |-> from, budget |-> Budget(w)]
  OBVIOUS
<1>4. PICK a : /\ a[0] = base /\ u = a[n].w
               /\ \A k \in Nat : k + 1 <= n => a[k + 1] = settle_step(a[k], k + 1)
  <2>1. /\ L \in Nat /\ L = Len(w.d.order) /\ u = settle_turn(w, from)
        /\ n \in Nat /\ n = 2 * L + 1
    BY <1>1, <1>2
  <2> QED BY ONLY <1>3, <2>1, SettleChain
<1>5. PICK T : T = {k \in Nat : k <= n => WalkOK(snap, w, L, a[k], k)}
  OBVIOUS
<1>6. 0 \in T
  <2>1. WalkOK(snap, w, L, base, 0)
    BY <1>1, <1>3 DEF WalkOK, WalkFields, Budget, RoundKept
  <2> QED BY <1>4, <1>5, <2>1
<1>7. ASSUME NEW k \in Nat, k \in T PROVE k + 1 \in T
  <2>1. SUFFICES ASSUME k + 1 <= n PROVE WalkOK(snap, w, L, a[k + 1], k + 1)
    BY <1>5
  <2>2. WalkOK(snap, w, L, a[k], k)
    BY <1>5, <1>7, <2>1
  <2>3. a[k + 1] = settle_step(a[k], k + 1)
    BY <1>4, <2>1
  <2> QED BY <1>1, <2>2, <2>3, Stepped
<1>8. WalkOK(snap, w, L, a[n], n)
  <2>1. n \in T
    BY <1>6, <1>7, NatInd
  <2> QED BY <1>5, <2>1
<1>9. a[n].stop
  <2>1. PICK s : s = a[n] /\ WalkOK(snap, w, L, s, n)
    BY <1>8
  <2>2. SUFFICES ASSUME ~s.stop PROVE FALSE
    BY <2>1
  <2>3. s.budget \in Nat /\ Len(s.w.d.order) \in Nat /\ n <= s.budget /\ s.budget + Len(s.w.d.order) <= 2 * L
    BY <2>1, <2>2 DEF WalkOK
  <2> QED BY <1>2, <2>3
<1> QED BY <1>4, <1>8, <1>9 DEF WalkOK, RoundKept

-----------------------------------------------------------------------------
(* coalesce_updates: of several changes of a field one remains, with the   *)
(* first old value and the last new one.                                   *)

LEMMA FirstWrite ==
  ASSUME NEW w, IsSeq(w.changes), NEW at, Wrote(w, at)
  PROVE  \E i \in 1..Len(w.changes) :
           w.changes[i].at = at /\ \A j \in 1..i - 1 : w.changes[j].at # at
<1>1. PICK m \in Nat : m = Len(w.changes)
  BY AppendFacts
<1>2. PICK T \in SUBSET Nat : T = {i \in 1..m : w.changes[i].at = at}
  <2>1. {i \in 1..m : w.changes[i].at = at} \in SUBSET Nat
    OBVIOUS
  <2> QED BY <2>1
<1>3. T # {}
  BY <1>1, <1>2 DEF Wrote
<1>4. PICK R : R = {p \in Nat \X Nat : p[1] < p[2]}
  OBVIOUS
<1>5. IsWellFoundedOn(R, Nat)
  BY <1>4, NatLessThanWellFounded DEF OpToRel
<1>6. PICK i \in T : \A y \in T : ~(<<y, i>> \in R)
  BY <1>3, <1>5, WFMin
<1>7. \A y \in T : ~(y < i)
  BY <1>4, <1>6
<1>8. i \in 1..m /\ w.changes[i].at = at
  BY <1>2, <1>6
<1>9. \A j \in 1..i - 1 : w.changes[j].at # at
  <2>1. \A j \in 1..i - 1 : j \in 1..m /\ j < i
    BY <1>8
  <2> QED BY <1>2, <1>7, <2>1
<1> QED BY <1>1, <1>8, <1>9

First(w, at) == CHOOSE i \in DOMAIN w.changes :
                  w.changes[i].at = at /\ \A j \in 1..i - 1 : w.changes[j].at # at
Gone(w, at) == Len(at) > 1 /\ at[2] \notin DOMAIN w.d.members
Merge(w, out, c) ==
  IF Gone(w, c.at) \/ \E i \in DOMAIN out : out[i].at = c.at THEN out
  ELSE Append(out, [at |-> c.at, old |-> w.changes[First(w, c.at)].old, new |-> Get(w.d, c.at)])
Merged(w) == FoldLeft(LAMBDA out, c : Merge(w, out, c), <<>>, w.changes)

LEMMA Coalesces ==
  ASSUME NEW w
  PROVE  coalesce_updates(w) = [w EXCEPT !.changes = Merged(w)]
BY Zenon DEF coalesce_updates, Merged, Merge, First, Gone

LEMMA MergeChain ==
  ASSUME NEW w, NEW n \in Nat, DOMAIN w.changes = 1..n
  PROVE  \E a : /\ a[0] = <<>> /\ a[n] = Merged(w)
                /\ \A k \in Nat : k + 1 <= n => a[k + 1] = Merge(w, a[k], w.changes[k + 1])
<1> DEFINE Step(out, x) == Merge(w, out, x)
           Iter(h, k) == h = [s \in SUBSET (1..k) |->
             IF s = {} THEN <<>> ELSE Step(h[s \ {Max(s)}], w.changes[Max(s)])]
<1>1. Merged(w) = (CHOOSE h : Iter(h, n))[1..n]
  BY Zenon DEF Merged, FoldLeft, MapThenFoldSet
<1> HIDE DEF Step
<1>2. ASSUME NEW k \in Nat, NEW h, Iter(h, k) PROVE \E g : Iter(g, k + 1)
  <2> DEFINE g == [s \in SUBSET (1..k + 1) |->
        IF k + 1 \in s THEN Step(h[s \ {k + 1}], w.changes[k + 1]) ELSE h[s]]
  <2>1. ASSUME NEW s \in SUBSET (1..k + 1)
        PROVE  g[s] = IF s = {} THEN <<>> ELSE Step(g[s \ {Max(s)}], w.changes[Max(s)])
    <3>1. CASE k + 1 \in s
      <4>1. Max(s) = k + 1 /\ s # {} /\ s \ {k + 1} \in SUBSET (1..k)
        BY <3>1, UpTo
      <4>2. s \ {k + 1} \in SUBSET (1..k + 1) /\ k + 1 \notin s \ {k + 1}
        OBVIOUS
      <4>3. g[s \ {k + 1}] = h[s \ {k + 1}]
        BY <4>2
      <4> QED BY <3>1, <4>1, <4>3
    <3>2. CASE k + 1 \notin s
      <4>1. \A x \in s : x \in 1..k
        BY <3>2
      <4>2. s \in SUBSET (1..k) /\ s \ {Max(s)} \in SUBSET (1..k) /\ k + 1 \notin s \ {Max(s)}
        BY <3>2, <4>1
      <4>3. s \ {Max(s)} \in SUBSET (1..k + 1)
        OBVIOUS
      <4>4. g[s] = h[s] /\ g[s \ {Max(s)}] = h[s \ {Max(s)}]
        BY <3>2, <4>2, <4>3
      <4> QED BY <1>2, <4>2, <4>4
    <3> QED BY <3>1, <3>2
  <2>2. Iter(g, k + 1)
    BY <2>1
  <2> QED BY <2>2
<1>3. PICK it : it = (CHOOSE h : Iter(h, n)) /\ Iter(it, n)
  <2>1. Iter([s \in SUBSET (1..0) |-> <<>>], 0)
    OBVIOUS
  <2>2. PICK T : T = {k \in Nat : \E h : Iter(h, k)}
    OBVIOUS
  <2> HIDE DEF Iter
  <2>3. 0 \in T
    BY <2>1, <2>2
  <2>4. ASSUME NEW k \in Nat, k \in T PROVE k + 1 \in T
    BY <1>2, <2>2, <2>4
  <2>5. Nat \subseteq T
    BY <2>3, <2>4, NatInd
  <2> QED BY <2>2, <2>5
<1>4. it[1..0] = <<>>
  <2>1. 1..0 \in SUBSET (1..n) /\ 1..0 = {}
    OBVIOUS
  <2> QED BY <1>3, <2>1
<1>5. ASSUME NEW k \in Nat, k + 1 <= n PROVE it[1..k + 1] = Step(it[1..k], w.changes[k + 1])
  <2>1. 1..k + 1 \in SUBSET (1..n)
    BY <1>5
  <2>2. 1..k + 1 # {} /\ Max(1..k + 1) = k + 1 /\ (1..k + 1) \ {k + 1} = 1..k
    BY UpTo
  <2> QED BY <1>3, <2>1, <2>2
<1> HIDE DEF Iter
<1>6. PICK a : a = [k \in 0..n |-> it[1..k]]
  OBVIOUS
<1>7. a[0] = <<>> /\ a[n] = Merged(w)
  BY <1>1, <1>3, <1>4, <1>6
<1>8. ASSUME NEW k \in Nat, k + 1 <= n PROVE a[k + 1] = Step(a[k], w.changes[k + 1])
  <2>1. k \in 0..n /\ k + 1 \in 0..n
    BY <1>8
  <2>2. a[k] = it[1..k] /\ a[k + 1] = it[1..k + 1]
    BY <1>6, <2>1
  <2> QED BY <1>5, <1>8, <2>2
<1> QED BY <1>7, <1>8 DEF Step

(* What the room is handed: changes that name something the snapshot has,  *)
(* carry its value as the old one, and the transition's as the new.        *)
ChangeOK(snap, d, ch, n) ==
  /\ PathOK(ch.at, n) /\ ValueOK(ch.at, ch.new)
  /\ Present(snap, ch.at) /\ ch.old = Get(snap, ch.at)
  /\ \A f : ch.at = <<f>> => ch.new = d[f]
OpsOK(snap, w, n) ==
  /\ DOMAIN w = WorkFields /\ IsSeq(w.changes)
  /\ \A i \in 1..Len(w.changes) : ChangeOK(snap, w.d, w.changes[i], n)
  /\ w.deletes \subseteq DOMAIN snap.members
  /\ DOMAIN w.creates \subseteq Combatants \ DOMAIN snap.members

LEMMA PathLen ==
  ASSUME NEW n, NEW at, PathOK(at, n)
  PROVE  Len(at) \in {1, 2, 3} /\ (Len(at) = 1 <=> \E f \in Scalars : at = <<f>>)
<1>1. CASE \E f \in Scalars : at = <<f>>
  BY <1>1
<1>2. CASE \E c : at = <<"members", c>>
  BY <1>2
<1>3. CASE \E c, f : at = <<"members", c, f>>
  BY <1>3
<1> QED BY <1>1, <1>2, <1>3 DEF PathOK

LEMMA GonePresent ==
  ASSUME NEW n, NEW w, NEW at, PathOK(at, n)
  PROVE  Gone(w, at) <=> ~Present(w.d, at)
BY PathLen DEF Gone, Present

LEMMA FirstChoice ==
  ASSUME NEW w, IsSeq(w.changes), NEW at, Wrote(w, at), NEW f, f = First(w, at)
  PROVE  f \in 1..Len(w.changes) /\ w.changes[f].at = at /\ \A j \in 1..f - 1 : w.changes[j].at # at
<1>1. PICK m \in Nat : m = Len(w.changes) /\ DOMAIN w.changes = 1..m
  BY DEF IsSeq
<1>2. PICK i \in 1..m : w.changes[i].at = at /\ \A j \in 1..i - 1 : w.changes[j].at # at
  <2>1. \E i \in 1..Len(w.changes) :
          w.changes[i].at = at /\ \A j \in 1..i - 1 : w.changes[j].at # at
    BY FirstWrite
  <2> QED BY <1>1, <2>1
<1> QED BY <1>1, <1>2, Zenon DEF First

LEMMA MergedChange ==
  ASSUME NEW snap, NEW w, WorkOK(snap, w, 3), NEW k \in 1..Len(w.changes), NEW at,
         at = w.changes[k].at, ~Gone(w, at), NEW ch,
         ch = [at |-> at, old |-> w.changes[First(w, at)].old, new |-> Get(w.d, at)]
  PROVE  ChangeOK(snap, w.d, ch, 3)
<1>1. ch.at = at /\ ch.old = w.changes[First(w, at)].old /\ ch.new = Get(w.d, at)
  OBVIOUS
<1>2. PathOK(at, 3)
  BY DEF WorkOK
<1>3. Present(w.d, at) /\ Present(snap, at)
  <2>1. Present(w.d, at)
    BY <1>2, GonePresent
  <2>2. DOMAIN w.d.members \subseteq DOMAIN snap.members
    BY DEF WorkOK
  <2> QED BY <2>1, <2>2 DEF Present
<1>4. ch.old = Get(snap, at)
  <2>1. IsSeq(w.changes) /\ Wrote(w, at)
    BY DEF WorkOK, Wrote
  <2>4. PICK f : f = First(w, at)
    OBVIOUS
  <2>5. f \in 1..Len(w.changes) /\ w.changes[f].at = at /\ \A j \in 1..f - 1 : w.changes[j].at # at
    BY <2>1, <2>4, FirstChoice
  <2>6. w.changes[f].old = Get(snap, at)
    BY <1>3, <2>5 DEF WorkOK
  <2> QED BY <1>1, <2>4, <2>6
<1>5. \A f : at = <<f>> => Get(w.d, at) = w.d[f]
  BY DEF Get
<1>6. ValueOK(at, Get(w.d, at))
  <2>1. IsSeq(w.d["order"]) /\ HistoryOK(w.d["history"])
    BY DEF WorkOK, DocsOK
  <2> QED BY <1>5, <2>1 DEF ValueOK
<1> QED BY <1>1, <1>2, <1>3, <1>4, <1>5, <1>6 DEF ChangeOK

LEMMA MergedFacts ==
  ASSUME NEW snap, NEW w, WorkOK(snap, w, 3), NEW out, out = Merged(w)
  PROVE  /\ IsSeq(out)
         /\ \A i \in 1..Len(out) : ChangeOK(snap, w.d, out[i], 3) /\ Wrote(w, out[i].at)
         /\ \A j \in 1..Len(w.changes) : Gone(w, w.changes[j].at)
              \/ \E i \in 1..Len(out) : out[i].at = w.changes[j].at
<1>1. PICK n \in Nat : n = Len(w.changes) /\ DOMAIN w.changes = 1..n
  BY DEF WorkOK, IsSeq
<1>2. PICK a : /\ a[0] = <<>> /\ a[n] = out
               /\ \A k \in Nat : k + 1 <= n => a[k + 1] = Merge(w, a[k], w.changes[k + 1])
  <2>1. \E a : /\ a[0] = <<>> /\ a[n] = Merged(w)
               /\ \A k \in Nat : k + 1 <= n => a[k + 1] = Merge(w, a[k], w.changes[k + 1])
    BY ONLY <1>1, MergeChain
  <2> QED BY <2>1
<1> DEFINE Good(o, k) ==
      /\ IsSeq(o)
      /\ \A i \in 1..Len(o) : ChangeOK(snap, w.d, o[i], 3) /\ Wrote(w, o[i].at)
      /\ \A j \in 1..k : Gone(w, w.changes[j].at)
           \/ \E i \in 1..Len(o) : o[i].at = w.changes[j].at
<1>3. Good(<<>>, 0)
  <2>1. <<>> \in Seq({}) /\ Len(<<>>) = 0
    OBVIOUS
  <2> QED BY <2>1 DEF IsSeq
<1>4. ASSUME NEW k \in Nat, k + 1 <= n, NEW o, Good(o, k), NEW t, t = Merge(w, o, w.changes[k + 1])
      PROVE  Good(t, k + 1)
  <2>1. PICK l \in Nat : l = Len(o) /\ DOMAIN o = 1..l
    BY <1>4 DEF IsSeq
  <2>2. PICK c : c = w.changes[k + 1]
    OBVIOUS
  <2>3. \A j \in 1..k + 1 : j \in 1..k \/ j = k + 1
    OBVIOUS
  <2>4. CASE Gone(w, c.at) \/ \E i \in 1..l : o[i].at = c.at
    <3>1. t = o
      BY <1>4, <2>1, <2>2, <2>4 DEF Merge
    <3>2. Gone(w, w.changes[k + 1].at) \/ \E i \in 1..Len(o) : o[i].at = w.changes[k + 1].at
      BY <2>1, <2>2, <2>4
    <3> QED BY <1>4, <2>3, <3>1, <3>2
  <2>5. CASE ~(Gone(w, c.at) \/ \E i \in 1..l : o[i].at = c.at)
    <3>1. PICK ch : ch = [at |-> c.at, old |-> w.changes[First(w, c.at)].old, new |-> Get(w.d, c.at)]
      OBVIOUS
    <3>2. t = Append(o, ch)
      BY <1>4, <2>1, <2>2, <2>5, <3>1 DEF Merge
    <3>3. /\ IsSeq(t) /\ Len(t) = l + 1 /\ t[l + 1] = ch
          /\ \A i \in 1..l : t[i] = o[i]
      BY <1>4, <2>1, <3>2, AppendFacts
    <3>4. ChangeOK(snap, w.d, ch, 3)
      <4>1. PICK at : at = c.at
        OBVIOUS
      <4>2. k + 1 \in 1..Len(w.changes) /\ at = w.changes[k + 1].at /\ ~Gone(w, at)
        BY <1>1, <1>4, <2>2, <2>5, <4>1
      <4>3. ch = [at |-> at, old |-> w.changes[First(w, at)].old, new |-> Get(w.d, at)]
        BY <3>1, <4>1
      <4> QED BY <4>2, <4>3, MergedChange
    <3>5. ch.at = c.at /\ Wrote(w, c.at)
      <4>1. k + 1 \in 1..Len(w.changes)
        BY <1>1, <1>4
      <4> QED BY <2>2, <3>1, <4>1 DEF Wrote
    <3>6. \A i \in 1..l + 1 : i \in 1..l \/ i = l + 1
      OBVIOUS
    <3>7. \A i \in 1..l + 1 : ChangeOK(snap, w.d, t[i], 3) /\ Wrote(w, t[i].at)
      BY <1>4, <2>1, <3>3, <3>4, <3>5, <3>6
    <3>8. ASSUME NEW j \in 1..k + 1
          PROVE  Gone(w, w.changes[j].at) \/ \E i \in 1..l + 1 : t[i].at = w.changes[j].at
      <4>1. CASE j = k + 1
        <5>1. l + 1 \in 1..l + 1 /\ t[l + 1].at = w.changes[j].at
          BY <2>2, <3>3, <3>5, <4>1
        <5> QED BY <5>1
      <4>2. CASE j \in 1..k
        <5>1. CASE \E i \in 1..l : o[i].at = w.changes[j].at
          <6>1. PICK i \in 1..l : o[i].at = w.changes[j].at
            BY <5>1
          <6>2. i \in 1..l + 1 /\ t[i].at = w.changes[j].at
            BY <3>3, <6>1
          <6> QED BY <6>2
        <5> QED BY <1>4, <2>1, <4>2, <5>1
      <4> QED BY <2>3, <4>1, <4>2
    <3> QED BY <3>3, <3>7, <3>8
  <2> QED BY <2>4, <2>5
<1> HIDE DEF Good
<1>5. PICK T : T = {k \in Nat : k <= n => Good(a[k], k)}
  OBVIOUS
<1>6. 0 \in T
  BY <1>2, <1>3, <1>5
<1>7. ASSUME NEW k \in Nat, k \in T PROVE k + 1 \in T
  <2>1. SUFFICES ASSUME k + 1 <= n PROVE Good(a[k + 1], k + 1)
    BY <1>5
  <2>2. Good(a[k], k)
    BY <1>5, <1>7, <2>1
  <2> QED BY <1>2, <1>4, <2>1, <2>2
<1>8. Good(out, n)
  <2>1. n \in T
    BY <1>6, <1>7, NatInd
  <2> QED BY <1>2, <1>5, <2>1
<1> QED BY <1>1, <1>8 DEF Good

LEMMA Coalesced ==
  ASSUME NEW snap, NEW w, WorkOK(snap, w, 3), DOMAIN w.creates = {}, NEW u, u = coalesce_updates(w)
  PROVE  /\ OpsOK(snap, u, 3) /\ u.d = w.d /\ u.err = w.err
         /\ \A f \in Scalars : Wrote(u, <<f>>) <=> Wrote(w, <<f>>)
<1>1. PICK out : out = Merged(w)
  OBVIOUS
<1>2. /\ IsSeq(out)
      /\ \A i \in 1..Len(out) : ChangeOK(snap, w.d, out[i], 3) /\ Wrote(w, out[i].at)
      /\ \A j \in 1..Len(w.changes) : Gone(w, w.changes[j].at)
           \/ \E i \in 1..Len(out) : out[i].at = w.changes[j].at
  BY <1>1, MergedFacts
<1>3. /\ DOMAIN u = WorkFields /\ u.d = w.d /\ u.err = w.err /\ u.changes = out
      /\ u.deletes = w.deletes /\ u.creates = w.creates
  BY <1>1, Coalesces DEF WorkOK, WorkFields
<1>4. OpsOK(snap, u, 3)
  BY <1>2, <1>3 DEF OpsOK, WorkOK
<1>5. ASSUME NEW f \in Scalars PROVE Wrote(u, <<f>>) <=> Wrote(w, <<f>>)
  <2>1. PICK at : at = <<f>>
    OBVIOUS
  <2>2. Len(at) = 1 /\ ~Gone(w, at)
    BY <2>1 DEF Gone
  <2>3. ASSUME NEW i \in 1..Len(out), out[i].at = at PROVE Wrote(w, at)
    BY <1>2, <2>3
  <2>4. ASSUME NEW j \in 1..Len(w.changes), w.changes[j].at = at
        PROVE  \E i \in 1..Len(out) : out[i].at = at
    BY <1>2, <2>2, <2>4
  <2>5. Wrote(u, at) <=> \E i \in 1..Len(out) : out[i].at = at
    BY <1>3 DEF Wrote
  <2>6. Wrote(w, at) <=> \E j \in 1..Len(w.changes) : w.changes[j].at = at
    BY DEF Wrote
  <2> QED BY <2>1, <2>3, <2>4, <2>5, <2>6
<1> QED BY <1>3, <1>4, <1>5

-----------------------------------------------------------------------------
(* Transitions that write every field once need no coalescing.             *)

LEMMA FreshSet ==
  ASSUME NEW n \in {2, 3}, NEW snap, NEW w, WorkOK(snap, w, n), OpsOK(snap, w, n),
         NEW at, PathOK(at, n), Present(w.d, at), ~Wrote(w, at), NEW v, ValueOK(at, v),
         NEW u, u = set_engine(w, at, v)
  PROVE  /\ WorkOK(snap, u, n) /\ OpsOK(snap, u, n)
         /\ \A p : Wrote(u, p) <=> Wrote(w, p) \/ p = at
         /\ \A f \in Scalars : u.d[f] = IF at = <<f>> THEN v ELSE w.d[f]
         /\ DOMAIN u.d.members = DOMAIN w.d.members
         /\ u.err = w.err /\ u.deletes = w.deletes /\ u.creates = w.creates
<1>1. PICK m \in Nat : m = Len(w.changes)
  BY AppendFacts DEF WorkOK
<1>2. PICK ch : ch = [at |-> at, old |-> Get(w.d, at), new |-> v]
  OBVIOUS
<1>3. DOMAIN u = WorkFields /\ u.changes = Append(w.changes, ch)
  BY <1>2 DEF set_engine, WorkOK, WorkFields
<1>4. /\ Len(u.changes) = m + 1 /\ u.changes[m + 1] = ch
      /\ \A i \in 1..m : u.changes[i] = w.changes[i]
      /\ IsSeq(u.changes)
  BY <1>1, <1>3, AppendFacts DEF WorkOK
<1>5. /\ WorkOK(snap, u, n)
      /\ \A p : Wrote(u, p) <=> Wrote(w, p) \/ p = at
      /\ at[1] \in Scalars => u.d[at[1]] = v
      /\ \A f \in Fields : <<f>> # at /\ (at[1] # "members" \/ f # "members") => u.d[f] = w.d[f]
      /\ DOMAIN u.d.members = DOMAIN w.d.members
      /\ u.err = w.err /\ u.deletes = w.deletes /\ u.creates = w.creates
  BY SetEngine
<1>6. ASSUME NEW f \in Scalars PROVE u.d[f] = IF at = <<f>> THEN v ELSE w.d[f]
  <2>1. f \in Fields /\ f # "members"
    BY DEF Fields, Scalars
  <2>2. CASE at = <<f>>
    <3>1. at[1] = f
      BY <2>2
    <3> QED BY <1>5, <2>2, <3>1
  <2>3. CASE at # <<f>>
    BY <1>5, <2>1, <2>3
  <2> QED BY <2>2, <2>3
<1>7. ChangeOK(snap, u.d, ch, n)
  <2>1. ch.at = at /\ ch.old = Get(w.d, at) /\ ch.new = v
    BY <1>2
  <2>2. Get(w.d, at) = Get(snap, at) /\ Present(snap, at)
    BY DEF WorkOK, Present
  <2>3. ASSUME NEW f, at = <<f>> PROVE v = u.d[f]
    <3>1. Len(at) = 1
      BY <2>3
    <3>2. f \in Scalars
      <4>1. PICK g \in Scalars : at = <<g>>
        BY <3>1, PathLen
      <4> QED BY <2>3, <4>1
    <3> QED BY <1>6, <2>3, <3>2
  <2> QED BY <2>1, <2>2, <2>3 DEF ChangeOK
<1>8. ASSUME NEW i \in 1..m PROVE ChangeOK(snap, u.d, w.changes[i], n)
  <2>1. PICK c : c = w.changes[i] /\ ChangeOK(snap, w.d, c, n)
    BY <1>1 DEF OpsOK
  <2>2. ASSUME NEW f, c.at = <<f>> PROVE u.d[f] = w.d[f]
    <3>1. c.at # at
      BY <1>1, <2>1 DEF Wrote
    <3>2. Len(c.at) = 1 /\ PathOK(c.at, n)
      BY <2>1, <2>2 DEF ChangeOK
    <3>3. f \in Scalars
      <4>1. PICK g \in Scalars : c.at = <<g>>
        BY <3>2, PathLen
      <4> QED BY <2>2, <4>1
    <3> QED BY <1>6, <2>2, <3>1, <3>3
  <2> QED BY <2>1, <2>2 DEF ChangeOK
<1>9. \A i \in 1..m + 1 : ChangeOK(snap, u.d, u.changes[i], n)
  <2>1. \A i \in 1..m + 1 : i \in 1..m \/ i = m + 1
    OBVIOUS
  <2> QED BY <1>4, <1>7, <1>8, <2>1
<1>10. OpsOK(snap, u, n)
  BY <1>3, <1>4, <1>5, <1>9 DEF OpsOK
<1> QED BY <1>5, <1>6, <1>10

LEMMA FreshScalar ==
  ASSUME NEW n \in {2, 3}, NEW snap, NEW w, WorkOK(snap, w, n), OpsOK(snap, w, n),
         NEW f \in Scalars, ~Wrote(w, <<f>>), NEW v, ValueOK(<<f>>, v),
         NEW u, u = set_engine(w, <<f>>, v)
  PROVE  /\ WorkOK(snap, u, n) /\ OpsOK(snap, u, n)
         /\ \A p : Wrote(u, p) <=> Wrote(w, p) \/ p = <<f>>
         /\ \A g \in Scalars : u.d[g] = IF g = f THEN v ELSE w.d[g]
         /\ DOMAIN u.d.members = DOMAIN w.d.members
         /\ u.err = w.err /\ u.deletes = w.deletes /\ u.creates = w.creates
<1>1. PICK at : at = <<f>>
  OBVIOUS
<1>2. PathOK(at, n) /\ Present(w.d, at) /\ ~Wrote(w, at) /\ ValueOK(at, v)
  BY <1>1 DEF PathOK, Present
<1>3. \A g : at = <<g>> <=> g = f
  BY <1>1
<1>4. /\ WorkOK(snap, u, n) /\ OpsOK(snap, u, n)
      /\ \A p : Wrote(u, p) <=> Wrote(w, p) \/ p = at
      /\ \A g \in Scalars : u.d[g] = IF at = <<g>> THEN v ELSE w.d[g]
      /\ DOMAIN u.d.members = DOMAIN w.d.members
      /\ u.err = w.err /\ u.deletes = w.deletes /\ u.creates = w.creates
  BY <1>1, <1>2, FreshSet
<1> QED BY <1>1, <1>3, <1>4

LEMMA Begun ==
  ASSUME NEW n \in {2, 3}, NEW snap, DocsOK(snap), NEW w, w = Begin(snap)
  PROVE  /\ WorkOK(snap, w, n) /\ OpsOK(snap, w, n) /\ \A p : ~Wrote(w, p)
         /\ w.d = snap /\ w.creates = [c \in {} |-> Nobody] /\ DOMAIN w.creates = {} /\ w.err = "ok"
<1>1. /\ DOMAIN w = WorkFields /\ w.d = snap /\ w.changes = <<>> /\ w.deletes = {}
      /\ w.creates = [c \in {} |-> Nobody] /\ w.err = "ok"
  BY DEF Begin, WorkFields
<1>2. IsSeq(w.changes) /\ Len(w.changes) = 0
  <2>1. <<>> \in Seq({}) /\ Len(<<>>) = 0
    OBVIOUS
  <2> QED BY <1>1, <2>1 DEF IsSeq
<1>3. \A i \in 1..Len(w.changes) : FALSE
  BY <1>2
<1>4. DOMAIN w.creates = {}
  BY <1>1
<1> QED BY <1>1, <1>2, <1>3, <1>4 DEF WorkOK, OpsOK, Wrote

(* rebuild_order returns a sequence.                                       *)
LEMMA SetSeq ==
  ASSUME NEW S, IsFiniteSet(S)
  PROVE  \E n \in Nat :
           /\ SetToSeq(S) \in [1..n -> S]
           /\ \A i \in 1..n, j \in 1..n : SetToSeq(S)[i] = SetToSeq(S)[j] => i = j
           /\ \A x \in S : \E i \in 1..n : SetToSeq(S)[i] = x
<1>1. PICK n \in Nat : n = Cardinality(S) /\ ExistsBijection(1..n, S)
  BY FS_CardinalityType
<1>2. PICK f \in [1..n -> S] : \A i \in 1..n, j \in 1..n : f[i] = f[j] => i = j
  BY <1>1 DEF ExistsBijection, Bijection, Injection, IsInjective
<1>3. IsInjective(f)
  BY <1>2 DEF IsInjective
<1>4. SetToSeq(S) \in [1..n -> S] /\ IsInjective(SetToSeq(S))
  BY <1>1, <1>3 DEF SetToSeq
<1>5. PICK g : g = SetToSeq(S)
  OBVIOUS
<1>6. g \in [1..n -> S] /\ \A i \in 1..n, j \in 1..n : g[i] = g[j] => i = j
  BY <1>4, <1>5 DEF IsInjective
<1>7. g \in Injection(1..n, S)
  BY <1>6 DEF Injection, IsInjective
<1>8. Cardinality(1..n) = n
  BY FS_Interval
<1>9. g \in Surjection(1..n, S)
  BY <1>1, <1>7, <1>8, FS_Injection
<1>10. \A x \in S : \E i \in 1..n : g[i] = x
  BY <1>9 DEF Surjection
<1> QED BY <1>5, <1>6, <1>10

Ids(members, existing) ==
  Kept(existing, DOMAIN members) \o SetToSeq(DOMAIN members \ Range(Kept(existing, DOMAIN members)))
Before(members, ids, b, c) ==
  LET x == members[b].init  y == members[c].init
      pos(e) == CHOOSE i \in DOMAIN ids : ids[i] = e
  IN IF x = y THEN pos(b) < pos(c) ELSE y = Nobody \/ (x # Nobody /\ x > y)
Ranked(members, ids, i) ==
  CHOOSE c \in Range(ids) : Cardinality({b \in Range(ids) : Before(members, ids, b, c)}) = i - 1

LEMMA Rebuilds ==
  ASSUME NEW members, NEW existing
  PROVE  rebuild_order(members, existing) =
           [i \in 1..Len(Ids(members, existing)) |-> Ranked(members, Ids(members, existing), i)]
BY Zenon DEF rebuild_order, Ids, Before, Ranked

LEMMA RebuiltSeq ==
  ASSUME NEW members, DOMAIN members \subseteq Combatants, NEW existing, IsSeq(existing)
  PROVE  IsSeq(rebuild_order(members, existing))
<1>1. PICK X : existing \in Seq(X)
  BY DEF IsSeq
<1>2. PICK stay : stay = Kept(existing, DOMAIN members) /\ stay \in Seq(X)
  BY <1>1, KeptFacts
<1>3. PICK S : S = DOMAIN members \ Range(stay)
  OBVIOUS
<1>4. IsFiniteSet(S)
  BY <1>3, ClockConstants, FS_Subset
<1>5. PICK k \in Nat : SetToSeq(S) \in [1..k -> S]
  BY <1>4, SetSeq
<1>6. PICK ids : ids = stay \o SetToSeq(S)
  OBVIOUS
<1>7. Len(ids) \in Nat
  <2>1. SetToSeq(S) \in Seq(X \cup S) /\ stay \in Seq(X \cup S)
    BY <1>2, <1>5
  <2> QED BY <1>6, <2>1
<1>8. \E g : rebuild_order(members, existing) = [i \in 1..Len(ids) |-> g[i]]
  <2>1. rebuild_order(members, existing) = [i \in 1..Len(ids) |-> Ranked(members, ids, i)]
    BY <1>2, <1>3, <1>6, Rebuilds DEF Ids
  <2>2. PICK g : g = [i \in 1..Len(ids) |-> Ranked(members, ids, i)]
    OBVIOUS
  <2>3. g = [i \in 1..Len(ids) |-> g[i]]
    BY <2>2
  <2> QED BY <2>1, <2>2, <2>3
<1>9. PICK g : rebuild_order(members, existing) = [i \in 1..Len(ids) |-> g[i]]
  BY <1>8
<1>10. PICK Y : Y = {g[i] : i \in 1..Len(ids)}
  OBVIOUS
<1>11. [i \in 1..Len(ids) |-> g[i]] \in Seq(Y)
  BY <1>7, <1>10
<1> QED BY <1>9, <1>11 DEF IsSeq

-----------------------------------------------------------------------------
(* restore: each captured combatant is changed or created.                 *)

RestoreWrite(record, v, c) ==
  IF c \in DOMAIN v.d.members THEN SetIfNew(v, <<"members", c>>, record.members[c])
  ELSE [v EXCEPT !.creates = Over([e \in {c} |-> record.members[e]], @)]
RestoreAll(record, w, seq) == FoldLeft(LAMBDA v, c : RestoreWrite(record, v, c), w, seq)

LEMMA Restores ==
  ASSUME NEW w, NEW record
  PROVE  restore(w, record) = RestoreAll(record, w, SetToSeq(DOMAIN record.members))
BY Zenon DEF restore, RestoreAll, RestoreWrite

LEMMA RestoreChain ==
  ASSUME NEW record, NEW w, NEW seq, NEW n \in Nat, DOMAIN seq = 1..n
  PROVE  \E a : /\ a[0] = w /\ a[n] = RestoreAll(record, w, seq)
                /\ \A k \in Nat : k + 1 <= n => a[k + 1] = RestoreWrite(record, a[k], seq[k + 1])
<1> DEFINE Step(out, x) == RestoreWrite(record, out, x)
           Iter(h, k) == h = [s \in SUBSET (1..k) |->
             IF s = {} THEN w ELSE Step(h[s \ {Max(s)}], seq[Max(s)])]
<1>1. RestoreAll(record, w, seq) = (CHOOSE h : Iter(h, n))[1..n]
  BY Zenon DEF RestoreAll, FoldLeft, MapThenFoldSet
<1> HIDE DEF Step
<1>2. ASSUME NEW k \in Nat, NEW h, Iter(h, k) PROVE \E g : Iter(g, k + 1)
  <2> DEFINE g == [s \in SUBSET (1..k + 1) |->
        IF k + 1 \in s THEN Step(h[s \ {k + 1}], seq[k + 1]) ELSE h[s]]
  <2>1. ASSUME NEW s \in SUBSET (1..k + 1)
        PROVE  g[s] = IF s = {} THEN w ELSE Step(g[s \ {Max(s)}], seq[Max(s)])
    <3>1. CASE k + 1 \in s
      <4>1. Max(s) = k + 1 /\ s # {} /\ s \ {k + 1} \in SUBSET (1..k)
        BY <3>1, UpTo
      <4>2. s \ {k + 1} \in SUBSET (1..k + 1) /\ k + 1 \notin s \ {k + 1}
        OBVIOUS
      <4>3. g[s \ {k + 1}] = h[s \ {k + 1}]
        BY <4>2
      <4> QED BY <3>1, <4>1, <4>3
    <3>2. CASE k + 1 \notin s
      <4>1. \A x \in s : x \in 1..k
        BY <3>2
      <4>2. s \in SUBSET (1..k) /\ s \ {Max(s)} \in SUBSET (1..k) /\ k + 1 \notin s \ {Max(s)}
        BY <3>2, <4>1
      <4>3. s \ {Max(s)} \in SUBSET (1..k + 1)
        OBVIOUS
      <4>4. g[s] = h[s] /\ g[s \ {Max(s)}] = h[s \ {Max(s)}]
        BY <3>2, <4>2, <4>3
      <4> QED BY <1>2, <4>2, <4>4
    <3> QED BY <3>1, <3>2
  <2>2. Iter(g, k + 1)
    BY <2>1
  <2> QED BY <2>2
<1>3. PICK it : it = (CHOOSE h : Iter(h, n)) /\ Iter(it, n)
  <2>1. Iter([s \in SUBSET (1..0) |-> w], 0)
    OBVIOUS
  <2>2. PICK T : T = {k \in Nat : \E h : Iter(h, k)}
    OBVIOUS
  <2> HIDE DEF Iter
  <2>3. 0 \in T
    BY <2>1, <2>2
  <2>4. ASSUME NEW k \in Nat, k \in T PROVE k + 1 \in T
    BY <1>2, <2>2, <2>4
  <2>5. Nat \subseteq T
    BY <2>3, <2>4, NatInd
  <2> QED BY <2>2, <2>5
<1>4. it[1..0] = w
  <2>1. 1..0 \in SUBSET (1..n) /\ 1..0 = {}
    OBVIOUS
  <2> QED BY <1>3, <2>1
<1>5. ASSUME NEW k \in Nat, k + 1 <= n PROVE it[1..k + 1] = Step(it[1..k], seq[k + 1])
  <2>1. 1..k + 1 \in SUBSET (1..n)
    BY <1>5
  <2>2. 1..k + 1 # {} /\ Max(1..k + 1) = k + 1 /\ (1..k + 1) \ {k + 1} = 1..k
    BY UpTo
  <2> QED BY <1>3, <2>1, <2>2
<1> HIDE DEF Iter
<1>6. PICK a : a = [k \in 0..n |-> it[1..k]]
  OBVIOUS
<1>7. a[0] = w /\ a[n] = RestoreAll(record, w, seq)
  BY <1>1, <1>3, <1>4, <1>6
<1>8. ASSUME NEW k \in Nat, k + 1 <= n PROVE a[k + 1] = Step(a[k], seq[k + 1])
  <2>1. k \in 0..n /\ k + 1 \in 0..n
    BY <1>8
  <2>2. a[k] = it[1..k] /\ a[k + 1] = it[1..k + 1]
    BY <1>6, <2>1
  <2> QED BY <1>5, <1>8, <2>2
<1> QED BY <1>7, <1>8 DEF Step

LEMMA MemberPath ==
  ASSUME NEW c, NEW at, at = <<"members", c>>
  PROVE  /\ PathOK(at, 2) /\ \A v : ValueOK(at, v)
         /\ \A f : at # <<f>>
         /\ \A d : Present(d, at) <=> c \in DOMAIN d.members
         /\ \A e : at = <<"members", e>> => e = c
<1>1. Len(at) = 2 /\ at[2] = c
  OBVIOUS
<1>2. \A f : Len(<<f>>) = 1
  OBVIOUS
<1>3. \A f : at # <<f>>
  BY <1>1, <1>2
<1>4. \A e : at = <<"members", e>> => e = c
  OBVIOUS
<1> QED BY <1>1, <1>3, <1>4 DEF PathOK, ValueOK, Present

RestoredTo(snap, w) ==
  /\ WorkOK(snap, w, 2) /\ OpsOK(snap, w, 2) /\ w.err = "ok"
  /\ DOMAIN w.d.members = DOMAIN snap.members
  /\ \A f \in Scalars : ~Wrote(w, <<f>>) /\ w.d[f] = snap[f]

(* What a restore has brought back of a record, for the combatants in S.   *)
Brings(snap, record, w, S) ==
  /\ w.deletes = {}
  /\ \A i \in 1..Len(w.changes) : \A c :
       w.changes[i].at = <<"members", c>> => w.changes[i].new = record.members[c]
  /\ \A c \in S : IF c \in DOMAIN snap.members
                  THEN Wrote(w, <<"members", c>>) \/ snap.members[c] = record.members[c]
                  ELSE c \in DOMAIN w.creates
  /\ \A c \in DOMAIN w.creates : w.creates[c] = record.members[c]

LEMMA BringsOn ==
  ASSUME NEW snap, NEW record, NEW w, WorkOK(snap, w, 2), NEW S, Brings(snap, record, w, S),
         NEW at, PathOK(at, 2), NEW v, ValueOK(at, v),
         \A c : at = <<"members", c>> => v = record.members[c], NEW u, u = set_engine(w, at, v)
  PROVE  Brings(snap, record, u, S)
<1>1. PICK m \in Nat : m = Len(w.changes)
  BY AppendFacts DEF WorkOK
<1>2. PICK ch : ch = [at |-> at, old |-> Get(w.d, at), new |-> v]
  OBVIOUS
<1>3. u.changes = Append(w.changes, ch) /\ u.creates = w.creates /\ u.deletes = w.deletes
  BY <1>2 DEF set_engine, WorkOK, WorkFields
<1>4. /\ Len(u.changes) = m + 1 /\ u.changes[m + 1] = ch
      /\ \A i \in 1..m : u.changes[i] = w.changes[i]
  <2>1. IsSeq(w.changes)
    BY DEF WorkOK
  <2> QED BY <1>1, <1>3, <2>1, AppendFacts
<1>5. ASSUME NEW p, Wrote(w, p) PROVE Wrote(u, p)
  <2>1. PICK i \in 1..m : w.changes[i].at = p
    BY <1>1, <1>5 DEF Wrote
  <2>2. i \in 1..m + 1 /\ u.changes[i].at = p
    BY <1>4, <2>1
  <2> QED BY <1>4, <2>2 DEF Wrote
<1>6. ASSUME NEW i \in 1..m + 1, NEW c, u.changes[i].at = <<"members", c>>
      PROVE  u.changes[i].new = record.members[c]
  <2>1. CASE i \in 1..m
    BY <1>1, <1>4, <1>6, <2>1 DEF Brings
  <2>2. CASE i = m + 1
    <3>1. ch.at = at /\ ch.new = v
      BY <1>2
    <3>2. u.changes[i] = ch
      BY <1>4, <2>2
    <3> QED BY <1>6, <3>1, <3>2
  <2>3. i \in 1..m \/ i = m + 1
    OBVIOUS
  <2> QED BY <2>1, <2>2, <2>3
<1> QED BY <1>3, <1>4, <1>5, <1>6 DEF Brings

LEMMA BringsScalar ==
  ASSUME NEW snap, NEW record, NEW w, WorkOK(snap, w, 2), NEW S, Brings(snap, record, w, S),
         NEW f \in Scalars, NEW v, ValueOK(<<f>>, v), NEW u, u = set_engine(w, <<f>>, v)
  PROVE  Brings(snap, record, u, S)
<1>1. PICK at : at = <<f>>
  OBVIOUS
<1>2. PathOK(at, 2) /\ ValueOK(at, v) /\ Len(at) = 1
  BY <1>1 DEF PathOK
<1>3. ASSUME NEW c, at = <<"members", c>> PROVE FALSE
  <2>1. Len(at) = 2
    BY <1>3
  <2> QED BY <1>2, <2>1
<1> QED BY <1>1, <1>2, <1>3, BringsOn

LEMMA BringsStep ==
  ASSUME NEW snap, NEW w, RestoredTo(snap, w), NEW record, NEW c \in Combatants,
         ~Wrote(w, <<"members", c>>), NEW u, u = RestoreWrite(record, w, c),
         NEW S, Brings(snap, record, w, S)
  PROVE  Brings(snap, record, u, S \cup {c})
<1>1. CASE c \in DOMAIN w.d.members
  <2>1. PICK at : at = <<"members", c>>
    OBVIOUS
  <2>2. /\ PathOK(at, 2) /\ \A v : ValueOK(at, v)
        /\ Present(w.d, at)
        /\ \A e : at = <<"members", e>> => e = c
    BY <1>1, <2>1, MemberPath
  <2>3. PICK v : v = record.members[c]
    OBVIOUS
  <2>4. /\ u = set_engine(w, at, v) \/ (u = w /\ Get(w.d, at) = v)
        /\ WorkOK(snap, w, 2) /\ ~Wrote(w, at) /\ c \in DOMAIN snap.members
    BY <1>1, <2>1, <2>3 DEF RestoreWrite, SetIfNew, RestoredTo
  <2>5. Brings(snap, record, u, S)
    BY <2>2, <2>3, <2>4, BringsOn
  <2>6. Wrote(u, at) \/ snap.members[c] = record.members[c]
    <3>1. CASE u = set_engine(w, at, v)
      <4>1. 2 \in {2, 3} /\ ValueOK(at, v)
        BY <2>2
      <4> QED BY <2>2, <2>4, <3>1, <4>1, SetEngine
    <3>2. CASE u = w /\ Get(w.d, at) = v
      <4>1. Get(snap, at) = v
        BY <2>2, <2>4, <3>2 DEF WorkOK
      <4>2. Len(at) = 2 /\ at[2] = c
        BY <2>1
      <4> QED BY <2>3, <4>1, <4>2 DEF Get
    <3> QED BY <2>4, <3>1, <3>2
  <2> QED BY <2>1, <2>4, <2>5, <2>6 DEF Brings
<1>2. CASE c \notin DOMAIN w.d.members
  <2>1. PICK new : new = Over([e \in {c} |-> record.members[e]], w.creates)
    OBVIOUS
  <2>2. /\ DOMAIN new = {c} \cup DOMAIN w.creates
        /\ \A e \in DOMAIN new : new[e] = IF e = c THEN record.members[e] ELSE w.creates[e]
    BY <2>1 DEF Over
  <2>3. u = [w EXCEPT !.creates = new]
    BY <1>2, <2>1 DEF RestoreWrite
  <2>4. u.changes = w.changes /\ u.deletes = w.deletes /\ u.creates = new
    BY <2>3 DEF RestoredTo, WorkOK, WorkFields
  <2>5. c \notin DOMAIN snap.members /\ \A p : Wrote(u, p) <=> Wrote(w, p)
    BY <1>2, <2>4 DEF RestoredTo, Wrote
  <2> QED BY <2>2, <2>4, <2>5 DEF Brings
<1> QED BY <1>1, <1>2

LEMMA RestoreStep ==
  ASSUME NEW snap, NEW w, RestoredTo(snap, w), NEW record, NEW c \in Combatants,
         ~Wrote(w, <<"members", c>>), NEW u, u = RestoreWrite(record, w, c)
  PROVE  /\ RestoredTo(snap, u)
         /\ \A p : Wrote(u, p) => Wrote(w, p) \/ p = <<"members", c>>
<1>1. CASE c \in DOMAIN w.d.members
  <2>1. PICK at : at = <<"members", c>>
    OBVIOUS
  <2>2. /\ PathOK(at, 2) /\ \A v : ValueOK(at, v)
        /\ \A f : at # <<f>>
        /\ Present(w.d, at)
    BY <1>1, <2>1, MemberPath
  <2>3. PICK v : v = record.members[c]
    OBVIOUS
  <2>4. u = w \/ u = set_engine(w, at, v)
    BY <1>1, <2>1, <2>3 DEF RestoreWrite, SetIfNew
  <2>5. CASE u = set_engine(w, at, v)
    <3>1. WorkOK(snap, w, 2) /\ OpsOK(snap, w, 2) /\ ~Wrote(w, at)
      BY <2>1 DEF RestoredTo
    <3>2. 2 \in {2, 3} /\ ValueOK(at, v)
      BY <2>2
    <3>3. /\ WorkOK(snap, u, 2) /\ OpsOK(snap, u, 2)
          /\ \A p : Wrote(u, p) <=> Wrote(w, p) \/ p = at
          /\ \A f \in Scalars : u.d[f] = IF at = <<f>> THEN v ELSE w.d[f]
          /\ DOMAIN u.d.members = DOMAIN w.d.members
          /\ u.err = w.err
      BY <2>2, <2>5, <3>1, <3>2, FreshSet
    <3> QED BY <2>1, <2>2, <3>3 DEF RestoredTo
  <2> QED BY <2>4, <2>5
<1>2. CASE c \notin DOMAIN w.d.members
  <2>1. PICK new : new = Over([e \in {c} |-> record.members[e]], w.creates)
    OBVIOUS
  <2>2. DOMAIN new = {c} \cup DOMAIN w.creates
    BY <2>1 DEF Over
  <2>3. u = [w EXCEPT !.creates = new]
    BY <1>2, <2>1 DEF RestoreWrite
  <2>4. /\ DOMAIN u = WorkFields /\ u.d = w.d /\ u.changes = w.changes /\ u.err = w.err
        /\ u.deletes = w.deletes /\ u.creates = new
    BY <2>3 DEF RestoredTo, WorkOK, WorkFields
  <2>5. \A p : Wrote(u, p) <=> Wrote(w, p)
    BY <2>4 DEF Wrote
  <2>6. WorkOK(snap, u, 2)
    BY <2>2, <2>4, <2>5 DEF RestoredTo, WorkOK
  <2>7. DOMAIN new \subseteq Combatants \ DOMAIN snap.members
    BY <1>2, <2>2 DEF RestoredTo, OpsOK
  <2>8. OpsOK(snap, u, 2)
    BY <2>4, <2>7 DEF RestoredTo, OpsOK
  <2> QED BY <2>4, <2>5, <2>6, <2>8 DEF RestoredTo
<1> QED BY <1>1, <1>2

LEMMA Restored ==
  ASSUME NEW snap, DocsOK(snap), NEW w, w = Begin(snap),
         NEW record, DOMAIN record.members \subseteq Combatants, NEW u, u = restore(w, record)
  PROVE  RestoredTo(snap, u) /\ Brings(snap, record, u, DOMAIN record.members)
<1>1. PICK S : S = DOMAIN record.members /\ S \subseteq Combatants
  OBVIOUS
<1>2. PICK n \in Nat : /\ SetToSeq(S) \in [1..n -> S]
                       /\ \A i \in 1..n, j \in 1..n : SetToSeq(S)[i] = SetToSeq(S)[j] => i = j
                       /\ \A x \in S : \E i \in 1..n : SetToSeq(S)[i] = x
  <2>1. IsFiniteSet(S)
    BY <1>1, ClockConstants, FS_Subset
  <2> QED BY <2>1, SetSeq
<1>3. PICK seq : seq = SetToSeq(S)
  OBVIOUS
<1>4. PICK a : /\ a[0] = w /\ a[n] = RestoreAll(record, w, seq)
               /\ \A k \in Nat : k + 1 <= n => a[k + 1] = RestoreWrite(record, a[k], seq[k + 1])
  <2>1. DOMAIN seq = 1..n /\ n \in Nat
    BY <1>2, <1>3
  <2>2. PICK out : out = RestoreAll(record, w, seq)
    OBVIOUS
  <2> QED BY ONLY <2>1, <2>2, RestoreChain
<1>5. a[n] = u
  BY <1>1, <1>3, <1>4, Restores
<1> DEFINE Good(v, k) == /\ RestoredTo(snap, v)
                         /\ \A p : Wrote(v, p) => \E j \in 1..k : p = <<"members", seq[j]>>
                         /\ Brings(snap, record, v, {seq[j] : j \in 1..k})
<1>6. Good(w, 0)
  <2>1. RestoredTo(snap, w) /\ \A p : ~Wrote(w, p)
    BY Begun DEF RestoredTo
  <2>2. w.deletes = {} /\ DOMAIN w.creates = {} /\ w.changes = <<>>
    BY DEF Begin
  <2>3. Brings(snap, record, w, {})
    BY <2>2 DEF Brings
  <2>4. {seq[j] : j \in 1..0} = {}
    OBVIOUS
  <2> QED BY <2>1, <2>3, <2>4
<1>7. ASSUME NEW k \in Nat, k + 1 <= n, NEW v, Good(v, k), NEW t, t = RestoreWrite(record, v, seq[k + 1])
      PROVE  Good(t, k + 1)
  <2>1. PICK c : c = seq[k + 1] /\ c \in Combatants
    BY <1>1, <1>2, <1>3, <1>7
  <2>2. ~Wrote(v, <<"members", c>>)
    <3>1. SUFFICES ASSUME NEW j \in 1..k, <<"members", c>> = <<"members", seq[j]>> PROVE FALSE
      BY <1>7
    <3>2. seq[j] = c
      BY <3>1
    <3>3. j \in 1..n /\ k + 1 \in 1..n /\ j # k + 1
      BY <1>7
    <3> QED BY <1>2, <1>3, <2>1, <3>2, <3>3
  <2>3. /\ RestoredTo(snap, t)
        /\ \A p : Wrote(t, p) => Wrote(v, p) \/ p = <<"members", c>>
    BY <1>7, <2>1, <2>2, RestoreStep
  <2>4. k + 1 \in 1..k + 1 /\ \A j \in 1..k + 1 : j \in 1..k \/ j = k + 1
    OBVIOUS
  <2>5. \A j \in 1..k : j \in 1..k + 1
    OBVIOUS
  <2>6. PICK X, Y : X = {seq[j] : j \in 1..k} /\ Y = {seq[j] : j \in 1..k + 1}
    OBVIOUS
  <2>7. Y = X \cup {c}
    BY <2>1, <2>4, <2>5, <2>6
  <2>8. Brings(snap, record, v, X)
    BY <1>7, <2>6
  <2>9. Brings(snap, record, t, Y)
    BY <1>7, <2>1, <2>2, <2>7, <2>8, BringsStep
  <2> QED BY <1>7, <2>1, <2>3, <2>4, <2>5, <2>6, <2>9
<1> HIDE DEF Good
<1>8. PICK T : T = {k \in Nat : k <= n => Good(a[k], k)}
  OBVIOUS
<1>9. 0 \in T
  BY <1>4, <1>6, <1>8
<1>10. ASSUME NEW k \in Nat, k \in T PROVE k + 1 \in T
  <2>1. SUFFICES ASSUME k + 1 <= n PROVE Good(a[k + 1], k + 1)
    BY <1>8
  <2>2. Good(a[k], k)
    BY <1>8, <1>10, <2>1
  <2> QED BY <1>4, <1>7, <2>1, <2>2
<1>11. n \in T
  BY <1>9, <1>10, NatInd
<1>12. S = {seq[j] : j \in 1..n}
  BY <1>2, <1>3
<1> QED BY <1>1, <1>5, <1>8, <1>11, <1>12 DEF Good

-----------------------------------------------------------------------------
(* Back and forth in the history.                                          *)

LEMMA WentTo ==
  ASSUME NEW snap, NEW w, RestoredTo(snap, w), NEW record, NEW order, IsSeq(order),
         NEW history, HistoryOK(history), history.cursor # 0,
         history.records[history.cursor] = record, NEW u, u = GoTo(w, record, order, history)
  PROVE  /\ OpsOK(snap, u, 2) /\ u.err = "ok" /\ Recorded(u) /\ Wrote(u, <<"round">>)
         /\ u.d["history"] = history
         /\ \A S : Brings(snap, record, w, S) => Brings(snap, record, u, S)
<1>1. PICK a : a = set_engine(w, <<"round">>, record.round)
  OBVIOUS
<1>2. PICK b : b = set_engine(a, <<"turn">>, record.turn)
  OBVIOUS
<1>3. PICK c : c = SetIfNew(b, <<"order">>, order)
  OBVIOUS
<1>4. u = set_engine(c, <<"history">>, history)
  BY <1>1, <1>2, <1>3 DEF GoTo
<1>5. /\ {"round", "turn", "order", "history"} \subseteq Scalars /\ 2 \in {2, 3}
      /\ ValueOK(<<"round">>, record.round) /\ ValueOK(<<"turn">>, record.turn)
      /\ ValueOK(<<"order">>, order) /\ ValueOK(<<"history">>, history)
  BY DEF Scalars, ValueOK
<1>6. /\ WorkOK(snap, w, 2) /\ OpsOK(snap, w, 2) /\ w.err = "ok"
      /\ ~Wrote(w, <<"round">>) /\ ~Wrote(w, <<"turn">>) /\ ~Wrote(w, <<"order">>)
      /\ ~Wrote(w, <<"history">>)
  BY <1>5 DEF RestoredTo
<1>7. /\ WorkOK(snap, a, 2) /\ OpsOK(snap, a, 2) /\ a.err = "ok"
      /\ \A p : Wrote(a, p) <=> Wrote(w, p) \/ p = <<"round">>
      /\ a.d["round"] = record.round
  BY <1>1, <1>5, <1>6, FreshScalar
<1>8. /\ WorkOK(snap, b, 2) /\ OpsOK(snap, b, 2) /\ b.err = "ok"
      /\ \A p : Wrote(b, p) <=> Wrote(a, p) \/ p = <<"turn">>
      /\ b.d["round"] = a.d["round"] /\ b.d["turn"] = record.turn
  <2>1. ~Wrote(a, <<"turn">>)
    BY <1>6, <1>7
  <2> QED BY <1>2, <1>5, <1>7, <2>1, FreshScalar
<1>9. /\ WorkOK(snap, c, 2) /\ OpsOK(snap, c, 2) /\ c.err = "ok"
      /\ \A p : Wrote(c, p) => Wrote(b, p) \/ p = <<"order">>
      /\ \A p : Wrote(b, p) => Wrote(c, p)
      /\ c.d["round"] = b.d["round"] /\ c.d["turn"] = b.d["turn"]
  <2>1. ~Wrote(b, <<"order">>)
    BY <1>6, <1>7, <1>8
  <2>2. CASE c = set_engine(b, <<"order">>, order)
    BY <1>5, <1>8, <2>1, <2>2, FreshScalar
  <2>3. CASE c = b
    BY <1>8, <2>3
  <2> QED BY <1>3, <2>2, <2>3 DEF SetIfNew
<1>10. /\ OpsOK(snap, u, 2) /\ u.err = "ok"
       /\ \A p : Wrote(u, p) <=> Wrote(c, p) \/ p = <<"history">>
       /\ u.d["round"] = c.d["round"] /\ u.d["turn"] = c.d["turn"] /\ u.d["history"] = history
  <2>1. ~Wrote(c, <<"history">>)
    BY <1>6, <1>7, <1>8, <1>9
  <2> QED BY <1>4, <1>5, <1>9, <2>1, FreshScalar
<1>11. Wrote(u, <<"round">>) /\ Wrote(u, <<"turn">>) /\ Wrote(u, <<"history">>)
  BY <1>7, <1>8, <1>9, <1>10
<1>12. ASSUME NEW S, Brings(snap, record, w, S) PROVE Brings(snap, record, u, S)
  <2>1. Brings(snap, record, a, S)
    BY <1>1, <1>5, <1>6, <1>12, BringsScalar
  <2>2. Brings(snap, record, b, S)
    BY <1>2, <1>5, <1>7, <2>1, BringsScalar
  <2>3. Brings(snap, record, c, S)
    BY <1>3, <1>5, <1>8, <2>2, BringsScalar DEF SetIfNew
  <2> QED BY <1>4, <1>5, <1>9, <2>3, BringsScalar
<1> QED BY <1>7, <1>8, <1>9, <1>10, <1>11, <1>12 DEF Recorded

LEMMA BegunRestored ==
  ASSUME NEW snap, DocsOK(snap), NEW w, w = Begin(snap)
  PROVE  RestoredTo(snap, w)
BY Begun DEF RestoredTo

LEMMA ResultingSeq ==
  ASSUME NEW snap, DocsOK(snap), NEW record, DOMAIN record.members \subseteq Combatants
  PROVE  IsSeq(rebuild_order(resulting_combatants(snap, record), snap.order))
<1>1. PICK members : members = resulting_combatants(snap, record)
  OBVIOUS
<1>2. DOMAIN members = DOMAIN record.members \cup DOMAIN snap.members
  BY <1>1 DEF resulting_combatants, Over
<1>3. DOMAIN members \subseteq Combatants /\ IsSeq(snap.order)
  BY <1>2 DEF DocsOK
<1> QED BY <1>1, <1>3, RebuiltSeq

(* The documents go to a boundary with everyone its record has captured.   *)
BringsBack(snap, u) ==
  LET record == u.d.history.records[u.d.history.cursor]
  IN OpsOK(snap, u, 2) /\ Wrote(u, <<"history">>) /\ Brings(snap, record, u, DOMAIN record.members)

(* A redo and a rewind write round, turn and history, and stand at a       *)
(* boundary.                                                               *)
LEMMA Redone ==
  ASSUME NEW snap, DocsOK(snap), CanFastForward(snap), NEW u, u = fast_forward(snap)
  PROVE  /\ OpsOK(snap, u, 2) /\ u.err = "ok" /\ Recorded(u) /\ Wrote(u, <<"round">>)
         /\ BringsBack(snap, u)
<1>1. PICK h : h = snap.history
  OBVIOUS
<1>2. HistoryOK(h) /\ h.cursor \in 1..Len(h.records) - 1
  BY <1>1 DEF DocsOK, CanFastForward
<1>3. PICK l \in Nat : l = Len(h.records)
  BY <1>2, AppendFacts DEF HistoryOK
<1>4. PICK c \in Nat : c = h.cursor /\ c \in 1..l - 1
  BY <1>2, <1>3
<1>5. PICK next : next = h.records[c + 1]
  OBVIOUS
<1>6. DOMAIN next.members \subseteq Combatants
  BY <1>2, <1>3, <1>4, <1>5 DEF HistoryOK
<1>7. PICK forth : forth = [h EXCEPT !.cursor = @ + 1]
  OBVIOUS
<1>8. /\ DOMAIN forth = {"records", "cursor"} /\ forth.records = h.records /\ forth.cursor = c + 1
  BY <1>2, <1>4, <1>7 DEF HistoryOK
<1>9. HistoryOK(forth) /\ forth.cursor # 0 /\ forth.records[forth.cursor] = next
  BY <1>2, <1>3, <1>4, <1>5, <1>8 DEF HistoryOK
<1>10. PICK order : order = rebuild_order(resulting_combatants(snap, next), snap.order) /\ IsSeq(order)
  BY <1>6, ResultingSeq
<1>11. PICK w : /\ w = restore(Begin(snap), next) /\ RestoredTo(snap, w)
                /\ Brings(snap, next, w, DOMAIN next.members)
  BY <1>6, Restored
<1>12. u = GoTo(w, next, order, forth)
  BY <1>1, <1>4, <1>5, <1>7, <1>10, <1>11 DEF fast_forward
<1>13. /\ OpsOK(snap, u, 2) /\ u.err = "ok" /\ Recorded(u) /\ Wrote(u, <<"round">>)
       /\ u.d["history"] = forth
       /\ Brings(snap, next, u, DOMAIN next.members)
  BY <1>9, <1>10, <1>11, <1>12, WentTo
<1>14. BringsBack(snap, u)
  BY <1>9, <1>13 DEF BringsBack, Recorded
<1> QED BY <1>13, <1>14

LEMMA Rewound ==
  ASSUME NEW snap, DocsOK(snap), NEW u, u = rewind(snap), u.err = "ok"
  PROVE  /\ OpsOK(snap, u, 2) /\ Recorded(u) /\ Wrote(u, <<"round">>)
         /\ rules.rewind_restore => BringsBack(snap, u)
<1>1. PICK h : h = snap.history
  OBVIOUS
<1>2. HistoryOK(h)
  BY <1>1 DEF DocsOK
<1>3. PICK l \in Nat : l = Len(h.records)
  BY <1>2, AppendFacts DEF HistoryOK
<1>4. PICK c \in 0..l : c = h.cursor
  BY <1>2, <1>3 DEF HistoryOK
<1>5. PICK target : target = h.records[c - 1]
  OBVIOUS
<1>6. PICK order : order = IF rules.rewind_restore
                     THEN rebuild_order(resulting_combatants(snap, target), snap.order) ELSE snap.order
  OBVIOUS
<1>7. PICK back : back = [records |-> IF rules.forward_restore THEN h.records ELSE SubSeq(h.records, 1, c - 1),
                          cursor |-> c - 1]
  OBVIOUS
<1>8. PICK from : from = IF rules.rewind_restore THEN restore(Begin(snap), target) ELSE Begin(snap)
  OBVIOUS
<1>9. u = IF c < 2 THEN Fail(Begin(snap), "unrewindable")
          ELSE IF ~Valid(target.turn, order) THEN Fail(Begin(snap), "unreachable")
          ELSE GoTo(from, target, order, back)
  BY <1>1, <1>4, <1>5, <1>6, <1>7, <1>8 DEF rewind
<1>10. \A why : Fail(Begin(snap), why).err = why
  BY DEF Fail, Begin
<1>11. c >= 2 /\ u = GoTo(from, target, order, back)
  BY <1>4, <1>9, <1>10
<1>12. DOMAIN target.members \subseteq Combatants
  BY <1>2, <1>3, <1>4, <1>5, <1>11 DEF HistoryOK
<1>13. IsSeq(order)
  BY <1>6, <1>12, ResultingSeq DEF DocsOK
<1>14. /\ RestoredTo(snap, from)
       /\ rules.rewind_restore => Brings(snap, target, from, DOMAIN target.members)
  BY <1>8, <1>12, Restored, BegunRestored
<1>15. /\ HistoryOK(back) /\ back.cursor # 0 /\ back.records[back.cursor] = target
  <2>1. PICK past : past = SubSeq(h.records, 1, c - 1)
    OBVIOUS
  <2>2. /\ IsSeq(past) /\ Len(past) = c - 1
        /\ \A k \in 1..c - 1 : past[k] = h.records[k]
    <3>1. IsSeq(h.records) /\ c - 1 \in 0..Len(h.records)
      BY <1>2, <1>3, <1>4, <1>11 DEF HistoryOK
    <3> QED BY <2>1, <3>1, PrefixFacts
  <2>3. \A k \in 1..l : DOMAIN h.records[k].members \subseteq Combatants
    BY <1>2, <1>3 DEF HistoryOK
  <2>4. c - 1 \in 1..l /\ \A k \in 1..c - 1 : k \in 1..l
    BY <1>4, <1>11
  <2>5. CASE rules.forward_restore
    <3>1. back.records = h.records /\ back.cursor = c - 1 /\ DOMAIN back = {"records", "cursor"}
      BY <1>7, <2>5
    <3> QED BY <1>2, <1>3, <1>5, <2>3, <2>4, <3>1 DEF HistoryOK
  <2>6. CASE ~rules.forward_restore
    <3>1. back.records = past /\ back.cursor = c - 1 /\ DOMAIN back = {"records", "cursor"}
      BY <1>7, <2>1, <2>6
    <3>2. \A k \in 1..Len(past) : DOMAIN past[k].members \subseteq Combatants
      BY <2>2, <2>3, <2>4
    <3>3. c - 1 \in 0..Len(past) /\ c - 1 # 0 /\ past[c - 1] = target
      BY <1>4, <1>5, <1>11, <2>2, <2>4
    <3> QED BY <2>2, <3>1, <3>2, <3>3 DEF HistoryOK
  <2> QED BY <2>5, <2>6
<1>16. /\ OpsOK(snap, u, 2) /\ Recorded(u) /\ Wrote(u, <<"round">>)
       /\ u.d["history"] = back
       /\ rules.rewind_restore => Brings(snap, target, u, DOMAIN target.members)
  BY <1>11, <1>13, <1>14, <1>15, WentTo
<1>17. rules.rewind_restore => BringsBack(snap, u)
  BY <1>15, <1>16 DEF BringsBack, Recorded
<1> QED BY <1>16, <1>17

-----------------------------------------------------------------------------
(* The other transitions leave the clock as it is.                         *)

Steady(snap, w) ==
  /\ \A f \in Clock : ~Wrote(w, <<f>>)
  /\ Wrote(w, <<"active">>) /\ w.d.active => snap.turn # Nobody

LEMMA Begins ==
  ASSUME NEW snap, DocsOK(snap), NEW w, w = Begin(snap), NEW n \in {2, 3}
  PROVE  OpsOK(snap, w, n) /\ Steady(snap, w)
BY Begun DEF Steady

LEMMA Paused ==
  ASSUME NEW snap, DocsOK(snap), NEW u, u = pause(snap), u.err = "ok"
  PROVE  OpsOK(snap, u, 2) /\ Steady(snap, u)
<1>1. PICK w : w = Begin(snap)
  OBVIOUS
<1> PICK no : no = FALSE
  OBVIOUS
<1>2. u = set_engine(w, <<"active">>, no)
  BY <1>1 DEF pause, Fail, Begin
<1>3. 2 \in {2, 3} /\ "active" \in Scalars /\ ValueOK(<<"active">>, no)
  BY DEF Scalars, ValueOK
<1>4. WorkOK(snap, w, 2) /\ OpsOK(snap, w, 2) /\ \A p : ~Wrote(w, p)
  BY <1>1, <1>3, Begun
<1>5. /\ OpsOK(snap, u, 2) /\ u.d["active"] = no
      /\ \A p : Wrote(u, p) <=> Wrote(w, p) \/ p = <<"active">>
  BY <1>2, <1>3, <1>4, FreshScalar
<1>6. \A f \in Clock : <<f>> # <<"active">>
  BY DEF Clock
<1> QED BY <1>4, <1>5, <1>6 DEF Steady

LEMMA Sorted ==
  ASSUME NEW snap, DocsOK(snap), NEW u, u = sort(snap)
  PROVE  OpsOK(snap, u, 2) /\ Steady(snap, u)
<1>1. PICK w : w = Begin(snap)
  OBVIOUS
<1>2. PICK order : order = rebuild_order(snap.members, snap.order) /\ IsSeq(order)
  BY RebuiltSeq DEF DocsOK
<1>3. u = w \/ u = set_engine(w, <<"order">>, order)
  BY <1>1, <1>2 DEF sort, SetIfNew
<1>4. 2 \in {2, 3} /\ "order" \in Scalars /\ ValueOK(<<"order">>, order)
  BY <1>2 DEF Scalars, ValueOK
<1>5. WorkOK(snap, w, 2) /\ OpsOK(snap, w, 2) /\ \A p : ~Wrote(w, p)
  BY <1>1, <1>4, Begun
<1>6. /\ OpsOK(snap, u, 2)
      /\ \A p : Wrote(u, p) => p = <<"order">>
  BY <1>3, <1>4, <1>5, FreshScalar
<1>7. \A f \in Clock \cup {"active"} : <<f>> # <<"order">>
  BY DEF Clock
<1> QED BY <1>6, <1>7 DEF Steady

LEMMA MemberField ==
  ASSUME NEW snap, DocsOK(snap), NEW w, w = Begin(snap), NEW c \in DOMAIN snap.members,
         NEW f, NEW v, NEW u, u = set_engine(w, <<"members", c, f>>, v)
  PROVE  /\ WorkOK(snap, u, 3) /\ OpsOK(snap, u, 3) /\ u.err = "ok"
         /\ \A g \in Scalars : ~Wrote(u, <<g>>)
         /\ DOMAIN u.d.members = DOMAIN snap.members
<1>1. PICK at : at = <<"members", c, f>>
  OBVIOUS
<1>2. Len(at) = 3 /\ at[2] = c
  BY <1>1
<1>3. \A g : at # <<g>>
  <2>1. \A g : Len(<<g>>) = 1
    OBVIOUS
  <2> QED BY <1>2, <2>1
<1>4. 3 \in {2, 3} /\ PathOK(at, 3) /\ ValueOK(at, v) /\ Present(snap, at)
  BY <1>1, <1>2, <1>3 DEF PathOK, ValueOK, Present
<1>5. WorkOK(snap, w, 3) /\ OpsOK(snap, w, 3) /\ (\A p : ~Wrote(w, p)) /\ w.d = snap /\ w.err = "ok"
  BY <1>4, Begun
<1>6. Present(w.d, at)
  BY <1>4, <1>5
<1>7. /\ WorkOK(snap, u, 3) /\ OpsOK(snap, u, 3) /\ u.err = "ok"
      /\ \A p : Wrote(u, p) <=> Wrote(w, p) \/ p = at
      /\ DOMAIN u.d.members = DOMAIN w.d.members
  BY <1>1, <1>4, <1>5, <1>6, FreshSet
<1> QED BY <1>3, <1>5, <1>7

LEMMA Spent ==
  ASSUME NEW snap, DocsOK(snap), NEW c, NEW delta, NEW u, u = resource(snap, c, delta), u.err = "ok"
  PROVE  OpsOK(snap, u, 3) /\ Steady(snap, u)
<1>1. PICK w : w = Begin(snap)
  OBVIOUS
<1>2. c \in DOMAIN snap.members /\ \E v : u = set_engine(w, <<"members", c, "res">>, v)
  BY <1>1 DEF resource, Fail, Begin
<1>3. OpsOK(snap, u, 3) /\ \A g \in Scalars : ~Wrote(u, <<g>>)
  BY <1>1, <1>2, MemberField
<1> QED BY <1>3 DEF Steady, Clock, Scalars

LEMMA Rolled ==
  ASSUME NEW snap, DocsOK(snap), NEW c, NEW init, NEW u, u = roll(snap, c, init), u.err = "ok"
  PROVE  OpsOK(snap, u, 3) /\ Steady(snap, u)
<1>1. PICK b : b = Begin(snap)
  OBVIOUS
<1>2. PICK w : w = set_engine(b, <<"members", c, "init">>, init)
  OBVIOUS
<1>3. PICK order : order = rebuild_order(w.d.members, snap.order)
  OBVIOUS
<1>4. c \in DOMAIN snap.members /\ u = set_engine(w, <<"order">>, order)
  BY <1>1, <1>2, <1>3 DEF roll, Fail, Begin
<1>5. /\ WorkOK(snap, w, 3) /\ OpsOK(snap, w, 3) /\ w.err = "ok"
      /\ \A g \in Scalars : ~Wrote(w, <<g>>)
      /\ DOMAIN w.d.members = DOMAIN snap.members
  BY <1>1, <1>2, <1>4, MemberField
<1>6. IsSeq(order)
  BY <1>3, <1>5, RebuiltSeq DEF DocsOK
<1>7. 3 \in {2, 3} /\ "order" \in Scalars /\ ValueOK(<<"order">>, order)
  BY <1>6 DEF Scalars, ValueOK
<1>8. /\ OpsOK(snap, u, 3)
      /\ \A p : Wrote(u, p) <=> Wrote(w, p) \/ p = <<"order">>
  BY <1>4, <1>5, <1>7, FreshScalar
<1>9. \A f \in Clock \cup {"active"} : <<f>> # <<"order">> /\ f \in Scalars
  BY DEF Clock, Scalars
<1> QED BY <1>5, <1>8, <1>9 DEF Steady

-----------------------------------------------------------------------------
(* advance, when it walks.                                                 *)

LEMMA Healed ==
  ASSUME NEW snap, DocsOK(snap), NEW u, u = heal_order(Begin(snap))
  PROVE  /\ WorkOK(snap, u, 3) /\ u.err = "ok" /\ DOMAIN u.creates = {}
         /\ u.d.turn = snap.turn /\ \A f \in Clock \cup {"active"} : ~Wrote(u, <<f>>)
<1>1. PICK w : w = Begin(snap)
  OBVIOUS
<1>2. PICK order : order = drop_departed(w.d)
  OBVIOUS
<1>3. 3 \in {2, 3} /\ "order" \in Scalars /\ "turn" \in Fields /\ "turn" # "order"
  BY DEF Scalars, Fields
<1>4. /\ WorkOK(snap, w, 3) /\ (\A p : ~Wrote(w, p)) /\ w.d = snap
      /\ DOMAIN w.creates = {} /\ w.err = "ok"
  BY <1>1, <1>3, Begun
<1>5. ValueOK(<<"order">>, order)
  <2>1. PICK X : snap.order \in Seq(X)
    BY DEF DocsOK, IsSeq
  <2>2. order \in Seq(X)
    BY <1>2, <1>4, <2>1, KeptFacts DEF drop_departed
  <2> QED BY <2>2 DEF ValueOK, IsSeq
<1>6. u = w \/ u = set_engine(w, <<"order">>, order)
  BY <1>1, <1>2 DEF heal_order, SetIfNew
<1>7. \A f \in Clock \cup {"active"} : <<f>> # <<"order">>
  BY DEF Clock
<1>8. CASE u = w
  BY <1>4, <1>8
<1>9. CASE u = set_engine(w, <<"order">>, order)
  <2>1. /\ WorkOK(snap, u, 3) /\ (\A g \in Fields : g # "order" => u.d[g] = w.d[g])
        /\ \A p : Wrote(u, p) <=> Wrote(w, p) \/ p = <<"order">>
        /\ u.err = w.err /\ u.creates = w.creates
    BY <1>3, <1>4, <1>5, <1>9, ScalarSet
  <2>2. u.d["turn"] = snap["turn"]
    BY <1>3, <1>4, <2>1
  <2> QED BY <1>4, <1>7, <2>1, <2>2
<1> QED BY <1>6, <1>8, <1>9

Walking(snap, w) ==
  LET at == {i \in DOMAIN w.d.order : w.d.order[i] = snap.turn}
      next == advance_from(recover(w, snap.turn, "turn_end"), CHOOSE i \in at : TRUE, FALSE)
  IN IF at = {} THEN Fail(w, "not found") ELSE coalesce_updates(settle_turn(next[1], next[2]))

LEMMA Advances ==
  ASSUME NEW snap
  PROVE  advance(snap) = IF CanFastForward(snap) THEN fast_forward(snap)
                         ELSE IF ~snap.active THEN Fail(Begin(snap), "not running")
                         ELSE IF snap.order = <<>> THEN Fail(Begin(snap), "empty")
                         ELSE Walking(snap, heal_order(Begin(snap)))
BY Zenon DEF advance, Walking

LEMMA Advanced ==
  ASSUME NEW snap, DocsOK(snap), ~CanFastForward(snap), NEW u, u = advance(snap), u.err = "ok"
  PROVE  /\ OpsOK(snap, u, 3) /\ Recorded(u) /\ snap.active
         /\ ~Wrote(u, <<"round">>) => u.d.round = snap.round
<1>1. Fail(Begin(snap), "not running").err # "ok" /\ Fail(Begin(snap), "empty").err # "ok"
  BY DEF Fail, Begin
<1>3. PICK w : w = heal_order(Begin(snap))
  OBVIOUS
<1>2. snap.active /\ u = Walking(snap, w)
  <2>1. CASE ~snap.active
    <3>1. u = Fail(Begin(snap), "not running")
      BY <2>1, Advances
    <3> QED BY <1>1, <3>1
  <2>2. CASE snap.active /\ snap.order = <<>>
    <3>1. u = Fail(Begin(snap), "empty")
      BY <2>2, Advances
    <3> QED BY <1>1, <3>1
  <2>3. CASE snap.active /\ snap.order # <<>>
    BY <1>3, <2>3, Advances
  <2> QED BY <2>1, <2>2, <2>3
<1>4. WorkOK(snap, w, 3) /\ w.err = "ok" /\ DOMAIN w.creates = {}
  BY <1>3, Healed
<1>5. PICK at : at = {i \in DOMAIN w.d.order : w.d.order[i] = snap.turn}
  OBVIOUS
<1>6. Fail(w, "not found").err # "ok"
  BY <1>4 DEF Fail, WorkOK, WorkFields
<1>7. PICK i : i = CHOOSE j \in at : TRUE
  OBVIOUS
<1>8. PICK v : v = recover(w, snap.turn, "turn_end")
  OBVIOUS
<1> PICK removed : removed = FALSE
  OBVIOUS
<1>9. PICK next : next = advance_from(v, i, removed)
  OBVIOUS
<1>10. at # {} /\ u = coalesce_updates(settle_turn(next[1], next[2]))
  <2>1. u = IF at = {} THEN Fail(w, "not found") ELSE coalesce_updates(settle_turn(next[1], next[2]))
    BY <1>2, <1>5, <1>7, <1>8, <1>9 DEF Walking
  <2>2. at # {}
    BY <1>6, <2>1
  <2> QED BY <2>1, <2>2
<1>11. i \in Nat \ {0}
  <2>1. i \in DOMAIN w.d.order
    BY <1>5, <1>7, <1>10
  <2>2. IsSeq(w.d.order)
    BY <1>4 DEF WorkOK, DocsOK
  <2> QED BY <2>1, <2>2 DEF IsSeq
<1>12. WorkOK(snap, v, 3) /\ Quiet(w, v)
  BY <1>4, <1>8, Recovered
<1>13. PICK x, j :
         /\ next = <<x, j>>
         /\ WorkOK(snap, x, 3) /\ x.err = v.err /\ x.creates = v.creates
         /\ x.d.order = v.d.order
         /\ j \in Nat \ {0}
         /\ j <= Len(v.d.order) \/ Len(v.d.order) = 0
  BY <1>9, <1>11, <1>12, AdvancedFrom
<1>14. PICK s : s = settle_turn(x, j)
  OBVIOUS
<1>15. WorkOK(snap, s, 3) /\ s.creates = x.creates /\ (s.err = "ok" => Recorded(s))
  BY <1>13, <1>14, Settled
<1>16. DOMAIN s.creates = {}
  BY <1>4, <1>12, <1>13, <1>15 DEF Quiet
<1>17. u = coalesce_updates(s)
  BY <1>10, <1>13, <1>14
<1>18. /\ OpsOK(snap, u, 3) /\ u.d = s.d /\ u.err = s.err
       /\ \A f \in Scalars : Wrote(u, <<f>>) <=> Wrote(s, <<f>>)
  BY <1>15, <1>16, <1>17, Coalesced
<1>19. Recorded(u)
  BY <1>15, <1>18 DEF Recorded, Scalars
<1>20. ASSUME ~Wrote(u, <<"round">>) PROVE u.d.round = snap.round
  <2>1. PICK p : p = <<"round">>
    OBVIOUS
  <2>2. PathOK(p, 3) /\ Present(s.d, p) /\ ~Wrote(s, p)
    BY <1>18, <1>20, <2>1 DEF PathOK, Present, Scalars
  <2>3. Get(s.d, p) = Get(snap, p)
    BY <1>15, <2>2 DEF WorkOK
  <2>4. s.d["round"] = snap["round"]
    BY <2>1, <2>3 DEF Get
  <2> QED BY <1>18, <2>4
<1> QED BY <1>2, <1>18, <1>19, <1>20

-----------------------------------------------------------------------------
(* start: the other combat stops, and without a turn the walk begins.      *)

Alone(snap) ==
  IF snap.other THEN set_engine(heal_order(Begin(snap)), <<"other">>, FALSE) ELSE heal_order(Begin(snap))
Entering(w) == set_engine(set_engine(w, <<"round">>, 1), <<"turn">>, w.d.order[1])
Opened(w) == settle_turn(Everyone(Entering(w), FALSE), 1)
Ready(w) ==
  IF w.d.turn # Nobody THEN w ELSE IF w.d.order = <<>> THEN Fail(w, "empty") ELSE Opened(w)

LEMMA Starts ==
  ASSUME NEW snap
  PROVE  start(snap) = coalesce_updates(set_engine(Ready(Alone(snap)), <<"active">>, TRUE))
BY Zenon DEF start, Ready, Alone, Opened, Entering

LEMMA AloneFacts ==
  ASSUME NEW snap, DocsOK(snap), NEW u, u = Alone(snap)
  PROVE  /\ WorkOK(snap, u, 3) /\ u.err = "ok" /\ DOMAIN u.creates = {}
         /\ u.d.turn = snap.turn /\ \A f \in Clock \cup {"active"} : ~Wrote(u, <<f>>)
<1>1. PICK w : w = heal_order(Begin(snap))
  OBVIOUS
<1>2. /\ WorkOK(snap, w, 3) /\ w.err = "ok" /\ DOMAIN w.creates = {}
      /\ w.d.turn = snap.turn /\ \A f \in Clock \cup {"active"} : ~Wrote(w, <<f>>)
  BY <1>1, Healed
<1>3. PICK no : no = FALSE
  OBVIOUS
<1>4. CASE u = w
  BY <1>2, <1>4
<1>5. CASE u = set_engine(w, <<"other">>, no)
  <2>1. /\ 3 \in {2, 3} /\ "other" \in Scalars /\ ValueOK(<<"other">>, no)
        /\ "turn" \in Fields /\ "turn" # "other"
    BY DEF Scalars, Fields, ValueOK
  <2>2. /\ WorkOK(snap, u, 3) /\ (\A g \in Fields : g # "other" => u.d[g] = w.d[g])
        /\ \A p : Wrote(u, p) <=> Wrote(w, p) \/ p = <<"other">>
        /\ u.err = w.err /\ u.creates = w.creates
    BY <1>2, <1>5, <2>1, ScalarSet
  <2>3. u.d["turn"] = w.d["turn"]
    BY <2>1, <2>2
  <2>4. \A f \in Clock \cup {"active"} : <<f>> # <<"other">>
    BY DEF Clock
  <2> QED BY <1>2, <2>2, <2>3, <2>4
<1>6. u = w \/ u = set_engine(w, <<"other">>, no)
  BY <1>1, <1>3 DEF Alone
<1> QED BY <1>4, <1>5, <1>6

LEMMA OpenedFacts ==
  ASSUME NEW snap, NEW w, WorkOK(snap, w, 3), w.d.order # <<>>, NEW u, u = Opened(w)
  PROVE  /\ WorkOK(snap, u, 3) /\ u.creates = w.creates
         /\ u.err = "ok" => Recorded(u) /\ Wrote(u, <<"round">>)
<1>1. PICK a : a = set_engine(w, <<"round">>, 1)
  OBVIOUS
<1>2. PICK first : first = w.d.order[1]
  OBVIOUS
<1>3. PICK b : b = set_engine(a, <<"turn">>, first)
  OBVIOUS
<1>4. PICK no : no = FALSE /\ no \in BOOLEAN
  OBVIOUS
<1>5. PICK c : c = Everyone(b, no)
  OBVIOUS
<1>6. u = settle_turn(c, 1)
  BY <1>1, <1>2, <1>3, <1>4, <1>5 DEF Opened, Entering
<1>7. /\ 3 \in {2, 3} /\ "round" \in Scalars /\ "turn" \in Scalars
      /\ ValueOK(<<"round">>, 1) /\ ValueOK(<<"turn">>, first)
      /\ "order" \in Fields /\ "order" # "round" /\ "order" # "turn"
  BY DEF Scalars, Fields, ValueOK
<1>8. /\ WorkOK(snap, a, 3) /\ a.d["order"] = w.d["order"] /\ a.creates = w.creates
      /\ Wrote(a, <<"round">>)
  BY <1>1, <1>7, ScalarSet
<1>9. /\ WorkOK(snap, b, 3) /\ b.d["order"] = a.d["order"] /\ b.creates = a.creates
      /\ Wrote(b, <<"round">>)
  BY <1>3, <1>7, <1>8, ScalarSet
<1>10. WorkOK(snap, c, 3) /\ Quiet(b, c) /\ c.d.order = b.d.order
  BY <1>4, <1>5, <1>9, EveryoneFacts
<1>11. 1 <= Len(c.d.order)
  <2>1. PICK X : w.d.order \in Seq(X)
    BY DEF WorkOK, DocsOK, IsSeq
  <2>2. Len(w.d.order) \in Nat /\ Len(w.d.order) # 0
    BY <2>1
  <2>3. c.d.order = w.d.order
    BY <1>8, <1>9, <1>10
  <2> QED BY <2>2, <2>3
<1>12. Wrote(c, <<"round">>) /\ c.creates = w.creates
  BY <1>8, <1>9, <1>10, QuietRound DEF RoundKept, Quiet
<1>13. /\ WorkOK(snap, u, 3) /\ u.creates = c.creates /\ RoundKept(c, u)
       /\ u.err = "ok" => Recorded(u)
  BY <1>6, <1>10, <1>11, Settled
<1> QED BY <1>12, <1>13 DEF RoundKept

LEMMA Started ==
  ASSUME NEW snap, DocsOK(snap), NEW u, u = start(snap), u.err = "ok"
  PROVE  /\ OpsOK(snap, u, 3)
         /\ Steady(snap, u) \/ (Recorded(u) /\ Wrote(u, <<"round">>))
<1>1. PICK w : w = Alone(snap)
  OBVIOUS
<1>2. /\ WorkOK(snap, w, 3) /\ w.err = "ok" /\ DOMAIN w.creates = {}
      /\ w.d.turn = snap.turn /\ \A f \in Clock \cup {"active"} : ~Wrote(w, <<f>>)
  BY <1>1, AloneFacts
<1>3. PICK r : r = Ready(w)
  OBVIOUS
<1>4. PICK yes : yes = TRUE
  OBVIOUS
<1>5. PICK v : v = set_engine(r, <<"active">>, yes)
  OBVIOUS
<1>6. u = coalesce_updates(v)
  BY <1>1, <1>3, <1>4, <1>5, Starts
<1>7. /\ 3 \in {2, 3} /\ "active" \in Scalars /\ ValueOK(<<"active">>, yes)
      /\ "active" \notin Clock /\ \A f \in Clock : f \in Scalars /\ <<f>> # <<"active">>
  BY DEF Scalars, ValueOK, Clock
<1>8. ASSUME WorkOK(snap, r, 3), DOMAIN r.creates = {}
      PROVE  /\ OpsOK(snap, u, 3) /\ u.err = r.err /\ Quiet(r, v) /\ u.d = v.d
             /\ \A f \in Scalars : Wrote(u, <<f>>) <=> Wrote(v, <<f>>)
  <2>1. WorkOK(snap, v, 3) /\ v.err = r.err /\ v.creates = r.creates /\ Quiet(r, v)
    BY <1>5, <1>7, <1>8, ScalarSet
  <2>2. DOMAIN v.creates = {}
    BY <1>8, <2>1
  <2> QED BY <1>6, <2>1, <2>2, Coalesced
<1>9. CASE w.d.turn # Nobody
  <2>1. r = w
    BY <1>3, <1>9 DEF Ready
  <2>2. /\ OpsOK(snap, u, 3) /\ Quiet(w, v)
        /\ \A f \in Scalars : Wrote(u, <<f>>) <=> Wrote(v, <<f>>)
    BY <1>2, <1>8, <2>1
  <2>3. \A f \in Clock : ~Wrote(u, <<f>>)
    BY <1>2, <1>7, <2>2 DEF Quiet
  <2> QED BY <1>2, <1>9, <2>2, <2>3 DEF Steady
<1>10. CASE w.d.turn = Nobody /\ w.d.order = <<>>
  <2>1. r = Fail(w, "empty")
    BY <1>3, <1>10 DEF Ready
  <2>2. /\ DOMAIN r = WorkFields /\ r.err = "empty" /\ r.d = w.d /\ r.changes = w.changes
        /\ r.deletes = w.deletes /\ r.creates = w.creates
    BY <1>2, <2>1 DEF Fail, WorkOK, WorkFields
  <2>3. WorkOK(snap, r, 3)
    <3>1. \A p : Wrote(r, p) <=> Wrote(w, p)
      BY <2>2 DEF Wrote
    <3> QED BY <1>2, <2>2, <3>1 DEF WorkOK
  <2>4. u.err = "empty"
    BY <1>2, <1>8, <2>2, <2>3
  <2> QED BY <2>4
<1>11. CASE w.d.turn = Nobody /\ w.d.order # <<>>
  <2>1. r = Opened(w)
    BY <1>3, <1>11 DEF Ready
  <2>2. /\ WorkOK(snap, r, 3) /\ r.creates = w.creates
        /\ r.err = "ok" => Recorded(r) /\ Wrote(r, <<"round">>)
    BY <1>2, <1>11, <2>1, OpenedFacts
  <2>3. DOMAIN r.creates = {}
    BY <1>2, <2>2
  <2>4. /\ OpsOK(snap, u, 3) /\ u.err = r.err /\ Quiet(r, v) /\ u.d = v.d
        /\ \A f \in Scalars : Wrote(u, <<f>>) <=> Wrote(v, <<f>>)
    BY <1>8, <2>2, <2>3
  <2>5. Recorded(v) /\ Wrote(v, <<"round">>)
    BY <2>2, <2>4, RecordedQuiet, QuietRound DEF RoundKept
  <2>6. Recorded(u) /\ Wrote(u, <<"round">>)
    BY <2>4, <2>5 DEF Recorded, Scalars
  <2> QED BY <2>4, <2>6
<1> QED BY <1>9, <1>10, <1>11

-----------------------------------------------------------------------------
(* Whatever is asked: the changes fit the snapshot, and they leave the     *)
(* clock alone, or take round, turn and history to a boundary, or are a    *)
(* walk that did not wrap, which alone does not write the round.           *)

Outcome(snap, ops, kind) ==
  /\ \E n \in {2, 3} : OpsOK(snap, ops, n)
  /\ \/ kind # "advance" /\ Steady(snap, ops)
     \/ Recorded(ops) /\ Wrote(ops, <<"round">>)
     \/ /\ Recorded(ops) /\ kind = "advance" /\ ~CanFastForward(snap)
        /\ snap.active /\ ops.d.round = snap.round

LEMMA BuiltOps ==
  ASSUME NEW snap, DocsOK(snap), NEW r \in Requests, NEW ops, ops = build_ops(snap, r), ops.err = "ok"
  PROVE  Outcome(snap, ops, r.kind)
<1>1. r.kind \in {"start", "advance", "pause", "rewind", "sort", "end", "roll", "resource"}
  BY DEF Requests
<1>2. 2 \in {2, 3} /\ 3 \in {2, 3}
  OBVIOUS
<1>3. CASE r.kind = "start"
  <2>1. ops = start(snap)
    BY <1>3 DEF build_ops
  <2> QED BY <1>2, <1>3, <2>1, Started DEF Outcome
<1>4. CASE r.kind = "advance"
  <2>1. ops = advance(snap)
    BY <1>4 DEF build_ops
  <2>2. CASE CanFastForward(snap)
    <3>1. ops = fast_forward(snap)
      BY <2>1, <2>2 DEF advance
    <3> QED BY <1>2, <2>2, <3>1, Redone DEF Outcome
  <2>3. CASE ~CanFastForward(snap)
    BY <1>2, <1>4, <2>1, <2>3, Advanced DEF Outcome
  <2> QED BY <2>2, <2>3
<1>5. CASE r.kind = "pause"
  <2>1. ops = pause(snap)
    BY <1>5 DEF build_ops
  <2> QED BY <1>2, <1>5, <2>1, Paused DEF Outcome
<1>6. CASE r.kind = "rewind"
  <2>1. ops = rewind(snap)
    BY <1>6 DEF build_ops
  <2> QED BY <1>2, <2>1, Rewound DEF Outcome
<1>7. CASE r.kind = "sort"
  <2>1. ops = sort(snap)
    BY <1>7 DEF build_ops
  <2> QED BY <1>2, <1>7, <2>1, Sorted DEF Outcome
<1>8. CASE r.kind = "end"
  <2>1. ops = Begin(snap)
    BY <1>8 DEF build_ops
  <2> QED BY <1>2, <1>8, <2>1, Begins DEF Outcome
<1>9. CASE r.kind = "roll"
  <2>1. ops = roll(snap, r.c, r.init)
    BY <1>9 DEF build_ops
  <2> QED BY <1>2, <1>9, <2>1, Rolled DEF Outcome
<1>10. CASE r.kind = "resource"
  <2>1. ops = resource(snap, r.c, r.delta)
    BY <1>10 DEF build_ops
  <2> QED BY <1>2, <1>10, <2>1, Spent DEF Outcome
<1> QED BY <1>1, <1>3, <1>4, <1>5, <1>6, <1>7, <1>8, <1>9, <1>10

(* What the room stores of the changes, and what it has compared first.    *)
PutAll(d, changes) == FoldLeft(LAMBDA e, c : Put(e, c.at, c.new), d, changes)
PutMembers(put, ops) ==
  [put EXCEPT !.members = Restrict(Over(ops.creates, @), DOMAIN Over(ops.creates, @) \ ops.deletes)]

LEMMA Applies ==
  ASSUME NEW ops
  PROVE  Applied(ops) = PutMembers(PutAll(db, ops.changes), ops)
BY Zenon DEF Applied, PutAll, PutMembers

LEMMA PutChain ==
  ASSUME NEW d, NEW changes, NEW n \in Nat, DOMAIN changes = 1..n
  PROVE  \E a : /\ a[0] = d /\ a[n] = PutAll(d, changes)
                /\ \A k \in Nat : k + 1 <= n => a[k + 1] = Put(a[k], changes[k + 1].at, changes[k + 1].new)
<1> DEFINE Step(out, x) == Put(out, x.at, x.new)
           Iter(h, k) == h = [s \in SUBSET (1..k) |->
             IF s = {} THEN d ELSE Step(h[s \ {Max(s)}], changes[Max(s)])]
<1>1. PutAll(d, changes) = (CHOOSE h : Iter(h, n))[1..n]
  BY Zenon DEF PutAll, FoldLeft, MapThenFoldSet
<1> HIDE DEF Step
<1>2. ASSUME NEW k \in Nat, NEW h, Iter(h, k) PROVE \E g : Iter(g, k + 1)
  <2> DEFINE g == [s \in SUBSET (1..k + 1) |->
        IF k + 1 \in s THEN Step(h[s \ {k + 1}], changes[k + 1]) ELSE h[s]]
  <2>1. ASSUME NEW s \in SUBSET (1..k + 1)
        PROVE  g[s] = IF s = {} THEN d ELSE Step(g[s \ {Max(s)}], changes[Max(s)])
    <3>1. CASE k + 1 \in s
      <4>1. Max(s) = k + 1 /\ s # {} /\ s \ {k + 1} \in SUBSET (1..k)
        BY <3>1, UpTo
      <4>2. s \ {k + 1} \in SUBSET (1..k + 1) /\ k + 1 \notin s \ {k + 1}
        OBVIOUS
      <4>3. g[s \ {k + 1}] = h[s \ {k + 1}]
        BY <4>2
      <4> QED BY <3>1, <4>1, <4>3
    <3>2. CASE k + 1 \notin s
      <4>1. \A x \in s : x \in 1..k
        BY <3>2
      <4>2. s \in SUBSET (1..k) /\ s \ {Max(s)} \in SUBSET (1..k) /\ k + 1 \notin s \ {Max(s)}
        BY <3>2, <4>1
      <4>3. s \ {Max(s)} \in SUBSET (1..k + 1)
        OBVIOUS
      <4>4. g[s] = h[s] /\ g[s \ {Max(s)}] = h[s \ {Max(s)}]
        BY <3>2, <4>2, <4>3
      <4> QED BY <1>2, <4>2, <4>4
    <3> QED BY <3>1, <3>2
  <2>2. Iter(g, k + 1)
    BY <2>1
  <2> QED BY <2>2
<1>3. PICK it : it = (CHOOSE h : Iter(h, n)) /\ Iter(it, n)
  <2>1. Iter([s \in SUBSET (1..0) |-> d], 0)
    OBVIOUS
  <2>2. PICK T : T = {k \in Nat : \E h : Iter(h, k)}
    OBVIOUS
  <2> HIDE DEF Iter
  <2>3. 0 \in T
    BY <2>1, <2>2
  <2>4. ASSUME NEW k \in Nat, k \in T PROVE k + 1 \in T
    BY <1>2, <2>2, <2>4
  <2>5. Nat \subseteq T
    BY <2>3, <2>4, NatInd
  <2> QED BY <2>2, <2>5
<1>4. it[1..0] = d
  <2>1. 1..0 \in SUBSET (1..n) /\ 1..0 = {}
    OBVIOUS
  <2> QED BY <1>3, <2>1
<1>5. ASSUME NEW k \in Nat, k + 1 <= n PROVE it[1..k + 1] = Step(it[1..k], changes[k + 1])
  <2>1. 1..k + 1 \in SUBSET (1..n)
    BY <1>5
  <2>2. 1..k + 1 # {} /\ Max(1..k + 1) = k + 1 /\ (1..k + 1) \ {k + 1} = 1..k
    BY UpTo
  <2> QED BY <1>3, <2>1, <2>2
<1> HIDE DEF Iter
<1>6. PICK a : a = [k \in 0..n |-> it[1..k]]
  OBVIOUS
<1>7. a[0] = d /\ a[n] = PutAll(d, changes)
  BY <1>1, <1>3, <1>4, <1>6
<1>8. ASSUME NEW k \in Nat, k + 1 <= n PROVE a[k + 1] = Step(a[k], changes[k + 1])
  <2>1. k \in 0..n /\ k + 1 \in 0..n
    BY <1>8
  <2>2. a[k] = it[1..k] /\ a[k + 1] = it[1..k + 1]
    BY <1>6, <2>1
  <2> QED BY <1>5, <1>8, <2>2
<1> QED BY <1>7, <1>8 DEF Step

LEMMA AppliedFacts ==
  ASSUME NEW d, DocsOK(d), NEW snap, NEW n \in {2, 3}, NEW w, OpsOK(snap, w, n),
         NEW ops, ops.changes = w.changes, ops.creates = w.creates,
         NEW after, after = PutMembers(PutAll(d, ops.changes), ops)
  PROVE  /\ DocsOK(after)
         /\ \A f \in Scalars : after[f] = IF Wrote(w, <<f>>) THEN w.d[f] ELSE d[f]
         /\ after.exists = d.exists /\ after.away = d.away
<1>1. PICK m \in Nat : m = Len(w.changes) /\ DOMAIN w.changes = 1..m
  BY DEF OpsOK, IsSeq
<1>2. PICK put : put = PutAll(d, w.changes)
  OBVIOUS
<1>3. PICK a : /\ a[0] = d /\ a[m] = put
               /\ \A k \in Nat : k + 1 <= m =>
                    a[k + 1] = Put(a[k], w.changes[k + 1].at, w.changes[k + 1].new)
  BY <1>1, <1>2, PutChain
<1> DEFINE Good(e, k) ==
      /\ DocsOK(e) /\ e["exists"] = d["exists"] /\ e["away"] = d["away"]
      /\ \A f \in Scalars : e[f] = IF \E j \in 1..k : w.changes[j].at = <<f>> THEN w.d[f] ELSE d[f]
<1>4. Good(d, 0)
  OBVIOUS
<1>5. ASSUME NEW k \in Nat, k + 1 <= m, NEW e, Good(e, k),
             NEW t, t = Put(e, w.changes[k + 1].at, w.changes[k + 1].new)
      PROVE  Good(t, k + 1)
  <2>1. PICK c : c = w.changes[k + 1] /\ ChangeOK(snap, w.d, c, n)
    <3>1. k + 1 \in 1..Len(w.changes)
      BY <1>1, <1>5
    <3> QED BY <3>1 DEF OpsOK
  <2>2. PICK at, v : at = c.at /\ v = c.new /\ PathOK(at, n) /\ ValueOK(at, v)
    BY <2>1 DEF ChangeOK
  <2>3. /\ DocsOK(t)
        /\ at[1] \in Scalars => t[at[1]] = v
        /\ \A f \in Fields : <<f>> # at /\ (at[1] # "members" \/ f # "members") => t[f] = e[f]
    BY <1>5, <2>1, <2>2, PutDocs
  <2>4. \A j \in 1..k + 1 : j \in 1..k \/ j = k + 1
    OBVIOUS
  <2>5. k + 1 \in 1..k + 1 /\ \A j \in 1..k : j \in 1..k + 1
    OBVIOUS
  <2>6. ASSUME NEW f \in Scalars
        PROVE  t[f] = IF \E j \in 1..k + 1 : w.changes[j].at = <<f>> THEN w.d[f] ELSE d[f]
    <3>1. CASE at = <<f>>
      <4>1. at[1] = f
        BY <3>1
      <4>2. t[f] = v /\ v = w.d[f]
        BY <2>1, <2>2, <2>3, <3>1, <4>1 DEF ChangeOK
      <4>3. \E j \in 1..k + 1 : w.changes[j].at = <<f>>
        BY <2>1, <2>2, <2>5, <3>1
      <4> QED BY <4>2, <4>3
    <3>2. CASE at # <<f>>
      <4>1. f \in Fields /\ f # "members"
        BY DEF Scalars, Fields
      <4>2. t[f] = e[f]
        BY <2>3, <3>2, <4>1
      <4>3. (\E j \in 1..k + 1 : w.changes[j].at = <<f>>) <=> \E j \in 1..k : w.changes[j].at = <<f>>
        BY <2>1, <2>2, <2>4, <2>5, <3>2
      <4> QED BY <1>5, <4>2, <4>3
    <3> QED BY <3>1, <3>2
  <2>7. t["exists"] = e["exists"] /\ t["away"] = e["away"]
    <3>1. ASSUME NEW f \in Fields \ (Scalars \cup {"members"}) PROVE t[f] = e[f]
      <4>1. at # <<f>>
        <5>1. ASSUME at = <<f>> PROVE FALSE
          <6>1. Len(at) = 1
            BY <5>1
          <6>2. PICK g \in Scalars : at = <<g>>
            BY <2>2, <6>1, PathLen
          <6> QED BY <5>1, <6>2
        <5> QED BY <5>1
      <4> QED BY <2>3, <4>1
    <3> QED BY <3>1 DEF Fields, Scalars
  <2> QED BY <1>5, <2>3, <2>6, <2>7
<1> HIDE DEF Good
<1>6. PICK T : T = {k \in Nat : k <= m => Good(a[k], k)}
  OBVIOUS
<1>7. 0 \in T
  BY <1>3, <1>4, <1>6
<1>8. ASSUME NEW k \in Nat, k \in T PROVE k + 1 \in T
  <2>1. SUFFICES ASSUME k + 1 <= m PROVE Good(a[k + 1], k + 1)
    BY <1>6
  <2>2. Good(a[k], k)
    BY <1>6, <1>8, <2>1
  <2> QED BY <1>3, <1>5, <2>1, <2>2
<1>9. Good(put, m)
  <2>1. m \in T
    BY <1>7, <1>8, NatInd
  <2> QED BY <1>3, <1>6, <2>1
<1>10. /\ DocsOK(put) /\ put["exists"] = d["exists"] /\ put["away"] = d["away"]
       /\ \A f \in Scalars : put[f] = IF Wrote(w, <<f>>) THEN w.d[f] ELSE d[f]
  BY <1>1, <1>9 DEF Good, Wrote
<1>11. PICK both : both = Over(w.creates, put.members)
  OBVIOUS
<1>12. DOMAIN both \subseteq Combatants
  BY <1>10, <1>11 DEF Over, OpsOK, DocsOK
<1>13. PICK members : members = Restrict(both, DOMAIN both \ ops.deletes)
  OBVIOUS
<1>14. DOMAIN members \subseteq Combatants
  BY <1>12, <1>13 DEF Restrict
<1>15. after = [put EXCEPT !.members = members]
  BY <1>2, <1>11, <1>13 DEF PutMembers
<1>16. /\ DOMAIN after = Fields /\ after.members = members
       /\ \A f \in Fields : f # "members" => after[f] = put[f]
  BY <1>10, <1>15 DEF DocsOK, Fields
<1>17. /\ after["order"] = put["order"] /\ after["history"] = put["history"]
       /\ after["exists"] = put["exists"] /\ after["away"] = put["away"]
  BY <1>16 DEF Fields, Scalars
<1>18. DocsOK(after)
  BY <1>10, <1>14, <1>16, <1>17 DEF DocsOK
<1>19. \A f \in Scalars : after[f] = put[f]
  BY <1>16 DEF Fields, Scalars
<1> QED BY <1>10, <1>17, <1>18, <1>19

LEMMA Agrees ==
  ASSUME NEW snap, NEW n \in {2, 3}, NEW w, OpsOK(snap, w, n),
         NEW ops, ops.changes = w.changes, ~Refused(ops),
         NEW f \in Scalars, Wrote(w, <<f>>), f # "history" \/ snap.history.cursor # 0
  PROVE  db[f] = snap[f]
<1>1. PICK i \in 1..Len(w.changes) : w.changes[i].at = <<f>>
  BY DEF Wrote
<1>2. PICK c : c = ops.changes[i] /\ ChangeOK(snap, w.d, c, n) /\ c.at = <<f>>
  BY <1>1 DEF OpsOK
<1>3. Len(c.at) = 1 /\ Get(db, c.at) = db[f] /\ c.old = snap[f]
  BY <1>2 DEF ChangeOK, Get
<1>4. i \in DOMAIN ops.changes
  BY <1>1 DEF OpsOK, IsSeq
<1>5. Get(db, c.at) = c.old \/ ~(c.at # <<"history">> \/ c.old.cursor # 0)
  BY <1>2, <1>3, <1>4 DEF Refused, Conflicts
<1>6. c.at = <<"history">> => f = "history" /\ c.old = snap["history"]
  BY <1>2, <1>3
<1> QED BY <1>3, <1>5, <1>6

-----------------------------------------------------------------------------
(* The invariant. Clock and history agree; a combat that runs or has a     *)
(* turn has a record; a request that has read holds what it read, unless   *)
(* overtaken; one that has built holds changes computed from some snapshot *)
(* in which, unless it is of two moments, clock and history agree.         *)

AtClock(d) ==
  d.history.cursor # 0 =>
    /\ d.history.records[d.history.cursor].round = d.round
    /\ d.history.records[d.history.cursor].turn = d.turn
Counted(d) == d.turn # Nobody \/ d.active => d.history.cursor # 0
CombatFields == {"active", "round", "turn", "order"}
ReadOK(f) ==
  /\ DOMAIN f = {"at", "r", "raced", "combat"} /\ f.at = "read" /\ f.r \in Requests
  /\ DOMAIN f.combat = CombatFields /\ IsSeq(f.combat.order)
ChangesOK(f, snap, w) ==
  /\ \E n \in {2, 3} : OpsOK(snap, w, n)
  /\ f.ops.changes = w.changes /\ f.ops.creates = w.creates /\ f.ops.deletes = w.deletes
  /\ \/ f.kind # "advance" /\ Steady(snap, w)
     \/ Recorded(w) /\ Wrote(w, <<"round">>)
     \/ /\ Recorded(w) /\ f.kind = "advance" /\ ~f.redo
        /\ snap.active /\ w.d.round = snap.round
BuiltFrom(f, snap) ==
  /\ DOMAIN f = {"at", "kind", "raced", "torn", "saw", "redo", "ops"} /\ f.at = "built"
  /\ DocsOK(snap) /\ Counted(snap) /\ f.saw = <<snap.round, snap.turn, snap.order>>
  /\ f.redo => f.kind = "advance"
  /\ f.kind \notin {"redo", "conflict"}
  /\ \E w : ChangesOK(f, snap, w)
FlightOK(f, d) ==
  \/ f = Idle
  \/ /\ ReadOK(f) /\ (f.combat.turn # Nobody \/ f.combat.active => d.history.cursor # 0)
     /\ ~f.raced => f.combat = Restrict(d, CombatFields)
  \/ \E snap : /\ BuiltFrom(f, snap)
               /\ snap.turn # Nobody \/ snap.active => d.history.cursor # 0
FlightCalm(f, d) ==
  f.at = "built" =>
    \E snap : /\ BuiltFrom(f, snap)
              /\ snap.turn # Nobody \/ snap.active => d.history.cursor # 0
              /\ ~f.torn => AtClock(snap)
ClockInv ==
  /\ DocsOK(db) /\ Counted(db)
  /\ ~torn => AtClock(db)
  /\ DOMAIN flight = Workers
  /\ \A w \in Workers : FlightOK(flight[w], db) /\ (~torn => FlightCalm(flight[w], db))

(* The heart of it: whatever happened since the snapshot, if no change is  *)
(* refused then the stored clock was the one the changes were computed     *)
(* from, or the walk wrote no round and only the history, compared as a    *)
(* whole, vouches for it.                                                  *)
LEMMA Committed ==
  ASSUME DocsOK(db), Counted(db), NEW f, NEW snap, BuiltFrom(f, snap),
         snap.turn # Nobody \/ snap.active => db.history.cursor # 0,
         ~Refused(f.ops), NEW after, after = Applied(f.ops)
  PROVE  /\ DocsOK(after) /\ Counted(after)
         /\ db.history.cursor # 0 => after.history.cursor # 0
         /\ f.kind = "advance" => db.turn = snap.turn
         /\ \/ f.kind # "advance" /\ (AtClock(db) => AtClock(after))
            \/ AtClock(after) /\ db.round = snap.round
            \/ /\ f.kind = "advance" /\ ~f.redo
               /\ AtClock(snap) /\ AtClock(db) => AtClock(after) /\ db.round = snap.round
<1>1. PICK w : ChangesOK(f, snap, w)
  BY DEF BuiltFrom
<1>2. PICK n \in {2, 3} : OpsOK(snap, w, n)
  BY <1>1 DEF ChangesOK
<1>3. PICK ops : ops = f.ops
  OBVIOUS
<1>4. ops.changes = w.changes /\ ops.creates = w.creates /\ ~Refused(ops)
  BY <1>1, <1>3 DEF ChangesOK
<1>5. /\ DocsOK(after)
      /\ \A g \in Scalars : after[g] = IF Wrote(w, <<g>>) THEN w.d[g] ELSE db[g]
  <2>1. PICK d : d = db
    OBVIOUS
  <2>2. DocsOK(d) /\ after = PutMembers(PutAll(d, ops.changes), ops)
    BY <1>3, <2>1, Applies
  <2>3. /\ DocsOK(after)
        /\ \A g \in Scalars : after[g] = IF Wrote(w, <<g>>) THEN w.d[g] ELSE d[g]
    BY ONLY n \in {2, 3}, <1>2, <1>4, <2>2, AppliedFacts, SMTT(40)
  <2> QED BY <2>1, <2>3
<1>6. \A g \in Scalars : Wrote(w, <<g>>) /\ (g # "history" \/ snap.history.cursor # 0) => db[g] = snap[g]
  <2>1. ASSUME NEW g \in Scalars, Wrote(w, <<g>>), g # "history" \/ snap.history.cursor # 0
        PROVE  db[g] = snap[g]
    BY ONLY <1>2, <1>4, <2>1, n \in {2, 3}, g \in Scalars, Agrees
  <2> QED BY <2>1
<1>7. {"round", "turn", "history", "active"} \subseteq Scalars /\ {"round", "turn", "history"} \subseteq Clock
  BY DEF Scalars, Clock
<1>8. /\ after["round"] = IF Wrote(w, <<"round">>) THEN w.d["round"] ELSE db["round"]
      /\ after["turn"] = IF Wrote(w, <<"turn">>) THEN w.d["turn"] ELSE db["turn"]
      /\ after["history"] = IF Wrote(w, <<"history">>) THEN w.d["history"] ELSE db["history"]
      /\ after["active"] = IF Wrote(w, <<"active">>) THEN w.d["active"] ELSE db["active"]
  BY <1>5, <1>7
<1>9. /\ Wrote(w, <<"round">>) => db["round"] = snap["round"]
      /\ Wrote(w, <<"turn">>) => db["turn"] = snap["turn"]
      /\ Wrote(w, <<"history">>) /\ snap.history.cursor # 0 => db["history"] = snap["history"]
  BY <1>6, <1>7
<1>10. CASE f.kind # "advance" /\ Steady(snap, w)
  <2>1. ~Wrote(w, <<"round">>) /\ ~Wrote(w, <<"turn">>) /\ ~Wrote(w, <<"history">>)
    BY <1>7, <1>10 DEF Steady
  <2>2. after.round = db.round /\ after.turn = db.turn /\ after.history = db.history
    BY <1>8, <2>1
  <2>3. after.active => db.active \/ snap.turn # Nobody
    BY <1>8, <1>10 DEF Steady
  <2>4. Counted(after)
    BY <2>2, <2>3 DEF Counted
  <2>5. AtClock(db) => AtClock(after)
    BY <2>2 DEF AtClock
  <2> QED BY <1>5, <1>10, <2>2, <2>4, <2>5
<1>11. CASE Recorded(w)
  <2>1. /\ after.turn = w.d.turn /\ after.history = w.d.history /\ w.d.history.cursor # 0
        /\ w.d.history.records[w.d.history.cursor].round = w.d.round
        /\ w.d.history.records[w.d.history.cursor].turn = w.d.turn
        /\ db.turn = snap.turn /\ Wrote(w, <<"history">>)
    BY <1>8, <1>9, <1>11 DEF Recorded
  <2>2. Counted(after)
    BY <2>1 DEF Counted
  <2>3. after.round = w.d.round => AtClock(after)
    BY <2>1 DEF AtClock
  <2>4. CASE Wrote(w, <<"round">>)
    <3>1. after.round = w.d.round /\ db.round = snap.round
      BY <1>8, <1>9, <2>4
    <3> QED BY <1>5, <2>1, <2>2, <2>3, <3>1
  <2>5. CASE ~Wrote(w, <<"round">>)
    <3>1. f.kind = "advance" /\ ~f.redo /\ snap.active /\ w.d.round = snap.round
      <4>1. Recorded(w) => Wrote(w, <<"turn">>)
        BY DEF Recorded
      <4>2. Steady(snap, w) => ~Wrote(w, <<"turn">>)
        BY <1>7 DEF Steady
      <4> QED BY <1>1, <1>11, <2>5, <4>1, <4>2 DEF ChangesOK
    <3>2. snap.history.cursor # 0
      BY <3>1 DEF BuiltFrom, Counted
    <3>3. db.history = snap.history
      BY <1>9, <2>1, <3>2
    <3>4. ASSUME AtClock(snap), AtClock(db) PROVE AtClock(after) /\ db.round = snap.round
      <4>1. db.round = snap.round
        BY <3>2, <3>3, <3>4 DEF AtClock
      <4>2. after.round = db.round
        BY <1>8, <2>5
      <4> QED BY <2>3, <3>1, <4>1, <4>2
    <3> QED BY <1>5, <2>1, <2>2, <3>1, <3>4
  <2> QED BY <2>4, <2>5
<1>12. (f.kind # "advance" /\ Steady(snap, w)) \/ Recorded(w)
  BY <1>1 DEF ChangesOK
<1> QED BY <1>10, <1>11, <1>12

-----------------------------------------------------------------------------
(* The steps of the system.                                                *)

LEMMA OvertakenBuilt ==
  ASSUME NEW f, NEW snap, BuiltFrom(f, snap), NEW g, g = [f EXCEPT !.raced = TRUE]
  PROVE  BuiltFrom(g, snap) /\ g.torn = f.torn
<1>1. /\ DOMAIN g = {"at", "kind", "raced", "torn", "saw", "redo", "ops"} /\ g.at = "built"
      /\ g.saw = f.saw /\ g.redo = f.redo /\ g.kind = f.kind /\ g.ops = f.ops /\ g.torn = f.torn
  BY DEF BuiltFrom
<1>2. PICK w : ChangesOK(f, snap, w)
  BY DEF BuiltFrom
<1>3. ChangesOK(g, snap, w)
  BY <1>1, <1>2 DEF ChangesOK
<1> QED BY <1>1, <1>3 DEF BuiltFrom

LEMMA Overtaken ==
  ASSUME NEW d, NEW e, d.history.cursor # 0 => e.history.cursor # 0,
         NEW f, FlightOK(f, d), NEW g, g = IF f.at = "idle" THEN f ELSE [f EXCEPT !.raced = TRUE]
  PROVE  FlightOK(g, e) /\ (FlightCalm(f, d) => FlightCalm(g, e))
<1>1. CASE f = Idle
  <2>1. g = Idle /\ g.at # "built"
    BY <1>1 DEF Idle
  <2> QED BY <2>1 DEF FlightOK, FlightCalm
<1>2. CASE ReadOK(f) /\ (f.combat.turn # Nobody \/ f.combat.active => d.history.cursor # 0)
  <2>1. g = [f EXCEPT !.raced = TRUE]
    BY <1>2 DEF ReadOK
  <2>2. /\ DOMAIN g = {"at", "r", "raced", "combat"} /\ g.at = "read" /\ g.r = f.r
        /\ g.combat = f.combat /\ g.raced = TRUE
    BY <1>2, <2>1 DEF ReadOK
  <2>3. ReadOK(g)
    BY <1>2, <2>2 DEF ReadOK
  <2> QED BY <1>2, <2>2, <2>3 DEF FlightOK, FlightCalm
<1>3. CASE \E snap : /\ BuiltFrom(f, snap)
                     /\ snap.turn # Nobody \/ snap.active => d.history.cursor # 0
  <2>1. g = [f EXCEPT !.raced = TRUE] /\ f.at = "built"
    BY <1>3 DEF BuiltFrom
  <2>2. FlightOK(g, e)
    BY <1>3, <2>1, OvertakenBuilt DEF FlightOK
  <2>3. ASSUME FlightCalm(f, d) PROVE FlightCalm(g, e)
    <3>1. PICK snap : /\ BuiltFrom(f, snap)
                      /\ snap.turn # Nobody \/ snap.active => d.history.cursor # 0
                      /\ ~f.torn => AtClock(snap)
      BY <2>1, <2>3 DEF FlightCalm
    <3>2. BuiltFrom(g, snap) /\ g.torn = f.torn
      BY <2>1, <3>1, OvertakenBuilt
    <3> QED BY <3>1, <3>2 DEF FlightCalm
  <2> QED BY <2>2, <2>3
<1> QED BY <1>1, <1>2, <1>3 DEF FlightOK

LEMMA IdleOK ==
  ASSUME NEW d
  PROVE  FlightOK(Idle, d) /\ FlightCalm(Idle, d)
BY DEF FlightOK, FlightCalm, Idle

LEMMA ClockInit ==
  ASSUME Init
  PROVE  ClockInv
<1>1. PICK w \in Worlds :
        db = [exists |-> TRUE, active |-> FALSE, round |-> 0, turn |-> Nobody, order |-> w.order,
              history |-> [records |-> <<>>, cursor |-> 0], other |-> w.other, away |-> w.away,
              members |-> [c \in Range(w.order) |-> Fresh(c)]]
  BY DEF Init
<1>2. w.order \in Seq(Combatants)
  BY ClockConstants
<1>3. /\ DOMAIN db = Fields /\ db.order = w.order /\ db.history = [records |-> <<>>, cursor |-> 0]
      /\ DOMAIN db.members = Range(w.order) /\ db.turn = Nobody /\ db.active = FALSE
  BY <1>1 DEF Fields, Scalars
<1>4. HistoryOK(db.history) /\ db.history.cursor = 0
  <2>1. <<>> \in Seq({}) /\ Len(<<>>) = 0
    OBVIOUS
  <2> QED BY <1>3, <2>1 DEF HistoryOK, IsSeq
<1>5. DocsOK(db)
  <2>1. Range(w.order) \subseteq Combatants
    BY <1>2 DEF Range
  <2> QED BY <1>2, <1>3, <1>4, <2>1 DEF DocsOK, IsSeq
<1>6. Counted(db) /\ AtClock(db)
  BY <1>3, <1>4 DEF Counted, AtClock
<1>7. DOMAIN flight = Workers /\ \A u \in Workers : flight[u] = Idle
  BY DEF Init
<1> QED BY <1>5, <1>6, <1>7, IdleOK DEF ClockInv

(* Storing documents whose clock the history still names keeps the         *)
(* invariant, whoever that overtakes.                                      *)
LEMMA Stored ==
  ASSUME ClockInv, NEW d, DocsOK(d), Counted(d), db.history.cursor # 0 => d.history.cursor # 0,
         torn => torn', ~torn' => AtClock(d),
         NEW fs, DOMAIN fs = Workers, \A w \in Workers : fs[w] = flight[w] \/ fs[w] = Idle,
         db' = d, flight' = Overtake(fs)
  PROVE  ClockInv'
<1>1. DOMAIN flight' = Workers
  BY DEF Overtake
<1>2. ASSUME NEW w \in Workers PROVE FlightOK(flight'[w], d) /\ (~torn' => FlightCalm(flight'[w], d))
  <2>1. flight'[w] = IF fs[w].at = "idle" THEN fs[w] ELSE [fs[w] EXCEPT !.raced = TRUE]
    BY DEF Overtake
  <2>2. FlightOK(fs[w], db) /\ (~torn => FlightCalm(fs[w], db))
    BY IdleOK DEF ClockInv
  <2>3. PICK f, e, g : f = fs[w] /\ e = db /\ g = flight'[w]
    OBVIOUS
  <2>4. FlightOK(g, d) /\ (FlightCalm(f, e) => FlightCalm(g, d))
    BY <2>1, <2>2, <2>3, Overtaken
  <2> QED BY <2>2, <2>3, <2>4
<1> QED BY <1>1, <1>2 DEF ClockInv

(* Requests that move on while the documents stay as they are.             *)
LEMMA MovedOn ==
  ASSUME ClockInv, db' = db, torn' = torn, NEW w \in Workers, NEW f,
         flight' = [flight EXCEPT ![w] = f], FlightOK(f, db), ~torn => FlightCalm(f, db)
  PROVE  ClockInv'
<1>1. DOMAIN flight' = Workers /\ flight'[w] = f /\ \A u \in Workers : u # w => flight'[u] = flight[u]
  BY DEF ClockInv
<1>2. ASSUME NEW u \in Workers PROVE FlightOK(flight'[u], db) /\ (~torn => FlightCalm(flight'[u], db))
  BY <1>1 DEF ClockInv
<1> QED BY <1>1, <1>2 DEF ClockInv

LEMMA ReadStep ==
  ASSUME ClockInv, NEW w \in Workers, NEW r \in Requests, ReadCombat(w, r)
  PROVE  ClockInv'
<1>1. PICK f : f = [at |-> "read", r |-> r, raced |-> FALSE, combat |-> Restrict(db, CombatFields)]
  OBVIOUS
<1>2. flight' = [flight EXCEPT ![w] = f] /\ db' = db /\ torn' = torn
  BY <1>1 DEF ReadCombat, CombatFields
<1>3. PICK combat : combat = Restrict(db, CombatFields)
  OBVIOUS
<1>4. /\ DOMAIN combat = CombatFields /\ combat["order"] = db["order"]
      /\ combat["turn"] = db["turn"] /\ combat["active"] = db["active"]
  BY <1>3 DEF Restrict, CombatFields
<1>5. f.at = "read" /\ f.r = r /\ f.combat = combat /\ DOMAIN f = {"at", "r", "raced", "combat"}
  BY <1>1, <1>3
<1>6. ReadOK(f) /\ f.at # "built"
  BY <1>4, <1>5 DEF ReadOK, ClockInv, DocsOK
<1>7. f.combat.turn # Nobody \/ f.combat.active => db.history.cursor # 0
  BY <1>4, <1>5 DEF ClockInv, Counted
<1> QED BY <1>2, <1>3, <1>5, <1>6, <1>7, MovedOn DEF FlightOK, FlightCalm

(* The snapshot a request works on: the combat's own fields as it read     *)
(* them, everything else as it is now.                                     *)
LEMMA SnapFacts ==
  ASSUME DocsOK(db), NEW f, ReadOK(f), f.combat.turn # Nobody \/ f.combat.active => db.history.cursor # 0,
         NEW snap, snap = Over(f.combat, db)
  PROVE  /\ DocsOK(snap) /\ Counted(snap)
         /\ snap.history = db.history
         /\ snap.turn = f.combat.turn /\ snap.active = f.combat.active
         /\ f.combat = Restrict(db, CombatFields) => \A x \in Fields : snap[x] = db[x]
<1>1. DOMAIN f.combat = CombatFields /\ DOMAIN db = Fields /\ CombatFields \subseteq Fields
  BY DEF ReadOK, DocsOK, CombatFields, Fields, Scalars
<1>2. /\ DOMAIN snap = Fields
      /\ \A x \in Fields : snap[x] = IF x \in CombatFields THEN f.combat[x] ELSE db[x]
  BY <1>1 DEF Over
<1>3. /\ snap["order"] = f.combat["order"] /\ snap["turn"] = f.combat["turn"]
      /\ snap["active"] = f.combat["active"] /\ snap["history"] = db["history"]
      /\ snap["members"] = db["members"]
  BY <1>2 DEF CombatFields, Fields, Scalars
<1>4. DocsOK(snap)
  BY <1>2, <1>3 DEF DocsOK, ReadOK
<1>5. Counted(snap)
  BY <1>3 DEF Counted
<1>6. f.combat = Restrict(db, CombatFields) => \A x \in Fields : snap[x] = db[x]
  BY <1>2 DEF Restrict
<1> QED BY <1>3, <1>4, <1>5, <1>6

LEMMA BuildStep ==
  ASSUME ClockInv, NEW w \in Workers, BuildOps(w)
  PROVE  ClockInv'
<1>1. PICK f : f = flight[w] /\ f.at = "read" /\ FlightOK(f, db)
  BY DEF BuildOps, ClockInv
<1>2. /\ ReadOK(f) /\ (f.combat.turn # Nobody \/ f.combat.active => db.history.cursor # 0)
      /\ ~f.raced => f.combat = Restrict(db, CombatFields)
  BY <1>1 DEF FlightOK, Idle, BuiltFrom
<1>3. PICK snap : snap = Over(f.combat, db)
  OBVIOUS
<1>4. /\ DocsOK(snap) /\ Counted(snap)
      /\ snap.history = db.history
      /\ snap.turn = f.combat.turn /\ snap.active = f.combat.active
      /\ f.combat = Restrict(db, CombatFields) => \A x \in Fields : snap[x] = db[x]
  BY <1>2, <1>3, SnapFacts DEF ClockInv
<1>5. PICK ops : ops = build_ops(snap, f.r)
  OBVIOUS
<1>6. PICK kept : kept = Restrict(ops, {"changes", "deletes", "creates"})
  OBVIOUS
<1>7. PICK g : g = [at |-> "built", kind |-> f.r.kind, raced |-> f.raced, torn |-> f.raced,
                    saw |-> <<snap.round, snap.turn, snap.order>>,
                    redo |-> f.r.kind = "advance" /\ CanFastForward(snap), ops |-> kept]
  OBVIOUS
<1>8. /\ db' = db /\ torn' = torn
      /\ flight' = [flight EXCEPT ![w] =
           IF db.exists /\ authorize(snap, f.r) /\ ops.err = "ok" /\ ops.d.round <= MaxRound
           THEN g ELSE Idle]
  BY <1>1, <1>3, <1>5, <1>6, <1>7 DEF BuildOps
<1>9. CASE flight' = [flight EXCEPT ![w] = Idle]
  BY <1>8, <1>9, IdleOK, MovedOn
<1>10. CASE ops.err = "ok" /\ flight' = [flight EXCEPT ![w] = g]
  <2>1. Outcome(snap, ops, f.r.kind)
    BY <1>2, <1>4, <1>5, <1>10, BuiltOps DEF ReadOK
  <2>2. /\ DOMAIN g = {"at", "kind", "raced", "torn", "saw", "redo", "ops"} /\ g.at = "built"
        /\ g.kind = f.r.kind /\ g.torn = f.raced /\ g.saw = <<snap.round, snap.turn, snap.order>> /\ g.ops = kept
        /\ g.redo <=> f.r.kind = "advance" /\ CanFastForward(snap)
    BY <1>7
  <2>3. kept.changes = ops.changes /\ kept.creates = ops.creates /\ kept.deletes = ops.deletes
    BY <1>6 DEF Restrict
  <2>4. ChangesOK(g, snap, ops)
    BY <2>1, <2>2, <2>3 DEF ChangesOK, Outcome
  <2>5. BuiltFrom(g, snap)
    <3>1. f.r.kind \notin {"redo", "conflict"}
      BY <1>2 DEF ReadOK, Requests
    <3> QED BY <1>4, <2>2, <2>4, <3>1 DEF BuiltFrom
  <2>6. snap.turn # Nobody \/ snap.active => db.history.cursor # 0
    BY <1>2, <1>4
  <2>7. ~torn /\ ~g.torn => AtClock(snap)
    <3>1. SUFFICES ASSUME ~torn, ~g.torn PROVE AtClock(snap)
      OBVIOUS
    <3>2. \A x \in Fields : snap[x] = db[x]
      BY <1>2, <1>4, <2>2, <3>1
    <3>3. snap["round"] = db["round"] /\ snap["turn"] = db["turn"] /\ snap["history"] = db["history"]
      BY <3>2 DEF Fields, Scalars
    <3> QED BY <3>1, <3>3 DEF ClockInv, AtClock
  <2>8. FlightOK(g, db) /\ (~torn => FlightCalm(g, db))
    BY <2>5, <2>6, <2>7 DEF FlightOK, FlightCalm
  <2> QED BY <1>8, <1>10, <2>8, MovedOn
<1> QED BY <1>8, <1>9, <1>10

(* What an accepted commit does to the clock.                              *)
LEMMA CommitFacts ==
  ASSUME ClockInv, NEW w \in Workers, flight[w].at = "built", NEW f, f = flight[w],
         ~Refused(f.ops), NEW after, after = Applied(f.ops)
  PROVE  \E snap :
           /\ BuiltFrom(f, snap)
           /\ DocsOK(after) /\ Counted(after)
           /\ db.history.cursor # 0 => after.history.cursor # 0
           /\ f.kind = "advance" => db.turn = snap.turn
           /\ ~torn /\ ~(f.torn /\ f.kind = "advance" /\ ~f.redo)
                => AtClock(after) /\ (f.kind = "advance" => db.round = snap.round)
<1>1. FlightOK(f, db) /\ (~torn => FlightCalm(f, db)) /\ f.at = "built" /\ DocsOK(db) /\ Counted(db)
      /\ (~torn => AtClock(db))
  BY DEF ClockInv
<1>2. \E snap : /\ BuiltFrom(f, snap)
                /\ snap.turn # Nobody \/ snap.active => db.history.cursor # 0
                /\ ~torn /\ ~f.torn => AtClock(snap)
  <2>1. CASE ~torn
    BY <1>1, <2>1 DEF FlightCalm
  <2>2. CASE torn
    BY <1>1, <2>2 DEF FlightOK, Idle, ReadOK
  <2> QED BY <2>1, <2>2
<1>3. PICK snap : /\ BuiltFrom(f, snap)
                  /\ snap.turn # Nobody \/ snap.active => db.history.cursor # 0
                  /\ ~torn /\ ~f.torn => AtClock(snap)
  BY <1>2
<1>4. /\ DocsOK(after) /\ Counted(after)
      /\ db.history.cursor # 0 => after.history.cursor # 0
      /\ f.kind = "advance" => db.turn = snap.turn
      /\ \/ f.kind # "advance" /\ (AtClock(db) => AtClock(after))
         \/ AtClock(after) /\ db.round = snap.round
         \/ /\ f.kind = "advance" /\ ~f.redo
            /\ AtClock(snap) /\ AtClock(db) => AtClock(after) /\ db.round = snap.round
  BY <1>1, <1>3, Committed
<1>5. ~torn /\ ~(f.torn /\ f.kind = "advance" /\ ~f.redo)
        => AtClock(after) /\ (f.kind = "advance" => db.round = snap.round)
  BY <1>1, <1>3, <1>4
<1> QED BY <1>3, <1>4, <1>5

LEMMA CommitStep ==
  ASSUME ClockInv, NEW w \in Workers, commit_combat(w)
  PROVE  ClockInv'
<1>1. PICK f : f = flight[w] /\ f.at = "built"
  BY DEF commit_combat
<1>2. PICK after : after = Applied(f.ops)
  OBVIOUS
<1>3. PICK free : free = [flight EXCEPT ![w] = Idle]
  OBVIOUS
<1>4. CASE flight' = free /\ db' = db /\ torn' = torn
  BY <1>3, <1>4, IdleOK, MovedOn
<1>5. CASE /\ ~Refused(f.ops)
           /\ db' = IF f.kind = "end" THEN [db EXCEPT !.exists = FALSE, !.active = FALSE] ELSE after
           /\ torn' = (torn \/ (f.torn /\ f.kind = "advance" /\ ~f.redo))
           /\ flight' = IF db' = db THEN free ELSE Overtake(free)
  <2>1. PICK d : d = db'
    OBVIOUS
  <2>2. (torn => torn') /\ (~torn' => ~torn /\ ~(f.torn /\ f.kind = "advance" /\ ~f.redo))
    BY <1>5
  <2>3. /\ DocsOK(d) /\ Counted(d) /\ (db.history.cursor # 0 => d.history.cursor # 0)
        /\ ~torn' => AtClock(d)
    <3>1. CASE f.kind = "end"
      <4>1. d = [db EXCEPT !.exists = FALSE, !.active = FALSE]
        BY <1>5, <2>1, <3>1
      <4>2. /\ DOMAIN d = Fields /\ d["order"] = db["order"] /\ d["history"] = db["history"]
            /\ d["members"] = db["members"] /\ d["active"] = FALSE /\ d["turn"] = db["turn"]
            /\ d["round"] = db["round"]
        BY <4>1 DEF ClockInv, DocsOK, Fields, Scalars
      <4>3. DocsOK(d)
        BY <4>2 DEF ClockInv, DocsOK
      <4> QED BY <2>2, <4>2, <4>3 DEF ClockInv, Counted, AtClock
    <3>2. CASE f.kind # "end"
      <4>1. d = after
        BY <1>5, <2>1, <3>2
      <4> QED BY <1>1, <1>2, <1>5, <2>2, <4>1, CommitFacts
    <3> QED BY <3>1, <3>2
  <2>4. DOMAIN free = Workers /\ \A u \in Workers : free[u] = flight[u] \/ free[u] = Idle
    BY <1>3 DEF ClockInv
  <2>5. CASE d = db
    <3>1. flight' = free /\ db' = db
      BY <1>5, <2>1, <2>5
    <3>2. \A u \in Workers : FlightOK(free[u], db) /\ (~torn' => FlightCalm(free[u], db))
      BY <2>2, <2>4, IdleOK DEF ClockInv
    <3> QED BY <2>1, <2>3, <2>4, <3>1, <3>2 DEF ClockInv
  <2>6. CASE d # db
    <3>1. flight' = Overtake(free) /\ db' = d
      BY <1>5, <2>1, <2>6
    <3> QED BY <2>2, <2>3, <2>4, <3>1, Stored
  <2> QED BY <2>5, <2>6
<1> QED BY <1>1, <1>2, <1>3, <1>4, <1>5 DEF commit_combat

(* Ordinary writes leave the clock and its history alone.                  *)
LEMMA WriteStep ==
  ASSUME ClockInv, NEW d, DocsOK(d), d.history = db.history, d.round = db.round, d.turn = db.turn,
         d.active => db.active, Write(d)
  PROVE  ClockInv'
<1>1. Counted(d) /\ (~torn => AtClock(d)) /\ (db.history.cursor # 0 => d.history.cursor # 0)
  BY DEF ClockInv, Counted, AtClock
<1>2. DOMAIN flight = Workers
  BY DEF ClockInv
<1>3. db' = d /\ flight' = Overtake(flight) /\ torn' = torn
  BY DEF Write
<1> QED BY <1>1, <1>2, <1>3, Stored

LEMMA MembersStep ==
  ASSUME ClockInv, NEW d, DOMAIN d = Fields, DOMAIN d.members \subseteq Combatants,
         \A x \in Fields \ {"members", "away", "other"} : d[x] = db[x], Write(d)
  PROVE  ClockInv'
<1>1. /\ d["order"] = db["order"] /\ d["history"] = db["history"] /\ d["active"] = db["active"]
      /\ d["turn"] = db["turn"] /\ d["round"] = db["round"]
  BY DEF Fields, Scalars
<1>2. DocsOK(d)
  BY <1>1 DEF ClockInv, DocsOK
<1> QED BY <1>1, <1>2, WriteStep

(* The four kinds of ordinary write.                                       *)
LEMMA AddStep ==
  ASSUME ClockInv, NEW c \in Combatants, AddCombatant(c)
  PROVE  ClockInv'
<1>1. PICK members : members = Over([e \in {c} |-> Fresh(e)], db.members)
  OBVIOUS
<1>2. PICK d : d = [db EXCEPT !.members = members]
  OBVIOUS
<1>3. Write(d)
  BY <1>1, <1>2 DEF AddCombatant
<1>4. DOMAIN db = Fields /\ DOMAIN db.members \subseteq Combatants
  BY DEF ClockInv, DocsOK
<1>5. DOMAIN members \subseteq Combatants
  BY <1>1, <1>4 DEF Over
<1>6. /\ DOMAIN d = Fields /\ d.members = members
      /\ \A x \in Fields \ {"members", "away", "other"} : d[x] = db[x]
  BY <1>2, <1>4 DEF Fields, Scalars
<1> QED BY <1>3, <1>5, <1>6, MembersStep

LEMMA DeleteStep ==
  ASSUME ClockInv, NEW c \in Combatants, DeleteCombatant(c)
  PROVE  ClockInv'
<1>1. PICK members : members = Restrict(db.members, DOMAIN db.members \ {c})
  OBVIOUS
<1>2. PICK d : d = [db EXCEPT !.members = members]
  OBVIOUS
<1>3. Write(d)
  BY <1>1, <1>2 DEF DeleteCombatant
<1>4. DOMAIN db = Fields /\ DOMAIN db.members \subseteq Combatants
  BY DEF ClockInv, DocsOK
<1>5. DOMAIN members \subseteq Combatants
  BY <1>1, <1>4 DEF Restrict
<1>6. /\ DOMAIN d = Fields /\ d.members = members
      /\ \A x \in Fields \ {"members", "away", "other"} : d[x] = db[x]
  BY <1>2, <1>4 DEF Fields, Scalars
<1> QED BY <1>3, <1>5, <1>6, MembersStep

LEMMA MoveStep ==
  ASSUME ClockInv, NEW c \in Combatants, MoveCombatant(c)
  PROVE  ClockInv'
<1>1. PICK members, away, d :
        /\ members = Restrict(db.members, DOMAIN db.members \ {c})
             \/ members = Over([e \in {c} |-> Fresh(e)], db.members)
        /\ d = [db EXCEPT !.members = members, !.away = away]
        /\ Write(d)
  <2>1. CASE Write([db EXCEPT !.members = Restrict(@, DOMAIN @ \ {c}), !.away = @ \cup {c}])
    BY <2>1
  <2>2. CASE Write([db EXCEPT !.members = Over([e \in {c} |-> Fresh(e)], @), !.away = @ \ {c}])
    BY <2>2
  <2> QED BY <2>1, <2>2 DEF MoveCombatant
<1>2. DOMAIN db = Fields /\ DOMAIN db.members \subseteq Combatants
  BY DEF ClockInv, DocsOK
<1>3. DOMAIN members \subseteq Combatants
  <2>1. CASE members = Restrict(db.members, DOMAIN db.members \ {c})
    BY <1>2, <2>1 DEF Restrict
  <2>2. CASE members = Over([e \in {c} |-> Fresh(e)], db.members)
    BY <1>2, <2>2 DEF Over
  <2> QED BY <1>1, <2>1, <2>2
<1>4. /\ DOMAIN d = Fields /\ d.members = members
      /\ \A x \in Fields \ {"members", "away", "other"} : d[x] = db[x]
  BY <1>1, <1>2 DEF Fields, Scalars
<1> QED BY <1>1, <1>3, <1>4, MembersStep

LEMMA OtherStep ==
  ASSUME ClockInv, OtherCombat
  PROVE  ClockInv'
<1>1. DOMAIN db = Fields /\ DOMAIN db.members \subseteq Combatants
  BY DEF ClockInv, DocsOK
<1>2. CASE Write([db EXCEPT !.other = TRUE, !.active = FALSE])
  <2>1. PICK d : d = [db EXCEPT !.other = TRUE, !.active = FALSE]
    OBVIOUS
  <2>2. /\ DOMAIN d = Fields /\ d["order"] = db["order"] /\ d["history"] = db["history"]
        /\ d["members"] = db["members"] /\ d["active"] = FALSE /\ d["turn"] = db["turn"]
        /\ d["round"] = db["round"]
    BY <1>1, <2>1 DEF Fields, Scalars
  <2>3. DocsOK(d)
    BY <2>2 DEF ClockInv, DocsOK
  <2> QED BY <1>2, <2>1, <2>2, <2>3, WriteStep
<1>3. CASE Write([db EXCEPT !.other = FALSE])
  <2>1. PICK d : d = [db EXCEPT !.other = FALSE]
    OBVIOUS
  <2>2. /\ DOMAIN d = Fields /\ d.members = db.members
        /\ \A x \in Fields \ {"members", "away", "other"} : d[x] = db[x]
    BY <1>1, <2>1 DEF Fields, Scalars
  <2> QED BY <1>1, <1>3, <2>1, <2>2, MembersStep
<1> QED BY <1>2, <1>3 DEF OtherCombat

LEMMA ClockNext ==
  ASSUME ClockInv, [Next]_vars
  PROVE  ClockInv'
<1>1. CASE UNCHANGED vars
  BY <1>1 DEF vars, ClockInv
<1>2. CASE Next
  <2>1. ASSUME NEW w \in Workers, NEW r \in Requests, ReadCombat(w, r) PROVE ClockInv'
    BY <2>1, ReadStep
  <2>2. ASSUME NEW w \in Workers, BuildOps(w) PROVE ClockInv'
    BY <2>2, BuildStep
  <2>3. ASSUME NEW w \in Workers, commit_combat(w) PROVE ClockInv'
    BY <2>3, CommitStep
  <2>4. ASSUME NEW c \in Combatants, AddCombatant(c) \/ DeleteCombatant(c) \/ MoveCombatant(c)
        PROVE ClockInv'
    BY <2>4, AddStep, DeleteStep, MoveStep
  <2> QED BY <1>2, <2>1, <2>2, <2>3, <2>4, OtherStep DEF Next
<1> QED BY <1>1, <1>2

(* The inductive invariant: the clock stands where the history's cursor    *)
(* says, and every transition in flight was computed from documents that   *)
(* do, unless an advance of two moments was accepted.                      *)
THEOREM ClockInductive == Spec => []ClockInv
<1>1. Init => ClockInv
  BY ClockInit
<1>2. ClockInv /\ [Next]_vars => ClockInv'
  BY ClockNext
<1> QED BY <1>1, <1>2, PTL DEF Spec

(* For any number of combatants, requests, rounds and records kept: the    *)
(* record the history's cursor names is the boundary the clock stands at,  *)
(* unless an advance computed from documents of two moments was accepted.  *)
THEOREM CursorAlways == Spec => []CursorAtClockUnlessTorn
<1>1. ClockInv => CursorAtClockUnlessTorn
  BY DEF ClockInv, AtClock, CursorAtClockUnlessTorn
<1> QED BY <1>1, ClockInductive, PTL

LEMMA NoSkip ==
  ASSUME ClockInv, Next, done'.kind \in {"advance", "redo"}, ~torn'
  PROVE  done'.saw[1] = db.round /\ done'.saw[2] = db.turn
<1>1. PICK w \in Workers : commit_combat(w)
  <2>1. Nothing.kind = "none"
    BY DEF Nothing
  <2>2. done' # Nothing
    BY <2>1
  <2> QED BY <2>2 DEF Next, ReadCombat, BuildOps, AddCombatant, DeleteCombatant, MoveCombatant,
                      OtherCombat, Write
<1>2. PICK f : f = flight[w] /\ f.at = "built"
  BY <1>1 DEF commit_combat
<1>3. PICK after : after = Applied(f.ops)
  OBVIOUS
<1>4. /\ ~Refused(f.ops)
      /\ done' = [kind |-> IF f.redo THEN "redo" ELSE f.kind, raced |-> f.raced, saw |-> f.saw]
      /\ torn' = (torn \/ (f.torn /\ f.kind = "advance" /\ ~f.redo))
  BY <1>1, <1>2 DEF commit_combat
<1>5. done'.saw = f.saw /\ (f.redo \/ f.kind \in {"advance", "redo"})
  BY <1>4
<1>6. PICK snap : /\ BuiltFrom(f, snap)
                  /\ f.kind = "advance" => db.turn = snap.turn
                  /\ ~torn /\ ~(f.torn /\ f.kind = "advance" /\ ~f.redo)
                       => (f.kind = "advance" => db.round = snap.round)
  BY <1>2, <1>3, <1>4, CommitFacts
<1>7. f.kind = "advance"
  BY <1>5, <1>6 DEF BuiltFrom
<1>8. ~torn /\ ~(f.torn /\ f.kind = "advance" /\ ~f.redo)
  BY <1>4
<1>9. db.round = snap.round /\ db.turn = snap.turn /\ f.saw = <<snap.round, snap.turn, snap.order>>
  BY <1>6, <1>7, <1>8 DEF BuiltFrom
<1>10. PICK saw : saw = f.saw
  BY Zenon
<1>11. saw = <<db.round, db.turn, snap.order>> /\ done'.saw = saw
  BY <1>5, <1>9, <1>10, Zenon
<1>12. saw[1] = db.round /\ saw[2] = db.turn
  BY ONLY <1>11
<1> QED BY <1>11, <1>12, Zenon

(* Two requests that end one turn end it once: an advance is accepted only *)
(* while the clock still stands where the advance read it, with the same   *)
(* exception.                                                              *)
THEOREM NoTurnSkippedAlways == Spec => NoTurnSkippedUnlessTorn
<1>1. ClockInv /\ [Next]_vars
        => [done'.kind \in {"advance", "redo"} /\ ~torn'
              => done'.saw[1] = db.round /\ done'.saw[2] = db.turn]_vars
  BY NoSkip
<1> QED BY <1>1, ClockInductive, PTL DEF Spec, NoTurnSkippedUnlessTorn

(* A transition nobody has overtaken still fits the stored documents, but  *)
(* for a combatant it brings back that is elsewhere.                       *)
Unraced ==
  \A w \in Workers :
    flight[w].at = "built" /\ ~flight[w].raced
      => db.exists /\ (Refused(flight[w].ops) => db.away # {})

LEMMA UnracedOvertaken ==
  ASSUME ClockInv, NEW fs, \A w \in Workers : fs[w] = flight[w] \/ fs[w] = Idle,
         flight' = Overtake(fs)
  PROVE  Unraced'
<1>1. ASSUME NEW w \in Workers, flight'[w].at = "built" PROVE flight'[w].raced
  <2>1. flight'[w] = IF fs[w].at = "idle" THEN fs[w] ELSE [fs[w] EXCEPT !.raced = TRUE]
    BY DEF Overtake
  <2>2. FlightOK(fs[w], db)
    BY IdleOK DEF ClockInv
  <2>3. fs[w].at = "idle" \/ "raced" \in DOMAIN fs[w]
    BY <2>2 DEF FlightOK, Idle, ReadOK, BuiltFrom
  <2> QED BY <1>1, <2>1, <2>3
<1> QED BY <1>1 DEF Unraced

LEMMA RefusedAlike ==
  ASSUME db' = db, NEW ops
  PROVE  Refused(ops)' <=> Refused(ops)
BY DEF Refused, Conflicts, Get

LEMMA UnracedMovedOn ==
  ASSUME ClockInv, Unraced, db' = db, NEW w \in Workers, NEW f, flight' = [flight EXCEPT ![w] = f],
         f.at = "built" /\ ~f.raced => db.exists /\ (Refused(f.ops) => db.away # {})
  PROVE  Unraced'
<1>1. flight'[w] = f /\ \A u \in Workers : u # w => flight'[u] = flight[u]
  BY DEF ClockInv
<1>2. ASSUME NEW ops PROVE Refused(ops)' <=> Refused(ops)
  BY RefusedAlike
<1>3. ASSUME NEW u \in Workers, flight'[u].at = "built", ~flight'[u].raced
      PROVE  db.exists /\ (Refused(flight'[u].ops) => db.away # {})
  BY <1>1, <1>3 DEF Unraced
<1>4. ASSUME NEW u \in Workers, flight'[u].at = "built", ~flight'[u].raced
      PROVE  db'.exists /\ (Refused(flight[u].ops)' => db'.away # {})
  <2>1. PICK ops : ops = flight'[u].ops
    OBVIOUS
  <2>2. Refused(ops)' <=> Refused(ops)
    BY <1>2
  <2> QED BY <1>3, <1>4, <2>1, <2>2
<1> QED BY <1>4 DEF Unraced

LEMMA FitsOwn ==
  ASSUME NEW snap, \A x \in Fields : snap[x] = db[x], NEW w, NEW n, OpsOK(snap, w, n), NEW ops,
         ops.changes = w.changes, ops.creates = w.creates, ops.deletes = w.deletes, Refused(ops)
  PROVE  db.away # {}
<1>1. snap["members"] = db["members"] /\ \A g \in Scalars : snap[g] = db[g]
  BY DEF Fields
<1>2. \A i \in 1..Len(w.changes) : ChangeOK(snap, w.d, w.changes[i], n)
  BY DEF OpsOK
<1>3. DOMAIN w.changes = 1..Len(w.changes)
  BY DEF OpsOK, IsSeq
<1>4. ASSUME NEW i \in DOMAIN ops.changes, NEW c, c = ops.changes[i]
      PROVE  Present(db, c.at) /\ Get(db, c.at) = c.old
  <2>1. PathOK(c.at, n) /\ Present(snap, c.at) /\ c.old = Get(snap, c.at)
    BY <1>2, <1>3, <1>4 DEF ChangeOK
  <2>2. PICK at : at = c.at
    OBVIOUS
  <2>3. PathOK(at, n) /\ Present(snap, at)
    BY <2>1, <2>2
  <2>4. Present(db, at)
    BY <1>1, <2>3 DEF Present
  <2>5. Get(db, at) = Get(snap, at)
    <3>1. CASE \E g \in Scalars : at = <<g>>
      <4>1. PICK g \in Scalars : at = <<g>>
        BY <3>1
      <4>2. Len(at) = 1 /\ at[1] = g
        BY <4>1
      <4> QED BY <1>1, <4>2 DEF Get
    <3>2. CASE Len(at) # 1
      BY <1>1, <3>2 DEF Get
    <3> QED BY <2>3, <3>1, <3>2, PathLen
  <2> QED BY <2>1, <2>2, <2>4, <2>5
<1>5. ~\E i \in DOMAIN ops.changes :
        LET c == ops.changes[i]
        IN \/ Len(c.at) > 1 /\ c.at[2] \notin DOMAIN db.members
           \/ /\ Len(c.at) = 1 \/ c.at[2] \in DOMAIN db.members
              /\ Get(db, c.at) # c.old
              /\ c.at # <<"history">> \/ c.old.cursor # 0
  <2>1. ASSUME NEW i \in DOMAIN ops.changes, NEW c, c = ops.changes[i]
        PROVE  ~(Len(c.at) > 1 /\ c.at[2] \notin DOMAIN db.members)
    BY <1>4, <2>1 DEF Present
  <2> QED BY <1>4, <2>1
<1>6. ops.deletes \subseteq DOMAIN db.members /\ DOMAIN ops.creates \cap DOMAIN db.members = {}
  BY <1>1 DEF OpsOK
<1>7. PICK c \in DOMAIN ops.creates : c \in DOMAIN db.members \cup db.away
  BY <1>5, <1>6 DEF Refused, Conflicts
<1> QED BY <1>6, <1>7

LEMMA UnracedBuild ==
  ASSUME ClockInv, Unraced, NEW w \in Workers, BuildOps(w)
  PROVE  Unraced'
<1>1. PICK f : f = flight[w] /\ f.at = "read" /\ FlightOK(f, db)
  BY DEF BuildOps, ClockInv
<1>2. /\ ReadOK(f) /\ (f.combat.turn # Nobody \/ f.combat.active => db.history.cursor # 0)
      /\ ~f.raced => f.combat = Restrict(db, CombatFields)
  BY <1>1 DEF FlightOK, Idle, BuiltFrom
<1>3. PICK snap : snap = Over(f.combat, db)
  OBVIOUS
<1>4. /\ DocsOK(snap) /\ Counted(snap)
      /\ f.combat = Restrict(db, CombatFields) => \A x \in Fields : snap[x] = db[x]
  BY <1>2, <1>3, SnapFacts DEF ClockInv
<1>5. PICK ops : ops = build_ops(snap, f.r)
  OBVIOUS
<1>6. PICK kept : kept = Restrict(ops, {"changes", "deletes", "creates"})
  OBVIOUS
<1>7. PICK g : g = [at |-> "built", kind |-> f.r.kind, raced |-> f.raced, torn |-> f.raced,
                    saw |-> <<snap.round, snap.turn, snap.order>>,
                    redo |-> f.r.kind = "advance" /\ CanFastForward(snap), ops |-> kept]
  OBVIOUS
<1>8. /\ db' = db
      /\ flight' = [flight EXCEPT ![w] =
           IF db.exists /\ authorize(snap, f.r) /\ ops.err = "ok" /\ ops.d.round <= MaxRound
           THEN g ELSE Idle]
  BY <1>1, <1>3, <1>5, <1>6, <1>7 DEF BuildOps
<1>9. CASE flight' = [flight EXCEPT ![w] = Idle]
  <2>1. Idle.at # "built"
    BY DEF Idle
  <2> QED BY <1>8, <1>9, <2>1, UnracedMovedOn
<1>10. CASE db.exists /\ ops.err = "ok" /\ flight' = [flight EXCEPT ![w] = g]
  <2>1. g.at = "built" /\ g.raced = f.raced /\ g.ops = kept
    BY <1>7
  <2>2. ASSUME ~g.raced, Refused(kept) PROVE db.away # {}
    <3>1. Outcome(snap, ops, f.r.kind)
      BY <1>2, <1>4, <1>5, <1>10, BuiltOps DEF ReadOK
    <3>2. \E n \in {2, 3} : OpsOK(snap, ops, n)
      BY <3>1 DEF Outcome
    <3>3. kept.changes = ops.changes /\ kept.creates = ops.creates /\ kept.deletes = ops.deletes
      BY <1>6, <3>2 DEF Restrict, OpsOK, WorkFields
    <3>4. \A x \in Fields : snap[x] = db[x]
      BY <1>2, <1>4, <2>1, <2>2
    <3> QED BY <2>2, <3>2, <3>3, <3>4, FitsOwn
  <2> QED BY <1>8, <1>10, <2>1, <2>2, UnracedMovedOn
<1> QED BY <1>8, <1>9, <1>10

LEMMA UnracedCommit ==
  ASSUME ClockInv, Unraced, NEW w \in Workers, commit_combat(w)
  PROVE  Unraced' /\ (done'.kind = "conflict" => done'.raced \/ db'.away # {})
<1>1. PICK f : f = flight[w] /\ f.at = "built"
  BY DEF commit_combat
<1>2. PICK free : free = [flight EXCEPT ![w] = Idle]
  OBVIOUS
<1>3. Idle.at # "built" /\ \A u \in Workers : free[u] = flight[u] \/ free[u] = Idle
  BY <1>2 DEF Idle, ClockInv
<1>4. flight' = free /\ db' = db => Unraced'
  BY <1>2, <1>3, UnracedMovedOn
<1>5. flight' = Overtake(free) => Unraced'
  BY <1>3, UnracedOvertaken
<1>6. (flight' = free /\ db' = db) \/ flight' = Overtake(free)
  BY <1>1, <1>2 DEF commit_combat
<1>7. ASSUME done'.kind = "conflict" PROVE done'.raced \/ db'.away # {}
  <2>1. CASE ~db.exists \/ Refused(f.ops)
    <3>1. db' = db /\ done'.raced = f.raced
      BY <1>1, <2>1 DEF commit_combat
    <3> QED BY <1>1, <2>1, <3>1 DEF Unraced
  <2>2. CASE ~(~db.exists \/ Refused(f.ops))
    <3>1. done'.kind \in {"invalid", "redo", f.kind}
      BY <1>1, <2>2 DEF commit_combat
    <3>2. f.kind # "conflict"
      BY <1>1 DEF ClockInv, FlightOK, Idle, ReadOK, BuiltFrom
    <3> QED BY <1>7, <3>1, <3>2
  <2> QED BY <2>1, <2>2
<1> QED BY <1>4, <1>5, <1>6, <1>7

LEMMA UnracedNext ==
  ASSUME ClockInv, Unraced, UnracedCommits, [Next]_vars
  PROVE  Unraced' /\ UnracedCommits'
<1>1. CASE UNCHANGED vars
  <2>1. db' = db /\ flight' = flight /\ done' = done
    BY <1>1 DEF vars
  <2>2. ASSUME NEW ops PROVE Refused(ops)' <=> Refused(ops)
    BY <2>1, RefusedAlike
  <2>3. ASSUME NEW w \in Workers, flight'[w].at = "built", ~flight'[w].raced
        PROVE  db'.exists /\ (Refused(flight[w].ops)' => db'.away # {})
    <3>1. PICK ops : ops = flight'[w].ops
      OBVIOUS
    <3>2. db.exists /\ (Refused(ops) => db.away # {})
      BY <2>1, <2>3, <3>1 DEF Unraced
    <3> QED BY <2>1, <2>2, <3>1, <3>2
  <2>4. Unraced'
    BY <2>3 DEF Unraced
  <2> QED BY <2>1, <2>4 DEF UnracedCommits
<1>2. ASSUME NEW w \in Workers, commit_combat(w) PROVE Unraced' /\ UnracedCommits'
  BY <1>2, UnracedCommit DEF UnracedCommits
<1>3. ASSUME done' = Nothing PROVE UnracedCommits'
  BY <1>3 DEF Nothing, UnracedCommits
<1>4. ASSUME NEW w \in Workers, BuildOps(w) PROVE Unraced' /\ UnracedCommits'
  BY <1>3, <1>4, UnracedBuild DEF BuildOps
<1>5. ASSUME NEW w \in Workers, NEW r \in Requests, ReadCombat(w, r)
      PROVE  Unraced' /\ UnracedCommits'
  <2>1. PICK f : f = [at |-> "read", r |-> r, raced |-> FALSE, combat |-> Restrict(db, CombatFields)]
    OBVIOUS
  <2>2. flight' = [flight EXCEPT ![w] = f] /\ f.at = "read"
    BY <1>5, <2>1 DEF ReadCombat, CombatFields
  <2>3. db' = db /\ done' = Nothing
    BY <1>5 DEF ReadCombat
  <2> QED BY <1>3, <2>2, <2>3, UnracedMovedOn
<1>6. ASSUME NEW d, Write(d) PROVE Unraced' /\ UnracedCommits'
  BY <1>3, <1>6, UnracedOvertaken DEF Write
<1>7. ASSUME NEW c \in Combatants, AddCombatant(c) \/ DeleteCombatant(c) \/ MoveCombatant(c)
      PROVE  Unraced' /\ UnracedCommits'
  BY <1>6, <1>7 DEF AddCombatant, DeleteCombatant, MoveCombatant
<1>8. ASSUME OtherCombat PROVE Unraced' /\ UnracedCommits'
  BY <1>6, <1>8 DEF OtherCombat
<1> QED BY <1>1, <1>2, <1>4, <1>5, <1>7, <1>8 DEF Next

(* A transition that nobody overtook is never refused as a conflict,       *)
(* whatever it changes, deletes and brings back, unless a combatant is     *)
(* elsewhere.                                                              *)
THEOREM UnracedAlways == Spec => []UnracedCommits
<1>1. Init => Unraced /\ UnracedCommits
  BY DEF Init, Unraced, UnracedCommits, Idle, Nothing
<1>2. ClockInv /\ Unraced /\ UnracedCommits /\ [Next]_vars => Unraced' /\ UnracedCommits'
  BY UnracedNext
<1> QED BY <1>1, <1>2, ClockInductive, PTL DEF Spec

-----------------------------------------------------------------------------
(* What a redo or a restoring rewind leaves of the members.                *)

LEMMA PutMember ==
  ASSUME NEW d, DocsOK(d), NEW at, PathOK(at, 2), NEW v, NEW e, e = Put(d, at, v), NEW c
  PROVE  /\ at = <<"members", c>> /\ c \in DOMAIN d.members => e.members[c] = v
         /\ at # <<"members", c>> => e.members[c] = d.members[c]
<1>1. DOMAIN d = Fields /\ "members" \in Fields /\ "members" \notin Scalars
  BY DEF DocsOK, Fields, Scalars
<1>2. CASE \E f \in Scalars : at = <<f>>
  <2>1. PICK f \in Scalars : at = <<f>>
    BY <1>2
  <2>2. Len(at) = 1 /\ at[1] = f
    BY <2>1
  <2>3. e = [d EXCEPT ![f] = v]
    BY <2>2 DEF Put
  <2>4. e["members"] = d["members"]
    BY <1>1, <2>3
  <2>5. at # <<"members", c>>
    <3>1. Len(<<"members", c>>) = 2
      OBVIOUS
    <3> QED BY <2>2, <3>1
  <2> QED BY <2>4, <2>5
<1>3. CASE \E b : at = <<"members", b>>
  <2>1. PICK b : at = <<"members", b>>
    BY <1>3
  <2>2. Len(at) = 2 /\ at[2] = b
    BY <2>1
  <2>3. PICK m : m = [d.members EXCEPT ![b] = v]
    OBVIOUS
  <2>4. e = [d EXCEPT !.members = m]
    BY <2>2, <2>3 DEF Put
  <2>5. e.members = m
    BY <1>1, <2>4
  <2>6. at = <<"members", c>> <=> b = c
    BY <2>1, <2>2
  <2> QED BY <2>3, <2>5, <2>6
<1> QED BY <1>2, <1>3 DEF PathOK

LEMMA MembersPut ==
  ASSUME NEW d, DocsOK(d), NEW snap, snap.members = d.members, NEW w, OpsOK(snap, w, 2),
         NEW record, NEW S, Brings(snap, record, w, S), NEW put, put = PutAll(d, w.changes)
  PROVE  /\ DocsOK(put) /\ DOMAIN put.members = DOMAIN d.members
         /\ \A c \in DOMAIN d.members :
              put.members[c] = IF Wrote(w, <<"members", c>>) THEN record.members[c] ELSE d.members[c]
<1>1. PICK m \in Nat : m = Len(w.changes) /\ DOMAIN w.changes = 1..m
  BY DEF OpsOK, IsSeq
<1>2. PICK a : /\ a[0] = d /\ a[m] = put
               /\ \A k \in Nat : k + 1 <= m =>
                    a[k + 1] = Put(a[k], w.changes[k + 1].at, w.changes[k + 1].new)
  BY <1>1, PutChain
<1> DEFINE Good(e, k) ==
      /\ DocsOK(e) /\ DOMAIN e.members = DOMAIN d.members
      /\ \A c \in DOMAIN d.members :
           e.members[c] = IF \E j \in 1..k : w.changes[j].at = <<"members", c>>
                          THEN record.members[c] ELSE d.members[c]
<1>3. Good(d, 0)
  OBVIOUS
<1>4. ASSUME NEW k \in Nat, k + 1 <= m, NEW e, Good(e, k),
             NEW t, t = Put(e, w.changes[k + 1].at, w.changes[k + 1].new)
      PROVE  Good(t, k + 1)
  <2>1. PICK ch : ch = w.changes[k + 1] /\ ChangeOK(snap, w.d, ch, 2)
    <3>1. k + 1 \in 1..Len(w.changes)
      BY <1>1, <1>4
    <3> QED BY <3>1 DEF OpsOK
  <2>2. PICK at, v : at = ch.at /\ v = ch.new /\ PathOK(at, 2) /\ ValueOK(at, v)
    BY <2>1 DEF ChangeOK
  <2>3. t = Put(e, at, v) /\ DocsOK(e) /\ 2 \in {2, 3}
    BY <1>4, <2>1, <2>2
  <2>4. DocsOK(t) /\ DOMAIN t.members = DOMAIN e.members
    BY <2>2, <2>3, PutDocs
  <2>5. \A c : at = <<"members", c>> => v = record.members[c]
    <3>1. k + 1 \in 1..Len(w.changes)
      BY <1>1, <1>4
    <3> QED BY <2>1, <2>2, <3>1 DEF Brings
  <2>6. /\ \A j \in 1..k + 1 : j \in 1..k \/ j = k + 1
        /\ k + 1 \in 1..k + 1 /\ \A j \in 1..k : j \in 1..k + 1
    OBVIOUS
  <2>7. ASSUME NEW c \in DOMAIN d.members
        PROVE  t.members[c] = IF \E j \in 1..k + 1 : w.changes[j].at = <<"members", c>>
                              THEN record.members[c] ELSE d.members[c]
    <3>1. CASE at = <<"members", c>>
      <4>1. c \in DOMAIN e.members
        BY <1>4
      <4>2. t.members[c] = v
        BY <2>2, <2>3, <3>1, <4>1, PutMember
      <4>3. \E j \in 1..k + 1 : w.changes[j].at = <<"members", c>>
        BY <2>1, <2>2, <2>6, <3>1
      <4> QED BY <2>5, <3>1, <4>2, <4>3
    <3>2. CASE at # <<"members", c>>
      <4>1. t.members[c] = e.members[c]
        BY <2>2, <2>3, <3>2, PutMember
      <4>2. (\E j \in 1..k + 1 : w.changes[j].at = <<"members", c>>)
              <=> \E j \in 1..k : w.changes[j].at = <<"members", c>>
        BY <2>1, <2>2, <2>6, <3>2
      <4> QED BY <1>4, <4>1, <4>2
    <3> QED BY <3>1, <3>2
  <2> QED BY <1>4, <2>4, <2>7
<1> HIDE DEF Good
<1>5. PICK T : T = {k \in Nat : k <= m => Good(a[k], k)}
  OBVIOUS
<1>6. 0 \in T
  BY <1>2, <1>3, <1>5
<1>7. ASSUME NEW k \in Nat, k \in T PROVE k + 1 \in T
  <2>1. SUFFICES ASSUME k + 1 <= m PROVE Good(a[k + 1], k + 1)
    BY <1>5
  <2>2. Good(a[k], k)
    BY <1>5, <1>7, <2>1
  <2> QED BY <1>2, <1>4, <2>1, <2>2
<1>8. m \in T
  BY <1>6, <1>7, NatInd
<1>9. Good(put, m)
  BY <1>2, <1>5, <1>8
<1> QED BY <1>1, <1>9 DEF Good, Wrote

(* The documents stand where the history's cursor says, with everyone its  *)
(* record has captured.                                                    *)
Stands(d) == live_equals(d, d.history.records[d.history.cursor])

LEMMA Stood ==
  ASSUME NEW d, DocsOK(d), NEW snap, snap.members = d.members, NEW w, BringsBack(snap, w),
         NEW ops, ops.changes = w.changes, ops.creates = w.creates, ops.deletes = w.deletes,
         NEW after, after = PutMembers(PutAll(d, ops.changes), ops)
  PROVE  Stands(after)
<1>1. PICK record : record = w.d.history.records[w.d.history.cursor]
  BY Zenon
<1>2. PICK S : S = DOMAIN record.members
  BY Zenon
<1>3. OpsOK(snap, w, 2) /\ Wrote(w, <<"history">>) /\ Brings(snap, record, w, S)
  BY <1>1, <1>2 DEF BringsBack
<1>4. PICK put : put = PutAll(d, w.changes)
  OBVIOUS
<1>5. /\ DocsOK(put) /\ DOMAIN put.members = DOMAIN d.members
      /\ \A c \in DOMAIN d.members :
           put.members[c] = IF Wrote(w, <<"members", c>>) THEN record.members[c] ELSE d.members[c]
  BY <1>3, <1>4, MembersPut
<1>6. PICK both : both = Over(w.creates, put.members)
  OBVIOUS
<1>7. /\ DOMAIN both = DOMAIN w.creates \cup DOMAIN d.members
      /\ \A c \in DOMAIN both : both[c] = IF c \in DOMAIN w.creates THEN w.creates[c] ELSE put.members[c]
  BY <1>5, <1>6 DEF Over
<1>8. w.deletes = {}
  BY <1>3 DEF Brings
<1>9. PICK members : members = Restrict(both, DOMAIN both \ w.deletes)
  OBVIOUS
<1>10. DOMAIN members = DOMAIN both /\ \A c \in DOMAIN both : members[c] = both[c]
  BY <1>8, <1>9 DEF Restrict
<1>11. after = [put EXCEPT !.members = members]
  BY <1>4, <1>6, <1>9 DEF PutMembers
<1>12. after.members = members
  BY <1>5, <1>11 DEF DocsOK, Fields
<1>13. after["history"] = w.d["history"]
  <2>1. PICK n \in {2, 3} : OpsOK(snap, w, n)
    BY <1>3
  <2>2. /\ DocsOK(after)
        /\ \A f \in Scalars : after[f] = IF Wrote(w, <<f>>) THEN w.d[f] ELSE d[f]
    <3>1. ops.changes = w.changes /\ ops.creates = w.creates
      OBVIOUS
    <3>2. DocsOK(d) /\ after = PutMembers(PutAll(d, ops.changes), ops)
      OBVIOUS
    <3> QED BY ONLY n \in {2, 3}, <2>1, <3>1, <3>2, AppliedFacts, SMTT(40)
  <2>3. "history" \in Scalars
    BY DEF Scalars
  <2> QED BY <1>3, <2>2, <2>3
<1>14. ASSUME NEW c \in S PROVE c \in DOMAIN members /\ members[c] = record.members[c]
  <2>1. CASE c \in DOMAIN w.creates
    BY <1>3, <1>7, <1>10, <2>1 DEF Brings
  <2>2. CASE c \notin DOMAIN w.creates
    <3>1. c \in DOMAIN d.members
          /\ (Wrote(w, <<"members", c>>) \/ d.members[c] = record.members[c])
      BY <1>3, <1>14, <2>2 DEF Brings
    <3> QED BY <1>5, <1>7, <1>10, <2>2, <3>1
  <2> QED BY <2>1, <2>2
<1>15. live_equals(after, record)
  BY <1>2, <1>12, <1>14 DEF live_equals
<1> QED BY <1>1, <1>13, <1>15 DEF Stands

(* The changes of a redo or a restoring rewind that nobody has overtaken   *)
(* bring back, over the stored members, everyone they have to.             *)
BringsOps(ops, members) ==
  \E snap, w : /\ snap.members = members /\ BringsBack(snap, w)
               /\ ops.changes = w.changes /\ ops.creates = w.creates /\ ops.deletes = w.deletes
IsRestore(f) == f.redo \/ (f.kind = "rewind" /\ rules.rewind_restore)
Restoring ==
  \A w \in Workers :
    LET f == flight[w]
    IN f.at = "built" /\ ~f.raced /\ IsRestore(f) => BringsOps(f.ops, db.members)

LEMMA RestoringMovedOn ==
  ASSUME ClockInv, Restoring, db' = db, rules' = rules, NEW w \in Workers, NEW f,
         flight' = [flight EXCEPT ![w] = f],
         f.at = "built" /\ ~f.raced /\ IsRestore(f) => BringsOps(f.ops, db.members)
  PROVE  Restoring'
<1>1. flight'[w] = f /\ \A u \in Workers : u # w => flight'[u] = flight[u]
  BY DEF ClockInv
<1> QED BY <1>1 DEF Restoring, IsRestore

LEMMA RestoringOvertaken ==
  ASSUME ClockInv, NEW fs, \A w \in Workers : fs[w] = flight[w] \/ fs[w] = Idle,
         flight' = Overtake(fs)
  PROVE  Restoring'
<1>1. ASSUME NEW w \in Workers, flight'[w].at = "built" PROVE flight'[w].raced
  <2>1. flight'[w] = IF fs[w].at = "idle" THEN fs[w] ELSE [fs[w] EXCEPT !.raced = TRUE]
    BY DEF Overtake
  <2>2. FlightOK(fs[w], db)
    BY IdleOK DEF ClockInv
  <2>3. fs[w].at = "idle" \/ "raced" \in DOMAIN fs[w]
    BY <2>2 DEF FlightOK, Idle, ReadOK, BuiltFrom
  <2> QED BY <1>1, <2>1, <2>3
<1> QED BY <1>1 DEF Restoring

LEMMA RestoringBuild ==
  ASSUME ClockInv, Restoring, NEW w \in Workers, BuildOps(w)
  PROVE  Restoring'
<1>1. PICK f : f = flight[w] /\ f.at = "read" /\ FlightOK(f, db)
  BY DEF BuildOps, ClockInv
<1>2. /\ ReadOK(f) /\ (f.combat.turn # Nobody \/ f.combat.active => db.history.cursor # 0)
      /\ ~f.raced => f.combat = Restrict(db, CombatFields)
  BY <1>1 DEF FlightOK, Idle, BuiltFrom
<1>3. PICK snap : snap = Over(f.combat, db)
  OBVIOUS
<1>4. /\ DocsOK(snap)
      /\ f.combat = Restrict(db, CombatFields) => \A x \in Fields : snap[x] = db[x]
  BY <1>2, <1>3, SnapFacts DEF ClockInv
<1>5. PICK ops : ops = build_ops(snap, f.r)
  OBVIOUS
<1>6. PICK kept : kept = Restrict(ops, {"changes", "deletes", "creates"})
  OBVIOUS
<1>7. PICK g : g = [at |-> "built", kind |-> f.r.kind, raced |-> f.raced, torn |-> f.raced,
                    saw |-> <<snap.round, snap.turn, snap.order>>,
                    redo |-> f.r.kind = "advance" /\ CanFastForward(snap), ops |-> kept]
  OBVIOUS
<1>8. /\ db' = db /\ rules' = rules
      /\ flight' = [flight EXCEPT ![w] =
           IF db.exists /\ authorize(snap, f.r) /\ ops.err = "ok" /\ ops.d.round <= MaxRound
           THEN g ELSE Idle]
  BY <1>1, <1>3, <1>5, <1>6, <1>7 DEF BuildOps
<1>9. CASE flight' = [flight EXCEPT ![w] = Idle]
  <2>1. Idle.at # "built"
    BY DEF Idle
  <2> QED BY <1>8, <1>9, <2>1, RestoringMovedOn
<1>10. CASE ops.err = "ok" /\ flight' = [flight EXCEPT ![w] = g]
  <2>1. /\ g.at = "built" /\ g.raced = f.raced /\ g.ops = kept /\ g.kind = f.r.kind
        /\ g.redo <=> f.r.kind = "advance" /\ CanFastForward(snap)
    BY <1>7
  <2>2. ASSUME ~g.raced, IsRestore(g) PROVE BringsOps(kept, db.members)
    <3>1. "members" \in Fields
      BY DEF Fields
    <3>2. snap.members = db.members
      BY <1>2, <1>4, <2>1, <2>2, <3>1
    <3>3. BringsBack(snap, ops)
      <4>1. CASE f.r.kind = "advance" /\ CanFastForward(snap)
        <5>1. ops = fast_forward(snap)
          BY <1>5, <4>1 DEF build_ops, advance
        <5> QED BY <1>4, <4>1, <5>1, Redone
      <4>2. CASE f.r.kind = "rewind" /\ rules.rewind_restore
        <5>1. ops = rewind(snap)
          BY <1>5, <4>2 DEF build_ops
        <5> QED BY <1>4, <1>10, <4>2, <5>1, Rewound
      <4> QED BY <2>1, <2>2, <4>1, <4>2 DEF IsRestore
    <3>4. kept.changes = ops.changes /\ kept.creates = ops.creates /\ kept.deletes = ops.deletes
      BY <1>6, <3>3 DEF Restrict, BringsBack, OpsOK, WorkFields
    <3> QED BY <3>2, <3>3, <3>4 DEF BringsOps
  <2> QED BY <1>8, <1>10, <2>1, <2>2, RestoringMovedOn
<1> QED BY <1>8, <1>9, <1>10

LEMMA RestoringNext ==
  ASSUME ClockInv, Restoring, [Next]_vars
  PROVE  Restoring'
<1>1. CASE UNCHANGED vars
  BY <1>1 DEF vars, Restoring, IsRestore
<1>2. ASSUME NEW w \in Workers, commit_combat(w) PROVE Restoring'
  <2>1. PICK free : free = [flight EXCEPT ![w] = Idle]
    OBVIOUS
  <2>2. Idle.at # "built" /\ \A u \in Workers : free[u] = flight[u] \/ free[u] = Idle
    BY <2>1 DEF Idle, ClockInv
  <2>3. rules' = rules /\ ((flight' = free /\ db' = db) \/ flight' = Overtake(free))
    BY <1>2, <2>1 DEF commit_combat
  <2>4. flight' = free /\ db' = db => Restoring'
    BY <2>1, <2>2, <2>3, RestoringMovedOn
  <2>5. flight' = Overtake(free) => Restoring'
    BY <2>2, RestoringOvertaken
  <2> QED BY <2>3, <2>4, <2>5
<1>3. ASSUME NEW w \in Workers, NEW r \in Requests, ReadCombat(w, r) PROVE Restoring'
  <2>1. PICK f : f = [at |-> "read", r |-> r, raced |-> FALSE, combat |-> Restrict(db, CombatFields)]
    OBVIOUS
  <2>2. flight' = [flight EXCEPT ![w] = f] /\ f.at = "read" /\ db' = db /\ rules' = rules
    BY <1>3, <2>1 DEF ReadCombat, CombatFields
  <2> QED BY <2>2, RestoringMovedOn
<1>4. ASSUME NEW d, Write(d) PROVE Restoring'
  BY <1>4, RestoringOvertaken DEF Write
<1>5. ASSUME NEW c \in Combatants, AddCombatant(c) \/ DeleteCombatant(c) \/ MoveCombatant(c)
      PROVE  Restoring'
  BY <1>4, <1>5 DEF AddCombatant, DeleteCombatant, MoveCombatant
<1>6. ASSUME OtherCombat PROVE Restoring'
  BY <1>4, <1>6 DEF OtherCombat
<1> QED BY <1>1, <1>2, <1>3, <1>5, <1>6, RestoringBuild DEF Next

LEMMA RestoresOne ==
  ASSUME ClockInv, Restoring, Next,
         done'.kind = "redo" \/ (done'.kind = "rewind" /\ rules.rewind_restore), ~done'.raced
  PROVE  live_equals(db', db'.history.records[db'.history.cursor])
<1>1. PICK w \in Workers : commit_combat(w)
  <2>1. Nothing.kind = "none"
    BY DEF Nothing
  <2>2. done' # Nothing
    BY <2>1
  <2> QED BY <2>2 DEF Next, ReadCombat, BuildOps, AddCombatant, DeleteCombatant, MoveCombatant,
                      OtherCombat, Write
<1>2. PICK f : f = flight[w] /\ f.at = "built"
  BY <1>1 DEF commit_combat
<1>3. f.kind \notin {"redo", "conflict"} /\ (f.redo => f.kind = "advance")
  BY <1>2 DEF ClockInv, FlightOK, Idle, ReadOK, BuiltFrom
<1>4. PICK ops, after : ops = f.ops /\ after = Applied(ops)
  OBVIOUS
<1>5. /\ done' = [kind |-> IF f.redo THEN "redo" ELSE f.kind, raced |-> f.raced, saw |-> f.saw]
      /\ db' = IF f.kind = "end" THEN [db EXCEPT !.exists = FALSE, !.active = FALSE] ELSE after
  BY <1>1, <1>2, <1>4 DEF commit_combat
<1>6. ~f.raced /\ IsRestore(f) /\ db' = after
  BY <1>3, <1>5 DEF IsRestore
<1>7. BringsOps(ops, db.members)
  BY <1>2, <1>4, <1>6 DEF Restoring
<1>8. PICK snap, v : /\ snap.members = db.members /\ BringsBack(snap, v)
                     /\ ops.changes = v.changes /\ ops.creates = v.creates /\ ops.deletes = v.deletes
  BY <1>7 DEF BringsOps
<1>9. PICK d : d = db
  OBVIOUS
<1>10. DocsOK(d) /\ snap.members = d.members /\ after = PutMembers(PutAll(d, ops.changes), ops)
  BY <1>4, <1>8, <1>9, Applies DEF ClockInv
<1>11. Stands(after)
  BY ONLY <1>8, <1>10, Stood
<1>12. live_equals(after, after.history.records[after.history.cursor])
  BY <1>11, Zenon DEF Stands
<1> QED BY <1>6, <1>12, Zenon

(* A restoring rewind, or a redo, that nobody overtook brings everyone its *)
(* record captured back as it was, whatever has left, arrived or changed   *)
(* since, for any number of them.                                          *)
THEOREM RestoresAlways == Spec => RestoresUnlessRaced
<1>1. Init => Restoring
  BY DEF Init, Restoring, Idle
<1>2. ClockInv /\ Restoring /\ [Next]_vars => Restoring'
  BY RestoringNext
<1>3. ClockInv /\ Restoring /\ [Next]_vars
        => [(done'.kind = "redo" \/ (done'.kind = "rewind" /\ rules.rewind_restore)) /\ ~done'.raced
              => live_equals(db', db'.history.records[db'.history.cursor])]_vars
  BY RestoresOne
<1> QED BY <1>1, <1>2, <1>3, ClockInductive, PTL DEF Spec, RestoresUnlessRaced

-----------------------------------------------------------------------------
(* The end of a walk. Nobody is in the order twice, so a walk that goes    *)
(* round it meets everybody; the budget is what a full pass takes.         *)

Once(s) == \A i, j \in DOMAIN s : s[i] = s[j] => i = j

LEMMA CountedOnce ==
  ASSUME NEW X, NEW s \in Seq(X), Cardinality(Range(s)) = Len(s)
  PROVE  Once(s)
<1>1. PICK n \in Nat : n = Len(s) /\ DOMAIN s = 1..n
  OBVIOUS
<1>2. PICK S, T : S = 1..n /\ T = Range(s)
  OBVIOUS
<1>3. IsFiniteSet(S) /\ Cardinality(S) = n
  <2>1. PICK a, b \in Int : a = 1 /\ b = n
    OBVIOUS
  <2>2. IsFiniteSet(a..b) /\ Cardinality(a..b) = IF a > b THEN 0 ELSE b - a + 1
    BY FS_Interval
  <2>3. (IF a > b THEN 0 ELSE b - a + 1) = n
    BY <2>1
  <2> QED BY <1>2, <2>1, <2>2, <2>3
<1>4. s \in Surjection(S, T)
  <2>1. s \in [S -> T]
    <3>1. s \in [1..n -> X]
      BY <1>1
    <3>2. \A i \in 1..n : s[i] \in T
      BY <1>1, <1>2 DEF Range
    <3> QED BY <1>2, <3>1, <3>2
  <2>2. \A t \in T : \E x \in S : s[x] = t
    BY <1>1, <1>2 DEF Range
  <2> QED BY <2>1, <2>2 DEF Surjection
<1>5. s \in Injection(S, T)
  BY <1>1, <1>2, <1>3, <1>4, FS_SurjSameCardinalityImpliesInj
<1> QED BY <1>1, <1>2, <1>5 DEF Injection, IsInjective, Once

LEMMA KeptOnce ==
  ASSUME NEW X, NEW seq \in Seq(X), Once(seq), NEW S
  PROVE  Once(Kept(seq, S))
<1>1. PICK n \in Nat : n = Len(seq) /\ DOMAIN seq = 1..n
  OBVIOUS
<1>2. PICK a : /\ a[0] = <<>> /\ a[n] = Kept(seq, S)
               /\ \A k \in Nat : k + 1 <= n =>
                    a[k + 1] = IF seq[k + 1] \in S THEN Append(a[k], seq[k + 1]) ELSE a[k]
  BY <1>1, KeptChain
<1> DEFINE Good(out, k) ==
      /\ out \in Seq(X)
      /\ \A i, j \in 1..Len(out) : out[i] = out[j] => i = j
      /\ \A i \in 1..Len(out) : \E j \in 1..k : out[i] = seq[j]
<1>3. Good(a[0], 0)
  <2>1. <<>> \in Seq(X) /\ Len(<<>>) = 0
    OBVIOUS
  <2> QED BY <1>2, <2>1
<1>4. ASSUME NEW k \in Nat, k + 1 <= n, Good(a[k], k) PROVE Good(a[k + 1], k + 1)
  <2>1. PICK out \in Seq(X) : out = a[k] /\ Good(out, k)
    BY <1>4
  <2>2. PICK x \in X : x = seq[k + 1]
    BY <1>1, <1>4
  <2>3. a[k + 1] = IF x \in S THEN Append(out, x) ELSE out
    BY <1>2, <1>4, <2>1, <2>2
  <2>4. PICK m \in Nat : m = Len(out)
    OBVIOUS
  <2>5. \A i \in 1..m : \E j \in 1..k + 1 : out[i] = seq[j]
    BY <2>1, <2>4
  <2>6. CASE x \in S
    <3>1. PICK t : t = Append(out, x)
      OBVIOUS
    <3>2. Len(t) = m + 1 /\ t[m + 1] = x /\ \A i \in 1..m : t[i] = out[i]
      BY <2>4, <3>1
    <3>3. \A i \in 1..m : out[i] # x
      <4>1. \A j \in 1..k : seq[j] # x
        <5>1. \A j \in 1..k : j \in DOMAIN seq /\ k + 1 \in DOMAIN seq /\ j # k + 1
          BY <1>1, <1>4
        <5> QED BY <2>2, <5>1 DEF Once
      <4> QED BY <2>1, <2>4, <4>1
    <3>4. \A i \in 1..m + 1 : i \in 1..m \/ i = m + 1
      OBVIOUS
    <3>5. ASSUME NEW i \in 1..m + 1, NEW j \in 1..m + 1, t[i] = t[j] PROVE i = j
      <4>1. CASE i \in 1..m /\ j \in 1..m
        <5>1. out[i] = out[j]
          BY <3>2, <3>5, <4>1
        <5> QED BY <2>1, <2>4, <4>1, <5>1
      <4>2. CASE i \in 1..m /\ j = m + 1
        BY <3>2, <3>3, <3>5, <4>2
      <4>3. CASE i = m + 1 /\ j \in 1..m
        BY <3>2, <3>3, <3>5, <4>3
      <4> QED BY <3>4, <4>1, <4>2, <4>3
    <3>6. \A i \in 1..m + 1 : \E j \in 1..k + 1 : t[i] = seq[j]
      <4>1. k + 1 \in 1..k + 1
        OBVIOUS
      <4> QED BY <2>2, <2>5, <3>2, <3>4, <4>1
    <3>7. t \in Seq(X)
      BY <2>1, <2>2, <3>1
    <3> QED BY <2>3, <2>6, <3>1, <3>2, <3>5, <3>6, <3>7
  <2>7. CASE x \notin S
    BY <2>1, <2>3, <2>4, <2>5, <2>7
  <2> QED BY <2>6, <2>7
<1>5. PICK T : T = {k \in Nat : k <= n => Good(a[k], k)}
  OBVIOUS
<1> HIDE DEF Good
<1>6. n \in T
  <2>1. 0 \in T
    BY <1>3, <1>5
  <2>2. ASSUME NEW k \in Nat, k \in T PROVE k + 1 \in T
    BY <1>1, <1>4, <1>5, <2>2
  <2> QED BY <1>1, <2>1, <2>2, NatInd
<1>7. PICK out : out = a[n]
  OBVIOUS
<1>8. out = Kept(seq, S) /\ Good(out, n)
  BY <1>2, <1>5, <1>6, <1>7
<1> QED BY <1>8 DEF Good, Once

(* Where someone is taken out, everybody behind moves up by one.           *)
Closed(out, seq, i) ==
  /\ Len(out) = Len(seq) - 1
  /\ \A j \in 1..Len(out) : out[j] = IF j < i THEN seq[j] ELSE seq[j + 1]

LEMMA KeptClosed ==
  ASSUME NEW X, NEW seq \in Seq(X), Once(seq), NEW i \in 1..Len(seq)
  PROVE  Closed(Kept(seq, Range(seq) \ {seq[i]}), seq, i)
<1>1. PICK n \in Nat : n = Len(seq) /\ DOMAIN seq = 1..n
  OBVIOUS
<1>2. PICK S : S = Range(seq) \ {seq[i]}
  OBVIOUS
<1>3. PICK a : /\ a[0] = <<>> /\ a[n] = Kept(seq, S)
               /\ \A k \in Nat : k + 1 <= n =>
                    a[k + 1] = IF seq[k + 1] \in S THEN Append(a[k], seq[k + 1]) ELSE a[k]
  <2>1. n \in Nat /\ DOMAIN seq = 1..n
    BY <1>1
  <2> QED BY ONLY <2>1, KeptChain
<1>4. \A k \in 1..n : seq[k] \in S <=> k # i
  BY <1>1, <1>2 DEF Once, Range
<1> DEFINE Good(out, k) ==
      /\ out \in Seq(X) /\ Len(out) = IF k < i THEN k ELSE k - 1
      /\ \A j \in 1..Len(out) : out[j] = IF j < i THEN seq[j] ELSE seq[j + 1]
<1>5. Good(a[0], 0)
  <2>1. <<>> \in Seq(X) /\ Len(<<>>) = 0
    OBVIOUS
  <2> QED BY <1>3, <2>1
<1>6. ASSUME NEW k \in Nat, k + 1 <= n, Good(a[k], k) PROVE Good(a[k + 1], k + 1)
  <2>1. PICK out \in Seq(X) : out = a[k] /\ Good(out, k)
    BY <1>6
  <2>2. PICK x \in X : x = seq[k + 1]
    BY <1>1, <1>6
  <2>3. a[k + 1] = IF k + 1 # i THEN Append(out, x) ELSE out
    <3>1. k + 1 \in 1..n
      BY <1>6
    <3> QED BY <1>3, <1>4, <1>6, <2>1, <2>2, <3>1
  <2>4. PICK m \in Nat : m = Len(out) /\ m = IF k < i THEN k ELSE k - 1
    BY <2>1
  <2>5. i \in Nat \ {0}
    BY <1>1
  <2>6. CASE k + 1 # i
    <3>1. PICK t : t = Append(out, x)
      OBVIOUS
    <3>2. Len(t) = m + 1 /\ t[m + 1] = x /\ \A j \in 1..m : t[j] = out[j]
      BY <2>1, <2>2, <2>4, <3>1
    <3>3. m + 1 = (IF k + 1 < i THEN k + 1 ELSE k)
      BY <2>4, <2>5, <2>6
    <3>4. x = IF m + 1 < i THEN seq[m + 1] ELSE seq[m + 1 + 1]
      BY <2>2, <2>5, <2>6, <3>3
    <3>5. \A j \in 1..m + 1 : j \in 1..m \/ j = m + 1
      OBVIOUS
    <3>6. \A j \in 1..m + 1 : t[j] = IF j < i THEN seq[j] ELSE seq[j + 1]
      BY <2>1, <2>4, <3>2, <3>4, <3>5
    <3>7. k + 1 - 1 = k
      OBVIOUS
    <3>8. t \in Seq(X)
      BY <2>1, <2>2, <3>1
    <3> QED BY <2>3, <2>6, <3>1, <3>2, <3>3, <3>6, <3>7, <3>8
  <2>7. CASE k + 1 = i
    <3>1. m = (IF k + 1 < i THEN k + 1 ELSE k + 1 - 1)
      BY <2>4, <2>5, <2>7
    <3> QED BY <2>1, <2>3, <2>4, <2>7, <3>1
  <2> QED BY <2>6, <2>7
<1>7. PICK T : T = {k \in Nat : k <= n => Good(a[k], k)}
  OBVIOUS
<1> HIDE DEF Good
<1>8. n \in T
  <2>1. 0 \in T
    BY <1>5, <1>7
  <2>2. ASSUME NEW k \in Nat, k \in T PROVE k + 1 \in T
    BY <1>1, <1>6, <1>7, <2>2
  <2> QED BY <1>1, <2>1, <2>2, NatInd
<1>9. PICK out : out = a[n]
  OBVIOUS
<1>10. out = Kept(seq, S) /\ Good(out, n)
  BY <1>3, <1>7, <1>8, <1>9
<1>11. ~(n < i)
  BY <1>1
<1> QED BY <1>1, <1>2, <1>10, <1>11 DEF Good, Closed

(* How far ahead of position i position j is, going round n positions; a   *)
(* walk at position i has passed the last q before it, and nobody acts in  *)
(* those.                                                                  *)
Ahead(i, j, n) == IF j >= i THEN j - i ELSE j - i + n
Passed(o, i, q) ==
  \A j \in 1..Len(o) : Ahead(i, j, Len(o)) + q >= Len(o) => auto_resolves(o[j])

LEMMA PassedNone ==
  ASSUME NEW o, IsSeq(o), NEW i \in Nat \ {0}, i <= Len(o) \/ Len(o) = 0
  PROVE  Passed(o, i, 0)
<1>1. PICK n \in Nat : n = Len(o)
  BY AppendFacts
<1>2. ASSUME NEW j \in 1..n PROVE Ahead(i, j, n) + 0 < n
  BY <1>1, <1>2 DEF Ahead
<1>3. ASSUME NEW j \in 1..n PROVE Ahead(i, j, n) \in Int
  BY <1>1, <1>3 DEF Ahead
<1> QED BY <1>1, <1>2, <1>3 DEF Passed

LEMMA PassedOn ==
  ASSUME NEW o, IsSeq(o), NEW i \in 1..Len(o), NEW q \in Int, Passed(o, i, q), auto_resolves(o[i]),
         NEW k, k = Onto(i, FALSE, Len(o))
  PROVE  Passed(o, k, q + 1)
<1>1. PICK n \in Nat : n = Len(o)
  BY AppendFacts
<1>2. ASSUME NEW j \in 1..n, Ahead(k, j, n) + (q + 1) >= n PROVE auto_resolves(o[j])
  <2>1. CASE j = i
    BY <2>1
  <2>2. CASE j # i
    <3>1. Ahead(k, j, n) = Ahead(i, j, n) - 1 /\ Ahead(i, j, n) \in Int
      BY <1>1, <2>2 DEF Onto, Ahead
    <3>2. PICK a \in Int : a = Ahead(i, j, n)
      BY <3>1
    <3>3. a - 1 + (q + 1) >= n
      BY <1>2, <3>1, <3>2
    <3>4. a + q >= n
      BY <1>1, <3>2, <3>3
    <3>5. Ahead(i, j, n) + q >= n
      BY <3>2, <3>4
    <3> QED BY <1>1, <3>5 DEF Passed
  <2> QED BY <2>1, <2>2
<1> QED BY <1>1, <1>2 DEF Passed

LEMMA PassedOut ==
  ASSUME NEW o, IsSeq(o), NEW i \in 1..Len(o), NEW q \in Int, Passed(o, i, q),
         NEW out, IsSeq(out), Closed(out, o, i), NEW k, k = Onto(i, TRUE, Len(out))
  PROVE  Passed(out, k, q)
<1>1. PICK n \in Nat, m \in Nat : n = Len(o) /\ m = Len(out) /\ m = n - 1
  BY AppendFacts DEF Closed
<1>2. ASSUME NEW j \in 1..m, Ahead(k, j, m) + q >= m PROVE auto_resolves(out[j])
  <2>1. PICK l \in 1..n : l = (IF j < i THEN j ELSE j + 1) /\ out[j] = o[l]
    <3>1. (IF j < i THEN j ELSE j + 1) \in 1..n
      BY <1>1
    <3>2. out[j] = IF j < i THEN o[j] ELSE o[j + 1]
      BY <1>1 DEF Closed
    <3> QED BY <3>1, <3>2
  <2>2. Ahead(i, l, n) + q >= n
    BY <1>1, <1>2, <2>1 DEF Onto, Ahead
  <2> QED BY <1>1, <2>1, <2>2 DEF Passed
<1> QED BY <1>1, <1>2 DEF Passed

LEMMA PassedAll ==
  ASSUME NEW o, IsSeq(o), NEW i \in 1..Len(o), NEW q \in Int, Passed(o, i, q), auto_resolves(o[i]),
         q + 1 >= Len(o)
  PROVE  \A c \in Range(o) : auto_resolves(c)
<1>1. PICK n \in Nat : n = Len(o) /\ DOMAIN o = 1..n
  BY DEF IsSeq
<1>2. ASSUME NEW j \in 1..n PROVE auto_resolves(o[j])
  <2>1. CASE j = i
    BY <2>1
  <2>2. CASE j # i
    <3>1. Ahead(i, j, n) + q >= n
      BY <1>1, <2>2 DEF Ahead
    <3> QED BY <1>1, <3>1 DEF Passed
  <2> QED BY <2>1, <2>2
<1> QED BY <1>1, <1>2 DEF Range

(* Whoever the transition deletes has left the order; and the turn is of   *)
(* somebody who acts, as long as there is one.                             *)
Cleared(w) == \A c \in w.deletes : Wrote(w, <<"order">>) /\ c \notin Range(w.d.order)
EndsWell(w) == auto_resolves(w.d.turn) => \A c \in Range(w.d.order) : auto_resolves(c)
WalkSettles(L, s, k) ==
  /\ Once(s.w.d.order) /\ Cleared(s.w)
  /\ s.stop /\ s.w.err = "ok" => EndsWell(s.w)
  /\ ~s.stop => L <= s.budget /\ Passed(s.w.d.order, s.i, k - (s.budget - L))

LEMMA ClearedStill ==
  ASSUME NEW v, NEW w, Still(v, w), Once(v.d.order), Cleared(v)
  PROVE  Once(w.d.order) /\ Cleared(w)
BY DEF Still, Cleared

LEMMA ClearedLeft ==
  ASSUME NEW w, IsSeq(w.d.order), Once(w.d.order), Cleared(w), NEW i \in 1..Len(w.d.order),
         NEW c, c = w.d.order[i], NEW u, u.d.order = Kept(w.d.order, Range(w.d.order) \ {c}),
         u.deletes = w.deletes \cup {c}, Wrote(u, <<"order">>)
  PROVE  Once(u.d.order) /\ Cleared(u) /\ Closed(u.d.order, w.d.order, i)
<1>1. PICK X : w.d.order \in Seq(X)
  BY DEF IsSeq
<1>2. PICK o, out, S : o = w.d.order /\ out = u.d.order /\ S = Range(o) \ {c}
  OBVIOUS
<1>3. o \in Seq(X) /\ Once(o) /\ i \in 1..Len(o) /\ out = Kept(o, S) /\ c = o[i]
  BY <1>1, <1>2
<1>4. Once(out)
  BY <1>3, KeptOnce
<1>5. Closed(out, o, i)
  BY <1>2, <1>3, KeptClosed
<1>6. Range(out) \subseteq S
  BY <1>3, KeptFacts
<1>7. Cleared(u)
  BY <1>2, <1>6 DEF Cleared
<1> QED BY <1>2, <1>4, <1>5, <1>7

LEMMA LeftOn ==
  ASSUME NEW snap, NEW w, WorkOK(snap, w, 3), Once(w.d.order), Cleared(w),
         NEW i \in 1..Len(w.d.order), NEW c, c \in DOMAIN w.d.members, c = w.d.order[i],
         NEW u, u = LeavesOrder(w, c)
  PROVE  WorkOK(snap, u, 3) /\ Once(u.d.order) /\ Cleared(u) /\ Closed(u.d.order, w.d.order, i)
<1>1. Leaving(snap, w, c, u)
  BY Left
<1>2. IsSeq(w.d.order)
  BY DEF WorkOK, DocsOK
<1> QED BY <1>1, <1>2, ClearedLeft DEF Leaving

LEMMA SteppedOn ==
  ASSUME NEW snap, NEW begun, NEW L \in Nat, NEW k \in Nat, NEW s, WalkOK(snap, begun, L, s, k),
         WalkSettles(L, s, k), NEW t, t = settle_step(s, k + 1)
  PROVE  WalkSettles(L, t, k + 1)
<1>1. CASE s.stop
  <2>1. t = s
    BY <1>1 DEF settle_step
  <2> QED BY <1>1, <2>1 DEF WalkSettles
<1>2. ASSUME ~s.stop, NEW why, why # "ok", t = [s EXCEPT !.stop = TRUE, !.w = Fail(@, why)]
      PROVE  WalkSettles(L, t, k + 1)
  <2>1. PICK v : v = Fail(s.w, why)
    OBVIOUS
  <2>2. v.err = why /\ v.d = s.w.d /\ v.changes = s.w.changes /\ v.deletes = s.w.deletes
    BY <2>1 DEF Fail, WalkOK, WorkOK, WorkFields
  <2>3. t.stop = TRUE /\ t.w = v
    BY <1>2, <2>1 DEF WalkOK, WalkFields
  <2>4. Still(s.w, v)
    BY <2>2 DEF Still, Wrote
  <2> QED BY <1>2, <2>2, <2>3, <2>4, ClearedStill DEF WalkSettles
<1>3. CASE ~s.stop /\ s.w.d.order = <<>>
  <2>1. t = [s EXCEPT !.stop = TRUE, !.w = Fail(@, "empty")]
    BY <1>3 DEF settle_step
  <2> QED BY <1>2, <1>3, <2>1
<1>4. CASE ~s.stop /\ s.w.d.order # <<>> /\ s.w.d.order[s.i] \notin DOMAIN s.w.d.members
  <2>1. t = [s EXCEPT !.stop = TRUE, !.w = Fail(@, "not found")]
    BY <1>4 DEF settle_step
  <2> QED BY <1>2, <1>4, <2>1
<1>5. CASE ~s.stop /\ s.w.d.order # <<>> /\ s.w.d.order[s.i] \in DOMAIN s.w.d.members
  <2>1. PICK c, i, o : /\ o = s.w.d.order /\ i = s.i
                       /\ c = s.w.d.order[s.i] /\ c \in DOMAIN s.w.d.members
    BY <1>5
  <2>2. IsSeq(o) /\ i \in 1..Len(o) /\ c = o[i] /\ Once(o) /\ Cleared(s.w)
    <3>1. IsSeq(o)
      BY <2>1 DEF WalkOK, WorkOK, DocsOK
    <3>2. Len(o) # 0
      BY <1>5, <2>1, <3>1 DEF IsSeq
    <3> QED BY <1>5, <2>1, <3>1, <3>2 DEF WalkOK, WalkSettles
  <2>3. PICK b \in Nat, n \in Nat :
          /\ b = s.budget /\ n = Len(o) /\ k <= b /\ b + n <= 2 * L
          /\ L <= b /\ Passed(o, i, k - (b - L))
    BY <1>5, <2>1 DEF WalkOK, WalkSettles
  <2>4. PICK entered : entered = enter_turn(s.w, c)
    OBVIOUS
  <2>5. /\ WorkOK(snap, entered, 3) /\ Still(s.w, entered) /\ entered.d.turn = c
        /\ entered.d.order = o /\ DOMAIN entered.d.members = DOMAIN s.w.d.members
        /\ Cleared(entered)
    <3>1. /\ WorkOK(snap, entered, 3) /\ Still(s.w, entered) /\ entered.d.turn = c
          /\ entered.d.order = s.w.d.order /\ DOMAIN entered.d.members = DOMAIN s.w.d.members
      BY <2>4, Entered DEF WalkOK
    <3> QED BY <2>1, <2>2, <3>1, ClearedStill
  <2>6. CASE ~auto_resolves(c)
    <3>1. t = [s EXCEPT !.stop = TRUE, !.w = entered]
      BY <1>5, <2>1, <2>4, <2>6 DEF settle_step
    <3>2. t.stop = TRUE /\ t.w = entered
      BY <3>1 DEF WalkOK, WalkFields
    <3> QED BY <2>2, <2>5, <2>6, <3>2 DEF WalkSettles, EndsWell
  <2>7. CASE auto_resolves(c)
    <3>1. c \in Range(entered.d.order) /\ c \in DOMAIN entered.d.members
      BY <2>1, <2>2, <2>5 DEF Range, IsSeq
    <3>2. PICK removed : removed = Exhausted(entered, c) /\ removed \in BOOLEAN
      BY DEF Exhausted
    <3>3. PICK over : over = IF removed THEN resolve_event(entered, c)
                             ELSE recover(IF IsEvent(c) THEN resolve_event(entered, c) ELSE entered,
                                          c, "turn_end")
      OBVIOUS
    <3>4. PICK out : out = over.d.order
      OBVIOUS
    <3>5. /\ WorkOK(snap, over, 3) /\ Once(out) /\ Cleared(over)
          /\ IF removed THEN Closed(out, o, i) ELSE out = o
      <4>1. CASE removed
        <5>1. resolve_event(entered, c) = LeavesOrder(entered, c)
          BY <3>2, <4>1 DEF resolve_event
        <5>2. over = LeavesOrder(entered, c)
          BY <3>3, <4>1, <5>1
        <5>3. /\ WorkOK(snap, over, 3) /\ Once(over.d.order) /\ Cleared(over)
              /\ Closed(over.d.order, entered.d.order, i)
          BY <2>2, <2>5, <3>1, <5>2, LeftOn
        <5> QED BY <2>5, <3>4, <4>1, <5>3
      <4>2. CASE ~removed
        <5>1. PICK v : v = IF IsEvent(c) THEN resolve_event(entered, c) ELSE entered
          OBVIOUS
        <5>2. WorkOK(snap, v, 3) /\ Still(entered, v)
          BY <2>5, <3>1, <3>2, <4>2, <5>1, Resolved, StillSame
        <5>3. over = recover(v, c, "turn_end")
          BY <3>3, <4>2, <5>1
        <5>4. WorkOK(snap, over, 3) /\ Still(entered, over)
          BY <5>2, <5>3, Recovered, StillTrans
        <5> QED BY <2>2, <2>5, <3>4, <4>2, <5>4, ClearedStill DEF Still
      <4> QED BY <4>1, <4>2
    <3>6. CASE ~removed /\ k + 1 >= s.budget
      <4>1. t = [s EXCEPT !.stop = TRUE, !.w = over]
        BY <1>5, <2>1, <2>4, <2>7, <3>2, <3>3, <3>6 DEF settle_step
      <4>2. t.stop = TRUE /\ t.w = over
        BY <4>1 DEF WalkOK, WalkFields
      <4>3. \A e \in Range(o) : auto_resolves(e)
        <5>1. PICK q \in Int : q = k - (b - L)
          BY <2>3
        <5>2. q + 1 >= Len(o)
          BY <2>3, <3>6, <5>1
        <5> QED BY <2>2, <2>3, <2>7, <5>1, <5>2, PassedAll
      <4> QED BY <3>4, <3>5, <3>6, <4>2, <4>3 DEF WalkSettles, EndsWell
    <3>7. CASE ~(~removed /\ k + 1 >= s.budget)
      <4>1. PICK u, j : /\ advance_from(over, i, removed) = <<u, j>>
                        /\ Still(over, u) /\ j = Onto(i, removed, Len(out))
        <5>1. i \in Nat \ {0}
          BY <2>2
        <5>2. WorkOK(snap, over, 3)
          BY <3>5
        <5>3. \E u, j :
                /\ advance_from(over, i, removed) = <<u, j>>
                /\ WorkOK(snap, u, 3) /\ u.err = over.err /\ u.creates = over.creates
                /\ u.d.order = over.d.order /\ DOMAIN u.d.members = DOMAIN over.d.members
                /\ j \in Nat \ {0}
                /\ j <= Len(over.d.order) \/ Len(over.d.order) = 0
                /\ RoundKept(over, u) /\ Still(over, u)
                /\ j = Onto(i, removed, Len(over.d.order))
          BY <5>1, <5>2, AdvancedFrom
        <5> QED BY <3>4, <5>3
      <4>2. t = [s EXCEPT !.w = u, !.i = j, !.budget = IF removed THEN @ + 1 ELSE @]
        <5>1. PICK next : next = advance_from(over, s.i, removed) /\ next[1] = u /\ next[2] = j
          <6>1. PICK pair : pair = <<u, j>>
            BY Zenon
          <6>2. pair = advance_from(over, s.i, removed)
            BY <2>1, <4>1, <6>1, Zenon
          <6>3. pair[1] = u /\ pair[2] = j
            BY ONLY <6>1
          <6> QED BY <6>2, <6>3, Zenon
        <5>2. t = [s EXCEPT !.w = next[1], !.i = next[2], !.budget = IF removed THEN @ + 1 ELSE @]
          BY <1>5, <2>1, <2>4, <2>7, <3>2, <3>3, <3>7, <5>1 DEF settle_step
        <5> QED BY <5>1, <5>2
      <4>3. /\ t.stop = s.stop /\ t.w = u /\ t.i = j
            /\ t.budget = IF removed THEN b + 1 ELSE b
        BY <2>3, <4>2 DEF WalkOK, WalkFields
      <4>4. u.d.order = out /\ Once(out) /\ Cleared(u)
        BY <3>4, <3>5, <4>1, ClearedStill DEF Still
      <4>5. L <= t.budget /\ Passed(out, j, k + 1 - (t.budget - L))
        <5>1. PICK q \in Int : q = k - (b - L)
          BY <2>3
        <5>2. CASE removed
          <6>1. k + 1 - (t.budget - L) = q /\ L <= t.budget
            <7>1. t.budget = b + 1
              BY <4>3, <5>2
            <7>2. L \in Nat /\ k \in Nat /\ b \in Nat /\ q = k - (b - L) /\ L <= b
              BY <2>3, <5>1
            <7>3. k + 1 - (b + 1 - L) = q /\ L <= b + 1
              BY ONLY <7>2
            <7> QED BY <7>1, <7>3
          <6>2. IsSeq(out) /\ j = Onto(i, TRUE, Len(out))
            BY <3>4, <3>5, <4>1, <5>2 DEF WorkOK, DocsOK, Onto
          <6>3. Passed(out, j, q)
            BY <2>2, <2>3, <3>5, <5>1, <5>2, <6>2, PassedOut
          <6> QED BY <6>1, <6>3
        <5>3. CASE ~removed
          <6>1. k + 1 - (t.budget - L) = q + 1 /\ L <= t.budget
            <7>1. t.budget = b
              BY <4>3, <5>3
            <7>2. L \in Nat /\ k \in Nat /\ b \in Nat /\ q = k - (b - L) /\ L <= b
              BY <2>3, <5>1
            <7>3. k + 1 - (b - L) = q + 1 /\ L <= b
              BY ONLY <7>2
            <7> QED BY <7>1, <7>3
          <6>2. out = o /\ j = Onto(i, FALSE, Len(o))
            BY <3>5, <4>1, <5>3 DEF Onto
          <6>3. Passed(o, j, q + 1)
            BY <2>2, <2>3, <2>7, <5>1, <6>2, PassedOn
          <6> QED BY <6>1, <6>2, <6>3
        <5> QED BY <5>2, <5>3
      <4> QED BY <1>5, <4>3, <4>4, <4>5 DEF WalkSettles
    <3> QED BY <3>6, <3>7
  <2> QED BY <2>6, <2>7
<1> QED BY <1>1, <1>3, <1>4, <1>5 DEF WalkOK

LEMMA SettledOn ==
  ASSUME NEW snap, NEW w, WorkOK(snap, w, 3), Once(w.d.order), Cleared(w), NEW from \in Nat \ {0},
         from <= Len(w.d.order) \/ Len(w.d.order) = 0, NEW u, u = settle_turn(w, from), u.err = "ok"
  PROVE  EndsWell(u) /\ Cleared(u)
<1>1. PICK L \in Nat : L = Len(w.d.order)
  BY AppendFacts DEF WorkOK, DocsOK
<1>2. PICK n \in Nat : n = 2 * L + 1
  OBVIOUS
<1>3. PICK base : base = [stop |-> FALSE, w |-> w, i |-> from, budget |-> Budget(w)]
  OBVIOUS
<1>4. PICK a : /\ a[0] = base /\ u = a[n].w
               /\ \A k \in Nat : k + 1 <= n => a[k + 1] = settle_step(a[k], k + 1)
  <2>1. /\ L \in Nat /\ L = Len(w.d.order) /\ u = settle_turn(w, from)
        /\ n \in Nat /\ n = 2 * L + 1
    BY <1>1, <1>2
  <2> QED BY ONLY <1>3, <2>1, SettleChain
<1> DEFINE Good(s, k) == WalkOK(snap, w, L, s, k) /\ WalkSettles(L, s, k)
<1>5. Good(base, 0)
  <2>1. WalkOK(snap, w, L, base, 0)
    BY <1>1, <1>3 DEF WalkOK, WalkFields, Budget, RoundKept
  <2>2. base.stop = FALSE /\ base.w = w /\ base.i = from /\ base.budget = L
    BY <1>1, <1>3 DEF Budget
  <2>3. Passed(w.d.order, from, 0)
    BY PassedNone DEF WorkOK, DocsOK
  <2>4. 0 - (L - L) = 0 /\ L <= L
    BY <1>1
  <2> QED BY <2>1, <2>2, <2>3, <2>4 DEF WalkSettles
<1>6. ASSUME NEW k \in Nat, k + 1 <= n, Good(a[k], k) PROVE Good(a[k + 1], k + 1)
  <2>1. PICK s, t : s = a[k] /\ t = a[k + 1]
    OBVIOUS
  <2>2. WalkOK(snap, w, L, s, k) /\ WalkSettles(L, s, k) /\ t = settle_step(s, k + 1)
    BY <1>4, <1>6, <2>1
  <2>3. WalkOK(snap, w, L, t, k + 1)
    BY <1>1, <2>2, Stepped
  <2>4. WalkSettles(L, t, k + 1)
    BY <2>2, SteppedOn
  <2> QED BY <2>1, <2>3, <2>4
<1> HIDE DEF Good
<1>7. PICK T : T = {k \in Nat : k <= n => Good(a[k], k)}
  OBVIOUS
<1>8. n \in T
  <2>1. 0 \in T
    BY <1>4, <1>5, <1>7
  <2>2. ASSUME NEW k \in Nat, k \in T PROVE k + 1 \in T
    BY <1>6, <1>7, <2>2
  <2> QED BY <2>1, <2>2, NatInd
<1>9. PICK s : s = a[n] /\ WalkOK(snap, w, L, s, n) /\ WalkSettles(L, s, n)
  BY <1>7, <1>8 DEF Good
<1>10. s.stop
  <2>1. SUFFICES ASSUME ~s.stop PROVE FALSE
    OBVIOUS
  <2>2. s.budget \in Nat /\ Len(s.w.d.order) \in Nat /\ n <= s.budget /\ s.budget + Len(s.w.d.order) <= 2 * L
    BY <1>9, <2>1 DEF WalkOK
  <2> QED BY <1>2, <2>2
<1>11. u = s.w
  BY <1>4, <1>9
<1> QED BY <1>9, <1>10, <1>11 DEF WalkSettles

LEMMA HealedOn ==
  ASSUME NEW snap, DocsOK(snap), Once(snap.order), NEW w, w = heal_order(Begin(snap))
  PROVE  Once(w.d.order) /\ Cleared(w)
<1>1. PICK b : b = Begin(snap)
  OBVIOUS
<1>2. PICK order : order = drop_departed(b.d)
  OBVIOUS
<1>3. b.d = snap /\ b.deletes = {} /\ DOMAIN b = {"d", "changes", "deletes", "creates", "err"}
  BY <1>1 DEF Begin
<1>4. Once(order)
  <2>1. PICK X : snap.order \in Seq(X)
    BY DEF DocsOK, IsSeq
  <2> QED BY <1>2, <1>3, <2>1, KeptOnce DEF drop_departed
<1>5. w = b \/ w = set_engine(b, <<"order">>, order)
  BY <1>1, <1>2 DEF heal_order, SetIfNew
<1>6. CASE w = set_engine(b, <<"order">>, order)
  <2>1. Len(<<"order">>) = 1 /\ <<"order">>[1] = "order"
    OBVIOUS
  <2>2. PICK d : d = [snap EXCEPT !["order"] = order]
    OBVIOUS
  <2>3. Put(b.d, <<"order">>, order) = d
    BY <1>3, <2>1, <2>2 DEF Put
  <2>4. w.d = d /\ w.deletes = {}
    BY <1>3, <1>6, <2>3 DEF set_engine
  <2>5. d["order"] = order
    BY <2>2 DEF DocsOK, Fields, Scalars
  <2> QED BY <1>4, <2>4, <2>5 DEF Cleared
<1>7. CASE w = b
  BY <1>3, <1>7 DEF Cleared
<1> QED BY <1>5, <1>6, <1>7

(* Where an advance leaves the turn and the order, under rules r, from the *)
(* snapshot it was computed from.                                          *)
Unacted(r, c) == IsEvent(c) \/ (c \in Hidden /\ r.owner_may_end)
Ends(r, snap, w) ==
  /\ Unacted(r, w.d.turn) => \A c \in Range(w.d.order) : Unacted(r, c)
  /\ Cleared(w) /\ Wrote(w, <<"turn">>)
  /\ ~Wrote(w, <<"order">>) => w.d.order = snap.order

LEMMA AdvancedOn ==
  ASSUME NEW snap, DocsOK(snap), Once(snap.order), ~CanFastForward(snap),
         NEW u, u = advance(snap), u.err = "ok"
  PROVE  OpsOK(snap, u, 3) /\ Ends(rules, snap, u)
<1>1. Fail(Begin(snap), "not running").err # "ok" /\ Fail(Begin(snap), "empty").err # "ok"
  BY DEF Fail, Begin
<1>2. PICK w : w = heal_order(Begin(snap))
  OBVIOUS
<1>3. u = Walking(snap, w)
  <2>1. CASE ~snap.active
    <3>1. u = Fail(Begin(snap), "not running")
      BY <2>1, Advances
    <3> QED BY <1>1, <3>1
  <2>2. CASE snap.active /\ snap.order = <<>>
    <3>1. u = Fail(Begin(snap), "empty")
      BY <2>2, Advances
    <3> QED BY <1>1, <3>1
  <2>3. CASE snap.active /\ snap.order # <<>>
    BY <1>2, <2>3, Advances
  <2> QED BY <2>1, <2>2, <2>3
<1>4. WorkOK(snap, w, 3) /\ w.err = "ok" /\ DOMAIN w.creates = {}
  BY <1>2, Healed
<1>5. PICK at : at = {i \in DOMAIN w.d.order : w.d.order[i] = snap.turn}
  OBVIOUS
<1>6. Fail(w, "not found").err # "ok"
  BY <1>4 DEF Fail, WorkOK, WorkFields
<1>7. PICK i : i = CHOOSE j \in at : TRUE
  OBVIOUS
<1>8. PICK v : v = recover(w, snap.turn, "turn_end")
  OBVIOUS
<1> PICK removed : removed = FALSE
  OBVIOUS
<1>9. PICK next : next = advance_from(v, i, removed)
  OBVIOUS
<1>10. at # {} /\ u = coalesce_updates(settle_turn(next[1], next[2]))
  <2>1. u = IF at = {} THEN Fail(w, "not found") ELSE coalesce_updates(settle_turn(next[1], next[2]))
    BY <1>3, <1>5, <1>7, <1>8, <1>9 DEF Walking
  <2>2. at # {}
    BY <1>6, <2>1
  <2> QED BY <2>1, <2>2
<1>11. i \in Nat \ {0}
  <2>1. i \in DOMAIN w.d.order
    BY <1>5, <1>7, <1>10
  <2>2. IsSeq(w.d.order)
    BY <1>4 DEF WorkOK, DocsOK
  <2> QED BY <2>1, <2>2 DEF IsSeq
<1>12. WorkOK(snap, v, 3) /\ Quiet(w, v) /\ Still(w, v)
  BY <1>4, <1>8, Recovered
<1>13. PICK x, j :
         /\ next = <<x, j>>
         /\ WorkOK(snap, x, 3) /\ x.err = v.err /\ x.creates = v.creates
         /\ x.d.order = v.d.order
         /\ j \in Nat \ {0}
         /\ j <= Len(v.d.order) \/ Len(v.d.order) = 0
         /\ Still(v, x)
  BY <1>9, <1>11, <1>12, AdvancedFrom
<1>14. Once(x.d.order) /\ Cleared(x)
  <2>1. Still(w, x)
    BY <1>12, <1>13, StillTrans
  <2>2. Once(w.d.order) /\ Cleared(w)
    BY <1>2, HealedOn
  <2> QED BY <2>1, <2>2, ClearedStill
<1>15. PICK s : s = settle_turn(x, j)
  OBVIOUS
<1>16. WorkOK(snap, s, 3) /\ s.creates = x.creates /\ (s.err = "ok" => Recorded(s))
  BY <1>13, <1>15, Settled
<1>17. DOMAIN s.creates = {}
  BY <1>4, <1>12, <1>13, <1>16 DEF Quiet
<1>18. u = coalesce_updates(s)
  BY <1>10, <1>13, <1>15
<1>19. /\ OpsOK(snap, u, 3) /\ u.d = s.d /\ u.err = s.err
       /\ \A f \in Scalars : Wrote(u, <<f>>) <=> Wrote(s, <<f>>)
  BY <1>16, <1>17, <1>18, Coalesced
<1>20. u.deletes = s.deletes
  BY <1>16, <1>18, Coalesces DEF WorkOK, WorkFields
<1>21. EndsWell(s) /\ Cleared(s)
  BY <1>13, <1>14, <1>15, <1>19, SettledOn
<1>22. "order" \in Scalars /\ "turn" \in Scalars
  BY DEF Scalars
<1>23. EndsWell(u) /\ Cleared(u) /\ Wrote(u, <<"turn">>)
  BY <1>16, <1>19, <1>20, <1>21, <1>22 DEF EndsWell, Cleared, Recorded
<1>24. ASSUME ~Wrote(u, <<"order">>) PROVE u.d.order = snap.order
  <2>1. PICK p : p = <<"order">>
    OBVIOUS
  <2>2. PathOK(p, 3) /\ Present(s.d, p) /\ ~Wrote(s, p)
    BY <1>19, <1>22, <1>24, <2>1 DEF PathOK, Present
  <2>3. Get(s.d, p) = Get(snap, p)
    BY <1>16, <2>2 DEF WorkOK
  <2>4. s.d["order"] = snap["order"]
    BY <2>1, <2>3 DEF Get
  <2> QED BY <1>19, <2>4
<1> QED BY <1>19, <1>23, <1>24 DEF Ends, EndsWell, auto_resolves, Unacted

(* Nobody is in the order twice, and the changes of an advance in flight   *)
(* are those of a walk that has come to its end.                           *)
EndsOps(f, r) ==
  \E snap, w : /\ OpsOK(snap, w, 3) /\ Ends(r, snap, w) /\ f.saw[3] = snap.order
               /\ f.ops.changes = w.changes /\ f.ops.creates = w.creates
               /\ f.ops.deletes = w.deletes
FlightSettles(f, r) ==
  /\ f.at = "read" => Once(f.combat.order)
  /\ f.at = "built" /\ f.kind = "advance" /\ ~f.redo => EndsOps(f, r)
Settling == Once(db.order) /\ \A w \in Workers : FlightSettles(flight[w], rules)

LEMMA SettlingMovedOn ==
  ASSUME ClockInv, Settling, db' = db, rules' = rules, NEW w \in Workers, NEW f,
         flight' = [flight EXCEPT ![w] = f], FlightSettles(f, rules)
  PROVE  Settling'
<1>1. flight'[w] = f /\ \A u \in Workers : u # w => flight'[u] = flight[u]
  BY DEF ClockInv
<1> QED BY <1>1 DEF Settling

LEMMA FlightOvertaken ==
  ASSUME NEW d, NEW f, FlightOK(f, d), NEW r, FlightSettles(f, r),
         NEW g, g = IF f.at = "idle" THEN f ELSE [f EXCEPT !.raced = TRUE]
  PROVE  FlightSettles(g, r)
<1>1. CASE f = Idle
  BY <1>1 DEF Idle
<1>2. CASE ReadOK(f)
  <2>1. g = [f EXCEPT !.raced = TRUE]
    BY <1>2 DEF ReadOK
  <2>2. g.at = "read" /\ g.combat = f.combat
    BY <1>2, <2>1 DEF ReadOK
  <2> QED BY <1>2, <2>2 DEF ReadOK, FlightSettles
<1>3. ASSUME NEW snap, BuiltFrom(f, snap) PROVE FlightSettles(g, r)
  <2>1. g = [f EXCEPT !.raced = TRUE]
    BY <1>3 DEF BuiltFrom
  <2>2. g.at = "built" /\ g.kind = f.kind /\ g.redo = f.redo /\ g.ops = f.ops /\ g.saw = f.saw
    BY <1>3, <2>1 DEF BuiltFrom
  <2> QED BY <1>3, <2>2 DEF BuiltFrom, FlightSettles, EndsOps
<1> QED BY <1>1, <1>2, <1>3 DEF FlightOK

LEMMA IdleSettles ==
  ASSUME NEW r
  PROVE  FlightSettles(Idle, r)
BY DEF FlightSettles, Idle

LEMMA SettlingOvertaken ==
  ASSUME ClockInv, Settling, NEW fs, \A w \in Workers : fs[w] = flight[w] \/ fs[w] = Idle,
         rules' = rules, flight' = Overtake(fs), Once(db'.order)
  PROVE  Settling'
<1>1. ASSUME NEW w \in Workers PROVE FlightSettles(flight'[w], rules)
  <2>1. flight'[w] = IF fs[w].at = "idle" THEN fs[w] ELSE [fs[w] EXCEPT !.raced = TRUE]
    BY DEF Overtake
  <2>2. FlightOK(fs[w], db) /\ FlightSettles(fs[w], rules)
    BY IdleOK, IdleSettles DEF ClockInv, Settling
  <2>3. PICK d, f, r, g : d = db /\ f = fs[w] /\ r = rules /\ g = flight'[w]
    OBVIOUS
  <2>4. FlightSettles(g, r)
    BY <2>1, <2>2, <2>3, FlightOvertaken
  <2> QED BY <2>3, <2>4
<1> QED BY <1>1 DEF Settling

LEMMA SettlingBuild ==
  ASSUME ClockInv, Settling, NEW w \in Workers, BuildOps(w)
  PROVE  Settling'
<1>1. PICK f : f = flight[w] /\ f.at = "read" /\ FlightOK(f, db)
  BY DEF BuildOps, ClockInv
<1>2. ReadOK(f) /\ (f.combat.turn # Nobody \/ f.combat.active => db.history.cursor # 0)
  BY <1>1 DEF FlightOK, Idle, BuiltFrom
<1>3. PICK snap : snap = Over(f.combat, db)
  OBVIOUS
<1>4. DocsOK(snap)
  BY <1>2, <1>3, SnapFacts DEF ClockInv
<1>5. Once(snap.order)
  <2>1. snap["order"] = f.combat["order"]
    BY <1>2, <1>3 DEF Over, ReadOK, CombatFields
  <2>2. Once(f.combat.order)
    BY <1>1 DEF Settling, FlightSettles
  <2> QED BY <2>1, <2>2
<1>6. PICK ops : ops = build_ops(snap, f.r)
  OBVIOUS
<1>7. PICK kept : kept = Restrict(ops, {"changes", "deletes", "creates"})
  OBVIOUS
<1>8. PICK saw : saw = <<snap.round, snap.turn, snap.order>> /\ saw[3] = snap.order
  <2>1. PICK x, y, z : x = snap.round /\ y = snap.turn /\ z = snap.order
    OBVIOUS
  <2>2. PICK saw : saw = <<x, y, z>>
    OBVIOUS
  <2> QED BY <2>1, <2>2
<1>9. PICK g : g = [at |-> "built", kind |-> f.r.kind, raced |-> f.raced, torn |-> f.raced,
                    saw |-> saw, redo |-> f.r.kind = "advance" /\ CanFastForward(snap), ops |-> kept]
  OBVIOUS
<1>10. /\ db' = db /\ rules' = rules
       /\ flight' = [flight EXCEPT ![w] =
            IF db.exists /\ authorize(snap, f.r) /\ ops.err = "ok" /\ ops.d.round <= MaxRound
            THEN g ELSE Idle]
  BY <1>1, <1>3, <1>6, <1>7, <1>8, <1>9 DEF BuildOps
<1>11. CASE flight' = [flight EXCEPT ![w] = Idle]
  <2>1. PICK r : r = rules /\ FlightSettles(Idle, r)
    BY IdleSettles
  <2> QED BY <1>10, <1>11, <2>1, SettlingMovedOn
<1>12. CASE ops.err = "ok" /\ flight' = [flight EXCEPT ![w] = g]
  <2>1. /\ g.at = "built" /\ g.ops = kept /\ g.kind = f.r.kind /\ g.saw = saw
        /\ g.redo <=> f.r.kind = "advance" /\ CanFastForward(snap)
    BY <1>9
  <2>2. ASSUME g.kind = "advance", ~g.redo PROVE EndsOps(g, rules)
    <3>1. f.r.kind = "advance" /\ ~CanFastForward(snap)
      BY <2>1, <2>2
    <3>2. ops = advance(snap)
      BY <1>6, <3>1 DEF build_ops
    <3>3. OpsOK(snap, ops, 3) /\ Ends(rules, snap, ops)
      BY <1>4, <1>5, <1>12, <3>1, <3>2, AdvancedOn
    <3>4. kept.changes = ops.changes /\ kept.creates = ops.creates /\ kept.deletes = ops.deletes
      BY <1>7, <3>3 DEF Restrict, OpsOK, WorkFields
    <3> QED BY <1>8, <2>1, <3>3, <3>4 DEF EndsOps
  <2>3. FlightSettles(g, rules)
    BY <2>1, <2>2 DEF FlightSettles
  <2> QED BY <1>10, <1>12, <2>3, SettlingMovedOn
<1> QED BY <1>10, <1>11, <1>12

(* Who is in the order stays there once: the room validates what it        *)
(* stores.                                                                 *)
LEMMA ValidOnce ==
  ASSUME NEW d, DocsOK(d), Valid(d.turn, d.order)
  PROVE  Once(d.order)
<1>1. PICK X : d.order \in Seq(X)
  BY DEF DocsOK, IsSeq
<1>2. PICK s \in Seq(X) : s = d.order
  BY <1>1
<1> QED BY <1>2, CountedOnce DEF Valid

LEMMA SettlingNext ==
  ASSUME ClockInv, Settling, [Next]_vars
  PROVE  Settling'
<1>1. CASE UNCHANGED vars
  BY <1>1 DEF vars, Settling
<1>2. ASSUME NEW w \in Workers, commit_combat(w) PROVE Settling'
  <2>1. PICK free : free = [flight EXCEPT ![w] = Idle]
    OBVIOUS
  <2>2. \A u \in Workers : free[u] = flight[u] \/ free[u] = Idle
    BY <2>1 DEF ClockInv
  <2>3. rules' = rules /\ ((flight' = free /\ db' = db) \/ flight' = Overtake(free))
    BY <1>2, <2>1 DEF commit_combat
  <2>4. CASE flight' = free /\ db' = db
    <3>1. PICK r : r = rules /\ FlightSettles(Idle, r)
      BY IdleSettles
    <3> QED BY <2>1, <2>3, <2>4, <3>1, SettlingMovedOn
  <2>5. CASE flight' = Overtake(free)
    <3>1. Once(db'.order)
      <4>1. PICK after : after = Applied(flight[w].ops)
        OBVIOUS
      <4>2. \/ db' = db
            \/ db' = [db EXCEPT !.exists = FALSE, !.active = FALSE]
            \/ db' = after /\ Valid(after.turn, after.order)
        BY <1>2, <4>1 DEF commit_combat
      <4>3. CASE db' = [db EXCEPT !.exists = FALSE, !.active = FALSE]
        <5>1. db'["order"] = db["order"]
          BY <4>3 DEF ClockInv, DocsOK, Fields, Scalars
        <5> QED BY <5>1 DEF Settling
      <4>4. CASE db' = after /\ Valid(after.turn, after.order)
        <5>1. ClockInv'
          BY <1>2, CommitStep
        <5>2. PICK d : d = db' /\ DocsOK(d)
          BY <5>1 DEF ClockInv
        <5>3. Once(d.order)
          BY <4>4, <5>2, ValidOnce
        <5> QED BY <5>2, <5>3
      <4> QED BY <4>2, <4>3, <4>4 DEF Settling
    <3> QED BY <2>2, <2>3, <2>5, <3>1, SettlingOvertaken
  <2> QED BY <2>3, <2>4, <2>5
<1>3. ASSUME NEW w \in Workers, NEW r \in Requests, ReadCombat(w, r) PROVE Settling'
  <2>1. PICK combat : combat = Restrict(db, CombatFields)
    OBVIOUS
  <2>2. PICK f : f = [at |-> "read", r |-> r, raced |-> FALSE, combat |-> combat]
    OBVIOUS
  <2>3. flight' = [flight EXCEPT ![w] = f] /\ db' = db /\ rules' = rules
    BY <1>3, <2>1, <2>2 DEF ReadCombat, CombatFields
  <2>4. combat["order"] = db["order"]
    BY <2>1 DEF Restrict, CombatFields, ClockInv, DocsOK, Fields, Scalars
  <2>5. f.at = "read" /\ f.combat = combat
    BY <2>2
  <2>6. FlightSettles(f, rules)
    BY <2>4, <2>5 DEF FlightSettles, Settling
  <2> QED BY <2>3, <2>6, SettlingMovedOn
<1>4. ASSUME NEW d, d["order"] = db["order"], Write(d) PROVE Settling'
  <2>1. Once(db'.order) /\ rules' = rules /\ flight' = Overtake(flight)
    BY <1>4 DEF Write, Settling
  <2> QED BY <2>1, SettlingOvertaken
<1>5. DOMAIN db = Fields /\ "order" \in Fields
  BY DEF ClockInv, DocsOK, Fields, Scalars
<1>6. ASSUME NEW c \in Combatants, AddCombatant(c) \/ DeleteCombatant(c) \/ MoveCombatant(c)
      PROVE  Settling'
  <2>1. PICK d : Write(d) /\ \E m, a : d = [db EXCEPT !.members = m, !.away = a] \/ d = [db EXCEPT !.members = m]
    BY <1>6 DEF AddCombatant, DeleteCombatant, MoveCombatant
  <2>2. d["order"] = db["order"]
    BY <1>5, <2>1
  <2> QED BY <1>4, <2>1, <2>2
<1>7. ASSUME OtherCombat PROVE Settling'
  <2>1. PICK d : Write(d) /\ (d = [db EXCEPT !.other = TRUE, !.active = FALSE] \/ d = [db EXCEPT !.other = FALSE])
    BY <1>7 DEF OtherCombat
  <2>2. d["order"] = db["order"]
    BY <1>5, <2>1
  <2> QED BY <1>4, <2>1, <2>2
<1> QED BY <1>1, <1>2, <1>3, <1>6, <1>7, SettlingBuild DEF Next

(* Changes take nobody out of the stored documents but whom the transition *)
(* deletes.                                                                *)
LEMMA PutKeeps ==
  ASSUME NEW d, DocsOK(d), NEW snap, NEW n \in {2, 3}, NEW w, OpsOK(snap, w, n),
         NEW put, put = PutAll(d, w.changes)
  PROVE  DocsOK(put) /\ DOMAIN put.members = DOMAIN d.members
<1>1. PICK m \in Nat : m = Len(w.changes) /\ DOMAIN w.changes = 1..m
  BY DEF OpsOK, IsSeq
<1>2. PICK a : /\ a[0] = d /\ a[m] = put
               /\ \A k \in Nat : k + 1 <= m =>
                    a[k + 1] = Put(a[k], w.changes[k + 1].at, w.changes[k + 1].new)
  BY <1>1, PutChain
<1> DEFINE Good(e) == DocsOK(e) /\ DOMAIN e.members = DOMAIN d.members
<1>3. ASSUME NEW k \in Nat, k + 1 <= m, NEW e, e = a[k], Good(e) PROVE Good(a[k + 1])
  <2>1. PICK c : c = w.changes[k + 1] /\ ChangeOK(snap, w.d, c, n)
    <3>1. k + 1 \in 1..Len(w.changes)
      BY <1>1, <1>3
    <3> QED BY <3>1 DEF OpsOK
  <2>2. PICK at, v : at = c.at /\ v = c.new /\ PathOK(at, n) /\ ValueOK(at, v)
    BY <2>1 DEF ChangeOK
  <2>3. DocsOK(Put(e, at, v)) /\ DOMAIN Put(e, at, v).members = DOMAIN e.members
    BY <1>3, <2>2, PutDocs
  <2> QED BY <1>2, <1>3, <2>1, <2>2, <2>3
<1>4. PICK T : T = {k \in Nat : k <= m => Good(a[k])}
  OBVIOUS
<1> HIDE DEF Good
<1>5. m \in T
  <2>1. 0 \in T
    BY <1>2, <1>4 DEF Good
  <2>2. ASSUME NEW k \in Nat, k \in T PROVE k + 1 \in T
    BY <1>1, <1>3, <1>4, <2>2
  <2> QED BY <2>1, <2>2, NatInd
<1> QED BY <1>2, <1>4, <1>5 DEF Good

LEMMA SettlesOne ==
  ASSUME ClockInv, Settling, Next, done'.kind = "advance"
  PROVE  /\ auto_resolves(db'.turn) /\ done'.saw[3] = db.order
              => \A c \in Range(db'.order) : auto_resolves(c)
         /\ \A c \in DOMAIN db.members \ DOMAIN db'.members : c \notin Range(db'.order)
<1>1. PICK w \in Workers : commit_combat(w)
  <2>1. Nothing.kind = "none"
    BY DEF Nothing
  <2>2. done' # Nothing
    BY <2>1
  <2> QED BY <2>2 DEF Next, ReadCombat, BuildOps, AddCombatant, DeleteCombatant, MoveCombatant,
                      OtherCombat, Write
<1>2. PICK f : f = flight[w] /\ f.at = "built"
  BY <1>1 DEF commit_combat
<1>3. PICK ops, after : ops = f.ops /\ after = Applied(ops)
  OBVIOUS
<1>4. /\ done' = [kind |-> IF f.redo THEN "redo" ELSE f.kind, raced |-> f.raced, saw |-> f.saw]
      /\ db' = IF f.kind = "end" THEN [db EXCEPT !.exists = FALSE, !.active = FALSE] ELSE after
  BY <1>1, <1>2, <1>3 DEF commit_combat
<1>5. f.kind = "advance" /\ ~f.redo /\ db' = after /\ done'.saw = f.saw
  BY <1>4
<1>6. EndsOps(f, rules)
  BY <1>2, <1>5 DEF Settling, FlightSettles
<1>7. PICK snap, v : /\ OpsOK(snap, v, 3) /\ Ends(rules, snap, v) /\ f.saw[3] = snap.order
                     /\ ops.changes = v.changes /\ ops.creates = v.creates /\ ops.deletes = v.deletes
  BY <1>3, <1>6 DEF EndsOps
<1>8. PICK d, n : d = db /\ DocsOK(d) /\ n \in {2, 3} /\ n = 3 /\ OpsOK(snap, v, n)
  BY <1>7 DEF ClockInv
<1>9. after = PutMembers(PutAll(d, ops.changes), ops)
  BY <1>3, <1>8, Applies
<1>10. /\ DocsOK(after)
       /\ \A g \in Scalars : after[g] = IF Wrote(v, <<g>>) THEN v.d[g] ELSE d[g]
       /\ after.exists = d.exists /\ after.away = d.away
  BY ONLY <1>7, <1>8, <1>9, AppliedFacts, SMTT(40)
<1>11. after.turn = v.d.turn /\ after.order = IF Wrote(v, <<"order">>) THEN v.d.order ELSE d.order
  <2>1. after["turn"] = v.d["turn"]
    BY <1>7, <1>10 DEF Ends, Scalars
  <2>2. after["order"] = IF Wrote(v, <<"order">>) THEN v.d["order"] ELSE d["order"]
    BY <1>10 DEF Scalars
  <2> QED BY <2>1, <2>2
<1>12. ASSUME auto_resolves(db'.turn), done'.saw[3] = db.order, NEW c \in Range(db'.order)
       PROVE  auto_resolves(c)
  <2>1. snap.order = d.order
    BY <1>5, <1>7, <1>8, <1>12
  <2>2. after.order = v.d.order
    BY <1>7, <1>11, <2>1 DEF Ends
  <2>3. Unacted(rules, v.d.turn)
    BY <1>5, <1>11, <1>12 DEF auto_resolves, Unacted
  <2>4. Unacted(rules, c)
    BY <1>5, <1>7, <1>12, <2>2, <2>3 DEF Ends
  <2> QED BY <2>4 DEF auto_resolves, Unacted
<1>13. ASSUME NEW c \in DOMAIN db.members \ DOMAIN db'.members PROVE c \notin Range(db'.order)
  <2>1. PICK put : put = PutAll(d, v.changes)
    OBVIOUS
  <2>2. DocsOK(put) /\ DOMAIN put.members = DOMAIN d.members
    BY <1>8, <2>1, PutKeeps
  <2>3. PICK both : both = Over(ops.creates, put.members)
    OBVIOUS
  <2>4. PICK members : members = Restrict(both, DOMAIN both \ ops.deletes)
    OBVIOUS
  <2>5. after = [put EXCEPT !.members = members]
    BY <1>7, <1>9, <2>1, <2>3, <2>4 DEF PutMembers
  <2>6. after.members = members
    BY <2>2, <2>5 DEF DocsOK, Fields
  <2>7. DOMAIN members = (DOMAIN ops.creates \cup DOMAIN d.members) \ ops.deletes
    BY <2>2, <2>3, <2>4 DEF Over, Restrict
  <2>8. c \in v.deletes
    BY <1>5, <1>7, <1>8, <1>13, <2>6, <2>7
  <2>9. Wrote(v, <<"order">>) /\ c \notin Range(v.d.order)
    BY <1>7, <2>8 DEF Ends, Cleared
  <2> QED BY <1>5, <1>11, <2>9
<1> QED BY <1>12, <1>13

(* A walk that is accepted leaves the turn to somebody who acts, as long   *)
(* as there is one, unless the order changed under it; and whoever it      *)
(* deletes has left the order: for any order, lifespans and races.         *)
THEOREM TurnSettlesAlways == Spec => TurnSettlesUnlessReordered
<1>1. Init => Settling
  <2>1. SUFFICES ASSUME Init PROVE Settling
    OBVIOUS
  <2>2. PICK w \in Worlds : db.order = w.order
    <3>1. PICK w \in Worlds :
            db = [exists |-> TRUE, active |-> FALSE, round |-> 0, turn |-> Nobody, order |-> w.order,
                  history |-> [records |-> <<>>, cursor |-> 0], other |-> w.other, away |-> w.away,
                  members |-> [c \in Range(w.order) |-> Fresh(c)]]
      BY <2>1 DEF Init
    <3>2. db.order = w.order
      BY <3>1
    <3> QED BY <3>2
  <2>3. PICK s \in Seq(Combatants) : s = w.order /\ Cardinality(Range(s)) = Len(s)
    BY ClockConstants
  <2>4. Once(db.order)
    BY <2>2, <2>3, CountedOnce
  <2>5. \A u \in Workers : flight[u] = Idle
    BY <2>1 DEF Init
  <2> QED BY <2>4, <2>5, IdleSettles DEF Settling
<1>2. ClockInv /\ Settling /\ [Next]_vars => Settling'
  BY SettlingNext
<1>3. ClockInv /\ Settling /\ [Next]_vars
        => [done'.kind = "advance" =>
              /\ auto_resolves(db'.turn) /\ done'.saw[3] = db.order
                   => \A c \in Range(db'.order) : auto_resolves(c)
              /\ \A c \in DOMAIN db.members \ DOMAIN db'.members : c \notin Range(db'.order)]_vars
  BY SettlesOne
<1> QED BY <1>1, <1>2, <1>3, ClockInductive, PTL DEF Spec, TurnSettlesUnlessReordered
=============================================================================
