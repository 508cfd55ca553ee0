---------------------------- MODULE EgressProofs ----------------------------
(***************************************************************************)
(* Proofs about EgressFilter, for any documents, batches and number of     *)
(* commits.  First, what reaches the player was left visible to him by a   *)
(* commit:                                                                 *)
(*   - the four folds, unrolled;                                           *)
(*   - what a batch makes of the documents (Batch), and of the scene;      *)
(*   - what the filter lets through (Fit), and what the client makes of it;*)
(*   - the inductive invariant (EgressInv), and the theorem.               *)
(* Then, what reaches him is all he should have, but for what the filter   *)
(* loses track of:                                                         *)
(*   - the tables T a behaviour has passed through (History), and what     *)
(*     each command makes the filter lose (Recorded);                      *)
(*   - what his copy owes to the last command that touched it (Presence,   *)
(*     Faithful), and the inductive invariant (MirrorInv);                 *)
(*   - what the filter sends of each operation, and what a whole command   *)
(*     makes of a document and of its fields;                              *)
(*   - the step that sends, and the theorem.                               *)
(***************************************************************************)
EXTENDS EgressFilter, WellFoundedInduction, SequenceTheorems, TLAPS

-----------------------------------------------------------------------------
(* The inductive invariant.                                                *)

Fields == {"owner", "open", "tier", "val", "parent", "created"}
IsSeq(s) == s \in Seq(Range(s))

(* The documents, as of the n-th command.                                  *)
TableOK(table, n) ==
  /\ DOMAIN table \subseteq Ids
  /\ \A id \in DOMAIN table :
       DOMAIN table[id] = Fields /\ table[id].created \in Nat /\ table[id].created <= n

(* What a player with these rights is shown of a document.                 *)
Clear(id, doc, actors) ==
  /\ has_read(id, doc.open, effective_owner(id, doc, actors))
  /\ can_see(doc.tier, effective_owner(id, doc, actors))

Seen(id, val) == <<id, val>> \in shown

Kinds == {"create", "delete", "update", "move"}
EntryShape(c) ==
  /\ IsSeq(c.ops) /\ DOMAIN c.per_op = DOMAIN c.ops
  /\ \A i \in DOMAIN c.ops : c.ops[i].op \in Kinds /\ c.ops[i].id \in Ids

EgressTyped ==
  /\ world \in Worlds
  /\ TableOK(docs, Len(log))
  /\ IsSeq(log) /\ \A k \in 1..Len(log) : EntryShape(log[k])
  /\ published \in Nat /\ cursor \in Nat /\ cursor <= published
  /\ published <= Len(log) /\ Len(log) <= published + 1
  /\ loaded # <<>> => cursor < published
  /\ \A id \in DOMAIN replica : "val" \in DOMAIN replica[id]

(* The scene is at most one command behind, and level with the documents   *)
(* where no actor ever changed hands.                                      *)
SceneFollows ==
  /\ published = Len(log) => ecs = actorsOf(docs)
  /\ published < Len(log) => hydrated(ecs, log[published + 1].ops) = actorsOf(docs)
  /\ \A id \in Tokens : Excused(id, Forever) \/ ecs = actorsOf(docs)

DocsShown == \A id \in DOMAIN docs : Sees(docs, id) => Seen(id, docs[id].val)

(* A document the rights of now would show has been shown as it is.        *)
SafeDoc(id, doc) == Excused(id, Forever) \/ (Clear(id, doc, actorsOf(docs)) => Seen(id, doc.val))

LoadedShown == loaded # <<>> => \A id \in DOMAIN current : SafeDoc(id, current[id])

CreateShown(o) == o.op = "create" => "val" \in DOMAIN o.doc /\ SafeDoc(o.id, o.doc)
CreatesShown == \A k \in 1..Len(log) : \A i \in DOMAIN log[k].ops : CreateShown(log[k].ops[i])

(* A value written while the rights of its commit show it was shown, or    *)
(* the document was deleted by the same command: then neither the documents*)
(* stored nor those the filter loads have it, unless its id was used again.*)
UpdateShown(k, o, s) ==
  o.op = "update" =>
    /\ "val" \in DOMAIN o.set => o.set.val = k
    /\ s.created = Unwitnessed =>
         /\ o.id \in DOMAIN docs => UsedAgain(k, o.id)
         /\ loaded # <<>> /\ k <= cursor + 1 /\ o.id \in DOMAIN current => UsedAgain(k, o.id)
    /\ /\ "val" \in DOMAIN o.set /\ s.created # Unwitnessed
       /\ has_read(o.id, s.open, s.owner) /\ can_see(s.tier, s.owner)
       => Seen(o.id, o.set.val)

UpdatesShown ==
  \A k \in 1..Len(log) : \A i \in DOMAIN log[k].ops :
    UpdateShown(k, log[k].ops[i], log[k].per_op[i])

EgressInv ==
  /\ EgressTyped /\ SceneFollows /\ DocsShown /\ LoadedShown /\ CreatesShown /\ UpdatesShown
  /\ OnlyShownUnlessReowned

-----------------------------------------------------------------------------
(* Induction, without an operator as its parameter: over a set of          *)
(* naturals.                                                               *)

LEMMA NatInd ==
  ASSUME NEW S, 0 \in S, \A n \in Nat : n \in S => n + 1 \in S
  PROVE Nat \subseteq S
<1> SUFFICES ASSUME {n \in Nat : n \notin S} # {} PROVE FALSE
  OBVIOUS
<1>1. PICK T \in SUBSET Nat : T = {n \in Nat : n \notin S}
  OBVIOUS
<1>2. IsWellFoundedOn({p \in Nat \X Nat : p[1] < p[2]}, Nat)
  BY NatLessThanWellFounded DEF OpToRel
<1>3. PICK R : R = {p \in Nat \X Nat : p[1] < p[2]}
  OBVIOUS
<1>4. PICK x \in T : \A y \in T : ~(<<y, x>> \in R)
  BY <1>1, <1>2, <1>3, WFMin
<1>5. \A y \in T : ~(y < x)
  BY <1>1, <1>3, <1>4
<1>6. x \in Nat /\ x # 0 /\ x - 1 \in Nat /\ x - 1 \notin T
  BY <1>1, <1>5
<1> QED BY <1>1, <1>6

LEMMA UpTo ==
  ASSUME NEW k \in Nat
  PROVE  /\ 1..k + 1 # {} /\ Max(1..k + 1) = k + 1
         /\ (1..k + 1) \ {k + 1} = 1..k
         /\ \A s \in SUBSET (1..k + 1) : k + 1 \in s => Max(s) = k + 1
<1>1. ASSUME NEW s \in SUBSET (1..k + 1), k + 1 \in s PROVE Max(s) = k + 1
  <2>1. \A y \in s : k + 1 >= y
    BY <1>1
  <2>2. \A x \in s : (\A y \in s : x >= y) => x = k + 1
    BY <1>1
  <2> QED BY <1>1, <2>1, <2>2 DEF Max
<1>2. k + 1 \in 1..k + 1 /\ 1..k + 1 \in SUBSET (1..k + 1)
  OBVIOUS
<1> QED BY <1>1, <1>2

(* What a batch is applied to. *)
Fresh(table) == [ok |-> TRUE, docs |-> table, images |-> <<>>]

(* The four folds, unrolled: the values each passes through.               *)

LEMMA AppliedUnrolled ==
  ASSUME NEW table, NEW ops, IsSeq(ops)
  PROVE  \E it : /\ it[0] = Fresh(table) /\ it[Len(ops)] = applied(table, ops)
                 /\ \A k \in Nat : k + 1 <= Len(ops) => it[k + 1] = Apply(it[k], ops[k + 1])
<1> DEFINE Iter(h, k) == h = [s \in SUBSET (1..k) |->
             IF s = {} THEN Fresh(table) ELSE Apply(h[s \ {Max(s)}], ops[Max(s)])]
<1>1. PICK n \in Nat : n = Len(ops) /\ DOMAIN ops = 1..n
  BY DEF IsSeq
<1>2. applied(table, ops) = (CHOOSE h : Iter(h, n))[1..n]
  BY <1>1, Zenon DEF applied, Fresh, FoldLeft, MapThenFoldSet
<1>3. ASSUME NEW k \in Nat, NEW h, Iter(h, k) PROVE \E g : Iter(g, k + 1)
  <2> DEFINE g == [s \in SUBSET (1..k + 1) |->
        IF k + 1 \in s THEN Apply(h[s \ {k + 1}], ops[k + 1]) ELSE h[s]]
  <2>1. ASSUME NEW s \in SUBSET (1..k + 1)
        PROVE  g[s] = IF s = {} THEN Fresh(table) ELSE Apply(g[s \ {Max(s)}], ops[Max(s)])
    <3>1. CASE k + 1 \in s
      <4>1. Max(s) = k + 1 /\ s # {} /\ s \ {k + 1} \in SUBSET (1..k)
        BY <3>1, UpTo
      <4>2. s \ {k + 1} \in SUBSET (1..k + 1) /\ k + 1 \notin s \ {k + 1}
        OBVIOUS
      <4>3. g[s \ {k + 1}] = h[s \ {k + 1}]
        BY <4>2
      <4> QED BY <3>1, <4>1, <4>3
    <3>2. CASE k + 1 \notin s
      <4>1. s \in SUBSET (1..k) /\ s \ {Max(s)} \in SUBSET (1..k) /\ k + 1 \notin s \ {Max(s)}
        <5>1. \A x \in s : x \in 1..k
          BY <3>2
        <5> QED BY <3>2, <5>1
      <4>2. s \ {Max(s)} \in SUBSET (1..k + 1)
        OBVIOUS
      <4>3. g[s] = h[s] /\ g[s \ {Max(s)}] = h[s \ {Max(s)}]
        BY <3>2, <4>1, <4>2
      <4> QED BY <1>3, <4>1, <4>3
    <3> QED BY <3>1, <3>2
  <2>2. Iter(g, k + 1)
    BY <2>1
  <2> QED BY <2>2
<1>4. PICK w : w = (CHOOSE h : Iter(h, n)) /\ Iter(w, n)
  <2>1. Iter([s \in SUBSET (1..0) |-> Fresh(table)], 0)
    OBVIOUS
  <2>2. PICK T : T = {k \in Nat : \E h : Iter(h, k)}
    OBVIOUS
  <2> HIDE DEF Iter
  <2>3. 0 \in T
    BY <2>1, <2>2
  <2>4. ASSUME NEW k \in Nat, k \in T PROVE k + 1 \in T
    BY <1>3, <2>2, <2>4
  <2>5. Nat \subseteq T
    BY <2>3, <2>4, NatInd
  <2> QED BY <1>1, <2>2, <2>5
<1> DEFINE it == [k \in 0..n |-> w[1..k]]
<1>5. it[0] = Fresh(table)
  <2>1. 1..0 \in SUBSET (1..n) /\ 1..0 = {} /\ it[0] = w[1..0]
    BY <1>1
  <2> QED BY <1>4, <2>1
<1>6. ASSUME NEW k \in Nat, k + 1 <= n PROVE it[k + 1] = Apply(it[k], ops[k + 1])
  <2>1. 1..k + 1 \in SUBSET (1..n) /\ it[k] = w[1..k] /\ it[k + 1] = w[1..k + 1]
    BY <1>1, <1>6
  <2>2. 1..k + 1 # {} /\ Max(1..k + 1) = k + 1 /\ (1..k + 1) \ {k + 1} = 1..k
    BY UpTo
  <2>3. w[1..k + 1] = Apply(w[1..k], ops[k + 1])
    BY <1>4, <2>1, <2>2
  <2> QED BY <2>1, <2>3
<1>7. it[n] = applied(table, ops)
  BY <1>1, <1>2, <1>4
<1> QED BY <1>1, <1>5, <1>6, <1>7

LEMMA HydratedUnrolled ==
  ASSUME NEW actors, NEW ops, IsSeq(ops)
  PROVE  \E it : /\ it[0] = actors /\ it[Len(ops)] = hydrated(actors, ops)
                 /\ \A k \in Nat : k + 1 <= Len(ops) => it[k + 1] = apply_op(it[k], ops[k + 1])
<1> DEFINE Iter(h, k) == h = [s \in SUBSET (1..k) |->
             IF s = {} THEN actors ELSE apply_op(h[s \ {Max(s)}], ops[Max(s)])]
<1>1. PICK n \in Nat : n = Len(ops) /\ DOMAIN ops = 1..n
  BY DEF IsSeq
<1>2. hydrated(actors, ops) = (CHOOSE h : Iter(h, n))[1..n]
  BY <1>1, Zenon DEF hydrated, FoldLeft, MapThenFoldSet
<1>3. ASSUME NEW k \in Nat, NEW h, Iter(h, k) PROVE \E g : Iter(g, k + 1)
  <2> DEFINE g == [s \in SUBSET (1..k + 1) |->
        IF k + 1 \in s THEN apply_op(h[s \ {k + 1}], ops[k + 1]) ELSE h[s]]
  <2>1. ASSUME NEW s \in SUBSET (1..k + 1)
        PROVE  g[s] = IF s = {} THEN actors ELSE apply_op(g[s \ {Max(s)}], ops[Max(s)])
    <3>1. CASE k + 1 \in s
      <4>1. Max(s) = k + 1 /\ s # {} /\ s \ {k + 1} \in SUBSET (1..k)
        BY <3>1, UpTo
      <4>2. s \ {k + 1} \in SUBSET (1..k + 1) /\ k + 1 \notin s \ {k + 1}
        OBVIOUS
      <4>3. g[s \ {k + 1}] = h[s \ {k + 1}]
        BY <4>2
      <4> QED BY <3>1, <4>1, <4>3
    <3>2. CASE k + 1 \notin s
      <4>1. s \in SUBSET (1..k) /\ s \ {Max(s)} \in SUBSET (1..k) /\ k + 1 \notin s \ {Max(s)}
        <5>1. \A x \in s : x \in 1..k
          BY <3>2
        <5> QED BY <3>2, <5>1
      <4>2. s \ {Max(s)} \in SUBSET (1..k + 1)
        OBVIOUS
      <4>3. g[s] = h[s] /\ g[s \ {Max(s)}] = h[s \ {Max(s)}]
        BY <3>2, <4>1, <4>2
      <4> QED BY <1>3, <4>1, <4>3
    <3> QED BY <3>1, <3>2
  <2>2. Iter(g, k + 1)
    BY <2>1
  <2> QED BY <2>2
<1>4. PICK w : w = (CHOOSE h : Iter(h, n)) /\ Iter(w, n)
  <2>1. Iter([s \in SUBSET (1..0) |-> actors], 0)
    OBVIOUS
  <2>2. PICK T : T = {k \in Nat : \E h : Iter(h, k)}
    OBVIOUS
  <2> HIDE DEF Iter
  <2>3. 0 \in T
    BY <2>1, <2>2
  <2>4. ASSUME NEW k \in Nat, k \in T PROVE k + 1 \in T
    BY <1>3, <2>2, <2>4
  <2>5. Nat \subseteq T
    BY <2>3, <2>4, NatInd
  <2> QED BY <1>1, <2>2, <2>5
<1> DEFINE it == [k \in 0..n |-> w[1..k]]
<1>5. it[0] = actors
  <2>1. 1..0 \in SUBSET (1..n) /\ 1..0 = {} /\ it[0] = w[1..0]
    BY <1>1
  <2> QED BY <1>4, <2>1
<1>6. ASSUME NEW k \in Nat, k + 1 <= n PROVE it[k + 1] = apply_op(it[k], ops[k + 1])
  <2>1. 1..k + 1 \in SUBSET (1..n) /\ it[k] = w[1..k] /\ it[k + 1] = w[1..k + 1]
    BY <1>1, <1>6
  <2>2. 1..k + 1 # {} /\ Max(1..k + 1) = k + 1 /\ (1..k + 1) \ {k + 1} = 1..k
    BY UpTo
  <2>3. w[1..k + 1] = apply_op(w[1..k], ops[k + 1])
    BY <1>4, <2>1, <2>2
  <2> QED BY <2>1, <2>3
<1>7. it[n] = hydrated(actors, ops)
  BY <1>1, <1>2, <1>4
<1> QED BY <1>1, <1>5, <1>6, <1>7

LEMMA CommandUnrolled ==
  ASSUME NEW table, NEW ops, IsSeq(ops)
  PROVE  \E it : /\ it[0] = table /\ it[Len(ops)] = applyCommand(table, ops)
                 /\ \A k \in Nat : k + 1 <= Len(ops) => it[k + 1] = applyOperation(it[k], ops[k + 1])
<1> DEFINE Iter(h, k) == h = [s \in SUBSET (1..k) |->
             IF s = {} THEN table ELSE applyOperation(h[s \ {Max(s)}], ops[Max(s)])]
<1>1. PICK n \in Nat : n = Len(ops) /\ DOMAIN ops = 1..n
  BY DEF IsSeq
<1>2. applyCommand(table, ops) = (CHOOSE h : Iter(h, n))[1..n]
  BY <1>1, Zenon DEF applyCommand, FoldLeft, MapThenFoldSet
<1>3. ASSUME NEW k \in Nat, NEW h, Iter(h, k) PROVE \E g : Iter(g, k + 1)
  <2> DEFINE g == [s \in SUBSET (1..k + 1) |->
        IF k + 1 \in s THEN applyOperation(h[s \ {k + 1}], ops[k + 1]) ELSE h[s]]
  <2>1. ASSUME NEW s \in SUBSET (1..k + 1)
        PROVE  g[s] = IF s = {} THEN table ELSE applyOperation(g[s \ {Max(s)}], ops[Max(s)])
    <3>1. CASE k + 1 \in s
      <4>1. Max(s) = k + 1 /\ s # {} /\ s \ {k + 1} \in SUBSET (1..k)
        BY <3>1, UpTo
      <4>2. s \ {k + 1} \in SUBSET (1..k + 1) /\ k + 1 \notin s \ {k + 1}
        OBVIOUS
      <4>3. g[s \ {k + 1}] = h[s \ {k + 1}]
        BY <4>2
      <4> QED BY <3>1, <4>1, <4>3
    <3>2. CASE k + 1 \notin s
      <4>1. s \in SUBSET (1..k) /\ s \ {Max(s)} \in SUBSET (1..k) /\ k + 1 \notin s \ {Max(s)}
        <5>1. \A x \in s : x \in 1..k
          BY <3>2
        <5> QED BY <3>2, <5>1
      <4>2. s \ {Max(s)} \in SUBSET (1..k + 1)
        OBVIOUS
      <4>3. g[s] = h[s] /\ g[s \ {Max(s)}] = h[s \ {Max(s)}]
        BY <3>2, <4>1, <4>2
      <4> QED BY <1>3, <4>1, <4>3
    <3> QED BY <3>1, <3>2
  <2>2. Iter(g, k + 1)
    BY <2>1
  <2> QED BY <2>2
<1>4. PICK w : w = (CHOOSE h : Iter(h, n)) /\ Iter(w, n)
  <2>1. Iter([s \in SUBSET (1..0) |-> table], 0)
    OBVIOUS
  <2>2. PICK T : T = {k \in Nat : \E h : Iter(h, k)}
    OBVIOUS
  <2> HIDE DEF Iter
  <2>3. 0 \in T
    BY <2>1, <2>2
  <2>4. ASSUME NEW k \in Nat, k \in T PROVE k + 1 \in T
    BY <1>3, <2>2, <2>4
  <2>5. Nat \subseteq T
    BY <2>3, <2>4, NatInd
  <2> QED BY <1>1, <2>2, <2>5
<1> DEFINE it == [k \in 0..n |-> w[1..k]]
<1>5. it[0] = table
  <2>1. 1..0 \in SUBSET (1..n) /\ 1..0 = {} /\ it[0] = w[1..0]
    BY <1>1
  <2> QED BY <1>4, <2>1
<1>6. ASSUME NEW k \in Nat, k + 1 <= n PROVE it[k + 1] = applyOperation(it[k], ops[k + 1])
  <2>1. 1..k + 1 \in SUBSET (1..n) /\ it[k] = w[1..k] /\ it[k + 1] = w[1..k + 1]
    BY <1>1, <1>6
  <2>2. 1..k + 1 # {} /\ Max(1..k + 1) = k + 1 /\ (1..k + 1) \ {k + 1} = 1..k
    BY UpTo
  <2>3. w[1..k + 1] = applyOperation(w[1..k], ops[k + 1])
    BY <1>4, <2>1, <2>2
  <2> QED BY <2>1, <2>3
<1>7. it[n] = applyCommand(table, ops)
  BY <1>1, <1>2, <1>4
<1> QED BY <1>1, <1>5, <1>6, <1>7

LEMMA FilterUnrolled ==
  ASSUME NEW c, IsSeq(c.ops)
  PROVE  \E it : /\ it[0] = <<>> /\ it[Len(c.ops)] = filter_command(c)
                 /\ \A k \in Nat : k + 1 <= Len(c.ops) => it[k + 1] = it[k] \o filter_op(c, k + 1)
<1> DEFINE nth == [i \in DOMAIN c.ops |-> i]
           Step(out, i) == out \o filter_op(c, nth[i])
           Iter(h, k) == h = [s \in SUBSET (1..k) |->
             IF s = {} THEN <<>> ELSE Step(h[s \ {Max(s)}], Max(s))]
<1>1. PICK n \in Nat : n = Len(c.ops) /\ DOMAIN nth = 1..n /\ \A i \in 1..n : nth[i] = i
  BY DEF IsSeq
<1>2. filter_command(c) = (CHOOSE h : Iter(h, n))[1..n]
  BY <1>1, Zenon DEF filter_command, FoldLeftDomain, FoldLeft, MapThenFoldSet
<1> HIDE DEF Step
<1>3. ASSUME NEW k \in Nat, NEW h, Iter(h, k) PROVE \E g : Iter(g, k + 1)
  <2> DEFINE g == [s \in SUBSET (1..k + 1) |->
        IF k + 1 \in s THEN Step(h[s \ {k + 1}], k + 1) ELSE h[s]]
  <2>1. ASSUME NEW s \in SUBSET (1..k + 1)
        PROVE  g[s] = IF s = {} THEN <<>> ELSE Step(g[s \ {Max(s)}], Max(s))
    <3>1. CASE k + 1 \in s
      <4>1. Max(s) = k + 1 /\ s # {} /\ s \ {k + 1} \in SUBSET (1..k)
        BY <3>1, UpTo
      <4>2. s \ {k + 1} \in SUBSET (1..k + 1) /\ k + 1 \notin s \ {k + 1}
        OBVIOUS
      <4>3. g[s \ {k + 1}] = h[s \ {k + 1}]
        BY <4>2
      <4> QED BY <3>1, <4>1, <4>3
    <3>2. CASE k + 1 \notin s
      <4>1. s \in SUBSET (1..k) /\ s \ {Max(s)} \in SUBSET (1..k) /\ k + 1 \notin s \ {Max(s)}
        <5>1. \A x \in s : x \in 1..k
          BY <3>2
        <5> QED BY <3>2, <5>1
      <4>2. s \ {Max(s)} \in SUBSET (1..k + 1)
        OBVIOUS
      <4>3. g[s] = h[s] /\ g[s \ {Max(s)}] = h[s \ {Max(s)}]
        BY <3>2, <4>1, <4>2
      <4> QED BY <1>3, <4>1, <4>3
    <3> QED BY <3>1, <3>2
  <2>2. Iter(g, k + 1)
    BY <2>1
  <2> QED BY <2>2
<1>4. PICK w : w = (CHOOSE h : Iter(h, n)) /\ Iter(w, n)
  <2>1. Iter([s \in SUBSET (1..0) |-> <<>>], 0)
    OBVIOUS
  <2>2. PICK T : T = {k \in Nat : \E h : Iter(h, k)}
    OBVIOUS
  <2> HIDE DEF Iter
  <2>3. 0 \in T
    BY <2>1, <2>2
  <2>4. ASSUME NEW k \in Nat, k \in T PROVE k + 1 \in T
    BY <1>3, <2>2, <2>4
  <2>5. Nat \subseteq T
    BY <2>3, <2>4, NatInd
  <2> QED BY <1>1, <2>2, <2>5
<1> DEFINE it == [k \in 0..n |-> w[1..k]]
<1>5. it[0] = <<>>
  <2>1. 1..0 \in SUBSET (1..n) /\ 1..0 = {} /\ it[0] = w[1..0]
    BY <1>1
  <2> QED BY <1>4, <2>1
<1>6. ASSUME NEW k \in Nat, k + 1 <= n PROVE it[k + 1] = it[k] \o filter_op(c, k + 1)
  <2>1. 1..k + 1 \in SUBSET (1..n) /\ it[k] = w[1..k] /\ it[k + 1] = w[1..k + 1]
    BY <1>1, <1>6
  <2>2. 1..k + 1 # {} /\ Max(1..k + 1) = k + 1 /\ (1..k + 1) \ {k + 1} = 1..k
    BY UpTo
  <2>3. w[1..k + 1] = Step(w[1..k], k + 1)
    BY <1>4, <2>1, <2>2
  <2>4. nth[k + 1] = k + 1
    BY <1>1, <1>6
  <2> QED BY <2>1, <2>3, <2>4 DEF Step
<1>7. it[n] = filter_command(c)
  BY <1>1, <1>2, <1>4
<1> QED BY <1>1, <1>5, <1>6, <1>7

-----------------------------------------------------------------------------
(* What the operators on tables and sequences give.                        *)

LEMMA SeqFacts ==
  ASSUME NEW s, IsSeq(s)
  PROVE  /\ Len(s) \in Nat /\ DOMAIN s = 1..Len(s)
         /\ \A i \in DOMAIN s : s[i] \in Range(s)
         /\ \A x \in Range(s) : \E i \in DOMAIN s : x = s[i]
BY DEF IsSeq, Range

LEMMA AppendFacts ==
  ASSUME NEW s, IsSeq(s), NEW e
  PROVE  /\ IsSeq(Append(s, e)) /\ Len(Append(s, e)) = Len(s) + 1
         /\ Append(s, e)[Len(s) + 1] = e
         /\ \A i \in 1..Len(s) : Append(s, e)[i] = s[i]
<1>1. PICK S : S = Range(s) \cup {e} /\ s \in Seq(S) /\ e \in S
  <2>1. PICK R, S : R = Range(s) /\ S = Range(s) \cup {e}
    OBVIOUS
  <2>2. s \in Seq(R) /\ R \subseteq S /\ e \in S
    BY <2>1 DEF IsSeq
  <2>3. s \in Seq(S)
    BY <2>2
  <2> QED BY <2>1, <2>2, <2>3
<1>2. /\ Append(s, e) \in Seq(S) /\ Len(Append(s, e)) = Len(s) + 1
      /\ Append(s, e)[Len(s) + 1] = e
      /\ \A i \in 1..Len(s) : Append(s, e)[i] = s[i]
  BY <1>1
<1>3. PICK new \in Seq(S) : new = Append(s, e)
  BY <1>2
<1>4. \A i \in 1..Len(new) : new[i] \in Range(new)
  BY <1>3 DEF Range
<1>5. new \in Seq(Range(new))
  BY <1>3, <1>4
<1> QED BY <1>2, <1>3, <1>5 DEF IsSeq

LEMMA OverFacts ==
  ASSUME NEW f, NEW g
  PROVE  /\ DOMAIN Over(f, g) = DOMAIN f \cup DOMAIN g
         /\ \A x \in DOMAIN f : Over(f, g)[x] = f[x]
         /\ \A x \in DOMAIN g : x \notin DOMAIN f => Over(f, g)[x] = g[x]
BY DEF Over

LEMMA WithoutFacts ==
  ASSUME NEW table, NEW id
  PROVE  /\ DOMAIN Without(table, id) = DOMAIN table \ {id}
         /\ \A x \in DOMAIN table : x # id => Without(table, id)[x] = table[x]
BY DEF Without, Restrict

-----------------------------------------------------------------------------
(* What a batch makes of the documents.  Its operations are stamped with   *)
(* the command's number, and it creates what is not stored and touches     *)
(* what is.                                                                *)

Asked == {"owner", "open", "tier", "val"}
OpOK(o, table, n) ==
  /\ o.op \in Kinds /\ o.id \in Ids
  /\ o.op = "create" => /\ o.id \notin DOMAIN table
                        /\ DOMAIN o.doc = Fields /\ o.doc.created = n /\ o.doc.val = n
  /\ o.op # "create" => o.id \in DOMAIN table
  /\ o.op = "update" => /\ DOMAIN o.set \subseteq Asked
                        /\ "val" \in DOMAIN o.set => o.set.val = n
Batch(ops, table, n) == IsSeq(ops) /\ \A j \in DOMAIN ops : OpOK(ops[j], table, n)

Alone(ops, j) == \A i \in DOMAIN ops : ops[i].id = ops[j].id /\ ops[i].op = "create" => i = j

(* A document the batch has written is of the generation stored, or new.   *)
Descends(table, n, id, doc) ==
  /\ id \in Ids /\ DOMAIN doc = Fields
  /\ doc.created = IF id \in DOMAIN table THEN table[id].created ELSE n

(* After the first k operations.                                           *)
WritesValAt(o) == o.op = "update" /\ "val" \in DOMAIN o.set
PartDocs(v, table, n) ==
  /\ \A id \in DOMAIN v.docs : Descends(table, n, id, v.docs[id])
  /\ \A id \in DOMAIN v.images : Descends(table, n, id, v.images[id])
  /\ \A id \in DOMAIN v.docs : id \in DOMAIN v.images => v.docs[id] = v.images[id]
PartOps(v, ops, n, k) ==
  \A j \in 1..k :
    /\ ops[j].op # "delete" => ops[j].id \in DOMAIN v.images
    /\ WritesValAt(ops[j]) => v.images[ops[j].id].val = n
    /\ ops[j].op = "create" /\ Alone(ops, j) =>
         ops[j].id \in DOMAIN v.docs /\ v.docs[ops[j].id] = ops[j].doc
Part(v, table, ops, n, k) ==
  /\ v = [ok |-> TRUE, docs |-> v.docs, images |-> v.images]
  /\ PartDocs(v, table, n) /\ PartOps(v, ops, n, k)

LEMMA WrittenStep ==
  ASSUME NEW table, NEW n, NEW ops, Batch(ops, table, n), NEW k \in Nat, k + 1 <= Len(ops),
         NEW v, Part(v, table, ops, n, k), NEW doc,
         ops[k + 1].op # "delete",
         Descends(table, n, ops[k + 1].id, doc),
         ops[k + 1].op = "create" => doc = ops[k + 1].doc,
         ops[k + 1].op # "create" =>
           /\ ops[k + 1].id \in DOMAIN v.docs
           /\ doc.val = v.docs[ops[k + 1].id].val \/ doc.val = n,
         WritesValAt(ops[k + 1]) => doc.val = n
  PROVE  Part(Written(v, ops[k + 1].id, doc), table, ops, n, k + 1)
<1>1. PICK o, id : o = ops[k + 1] /\ id = o.id
  OBVIOUS
<1>2. PICK w : w = Written(v, id, doc)
  OBVIOUS
<1>3. w = [ok |-> TRUE, docs |-> Put(v.docs, id, doc), images |-> Put(v.images, id, doc)]
  BY <1>2 DEF Written
<1>4. w = [ok |-> TRUE, docs |-> w.docs, images |-> w.images]
      /\ w.docs = Put(v.docs, id, doc) /\ w.images = Put(v.images, id, doc)
  BY <1>3
<1>5. /\ DOMAIN w.docs = DOMAIN v.docs \cup {id} /\ w.docs[id] = doc
      /\ \A x \in DOMAIN v.docs : x # id => w.docs[x] = v.docs[x]
      /\ DOMAIN w.images = DOMAIN v.images \cup {id} /\ w.images[id] = doc
      /\ \A x \in DOMAIN v.images : x # id => w.images[x] = v.images[x]
  <2>1. PICK a, b : a = v.docs /\ b = v.images
    OBVIOUS
  <2>2. /\ DOMAIN Put(a, id, doc) = DOMAIN a \cup {id} /\ Put(a, id, doc)[id] = doc
        /\ \A x \in DOMAIN a : x # id => Put(a, id, doc)[x] = a[x]
    BY DEF Put, Over
  <2>3. /\ DOMAIN Put(b, id, doc) = DOMAIN b \cup {id} /\ Put(b, id, doc)[id] = doc
        /\ \A x \in DOMAIN b : x # id => Put(b, id, doc)[x] = b[x]
    BY DEF Put, Over
  <2> QED BY <1>4, <2>1, <2>2, <2>3
<1>6. PartDocs(w, table, n)
  <2>1. PartDocs(v, table, n)
    BY DEF Part
  <2>2. Descends(table, n, id, doc)
    BY <1>1
  <2>3. ASSUME NEW x \in DOMAIN w.docs
        PROVE Descends(table, n, x, w.docs[x]) /\ (x \in DOMAIN w.images => w.docs[x] = w.images[x])
    <3>1. CASE x = id
      BY <1>5, <2>2, <3>1
    <3>2. CASE x # id
      BY <1>5, <2>1, <3>2 DEF PartDocs
    <3> QED BY <3>1, <3>2
  <2>4. ASSUME NEW x \in DOMAIN w.images PROVE Descends(table, n, x, w.images[x])
    <3>1. CASE x = id
      BY <1>5, <2>2, <3>1
    <3>2. CASE x # id
      BY <1>5, <2>1, <3>2 DEF PartDocs
    <3> QED BY <3>1, <3>2
  <2> QED BY <2>3, <2>4 DEF PartDocs
<1>7. \A j \in 1..k + 1 : j \in DOMAIN ops /\ OpOK(ops[j], table, n)
  BY SeqFacts DEF Batch
<1>8. ASSUME NEW j \in 1..k + 1
      PROVE  /\ ops[j].op # "delete" => ops[j].id \in DOMAIN w.images
             /\ WritesValAt(ops[j]) => w.images[ops[j].id].val = n
             /\ ops[j].op = "create" /\ Alone(ops, j) =>
                  ops[j].id \in DOMAIN w.docs /\ w.docs[ops[j].id] = ops[j].doc
  <2>1. CASE j = k + 1
    BY <1>1, <1>5, <2>1
  <2>2. CASE j # k + 1
    <3>1. /\ ops[j].op # "delete" => ops[j].id \in DOMAIN v.images
          /\ WritesValAt(ops[j]) => v.images[ops[j].id].val = n
          /\ ops[j].op = "create" /\ Alone(ops, j) =>
               ops[j].id \in DOMAIN v.docs /\ v.docs[ops[j].id] = ops[j].doc
      <4>1. j \in 1..k
        BY <2>2
      <4> QED BY <4>1 DEF Part, PartOps
    <3>2. CASE ops[j].id # id
      BY <1>5, <3>1, <3>2 DEF WritesValAt
    <3>3. CASE ops[j].id = id
      <4>1. ops[j].op = "create" <=> o.op = "create"
        BY <1>1, <1>7, <3>3 DEF OpOK
      <4>2. ops[j].op = "create" /\ Alone(ops, j) => FALSE
        BY <1>1, <1>7, <2>2, <3>3, <4>1 DEF Alone
      <4>3. WritesValAt(ops[j]) => doc.val = n
        <5>1. ASSUME WritesValAt(ops[j]) PROVE doc.val = n
          <6>1. o.op # "create" /\ v.images[id].val = n /\ id \in DOMAIN v.images
            BY <3>1, <3>3, <4>1, <5>1 DEF WritesValAt
          <6>2. v.docs[id] = v.images[id]
            BY <1>1, <6>1 DEF Part, PartDocs
          <6> QED BY <1>1, <6>1, <6>2
        <5> QED BY <5>1
      <4> QED BY <1>5, <3>3, <4>2, <4>3
    <3> QED BY <3>2, <3>3
  <2> QED BY <2>1, <2>2
<1> QED BY <1>1, <1>2, <1>4, <1>6, <1>8 DEF Part, PartOps

LEMMA ApplyStep ==
  ASSUME NEW table, NEW n, NEW ops, Batch(ops, table, n), NEW k \in Nat, k + 1 <= Len(ops),
         NEW v, Part(v, table, ops, n, k), Apply(v, ops[k + 1]).ok
  PROVE  /\ Part(Apply(v, ops[k + 1]), table, ops, n, k + 1)
         /\ apply_op(actorsOf(v.docs), ops[k + 1]) = actorsOf(Apply(v, ops[k + 1]).docs)
<1>1. PICK o, id : o = ops[k + 1] /\ id = o.id /\ OpOK(o, table, n)
  BY SeqFacts DEF Batch
<1>2. v.ok = TRUE /\ v = [ok |-> TRUE, docs |-> v.docs, images |-> v.images] /\ PartDocs(v, table, n)
  BY DEF Part
<1>3. PICK w : w = Apply(v, o)
  OBVIOUS
<1>4. ASSUME NEW doc, w = Written(v, id, doc)
      PROVE  actorsOf(w.docs) = IF id = Actor THEN Owned(doc.owner) ELSE actorsOf(v.docs)
  <2>1. w.docs = Put(v.docs, id, doc)
    BY <1>4 DEF Written
  <2>2. PICK new : new = w.docs /\ DOMAIN new = DOMAIN v.docs \cup {id} /\ new[id] = doc
                   /\ \A x \in DOMAIN v.docs : x # id => new[x] = v.docs[x]
    <3>1. PICK a : a = v.docs
      OBVIOUS
    <3>2. /\ DOMAIN Put(a, id, doc) = DOMAIN a \cup {id} /\ Put(a, id, doc)[id] = doc
          /\ \A x \in DOMAIN a : x # id => Put(a, id, doc)[x] = a[x]
      BY DEF Put, Over
    <3> QED BY <2>1, <3>1, <3>2
  <2>3. CASE id = Actor
    BY <2>2, <2>3 DEF actorsOf, Owned
  <2>4. CASE id # Actor
    BY <2>2, <2>4 DEF actorsOf
  <2> QED BY <2>2, <2>3, <2>4
<1>5. CASE o.op = "create"
  <2>1. w = Written(v, id, o.doc)
    BY <1>1, <1>2, <1>3, <1>5 DEF Apply
  <2>2. Descends(table, n, id, o.doc)
    BY <1>1, <1>5 DEF OpOK, Descends
  <2>3. ~WritesValAt(o)
    BY <1>5 DEF WritesValAt
  <2>4. Part(w, table, ops, n, k + 1)
    BY <1>1, <1>5, <2>1, <2>2, <2>3, WrittenStep
  <2>5. apply_op(actorsOf(v.docs), o) = IF id = Actor THEN Owned(o.doc.owner) ELSE actorsOf(v.docs)
    BY <1>1, <1>5 DEF apply_op
  <2> QED BY <1>1, <1>3, <1>4, <2>1, <2>4, <2>5
<1>6. CASE o.op = "delete"
  <2>1. w = [v EXCEPT !.docs = Without(v.docs, id)]
    BY <1>1, <1>2, <1>3, <1>6 DEF Apply
  <2>2. PICK new : new = Without(v.docs, id) /\ w = [ok |-> TRUE, docs |-> new, images |-> v.images]
                   /\ DOMAIN new = DOMAIN v.docs \ {id}
                   /\ \A x \in DOMAIN v.docs : x # id => new[x] = v.docs[x]
    <3>1. PICK a : a = v.docs
      OBVIOUS
    <3>2. /\ DOMAIN Without(a, id) = DOMAIN a \ {id}
          /\ \A x \in DOMAIN a : x # id => Without(a, id)[x] = a[x]
      BY WithoutFacts, Zenon
    <3>3. w = [ok |-> TRUE, docs |-> Without(a, id), images |-> v.images]
      BY <1>2, <2>1, <3>1
    <3> QED BY <3>1, <3>2, <3>3
  <2>3. w.docs = new /\ w.images = v.images /\ w = [ok |-> TRUE, docs |-> w.docs, images |-> w.images]
    BY <2>2
  <2>4. PartDocs(w, table, n)
    BY <1>2, <2>2, <2>3 DEF PartDocs
  <2>5. ASSUME NEW j \in 1..k + 1
        PROVE  /\ ops[j].op # "delete" => ops[j].id \in DOMAIN w.images
               /\ WritesValAt(ops[j]) => w.images[ops[j].id].val = n
               /\ ops[j].op = "create" /\ Alone(ops, j) =>
                    ops[j].id \in DOMAIN w.docs /\ w.docs[ops[j].id] = ops[j].doc
    <3>1. CASE j = k + 1
      BY <1>1, <1>6, <3>1 DEF WritesValAt
    <3>2. CASE j # k + 1
      <4>1. j \in 1..k /\ OpOK(ops[j], table, n)
        BY <3>2, SeqFacts DEF Batch
      <4>2. /\ ops[j].op # "delete" => ops[j].id \in DOMAIN v.images
            /\ WritesValAt(ops[j]) => v.images[ops[j].id].val = n
            /\ ops[j].op = "create" /\ Alone(ops, j) =>
                 ops[j].id \in DOMAIN v.docs /\ v.docs[ops[j].id] = ops[j].doc
        BY <4>1 DEF Part, PartOps
      <4>3. ops[j].op = "create" => ops[j].id # id
        BY <1>1, <1>6, <4>1 DEF OpOK
      <4> QED BY <2>2, <2>3, <4>2, <4>3
    <3> QED BY <3>1, <3>2
  <2>6. apply_op(actorsOf(v.docs), o) = actorsOf(w.docs)
    <3>1. CASE id = Actor
      <4>1. apply_op(actorsOf(v.docs), o) = Without(actorsOf(v.docs), Actor)
        BY <1>1, <1>6, <3>1 DEF apply_op
      <4> QED BY <2>2, <2>3, <3>1, <4>1 DEF Without, Restrict, actorsOf
    <3>2. CASE id # Actor
      <4>1. apply_op(actorsOf(v.docs), o) = actorsOf(v.docs)
        BY <1>1, <3>2 DEF apply_op
      <4> QED BY <2>2, <2>3, <3>2, <4>1 DEF actorsOf
    <3> QED BY <3>1, <3>2
  <2>7. Part(w, table, ops, n, k + 1)
    BY <2>3, <2>4, <2>5 DEF Part, PartOps
  <2> QED BY <1>1, <1>3, <2>6, <2>7
<1>7. CASE o.op \in {"update", "move"}
  <2>1. id \in DOMAIN v.docs
    <3>1. ASSUME id \notin DOMAIN v.docs PROVE FALSE
      <4>1. w = [v EXCEPT !.ok = FALSE]
        BY <1>1, <1>2, <1>3, <1>7, <3>1 DEF Apply
      <4>2. w.ok = FALSE
        BY <1>2, <4>1
      <4> QED BY <1>1, <1>3, <4>2
    <3> QED BY <3>1
  <2>2. PICK old : old = v.docs[id] /\ DOMAIN old = Fields /\ Descends(table, n, id, old)
    BY <1>2, <2>1 DEF PartDocs, Descends
  <2>3. CASE o.op = "update"
    <3>1. w = Written(v, id, Over(o.set, old))
      BY <1>1, <1>2, <1>3, <2>1, <2>2, <2>3 DEF Apply
    <3>2. PICK new : new = Over(o.set, old) /\ DOMAIN new = DOMAIN o.set \cup Fields
                     /\ (\A x \in DOMAIN o.set : new[x] = o.set[x])
                     /\ (\A x \in Fields : x \notin DOMAIN o.set => new[x] = old[x])
      <4>1. PICK set : set = o.set
        OBVIOUS
      <4>2. /\ DOMAIN Over(set, old) = DOMAIN set \cup DOMAIN old
            /\ \A x \in DOMAIN set : Over(set, old)[x] = set[x]
            /\ \A x \in DOMAIN old : x \notin DOMAIN set => Over(set, old)[x] = old[x]
        BY OverFacts, Zenon
      <4> QED BY <2>2, <4>1, <4>2
    <3>3. DOMAIN o.set \subseteq Asked /\ ("val" \in DOMAIN o.set => o.set.val = n)
      BY <1>1, <2>3 DEF OpOK
    <3>4. Descends(table, n, id, new) /\ (new.val = old.val \/ new.val = n)
      <4>1. DOMAIN new = Fields /\ new.created = old.created /\ (new.val = old.val \/ new.val = n)
        BY <3>2, <3>3 DEF Asked, Fields
      <4> QED BY <2>2, <4>1 DEF Descends
    <3>5. WritesValAt(o) => new.val = n
      BY <3>2, <3>3 DEF WritesValAt
    <3>6. Part(w, table, ops, n, k + 1)
      BY <1>1, <2>1, <2>2, <2>3, <3>1, <3>2, <3>4, <3>5, WrittenStep
    <3>7. apply_op(actorsOf(v.docs), o) = IF id = Actor THEN Owned(new.owner) ELSE actorsOf(v.docs)
      <4>1. CASE id # Actor
        BY <1>1, <4>1 DEF apply_op
      <4>2. CASE id = Actor
        <5>1. Actor \in DOMAIN actorsOf(v.docs) /\ actorsOf(v.docs) = Owned(old.owner)
          BY <2>1, <2>2, <4>2 DEF actorsOf, Owned
        <5>2. CASE "owner" \in DOMAIN o.set
          BY <1>1, <2>3, <3>2, <4>2, <5>1, <5>2 DEF apply_op
        <5>3. CASE "owner" \notin DOMAIN o.set
          BY <1>1, <2>3, <3>2, <4>2, <5>1, <5>3 DEF apply_op, Fields
        <5> QED BY <5>2, <5>3
      <4> QED BY <4>1, <4>2
    <3> QED BY <1>1, <1>3, <1>4, <3>1, <3>2, <3>6, <3>7
  <2>4. CASE o.op = "move"
    <3>1. w = Written(v, id, [old EXCEPT !.parent = o.parent])
      BY <1>1, <1>2, <1>3, <2>1, <2>2, <2>4 DEF Apply
    <3>2. PICK new : new = [old EXCEPT !.parent = o.parent] /\ DOMAIN new = Fields
                     /\ new.created = old.created /\ new.val = old.val /\ new.owner = old.owner
      <4>1. PICK parent : parent = o.parent
        OBVIOUS
      <4>2. /\ DOMAIN [old EXCEPT !.parent = parent] = DOMAIN old
            /\ \A f \in DOMAIN old : f # "parent" => [old EXCEPT !.parent = parent][f] = old[f]
        OBVIOUS
      <4>3. {"created", "val", "owner"} \subseteq DOMAIN old
        BY <2>2 DEF Fields
      <4> QED BY <2>2, <4>1, <4>2, <4>3
    <3>3. Descends(table, n, id, new) /\ ~WritesValAt(o)
      BY <2>2, <2>4, <3>2 DEF Descends, WritesValAt
    <3>4. Part(w, table, ops, n, k + 1)
      BY <1>1, <2>1, <2>2, <2>4, <3>1, <3>2, <3>3, WrittenStep
    <3>5. apply_op(actorsOf(v.docs), o) = IF id = Actor THEN Owned(new.owner) ELSE actorsOf(v.docs)
      <4>1. CASE id # Actor
        BY <1>1, <4>1 DEF apply_op
      <4>2. CASE id = Actor
        <5>1. actorsOf(v.docs) = Owned(old.owner)
          BY <2>1, <2>2, <4>2 DEF actorsOf, Owned
        <5> QED BY <1>1, <2>4, <3>2, <4>2, <5>1 DEF apply_op
      <4> QED BY <4>1, <4>2
    <3> QED BY <1>1, <1>3, <1>4, <3>1, <3>2, <3>4, <3>5
  <2> QED BY <1>7, <2>3, <2>4
<1> QED BY <1>1, <1>5, <1>6, <1>7 DEF OpOK, Kinds

LEMMA AppliedFacts ==
  ASSUME NEW table, NEW n, NEW ops, Batch(ops, table, n),
         \A id \in DOMAIN table : id \in Ids /\ DOMAIN table[id] = Fields,
         applied(table, ops).ok
  PROVE  /\ Part(applied(table, ops), table, ops, n, Len(ops))
         /\ hydrated(actorsOf(table), ops) = actorsOf(applied(table, ops).docs)
<1>1. IsSeq(ops) /\ Len(ops) \in Nat
  BY SeqFacts DEF Batch
<1>2. PICK it : /\ it[0] = Fresh(table) /\ it[Len(ops)] = applied(table, ops)
                /\ \A k \in Nat : k + 1 <= Len(ops) => it[k + 1] = Apply(it[k], ops[k + 1])
  BY <1>1, AppliedUnrolled
<1>3. PICK at : /\ at[0] = actorsOf(table) /\ at[Len(ops)] = hydrated(actorsOf(table), ops)
                /\ \A k \in Nat : k + 1 <= Len(ops) => at[k + 1] = apply_op(at[k], ops[k + 1])
  BY <1>1, HydratedUnrolled
<1> DEFINE Good(k) == it[k].ok => /\ Part(it[k], table, ops, n, k)
                                  /\ at[k] = actorsOf(it[k].docs)
<1>4. Good(0)
  <2>1. it[0] = [ok |-> TRUE, docs |-> table, images |-> <<>>]
    BY <1>2 DEF Fresh
  <2>2. PICK v : v = it[0] /\ v.docs = table /\ DOMAIN v.images = {}
                 /\ v = [ok |-> TRUE, docs |-> v.docs, images |-> v.images]
    BY <2>1
  <2>3. PartDocs(v, table, n)
    BY <2>2 DEF PartDocs, Descends
  <2>4. PartOps(v, ops, n, 0)
    BY DEF PartOps
  <2> QED BY <1>3, <2>2, <2>3, <2>4 DEF Part
<1>5. ASSUME NEW k \in Nat, k + 1 <= Len(ops), Good(k) PROVE Good(k + 1)
  <2>1. PICK v : v = it[k] /\ it[k + 1] = Apply(v, ops[k + 1])
    BY <1>2, <1>5
  <2>2. ASSUME Apply(v, ops[k + 1]).ok PROVE v.ok
    <3>1. ASSUME ~v.ok PROVE Apply(v, ops[k + 1]) = v
      <4>1. \A o : Apply(v, o) = v
        BY <3>1 DEF Apply
      <4> QED BY <4>1
    <3> QED BY <2>2, <3>1
  <2>3. at[k + 1] = apply_op(at[k], ops[k + 1])
    BY <1>3, <1>5
  <2> QED BY <1>5, <2>1, <2>2, <2>3, ApplyStep
<1>6. PICK T : T = {k \in Nat : k <= Len(ops) => Good(k)}
  OBVIOUS
<1> HIDE DEF Good
<1>7. 0 \in T
  BY <1>4, <1>6
<1>8. ASSUME NEW k \in Nat, k \in T PROVE k + 1 \in T
  BY <1>1, <1>5, <1>6, <1>8
<1>9. Nat \subseteq T
  BY <1>7, <1>8, NatInd
<1>10. Good(Len(ops))
  BY <1>1, <1>6, <1>9
<1> QED BY <1>2, <1>3, <1>10 DEF Good

-----------------------------------------------------------------------------
(* A first place where a property of naturals ends.                        *)
LEMMA Switch ==
  ASSUME NEW S, NEW a \in Nat, NEW b \in Nat, a <= b, a \in S, b \notin S
  PROVE  \E j \in a + 1..b : j - 1 \in S /\ j \notin S
<1>1. SUFFICES ASSUME \A j \in a + 1..b : j - 1 \in S => j \in S PROVE FALSE
  OBVIOUS
<1>2. PICK I : I = {i \in Nat : a + i <= b => a + i \in S}
  OBVIOUS
<1>3. 0 \in I
  BY <1>2
<1>4. ASSUME NEW i \in Nat, i \in I PROVE i + 1 \in I
  <2>1. SUFFICES ASSUME a + (i + 1) <= b PROVE a + (i + 1) \in S
    BY <1>2
  <2>2. PICK j \in Nat : j = a + (i + 1) /\ j - 1 = a + i
    OBVIOUS
  <2>3. j - 1 \in S
    BY <1>2, <1>4, <2>1, <2>2
  <2> QED BY <1>1, <2>1, <2>2, <2>3
<1>5. Nat \subseteq I
  BY <1>3, <1>4, NatInd
<1>6. PICK i \in Nat : a + i = b
  <2>1. b - a \in Nat /\ a + (b - a) = b
    OBVIOUS
  <2> QED BY <2>1
<1> QED BY <1>2, <1>5, <1>6

(* What one operation of a batch does to the documents.                    *)
Same(x, v, w) == (x \in DOMAIN v <=> x \in DOMAIN w) /\ (x \in DOMAIN v => w[x] = v[x])
Rewrites(o, old, new) ==
  /\ DOMAIN new = Fields
  /\ \A f \in Fields : f # "parent" =>
       new[f] = IF o.op = "update" /\ f \in DOMAIN o.set THEN o.set[f] ELSE old[f]
  /\ new["parent"] = IF o.op = "move" THEN o.parent ELSE old["parent"]
Effect(o, v, w) ==
  /\ \A x : x # o.id => Same(x, v, w)
  /\ o.op = "create" => o.id \in DOMAIN w /\ w[o.id] = o.doc
  /\ o.op = "delete" => o.id \notin DOMAIN w
  /\ o.op \in {"update", "move"} =>
       /\ o.id \in DOMAIN v /\ o.id \in DOMAIN w
       /\ Rewrites(o, v[o.id], w[o.id])

LEMMA PutSame ==
  ASSUME NEW table, NEW id, NEW doc
  PROVE  /\ id \in DOMAIN Put(table, id, doc) /\ Put(table, id, doc)[id] = doc
         /\ \A x : x # id => Same(x, table, Put(table, id, doc))
BY DEF Put, Over, Same

LEMMA ApplyEffect ==
  ASSUME NEW v, v.ok, v = [ok |-> TRUE, docs |-> v.docs, images |-> v.images],
         NEW o, o.op \in Kinds, o.op = "update" => DOMAIN o.set \subseteq Asked,
         \A x \in DOMAIN v.docs : DOMAIN v.docs[x] = Fields,
         Apply(v, o).ok
  PROVE  Effect(o, v.docs, Apply(v, o).docs)
<1>1. PICK w, id, old : w = Apply(v, o) /\ id = o.id /\ old = v.docs[id]
  OBVIOUS
<1>2. ASSUME NEW doc, w = Written(v, id, doc)
      PROVE  /\ id \in DOMAIN w.docs /\ w.docs[id] = doc
             /\ \A x : x # id => Same(x, v.docs, w.docs)
  <2>1. w.docs = Put(v.docs, id, doc)
    BY <1>2 DEF Written
  <2> QED BY <2>1, PutSame
<1>3. CASE o.op = "create"
  <2>1. w = Written(v, id, o.doc)
    BY <1>1, <1>3 DEF Apply
  <2> QED BY <1>1, <1>2, <1>3, <2>1 DEF Effect
<1>4. CASE o.op = "delete"
  <2>1. w = [v EXCEPT !.docs = Without(v.docs, id)]
    BY <1>1, <1>4 DEF Apply
  <2>2. w.docs = Without(v.docs, id)
    BY <2>1
  <2>3. id \notin DOMAIN w.docs /\ \A x : x # id => Same(x, v.docs, w.docs)
    BY <2>2 DEF Without, Restrict, Same
  <2> QED BY <1>1, <1>4, <2>3 DEF Effect
<1>5. CASE o.op \in {"update", "move"}
  <2>1. id \in DOMAIN v.docs
    <3>1. ASSUME id \notin DOMAIN v.docs PROVE FALSE
      <4>1. w = [v EXCEPT !.ok = FALSE]
        BY <1>1, <1>5, <3>1 DEF Apply
      <4>2. w.ok = FALSE
        BY <4>1
      <4> QED BY <1>1, <4>2
    <3> QED BY <3>1
  <2>2. DOMAIN old = Fields
    BY <1>1, <2>1
  <2>3. CASE o.op = "update"
    <3>1. w = Written(v, id, Over(o.set, old))
      BY <1>1, <2>1, <2>3 DEF Apply
    <3>2. PICK new, set : new = Over(set, old) /\ set = o.set
      OBVIOUS
    <3>3. /\ DOMAIN new = DOMAIN set \cup DOMAIN old
          /\ \A x \in DOMAIN set : new[x] = set[x]
          /\ \A x \in DOMAIN old : x \notin DOMAIN set => new[x] = old[x]
      BY <3>2 DEF Over
    <3>4. DOMAIN set \subseteq Asked
      BY <2>3, <3>2
    <3>5. Rewrites(o, old, new)
      <4>1. DOMAIN new = Fields
        BY <2>2, <3>3, <3>4 DEF Fields, Asked
      <4>2. \A f \in Fields : new[f] = IF f \in DOMAIN set THEN set[f] ELSE old[f]
        BY <2>2, <3>3
      <4>3. "parent" \in Fields /\ "parent" \notin DOMAIN set
        BY <3>4 DEF Fields, Asked
      <4>4. new["parent"] = old["parent"]
        BY <4>2, <4>3
      <4> QED BY <2>3, <3>2, <4>1, <4>2, <4>4 DEF Rewrites
    <3> QED BY <1>1, <1>2, <2>1, <2>3, <3>1, <3>2, <3>5 DEF Effect
  <2>4. CASE o.op = "move"
    <3>1. w = Written(v, id, [old EXCEPT !.parent = o.parent])
      BY <1>1, <2>1, <2>4 DEF Apply
    <3>2. PICK new, parent : new = [old EXCEPT !.parent = parent] /\ parent = o.parent
      OBVIOUS
    <3>3. Rewrites(o, old, new)
      <4>1. DOMAIN new = Fields /\ "parent" \in DOMAIN old /\ new["parent"] = parent
        BY <2>2, <3>2 DEF Fields
      <4>2. \A f \in Fields : f # "parent" => new[f] = old[f]
        BY <2>2, <3>2
      <4> QED BY <2>4, <3>2, <4>1, <4>2 DEF Rewrites
    <3> QED BY <1>1, <1>2, <2>1, <2>4, <3>1, <3>2, <3>3 DEF Effect
  <2> QED BY <1>5, <2>3, <2>4
<1> QED BY <1>3, <1>4, <1>5 DEF Kinds

(* How a batch changes the documents, after its first k operations.        *)
On(o, id, kind) == o.id = id /\ o.op = kind
Still(ops, id, kind, k) == \A j \in 1..k : ~On(ops[j], id, kind)
Silent(ops, id, k) == \A j \in 1..k : ~(ops[j].id = id /\ WritesValAt(ops[j]))
LastMove(ops, id, k, parent) ==
  \E j \in 1..k : /\ On(ops[j], id, "move") /\ parent = ops[j].parent
                  /\ \A i \in j + 1..k : ~On(ops[i], id, "move")
Kept(ops, id, k, old, new) ==
  /\ Still(ops, id, "update", k) => new["open"] = old["open"]
  /\ Silent(ops, id, k) => new["val"] = old["val"]
  /\ Still(ops, id, "move", k) => new["parent"] = old["parent"]
  /\ Still(ops, id, "move", k) \/ LastMove(ops, id, k, new["parent"])
Change(table, after, ops, k) ==
  /\ \A id \in DOMAIN after : DOMAIN after[id] = Fields
  /\ \A id : /\ id \in DOMAIN after /\ id \notin DOMAIN table => ~Still(ops, id, "create", k)
             /\ id \in DOMAIN table /\ id \notin DOMAIN after => ~Still(ops, id, "delete", k)
             /\ ~Still(ops, id, "create", k) => id \in DOMAIN after
             /\ ~Still(ops, id, "delete", k) => id \notin DOMAIN after
             /\ id \in DOMAIN table /\ id \in DOMAIN after => Kept(ops, id, k, table[id], after[id])

LEMMA KeptStep ==
  ASSUME NEW ops, NEW id, NEW k \in Nat, NEW old, NEW mid, NEW new,
         NEW o, o = ops[k + 1], o.id = id, o.op \in {"update", "move"},
         Kept(ops, id, k, old, mid), Rewrites(o, mid, new)
  PROVE  Kept(ops, id, k + 1, old, new)
<1>1. /\ \A j \in 1..k : j \in 1..k + 1
      /\ k + 1 \in 1..k + 1
      /\ \A j \in 1..k + 1 : j \in 1..k \/ j = k + 1
      /\ {"open", "val", "parent"} \subseteq Fields
  BY DEF Fields
<1>2. Still(ops, id, "update", k + 1) => new["open"] = old["open"]
  <2>1. ASSUME Still(ops, id, "update", k + 1) PROVE new["open"] = old["open"]
    <3>1. Still(ops, id, "update", k) /\ ~On(o, id, "update")
      BY <1>1, <2>1 DEF Still
    <3>2. o.op # "update"
      BY <3>1 DEF On
    <3> QED BY <1>1, <3>1, <3>2 DEF Kept, Rewrites
  <2> QED BY <2>1
<1>3. Silent(ops, id, k + 1) => new["val"] = old["val"]
  <2>1. ASSUME Silent(ops, id, k + 1) PROVE new["val"] = old["val"]
    <3>1. Silent(ops, id, k) /\ ~WritesValAt(o)
      BY <1>1, <2>1 DEF Silent
    <3> QED BY <1>1, <3>1 DEF Kept, Rewrites, WritesValAt
  <2> QED BY <2>1
<1>4. Still(ops, id, "move", k + 1) => new["parent"] = old["parent"]
  <2>1. ASSUME Still(ops, id, "move", k + 1) PROVE new["parent"] = old["parent"]
    <3>1. Still(ops, id, "move", k) /\ ~On(o, id, "move")
      BY <1>1, <2>1 DEF Still
    <3> QED BY <3>1 DEF Kept, Rewrites, On
  <2> QED BY <2>1
<1>5. Still(ops, id, "move", k + 1) \/ LastMove(ops, id, k + 1, new["parent"])
  <2>1. CASE o.op = "move"
    <3>1. On(ops[k + 1], id, "move") /\ new["parent"] = ops[k + 1].parent
      BY <2>1 DEF On, Rewrites
    <3>2. \A i \in (k + 1) + 1..k + 1 : FALSE
      OBVIOUS
    <3> QED BY <1>1, <3>1, <3>2 DEF LastMove
  <2>2. CASE o.op # "move"
    <3>1. new["parent"] = mid["parent"] /\ ~On(ops[k + 1], id, "move")
      BY <2>2 DEF On, Rewrites
    <3>2. CASE Still(ops, id, "move", k)
      BY <1>1, <3>1, <3>2 DEF Still
    <3>3. CASE LastMove(ops, id, k, mid["parent"])
      <4>1. PICK j \in 1..k : /\ On(ops[j], id, "move") /\ mid["parent"] = ops[j].parent
                              /\ \A i \in j + 1..k : ~On(ops[i], id, "move")
        BY <3>3 DEF LastMove
      <4>2. ASSUME NEW i \in j + 1..k + 1 PROVE ~On(ops[i], id, "move")
        <5>1. i \in j + 1..k \/ i = k + 1
          OBVIOUS
        <5> QED BY <3>1, <4>1, <5>1
      <4> QED BY <1>1, <3>1, <4>1, <4>2 DEF LastMove
    <3> QED BY <3>2, <3>3 DEF Kept
  <2> QED BY <2>1, <2>2
<1> QED BY <1>2, <1>3, <1>4, <1>5 DEF Kept

LEMMA ChangeStep ==
  ASSUME NEW table, NEW n, NEW ops, Batch(ops, table, n), NEW k \in Nat, k + 1 <= Len(ops),
         NEW v, NEW w, NEW o, o = ops[k + 1],
         Change(table, v, ops, k), Effect(o, v, w)
  PROVE  Change(table, w, ops, k + 1)
<1>1. /\ \A j \in 1..k : j \in 1..k + 1
      /\ k + 1 \in 1..k + 1
      /\ \A j \in 1..k + 1 : j \in 1..k \/ j = k + 1
  OBVIOUS
<1>2. \A j \in 1..k + 1 : OpOK(ops[j], table, n)
  BY SeqFacts DEF Batch
<1>3. \A id, kind : Still(ops, id, kind, k + 1) <=> Still(ops, id, kind, k) /\ ~On(o, id, kind)
  BY <1>1 DEF Still
<1>4. \A id : (id \in DOMAIN table => Still(ops, id, "create", k + 1))
              /\ (id \notin DOMAIN table => Still(ops, id, "delete", k + 1))
  BY <1>2 DEF Still, On, OpOK
<1>5. ASSUME NEW id \in DOMAIN w PROVE DOMAIN w[id] = Fields
  <2>1. CASE id # o.id
    BY <2>1 DEF Effect, Same, Change
  <2>2. CASE id = o.id
    BY <1>1, <1>2, <2>2 DEF Effect, Rewrites, OpOK, Kinds
  <2> QED BY <2>1, <2>2
<1>6. ASSUME NEW id, id # o.id
      PROVE  /\ Same(id, v, w)
             /\ \A kind : Still(ops, id, kind, k + 1) <=> Still(ops, id, kind, k)
             /\ Silent(ops, id, k + 1) <=> Silent(ops, id, k)
             /\ \A p : LastMove(ops, id, k, p) => LastMove(ops, id, k + 1, p)
  <2>1. Same(id, v, w)
    BY <1>6 DEF Effect
  <2>2. \A kind : ~On(o, id, kind)
    BY <1>6 DEF On
  <2>3. Silent(ops, id, k + 1) <=> Silent(ops, id, k)
    BY <1>1, <1>6 DEF Silent
  <2>4. ASSUME NEW p, LastMove(ops, id, k, p) PROVE LastMove(ops, id, k + 1, p)
    <3>1. PICK j \in 1..k : /\ On(ops[j], id, "move") /\ p = ops[j].parent
                            /\ \A i \in j + 1..k : ~On(ops[i], id, "move")
      BY <2>4 DEF LastMove
    <3>2. ASSUME NEW i \in j + 1..k + 1 PROVE ~On(ops[i], id, "move")
      <4>1. i \in j + 1..k \/ i = k + 1
        OBVIOUS
      <4> QED BY <2>2, <3>1, <4>1
    <3> QED BY <1>1, <3>1, <3>2 DEF LastMove
  <2> QED BY <1>3, <2>1, <2>2, <2>3, <2>4
<1>7. ASSUME NEW id
      PROVE  /\ id \in DOMAIN w /\ id \notin DOMAIN table => ~Still(ops, id, "create", k + 1)
             /\ id \in DOMAIN table /\ id \notin DOMAIN w => ~Still(ops, id, "delete", k + 1)
             /\ ~Still(ops, id, "create", k + 1) => id \in DOMAIN w
             /\ ~Still(ops, id, "delete", k + 1) => id \notin DOMAIN w
             /\ id \in DOMAIN table /\ id \in DOMAIN w => Kept(ops, id, k + 1, table[id], w[id])
  <2>1. CASE id # o.id
    <3>1. id \in DOMAIN table /\ id \in DOMAIN w => Kept(ops, id, k + 1, table[id], w[id])
      BY <1>6, <2>1 DEF Change, Same, Kept
    <3> QED BY <1>6, <2>1, <3>1 DEF Change, Same
  <2>2. CASE id = o.id
    <3>1. CASE o.op = "create"
      BY <1>1, <1>2, <1>3, <1>4, <2>2, <3>1 DEF Effect, On, OpOK
    <3>2. CASE o.op = "delete"
      BY <1>1, <1>2, <1>3, <1>4, <2>2, <3>2 DEF Effect, On, OpOK
    <3>3. CASE o.op \in {"update", "move"}
      <4>1. id \in DOMAIN v /\ id \in DOMAIN w /\ Rewrites(o, v[id], w[id])
        BY <2>2, <3>3 DEF Effect
      <4>2. id \in DOMAIN table
        BY <1>1, <1>2, <2>2, <3>3 DEF OpOK
      <4>3. Still(ops, id, "delete", k) /\ ~On(o, id, "delete")
        BY <3>3, <4>1 DEF Change, On
      <4>4. Kept(ops, id, k, table[id], v[id])
        BY <4>1, <4>2 DEF Change
      <4>5. Kept(ops, id, k + 1, table[id], w[id])
        BY <2>2, <3>3, <4>1, <4>4, KeptStep
      <4> QED BY <1>3, <1>4, <4>1, <4>2, <4>3, <4>5
    <3> QED BY <1>1, <1>2, <3>1, <3>2, <3>3 DEF OpOK, Kinds
  <2> QED BY <2>1, <2>2
<1> QED BY <1>5, <1>7 DEF Change

LEMMA AppliedChange ==
  ASSUME NEW table, NEW n, NEW ops, Batch(ops, table, n),
         \A id \in DOMAIN table : id \in Ids /\ DOMAIN table[id] = Fields,
         applied(table, ops).ok
  PROVE  Change(table, applied(table, ops).docs, ops, Len(ops))
<1>1. IsSeq(ops) /\ Len(ops) \in Nat /\ DOMAIN ops = 1..Len(ops)
  BY SeqFacts DEF Batch
<1>2. PICK it : /\ it[0] = Fresh(table) /\ it[Len(ops)] = applied(table, ops)
                /\ \A k \in Nat : k + 1 <= Len(ops) => it[k + 1] = Apply(it[k], ops[k + 1])
  BY <1>1, AppliedUnrolled
<1> DEFINE Good(k) == it[k].ok => /\ Part(it[k], table, ops, n, k)
                                  /\ Change(table, it[k].docs, ops, k)
<1>4. Good(0)
  <2>1. it[0] = [ok |-> TRUE, docs |-> table, images |-> <<>>]
    BY <1>2 DEF Fresh
  <2>2. PICK v : v = it[0] /\ v.docs = table /\ DOMAIN v.images = {}
                 /\ v = [ok |-> TRUE, docs |-> v.docs, images |-> v.images]
    BY <2>1
  <2>3. PartDocs(v, table, n)
    BY <2>2 DEF PartDocs, Descends
  <2>4. PartOps(v, ops, n, 0)
    BY DEF PartOps
  <2>5. Change(table, table, ops, 0)
    <3>1. \A id, kind : Still(ops, id, kind, 0)
      BY DEF Still
    <3> QED BY <3>1 DEF Change, Kept
  <2> QED BY <2>2, <2>3, <2>4, <2>5 DEF Part
<1>5. ASSUME NEW k \in Nat, k + 1 <= Len(ops), Good(k) PROVE Good(k + 1)
  <2>1. PICK v, w, o : v = it[k] /\ o = ops[k + 1] /\ w = Apply(v, o) /\ it[k + 1] = w
    BY <1>2, <1>5
  <2>2. SUFFICES ASSUME w.ok PROVE Part(w, table, ops, n, k + 1) /\ Change(table, w.docs, ops, k + 1)
    BY <2>1
  <2>3. v.ok
    <3>1. ASSUME ~v.ok PROVE Apply(v, o) = v
      BY <3>1 DEF Apply
    <3> QED BY <2>1, <2>2, <3>1
  <2>4. Part(v, table, ops, n, k) /\ Change(table, v.docs, ops, k)
    BY <1>5, <2>1, <2>3
  <2>5. Part(w, table, ops, n, k + 1)
    BY <1>5, <2>1, <2>2, <2>4, ApplyStep
  <2>6. v = [ok |-> TRUE, docs |-> v.docs, images |-> v.images]
    BY <2>4 DEF Part
  <2>7. OpOK(o, table, n)
    BY <1>1, <1>5, <2>1 DEF Batch
  <2>8. \A x \in DOMAIN v.docs : DOMAIN v.docs[x] = Fields
    BY <2>4 DEF Change
  <2>9. Effect(o, v.docs, w.docs)
    BY <2>1, <2>2, <2>3, <2>6, <2>7, <2>8, ApplyEffect DEF OpOK
  <2>10. PICK a, b : a = v.docs /\ b = w.docs
    OBVIOUS
  <2>11. Change(table, b, ops, k + 1)
    BY <1>5, <2>1, <2>4, <2>9, <2>10, ChangeStep
  <2> QED BY <2>5, <2>10, <2>11
<1>6. PICK I : I = {k \in Nat : k <= Len(ops) => Good(k)}
  OBVIOUS
<1> HIDE DEF Good
<1>7. 0 \in I
  BY <1>4, <1>6
<1>8. ASSUME NEW k \in Nat, k \in I PROVE k + 1 \in I
  BY <1>1, <1>5, <1>6, <1>8
<1>9. Nat \subseteq I
  BY <1>7, <1>8, NatInd
<1>10. Good(Len(ops))
  BY <1>1, <1>6, <1>9
<1>11. applied(table, ops).ok => Change(table, applied(table, ops).docs, ops, Len(ops))
  BY <1>2, <1>10 DEF Good
<1> QED BY <1>11

-----------------------------------------------------------------------------
(* A commit, piece by piece.                                               *)

Snapshots(table, t, ops) == [i \in DOMAIN ops |-> build_op_snapshot(table, t, ops[i])]
Visible(table) == {<<id, table[id].val>> : id \in {d \in DOMAIN table : Sees(table, d)}}

CommitOf(ops, t) ==
  /\ Batch(ops, docs, Len(log) + 1)
  /\ Part(t, docs, ops, Len(log) + 1, Len(ops))
  /\ hydrated(actorsOf(docs), ops) = actorsOf(t.docs)
  /\ Change(docs, t.docs, ops, Len(ops))
  /\ \A i \in DOMAIN ops : ops[i].op = "delete" => ops[i].doc = docs[ops[i].id]

LEMMA StampOK ==
  ASSUME NEW n, NEW o, IsAsked(o), o.op = "create" <=> o.id \notin DOMAIN docs
  PROVE  OpOK(Stamp(n, o), docs, n)
<1>1. CASE o.op = "create"
  <2>1. Stamp(n, o) = [op |-> "create", id |-> o.id,
                       doc |-> Over([val |-> n, created |-> n], o.doc)]
    BY <1>1 DEF Stamp
  <2>2. PICK doc, two : doc = o.doc /\ two = [val |-> n, created |-> n]
    OBVIOUS
  <2>3. /\ DOMAIN Over(two, doc) = DOMAIN two \cup DOMAIN doc
        /\ \A x \in DOMAIN two : Over(two, doc)[x] = two[x]
    BY DEF Over
  <2>4. PICK new : new = Over(two, doc)
    OBVIOUS
  <2>5. DOMAIN doc = {"owner", "open", "tier", "parent"} /\ o.id \in Ids
    BY <1>1, <2>2 DEF IsAsked
  <2>6. DOMAIN new = Fields /\ new.val = n /\ new.created = n
    BY <2>2, <2>3, <2>4, <2>5 DEF Fields
  <2> QED BY <1>1, <2>1, <2>2, <2>4, <2>5, <2>6 DEF OpOK, Kinds
<1>2. CASE o.op = "update"
  <2>1. PICK set, new : /\ set = o.set /\ new = [f \in DOMAIN set |-> IF f = "val" THEN n ELSE set[f]]
                        /\ Stamp(n, o) = [op |-> "update", id |-> o.id, set |-> new]
    BY <1>2 DEF Stamp
  <2>2. DOMAIN new \subseteq Asked /\ o.id \in Ids
    BY <1>2, <2>1 DEF IsAsked, Asked
  <2>3. "val" \in DOMAIN new => new.val = n
    BY <2>1
  <2> QED BY <1>2, <2>1, <2>2, <2>3 DEF OpOK, Kinds
<1>3. CASE o.op = "delete"
  <2>1. Stamp(n, o) = [op |-> "delete", id |-> o.id, doc |-> docs[o.id]] /\ o.id \in Ids
    BY <1>3 DEF Stamp, IsAsked
  <2> QED BY <1>3, <2>1 DEF OpOK, Kinds
<1>4. CASE o.op = "move"
  <2>1. Stamp(n, o) = o /\ o.id \in Ids
    BY <1>4 DEF Stamp, IsAsked
  <2> QED BY <1>4, <2>1 DEF OpOK, Kinds
<1> QED BY <1>1, <1>2, <1>3, <1>4 DEF IsAsked

LEMMA CommitFacts ==
  ASSUME EgressTyped, NEW batch \in world.batches, Commit(batch)
  PROVE  \E ops, t :
           /\ CommitOf(ops, t) /\ published = Len(log)
           /\ docs' = t.docs
           /\ log' = Append(log, [ops |-> ops, per_op |-> Snapshots(docs, t, ops)])
           /\ shown' = shown \cup Visible(t.docs)
           /\ left' = left \cup Reasons(Len(log) + 1, ops, docs, t.docs)
           /\ UNCHANGED <<world, published, ecs, cursor, loaded, replica>>
<1>1. PICK n, ops, t : /\ n = Len(log) + 1
                       /\ ops = [i \in DOMAIN batch |-> Stamp(n, batch[i])]
                       /\ t = applied(docs, ops)
  OBVIOUS
<1>2. /\ \A o \in Range(batch) : o.op = "create" <=> o.id \notin DOMAIN docs
      /\ published = Len(log) /\ t.ok
      /\ docs' = t.docs
      /\ log' = Append(log, [ops |-> ops, per_op |-> Snapshots(docs, t, ops)])
      /\ shown' = shown \cup Visible(t.docs)
      /\ left' = left \cup Reasons(n, ops, docs, t.docs)
      /\ UNCHANGED <<world, published, ecs, cursor, loaded, replica>>
  BY <1>1, Zenon DEF Commit, Snapshots, Visible
<1>3. batch \in Seq(Range(batch)) /\ \A o \in Range(batch) : IsAsked(o)
  BY EgressConstants DEF EgressTyped
<1>4. DOMAIN batch = 1..Len(batch) /\ Len(batch) \in Nat
  BY <1>3
<1>5. \A i \in DOMAIN batch : batch[i] \in Range(batch)
  BY DEF Range
<1>6. \A i \in DOMAIN ops : OpOK(ops[i], docs, n)
  BY <1>1, <1>2, <1>3, <1>5, StampOK
<1>7. IsSeq(ops)
  <2>1. DOMAIN ops = 1..Len(batch) /\ \A i \in 1..Len(batch) : ops[i] \in Range(ops)
    BY <1>1, <1>4 DEF Range
  <2>2. ops = [i \in 1..Len(batch) |-> ops[i]]
    BY <1>1, <2>1
  <2> QED BY <1>4, <2>1, <2>2 DEF IsSeq
<1>8. Batch(ops, docs, n)
  BY <1>6, <1>7 DEF Batch
<1>9. \A id \in DOMAIN docs : id \in Ids /\ DOMAIN docs[id] = Fields
  BY DEF EgressTyped, TableOK
<1>10. Part(t, docs, ops, n, Len(ops)) /\ hydrated(actorsOf(docs), ops) = actorsOf(t.docs)
  BY <1>1, <1>2, <1>8, <1>9, AppliedFacts
<1>11. Change(docs, t.docs, ops, Len(ops))
  BY <1>1, <1>2, <1>8, <1>9, AppliedChange
<1>12. ASSUME NEW i \in DOMAIN ops, ops[i].op = "delete" PROVE ops[i].doc = docs[ops[i].id]
  <2>1. PICK o : o = batch[i] /\ ops[i] = Stamp(n, o) /\ IsAsked(o)
    BY <1>1, <1>3, <1>5
  <2>2. CASE o.op = "delete"
    <3>1. Stamp(n, o) = [op |-> "delete", id |-> o.id, doc |-> docs[o.id]]
      BY <2>2 DEF Stamp
    <3> QED BY <2>1, <3>1
  <2>3. CASE o.op # "delete"
    <3>1. CASE o.op = "create"
      <4>1. Stamp(n, o) = [op |-> "create", id |-> o.id,
                           doc |-> Over([val |-> n, created |-> n], o.doc)]
        BY <3>1 DEF Stamp
      <4> QED BY <1>12, <2>1, <4>1
    <3>2. CASE o.op = "update"
      <4>1. Stamp(n, o) = [op |-> "update", id |-> o.id,
                           set |-> [f \in DOMAIN o.set |-> IF f = "val" THEN n ELSE o.set[f]]]
        BY <3>2 DEF Stamp
      <4> QED BY <1>12, <2>1, <4>1
    <3>3. CASE o.op = "move"
      <4>1. Stamp(n, o) = o
        BY <3>3 DEF Stamp
      <4> QED BY <1>12, <2>1, <2>3, <4>1
    <3>4. o.op \in {"create", "update", "delete", "move"}
      BY <2>1 DEF IsAsked
    <3> QED BY <2>3, <3>1, <3>2, <3>3, <3>4
  <2> QED BY <2>2, <2>3
<1>13. CommitOf(ops, t)
  BY <1>1, <1>8, <1>10, <1>11, <1>12 DEF CommitOf
<1> QED BY <1>1, <1>2, <1>13

(* Rights that do not depend on an actor, or whose actor is the same.      *)
LEMMA ClearSame ==
  ASSUME NEW id, NEW doc, NEW a, NEW b, id \in Tokens => a = b
  PROVE  Clear(id, doc, a) <=> Clear(id, doc, b)
<1>1. effective_owner(id, doc, a) = effective_owner(id, doc, b)
  BY DEF effective_owner
<1> QED BY <1>1 DEF Clear

LEMMA SeesIsClear ==
  ASSUME NEW table, NEW id \in DOMAIN table
  PROVE  Sees(table, id) <=> Clear(id, table[id], actorsOf(table))
BY DEF Sees, Reads, OwnerIn, Clear

(* What the filter loses for ever stays lost.                              *)
LEMMA ForeverKept ==
  ASSUME {l \in left : l.why \in Forever} \subseteq left'
  PROVE  \A id : Excused(id, Forever) => Excused(id, Forever)'
BY DEF Excused

LEMMA MixedIsLost ==
  ASSUME NEW n, NEW ops, NEW table, NEW after, NEW id \in Tokens,
         actorsOf(table) # actorsOf(after)
  PROVE  \E l \in Reasons(n, ops, table, after) : l.id = id /\ l.why \in Forever
<1>1. Loses(id, "mixed", ops, table, after)
  BY DEF Loses
<1>2. id \in Ids /\ "mixed" \in Losses /\ "mixed" \in Forever
  BY DEF Ids, Losses, Forever
<1>3. PICK p \in {p \in Ids \X Losses : Loses(p[1], p[2], ops, table, after)} : p = <<id, "mixed">>
  <2>1. <<id, "mixed">> \in Ids \X Losses
    BY <1>2
  <2>2. Loses(<<id, "mixed">>[1], <<id, "mixed">>[2], ops, table, after)
    BY <1>1
  <2> QED BY <2>1, <2>2
<1>4. [id |-> p[1], why |-> p[2], at |-> n] \in Reasons(n, ops, table, after)
  BY DEF Reasons
<1> QED BY <1>2, <1>3, <1>4

LEMMA TwiceIsLost ==
  ASSUME NEW n, NEW ops, NEW table, NEW after, NEW j \in DOMAIN ops,
         ops[j].op = "create", ops[j].id \in Ids, ~Alone(ops, j)
  PROVE  \E l \in Reasons(n, ops, table, after) : l.id = ops[j].id /\ l.why \in Forever
<1>1. PICK id : id = ops[j].id
  OBVIOUS
<1>2. Loses(id, "twice", ops, table, after)
  <2>1. PICK i \in DOMAIN ops : ops[i].id = id /\ ops[i].op = "create" /\ i # j
    BY <1>1 DEF Alone
  <2>2. \A k \in {i, j} : ops[k].op = "create" /\ ops[k].id = id
    BY <1>1, <2>1
  <2> QED BY <2>1, <2>2 DEF Loses
<1>3. id \in Ids /\ "twice" \in Losses /\ "twice" \in Forever
  BY <1>1 DEF Losses, Forever
<1>4. PICK p \in {p \in Ids \X Losses : Loses(p[1], p[2], ops, table, after)} : p = <<id, "twice">>
  <2>1. <<id, "twice">> \in Ids \X Losses
    BY <1>3
  <2>2. Loses(<<id, "twice">>[1], <<id, "twice">>[2], ops, table, after)
    BY <1>2
  <2> QED BY <2>1, <2>2
<1>5. [id |-> p[1], why |-> p[2], at |-> n] \in Reasons(n, ops, table, after)
  BY DEF Reasons
<1> QED BY <1>1, <1>3, <1>4, <1>5

-----------------------------------------------------------------------------
(* A commit preserves the invariant.                                       *)

LEMMA SnapshotOf ==
  ASSUME NEW table, NEW t, NEW ops, NEW i \in DOMAIN ops, ops[i].op = "update"
  PROVE  LET s == Snapshots(table, t, ops)[i]
             image == t.images[ops[i].id]
         IN /\ s.owner = effective_owner(ops[i].id, image, actorsOf(t.docs))
            /\ s.open = image.open /\ s.tier = image.tier
            /\ s.created = IF ops[i].id \in DOMAIN t.docs THEN image.created ELSE Unwitnessed
<1>1. Snapshots(table, t, ops)[i] = build_op_snapshot(table, t, ops[i])
  BY DEF Snapshots
<1> QED BY <1>1 DEF build_op_snapshot

LEMMA CommitTyped ==
  ASSUME EgressTyped, NEW ops, NEW t, CommitOf(ops, t), published = Len(log),
         docs' = t.docs,
         log' = Append(log, [ops |-> ops, per_op |-> Snapshots(docs, t, ops)]),
         UNCHANGED <<world, published, ecs, cursor, loaded, replica>>
  PROVE  EgressTyped'
<1>1. Len(log) \in Nat
  BY SeqFacts DEF EgressTyped
<1>2. PICK n \in Nat : n = Len(log) + 1
  BY <1>1
<1>3. TableOK(docs', n)
  <2>1. ASSUME NEW id \in DOMAIN t.docs
        PROVE  id \in Ids /\ DOMAIN t.docs[id] = Fields /\ t.docs[id].created \in Nat /\ t.docs[id].created <= n
    <3>1. Descends(docs, n, id, t.docs[id])
      BY <1>2 DEF CommitOf, Part, PartDocs
    <3>2. id \in DOMAIN docs => docs[id].created \in Nat /\ docs[id].created <= n
      BY <1>1, <1>2 DEF EgressTyped, TableOK
    <3> QED BY <1>2, <3>1, <3>2 DEF Descends
  <2> QED BY <2>1 DEF TableOK
<1>4. PICK e : e = [ops |-> ops, per_op |-> Snapshots(docs, t, ops)]
  OBVIOUS
<1>5. EntryShape(e)
  BY <1>4 DEF EntryShape, CommitOf, Batch, OpOK, Snapshots
<1>6. IsSeq(log') /\ Len(log') = n /\ log'[n] = e /\ \A k \in 1..Len(log) : log'[k] = log[k]
  BY <1>2, <1>4, AppendFacts DEF EgressTyped
<1>7. \A k \in 1..Len(log') : EntryShape(log'[k])
  BY <1>1, <1>2, <1>5, <1>6 DEF EgressTyped
<1> QED BY <1>1, <1>2, <1>3, <1>6, <1>7 DEF EgressTyped, current

(* An id used again stays so.                                              *)
LEMMA UsedKept ==
  ASSUME Len(log) \in Nat, Len(log') \in Nat, Len(log') >= Len(log), \A j \in 1..Len(log) : log'[j] = log[j]
  PROVE  /\ \A id : \A k \in Nat : UsedAgain(k, id) => UsedAgain(k, id)'
         /\ \A id, val : Unkept(id, val) => Unkept(id, val)'
<1>1. ASSUME NEW k \in Nat, NEW id, UsedAgain(k, id) PROVE UsedAgain(k, id)'
  <2>1. PICK m \in k + 1..Len(log) : \E o \in Range(log[m].ops) : o.op = "create" /\ o.id = id
    BY <1>1 DEF UsedAgain
  <2>2. m \in 1..Len(log) /\ m \in k + 1..Len(log')
    OBVIOUS
  <2>3. log'[m] = log[m]
    BY <2>2
  <2> QED BY <2>1, <2>2, <2>3 DEF UsedAgain
<1>2. ASSUME NEW id, NEW val, Unkept(id, val) PROVE Unkept(id, val)'
  <2>1. val \in 1..Len(log) /\ UsedAgain(val, id)
    BY <1>2 DEF Unkept
  <2>2. val \in 1..Len(log') /\ log'[val] = log[val] /\ UsedAgain(val, id)'
    BY <1>1, <2>1
  <2> QED BY <1>2, <2>2 DEF Unkept
<1> QED BY <1>1, <1>2

LEMMA CommitKeeps ==
  ASSUME EgressInv, NEW batch \in world.batches, Commit(batch)
  PROVE  EgressInv'
<1>1. EgressTyped /\ Len(log) \in Nat
  BY SeqFacts DEF EgressInv, EgressTyped
<1>2. PICK ops, t :
        /\ CommitOf(ops, t) /\ published = Len(log)
        /\ docs' = t.docs
        /\ log' = Append(log, [ops |-> ops, per_op |-> Snapshots(docs, t, ops)])
        /\ shown' = shown \cup Visible(t.docs)
        /\ left' = left \cup Reasons(Len(log) + 1, ops, docs, t.docs)
        /\ UNCHANGED <<world, published, ecs, cursor, loaded, replica>>
  BY <1>1, CommitFacts
<1>3. EgressTyped'
  BY <1>1, <1>2, CommitTyped
<1>4. PICK n, e : /\ n \in Nat /\ n = Len(log) + 1
                  /\ e = [ops |-> ops, per_op |-> Snapshots(docs, t, ops)]
  <2>1. PICK n : n \in Nat /\ n = Len(log) + 1
    BY <1>1
  <2>2. PICK e : e = [ops |-> ops, per_op |-> Snapshots(docs, t, ops)]
    OBVIOUS
  <2> QED BY <2>1, <2>2
<1>5. Len(log') = n /\ log'[n] = e /\ \A k \in 1..Len(log) : log'[k] = log[k]
  BY <1>1, <1>2, <1>4, AppendFacts DEF EgressTyped
<1>6. /\ Batch(ops, docs, n) /\ Part(t, docs, ops, n, Len(ops)) /\ DOMAIN ops = 1..Len(ops)
      /\ \A i \in DOMAIN ops : OpOK(ops[i], docs, n)
  BY <1>2, <1>4, SeqFacts DEF CommitOf, Batch
<1>7. \A id : Excused(id, Forever) => Excused(id, Forever)'
  BY <1>2, ForeverKept
<1>8. \A id \in Tokens : actorsOf(docs) = actorsOf(docs') \/ Excused(id, Forever)'
  <2>1. ASSUME NEW id \in Tokens, actorsOf(docs) # actorsOf(t.docs) PROVE Excused(id, Forever)'
    <3>1. PICK l \in Reasons(Len(log) + 1, ops, docs, t.docs) : l.id = id /\ l.why \in Forever
      BY <2>1, MixedIsLost
    <3>2. l \in left'
      BY <1>2, <3>1
    <3> QED BY <3>1, <3>2 DEF Excused
  <2> QED BY <1>2, <2>1
<1>9. \A id, val : Seen(id, val) => Seen(id, val)'
  BY <1>2 DEF Seen
<1>10. \A id, doc : SafeDoc(id, doc) => SafeDoc(id, doc)'
  <2>1. ASSUME NEW id, NEW doc, SafeDoc(id, doc), ~Excused(id, Forever)',
               Clear(id, doc, actorsOf(docs'))
        PROVE  Seen(id, doc.val)'
    <3>1. id \in Tokens => actorsOf(docs) = actorsOf(docs')
      BY <1>8, <2>1
    <3>2. PICK a, b : a = actorsOf(docs) /\ b = actorsOf(docs')
      OBVIOUS
    <3>3. Clear(id, doc, a) <=> Clear(id, doc, b)
      BY <3>1, <3>2, ClearSame
    <3> QED BY <1>7, <1>9, <2>1, <3>2, <3>3 DEF SafeDoc
  <2> QED BY <2>1 DEF SafeDoc
<1>11. DocsShown'
  <2>1. ASSUME NEW id \in DOMAIN t.docs, Sees(t.docs, id)
        PROVE <<id, t.docs[id].val>> \in Visible(t.docs)
    BY <2>1 DEF Visible
  <2>2. ASSUME NEW id \in DOMAIN docs', Sees(docs', id) PROVE <<id, docs'[id].val>> \in shown'
    BY <1>2, <2>1, <2>2
  <2> QED BY <2>2 DEF DocsShown, Seen
<1>12. SceneFollows'
  <2>1. ecs = actorsOf(docs)
    BY <1>2 DEF EgressInv, SceneFollows
  <2>2. log'[published' + 1].ops = ops /\ published' < Len(log')
    BY <1>1, <1>2, <1>4, <1>5
  <2>3. hydrated(ecs', log'[published' + 1].ops) = actorsOf(docs')
    BY <1>2, <2>1, <2>2 DEF CommitOf
  <2>4. ASSUME NEW id \in Tokens PROVE Excused(id, Forever)' \/ ecs' = actorsOf(docs')
    BY <1>2, <1>8, <2>1
  <2> QED BY <1>1, <2>2, <2>3, <2>4 DEF SceneFollows, EgressInv, EgressTyped
<1>13. LoadedShown'
  <2>1. ASSUME loaded # <<>>, NEW id \in DOMAIN current PROVE SafeDoc(id, current[id])
    BY <2>1 DEF EgressInv, LoadedShown
  <2>2. loaded' = loaded /\ current' = current
    BY <1>2 DEF current
  <2>3. ASSUME loaded # <<>>, NEW id \in DOMAIN current, NEW doc, doc = current[id] PROVE SafeDoc(id, doc)'
    BY <1>10, <2>1, <2>3
  <2> QED BY <2>2, <2>3 DEF LoadedShown
<1>14. CreatesShown'
  <2>1. ASSUME NEW k \in 1..Len(log), NEW i \in DOMAIN log[k].ops, NEW o, o = log[k].ops[i]
        PROVE  CreateShown(o)'
    <3>1. CreateShown(o)
      BY <2>1 DEF EgressInv, CreatesShown
    <3> QED BY <1>10, <3>1 DEF CreateShown
  <2>2. ASSUME NEW i \in DOMAIN ops, NEW o, o = ops[i] PROVE CreateShown(o)'
    <3>1. SUFFICES ASSUME o.op = "create" PROVE "val" \in DOMAIN o.doc /\ SafeDoc(o.id, o.doc)'
      BY DEF CreateShown
    <3>2. DOMAIN o.doc = Fields /\ o.id \in Ids
      BY <1>6, <2>2, <3>1 DEF OpOK
    <3>3. CASE ~Alone(ops, i)
      <4>1. PICK l \in Reasons(Len(log) + 1, ops, docs, t.docs) : l.id = o.id /\ l.why \in Forever
        BY <2>2, <3>1, <3>2, <3>3, TwiceIsLost
      <4>2. l \in left'
        BY <1>2, <4>1
      <4>3. Excused(o.id, Forever)'
        BY <4>1, <4>2 DEF Excused
      <4> QED BY <3>2, <4>3 DEF Fields, SafeDoc
    <3>4. CASE Alone(ops, i)
      <4>1. o.id \in DOMAIN t.docs /\ t.docs[o.id] = o.doc
        BY <1>6, <2>2, <3>1, <3>4 DEF Part, PartOps
      <4>2. ASSUME Clear(o.id, o.doc, actorsOf(docs')) PROVE Seen(o.id, o.doc.val)'
        <5>1. PICK table : table = t.docs
          OBVIOUS
        <5>2. Clear(o.id, table[o.id], actorsOf(table)) /\ o.id \in DOMAIN table
          BY <1>2, <4>1, <4>2, <5>1
        <5>3. Sees(table, o.id)
          BY <5>2, SeesIsClear
        <5>4. Seen(o.id, table[o.id].val)'
          BY <1>2, <1>11, <4>1, <5>1, <5>3 DEF DocsShown
        <5> QED BY <4>1, <5>1, <5>4
      <4> QED BY <3>2, <4>2 DEF Fields, SafeDoc
    <3> QED BY <3>3, <3>4
  <2>3. ASSUME NEW k \in 1..Len(log'), NEW i \in DOMAIN log'[k].ops, NEW o, o = log'[k].ops[i]
        PROVE  CreateShown(o)'
    <3>1. CASE k = n
      <4>1. log'[k].ops = ops
        BY <1>4, <1>5, <3>1
      <4> QED BY <2>2, <2>3, <4>1
    <3>2. CASE k # n
      <4>1. k \in 1..Len(log) /\ log'[k] = log[k]
        BY <1>1, <1>4, <1>5, <3>2
      <4> QED BY <2>1, <2>3, <4>1
    <3> QED BY <3>1, <3>2
  <2> QED BY <2>3 DEF CreatesShown
<1>15. UpdatesShown'
  <2>0. \A id : \A k \in Nat : UsedAgain(k, id) => UsedAgain(k, id)'
    BY <1>1, <1>4, <1>5, UsedKept
  <2>1. ASSUME NEW k \in 1..Len(log), NEW i \in DOMAIN log[k].ops,
               NEW o, NEW s, o = log[k].ops[i], s = log[k].per_op[i]
        PROVE  UpdateShown(k, o, s)'
    <3>1. SUFFICES ASSUME o.op = "update" PROVE UpdateShown(k, o, s)'
      BY DEF UpdateShown
    <3>2. UpdateShown(k, o, s) /\ o.id \in Ids /\ k \in Nat
      BY <1>1, <2>1 DEF EgressInv, UpdatesShown, EgressTyped, EntryShape
    <3>3. ASSUME s.created = Unwitnessed, o.id \in DOMAIN docs' PROVE UsedAgain(k, o.id)'
      <4>1. CASE o.id \in DOMAIN docs
        BY <2>0, <3>1, <3>2, <3>3, <4>1 DEF UpdateShown
      <4>2. CASE o.id \notin DOMAIN docs
        <5>1. ~Still(ops, o.id, "create", Len(ops))
          BY <1>2, <3>3, <4>2 DEF CommitOf, Change
        <5>2. PICK j \in DOMAIN ops : ops[j].op = "create" /\ ops[j].id = o.id
          BY <1>6, <5>1 DEF Still, On
        <5>3. ops[j] \in Range(log'[n].ops)
          BY <1>4, <1>5 DEF Range
        <5>4. n \in k + 1..Len(log')
          BY <1>1, <1>4, <1>5
        <5> QED BY <5>2, <5>3, <5>4 DEF UsedAgain
      <4> QED BY <4>1, <4>2
    <3>4. loaded' # <<>> /\ k <= cursor' + 1 => loaded # <<>> /\ k <= cursor + 1 /\ current' = current
      BY <1>2 DEF current
    <3> QED BY <1>9, <2>0, <3>2, <3>3, <3>4 DEF UpdateShown
  <2>2. ASSUME NEW i \in DOMAIN ops,
               NEW o, NEW s, o = ops[i], s = Snapshots(docs, t, ops)[i]
        PROVE  UpdateShown(n, o, s)'
    <3>1. PICK image : image = t.images[o.id]
      OBVIOUS
    <3>2. SUFFICES ASSUME o.op = "update" PROVE UpdateShown(n, o, s)'
      BY DEF UpdateShown
    <3>3. /\ s.owner = effective_owner(o.id, image, actorsOf(t.docs))
          /\ s.open = image.open /\ s.tier = image.tier
          /\ s.created = IF o.id \in DOMAIN t.docs THEN image.created ELSE Unwitnessed
      BY <2>2, <3>1, <3>2, SnapshotOf
    <3>4. /\ o.id \in DOMAIN t.images
          /\ "val" \in DOMAIN o.set => image.val = n /\ o.set.val = n
          /\ o.id \in DOMAIN t.docs => t.docs[o.id] = image
      BY <1>6, <2>2, <3>1, <3>2 DEF Part, PartOps, PartDocs, WritesValAt, OpOK
    <3>5. ~(loaded' # <<>> /\ n <= cursor' + 1)
      BY <1>1, <1>2, <1>4 DEF EgressTyped
    <3>6. ASSUME s.created = Unwitnessed PROVE o.id \notin DOMAIN docs'
      <4>1. SUFFICES ASSUME o.id \in DOMAIN t.docs PROVE FALSE
        BY <1>2
      <4>2. image.created \in Nat
        BY <1>2, <1>3, <3>4, <4>1 DEF EgressTyped, TableOK
      <4> QED BY <3>3, <3>6, <4>1, <4>2 DEF Unwitnessed
    <3>7. ASSUME "val" \in DOMAIN o.set, s.created # Unwitnessed,
                 has_read(o.id, s.open, s.owner), can_see(s.tier, s.owner)
          PROVE  Seen(o.id, o.set.val)'
      <4>1. PICK table : table = t.docs
        OBVIOUS
      <4>2. o.id \in DOMAIN table /\ table[o.id] = image
        BY <3>3, <3>4, <3>7, <4>1
      <4>3. Clear(o.id, table[o.id], actorsOf(table))
        BY <3>3, <3>7, <4>1, <4>2 DEF Clear
      <4>4. Sees(table, o.id)
        BY <4>2, <4>3, SeesIsClear
      <4>5. Seen(o.id, table[o.id].val)'
        BY <1>2, <1>11, <4>1, <4>2, <4>4 DEF DocsShown
      <4> QED BY <3>4, <3>7, <4>2, <4>5
    <3> QED BY <3>4, <3>5, <3>6, <3>7 DEF UpdateShown
  <2>3. ASSUME NEW k \in 1..Len(log'), NEW i \in DOMAIN log'[k].ops,
               NEW o, NEW s, o = log'[k].ops[i], s = log'[k].per_op[i]
        PROVE  UpdateShown(k, o, s)'
    <3>1. CASE k = n
      <4>1. log'[k].ops = ops /\ log'[k].per_op = Snapshots(docs, t, ops)
        BY <1>4, <1>5, <3>1
      <4> QED BY <2>2, <2>3, <3>1, <4>1
    <3>2. CASE k # n
      <4>1. k \in 1..Len(log) /\ log'[k] = log[k]
        BY <1>1, <1>4, <1>5, <3>2
      <4> QED BY <2>1, <2>3, <4>1
    <3> QED BY <3>1, <3>2
  <2> QED BY <2>3 DEF UpdatesShown
<1>16. OnlyShownUnlessReowned'
  <2>1. \A id, val : Unkept(id, val) => Unkept(id, val)'
    BY <1>1, <1>4, <1>5, UsedKept
  <2> QED BY <1>2, <1>7, <1>9, <2>1 DEF EgressInv, OnlyShownUnlessReowned, Seen
<1> QED BY <1>3, <1>11, <1>12, <1>13, <1>14, <1>15, <1>16 DEF EgressInv

LEMMA PublishKeeps ==
  ASSUME EgressInv, Publish
  PROVE  EgressInv'
<1>1. EgressTyped /\ Len(log) \in Nat
  BY SeqFacts DEF EgressInv, EgressTyped
<1>2. /\ published < Len(log) /\ ecs' = hydrated(ecs, log[published + 1].ops)
      /\ published' = published + 1
      /\ UNCHANGED <<world, docs, log, cursor, loaded, replica, shown, left>>
  BY DEF Publish
<1>3. published' = Len(log') /\ ecs' = actorsOf(docs')
  BY <1>1, <1>2 DEF EgressInv, SceneFollows, EgressTyped
<1>4. SceneFollows'
  BY <1>1, <1>2, <1>3 DEF SceneFollows
<1>5. EgressTyped'
  BY <1>1, <1>2, <1>3 DEF EgressTyped, current
<1>6. \A k, id : UsedAgain(k, id) <=> UsedAgain(k, id)'
  BY <1>2 DEF UsedAgain
<1>7. \A id, val : Unkept(id, val) => Unkept(id, val)'
  BY <1>2, <1>6 DEF Unkept
<1>8. OnlyShownUnlessReowned'
  BY <1>2, <1>7 DEF EgressInv, OnlyShownUnlessReowned, Excused
<1>9. UpdatesShown'
  <2>1. \A k, o, s : UpdateShown(k, o, s) => UpdateShown(k, o, s)'
    BY <1>2, <1>6 DEF UpdateShown, Seen, current
  <2> QED BY <1>2, <2>1 DEF EgressInv, UpdatesShown
<1> QED BY <1>2, <1>4, <1>5, <1>8, <1>9
        DEF EgressInv, DocsShown, LoadedShown, CreatesShown, CreateShown, SafeDoc, Seen, Excused, current

LEMMA LoadKeeps ==
  ASSUME EgressInv, load_current_docs
  PROVE  EgressInv'
<1>1. EgressTyped /\ Len(log) \in Nat
  BY SeqFacts DEF EgressInv, EgressTyped
<1>2. /\ cursor < published /\ loaded' = <<docs>>
      /\ UNCHANGED <<world, docs, log, published, ecs, cursor, replica, shown, left>>
  BY DEF load_current_docs
<1>3. current' = docs
  BY <1>2 DEF current
<1>4. EgressTyped'
  BY <1>1, <1>2, <1>3 DEF EgressTyped
<1>5. LoadedShown'
  <2>1. ASSUME NEW id \in DOMAIN docs, Clear(id, docs[id], actorsOf(docs)) PROVE Seen(id, docs[id].val)
    <3>1. Sees(docs, id)
      BY <2>1, SeesIsClear
    <3> QED BY <3>1 DEF EgressInv, DocsShown
  <2> QED BY <1>2, <1>3, <2>1 DEF LoadedShown, SafeDoc, Seen, Excused
<1>6. UpdatesShown'
  <2>1. ASSUME NEW k \in 1..Len(log), NEW i \in DOMAIN log[k].ops
        PROVE  UpdateShown(k, log[k].ops[i], log[k].per_op[i])'
    <3>1. UpdateShown(k, log[k].ops[i], log[k].per_op[i])
      BY DEF EgressInv, UpdatesShown
    <3> QED BY <1>2, <1>3, <3>1 DEF UpdateShown, Seen, UsedAgain
  <2> QED BY <1>2, <2>1 DEF UpdatesShown
<1> QED BY <1>2, <1>4, <1>5, <1>6
        DEF EgressInv, SceneFollows, DocsShown, CreatesShown, CreateShown, SafeDoc, Seen, OnlyShownUnlessReowned, Excused,
            UsedAgain, Unkept

-----------------------------------------------------------------------------
(* What the filter lets through, and what the client makes of it.          *)

FitVal(id, val) == val = Null \/ Seen(id, val) \/ Excused(id, Forever) \/ Unkept(id, val)
FitOp(p) ==
  /\ p.op \in Kinds
  /\ p.op = "create" => "val" \in DOMAIN p.doc /\ FitVal(p.id, p.doc.val)
  /\ p.op = "update" /\ "val" \in DOMAIN p.set => FitVal(p.id, p.set.val)
FitOps(ops) == IsSeq(ops) /\ \A j \in DOMAIN ops : FitOp(ops[j])
FitTable(table) == \A id \in DOMAIN table : "val" \in DOMAIN table[id] /\ FitVal(id, table[id].val)

LEMMA WholeFit ==
  ASSUME SceneFollows, NEW id, NEW doc, SafeDoc(id, doc),
         has_read(id, doc.open, effective_owner(id, doc, ecs))
  PROVE  FitOp(Whole(id, doc))
<1>1. PICK owner, cut : owner = effective_owner(id, doc, ecs) /\ cut = filter_properties(doc, owner)
  OBVIOUS
<1>2. Whole(id, doc) = [op |-> "create", id |-> id, doc |-> cut]
  BY <1>1 DEF Whole
<1>3. cut = [val |-> IF can_see(doc.tier, owner) THEN doc.val ELSE Null, parent |-> doc.parent]
  BY <1>1 DEF filter_properties
<1>4. FitVal(id, cut.val)
  <2>1. CASE ~can_see(doc.tier, owner)
    BY <1>3, <2>1 DEF FitVal
  <2>2. CASE Excused(id, Forever)
    BY <2>2 DEF FitVal
  <2>3. CASE can_see(doc.tier, owner) /\ ~Excused(id, Forever)
    <3>1. Clear(id, doc, ecs)
      BY <1>1, <2>3 DEF Clear
    <3>2. id \in Tokens => ecs = actorsOf(docs)
      BY <2>3 DEF SceneFollows
    <3>3. Clear(id, doc, actorsOf(docs))
      BY <3>1, <3>2, ClearSame
    <3> QED BY <1>3, <2>3, <3>3 DEF SafeDoc, FitVal
  <2> QED BY <2>1, <2>2, <2>3
<1> QED BY <1>2, <1>3, <1>4 DEF FitOp, Kinds

LEMMA UpdateFit ==
  ASSUME NEW c, c = log[cursor + 1], NEW i \in DOMAIN c.ops, NEW o, o = c.ops[i], NEW s, s = c.per_op[i],
         o.op = "update", UpdateShown(cursor + 1, o, s), cursor + 1 \in 1..Len(log), loaded # <<>>,
         cursor \in Nat,
         o.id \in DOMAIN current, ~Reused(o, s), read_gate(o, s, current[o.id]),
         NEW set,
         set = IF retracts(o, s) THEN [val |-> Null]
               ELSE Restrict(o.set, DOMAIN o.set \cap (IF hidden(o, s, current[o.id]) THEN {} ELSE {"val"}))
  PROVE  FitOp([op |-> "update", id |-> o.id, set |-> set])
<1>1. ASSUME "val" \in DOMAIN set PROVE FitVal(o.id, set.val)
  <2>1. CASE retracts(o, s)
    BY <2>1 DEF FitVal
  <2>2. CASE ~retracts(o, s)
    <3>1. PICK kept : kept = DOMAIN o.set \cap (IF hidden(o, s, current[o.id]) THEN {} ELSE {"val"})
      OBVIOUS
    <3>2. DOMAIN set = kept /\ \A x \in kept : set[x] = o.set[x]
      BY <2>2, <3>1 DEF Restrict
    <3>3. "val" \in DOMAIN o.set /\ ~hidden(o, s, current[o.id]) /\ set.val = o.set.val
      BY <1>1, <3>1, <3>2
    <3>4. has_read(o.id, s.open, s.owner) /\ can_see(s.tier, s.owner)
      BY <3>3 DEF hidden, read_gate
    <3>5. CASE s.created # Unwitnessed
      BY <3>3, <3>4, <3>5 DEF UpdateShown, FitVal
    <3>6. CASE s.created = Unwitnessed
      <4>1. o.set.val = cursor + 1 /\ UsedAgain(cursor + 1, o.id)
        BY <3>3, <3>6 DEF UpdateShown
      <4>2. Unkept(o.id, cursor + 1)
        BY <3>3, <3>4, <3>6, <4>1 DEF Unkept
      <4> QED BY <3>3, <4>1, <4>2 DEF FitVal
    <3> QED BY <3>5, <3>6
  <2> QED BY <2>1, <2>2
<1> QED BY <1>1 DEF FitOp, Kinds

LEMMA FilterFit ==
  ASSUME EgressInv, loaded # <<>>, NEW c, c = log[cursor + 1], NEW i \in DOMAIN c.ops
  PROVE  filter_op(c, i) = <<>> \/ \E p : filter_op(c, i) = <<p>> /\ FitOp(p)
<1>1. cursor \in Nat /\ cursor + 1 \in 1..Len(log) /\ EntryShape(c) /\ SceneFollows
  BY SeqFacts DEF EgressInv, EgressTyped
<1>2. PICK o, s : o = c.ops[i] /\ s = c.per_op[i]
  OBVIOUS
<1>3. o.op \in Kinds /\ CreateShown(o) /\ UpdateShown(cursor + 1, o, s)
  BY <1>1, <1>2 DEF EntryShape, EgressInv, CreatesShown, UpdatesShown
<1>4. CASE o.op = "create"
  <2>1. filter_op(c, i) = FilterCreate(o, s)
    BY <1>2, <1>4 DEF filter_op
  <2>2. filter_op(c, i) = <<>> \/ /\ filter_op(c, i) = <<Whole(o.id, o.doc)>>
                                  /\ read_gate(o, [open |-> o.doc.open, owner |-> s.owner], o.doc)
    BY <2>1 DEF FilterCreate
  <2>3. ASSUME read_gate(o, [open |-> o.doc.open, owner |-> s.owner], o.doc)
        PROVE  FitOp(Whole(o.id, o.doc))
    BY <1>1, <1>3, <1>4, <2>3, WholeFit DEF read_gate, CreateShown
  <2> QED BY <2>2, <2>3
<1>5. CASE o.op = "delete"
  <2>1. filter_op(c, i) = FilterDelete(o, s)
    BY <1>2, <1>5 DEF filter_op
  <2>2. filter_op(c, i) = <<>> \/ filter_op(c, i) = <<[op |-> "delete", id |-> o.id]>>
    BY <2>1 DEF FilterDelete
  <2>3. FitOp([op |-> "delete", id |-> o.id])
    BY DEF FitOp, Kinds
  <2> QED BY <2>2, <2>3
<1>6. CASE o.op = "move"
  <2>1. filter_op(c, i) = FilterMove(o, s)
    BY <1>2, <1>6 DEF filter_op
  <2>2. filter_op(c, i) = <<>> \/ filter_op(c, i) = <<o>>
    BY <2>1 DEF FilterMove
  <2>3. FitOp(o)
    BY <1>6 DEF FitOp, Kinds
  <2> QED BY <2>2, <2>3
<1>7. CASE o.op = "update"
  <2>1. PICK last \in BOOLEAN : filter_op(c, i) = FilterUpdate(o, s, last)
    <3>1. filter_op(c, i) = FilterUpdate(o, s, last_update_idx_for_doc(c.ops, i))
      BY <1>2, <1>7 DEF filter_op
    <3>2. last_update_idx_for_doc(c.ops, i) \in BOOLEAN
      BY DEF last_update_idx_for_doc
    <3> QED BY <3>1, <3>2
  <2>2. CASE o.id \notin DOMAIN current \/ Reused(o, s)
    BY <2>1, <2>2 DEF FilterUpdate
  <2>3. CASE o.id \in DOMAIN current /\ ~Reused(o, s)
    <3>1. PICK doc : doc = current[o.id]
      OBVIOUS
    <3>2. SafeDoc(o.id, doc)
      BY <2>3, <3>1 DEF EgressInv, LoadedShown
    <3>3. CASE Transition(o, s)
      <4>1. \/ filter_op(c, i) = <<>>
            \/ filter_op(c, i) = <<[op |-> "delete", id |-> o.id]>>
            \/ /\ filter_op(c, i) = <<Whole(o.id, doc)>>
               /\ has_read(o.id, doc.open, effective_owner(o.id, doc, ecs))
        BY <2>1, <2>3, <3>1, <3>3 DEF FilterUpdate
      <4>2. FitOp([op |-> "delete", id |-> o.id])
        BY DEF FitOp, Kinds
      <4>3. ASSUME has_read(o.id, doc.open, effective_owner(o.id, doc, ecs))
            PROVE  FitOp(Whole(o.id, doc))
        BY <1>1, <3>2, <4>3, WholeFit
      <4> QED BY <4>1, <4>2, <4>3
    <3>4. CASE ~Transition(o, s)
      <4>1. PICK set :
              set = IF retracts(o, s) THEN [val |-> Null]
                    ELSE Restrict(o.set, DOMAIN o.set \cap (IF hidden(o, s, doc) THEN {} ELSE {"val"}))
        OBVIOUS
      <4>2. \/ filter_op(c, i) = <<>>
            \/ /\ filter_op(c, i) = <<[op |-> "update", id |-> o.id, set |-> set]>>
               /\ read_gate(o, s, doc)
        BY <2>1, <2>3, <3>1, <3>4, <4>1 DEF FilterUpdate
      <4>3. ASSUME read_gate(o, s, doc)
            PROVE  FitOp([op |-> "update", id |-> o.id, set |-> set])
        BY <1>1, <1>2, <1>3, <1>7, <2>3, <3>1, <4>1, <4>3, UpdateFit
      <4> QED BY <4>2, <4>3
    <3> QED BY <3>3, <3>4
  <2> QED BY <2>2, <2>3
<1> QED BY <1>3, <1>4, <1>5, <1>6, <1>7 DEF Kinds

LEMMA JoinedFit ==
  ASSUME NEW out, FitOps(out), NEW more, more = <<>> \/ \E p : more = <<p>> /\ FitOp(p)
  PROVE  FitOps(out \o more)
<1>1. PICK S : S = Range(out) /\ out \in Seq(S)
  BY DEF FitOps, IsSeq
<1>2. CASE more = <<>>
  <2>1. out \o more = out
    BY <1>1, <1>2
  <2> QED BY <2>1
<1>3. CASE \E p : more = <<p>> /\ FitOp(p)
  <2>1. PICK p : more = <<p>> /\ FitOp(p)
    BY <1>3
  <2>2. out \o more = Append(out, p)
    BY <1>1, <2>1
  <2>3. /\ IsSeq(Append(out, p)) /\ Len(Append(out, p)) = Len(out) + 1
        /\ Append(out, p)[Len(out) + 1] = p
        /\ \A i \in 1..Len(out) : Append(out, p)[i] = out[i]
    BY AppendFacts DEF FitOps
  <2>4. PICK new : new = Append(out, p)
    OBVIOUS
  <2>5. DOMAIN new = 1..Len(out) + 1 /\ Len(out) \in Nat /\ DOMAIN out = 1..Len(out)
    BY <1>1, <2>3, <2>4, SeqFacts DEF FitOps
  <2>6. \A j \in DOMAIN new : FitOp(new[j])
    BY <2>1, <2>3, <2>4, <2>5 DEF FitOps
  <2> QED BY <2>2, <2>3, <2>4, <2>6 DEF FitOps
<1> QED BY <1>2, <1>3

LEMMA CommandFit ==
  ASSUME NEW c, IsSeq(c.ops),
         \A i \in DOMAIN c.ops : filter_op(c, i) = <<>> \/ \E p : filter_op(c, i) = <<p>> /\ FitOp(p)
  PROVE  FitOps(filter_command(c))
<1>1. Len(c.ops) \in Nat /\ DOMAIN c.ops = 1..Len(c.ops)
  BY SeqFacts
<1>2. PICK it : /\ it[0] = <<>> /\ it[Len(c.ops)] = filter_command(c)
                /\ \A k \in Nat : k + 1 <= Len(c.ops) => it[k + 1] = it[k] \o filter_op(c, k + 1)
  BY FilterUnrolled
<1>3. PICK T : T = {k \in Nat : k <= Len(c.ops) => FitOps(it[k])}
  OBVIOUS
<1>4. 0 \in T
  <2>1. FitOps(<<>>)
    <3>1. <<>> \in Seq(Range(<<>>)) /\ DOMAIN <<>> = {}
      OBVIOUS
    <3> QED BY <3>1 DEF FitOps, IsSeq
  <2> QED BY <1>2, <1>3, <2>1
<1>5. ASSUME NEW k \in Nat, k \in T PROVE k + 1 \in T
  <2>1. SUFFICES ASSUME k + 1 <= Len(c.ops) PROVE FitOps(it[k + 1])
    BY <1>3
  <2>2. FitOps(it[k]) /\ k + 1 \in DOMAIN c.ops
    BY <1>1, <1>3, <1>5, <2>1
  <2>3. PICK out, more : out = it[k] /\ more = filter_op(c, k + 1)
    OBVIOUS
  <2>4. FitOps(out) /\ (more = <<>> \/ \E p : more = <<p>> /\ FitOp(p))
    BY <2>2, <2>3
  <2>5. FitOps(out \o more)
    BY <2>4, JoinedFit
  <2> QED BY <1>2, <2>1, <2>3, <2>5
<1>6. Nat \subseteq T
  BY <1>4, <1>5, NatInd
<1> QED BY <1>1, <1>2, <1>3, <1>6

LEMMA OperationFit ==
  ASSUME NEW table, FitTable(table), NEW o, FitOp(o)
  PROVE  FitTable(applyOperation(table, o))
<1>1. PICK new : new = applyOperation(table, o)
  OBVIOUS
<1>2. CASE o.op \in {"update", "move"} /\ o.id \notin DOMAIN table
  BY <1>2 DEF applyOperation
<1>3. CASE o.op = "create"
  <2>1. new = Put(table, o.id, o.doc)
    BY <1>1, <1>3 DEF applyOperation
  <2>2. /\ DOMAIN new = DOMAIN table \cup {o.id} /\ new[o.id] = o.doc
        /\ \A x \in DOMAIN table : x # o.id => new[x] = table[x]
    BY <2>1 DEF Put, Over
  <2> QED BY <1>1, <1>3, <2>2 DEF FitTable, FitOp
<1>4. CASE o.op = "delete"
  <2>1. new = Without(table, o.id)
    BY <1>1, <1>4 DEF applyOperation
  <2>2. DOMAIN new \subseteq DOMAIN table /\ \A x \in DOMAIN new : new[x] = table[x]
    BY <2>1 DEF Without, Restrict
  <2> QED BY <1>1, <2>2 DEF FitTable
<1>5. CASE o.op = "move" /\ o.id \in DOMAIN table
  <2>1. PICK old, doc, parent : old = table[o.id] /\ parent = o.parent /\ doc = [old EXCEPT !.parent = parent]
    OBVIOUS
  <2>2. new = [table EXCEPT ![o.id] = doc]
    BY <1>1, <1>5, <2>1 DEF applyOperation
  <2>3. "val" \in DOMAIN old /\ FitVal(o.id, old.val)
    BY <1>5, <2>1 DEF FitTable
  <2>4. "val" \in DOMAIN doc /\ doc.val = old.val
    BY <2>1, <2>3
  <2> QED BY <1>1, <1>5, <2>2, <2>3, <2>4 DEF FitTable
<1>6. CASE o.op = "update" /\ o.id \in DOMAIN table
  <2>1. PICK old, set : old = table[o.id] /\ set = o.set
    OBVIOUS
  <2>2. /\ DOMAIN Over(set, old) = DOMAIN set \cup DOMAIN old
        /\ \A x \in DOMAIN set : Over(set, old)[x] = set[x]
        /\ \A x \in DOMAIN old : x \notin DOMAIN set => Over(set, old)[x] = old[x]
    BY DEF Over
  <2>3. PICK doc : doc = Over(set, old)
    OBVIOUS
  <2>4. new = [table EXCEPT ![o.id] = doc]
    BY <1>1, <1>6, <2>1, <2>3 DEF applyOperation
  <2>5. "val" \in DOMAIN old /\ FitVal(o.id, old.val)
    BY <1>6, <2>1 DEF FitTable
  <2>6. "val" \in DOMAIN doc /\ FitVal(o.id, doc.val)
    BY <1>6, <2>1, <2>2, <2>3, <2>5 DEF FitOp
  <2> QED BY <1>1, <1>6, <2>4, <2>6 DEF FitTable
<1> QED BY <1>2, <1>3, <1>4, <1>5, <1>6 DEF FitOp, Kinds

LEMMA ReplicaFit ==
  ASSUME NEW table, FitTable(table), NEW ops, FitOps(ops)
  PROVE  FitTable(applyCommand(table, ops))
<1>1. IsSeq(ops) /\ Len(ops) \in Nat /\ DOMAIN ops = 1..Len(ops)
  BY SeqFacts DEF FitOps
<1>2. PICK it : /\ it[0] = table /\ it[Len(ops)] = applyCommand(table, ops)
                /\ \A k \in Nat : k + 1 <= Len(ops) => it[k + 1] = applyOperation(it[k], ops[k + 1])
  BY <1>1, CommandUnrolled
<1>3. PICK T : T = {k \in Nat : k <= Len(ops) => FitTable(it[k])}
  OBVIOUS
<1>4. 0 \in T
  BY <1>2, <1>3
<1>5. ASSUME NEW k \in Nat, k \in T PROVE k + 1 \in T
  <2>1. SUFFICES ASSUME k + 1 <= Len(ops) PROVE FitTable(it[k + 1])
    BY <1>3
  <2>2. FitTable(it[k]) /\ FitOp(ops[k + 1])
    BY <1>1, <1>3, <1>5, <2>1 DEF FitOps
  <2>3. FitTable(applyOperation(it[k], ops[k + 1]))
    BY <2>2, OperationFit
  <2> QED BY <1>2, <2>1, <2>3
<1>6. Nat \subseteq T
  BY <1>4, <1>5, NatInd
<1> QED BY <1>1, <1>2, <1>3, <1>6

LEMMA SendKeeps ==
  ASSUME EgressInv, send_filtered_event
  PROVE  EgressInv'
<1>1. EgressTyped /\ Len(log) \in Nat
  BY SeqFacts DEF EgressInv, EgressTyped
<1>2. PICK c, ops : c = log[cursor + 1] /\ ops = filter_command(c)
  OBVIOUS
<1>3. /\ loaded # <<>> /\ replica' = applyCommand(replica, ops)
      /\ {l \in left : l.why \in Forever} \subseteq left'
      /\ cursor' = cursor + 1 /\ loaded' = <<>>
      /\ UNCHANGED <<world, docs, log, published, ecs, shown>>
  <2>1. /\ loaded # <<>> /\ replica' = applyCommand(replica, ops)
        /\ left' = LET whole == {o.id : o \in {p \in Range(ops) : p.op \in {"create", "delete"}}}
                   IN {l \in left : l.why \in Forever \/ ~(l.id \in whole /\ l.at <= cursor + 1)}
        /\ cursor' = cursor + 1 /\ loaded' = <<>>
        /\ UNCHANGED <<world, docs, log, published, ecs, shown>>
    BY <1>2, Zenon DEF send_filtered_event
  <2>2. {l \in left : l.why \in Forever} \subseteq left'
    BY <2>1
  <2> QED BY <2>1, <2>2
<1>4. \A id : Excused(id, Forever) => Excused(id, Forever)'
  BY <1>3, ForeverKept
<1>5. FitOps(ops)
  <2>1. \A i \in DOMAIN c.ops : filter_op(c, i) = <<>> \/ \E p : filter_op(c, i) = <<p>> /\ FitOp(p)
    BY <1>2, <1>3, FilterFit
  <2>2. IsSeq(c.ops)
    BY <1>1, <1>2, <1>3 DEF EgressTyped, EntryShape
  <2> QED BY <1>2, <2>1, <2>2, CommandFit
<1>6. FitTable(replica)
  BY DEF EgressInv, EgressTyped, OnlyShownUnlessReowned, FitTable, FitVal, Seen
<1>14. \A id, val : Unkept(id, val) => Unkept(id, val)'
  BY <1>3 DEF Unkept, UsedAgain
<1>7. FitTable(replica')
  BY <1>3, <1>5, <1>6, ReplicaFit
<1>8. OnlyShownUnlessReowned' /\ \A id \in DOMAIN replica' : "val" \in DOMAIN replica'[id]
  <2>1. ASSUME NEW id \in DOMAIN replica', NEW val, val = replica'[id].val
        PROVE  /\ "val" \in DOMAIN replica'[id]
               /\ \/ val = Null \/ <<id, val>> \in shown'
                  \/ Excused(id, Forever)' \/ Unkept(id, val)'
    BY <1>3, <1>4, <1>7, <1>14, <2>1 DEF FitTable, FitVal, Seen
  <2> QED BY <2>1 DEF OnlyShownUnlessReowned
<1>9. EgressTyped'
  BY <1>1, <1>3, <1>8 DEF EgressTyped, current
<1>10. SceneFollows'
  BY <1>3, <1>4 DEF EgressInv, SceneFollows
<1>11. \A id, doc : SafeDoc(id, doc) => SafeDoc(id, doc)'
  BY <1>3, <1>4 DEF SafeDoc, Seen
<1>12. CreatesShown'
  <2>1. \A o : CreateShown(o) => CreateShown(o)'
    BY <1>11 DEF CreateShown
  <2> QED BY <1>3, <2>1 DEF EgressInv, CreatesShown
<1>13. UpdatesShown'
  <2>1. \A k, o, s : UpdateShown(k, o, s) => UpdateShown(k, o, s)'
    BY <1>3 DEF UpdateShown, Seen, UsedAgain
  <2> QED BY <1>3, <2>1 DEF EgressInv, UpdatesShown
<1> QED BY <1>3, <1>8, <1>9, <1>10, <1>12, <1>13 DEF EgressInv, DocsShown, LoadedShown, Seen

-----------------------------------------------------------------------------
LEMMA EgressInit ==
  ASSUME Init
  PROVE  EgressInv
<1>1. PICK table : /\ table = docs /\ ecs = actorsOf(table) /\ replica = world_snapshot(table)
                   /\ shown = Visible(table) /\ log = <<>> /\ loaded = <<>>
                   /\ published = 0 /\ cursor = 0 /\ left = {}
                   /\ world \in Worlds /\ table = world.docs
  BY DEF Init, Visible
<1>2. IsSeq(log) /\ Len(log) = 0
  <2>1. <<>> \in Seq(Range(<<>>)) /\ Len(<<>>) = 0
    OBVIOUS
  <2> QED BY <1>1, <2>1 DEF IsSeq
<1>3. TableOK(docs, 0)
  BY <1>1, EgressConstants DEF TableOK, IsStored, Fields
<1>4. ASSUME NEW id \in DOMAIN table, Sees(table, id) PROVE Seen(id, table[id].val)
  BY <1>1, <1>4 DEF Visible, Seen
<1>5. ASSUME NEW id \in DOMAIN replica
      PROVE  "val" \in DOMAIN replica[id] /\ (replica[id].val = Null \/ Seen(id, replica[id].val))
  <2>1. /\ id \in DOMAIN table /\ Reads(table, id)
        /\ replica[id] = filter_properties(table[id], OwnerIn(table, id))
    BY <1>1, <1>5 DEF world_snapshot
  <2>2. replica[id] = [val |-> IF can_see(table[id].tier, OwnerIn(table, id)) THEN table[id].val ELSE Null,
                       parent |-> table[id].parent]
    BY <2>1 DEF filter_properties
  <2>3. can_see(table[id].tier, OwnerIn(table, id)) => Sees(table, id)
    BY <2>1 DEF Sees
  <2> QED BY <1>4, <2>1, <2>2, <2>3
<1>6. EgressTyped
  BY <1>1, <1>2, <1>3, <1>5 DEF EgressTyped
<1>7. SceneFollows
  BY <1>1, <1>2 DEF SceneFollows
<1>8. DocsShown /\ OnlyShownUnlessReowned
  BY <1>1, <1>4, <1>5 DEF DocsShown, OnlyShownUnlessReowned, Seen
<1>9. CreatesShown /\ UpdatesShown /\ LoadedShown
  BY <1>1, <1>2 DEF CreatesShown, UpdatesShown, LoadedShown
<1> QED BY <1>6, <1>7, <1>8, <1>9 DEF EgressInv

LEMMA EgressStep ==
  ASSUME EgressInv, [Next]_vars
  PROVE  EgressInv'
<1>1. CASE \E batch \in world.batches : Commit(batch)
  BY <1>1, CommitKeeps
<1>2. CASE Publish
  BY <1>2, PublishKeeps
<1>3. CASE load_current_docs
  BY <1>3, LoadKeeps
<1>4. CASE send_filtered_event
  BY <1>4, SendKeeps
<1>5. CASE UNCHANGED vars
  <2>1. /\ UNCHANGED <<world, docs, log, published, ecs, cursor, loaded, replica, shown, left>>
        /\ UNCHANGED current
    BY <1>5 DEF vars, current
  <2>2. \A k, id : UsedAgain(k, id) <=> UsedAgain(k, id)'
    BY <2>1 DEF UsedAgain
  <2>3. \A id, val : Unkept(id, val) => Unkept(id, val)'
    BY <2>1, <2>2 DEF Unkept
  <2>4. OnlyShownUnlessReowned'
    BY <2>1, <2>3 DEF EgressInv, OnlyShownUnlessReowned, Excused
  <2>5. UpdatesShown'
    <3>1. \A k, o, s : UpdateShown(k, o, s) => UpdateShown(k, o, s)'
      BY <2>1, <2>2 DEF UpdateShown, Seen
    <3> QED BY <2>1, <3>1 DEF EgressInv, UpdatesShown
  <2> QED BY <2>1, <2>4, <2>5 DEF EgressInv, EgressTyped, SceneFollows, DocsShown, LoadedShown, CreatesShown,
                                  CreateShown, SafeDoc, Seen, Excused
<1> QED BY <1>1, <1>2, <1>3, <1>4, <1>5 DEF Next

(* What is stored, logged and published keeps its shape and its order, the *)
(* scene follows the documents, and everything the filter may send is safe *)
(* to send: the inductive invariant of the filter, whatever the batches    *)
(* are and whenever each command is filtered.                              *)
THEOREM EgressInductive == Spec => []EgressInv
BY EgressInit, EgressStep, PTL DEF Spec

(* No value reaches the player that no commit left visible to him: the     *)
(* filter asks both the rights of the commit and those of now, which are   *)
(* of two moments (filter_command, send_filtered_event).                   *)
THEOREM OnlyShownAlways == Spec => []OnlyShownUnlessReowned
<1>1. EgressInv => OnlyShownUnlessReowned
  BY DEF EgressInv
<1> QED BY <1>1, EgressInductive, PTL

-----------------------------------------------------------------------------
(* What the player ends up with.  T[k] is the documents after k commands:  *)
(* the tables a behaviour has passed through.                              *)

(* The k-th command, e, made t.docs of the documents before it.            *)
Made(before, t, e, k) ==
  /\ Batch(e.ops, before, k) /\ Part(t, before, e.ops, k, Len(e.ops))
  /\ Change(before, t.docs, e.ops, Len(e.ops))
  /\ \A i \in DOMAIN e.ops : e.ops[i].op = "delete" => e.ops[i].doc = before[e.ops[i].id]
  /\ e.per_op = Snapshots(before, t, e.ops)

MadeOf(before, after, e, k) == \E t : t.docs = after /\ Made(before, t, e, k)

History(T) ==
  /\ T[Len(log)] = docs
  /\ \A k \in 0..Len(log) : TableOK(T[k], k)
  /\ \A k \in 1..Len(log) : MadeOf(T[k - 1], T[k], log[k], k)
  /\ ecs = actorsOf(T[published])
  /\ loaded # <<>> => \E m \in cursor + 1..Len(log) : current = T[m]

(* What each command not sent yet makes the filter lose, and what it loses *)
(* for ever, is on record.                                                 *)
Told(id, why, k) == [id |-> id, why |-> why, at |-> k] \in left
Waits(id, k) == \E i \in cursor + 1..k - 1 : \E o \in Range(log[i].ops) : o.id = id
Hands(id, before, after) == id \in Tokens /\ actorsOf(before) # actorsOf(after)
Doubled(id, ops) ==
  \E i, j \in DOMAIN ops : i # j /\ \A k \in {i, j} : ops[k].op = "create" /\ ops[k].id = id
Retouched(id, ops) == \E o \in Range(ops) : o.id = id /\ touches_permissions(o)

Tells(id, k, ops, before, after) ==
  /\ Hands(id, before, after) => Told(id, "mixed", k)
  /\ Doubled(id, ops) => Told(id, "twice", k)
  /\ cursor < k =>
       /\ /\ id \in Tokens /\ id \in DOMAIN before \cap DOMAIN after
          /\ Reads(before, id) # Reads(after, id) /\ ~Updated(ops, id)
          => Told(id, "reowned", k)
       /\ Hands(id, before, after) /\ (Waits(id, k) \/ id \notin DOMAIN after) => Told(id, "reowned", k)
       /\ Waits(id, k) /\ id \notin DOMAIN before /\ id \in DOMAIN after /\ ~Reads(after, id)
          => Told(id, "reused", k)
       /\ Waits(id, k) /\ id \in DOMAIN before \ DOMAIN after /\ ~Reads(before, id)
          => Told(id, "unread", k)
       /\ Reads(before, id) /\ Reads(after, id) =>
            /\ ~Sees(before, id) /\ Sees(after, id) /\ ~WritesVal(ops, id) => Told(id, "unhidden", k)
            /\ Sees(before, id) /\ ~Sees(after, id) /\ ~Retouched(id, ops) => Told(id, "kept", k)

Recorded(T) == \A k \in 1..Len(log) : \A id \in Ids : Tells(id, k, log[k].ops, T[k - 1], T[k])

(* The player has a document as some state between the last command sent   *)
(* and now would have him; its parent and its field are those of now,      *)
(* where no command is left to change them.                                *)
Missed == {"twice", "reowned", "reused", "unread"}
Presence(T, id) ==
  \/ Excused(id, Missed)
  \/ \E j \in cursor..Len(log) : id \in DOMAIN replica <=> Reads(T[j], id)

Unmoved(id, a, b) == \A k \in a..b : Still(log[k].ops, id, "move", Len(log[k].ops))
Unwritten(id, a, b) == \A k \in a..b : Silent(log[k].ops, id, Len(log[k].ops))
Readable(T, id, a, b) == \A j \in a..b : Reads(T[j], id)
Visibly(T, id, a, b) == \A j \in a..b : Sees(T[j], id)
Hidden(T, id, a, b) == \A j \in a..b : ~Sees(T[j], id)

Right(T, id) ==
  /\ Unmoved(id, cursor + 1, Len(log)) => replica[id].parent = docs[id].parent
  /\ Visibly(T, id, cursor, Len(log)) /\ Unwritten(id, cursor + 1, Len(log)) =>
       replica[id].val = docs[id].val
  /\ Hidden(T, id, cursor, Len(log)) => replica[id].val = Null
Faithful(T, id) ==
  id \in DOMAIN replica /\ Readable(T, id, cursor, Len(log)) => Excused(id, Losses) \/ Right(T, id)

Shaped(table) == \A id \in DOMAIN table : table[id] = [val |-> table[id].val, parent |-> table[id].parent]

Mirrors(T) ==
  History(T) /\ Recorded(T) /\ \A id \in Ids : Presence(T, id) /\ Faithful(T, id)
MirrorInv == EgressInv /\ Shaped(replica) /\ \E T : Mirrors(T)

-----------------------------------------------------------------------------
LEMMA MirrorInit ==
  ASSUME Init
  PROVE  MirrorInv
<1>1. EgressInv
  BY EgressInit
<1>2. /\ ecs = actorsOf(docs) /\ replica = world_snapshot(docs)
      /\ log = <<>> /\ loaded = <<>> /\ published = 0 /\ cursor = 0
  BY DEF Init
<1>3. Len(log) = 0
  BY <1>2
<1>4. ASSUME NEW id \in DOMAIN replica
      PROVE  /\ id \in DOMAIN docs /\ Reads(docs, id)
             /\ replica[id] = [val |-> IF can_see(docs[id].tier, OwnerIn(docs, id)) THEN docs[id].val ELSE Null,
                               parent |-> docs[id].parent]
  BY <1>2, <1>4 DEF world_snapshot, filter_properties
<1>5. \A id : Reads(docs, id) => id \in DOMAIN replica
  BY <1>2 DEF world_snapshot, Reads
<1>6. Shaped(replica)
  <2>1. ASSUME NEW id \in DOMAIN replica PROVE replica[id] = [val |-> replica[id].val, parent |-> replica[id].parent]
    <3>1. PICK r, v, p : r = replica[id] /\ r = [val |-> v, parent |-> p]
      BY <1>4
    <3>2. r.val = v /\ r.parent = p
      BY <3>1
    <3> QED BY <3>1, <3>2
  <2> QED BY <2>1 DEF Shaped
<1>7. PICK T : T[0] = docs
  <2>1. PICK U : U = [j \in {0} |-> docs]
    OBVIOUS
  <2> QED BY <2>1
<1>8. History(T)
  BY <1>1, <1>2, <1>3, <1>7 DEF History, EgressInv, EgressTyped
<1>9. Recorded(T)
  BY <1>3 DEF Recorded
<1>10. ASSUME NEW id \in Ids PROVE Presence(T, id) /\ Faithful(T, id)
  <2>1. Presence(T, id)
    <3>1. id \in DOMAIN replica <=> Reads(T[0], id)
      BY <1>4, <1>5, <1>7
    <3>2. 0 \in cursor..Len(log)
      BY <1>2, <1>3
    <3> QED BY <3>1, <3>2 DEF Presence
  <2>2. ASSUME id \in DOMAIN replica PROVE Right(T, id)
    <3>1. PICK r, d : r = replica[id] /\ d = docs[id]
                      /\ r = [val |-> IF can_see(d.tier, OwnerIn(docs, id)) THEN d.val ELSE Null, parent |-> d.parent]
                      /\ Reads(docs, id)
      BY <1>4, <2>2
    <3>2. r.parent = d.parent /\ r.val = IF can_see(d.tier, OwnerIn(docs, id)) THEN d.val ELSE Null
      BY <3>1
    <3>3. Sees(docs, id) <=> can_see(d.tier, OwnerIn(docs, id))
      BY <3>1 DEF Sees
    <3>4. 0 \in cursor..Len(log)
      BY <1>2, <1>3
    <3>5. Visibly(T, id, cursor, Len(log)) => Sees(docs, id)
      BY <1>7, <3>4 DEF Visibly
    <3>6. Hidden(T, id, cursor, Len(log)) => ~Sees(docs, id)
      BY <1>7, <3>4 DEF Hidden
    <3> QED BY <3>1, <3>2, <3>3, <3>5, <3>6 DEF Right
  <2> QED BY <2>1, <2>2 DEF Faithful
<1> QED BY <1>1, <1>6, <1>8, <1>9, <1>10 DEF MirrorInv, Mirrors

LEMMA ReasonIn ==
  ASSUME NEW id \in Ids, NEW why \in Losses, NEW n, NEW ops, NEW table, NEW after,
         Loses(id, why, ops, table, after)
  PROVE  [id |-> id, why |-> why, at |-> n] \in Reasons(n, ops, table, after)
<1>1. PICK p \in {p \in Ids \X Losses : Loses(p[1], p[2], ops, table, after)} : p = <<id, why>>
  <2>1. <<id, why>> \in Ids \X Losses
    OBVIOUS
  <2>2. Loses(<<id, why>>[1], <<id, why>>[2], ops, table, after)
    OBVIOUS
  <2> QED BY <2>1, <2>2
<1>2. [id |-> p[1], why |-> p[2], at |-> n] \in Reasons(n, ops, table, after)
  BY DEF Reasons
<1> QED BY <1>1, <1>2

LEMMA CommitTells ==
  ASSUME NEW id \in Ids, NEW n, NEW ops, NEW table, NEW after,
         Reasons(n, ops, table, after) \subseteq left', Waits(id, n)' => Pending(id)
  PROVE  Tells(id, n, ops, table, after)'
<1>1. ASSUME NEW why \in Losses, Loses(id, why, ops, table, after) PROVE Told(id, why, n)'
  BY <1>1, ReasonIn DEF Told
<1>2. {"mixed", "twice", "reowned", "reused", "unread", "unhidden", "kept"} \subseteq Losses
  BY DEF Losses, Forever
<1>3. Hands(id, table, after) => Told(id, "mixed", n)'
  <2>1. Hands(id, table, after) => Loses(id, "mixed", ops, table, after)
    BY DEF Hands, Loses
  <2> QED BY <1>1, <1>2, <2>1
<1>4. Doubled(id, ops) => Told(id, "twice", n)'
  <2>1. Doubled(id, ops) => Loses(id, "twice", ops, table, after)
    BY DEF Doubled, Loses
  <2> QED BY <1>1, <1>2, <2>1
<1>5. /\ id \in Tokens /\ id \in DOMAIN table \cap DOMAIN after
      /\ Reads(table, id) # Reads(after, id) /\ ~Updated(ops, id)
      => Told(id, "reowned", n)'
  <2>1. ASSUME id \in Tokens, id \in DOMAIN table \cap DOMAIN after,
               Reads(table, id) # Reads(after, id), ~Updated(ops, id)
        PROVE  Loses(id, "reowned", ops, table, after)
    BY <2>1 DEF Loses
  <2> QED BY <1>1, <1>2, <2>1
<1>6. Hands(id, table, after) /\ (Waits(id, n)' \/ id \notin DOMAIN after) => Told(id, "reowned", n)'
  <2>1. Hands(id, table, after) /\ (Waits(id, n)' \/ id \notin DOMAIN after)
        => Loses(id, "reowned", ops, table, after)
    BY DEF Loses, Hands
  <2> QED BY <1>1, <1>2, <2>1
<1>7. Waits(id, n)' /\ id \notin DOMAIN table /\ id \in DOMAIN after /\ ~Reads(after, id)
      => Told(id, "reused", n)'
  <2>1. Waits(id, n)' /\ id \notin DOMAIN table /\ id \in DOMAIN after /\ ~Reads(after, id)
        => Loses(id, "reused", ops, table, after)
    BY DEF Loses
  <2> QED BY <1>1, <1>2, <2>1
<1>8. Waits(id, n)' /\ id \in DOMAIN table \ DOMAIN after /\ ~Reads(table, id)
      => Told(id, "unread", n)'
  <2>1. Waits(id, n)' /\ id \in DOMAIN table \ DOMAIN after /\ ~Reads(table, id)
        => Loses(id, "unread", ops, table, after)
    BY DEF Loses
  <2> QED BY <1>1, <1>2, <2>1
<1>9. Reads(table, id) /\ Reads(after, id) /\ ~Sees(table, id) /\ Sees(after, id) /\ ~WritesVal(ops, id)
      => Told(id, "unhidden", n)'
  <2>1. Reads(table, id) /\ Reads(after, id) /\ ~Sees(table, id) /\ Sees(after, id) /\ ~WritesVal(ops, id)
        => Loses(id, "unhidden", ops, table, after)
    BY DEF Loses
  <2> QED BY <1>1, <1>2, <2>1
<1>10. Reads(table, id) /\ Reads(after, id) /\ Sees(table, id) /\ ~Sees(after, id) /\ ~Retouched(id, ops)
       => Told(id, "kept", n)'
  <2>1. Reads(table, id) /\ Reads(after, id) /\ Sees(table, id) /\ ~Sees(after, id) /\ ~Retouched(id, ops)
        => Loses(id, "kept", ops, table, after)
    BY DEF Loses, Retouched
  <2> QED BY <1>1, <1>2, <2>1
<1> QED BY <1>3, <1>4, <1>5, <1>6, <1>7, <1>8, <1>9, <1>10 DEF Tells

(* A commit adds a table to the history.                                   *)
LEMMA MirrorCommit ==
  ASSUME MirrorInv, NEW batch \in world.batches, Commit(batch)
  PROVE  MirrorInv'
<1>1. EgressInv' /\ EgressTyped /\ Len(log) \in Nat /\ cursor \in Nat /\ cursor <= Len(log) /\ EgressTyped'
  BY CommitKeeps, SeqFacts DEF MirrorInv, EgressInv, EgressTyped
<1>2. PICK ops, t :
        /\ CommitOf(ops, t) /\ published = Len(log)
        /\ docs' = t.docs
        /\ log' = Append(log, [ops |-> ops, per_op |-> Snapshots(docs, t, ops)])
        /\ shown' = shown \cup Visible(t.docs)
        /\ left' = left \cup Reasons(Len(log) + 1, ops, docs, t.docs)
        /\ UNCHANGED <<world, published, ecs, cursor, loaded, replica>>
  BY <1>1, CommitFacts
<1>3. PICK n \in Nat : n = Len(log)
  BY <1>1
<1>4. PICK e : e = [ops |-> ops, per_op |-> Snapshots(docs, t, ops)]
  OBVIOUS
<1>5. Len(log') = n + 1 /\ log'[n + 1] = e /\ e.ops = ops /\ \A k \in 1..n : log'[k] = log[k]
  BY <1>1, <1>2, <1>3, <1>4, AppendFacts DEF EgressTyped
<1>6. PICK T : Mirrors(T)
  BY DEF MirrorInv
<1>7. PICK U : U[n + 1] = docs' /\ \A j \in 0..n : U[j] = T[j]
  <2>1. PICK f : f = [j \in 0..n + 1 |-> IF j = n + 1 THEN docs' ELSE T[j]]
    OBVIOUS
  <2>2. \A j \in 0..n : j \in 0..n + 1 /\ j # n + 1
    OBVIOUS
  <2>3. n + 1 \in 0..n + 1
    OBVIOUS
  <2> QED BY <2>1, <2>2, <2>3
<1>8. /\ \A k \in 1..n + 1 : k \in 1..n \/ k = n + 1
      /\ \A k \in 0..n + 1 : k \in 0..n \/ k = n + 1
      /\ \A k \in 1..n : k \in 0..n /\ k - 1 \in 0..n
      /\ n \in 0..n /\ (n + 1) - 1 = n
  OBVIOUS
<1>9. T[n] = docs
  BY <1>3, <1>6 DEF Mirrors, History
<1>10. left \subseteq left' /\ Reasons(n + 1, ops, docs, docs') \subseteq left'
  BY <1>2, <1>3
<1>11. \A id, whys : Excused(id, whys) => Excused(id, whys)'
  BY <1>10 DEF Excused
<1>12. History(U)'
  <2>1. U[Len(log')] = docs'
    BY <1>5, <1>7
  <2>2. ASSUME NEW k \in 0..n + 1 PROVE TableOK(U[k], k)
    <3>1. CASE k \in 0..n
      BY <1>3, <1>6, <1>7, <3>1 DEF Mirrors, History
    <3>2. CASE k = n + 1
      BY <1>1, <1>5, <1>7, <3>2 DEF EgressTyped, TableOK
    <3> QED BY <1>8, <3>1, <3>2
  <2>3. ASSUME NEW k \in 1..n + 1 PROVE MadeOf(U[k - 1], U[k], log'[k], k)
    <3>1. CASE k \in 1..n
      <4>1. MadeOf(T[k - 1], T[k], log[k], k)
        BY <1>3, <1>6, <3>1 DEF Mirrors, History
      <4> QED BY <1>5, <1>7, <1>8, <3>1, <4>1
    <3>2. CASE k = n + 1
      <4>1. Made(docs, t, e, n + 1)
        BY <1>2, <1>3, <1>4 DEF Made, CommitOf
      <4>2. MadeOf(docs, docs', e, n + 1)
        BY <1>2, <4>1 DEF MadeOf
      <4> QED BY <1>5, <1>7, <1>8, <1>9, <3>2, <4>2
    <3> QED BY <1>8, <3>1, <3>2
  <2>4. ecs' = actorsOf(U[published'])
    <3>1. ecs = actorsOf(T[published]) /\ published = n
      BY <1>2, <1>3, <1>6 DEF Mirrors, History
    <3> QED BY <1>2, <1>7, <1>8, <3>1
  <2>5. ASSUME loaded' # <<>> PROVE \E m \in cursor' + 1..Len(log') : current' = U[m]
    <3>1. loaded # <<>> /\ cursor' = cursor /\ current' = current
      BY <1>2, <2>5 DEF current
    <3>2. PICK m \in cursor + 1..n : current = T[m]
      BY <1>3, <1>6, <3>1 DEF Mirrors, History
    <3>3. m \in cursor' + 1..Len(log') /\ m \in 0..n
      BY <1>1, <1>3, <1>5, <3>1
    <3> QED BY <1>7, <3>1, <3>2, <3>3
  <2> QED BY <1>5, <2>1, <2>2, <2>3, <2>4, <2>5 DEF History
<1>13. Recorded(U)'
  <2>1. ASSUME NEW k \in 1..n + 1, NEW id, Waits(id, k)'
        PROVE  \E i \in cursor + 1..k - 1 : \E o \in Range(log[i].ops) : o.id = id
    <3>1. PICK i \in cursor + 1..k - 1 : \E o \in Range(log'[i].ops) : o.id = id
      BY <1>2, <2>1 DEF Waits
    <3>2. i \in 1..n
      BY <1>1
    <3> QED BY <1>5, <3>1, <3>2
  <2>2. ASSUME NEW k \in 1..n, NEW id \in Ids, NEW o, NEW b, NEW a,
               o = log[k].ops, b = T[k - 1], a = T[k]
        PROVE  Tells(id, k, o, b, a)'
    <3>1. Tells(id, k, o, b, a)
      BY <1>3, <1>6, <2>2 DEF Mirrors, Recorded
    <3>2. \A why : Told(id, why, k) => Told(id, why, k)'
      BY <1>10 DEF Told
    <3>3. Waits(id, k)' => Waits(id, k)
      <4>1. k \in 1..n + 1
        OBVIOUS
      <4> QED BY <2>1, <4>1 DEF Waits
    <3> QED BY <1>2, <3>1, <3>2, <3>3 DEF Tells
  <2>3. ASSUME NEW k, k = n + 1, NEW id \in Ids, NEW b, NEW a, b = docs, a = docs'
        PROVE  Tells(id, k, ops, b, a)'
    <3>1. Waits(id, k)' => Pending(id)
      <4>1. k \in 1..n + 1
        BY <2>3
      <4> QED BY <1>3, <1>8, <2>1, <2>3, <4>1 DEF Pending
    <3> QED BY <1>10, <2>3, <3>1, CommitTells
  <2>4. ASSUME NEW k \in 1..n + 1, NEW id \in Ids, NEW o, NEW b, NEW a,
               o = log'[k].ops, b = U[k - 1], a = U[k]
        PROVE  Tells(id, k, o, b, a)'
    <3>1. CASE k \in 1..n
      <4>1. o = log[k].ops /\ b = T[k - 1] /\ a = T[k]
        BY <1>5, <1>7, <1>8, <2>4, <3>1
      <4> QED BY <2>2, <3>1, <4>1
    <3>2. CASE k = n + 1
      <4>1. o = ops /\ b = docs /\ a = docs'
        BY <1>5, <1>7, <1>8, <1>9, <2>4, <3>2
      <4> QED BY <2>3, <3>2, <4>1
    <3> QED BY <1>8, <3>1, <3>2
  <2>5. ASSUME NEW k \in 1..n + 1, NEW id \in Ids PROVE Tells(id, k, log[k].ops, U[k - 1], U[k])'
    <3>1. PICK o, b, a : o = log'[k].ops /\ b = U[k - 1] /\ a = U[k]
      OBVIOUS
    <3>2. Tells(id, k, o, b, a)'
      BY <2>4, <3>1
    <3> QED BY <3>1, <3>2 DEF Tells
  <2> QED BY <1>5, <2>5 DEF Recorded
<1>14. ASSUME NEW id \in Ids PROVE Presence(U, id)'
  <2>1. Presence(T, id)
    BY <1>6 DEF Mirrors
  <2>2. CASE Excused(id, Missed)
    BY <1>11, <2>2 DEF Presence
  <2>3. CASE \E j \in cursor..n : id \in DOMAIN replica <=> Reads(T[j], id)
    <3>1. PICK j \in cursor..n : id \in DOMAIN replica <=> Reads(T[j], id)
      BY <2>3
    <3>2. j \in cursor'..Len(log') /\ U[j] = T[j]
      BY <1>1, <1>2, <1>5, <1>7
    <3>3. replica' = replica
      BY <1>2
    <3> QED BY <3>1, <3>2, <3>3 DEF Presence
  <2> QED BY <1>3, <2>1, <2>2, <2>3 DEF Presence
<1>15. ASSUME NEW id \in Ids, id \in DOMAIN replica, Readable(U, id, cursor, n + 1), ~Excused(id, Losses)'
       PROVE  Right(U, id)'
  <2>1. /\ \A j \in cursor..n : j \in cursor..n + 1 /\ U[j] = T[j]
        /\ n \in cursor..n /\ n + 1 \in cursor..n + 1
        /\ \A k \in cursor + 1..n : k \in cursor + 1..n + 1 /\ log'[k] = log[k]
        /\ n + 1 \in cursor + 1..n + 1
    BY <1>1, <1>3, <1>5, <1>7
  <2>2. Readable(T, id, cursor, n) /\ Reads(docs, id) /\ Reads(docs', id)
    BY <1>7, <1>9, <1>15, <2>1 DEF Readable
  <2>3. Right(T, id)
    BY <1>3, <1>6, <1>11, <1>15, <2>2 DEF Mirrors, Faithful
  <2>4. id \in DOMAIN docs /\ id \in DOMAIN docs'
    BY <2>2 DEF Reads
  <2>5. Kept(ops, id, Len(ops), docs[id], docs'[id])
    <3>1. Change(docs, docs', ops, Len(ops))
      BY <1>2 DEF CommitOf
    <3> QED BY <2>4, <3>1 DEF Change
  <2>6. ASSUME Unmoved(id, cursor + 1, n + 1)' PROVE replica[id].parent = docs'[id].parent
    <3>1. Unmoved(id, cursor + 1, n) /\ Still(ops, id, "move", Len(ops))
      BY <1>2, <1>5, <2>1, <2>6 DEF Unmoved
    <3> QED BY <1>3, <2>3, <2>5, <3>1 DEF Right, Kept
  <2>7. ASSUME Visibly(U, id, cursor, n + 1), Unwritten(id, cursor + 1, n + 1)'
        PROVE  replica[id].val = docs'[id].val
    <3>1. Unwritten(id, cursor + 1, n) /\ Silent(ops, id, Len(ops)) /\ Visibly(T, id, cursor, n)
      BY <1>2, <1>5, <2>1, <2>7 DEF Unwritten, Visibly
    <3> QED BY <1>3, <2>3, <2>5, <3>1 DEF Right, Kept
  <2>8. ASSUME Hidden(U, id, cursor, n + 1) PROVE replica[id].val = Null
    <3>1. Hidden(T, id, cursor, n)
      BY <2>1, <2>8 DEF Hidden
    <3> QED BY <1>3, <2>3, <3>1 DEF Right
  <2>9. Unmoved(id, cursor + 1, Len(log))' <=> Unmoved(id, cursor + 1, n + 1)'
    BY <1>5
  <2>10. Unwritten(id, cursor + 1, Len(log))' <=> Unwritten(id, cursor + 1, n + 1)'
    BY <1>5
  <2>11. cursor' = cursor /\ replica' = replica /\ Len(log') = n + 1
    BY <1>2, <1>5
  <2> QED BY <2>6, <2>7, <2>8, <2>9, <2>10, <2>11 DEF Right, Visibly, Hidden
<1>16. ASSUME NEW id \in Ids PROVE Faithful(U, id)'
  <2>1. cursor' = cursor /\ replica' = replica /\ Len(log') = n + 1
    BY <1>2, <1>5
  <2> QED BY <1>15, <2>1 DEF Faithful, Readable
<1>17. Shaped(replica')
  BY <1>2 DEF MirrorInv
<1>18. Mirrors(U)'
  BY <1>12, <1>13, <1>14, <1>16 DEF Mirrors
<1>19. \E V : Mirrors(V)'
  BY <1>18
<1> QED BY <1>1, <1>17, <1>19 DEF MirrorInv

(* Neither the scene nor the documents loaded say what the player has.     *)
LEMMA MirrorUnmoved ==
  ASSUME NEW T, Recorded(T), \A id \in Ids : Presence(T, id) /\ Faithful(T, id),
         UNCHANGED <<docs, log, cursor, replica, left>>
  PROVE  Recorded(T)' /\ \A id \in Ids : Presence(T, id)' /\ Faithful(T, id)'
<1>1. Recorded(T)'
  <2>1. \A id, k, why : Told(id, why, k) <=> Told(id, why, k)'
    BY DEF Told
  <2>2. \A id, k : Waits(id, k) <=> Waits(id, k)'
    BY DEF Waits
  <2>3. ASSUME NEW k \in 1..Len(log), NEW id \in Ids, NEW o, NEW b, NEW a,
               o = log[k].ops, b = T[k - 1], a = T[k]
        PROVE  Tells(id, k, o, b, a)'
    <3>1. Tells(id, k, o, b, a)
      BY <2>3 DEF Recorded
    <3> QED BY <2>1, <2>2, <3>1 DEF Tells
  <2>4. ASSUME NEW k \in 1..Len(log), NEW id \in Ids PROVE Tells(id, k, log[k].ops, T[k - 1], T[k])'
    <3>1. PICK o, b, a : o = log[k].ops /\ b = T[k - 1] /\ a = T[k]
      OBVIOUS
    <3>2. Tells(id, k, o, b, a)'
      BY <2>3, <3>1
    <3> QED BY <3>1, <3>2 DEF Tells
  <2> QED BY <2>4 DEF Recorded
<1>2. \A id : Presence(T, id) => Presence(T, id)'
  BY DEF Presence, Excused
<1>3. \A id : Faithful(T, id) => Faithful(T, id)'
  BY DEF Faithful, Right, Excused, Readable, Visibly, Hidden, Unmoved, Unwritten
<1> QED BY <1>1, <1>2, <1>3

LEMMA MirrorPublish ==
  ASSUME MirrorInv, Publish
  PROVE  MirrorInv'
<1>1. EgressInv' /\ EgressTyped /\ Len(log) \in Nat
  BY PublishKeeps, SeqFacts DEF MirrorInv, EgressInv, EgressTyped
<1>2. /\ published < Len(log) /\ ecs' = hydrated(ecs, log[published + 1].ops)
      /\ published' = published + 1
      /\ UNCHANGED <<world, docs, log, cursor, loaded, replica, shown, left>>
  BY DEF Publish
<1>3. published' = Len(log) /\ ecs' = actorsOf(docs)
  BY <1>1, <1>2 DEF MirrorInv, EgressInv, SceneFollows, EgressTyped
<1>4. PICK T : Mirrors(T)
  BY DEF MirrorInv
<1>5. History(T)'
  BY <1>2, <1>3, <1>4 DEF Mirrors, History, current
<1>6. Mirrors(T)'
  BY <1>2, <1>4, <1>5, MirrorUnmoved DEF Mirrors
<1>7. \E V : Mirrors(V)'
  BY <1>6
<1> QED BY <1>1, <1>2, <1>7 DEF MirrorInv

LEMMA MirrorLoad ==
  ASSUME MirrorInv, load_current_docs
  PROVE  MirrorInv'
<1>1. EgressInv' /\ EgressTyped /\ Len(log) \in Nat
  BY LoadKeeps, SeqFacts DEF MirrorInv, EgressInv, EgressTyped
<1>2. /\ cursor < published /\ loaded' = <<docs>>
      /\ UNCHANGED <<world, docs, log, published, ecs, cursor, replica, shown, left>>
  BY DEF load_current_docs
<1>3. current' = docs
  BY <1>2 DEF current
<1>4. PICK T : Mirrors(T)
  BY DEF MirrorInv
<1>5. Len(log) \in cursor + 1..Len(log)
  BY <1>1, <1>2 DEF EgressTyped
<1>6. History(T)'
  BY <1>2, <1>3, <1>4, <1>5 DEF Mirrors, History
<1>7. Mirrors(T)'
  BY <1>2, <1>4, <1>6, MirrorUnmoved DEF Mirrors
<1>8. \E V : Mirrors(V)'
  BY <1>7
<1> QED BY <1>1, <1>2, <1>8 DEF MirrorInv

-----------------------------------------------------------------------------
(* What the player's client makes of a filtered command, one operation of  *)
(* the command at a time.                                                  *)

Sent(c, i, q) == filter_op(c, i) = <<q>>
Cut(q) ==
  /\ q.op \in Kinds
  /\ q.op = "create" => q.doc = [val |-> q.doc.val, parent |-> q.doc.parent]
  /\ q.op = "update" => DOMAIN q.set \subseteq {"val"}
Filtered(c) ==
  /\ IsSeq(c.ops)
  /\ \A i \in DOMAIN c.ops :
       filter_op(c, i) = <<>> \/ \E q : Sent(c, i, q) /\ q.id = c.ops[i].id /\ Cut(q)
Steps(c, i, v, w) == (filter_op(c, i) = <<>> /\ w = v) \/ \E q : Sent(c, i, q) /\ w = applyOperation(v, q)
Plays(c, rep, table) ==
  /\ rep[0] = table
  /\ \A i \in Nat : i + 1 <= Len(c.ops) => Steps(c, i + 1, rep[i], rep[i + 1])

Before(a, b) == Len(a) <= Len(b) /\ \A j \in 1..Len(a) : b[j] = a[j]

LEMMA OutFacts ==
  ASSUME NEW c, Filtered(c)
  PROVE  \E out : /\ out[0] = <<>> /\ out[Len(c.ops)] = filter_command(c)
                  /\ \A i \in Nat : i <= Len(c.ops) => IsSeq(out[i])
                  /\ \A i \in Nat : i + 1 <= Len(c.ops) =>
                       \/ filter_op(c, i + 1) = <<>> /\ out[i + 1] = out[i]
                       \/ \E q : Sent(c, i + 1, q) /\ out[i + 1] = Append(out[i], q)
<1>1. IsSeq(c.ops) /\ Len(c.ops) \in Nat /\ DOMAIN c.ops = 1..Len(c.ops)
  BY SeqFacts DEF Filtered
<1>2. PICK out : /\ out[0] = <<>> /\ out[Len(c.ops)] = filter_command(c)
                 /\ \A k \in Nat : k + 1 <= Len(c.ops) => out[k + 1] = out[k] \o filter_op(c, k + 1)
  BY <1>1, FilterUnrolled
<1>3. PICK I : I = {i \in Nat : i <= Len(c.ops) => IsSeq(out[i])}
  OBVIOUS
<1>4. 0 \in I
  <2>1. <<>> \in Seq(Range(<<>>))
    OBVIOUS
  <2> QED BY <1>2, <1>3, <2>1 DEF IsSeq
<1>5. ASSUME NEW i \in Nat, i + 1 <= Len(c.ops), IsSeq(out[i])
      PROVE  /\ IsSeq(out[i + 1])
             /\ \/ filter_op(c, i + 1) = <<>> /\ out[i + 1] = out[i]
                \/ \E q : Sent(c, i + 1, q) /\ out[i + 1] = Append(out[i], q)
  <2>1. PICK s, S, w, more : /\ s = out[i] /\ S = Range(s) /\ w = out[i + 1] /\ more = filter_op(c, i + 1)
                             /\ s \in Seq(S) /\ w = s \o more
    <3>1. PICK s : s = out[i]
      OBVIOUS
    <3>2. PICK S : S = Range(s) /\ s \in Seq(S)
      BY <1>5, <3>1 DEF IsSeq
    <3>3. PICK more : more = filter_op(c, i + 1)
      OBVIOUS
    <3>4. PICK w : w = out[i + 1] /\ w = s \o more
      BY <1>2, <1>5, <3>1, <3>3
    <3> QED BY <3>1, <3>2, <3>3, <3>4
  <2>2. i + 1 \in DOMAIN c.ops
    BY <1>1, <1>5
  <2>3. CASE more = <<>>
    <3>1. s \o <<>> = s
      BY <2>1
    <3>2. w = s
      BY <2>1, <2>3, <3>1
    <3> QED BY <1>5, <2>1, <2>3, <3>2
  <2>4. CASE \E q : more = <<q>>
    <3>1. PICK q : more = <<q>>
      BY <2>4
    <3>2. w = Append(s, q)
      <4>1. s \in Seq(S)
        BY <2>1
      <4>2. s \o <<q>> = Append(s, q)
        BY <4>1
      <4> QED BY <2>1, <3>1, <4>2
    <3>3. IsSeq(Append(s, q))
      BY <1>5, <2>1, AppendFacts
    <3> QED BY <2>1, <3>1, <3>2, <3>3 DEF Sent
  <2>5. more = <<>> \/ \E q : more = <<q>>
    BY <2>1, <2>2 DEF Filtered, Sent
  <2> QED BY <2>3, <2>4, <2>5
<1>6. ASSUME NEW i \in Nat, i \in I PROVE i + 1 \in I
  BY <1>1, <1>3, <1>5, <1>6
<1>7. Nat \subseteq I
  BY <1>4, <1>6, NatInd
<1>8. \A i \in Nat : i <= Len(c.ops) => IsSeq(out[i])
  BY <1>3, <1>7
<1>9. \A i \in Nat : i + 1 <= Len(c.ops) =>
        \/ filter_op(c, i + 1) = <<>> /\ out[i + 1] = out[i]
        \/ \E q : Sent(c, i + 1, q) /\ out[i + 1] = Append(out[i], q)
  <2>1. ASSUME NEW i \in Nat, i + 1 <= Len(c.ops) PROVE IsSeq(out[i])
    <3>1. i <= Len(c.ops)
      BY <1>1, <2>1
    <3> QED BY <1>8, <3>1
  <2> QED BY <1>5, <2>1
<1> QED BY <1>2, <1>8, <1>9

LEMMA BeforeAll ==
  ASSUME NEW out, NEW n \in Nat,
         \A i \in Nat : i <= n => Len(out[i]) \in Nat,
         \A i \in Nat : i + 1 <= n => Before(out[i], out[i + 1])
  PROVE  \A i \in 0..n : Before(out[i], out[n])
<1>1. PICK I : I = {d \in Nat : d <= n => Before(out[n - d], out[n])}
  OBVIOUS
<1>2. 0 \in I
  <2>1. n - 0 = n
    OBVIOUS
  <2>2. Len(out[n]) \in Nat
    OBVIOUS
  <2>3. Before(out[n], out[n])
    BY <2>2 DEF Before
  <2> QED BY <1>1, <2>1, <2>3
<1>3. ASSUME NEW d \in Nat, d \in I PROVE d + 1 \in I
  <2>1. SUFFICES ASSUME d + 1 <= n PROVE Before(out[n - (d + 1)], out[n])
    BY <1>1
  <2>2. PICK i \in Nat : i = n - (d + 1) /\ i + 1 = n - d /\ i + 1 <= n /\ i <= n
    <3>1. n - (d + 1) \in Nat /\ (n - (d + 1)) + 1 = n - d /\ (n - (d + 1)) + 1 <= n /\ n - (d + 1) <= n
      BY <2>1
    <3> QED BY <3>1
  <2>3. Before(out[i + 1], out[n])
    BY <1>1, <1>3, <2>1, <2>2
  <2>4. Before(out[i], out[i + 1]) /\ Len(out[i]) \in Nat /\ Len(out[i + 1]) \in Nat /\ Len(out[n]) \in Nat
    BY <2>2
  <2>5. PICK a, b, z : a = out[i] /\ b = out[i + 1] /\ z = out[n]
    OBVIOUS
  <2>6. Before(a, z)
    BY <2>3, <2>4, <2>5 DEF Before
  <2> QED BY <2>2, <2>5, <2>6
<1>4. Nat \subseteq I
  BY <1>2, <1>3, NatInd
<1>5. ASSUME NEW i \in 0..n PROVE Before(out[i], out[n])
  <2>1. n - i \in Nat /\ n - i <= n /\ n - (n - i) = i
    OBVIOUS
  <2>2. Before(out[n - (n - i)], out[n])
    BY <1>1, <1>4, <2>1
  <2> QED BY <2>1, <2>2
<1> QED BY <1>5

LEMMA Played ==
  ASSUME NEW c, Filtered(c), NEW table
  PROVE  /\ \E rep : Plays(c, rep, table) /\ rep[Len(c.ops)] = applyCommand(table, filter_command(c))
         /\ \A p \in Range(filter_command(c)) : \E i \in DOMAIN c.ops : Sent(c, i, p)
<1>1. PICK n \in Nat : n = Len(c.ops) /\ DOMAIN c.ops = 1..n
  BY SeqFacts DEF Filtered
<1>2. PICK out : /\ out[0] = <<>> /\ out[n] = filter_command(c)
                 /\ \A i \in Nat : i <= n => IsSeq(out[i])
                 /\ \A i \in Nat : i + 1 <= n =>
                      \/ filter_op(c, i + 1) = <<>> /\ out[i + 1] = out[i]
                      \/ \E q : Sent(c, i + 1, q) /\ out[i + 1] = Append(out[i], q)
  <2>1. PICK out : /\ out[0] = <<>> /\ out[Len(c.ops)] = filter_command(c)
                   /\ \A i \in Nat : i <= Len(c.ops) => IsSeq(out[i])
                   /\ \A i \in Nat : i + 1 <= Len(c.ops) =>
                        \/ filter_op(c, i + 1) = <<>> /\ out[i + 1] = out[i]
                        \/ \E q : Sent(c, i + 1, q) /\ out[i + 1] = Append(out[i], q)
    BY OutFacts, Zenon
  <2>2. n = Len(c.ops)
    BY <1>1
  <2> QED BY <2>1, <2>2, Zenon
<1>3. \A i \in Nat : i <= n => Len(out[i]) \in Nat /\ DOMAIN out[i] = 1..Len(out[i])
  BY <1>2, SeqFacts
<1>4. \A i \in Nat : i + 1 <= n =>
        \/ filter_op(c, i + 1) = <<>> /\ out[i + 1] = out[i]
        \/ \E q : /\ Sent(c, i + 1, q)
                  /\ Len(out[i + 1]) = Len(out[i]) + 1
                  /\ out[i + 1][Len(out[i]) + 1] = q
                  /\ \A j \in 1..Len(out[i]) : out[i + 1][j] = out[i][j]
  <2>1. ASSUME NEW i \in Nat, i + 1 <= n, NEW q, Sent(c, i + 1, q), out[i + 1] = Append(out[i], q)
        PROVE  /\ Len(out[i + 1]) = Len(out[i]) + 1
               /\ out[i + 1][Len(out[i]) + 1] = q
               /\ \A j \in 1..Len(out[i]) : out[i + 1][j] = out[i][j]
    <3>1. PICK s : s = out[i] /\ IsSeq(s)
      BY <1>2, <2>1
    <3>2. /\ Len(Append(s, q)) = Len(s) + 1 /\ Append(s, q)[Len(s) + 1] = q
          /\ \A j \in 1..Len(s) : Append(s, q)[j] = s[j]
      BY <3>1, AppendFacts
    <3>3. out[i + 1] = Append(s, q)
      BY <2>1, <3>1
    <3> QED BY <3>1, <3>2, <3>3
  <2> QED BY <1>2, <2>1
<1>5. \A i \in Nat : i + 1 <= n => Before(out[i], out[i + 1])
  <2>1. ASSUME NEW i \in Nat, i + 1 <= n PROVE Before(out[i], out[i + 1])
    <3>1. Len(out[i]) \in Nat
      BY <1>3, <2>1
    <3> QED BY <1>4, <2>1, <3>1 DEF Before
  <2> QED BY <2>1
<1>6. \A i \in 0..n : Before(out[i], out[n])
  BY <1>3, <1>5, BeforeAll
<1>7. PICK ops : ops = filter_command(c) /\ ops = out[n] /\ IsSeq(ops) /\ Len(ops) \in Nat
  BY <1>2, <1>3
<1>8. PICK it : /\ it[0] = table /\ it[Len(ops)] = applyCommand(table, ops)
                /\ \A k \in Nat : k + 1 <= Len(ops) => it[k + 1] = applyOperation(it[k], ops[k + 1])
  <2>1. IsSeq(ops)
    BY <1>7
  <2> QED BY <2>1, CommandUnrolled
<1>9. PICK rep : \A i \in 0..n : rep[i] = it[Len(out[i])]
  <2>1. PICK f : f = [i \in 0..n |-> it[Len(out[i])]]
    OBVIOUS
  <2> QED BY <2>1
<1>10. rep[0] = table /\ rep[n] = applyCommand(table, ops)
  <2>1. Len(out[0]) = 0 /\ 0 \in 0..n /\ n \in 0..n
    BY <1>2
  <2> QED BY <1>7, <1>8, <1>9, <2>1
<1>11. ASSUME NEW i \in Nat, i + 1 <= n PROVE Steps(c, i + 1, rep[i], rep[i + 1])
  <2>1. rep[i] = it[Len(out[i])] /\ rep[i + 1] = it[Len(out[i + 1])] /\ i + 1 \in 0..n
    BY <1>9, <1>11
  <2>2. CASE filter_op(c, i + 1) = <<>> /\ out[i + 1] = out[i]
    BY <2>1, <2>2 DEF Steps
  <2>3. ASSUME NEW q, Sent(c, i + 1, q), Len(out[i + 1]) = Len(out[i]) + 1,
               out[i + 1][Len(out[i]) + 1] = q
        PROVE  Steps(c, i + 1, rep[i], rep[i + 1])
    <3>1. PICK k \in Nat : k = Len(out[i])
      BY <1>3, <1>11
    <3>2. k + 1 <= Len(ops) /\ ops[k + 1] = q
      <4>1. Before(out[i + 1], out[n])
        BY <1>6, <2>1
      <4> QED BY <1>7, <2>3, <3>1, <4>1 DEF Before
    <3>3. it[k + 1] = applyOperation(it[k], q)
      BY <1>8, <3>2
    <3> QED BY <2>1, <2>3, <3>1, <3>3 DEF Steps
  <2> QED BY <1>4, <1>11, <2>2, <2>3
<1>12. \A p \in Range(ops) : \E i \in DOMAIN c.ops : Sent(c, i, p)
  <2>1. PICK I : I = {i \in Nat : i <= n => \A j \in 1..Len(out[i]) : \E k \in 1..n : Sent(c, k, out[i][j])}
    OBVIOUS
  <2>2. 0 \in I
    BY <1>2, <2>1
  <2>3. ASSUME NEW i \in Nat, i \in I PROVE i + 1 \in I
    <3>1. SUFFICES ASSUME i + 1 <= n, NEW j \in 1..Len(out[i + 1]) PROVE \E k \in 1..n : Sent(c, k, out[i + 1][j])
      BY <2>1
    <3>2. Len(out[i]) \in Nat /\ i + 1 \in 1..n
      BY <1>3, <3>1
    <3>3. \A x \in 1..Len(out[i]) : \E k \in 1..n : Sent(c, k, out[i][x])
      BY <2>1, <2>3, <3>1
    <3>4. CASE filter_op(c, i + 1) = <<>> /\ out[i + 1] = out[i]
      BY <3>1, <3>3, <3>4
    <3>5. ASSUME NEW q, Sent(c, i + 1, q), Len(out[i + 1]) = Len(out[i]) + 1,
                 out[i + 1][Len(out[i]) + 1] = q,
                 \A x \in 1..Len(out[i]) : out[i + 1][x] = out[i][x]
          PROVE  \E k \in 1..n : Sent(c, k, out[i + 1][j])
      <4>1. j \in 1..Len(out[i]) \/ j = Len(out[i]) + 1
        BY <3>1, <3>2, <3>5
      <4> QED BY <3>2, <3>3, <3>5, <4>1
    <3> QED BY <1>4, <3>1, <3>4, <3>5
  <2>4. Nat \subseteq I
    BY <2>2, <2>3, NatInd
  <2>5. \A j \in 1..Len(ops) : \E k \in 1..n : Sent(c, k, ops[j])
    BY <1>7, <2>1, <2>4
  <2>6. \A p \in Range(ops) : \E j \in 1..Len(ops) : p = ops[j]
    BY <1>7, SeqFacts
  <2> QED BY <1>1, <2>5, <2>6
<1>13. Plays(c, rep, table)
  BY <1>1, <1>10, <1>11 DEF Plays
<1> QED BY <1>1, <1>7, <1>10, <1>12, <1>13

(* One operation, of the player's documents.                               *)
LEMMA OneStep ==
  ASSUME NEW table, NEW q, q.op \in Kinds
  PROVE  LET w == applyOperation(table, q) IN
         /\ \A x : x # q.id => Same(x, table, w)
         /\ q.op = "create" => q.id \in DOMAIN w /\ w[q.id] = q.doc
         /\ q.op = "delete" => q.id \notin DOMAIN w
         /\ q.op \in {"update", "move"} => (q.id \in DOMAIN w <=> q.id \in DOMAIN table)
         /\ q.op = "move" /\ q.id \in DOMAIN table =>
              w[q.id] = [table[q.id] EXCEPT !.parent = q.parent]
         /\ q.op = "update" /\ q.id \in DOMAIN table => w[q.id] = Over(q.set, table[q.id])
<1>1. PICK w, x : w = applyOperation(table, q) /\ x = q.id
  OBVIOUS
<1>2. CASE q.op \in {"update", "move"} /\ x \notin DOMAIN table
  <2>1. w = table
    BY <1>1, <1>2 DEF applyOperation
  <2> QED BY <1>1, <1>2, <2>1 DEF Same
<1>3. CASE q.op = "create"
  <2>1. w = Put(table, x, q.doc)
    BY <1>1, <1>3 DEF applyOperation
  <2>2. x \in DOMAIN w /\ w[x] = q.doc /\ \A y : y # x => Same(y, table, w)
    BY <2>1, PutSame
  <2> QED BY <1>1, <1>3, <2>2
<1>4. CASE q.op = "delete"
  <2>1. w = Without(table, x)
    BY <1>1, <1>4 DEF applyOperation
  <2>2. x \notin DOMAIN w /\ \A y : y # x => Same(y, table, w)
    BY <2>1 DEF Without, Restrict, Same
  <2> QED BY <1>1, <1>4, <2>2
<1>5. CASE q.op = "move" /\ x \in DOMAIN table
  <2>1. PICK doc : doc = [table[x] EXCEPT !.parent = q.parent]
    OBVIOUS
  <2>2. w = [table EXCEPT ![x] = doc]
    BY <1>1, <1>5, <2>1 DEF applyOperation
  <2>3. w[x] = doc /\ \A y : y # x => Same(y, table, w)
    BY <1>5, <2>2 DEF Same
  <2>4. x \in DOMAIN w
    BY <1>5, <2>2
  <2> QED BY <1>1, <1>5, <2>1, <2>3, <2>4
<1>6. CASE q.op = "update" /\ x \in DOMAIN table
  <2>1. PICK doc : doc = Over(q.set, table[x])
    OBVIOUS
  <2>2. w = [table EXCEPT ![x] = doc]
    BY <1>1, <1>6, <2>1 DEF applyOperation
  <2>3. w[x] = doc /\ \A y : y # x => Same(y, table, w)
    BY <1>6, <2>2 DEF Same
  <2>4. x \in DOMAIN w
    BY <1>6, <2>2
  <2> QED BY <1>1, <1>6, <2>1, <2>3, <2>4
<1> QED BY <1>1, <1>2, <1>3, <1>4, <1>5, <1>6 DEF Kinds

LEMMA CutStep ==
  ASSUME NEW table, Shaped(table), NEW q, Cut(q)
  PROVE  LET w == applyOperation(table, q) IN
         /\ Shaped(w)
         /\ q.op = "move" /\ q.id \in DOMAIN table =>
              w[q.id].parent = q.parent /\ w[q.id].val = table[q.id].val
         /\ q.op = "update" /\ q.id \in DOMAIN table =>
              /\ w[q.id].parent = table[q.id].parent
              /\ w[q.id].val = IF "val" \in DOMAIN q.set THEN q.set.val ELSE table[q.id].val
<1>1. PICK w, x : w = applyOperation(table, q) /\ x = q.id
  OBVIOUS
<1>2. /\ \A y : y # x => Same(y, table, w)
      /\ q.op = "create" => x \in DOMAIN w /\ w[x] = q.doc
      /\ q.op = "delete" => x \notin DOMAIN w
      /\ q.op \in {"update", "move"} => (x \in DOMAIN w <=> x \in DOMAIN table)
      /\ q.op = "move" /\ x \in DOMAIN table => w[x] = [table[x] EXCEPT !.parent = q.parent]
      /\ q.op = "update" /\ x \in DOMAIN table => w[x] = Over(q.set, table[x])
  BY <1>1, OneStep DEF Cut
<1>3. ASSUME q.op = "move", x \in DOMAIN table
      PROVE  /\ w[x].parent = q.parent /\ w[x].val = table[x].val
             /\ w[x] = [val |-> w[x].val, parent |-> w[x].parent]
  <2>1. PICK r, p, v, s : /\ r = table[x] /\ p = q.parent /\ v = r.val /\ s = w[x]
                          /\ r = [val |-> v, parent |-> r.parent] /\ s = [r EXCEPT !.parent = p]
    BY <1>2, <1>3 DEF Shaped
  <2>2. s = [val |-> v, parent |-> p]
    BY <2>1
  <2>3. s.val = v /\ s.parent = p
    BY <2>2
  <2> QED BY <2>1, <2>2, <2>3
<1>4. ASSUME q.op = "update", x \in DOMAIN table
      PROVE  /\ w[x].parent = table[x].parent
             /\ w[x].val = IF "val" \in DOMAIN q.set THEN q.set.val ELSE table[x].val
             /\ w[x] = [val |-> w[x].val, parent |-> w[x].parent]
  <2>1. PICK r, s, set : /\ r = table[x] /\ s = w[x] /\ set = q.set /\ DOMAIN set \subseteq {"val"}
                         /\ r = [val |-> r.val, parent |-> r.parent] /\ s = Over(set, r)
    BY <1>2, <1>4 DEF Shaped, Cut
  <2>2. DOMAIN r = {"val", "parent"}
    BY <2>1
  <2>3. s = [f \in {"val", "parent"} |-> IF f \in DOMAIN set THEN set[f] ELSE r[f]]
    BY <2>1, <2>2 DEF Over
  <2>4. "parent" \notin DOMAIN set
    BY <2>1
  <2>5. s["parent"] = r["parent"] /\ s["val"] = IF "val" \in DOMAIN set THEN set["val"] ELSE r["val"]
    BY <2>3, <2>4
  <2>6. s = [val |-> s.val, parent |-> s.parent]
    BY <2>3
  <2> QED BY <2>1, <2>5, <2>6
<1>5. Shaped(w)
  <2>1. ASSUME NEW y \in DOMAIN w PROVE w[y] = [val |-> w[y].val, parent |-> w[y].parent]
    <3>1. CASE y # x
      BY <1>2, <3>1 DEF Same, Shaped
    <3>2. CASE y = x
      BY <1>2, <1>3, <1>4, <3>2 DEF Cut, Kinds
    <3> QED BY <3>1, <3>2
  <2> QED BY <2>1 DEF Shaped
<1> QED BY <1>1, <1>3, <1>4, <1>5

(* Who is there at the end of a command: the whole documents and the       *)
(* deletes it sends decide.                                                *)
WholeSent(c, i, id) == \E q : Sent(c, i, q) /\ q.id = id /\ q.op \in {"create", "delete"}

LEMMA SentOnce ==
  ASSUME NEW c, NEW i, NEW p, NEW q, Sent(c, i, p), Sent(c, i, q)
  PROVE  p = q
<1>1. <<p>> = <<q>>
  BY DEF Sent
<1>2. <<p>>[1] = p /\ <<q>>[1] = q
  OBVIOUS
<1> QED BY <1>1, <1>2

LEMMA PresenceStep ==
  ASSUME NEW c, Filtered(c), NEW i \in DOMAIN c.ops, NEW v, NEW w, Steps(c, i, v, w), NEW id
  PROVE  /\ ~WholeSent(c, i, id) => (id \in DOMAIN w <=> id \in DOMAIN v)
         /\ \A q : Sent(c, i, q) /\ q.id = id /\ q.op = "create" => id \in DOMAIN w
         /\ \A q : Sent(c, i, q) /\ q.id = id /\ q.op = "delete" => id \notin DOMAIN w
<1>1. CASE filter_op(c, i) = <<>> /\ w = v
  <2>1. \A q : ~Sent(c, i, q)
    BY <1>1 DEF Sent
  <2> QED BY <1>1, <2>1
<1>2. ASSUME NEW p, Sent(c, i, p), w = applyOperation(v, p)
      PROVE  /\ ~WholeSent(c, i, id) => (id \in DOMAIN w <=> id \in DOMAIN v)
             /\ \A q : Sent(c, i, q) /\ q.id = id /\ q.op = "create" => id \in DOMAIN w
             /\ \A q : Sent(c, i, q) /\ q.id = id /\ q.op = "delete" => id \notin DOMAIN w
  <2>1. \A q : Sent(c, i, q) => q = p
    BY <1>2, SentOnce
  <2>2. p.op \in Kinds
    <3>1. \A q : filter_op(c, i) = <<>> => ~Sent(c, i, q)
      BY DEF Sent
    <3> QED BY <1>2, <2>1, <3>1 DEF Filtered, Cut
  <2>3. /\ \A x : x # p.id => Same(x, v, w)
        /\ p.op = "create" => p.id \in DOMAIN w
        /\ p.op = "delete" => p.id \notin DOMAIN w
        /\ p.op \in {"update", "move"} => (p.id \in DOMAIN w <=> p.id \in DOMAIN v)
    BY <1>2, <2>2, OneStep
  <2>4. ASSUME ~WholeSent(c, i, id) PROVE id \in DOMAIN w <=> id \in DOMAIN v
    <3>1. p.id # id \/ p.op \notin {"create", "delete"}
      BY <1>2, <2>4 DEF WholeSent
    <3> QED BY <2>2, <2>3, <3>1 DEF Same, Kinds
  <2> QED BY <2>1, <2>3, <2>4
<1> QED BY <1>1, <1>2 DEF Steps

LEMMA PresenceAfter ==
  ASSUME NEW c, Filtered(c), NEW table, NEW id
  PROVE  LET after == applyCommand(table, filter_command(c)) IN
         /\ (\A i \in DOMAIN c.ops : ~WholeSent(c, i, id)) => (id \in DOMAIN after <=> id \in DOMAIN table)
         /\ /\ \E i \in DOMAIN c.ops : WholeSent(c, i, id)
            /\ \A i \in DOMAIN c.ops : \A q : Sent(c, i, q) /\ q.id = id => q.op # "delete"
            => id \in DOMAIN after
         /\ /\ \E i \in DOMAIN c.ops : WholeSent(c, i, id)
            /\ \A i \in DOMAIN c.ops : \A q : Sent(c, i, q) /\ q.id = id => q.op # "create"
            => id \notin DOMAIN after
<1>1. PICK n \in Nat : n = Len(c.ops) /\ DOMAIN c.ops = 1..n
  BY SeqFacts DEF Filtered
<1>2. PICK rep : Plays(c, rep, table) /\ rep[n] = applyCommand(table, filter_command(c))
  BY <1>1, Played
<1>3. \A i \in Nat : i + 1 <= n => i + 1 \in DOMAIN c.ops /\ Steps(c, i + 1, rep[i], rep[i + 1])
  BY <1>1, <1>2 DEF Plays
<1>4. ASSUME \A i \in DOMAIN c.ops : ~WholeSent(c, i, id)
      PROVE  id \in DOMAIN rep[n] <=> id \in DOMAIN table
  <2>1. PICK I : I = {i \in Nat : i <= n => (id \in DOMAIN rep[i] <=> id \in DOMAIN table)}
    OBVIOUS
  <2>2. 0 \in I
    BY <1>2, <2>1 DEF Plays
  <2>3. ASSUME NEW i \in Nat, i \in I PROVE i + 1 \in I
    <3>1. i + 1 <= n => (id \in DOMAIN rep[i + 1] <=> id \in DOMAIN rep[i])
      BY <1>3, <1>4, PresenceStep
    <3> QED BY <2>1, <2>3, <3>1
  <2>4. Nat \subseteq I
    BY <2>2, <2>3, NatInd
  <2> QED BY <2>1, <2>4
<1>5. ASSUME NEW k \in DOMAIN c.ops, WholeSent(c, k, id),
             \A i \in DOMAIN c.ops : \A q : Sent(c, i, q) /\ q.id = id => q.op # "delete"
      PROVE  id \in DOMAIN rep[n]
  <2>1. PICK I : I = {i \in Nat : k <= i /\ i <= n => id \in DOMAIN rep[i]}
    OBVIOUS
  <2>2. 0 \in I
    BY <1>1, <2>1
  <2>3. ASSUME NEW i \in Nat, i \in I PROVE i + 1 \in I
    <3>1. SUFFICES ASSUME k <= i + 1, i + 1 <= n PROVE id \in DOMAIN rep[i + 1]
      BY <2>1
    <3>2. PICK j : j = i + 1 /\ j \in DOMAIN c.ops /\ Steps(c, j, rep[i], rep[i + 1])
      BY <1>3, <3>1
    <3>3. CASE WholeSent(c, j, id)
      <4>1. PICK q : Sent(c, j, q) /\ q.id = id /\ q.op = "create"
        BY <1>5, <3>2, <3>3 DEF WholeSent
      <4> QED BY <3>2, <4>1, PresenceStep
    <3>4. CASE ~WholeSent(c, j, id)
      <4>1. k <= i /\ i <= n
        BY <1>1, <1>5, <3>1, <3>2, <3>4
      <4>2. id \in DOMAIN rep[i]
        BY <2>1, <2>3, <4>1
      <4> QED BY <3>2, <3>4, <4>2, PresenceStep
    <3> QED BY <3>3, <3>4
  <2>4. Nat \subseteq I
    BY <2>2, <2>3, NatInd
  <2> QED BY <1>1, <2>1, <2>4
<1>6. ASSUME NEW k \in DOMAIN c.ops, WholeSent(c, k, id),
             \A i \in DOMAIN c.ops : \A q : Sent(c, i, q) /\ q.id = id => q.op # "create"
      PROVE  id \notin DOMAIN rep[n]
  <2>1. PICK I : I = {i \in Nat : k <= i /\ i <= n => id \notin DOMAIN rep[i]}
    OBVIOUS
  <2>2. 0 \in I
    BY <1>1, <2>1
  <2>3. ASSUME NEW i \in Nat, i \in I PROVE i + 1 \in I
    <3>1. SUFFICES ASSUME k <= i + 1, i + 1 <= n PROVE id \notin DOMAIN rep[i + 1]
      BY <2>1
    <3>2. PICK j : j = i + 1 /\ j \in DOMAIN c.ops /\ Steps(c, j, rep[i], rep[i + 1])
      BY <1>3, <3>1
    <3>3. CASE WholeSent(c, j, id)
      <4>1. PICK q : Sent(c, j, q) /\ q.id = id /\ q.op = "delete"
        BY <1>6, <3>2, <3>3 DEF WholeSent
      <4> QED BY <3>2, <4>1, PresenceStep
    <3>4. CASE ~WholeSent(c, j, id)
      <4>1. k <= i /\ i <= n
        BY <1>1, <1>6, <3>1, <3>2, <3>4
      <4>2. id \notin DOMAIN rep[i]
        BY <2>1, <2>3, <4>1
      <4> QED BY <3>2, <3>4, <4>2, PresenceStep
    <3> QED BY <3>3, <3>4
  <2>4. Nat \subseteq I
    BY <2>2, <2>3, NatInd
  <2> QED BY <1>1, <2>1, <2>4
<1> QED BY <1>2, <1>4, <1>5, <1>6

(* What a field is at the end of a command: the last operation to write it *)
(* decides, and all that follow agree.                                     *)
Writes(q, id, f, val) ==
  /\ q.id = id
  /\ \/ q.op = "create" /\ q.doc[f] = val
     \/ q.op = "update" /\ f = "val" /\ "val" \in DOMAIN q.set /\ q.set["val"] = val
     \/ q.op = "move" /\ f = "parent" /\ q.parent = val
Agrees(q, id, f, val) ==
  q.id = id =>
    /\ q.op = "create" => q.doc[f] = val
    /\ q.op = "update" /\ f = "val" /\ "val" \in DOMAIN q.set => q.set["val"] = val
    /\ q.op = "move" /\ f = "parent" => q.parent = val
Holds(table, id, f, val) == id \in DOMAIN table => table[id][f] = val

LEMMA FieldStep ==
  ASSUME NEW c, Filtered(c), NEW i \in DOMAIN c.ops, NEW v, Shaped(v), NEW w, Steps(c, i, v, w),
         NEW id, NEW f \in {"val", "parent"}, NEW val
  PROVE  /\ Shaped(w)
         /\ \A q : Sent(c, i, q) /\ Writes(q, id, f, val) => Holds(w, id, f, val)
         /\ (\A q : Sent(c, i, q) => Agrees(q, id, f, val)) /\ Holds(v, id, f, val)
            => Holds(w, id, f, val)
<1>1. CASE filter_op(c, i) = <<>> /\ w = v
  <2>1. \A q : ~Sent(c, i, q)
    BY <1>1 DEF Sent
  <2> QED BY <1>1, <2>1
<1>2. ASSUME NEW p, Sent(c, i, p), w = applyOperation(v, p)
      PROVE  /\ Shaped(w)
             /\ \A q : Sent(c, i, q) /\ Writes(q, id, f, val) => Holds(w, id, f, val)
             /\ (\A q : Sent(c, i, q) => Agrees(q, id, f, val)) /\ Holds(v, id, f, val)
                => Holds(w, id, f, val)
  <2>1. \A q : Sent(c, i, q) => q = p
    BY <1>2, SentOnce
  <2>2. Cut(p)
    <3>1. \A q : filter_op(c, i) = <<>> => ~Sent(c, i, q)
      BY DEF Sent
    <3> QED BY <1>2, <2>1, <3>1 DEF Filtered
  <2>3. /\ \A x : x # p.id => Same(x, v, w)
        /\ p.op = "create" => p.id \in DOMAIN w /\ w[p.id] = p.doc
        /\ p.op = "delete" => p.id \notin DOMAIN w
        /\ p.op \in {"update", "move"} => (p.id \in DOMAIN w <=> p.id \in DOMAIN v)
    <3>1. p.op \in Kinds
      BY <2>2 DEF Cut
    <3> QED BY <1>2, <3>1, OneStep
  <2>4. /\ Shaped(w)
        /\ p.op = "move" /\ p.id \in DOMAIN v =>
             w[p.id].parent = p.parent /\ w[p.id].val = v[p.id].val
        /\ p.op = "update" /\ p.id \in DOMAIN v =>
             /\ w[p.id].parent = v[p.id].parent
             /\ w[p.id].val = IF "val" \in DOMAIN p.set THEN p.set.val ELSE v[p.id].val
    BY <1>2, <2>2, CutStep
  <2>5. ASSUME Writes(p, id, f, val) PROVE Holds(w, id, f, val)
    <3>1. CASE p.op = "create"
      BY <2>3, <2>5, <3>1 DEF Writes, Holds
    <3>2. CASE p.op = "update"
      BY <2>3, <2>4, <2>5, <3>2 DEF Writes, Holds
    <3>3. CASE p.op = "move"
      BY <2>3, <2>4, <2>5, <3>3 DEF Writes, Holds
    <3> QED BY <2>5, <3>1, <3>2, <3>3 DEF Writes
  <2>6. ASSUME Agrees(p, id, f, val), Holds(v, id, f, val) PROVE Holds(w, id, f, val)
    <3>1. CASE p.id # id
      BY <2>3, <2>6, <3>1 DEF Holds, Same
    <3>2. CASE p.id = id /\ p.op = "create"
      BY <2>3, <2>6, <3>2 DEF Agrees, Holds
    <3>3. CASE p.id = id /\ p.op = "delete"
      BY <2>3, <3>3 DEF Holds
    <3>4. CASE p.id = id /\ p.op = "update"
      <4>1. CASE f = "parent"
        BY <2>3, <2>4, <2>6, <3>4, <4>1 DEF Holds
      <4>2. CASE f = "val"
        BY <2>3, <2>4, <2>6, <3>4, <4>2 DEF Holds, Agrees
      <4> QED BY <4>1, <4>2
    <3>5. CASE p.id = id /\ p.op = "move"
      <4>1. CASE f = "parent"
        BY <2>3, <2>4, <2>6, <3>5, <4>1 DEF Holds, Agrees
      <4>2. CASE f = "val"
        BY <2>3, <2>4, <2>6, <3>5, <4>2 DEF Holds
      <4> QED BY <4>1, <4>2
    <3> QED BY <2>2, <3>1, <3>2, <3>3, <3>4, <3>5 DEF Cut, Kinds
  <2> QED BY <1>2, <2>1, <2>4, <2>5, <2>6
<1> QED BY <1>1, <1>2 DEF Steps

Anchor(c, k, table, id, f, val) ==
  \/ k = 0 /\ Holds(table, id, f, val)
  \/ k \in DOMAIN c.ops /\ \E q : Sent(c, k, q) /\ Writes(q, id, f, val)

LEMMA FieldAfter ==
  ASSUME NEW c, Filtered(c), NEW table, Shaped(table)
  PROVE  LET after == applyCommand(table, filter_command(c)) IN
         /\ Shaped(after)
         /\ \A id, val, k : \A f \in {"val", "parent"} :
              /\ Anchor(c, k, table, id, f, val)
              /\ \A i \in DOMAIN c.ops : k < i => \A q : Sent(c, i, q) => Agrees(q, id, f, val)
              => Holds(after, id, f, val)
<1>1. PICK n \in Nat : n = Len(c.ops) /\ DOMAIN c.ops = 1..n
  BY SeqFacts DEF Filtered
<1>2. PICK rep : Plays(c, rep, table) /\ rep[n] = applyCommand(table, filter_command(c))
  BY <1>1, Played
<1>3. \A i \in Nat : i + 1 <= n => i + 1 \in DOMAIN c.ops /\ Steps(c, i + 1, rep[i], rep[i + 1])
  BY <1>1, <1>2 DEF Plays
<1>4. \A i \in Nat : i <= n => Shaped(rep[i])
  <2>1. PICK I : I = {i \in Nat : i <= n => Shaped(rep[i])}
    OBVIOUS
  <2>2. 0 \in I
    BY <1>2, <2>1 DEF Plays
  <2>3. ASSUME NEW i \in Nat, i \in I PROVE i + 1 \in I
    <3>1. i + 1 <= n /\ Shaped(rep[i]) => Shaped(rep[i + 1])
      BY <1>3, FieldStep
    <3> QED BY <2>1, <2>3, <3>1
  <2>4. Nat \subseteq I
    BY <2>2, <2>3, NatInd
  <2> QED BY <2>1, <2>4
<1>5. ASSUME NEW id, NEW val, NEW k, NEW f \in {"val", "parent"},
             Anchor(c, k, table, id, f, val),
             \A i \in DOMAIN c.ops : k < i => \A q : Sent(c, i, q) => Agrees(q, id, f, val)
      PROVE  Holds(rep[n], id, f, val)
  <2>1. k \in Nat /\ k <= n
    BY <1>1, <1>5 DEF Anchor
  <2>2. Holds(rep[k], id, f, val)
    <3>1. CASE k = 0 /\ Holds(table, id, f, val)
      BY <1>2, <3>1 DEF Plays
    <3>2. CASE k \in DOMAIN c.ops /\ \E q : Sent(c, k, q) /\ Writes(q, id, f, val)
      <4>1. PICK j \in Nat : k = j + 1 /\ j <= n
        <5>1. k - 1 \in Nat /\ k = (k - 1) + 1 /\ k - 1 <= n
          BY <1>1, <3>2
        <5> QED BY <5>1
      <4>2. Steps(c, k, rep[j], rep[k]) /\ Shaped(rep[j])
        BY <1>3, <1>4, <2>1, <4>1
      <4> QED BY <3>2, <4>2, FieldStep
    <3> QED BY <1>5, <3>1, <3>2 DEF Anchor
  <2>3. PICK I : I = {i \in Nat : k <= i /\ i <= n => Holds(rep[i], id, f, val)}
    OBVIOUS
  <2>4. 0 \in I
    BY <2>1, <2>2, <2>3
  <2>5. ASSUME NEW i \in Nat, i \in I PROVE i + 1 \in I
    <3>1. SUFFICES ASSUME k <= i + 1, i + 1 <= n PROVE Holds(rep[i + 1], id, f, val)
      BY <2>3
    <3>2. CASE k = i + 1
      BY <2>2, <3>2
    <3>3. CASE k <= i
      <4>1. Holds(rep[i], id, f, val) /\ Shaped(rep[i])
        BY <1>4, <2>3, <2>5, <3>1, <3>3
      <4>2. PICK j : j = i + 1 /\ j \in DOMAIN c.ops /\ Steps(c, j, rep[i], rep[i + 1]) /\ k < j
        BY <1>3, <3>1, <3>3, <2>1
      <4>3. \A q : Sent(c, j, q) => Agrees(q, id, f, val)
        BY <1>5, <4>2
      <4>4. PICK v, w : v = rep[i] /\ w = rep[i + 1]
        OBVIOUS
      <4>5. Steps(c, j, v, w) /\ Shaped(v) /\ Holds(v, id, f, val) /\ j \in DOMAIN c.ops
        BY <4>1, <4>2, <4>4
      <4>6. Holds(w, id, f, val)
        BY <4>3, <4>5, FieldStep, Zenon
      <4> QED BY <4>4, <4>6
    <3> QED BY <2>1, <3>1, <3>2, <3>3
  <2>6. Nat \subseteq I
    BY <2>4, <2>5, NatInd
  <2> QED BY <2>1, <2>3, <2>6
<1> QED BY <1>2, <1>4, <1>5

(* The shape of what the filter sends, whatever it is given.               *)
LEMMA WholeCut ==
  ASSUME NEW id, NEW doc
  PROVE  /\ Cut(Whole(id, doc)) /\ Whole(id, doc).id = id /\ Whole(id, doc).op = "create"
         /\ Whole(id, doc).doc.parent = doc.parent
         /\ Whole(id, doc).doc.val =
              IF can_see(doc.tier, effective_owner(id, doc, ecs)) THEN doc.val ELSE Null
<1>1. PICK v, p, cut : /\ v = (IF can_see(doc.tier, effective_owner(id, doc, ecs)) THEN doc.val ELSE Null)
                       /\ p = doc.parent /\ cut = [val |-> v, parent |-> p]
  <2>1. PICK v : v = IF can_see(doc.tier, effective_owner(id, doc, ecs)) THEN doc.val ELSE Null
    OBVIOUS
  <2>2. PICK p : p = doc.parent
    OBVIOUS
  <2> QED BY <2>1, <2>2
<1>2. Whole(id, doc) = [op |-> "create", id |-> id, doc |-> cut]
  BY <1>1 DEF Whole, filter_properties
<1>3. cut.val = v /\ cut.parent = p /\ cut = [val |-> cut.val, parent |-> cut.parent]
  BY <1>1
<1> QED BY <1>1, <1>2, <1>3 DEF Cut, Kinds

UpdateSet(o, s, doc) ==
  IF retracts(o, s) THEN [val |-> Null]
  ELSE Restrict(o.set, DOMAIN o.set \cap (IF hidden(o, s, doc) THEN {} ELSE {"val"}))

LEMMA FilteredEntry ==
  ASSUME NEW c, EntryShape(c)
  PROVE  Filtered(c)
<1>1. SUFFICES ASSUME NEW i \in DOMAIN c.ops
               PROVE filter_op(c, i) = <<>> \/ \E q : Sent(c, i, q) /\ q.id = c.ops[i].id /\ Cut(q)
  BY DEF Filtered, EntryShape
<1>2. PICK o, s : o = c.ops[i] /\ s = c.per_op[i]
  OBVIOUS
<1>3. o.op \in Kinds
  BY <1>2 DEF EntryShape
<1>4. ASSUME NEW doc, filter_op(c, i) = <<Whole(o.id, doc)>>
      PROVE  \E q : Sent(c, i, q) /\ q.id = o.id /\ Cut(q)
  BY <1>4, WholeCut DEF Sent
<1>5. ASSUME filter_op(c, i) = <<[op |-> "delete", id |-> o.id]>>
      PROVE  \E q : Sent(c, i, q) /\ q.id = o.id /\ Cut(q)
  <2>1. PICK q : q = [op |-> "delete", id |-> o.id] /\ Sent(c, i, q)
    BY <1>5 DEF Sent
  <2>2. q.id = o.id /\ q.op = "delete"
    BY <2>1
  <2> QED BY <2>1, <2>2 DEF Cut, Kinds
<1>6. CASE o.op = "create"
  <2>1. filter_op(c, i) = FilterCreate(o, s)
    BY <1>2, <1>6 DEF filter_op
  <2> QED BY <1>2, <1>4, <2>1 DEF FilterCreate
<1>7. CASE o.op = "delete"
  <2>1. filter_op(c, i) = FilterDelete(o, s)
    BY <1>2, <1>7 DEF filter_op
  <2> QED BY <1>2, <1>5, <2>1 DEF FilterDelete
<1>8. CASE o.op = "move"
  <2>1. filter_op(c, i) = FilterMove(o, s)
    BY <1>2, <1>8 DEF filter_op
  <2>2. filter_op(c, i) = <<>> \/ filter_op(c, i) = <<o>>
    BY <2>1 DEF FilterMove
  <2>3. Cut(o)
    BY <1>8 DEF Cut, Kinds
  <2> QED BY <1>2, <2>2, <2>3 DEF Sent
<1>9. CASE o.op = "update"
  <2>1. PICK last \in BOOLEAN : filter_op(c, i) = FilterUpdate(o, s, last)
    <3>1. filter_op(c, i) = FilterUpdate(o, s, last_update_idx_for_doc(c.ops, i))
      BY <1>2, <1>9 DEF filter_op
    <3>2. last_update_idx_for_doc(c.ops, i) \in BOOLEAN
      BY DEF last_update_idx_for_doc
    <3> QED BY <3>1, <3>2
  <2>2. PICK doc : doc = current[o.id]
    OBVIOUS
  <2>3. \/ filter_op(c, i) = <<>>
        \/ filter_op(c, i) = <<[op |-> "delete", id |-> o.id]>>
        \/ filter_op(c, i) = <<Whole(o.id, doc)>>
        \/ filter_op(c, i) = <<[op |-> "update", id |-> o.id, set |-> UpdateSet(o, s, doc)]>>
    BY <2>1, <2>2 DEF FilterUpdate, UpdateSet
  <2>4. ASSUME NEW set, set = UpdateSet(o, s, doc),
               filter_op(c, i) = <<[op |-> "update", id |-> o.id, set |-> set]>>
        PROVE  \E q : Sent(c, i, q) /\ q.id = o.id /\ Cut(q)
    <3>1. PICK q : q = [op |-> "update", id |-> o.id, set |-> set] /\ Sent(c, i, q)
      BY <2>4 DEF Sent
    <3>2. q.id = o.id /\ q.op = "update" /\ q.set = set
      BY <3>1
    <3>3. DOMAIN set \subseteq {"val"}
      <4>1. CASE retracts(o, s)
        <5>1. set = [val |-> Null]
          BY <2>4, <4>1 DEF UpdateSet
        <5> QED BY <5>1
      <4>2. CASE ~retracts(o, s)
        <5>1. PICK kept : /\ kept \subseteq {"val"} /\ set = Restrict(o.set, kept)
          BY <2>4, <4>2 DEF UpdateSet
        <5> QED BY <5>1 DEF Restrict
      <4> QED BY <4>1, <4>2
    <3> QED BY <3>1, <3>2, <3>3 DEF Cut, Kinds
  <2> QED BY <1>2, <1>4, <1>5, <2>3, <2>4
<1> QED BY <1>2, <1>3, <1>6, <1>7, <1>8, <1>9 DEF Kinds

-----------------------------------------------------------------------------
(* The moment a command is sent: it is the k-th of n, the documents loaded *)
(* are those that m commands leave.                                        *)
Sending(T, n, k, m, t) ==
  /\ EgressTyped /\ History(T) /\ Recorded(T)
  /\ n \in Nat /\ n = Len(log) /\ k = cursor + 1 /\ k \in 1..n /\ m \in k..n
  /\ published \in k..n
  /\ current = T[m] /\ ecs = actorsOf(T[published])
  /\ t.docs = T[k] /\ Made(T[k - 1], t, log[k], k)

(* What a later command will have told of a document.                      *)
Late(id, whys) == \E why \in whys : \E j \in cursor + 2..Len(log) : Told(id, why, j)

LEMMA Descent ==
  ASSUME NEW T, NEW n, NEW k, NEW m, NEW t, Sending(T, n, k, m, t),
         NEW j \in 1..n, NEW id \in DOMAIN T[j]
  PROVE  T[j][id].created = IF id \in DOMAIN T[j - 1] THEN T[j - 1][id].created ELSE j
<1>1. MadeOf(T[j - 1], T[j], log[j], j)
  BY DEF Sending, History
<1>2. PICK u : u.docs = T[j] /\ Made(T[j - 1], u, log[j], j)
  BY <1>1 DEF MadeOf
<1>3. PartDocs(u, T[j - 1], j)
  BY <1>2 DEF Made, Part
<1>4. Descends(T[j - 1], j, id, T[j][id])
  BY <1>2, <1>3 DEF PartDocs
<1> QED BY <1>4 DEF Descends

(* A document that stays is of one generation.                             *)
LEMMA OneLife ==
  ASSUME NEW T, NEW n, NEW k, NEW m, NEW t, Sending(T, n, k, m, t),
         NEW a \in 0..n, NEW b \in 0..n, a <= b, NEW id, \A j \in a..b : id \in DOMAIN T[j]
  PROVE  T[b][id].created = T[a][id].created
<1>1. PICK S : S = {j \in 0..n : T[j][id].created = T[a][id].created}
  OBVIOUS
<1>2. SUFFICES ASSUME b \notin S PROVE FALSE
  BY <1>1
<1>3. a \in S /\ a \in Nat /\ b \in Nat /\ n \in Nat
  BY <1>1 DEF Sending
<1>4. PICK j \in a + 1..b : j - 1 \in S /\ j \notin S
  BY <1>2, <1>3, Switch
<1>5. j \in 1..n /\ j \in 0..n /\ j \in a..b /\ j - 1 \in a..b
  BY <1>3
<1>6. T[j][id].created = T[j - 1][id].created
  BY <1>5, Descent
<1> QED BY <1>1, <1>4, <1>5, <1>6

(* A document leaves by a first command, and comes back by a first one.    *)
LEMMA Leaves ==
  ASSUME NEW T, NEW n, NEW k, NEW m, NEW t, Sending(T, n, k, m, t),
         NEW id, id \in DOMAIN T[k], NEW b \in k..n, id \notin DOMAIN T[b]
  PROVE  \E j \in k + 1..b : id \in DOMAIN T[j - 1] /\ id \notin DOMAIN T[j]
<1>1. PICK S : S = {j \in 0..n : id \in DOMAIN T[j]}
  OBVIOUS
<1>2. n \in Nat /\ k \in 1..n /\ k \in Nat /\ b \in Nat /\ k <= b /\ k \in S /\ b \notin S
  BY <1>1 DEF Sending
<1>3. PICK j \in k + 1..b : j - 1 \in S /\ j \notin S
  BY <1>2, Switch
<1>4. j \in 0..n
  BY <1>2
<1> QED BY <1>1, <1>3, <1>4

LEMMA Returns ==
  ASSUME NEW T, NEW n, NEW k, NEW m, NEW t, Sending(T, n, k, m, t),
         NEW id, id \notin DOMAIN T[k], NEW b \in k..n, id \in DOMAIN T[b]
  PROVE  \E j \in k + 1..b : id \notin DOMAIN T[j - 1] /\ id \in DOMAIN T[j]
<1>1. PICK S : S = {j \in 0..n : id \notin DOMAIN T[j]}
  OBVIOUS
<1>2. n \in Nat /\ k \in 1..n /\ k \in Nat /\ b \in Nat /\ k <= b /\ k \in S /\ b \notin S
  BY <1>1 DEF Sending
<1>3. PICK j \in k + 1..b : j - 1 \in S /\ j \notin S
  BY <1>2, Switch
<1>4. j \in 0..n /\ j - 1 \in 0..n
  BY <1>2
<1> QED BY <1>1, <1>3, <1>4

(* The command being sent is one a later command finds waiting.            *)
LEMMA WaitsFor ==
  ASSUME NEW T, NEW n, NEW k, NEW m, NEW t, Sending(T, n, k, m, t),
         NEW i \in DOMAIN log[k].ops, NEW id \in Ids, id = log[k].ops[i].id, NEW j \in k + 1..n
  PROVE  /\ Waits(id, j) /\ j \in cursor + 2..Len(log)
         /\ Tells(id, j, log[j].ops, T[j - 1], T[j]) /\ cursor < j
<1>1. /\ n \in Nat /\ n = Len(log) /\ k = cursor + 1 /\ k \in 1..n /\ cursor \in Nat
      /\ IsSeq(log[k].ops)
  BY DEF Sending, EgressTyped, EntryShape
<1>2. log[k].ops[i] \in Range(log[k].ops)
  BY <1>1, SeqFacts
<1>3. k \in cursor + 1..j - 1 /\ j \in cursor + 2..Len(log) /\ j \in 1..n /\ cursor < j
  BY <1>1
<1>4. Waits(id, j)
  BY <1>2, <1>3 DEF Waits
<1>5. Tells(id, j, log[j].ops, T[j - 1], T[j])
  BY <1>1, <1>3 DEF Sending, Recorded
<1> QED BY <1>3, <1>4, <1>5

(* Where no later command told that an actor changed hands, rights are of  *)
(* one moment.                                                             *)
Settled(T, n, k, id) ==
  \A doc : \A j \in k..n : effective_owner(id, doc, actorsOf(T[j])) = effective_owner(id, doc, ecs)

LEMMA Level ==
  ASSUME NEW T, NEW n, NEW k, NEW m, NEW t, Sending(T, n, k, m, t),
         NEW i \in DOMAIN log[k].ops, NEW id \in Ids, id = log[k].ops[i].id, ~Late(id, {"reowned"})
  PROVE  Settled(T, n, k, id)
<1>1. /\ n \in Nat /\ k \in 1..n /\ k \in Nat /\ published \in k..n /\ ecs = actorsOf(T[published])
  BY DEF Sending
<1>2. CASE id \notin Tokens
  BY <1>2 DEF Settled, effective_owner
<1>3. CASE id \in Tokens
  <2>1. PICK S : S = {j \in 0..n : actorsOf(T[j]) = actorsOf(T[k])}
    OBVIOUS
  <2>2. ASSUME NEW b \in k..n, b \notin S PROVE FALSE
    <3>1. k \in S /\ b \in Nat /\ k <= b
      BY <1>1, <2>1
    <3>2. PICK j \in k + 1..b : j - 1 \in S /\ j \notin S
      BY <1>1, <2>2, <3>1, Switch
    <3>3. j \in k + 1..n /\ j \in 0..n
      BY <1>1, <3>1
    <3>4. Hands(id, T[j - 1], T[j])
      BY <1>3, <2>1, <3>2, <3>3 DEF Hands
    <3>5. Waits(id, j) /\ j \in cursor + 2..Len(log) /\ Tells(id, j, log[j].ops, T[j - 1], T[j]) /\ cursor < j
      BY <3>3, WaitsFor
    <3>6. Told(id, "reowned", j)
      BY <3>4, <3>5 DEF Tells
    <3> QED BY <3>5, <3>6 DEF Late
  <2>3. \A j \in k..n : actorsOf(T[j]) = actorsOf(T[k])
    BY <2>1, <2>2
  <2>4. \A j \in k..n : actorsOf(T[j]) = ecs
    BY <1>1, <2>3
  <2> QED BY <2>4 DEF Settled
<1> QED BY <1>2, <1>3

-----------------------------------------------------------------------------
(* What the filter makes of each operation of the command.                 *)

(* The rights logged with an operation are those of the documents before   *)
(* and after the command.                                                  *)
LEMMA Logged ==
  ASSUME NEW T, NEW n, NEW k, NEW m, NEW t, Sending(T, n, k, m, t)
  PROVE  /\ Batch(log[k].ops, T[k - 1], k) /\ Part(t, T[k - 1], log[k].ops, k, Len(log[k].ops))
         /\ Change(T[k - 1], T[k], log[k].ops, Len(log[k].ops))
         /\ IsSeq(log[k].ops) /\ Len(log[k].ops) \in Nat /\ DOMAIN log[k].ops = 1..Len(log[k].ops)
         /\ k - 1 \in 0..n /\ k \in 0..n /\ m \in 0..n /\ k \in Nat /\ n \in Nat /\ m \in Nat
         /\ k \in k..n /\ m \in k..n /\ k <= m /\ m <= n
         /\ \A j \in 0..n : TableOK(T[j], j)
<1>1. Made(T[k - 1], t, log[k], k) /\ t.docs = T[k]
  BY DEF Sending
<1>2. IsSeq(log[k].ops)
  BY <1>1 DEF Made, Batch
<1>3. /\ k - 1 \in 0..n /\ k \in 0..n /\ m \in 0..n /\ k \in Nat /\ n \in Nat /\ m \in Nat
      /\ k \in k..n /\ m \in k..n /\ k <= m /\ m <= n
  <2>1. k \in 1..n /\ m \in k..n /\ n \in Nat
    BY DEF Sending
  <2> QED BY <2>1
<1>4. \A j \in 0..n : TableOK(T[j], j)
  BY DEF Sending, History
<1> QED BY <1>1, <1>2, <1>3, <1>4, SeqFacts DEF Made

LEMMA CreateSnap ==
  ASSUME NEW T, NEW n, NEW k, NEW m, NEW t, Sending(T, n, k, m, t),
         NEW i \in DOMAIN log[k].ops, NEW o, o = log[k].ops[i], o.op = "create", Alone(log[k].ops, i)
  PROVE  /\ o.id \in Ids /\ o.id \notin DOMAIN T[k - 1] /\ o.id \in DOMAIN T[k] /\ T[k][o.id] = o.doc
         /\ log[k].per_op[i].owner = OwnerIn(T[k], o.id)
<1>1. PICK ops, s : ops = log[k].ops /\ s = log[k].per_op[i]
  OBVIOUS
<1>2. /\ Batch(ops, T[k - 1], k) /\ Part(t, T[k - 1], ops, k, Len(ops)) /\ DOMAIN ops = 1..Len(ops)
      /\ t.docs = T[k] /\ log[k].per_op = Snapshots(T[k - 1], t, ops)
  BY <1>1, Logged DEF Sending, Made
<1>3. o.id \in Ids /\ o.id \notin DOMAIN T[k - 1]
  BY <1>1, <1>2 DEF Batch, OpOK
<1>4. o.id \in DOMAIN T[k] /\ T[k][o.id] = o.doc /\ o.id \in DOMAIN t.images
  BY <1>1, <1>2 DEF Part, PartOps
<1>5. t.images[o.id] = T[k][o.id]
  BY <1>2, <1>4 DEF Part, PartDocs
<1>6. s = build_op_snapshot(T[k - 1], t, o)
  BY <1>1, <1>2 DEF Snapshots
<1>7. s.owner = effective_owner(o.id, t.images[o.id], actorsOf(T[k]))
  BY <1>2, <1>6 DEF build_op_snapshot
<1> QED BY <1>1, <1>3, <1>4, <1>5, <1>7 DEF OwnerIn

LEMMA DeleteSnap ==
  ASSUME NEW T, NEW n, NEW k, NEW m, NEW t, Sending(T, n, k, m, t),
         NEW i \in DOMAIN log[k].ops, NEW o, o = log[k].ops[i], o.op = "delete"
  PROVE  /\ o.id \in Ids /\ o.id \in DOMAIN T[k - 1] /\ o.id \notin DOMAIN T[k] /\ o.doc = T[k - 1][o.id]
         /\ log[k].per_op[i].owner = effective_owner(o.id, T[k - 1][o.id], actorsOf(T[k]))
         /\ log[k].per_op[i].created = T[k - 1][o.id].created
<1>1. PICK ops, s : ops = log[k].ops /\ s = log[k].per_op[i]
  OBVIOUS
<1>2. /\ Batch(ops, T[k - 1], k) /\ Change(T[k - 1], T[k], ops, Len(ops)) /\ DOMAIN ops = 1..Len(ops)
      /\ t.docs = T[k] /\ log[k].per_op = Snapshots(T[k - 1], t, ops)
      /\ o.doc = T[k - 1][o.id]
  BY <1>1, Logged DEF Sending, Made
<1>3. o.id \in Ids /\ o.id \in DOMAIN T[k - 1]
  BY <1>1, <1>2 DEF Batch, OpOK
<1>4. o.id \notin DOMAIN T[k]
  <2>1. ~Still(ops, o.id, "delete", Len(ops))
    BY <1>1, <1>2 DEF Still, On
  <2> QED BY <1>2, <2>1 DEF Change
<1>5. s = build_op_snapshot(T[k - 1], t, o)
  BY <1>1, <1>2 DEF Snapshots
<1>6. s.owner = effective_owner(o.id, o.doc, actorsOf(T[k])) /\ s.created = o.doc.created
  BY <1>2, <1>5 DEF build_op_snapshot
<1> QED BY <1>1, <1>2, <1>3, <1>4, <1>6

LEMMA ChangeSnap ==
  ASSUME NEW T, NEW n, NEW k, NEW m, NEW t, Sending(T, n, k, m, t),
         NEW i \in DOMAIN log[k].ops, NEW o, o = log[k].ops[i], o.op = "update" \/ o.op = "move",
         NEW s, s = log[k].per_op[i]
  PROVE  /\ o.id \in Ids /\ o.id \in DOMAIN T[k - 1]
         /\ T[k - 1][o.id].created \in Nat /\ T[k - 1][o.id].created <= k
         /\ has_read(o.id, s.before.open, s.before.owner) <=> Reads(T[k - 1], o.id)
         /\ o.id \in DOMAIN T[k] =>
              /\ s.created = T[k - 1][o.id].created /\ T[k][o.id].created = s.created
              /\ s.open = T[k][o.id].open /\ s.tier = T[k][o.id].tier /\ s.owner = OwnerIn(T[k], o.id)
<1>1. PICK ops, id, image : ops = log[k].ops /\ id = o.id /\ image = t.images[o.id]
  OBVIOUS
<1>2. /\ Batch(ops, T[k - 1], k) /\ Part(t, T[k - 1], ops, k, Len(ops)) /\ DOMAIN ops = 1..Len(ops)
      /\ t.docs = T[k] /\ log[k].per_op = Snapshots(T[k - 1], t, ops)
      /\ k \in Nat /\ k - 1 \in 0..n /\ TableOK(T[k - 1], k - 1)
  <2>1. /\ Batch(log[k].ops, T[k - 1], k) /\ Part(t, T[k - 1], log[k].ops, k, Len(log[k].ops))
        /\ DOMAIN log[k].ops = 1..Len(log[k].ops)
        /\ k \in Nat /\ k - 1 \in 0..n /\ TableOK(T[k - 1], k - 1)
    BY Logged
  <2>2. t.docs = T[k] /\ log[k].per_op = Snapshots(T[k - 1], t, log[k].ops)
    BY DEF Sending, Made
  <2> QED BY <1>1, <2>1, <2>2
<1>3. id \in Ids /\ id \in DOMAIN T[k - 1]
  BY <1>1, <1>2 DEF Batch, OpOK
<1>4. id \in DOMAIN t.images
  BY <1>1, <1>2 DEF Part, PartOps
<1>5. image.created = T[k - 1][id].created
  BY <1>1, <1>2, <1>3, <1>4 DEF Part, PartDocs, Descends
<1>6. id \in DOMAIN T[k] => T[k][id] = image
  BY <1>1, <1>2, <1>4 DEF Part, PartDocs
<1>7. s = build_op_snapshot(T[k - 1], t, o)
  BY <1>1, <1>2 DEF Snapshots
<1>8. /\ s.owner = effective_owner(id, image, actorsOf(T[k])) /\ s.open = image.open
      /\ s.tier = image.tier /\ (id \in DOMAIN T[k] => s.created = image.created)
      /\ s.before.open = T[k - 1][id].open /\ s.before.owner = OwnerIn(T[k - 1], id)
  BY <1>1, <1>2, <1>7 DEF build_op_snapshot, owner_before_commit
<1>9. T[k - 1][id].created \in Nat /\ T[k - 1][id].created <= k
  BY <1>2, <1>3 DEF TableOK
<1> QED BY <1>1, <1>3, <1>5, <1>6, <1>8, <1>9 DEF OwnerIn, Reads

(* The command left the document, or it is not loaded: where a command     *)
(* deletes what it updates, and its id is used again, the update is sent   *)
(* with whatever generation is loaded.                                     *)
Sure(T, k, m, id) == id \in DOMAIN T[k] \/ id \notin DOMAIN T[m]

Now(id, doc) == has_read(id, doc.open, effective_owner(id, doc, ecs))

UpdateAt(T, k, m, i, o, s, id, doc) ==
  /\ i \in DOMAIN log[k].ops /\ o = log[k].ops[i] /\ s = log[k].per_op[i]
  /\ o.op = "update" /\ id = o.id /\ doc = T[m][id]

(* An update is nothing, a delete, the whole document, or an update.       *)
LEMMA OutUpdate ==
  ASSUME NEW T, NEW n, NEW k, NEW m, NEW t, Sending(T, n, k, m, t),
         NEW i, NEW o, NEW s, NEW id, NEW doc, UpdateAt(T, k, m, i, o, s, id, doc), Sure(T, k, m, id)
  PROVE  LET same == id \in DOMAIN T[m] /\ doc.created = T[k - 1][id].created
             turn == Reads(T[k - 1], id) # Reads(T[k], id)
             last == last_update_idx_for_doc(log[k].ops, i)
         IN /\ ~same => filter_op(log[k], i) = <<>>
            /\ same => id \in DOMAIN T[k]
            /\ same /\ turn /\ ~last => filter_op(log[k], i) = <<>>
            /\ same /\ turn /\ last /\ ~Reads(T[k], id) => filter_op(log[k], i) = <<[op |-> "delete", id |-> id]>>
            /\ same /\ turn /\ last /\ Reads(T[k], id) =>
                 filter_op(log[k], i) = IF Now(id, doc) THEN <<Whole(id, doc)>> ELSE <<>>
            /\ same /\ ~turn => filter_op(log[k], i) =
                 IF Reads(T[k], id) /\ Now(id, doc)
                 THEN <<[op |-> "update", id |-> id, set |-> UpdateSet(o, s, doc)]>> ELSE <<>>
<1>0. /\ i \in DOMAIN log[k].ops /\ o = log[k].ops[i] /\ s = log[k].per_op[i]
      /\ o.op = "update" /\ id = o.id /\ doc = T[m][id]
  BY DEF UpdateAt
<1>1. PICK last \in BOOLEAN : last = last_update_idx_for_doc(log[k].ops, i)
  <2>1. last_update_idx_for_doc(log[k].ops, i) \in BOOLEAN
    BY DEF last_update_idx_for_doc
  <2> QED BY <2>1
<1>2. current = T[m]
  BY DEF Sending
<1>3. filter_op(log[k], i) = FilterUpdate(o, s, last)
  BY <1>0, <1>1 DEF filter_op
<1>4. /\ T[k - 1][id].created \in Nat
      /\ has_read(id, s.before.open, s.before.owner) <=> Reads(T[k - 1], id)
      /\ id \in DOMAIN T[k] => /\ s.created = T[k - 1][id].created
                               /\ s.open = T[k][id].open /\ s.owner = OwnerIn(T[k], id)
  <2>1. o.op = "update" \/ o.op = "move"
    BY <1>0
  <2> QED BY ONLY Sending(T, n, k, m, t), <1>0, <2>1, ChangeSnap
<1>5. Reused(o, s) <=> id \in DOMAIN T[m] /\ doc.created # T[k - 1][id].created
  <2>1. CASE id \notin DOMAIN T[m]
    BY <1>0, <1>2, <2>1 DEF Reused
  <2>2. CASE id \in DOMAIN T[m]
    <3>1. s.created = T[k - 1][id].created /\ s.created # Unwitnessed
      BY <1>4, <2>2 DEF Sure, Unwitnessed
    <3> QED BY <1>0, <1>2, <2>2, <3>1 DEF Reused
  <2> QED BY <2>1, <2>2
<1>6. ASSUME id \notin DOMAIN T[m] \/ doc.created # T[k - 1][id].created PROVE filter_op(log[k], i) = <<>>
  BY <1>0, <1>2, <1>3, <1>5, <1>6 DEF FilterUpdate
<1>7. ASSUME id \in DOMAIN T[m], doc.created = T[k - 1][id].created
      PROVE  /\ id \in DOMAIN T[k]
             /\ has_read(id, s.open, s.owner) <=> Reads(T[k], id)
             /\ Transition(o, s) <=> (Reads(T[k - 1], id) # Reads(T[k], id))
             /\ read_gate(o, s, doc) <=> Reads(T[k], id) /\ Now(id, doc)
  <2>1. id \in DOMAIN T[k]
    BY <1>7 DEF Sure
  <2>2. has_read(id, s.open, s.owner) <=> Reads(T[k], id)
    BY <1>0, <1>4, <2>1 DEF Reads
  <2>3. Transition(o, s) <=> (Reads(T[k - 1], id) # Reads(T[k], id))
    <3>1. has_read(id, s.before.open, s.before.owner) \in BOOLEAN /\ has_read(id, s.open, s.owner) \in BOOLEAN
          /\ Reads(T[k - 1], id) \in BOOLEAN /\ Reads(T[k], id) \in BOOLEAN
      BY DEF has_read, Reads
    <3> QED BY <1>0, <1>4, <2>2, <3>1 DEF Transition
  <2>4. read_gate(o, s, doc) <=> Reads(T[k], id) /\ Now(id, doc)
    BY <1>0, <2>2 DEF read_gate, Now
  <2> QED BY <2>1, <2>2, <2>3, <2>4
<1>8. ASSUME id \in DOMAIN T[m], doc.created = T[k - 1][id].created
      PROVE  filter_op(log[k], i) =
               IF Transition(o, s)
               THEN IF ~last THEN <<>>
                    ELSE IF ~has_read(id, s.open, s.owner) THEN <<[op |-> "delete", id |-> id]>>
                    ELSE IF Now(id, doc) THEN <<Whole(id, doc)>> ELSE <<>>
               ELSE IF ~read_gate(o, s, doc) THEN <<>>
               ELSE <<[op |-> "update", id |-> id, set |-> UpdateSet(o, s, doc)]>>
  <2>1. ~Reused(o, s) /\ o.id \in DOMAIN current /\ doc = current[o.id]
    BY <1>0, <1>2, <1>5, <1>8
  <2> QED BY <1>0, <1>3, <2>1 DEF FilterUpdate, UpdateSet, Now
<1> QED BY <1>1, <1>6, <1>7, <1>8

LEMMA OutMove ==
  ASSUME NEW T, NEW n, NEW k, NEW m, NEW t, Sending(T, n, k, m, t),
         NEW i \in DOMAIN log[k].ops, NEW o, o = log[k].ops[i], o.op = "move",
         NEW id, id = o.id, id \in DOMAIN T[m], T[m][id].created = T[k - 1][id].created,
         Reads(T[k], id), Now(id, T[m][id])
  PROVE  Sent(log[k], i, o)
<1>1. PICK s : s = log[k].per_op[i]
  OBVIOUS
<1>2. current = T[m]
  BY DEF Sending
<1>3. /\ o.id \in DOMAIN T[k] => s.created = T[k - 1][o.id].created
      /\ o.id \in DOMAIN T[k] => s.open = T[k][o.id].open /\ s.owner = OwnerIn(T[k], o.id)
  <2>1. o.op = "update" \/ o.op = "move"
    OBVIOUS
  <2>2. Sending(T, n, k, m, t) /\ i \in DOMAIN log[k].ops /\ o = log[k].ops[i] /\ s = log[k].per_op[i]
    BY <1>1
  <2> QED BY ONLY <2>1, <2>2, ChangeSnap
<1>4. ~Reused(o, s) /\ read_gate(o, s, current[id])
  <2>1. id \in DOMAIN T[k] /\ has_read(id, T[k][id].open, OwnerIn(T[k], id))
    BY DEF Reads
  <2>2. s.created = T[k - 1][id].created /\ s.open = T[k][id].open /\ s.owner = OwnerIn(T[k], id)
    BY <1>3, <2>1
  <2> QED BY <1>2, <2>1, <2>2 DEF Reused, read_gate, Now
<1>5. filter_op(log[k], i) = FilterMove(o, s)
  BY <1>1 DEF filter_op
<1> QED BY <1>2, <1>4, <1>5 DEF FilterMove, Sent

(* The last update of a document whose READ the command changes.           *)
LEMMA OutTurn ==
  ASSUME NEW T, NEW n, NEW k, NEW m, NEW t, Sending(T, n, k, m, t),
         NEW i \in DOMAIN log[k].ops, NEW o, o = log[k].ops[i], o.op = "update",
         NEW id, id = o.id, NEW doc, doc = T[m][id],
         id \in DOMAIN T[k], id \in DOMAIN T[m], doc.created = T[k - 1][id].created,
         Reads(T[k - 1], id) # Reads(T[k], id), last_update_idx_for_doc(log[k].ops, i)
  PROVE  /\ ~Reads(T[k], id) => filter_op(log[k], i) = <<[op |-> "delete", id |-> id]>>
         /\ Reads(T[k], id) => filter_op(log[k], i) = IF Now(id, doc) THEN <<Whole(id, doc)>> ELSE <<>>
<1>1. PICK s : s = log[k].per_op[i]
  OBVIOUS
<1>2. UpdateAt(T, k, m, i, o, s, id, doc) /\ Sure(T, k, m, id)
  BY <1>1 DEF UpdateAt, Sure
<1>3. PICK set, last, same : /\ set = UpdateSet(o, s, doc)
                             /\ last = last_update_idx_for_doc(log[k].ops, i)
                             /\ same <=> id \in DOMAIN T[m] /\ doc.created = T[k - 1][id].created
  OBVIOUS
<1>4. /\ ~same => filter_op(log[k], i) = <<>>
      /\ same /\ Reads(T[k - 1], id) # Reads(T[k], id) /\ ~last => filter_op(log[k], i) = <<>>
      /\ same /\ Reads(T[k - 1], id) # Reads(T[k], id) /\ last /\ ~Reads(T[k], id)
         => filter_op(log[k], i) = <<[op |-> "delete", id |-> id]>>
      /\ same /\ Reads(T[k - 1], id) # Reads(T[k], id) /\ last /\ Reads(T[k], id)
         => filter_op(log[k], i) = IF Now(id, doc) THEN <<Whole(id, doc)>> ELSE <<>>
      /\ same /\ ~(Reads(T[k - 1], id) # Reads(T[k], id)) => filter_op(log[k], i) =
           IF Reads(T[k], id) /\ Now(id, doc)
           THEN <<[op |-> "update", id |-> id, set |-> set]>> ELSE <<>>
  BY ONLY Sending(T, n, k, m, t), <1>2, <1>3, OutUpdate
<1> QED BY <1>3, <1>4

LEMMA Single ==
  ASSUME NEW ops, NEW i \in DOMAIN ops, ops[i].op = "create", ~Doubled(ops[i].id, ops)
  PROVE  Alone(ops, i)
<1>1. ASSUME NEW j \in DOMAIN ops, ops[j].id = ops[i].id, ops[j].op = "create", j # i PROVE FALSE
  <2>1. \A x \in {i, j} : ops[x].op = "create" /\ ops[x].id = ops[i].id
    BY <1>1
  <2> QED BY <1>1, <2>1 DEF Doubled
<1> QED BY <1>1 DEF Alone

(* A create is sent whole where the rights of its commit, which are those  *)
(* of now, let the player read it.                                         *)
LEMMA OutCreate ==
  ASSUME NEW T, NEW n, NEW k, NEW m, NEW t, Sending(T, n, k, m, t),
         NEW i \in DOMAIN log[k].ops, NEW o, o = log[k].ops[i], o.op = "create",
         NEW id, id = o.id, ~Doubled(id, log[k].ops)
  PROVE  /\ id \notin DOMAIN T[k - 1] /\ id \in DOMAIN T[k]
         /\ filter_op(log[k], i) =
              IF Reads(T[k], id) /\ Now(id, T[k][id]) THEN <<Whole(id, T[k][id])>> ELSE <<>>
<1>1. PICK s, doc : s = log[k].per_op[i] /\ doc = T[k][id]
  OBVIOUS
<1>2. Alone(log[k].ops, i)
  BY Single
<1>3. id \notin DOMAIN T[k - 1] /\ id \in DOMAIN T[k] /\ doc = o.doc /\ s.owner = OwnerIn(T[k], id)
  BY <1>1, <1>2, CreateSnap
<1>4. filter_op(log[k], i) = FilterCreate(o, s)
  BY <1>1 DEF filter_op
<1>5. PICK r : r = [open |-> doc.open, owner |-> s.owner]
  OBVIOUS
<1>6. filter_op(log[k], i) = IF read_gate(o, r, doc) THEN <<Whole(id, doc)>> ELSE <<>>
  BY <1>3, <1>4, <1>5 DEF FilterCreate
<1>7. r.open = doc.open /\ r.owner = OwnerIn(T[k], id)
  BY <1>3, <1>5
<1>8. read_gate(o, r, doc) <=> Reads(T[k], id) /\ Now(id, doc)
  BY <1>1, <1>3, <1>7 DEF read_gate, Reads, Now
<1> QED BY <1>1, <1>3, <1>6, <1>8

LEMMA OutDelete ==
  ASSUME NEW T, NEW n, NEW k, NEW m, NEW t, Sending(T, n, k, m, t),
         NEW i \in DOMAIN log[k].ops, NEW o, o = log[k].ops[i], o.op = "delete", NEW id, id = o.id
  PROVE  /\ id \in DOMAIN T[k - 1] /\ id \notin DOMAIN T[k]
         /\ filter_op(log[k], i) = <<>> \/ filter_op(log[k], i) = <<[op |-> "delete", id |-> id]>>
         /\ /\ id \notin DOMAIN T[m] /\ Now(id, T[k - 1][id])
            /\ has_read(id, T[k - 1][id].open, effective_owner(id, T[k - 1][id], actorsOf(T[k])))
            => filter_op(log[k], i) = <<[op |-> "delete", id |-> id]>>
<1>1. PICK s, doc : s = log[k].per_op[i] /\ doc = T[k - 1][id]
  OBVIOUS
<1>2. /\ id \in DOMAIN T[k - 1] /\ id \notin DOMAIN T[k] /\ doc = o.doc
      /\ s.owner = effective_owner(id, doc, actorsOf(T[k]))
  BY <1>1, DeleteSnap
<1>3. filter_op(log[k], i) = FilterDelete(o, s)
  BY <1>1 DEF filter_op
<1>4. filter_op(log[k], i) = <<>> \/ filter_op(log[k], i) = <<[op |-> "delete", id |-> id]>>
  BY <1>3 DEF FilterDelete
<1>5. ASSUME id \notin DOMAIN T[m], Now(id, doc), has_read(id, doc.open, s.owner)
      PROVE  filter_op(log[k], i) = <<[op |-> "delete", id |-> id]>>
  <2>1. ~Reused(o, s)
    BY <1>5 DEF Reused, Sending
  <2>2. PICK r : r = [open |-> doc.open, owner |-> s.owner]
    OBVIOUS
  <2>3. r.open = doc.open /\ r.owner = s.owner
    BY <2>2
  <2>4. read_gate(o, r, doc)
    BY <1>5, <2>3 DEF read_gate, Now
  <2> QED BY <1>2, <1>3, <2>1, <2>2, <2>4 DEF FilterDelete
<1> QED BY <1>1, <1>2, <1>4, <1>5

LEMMA SentSome ==
  ASSUME NEW c, NEW i, NEW q, Sent(c, i, q)
  PROVE  filter_op(c, i) # <<>>
<1>1. <<q>> # <<>>
  OBVIOUS
<1> QED BY <1>1 DEF Sent

(* All that may be sent.                                                   *)
SentWhole(T, k, m, id, q) ==
  /\ Reads(T[k], id) /\ ~Reads(T[k - 1], id)
  /\ q = Whole(id, T[k][id]) \/ (id \in DOMAIN T[m] /\ q = Whole(id, T[m][id]))
SentUpdate(T, k, m, i, id, q) ==
  /\ log[k].ops[i].op = "update" /\ log[k].ops[i].id = id
  /\ Reads(T[k - 1], id) /\ Reads(T[k], id) /\ id \in DOMAIN T[m] /\ Now(id, T[m][id])
  /\ q.set = UpdateSet(log[k].ops[i], log[k].per_op[i], T[m][id])

LEMMA SentOf ==
  ASSUME NEW T, NEW n, NEW k, NEW m, NEW t, Sending(T, n, k, m, t),
         NEW i \in DOMAIN log[k].ops, NEW q, Sent(log[k], i, q)
  PROVE  log[k].ops[i].op \in Kinds /\ log[k].ops[i].id = q.id
<1>1. PICK o : o = log[k].ops[i]
  OBVIOUS
<1>2. EntryShape(log[k])
  BY DEF Sending, EgressTyped
<1>3. \E p : Sent(log[k], i, p) /\ p.id = o.id
  <2>1. Filtered(log[k])
    BY <1>2, FilteredEntry
  <2>2. filter_op(log[k], i) = <<>> \/ \E p : Sent(log[k], i, p) /\ p.id = o.id
    BY <1>1, <2>1 DEF Filtered
  <2> QED BY <2>2, SentSome
<1>4. o.id = q.id
  BY <1>3, SentOnce
<1> QED BY <1>1, <1>2, <1>4 DEF EntryShape

LEMMA SentIs ==
  ASSUME NEW T, NEW n, NEW k, NEW m, NEW t, Sending(T, n, k, m, t),
         NEW i \in DOMAIN log[k].ops, NEW id, ~Doubled(id, log[k].ops), Sure(T, k, m, id),
         NEW q, Sent(log[k], i, q), q.id = id
  PROVE  /\ log[k].ops[i].id = id
         /\ q.op = "create" => SentWhole(T, k, m, id, q)
         /\ q.op = "delete" => ~Reads(T[k], id)
         /\ q.op = "update" => SentUpdate(T, k, m, i, id, q)
         /\ q.op = "move" => q = log[k].ops[i]
<1>1. PICK o, s : o = log[k].ops[i] /\ s = log[k].per_op[i]
  OBVIOUS
<1>2. o.op \in Kinds /\ o.id = id
  BY <1>1, SentOf
<1>3. \A p : filter_op(log[k], i) = <<p>> => q = p
  BY SentOnce DEF Sent
<1>4. filter_op(log[k], i) # <<>>
  BY SentSome
<1>5. \A doc : Whole(id, doc).op = "create"
  BY WholeCut
<1>6. CASE o.op = "create"
  <2>1. id \notin DOMAIN T[k - 1] /\ Reads(T[k], id) /\ q = Whole(id, T[k][id])
    <3>1. /\ id \notin DOMAIN T[k - 1] /\ id \in DOMAIN T[k]
          /\ filter_op(log[k], i) =
               IF Reads(T[k], id) /\ Now(id, T[k][id]) THEN <<Whole(id, T[k][id])>> ELSE <<>>
      BY <1>1, <1>2, <1>6, OutCreate
    <3> QED BY <1>3, <1>4, <3>1
  <2> QED BY <1>1, <1>2, <1>5, <2>1 DEF SentWhole, Reads
<1>7. CASE o.op = "delete"
  <2>1. id \notin DOMAIN T[k] /\ q = [op |-> "delete", id |-> id]
    <3>1. /\ id \notin DOMAIN T[k]
          /\ filter_op(log[k], i) = <<>> \/ filter_op(log[k], i) = <<[op |-> "delete", id |-> id]>>
      BY <1>1, <1>2, <1>7, OutDelete
    <3> QED BY <1>3, <1>4, <3>1
  <2>2. q.op = "delete"
    BY <2>1
  <2> QED BY <1>1, <1>2, <2>1, <2>2 DEF Reads
<1>8. CASE o.op = "move"
  <2>1. filter_op(log[k], i) = FilterMove(o, s)
    BY <1>1, <1>8 DEF filter_op
  <2>2. q = o
    BY <1>3, <1>4, <2>1 DEF FilterMove
  <2> QED BY <1>1, <1>2, <1>8, <2>2
<1>9. CASE o.op = "update"
  <2>1. PICK doc : doc = T[m][id]
    OBVIOUS
  <2>2. PICK set : set = UpdateSet(o, s, doc)
    OBVIOUS
  <2>3. PICK last : last = last_update_idx_for_doc(log[k].ops, i)
    OBVIOUS
  <2>4. PICK same : same <=> id \in DOMAIN T[m] /\ doc.created = T[k - 1][id].created
    OBVIOUS
  <2>5. /\ same
        /\ \/ ~Reads(T[k], id) /\ filter_op(log[k], i) = <<[op |-> "delete", id |-> id]>>
           \/ /\ Reads(T[k], id) /\ ~Reads(T[k - 1], id)
              /\ filter_op(log[k], i) = <<Whole(id, doc)>>
           \/ /\ Reads(T[k], id) /\ Reads(T[k - 1], id) /\ Now(id, doc)
              /\ filter_op(log[k], i) = <<[op |-> "update", id |-> id, set |-> set]>>
    <3>1. /\ ~same => filter_op(log[k], i) = <<>>
          /\ same /\ Reads(T[k - 1], id) # Reads(T[k], id) /\ ~last => filter_op(log[k], i) = <<>>
          /\ same /\ Reads(T[k - 1], id) # Reads(T[k], id) /\ last /\ ~Reads(T[k], id)
             => filter_op(log[k], i) = <<[op |-> "delete", id |-> id]>>
          /\ same /\ Reads(T[k - 1], id) # Reads(T[k], id) /\ last /\ Reads(T[k], id)
             => filter_op(log[k], i) = IF Now(id, doc) THEN <<Whole(id, doc)>> ELSE <<>>
          /\ same /\ ~(Reads(T[k - 1], id) # Reads(T[k], id)) => filter_op(log[k], i) =
               IF Reads(T[k], id) /\ Now(id, doc)
               THEN <<[op |-> "update", id |-> id, set |-> set]>> ELSE <<>>
      <4>1. UpdateAt(T, k, m, i, o, s, id, doc) /\ Sure(T, k, m, id)
        BY <1>1, <1>2, <1>9, <2>1 DEF UpdateAt
      <4> QED BY <2>2, <2>3, <2>4, <4>1, OutUpdate
    <3>2. Reads(T[k], id) \in BOOLEAN /\ Reads(T[k - 1], id) \in BOOLEAN
      BY DEF Reads, has_read
    <3> QED BY <1>4, <3>1, <3>2
  <2>6. CASE q = [op |-> "delete", id |-> id] /\ ~Reads(T[k], id)
    <3>1. q.op = "delete"
      BY <2>6
    <3> QED BY <1>1, <1>2, <2>6, <3>1
  <2>7. CASE q = Whole(id, doc) /\ Reads(T[k], id) /\ ~Reads(T[k - 1], id)
    <3>1. q.op = "create"
      BY <1>5, <2>7
    <3> QED BY <1>1, <1>2, <2>1, <2>4, <2>5, <2>7, <3>1 DEF SentWhole
  <2>8. CASE /\ q = [op |-> "update", id |-> id, set |-> set]
             /\ Reads(T[k], id) /\ Reads(T[k - 1], id) /\ Now(id, doc)
    <3>1. q.op = "update" /\ q.set = set
      BY <2>8
    <3>2. SentUpdate(T, k, m, i, id, q)
      BY <1>1, <1>2, <1>9, <2>1, <2>2, <2>4, <2>5, <2>8, <3>1 DEF SentUpdate
    <3> QED BY <1>1, <1>2, <3>1, <3>2
  <2> QED BY <1>3, <2>5, <2>6, <2>7, <2>8
<1> QED BY <1>2, <1>6, <1>7, <1>8, <1>9 DEF Kinds

-----------------------------------------------------------------------------
(* A change of READ is sent, as a whole document or as a delete.           *)

LEMMA LastUpdate ==
  ASSUME NEW ops, IsSeq(ops), NEW id, Updated(ops, id)
  PROVE  \E i \in DOMAIN ops : On(ops[i], id, "update") /\ last_update_idx_for_doc(ops, i)
<1>1. PICK n \in Nat : n = Len(ops) /\ DOMAIN ops = 1..n
  BY SeqFacts
<1>2. PICK S : S = {j \in Nat : \E i \in j + 1..n : On(ops[i], id, "update")}
  OBVIOUS
<1>3. PICK i \in 1..n : On(ops[i], id, "update")
  BY <1>1, SeqFacts DEF Updated, On
<1>4. 0 \in S /\ n \notin S
  <2>1. i \in 0 + 1..n /\ n + 1..n = {}
    BY <1>3
  <2> QED BY <1>2, <1>3, <2>1
<1>5. PICK j \in 0 + 1..n : j - 1 \in S /\ j \notin S
  BY <1>4, Switch
<1>6. On(ops[j], id, "update") /\ \A x \in j + 1..n : ~On(ops[x], id, "update")
  <2>1. \A x \in j + 1..n : ~On(ops[x], id, "update")
    BY <1>2, <1>5
  <2>2. PICK x \in (j - 1) + 1..n : On(ops[x], id, "update")
    BY <1>2, <1>5
  <2>3. x = j \/ x \in j + 1..n
    OBVIOUS
  <2> QED BY <2>1, <2>2, <2>3
<1>7. j \in DOMAIN ops /\ ops[j].id = id
  BY <1>1, <1>6 DEF On
<1>8. last_update_idx_for_doc(ops, j)
  BY <1>1, <1>6, <1>7 DEF last_update_idx_for_doc, On
<1> QED BY <1>6, <1>7, <1>8

Steadily(T, n, k, id) == \A j \in k..n : Reads(T[j], id) <=> Reads(T[k], id)

LEMMA StaysOn ==
  ASSUME NEW T, NEW n, NEW k, NEW m, NEW t, Sending(T, n, k, m, t),
         NEW i \in DOMAIN log[k].ops, NEW id \in Ids, id = log[k].ops[i].id,
         ~Late(id, Missed), id \in DOMAIN T[k], Steadily(T, n, k, id)
  PROVE  \A j \in k..n : id \in DOMAIN T[j]
<1>1. SUFFICES ASSUME NEW b \in k..n, id \notin DOMAIN T[b] PROVE FALSE
  OBVIOUS
<1>2. PICK j \in k + 1..b : id \in DOMAIN T[j - 1] /\ id \notin DOMAIN T[j]
  BY <1>1, Leaves
<1>3. j \in k + 1..n /\ j - 1 \in k..n /\ k \in Nat /\ n \in Nat
  BY <1>1, Logged
<1>4. ~Reads(T[j - 1], id)
  <2>1. ~Reads(T[b], id)
    BY <1>1 DEF Reads
  <2> QED BY <1>1, <1>3, <2>1 DEF Steadily
<1>5. Waits(id, j) /\ j \in cursor + 2..Len(log) /\ Tells(id, j, log[j].ops, T[j - 1], T[j]) /\ cursor < j
  BY <1>3, WaitsFor
<1>6. Told(id, "unread", j)
  BY <1>2, <1>4, <1>5 DEF Tells
<1> QED BY <1>5, <1>6 DEF Late, Missed

LEMMA StaysOff ==
  ASSUME NEW T, NEW n, NEW k, NEW m, NEW t, Sending(T, n, k, m, t),
         NEW i \in DOMAIN log[k].ops, NEW id \in Ids, id = log[k].ops[i].id,
         ~Late(id, Missed), id \notin DOMAIN T[k], Steadily(T, n, k, id)
  PROVE  id \notin DOMAIN T[m]
<1>1. SUFFICES ASSUME id \in DOMAIN T[m] PROVE FALSE
  OBVIOUS
<1>2. m \in k..n /\ k \in Nat /\ n \in Nat
  BY Logged DEF Sending
<1>3. PICK j \in k + 1..m : id \notin DOMAIN T[j - 1] /\ id \in DOMAIN T[j]
  BY <1>1, <1>2, Returns
<1>4. j \in k + 1..n /\ j \in k..n
  BY <1>2
<1>5. ~Reads(T[j], id)
  <2>1. ~Reads(T[k], id)
    BY DEF Reads
  <2> QED BY <1>4, <2>1 DEF Steadily
<1>6. Waits(id, j) /\ j \in cursor + 2..Len(log) /\ Tells(id, j, log[j].ops, T[j - 1], T[j]) /\ cursor < j
  BY <1>4, WaitsFor
<1>7. Told(id, "reused", j)
  BY <1>3, <1>5, <1>6 DEF Tells
<1> QED BY <1>6, <1>7 DEF Late, Missed

LEMMA LevelNow ==
  ASSUME NEW T, NEW n, NEW k, NEW m, NEW t, Sending(T, n, k, m, t),
         NEW id, Settled(T, n, k, id), NEW j \in k..n, NEW doc
  PROVE  /\ has_read(id, doc.open, effective_owner(id, doc, actorsOf(T[j]))) <=> Now(id, doc)
         /\ id \in DOMAIN T[j] /\ doc = T[j][id] => (Reads(T[j], id) <=> Now(id, doc))
<1>1. effective_owner(id, doc, actorsOf(T[j])) = effective_owner(id, doc, ecs)
  BY DEF Settled
<1> QED BY <1>1 DEF Now, Reads, OwnerIn

LEMMA NotLate ==
  ASSUME NEW id, ~Late(id, Missed)
  PROVE  ~Late(id, {"reowned"})
BY DEF Late, Missed

LEMMA CameIn ==
  ASSUME NEW T, NEW n, NEW k, NEW m, NEW t, Sending(T, n, k, m, t), NEW id \in Ids,
         ~Late(id, Missed), ~Doubled(id, log[k].ops), id \notin DOMAIN T[k - 1], Reads(T[k], id)
  PROVE  \E i \in DOMAIN log[k].ops : WholeSent(log[k], i, id)
<1>1. PICK ops : ops = log[k].ops
  OBVIOUS
<1>2. Change(T[k - 1], T[k], ops, Len(ops)) /\ DOMAIN ops = 1..Len(ops) /\ k \in Nat /\ k \in k..n
  BY <1>1, Logged
<1>3. id \in DOMAIN T[k]
  BY DEF Reads
<1>4. PICK i \in DOMAIN ops : ops[i].id = id /\ ops[i].op = "create"
  BY <1>2, <1>3 DEF Change, Still, On
<1>5. Settled(T, n, k, id)
  BY <1>1, <1>4, Level, NotLate
<1>6. PICK doc : doc = T[k][id]
  OBVIOUS
<1>7. Now(id, doc)
  BY <1>2, <1>3, <1>5, <1>6, LevelNow
<1>8. filter_op(log[k], i) = <<Whole(id, doc)>>
  <2>1. filter_op(log[k], i) = IF Reads(T[k], id) /\ Now(id, doc) THEN <<Whole(id, doc)>> ELSE <<>>
    BY <1>1, <1>4, <1>6, OutCreate
  <2> QED BY <1>7, <2>1
<1>9. WholeSent(log[k], i, id)
  BY <1>8, WholeCut DEF WholeSent, Sent
<1> QED BY <1>1, <1>4, <1>9

LEMMA WentOut ==
  ASSUME NEW T, NEW n, NEW k, NEW m, NEW t, Sending(T, n, k, m, t), NEW id \in Ids,
         ~Late(id, Missed), ~Told(id, "reowned", k),
         id \notin DOMAIN T[k], Reads(T[k - 1], id), Steadily(T, n, k, id)
  PROVE  \E i \in DOMAIN log[k].ops : WholeSent(log[k], i, id)
<1>1. PICK ops : ops = log[k].ops
  OBVIOUS
<1>2. Change(T[k - 1], T[k], ops, Len(ops)) /\ DOMAIN ops = 1..Len(ops) /\ k \in Nat /\ k \in k..n
  BY <1>1, Logged
<1>3. id \in DOMAIN T[k - 1]
  BY DEF Reads
<1>4. PICK i \in DOMAIN ops : ops[i].id = id /\ ops[i].op = "delete"
  BY <1>2, <1>3 DEF Change, Still, On
<1>5. Settled(T, n, k, id) /\ id \notin DOMAIN T[m]
  BY <1>1, <1>4, Level, NotLate, StaysOff
<1>6. PICK doc : doc = T[k - 1][id]
  OBVIOUS
<1>7. ~Hands(id, T[k - 1], T[k])
  <2>1. Tells(id, k, ops, T[k - 1], T[k]) /\ cursor < k
    BY <1>1 DEF Sending, Recorded, EgressTyped
  <2> QED BY <2>1 DEF Tells
<1>8. has_read(id, doc.open, effective_owner(id, doc, actorsOf(T[k])))
  <2>1. has_read(id, doc.open, effective_owner(id, doc, actorsOf(T[k - 1])))
    BY <1>6 DEF Reads, OwnerIn
  <2>2. id \in Tokens => actorsOf(T[k - 1]) = actorsOf(T[k])
    BY <1>7 DEF Hands
  <2> QED BY <2>1, <2>2 DEF has_read
<1>9. Now(id, doc)
  BY <1>2, <1>5, <1>8, LevelNow
<1>10. PICK q : q = [op |-> "delete", id |-> id]
  OBVIOUS
<1>11. filter_op(log[k], i) = <<q>>
  BY <1>1, <1>4, <1>5, <1>6, <1>8, <1>9, <1>10, OutDelete
<1>12. q.op = "delete" /\ q.id = id
  BY <1>10
<1> QED BY <1>1, <1>4, <1>11, <1>12 DEF WholeSent, Sent

LEMMA Turned ==
  ASSUME NEW T, NEW n, NEW k, NEW m, NEW t, Sending(T, n, k, m, t), NEW id \in Ids,
         ~Late(id, Missed), ~Told(id, "reowned", k),
         id \in DOMAIN T[k - 1], id \in DOMAIN T[k],
         Reads(T[k - 1], id) # Reads(T[k], id), Steadily(T, n, k, id)
  PROVE  \E i \in DOMAIN log[k].ops : WholeSent(log[k], i, id)
<1>1. PICK ops : ops = log[k].ops
  OBVIOUS
<1>2. /\ Change(T[k - 1], T[k], ops, Len(ops)) /\ DOMAIN ops = 1..Len(ops) /\ IsSeq(ops)
      /\ k \in Nat /\ k \in k..n /\ m \in k..n /\ k \in 0..n /\ m \in 0..n /\ k <= m
      /\ n \in Nat /\ m \in Nat /\ m <= n
  BY <1>1, Logged
<1>3. Updated(ops, id)
  <2>1. SUFFICES ASSUME ~Updated(ops, id) PROVE FALSE
    OBVIOUS
  <2>2. Tells(id, k, ops, T[k - 1], T[k]) /\ cursor < k
    BY <1>1 DEF Sending, Recorded, EgressTyped
  <2>3. id \notin Tokens
    BY <2>1, <2>2 DEF Tells
  <2>4. Still(ops, id, "update", Len(ops))
    BY <1>2, <2>1, SeqFacts DEF Updated, Still, On
  <2>5. T[k][id].open = T[k - 1][id].open
    <3>1. Kept(ops, id, Len(ops), T[k - 1][id], T[k][id])
      BY <1>2 DEF Change
    <3> QED BY <2>4, <3>1 DEF Kept
  <2> QED BY <2>3, <2>5 DEF Reads, has_read
<1>4. PICK i \in DOMAIN ops : On(ops[i], id, "update") /\ last_update_idx_for_doc(ops, i)
  BY <1>2, <1>3, LastUpdate
<1>5. ops[i].id = id /\ ops[i].op = "update"
  BY <1>4 DEF On
<1>6. Settled(T, n, k, id) /\ \A j \in k..n : id \in DOMAIN T[j]
  BY <1>1, <1>5, Level, NotLate, StaysOn
<1>7. PICK doc : doc = T[m][id]
  OBVIOUS
<1>8. id \in DOMAIN T[m] /\ doc.created = T[k - 1][id].created
  <2>1. \A j \in k..m : id \in DOMAIN T[j]
    BY <1>2, <1>6
  <2>2. T[m][id].created = T[k][id].created
    BY <1>2, <2>1, OneLife
  <2>3. T[k][id].created = T[k - 1][id].created
    BY <1>1, <1>5, ChangeSnap
  <2> QED BY <1>2, <1>6, <1>7, <2>2, <2>3
<1>9. Reads(T[k], id) => Now(id, doc)
  <2>1. Reads(T[m], id) <=> Now(id, doc)
    BY <1>2, <1>6, <1>7, LevelNow
  <2> QED BY <1>2, <2>1 DEF Steadily
<1>10. PICK q : q = [op |-> "delete", id |-> id]
  OBVIOUS
<1>11. /\ ~Reads(T[k], id) => filter_op(log[k], i) = <<q>>
       /\ Reads(T[k], id) => filter_op(log[k], i) = IF Now(id, doc) THEN <<Whole(id, doc)>> ELSE <<>>
  <2>1. /\ last_update_idx_for_doc(log[k].ops, i) /\ i \in DOMAIN log[k].ops
        /\ log[k].ops[i].op = "update" /\ log[k].ops[i].id = id
    BY <1>1, <1>4, <1>5
  <2>2. Sending(T, n, k, m, t) /\ Reads(T[k - 1], id) # Reads(T[k], id)
    OBVIOUS
  <2>3. /\ ~Reads(T[k], id) => filter_op(log[k], i) = <<[op |-> "delete", id |-> id]>>
        /\ Reads(T[k], id) => filter_op(log[k], i) = IF Now(id, doc) THEN <<Whole(id, doc)>> ELSE <<>>
    <3>1. PICK o : o = log[k].ops[i] /\ o.op = "update" /\ id = o.id
      BY <2>1
    <3> QED BY <1>7, <1>8, <2>1, <2>2, <3>1, OutTurn
  <2> QED BY <1>10, <2>3
<1>12. CASE ~Reads(T[k], id)
  <2>1. q.op = "delete" /\ q.id = id
    BY <1>10
  <2> QED BY <1>1, <1>11, <1>12, <2>1 DEF WholeSent, Sent
<1>13. CASE Reads(T[k], id)
  <2>1. filter_op(log[k], i) = <<Whole(id, doc)>>
    BY <1>9, <1>11, <1>13
  <2> QED BY <1>1, <2>1, WholeCut DEF WholeSent, Sent
<1> QED BY <1>12, <1>13

LEMMA Crossing ==
  ASSUME NEW T, NEW n, NEW k, NEW m, NEW t, Sending(T, n, k, m, t), NEW id \in Ids,
         ~Late(id, Missed), ~Doubled(id, log[k].ops), ~Told(id, "reowned", k),
         Reads(T[k - 1], id) # Reads(T[k], id), Steadily(T, n, k, id)
  PROVE  \E i \in DOMAIN log[k].ops : WholeSent(log[k], i, id)
<1>1. CASE id \notin DOMAIN T[k - 1]
  <2>1. Reads(T[k], id)
    <3>1. ~Reads(T[k - 1], id) /\ Reads(T[k - 1], id) \in BOOLEAN /\ Reads(T[k], id) \in BOOLEAN
      BY <1>1 DEF Reads, has_read
    <3> QED BY <3>1
  <2> QED BY <1>1, <2>1, CameIn
<1>2. CASE id \notin DOMAIN T[k]
  <2>1. Reads(T[k - 1], id)
    <3>1. ~Reads(T[k], id) /\ Reads(T[k - 1], id) \in BOOLEAN /\ Reads(T[k], id) \in BOOLEAN
      BY <1>2 DEF Reads, has_read
    <3> QED BY <3>1
  <2> QED BY <1>2, <2>1, WentOut
<1>3. CASE id \in DOMAIN T[k - 1] /\ id \in DOMAIN T[k]
  BY <1>3, Turned
<1> QED BY <1>1, <1>2, <1>3

-----------------------------------------------------------------------------
(* The step that sends.  What is on record stays there, but for what a     *)
(* whole document or a delete settles.                                     *)
NoneWhole(c, id) == \A i \in DOMAIN c.ops : ~WholeSent(c, i, id)
Sends(c) ==
  /\ Filtered(c) /\ c = log[cursor + 1]
  /\ replica' = applyCommand(replica, filter_command(c))
  /\ cursor' = cursor + 1 /\ loaded' = <<>>
  /\ UNCHANGED <<world, docs, log, published, ecs, shown>>
  /\ \A l \in left : l.why \in Forever \/ ~(l.at <= cursor + 1) \/ NoneWhole(c, l.id) => l \in left'

LEMMA SendFacts ==
  ASSUME EgressTyped, send_filtered_event, NEW c, c = log[cursor + 1]
  PROVE  Sends(c)
<1>1. PICK ops : ops = filter_command(c)
  OBVIOUS
<1>2. PICK whole : whole = {o.id : o \in {p \in Range(ops) : p.op \in {"create", "delete"}}}
  OBVIOUS
<1>3. /\ loaded # <<>> /\ replica' = applyCommand(replica, ops)
      /\ left' = {l \in left : l.why \in Forever \/ ~(l.id \in whole /\ l.at <= cursor + 1)}
      /\ cursor' = cursor + 1 /\ loaded' = <<>>
      /\ UNCHANGED <<world, docs, log, published, ecs, shown>>
  BY <1>1, <1>2, Zenon DEF send_filtered_event
<1>4. EntryShape(c)
  <2>1. cursor + 1 \in 1..Len(log)
    BY <1>3, SeqFacts DEF EgressTyped
  <2> QED BY <2>1 DEF EgressTyped
<1>5. Filtered(c)
  BY <1>4, FilteredEntry
<1>6. ASSUME NEW id \in whole PROVE ~NoneWhole(c, id)
  <2>1. PICK p \in Range(ops) : p.op \in {"create", "delete"} /\ id = p.id
    BY <1>2, <1>6
  <2>2. PICK i \in DOMAIN c.ops : Sent(c, i, p)
    BY <1>1, <1>5, <2>1, Played
  <2> QED BY <2>1, <2>2 DEF NoneWhole, WholeSent
<1>7. \A l \in left : l.why \in Forever \/ ~(l.at <= cursor + 1) \/ NoneWhole(c, l.id) => l \in left'
  BY <1>3, <1>6
<1> QED BY <1>1, <1>3, <1>5, <1>7 DEF Sends

LEMMA ToldKept ==
  ASSUME NEW c, Sends(c), NEW id, NEW why, NEW k,
         why \in Forever \/ ~(k <= cursor + 1) \/ NoneWhole(c, id), Told(id, why, k)
  PROVE  Told(id, why, k)' /\ \A whys : why \in whys => Excused(id, whys)'
<1>1. PICK l \in left : l = [id |-> id, why |-> why, at |-> k]
  BY DEF Told
<1>2. l.id = id /\ l.why = why /\ l.at = k
  BY <1>1
<1>3. l \in left'
  BY <1>1, <1>2 DEF Sends
<1> QED BY <1>1, <1>2, <1>3 DEF Told, Excused

LEMMA ExcusedKept ==
  ASSUME NEW c, Sends(c), NEW id, NoneWhole(c, id), NEW whys, Excused(id, whys)
  PROVE  Excused(id, whys)'
<1>1. PICK l \in left : l.id = id /\ l.why \in whys
  BY DEF Excused
<1>2. l \in left'
  BY <1>1 DEF Sends
<1> QED BY <1>1, <1>2 DEF Excused

LEMMA SendingAt ==
  ASSUME EgressTyped, send_filtered_event, NEW T, Mirrors(T)
  PROVE  \E n, k, m, t : Sending(T, n, k, m, t) /\ Sends(log[k])
<1>1. loaded # <<>>
  BY Zenon DEF send_filtered_event
<1>2. /\ Len(log) \in Nat /\ cursor \in Nat /\ published \in Nat
      /\ cursor < published /\ published <= Len(log)
  BY <1>1, SeqFacts DEF EgressTyped
<1>3. PICK n, k : n = Len(log) /\ k = cursor + 1
  OBVIOUS
<1>4. n \in Nat /\ k \in 1..n /\ published \in k..n
  BY <1>2, <1>3
<1>5. PICK m \in cursor + 1..Len(log) : current = T[m]
  BY <1>1 DEF Mirrors, History
<1>6. MadeOf(T[k - 1], T[k], log[k], k)
  BY <1>3, <1>4 DEF Mirrors, History
<1>7. PICK t : t.docs = T[k] /\ Made(T[k - 1], t, log[k], k)
  BY <1>6 DEF MadeOf
<1>8. ecs = actorsOf(T[published])
  BY DEF Mirrors, History
<1>9. Sending(T, n, k, m, t)
  BY <1>3, <1>4, <1>5, <1>7, <1>8 DEF Sending, Mirrors
<1>10. Sends(log[k])
  BY <1>3, SendFacts
<1> QED BY <1>9, <1>10

(* What a command not sent yet has told stays told, and what is told for   *)
(* ever.                                                                   *)
LEMMA StillTold ==
  ASSUME NEW T, NEW n, NEW k, NEW m, NEW t, Sending(T, n, k, m, t), Sends(log[k]),
         NEW id \in Ids, NEW whys, ~Excused(id, whys)'
  PROVE  /\ ~Late(id, whys)
         /\ "twice" \in whys => ~Doubled(id, log[k].ops)
         /\ "mixed" \in whys => \A j \in 1..n : ~Hands(id, T[j - 1], T[j])
         /\ NoneWhole(log[k], id) => ~Excused(id, whys) /\ \A why \in whys : ~Told(id, why, k)
<1>1. n \in Nat /\ n = Len(log) /\ k = cursor + 1 /\ k \in 1..n /\ cursor \in Nat
  BY DEF Sending, EgressTyped
<1>2. ~Late(id, whys)
  <2>1. ASSUME NEW why \in whys, NEW j \in cursor + 2..n, Told(id, why, j) PROVE FALSE
    <3>1. ~(j <= cursor + 1)
      BY <1>1
    <3> QED BY <2>1, <3>1, ToldKept
  <2> QED BY <1>1, <2>1 DEF Late
<1>3. \A j \in 1..n : Tells(id, j, log[j].ops, T[j - 1], T[j])
  BY <1>1 DEF Sending, Recorded
<1>4. "twice" \in whys => ~Doubled(id, log[k].ops)
  <2>1. "twice" \in Forever
    BY DEF Forever
  <2>2. "twice" \in whys => ~Told(id, "twice", k)
    BY <2>1, ToldKept
  <2> QED BY <1>1, <1>3, <2>2 DEF Tells
<1>5. ASSUME "mixed" \in whys, NEW j \in 1..n, Hands(id, T[j - 1], T[j]) PROVE FALSE
  <2>1. "mixed" \in Forever
    BY DEF Forever
  <2>2. Told(id, "mixed", j)
    BY <1>3, <1>5 DEF Tells
  <2> QED BY <1>5, <2>1, <2>2, ToldKept
<1>6. ASSUME NoneWhole(log[k], id) PROVE ~Excused(id, whys) /\ \A why \in whys : ~Told(id, why, k)
  BY <1>6, ExcusedKept, ToldKept
<1> QED BY <1>2, <1>4, <1>5, <1>6

LEMMA PresenceSent ==
  ASSUME NEW T, NEW n, NEW k, NEW m, NEW t, Sending(T, n, k, m, t), Sends(log[k]),
         NEW id \in Ids, Presence(T, id)
  PROVE  Presence(T, id)'
<1>1. /\ n \in Nat /\ n = Len(log) /\ k = cursor + 1 /\ k \in 1..n /\ k \in k..n /\ cursor \in Nat
      /\ cursor' = k /\ Len(log)' = n
  <2>1. n \in Nat /\ n = Len(log) /\ k = cursor + 1 /\ k \in 1..n /\ cursor \in Nat
    BY DEF Sending, EgressTyped
  <2> QED BY <2>1 DEF Sends
<1>2. SUFFICES ASSUME ~Excused(id, Missed)', \A j \in k..n : ~(id \in DOMAIN replica' <=> Reads(T[j], id))
               PROVE FALSE
  BY <1>1 DEF Presence
<1>3. "twice" \in Missed /\ "reowned" \in Missed
  BY DEF Missed
<1>4. /\ ~Late(id, Missed) /\ ~Doubled(id, log[k].ops)
      /\ NoneWhole(log[k], id) => ~Excused(id, Missed) /\ ~Told(id, "reowned", k)
  BY <1>2, <1>3, StillTold
<1>5. \A j : Reads(T[j], id) \in BOOLEAN
  BY DEF Reads, has_read
<1>6. Steadily(T, n, k, id)
  BY <1>1, <1>2, <1>5 DEF Steadily
<1>7. PICK c, after : c = log[k] /\ Filtered(c) /\ after = applyCommand(replica, filter_command(c)) /\ replica' = after
  BY <1>1 DEF Sends
<1>8. CASE NoneWhole(log[k], id)
  <2>1. id \in DOMAIN after <=> id \in DOMAIN replica
    BY <1>7, <1>8, PresenceAfter DEF NoneWhole
  <2>2. PICK j \in cursor..n : id \in DOMAIN replica <=> Reads(T[j], id)
    BY <1>1, <1>4, <1>8 DEF Presence
  <2>3. j = k - 1
    <3>1. j = cursor \/ j \in k..n
      BY <1>1
    <3> QED BY <1>1, <1>2, <1>7, <2>1, <2>2, <3>1
  <2>4. Reads(T[k - 1], id) # Reads(T[k], id)
    BY <1>1, <1>2, <1>5, <1>7, <2>1, <2>2, <2>3
  <2>5. \E i \in DOMAIN log[k].ops : WholeSent(log[k], i, id)
    BY <1>4, <1>6, <1>8, <2>4, Crossing
  <2> QED BY <1>8, <2>5 DEF NoneWhole
<1>9. CASE ~NoneWhole(log[k], id)
  <2>1. \E i \in DOMAIN c.ops : WholeSent(c, i, id)
    BY <1>7, <1>9 DEF NoneWhole
  <2>2. ASSUME NEW i \in DOMAIN c.ops, NEW q, Sent(c, i, q), q.id = id
        PROVE  /\ q.op = "create" => Reads(T[k], id)
               /\ q.op = "delete" => ~Reads(T[k], id)
    <3>1. i \in DOMAIN log[k].ops /\ Sent(log[k], i, q) /\ log[k].ops[i].id = id
      BY <1>7, <2>2, SentOf
    <3>2. Sure(T, k, m, id)
      BY <1>4, <1>6, <3>1, StaysOff DEF Sure
    <3> QED BY <1>4, <2>2, <3>1, <3>2, SentIs DEF SentWhole
  <2>3. CASE Reads(T[k], id)
    <3>1. \A i \in DOMAIN c.ops : \A q : Sent(c, i, q) /\ q.id = id => q.op # "delete"
      BY <2>2, <2>3
    <3>2. id \in DOMAIN after
      BY <1>7, <2>1, <3>1, PresenceAfter
    <3> QED BY <1>1, <1>2, <1>7, <2>3, <3>2
  <2>4. CASE ~Reads(T[k], id)
    <3>1. \A i \in DOMAIN c.ops : \A q : Sent(c, i, q) /\ q.id = id => q.op # "create"
      BY <2>2, <2>4
    <3>2. id \notin DOMAIN after
      BY <1>7, <2>1, <3>1, PresenceAfter
    <3> QED BY <1>1, <1>2, <1>7, <2>4, <3>2
  <2> QED BY <2>3, <2>4
<1> QED BY <1>8, <1>9

-----------------------------------------------------------------------------
(* What the player has of a document he reads from this command on, where  *)
(* nothing excuses it.                                                     *)
Fair(T, n, k, id) ==
  /\ id \in Ids /\ Readable(T, id, k, n)
  /\ ~Late(id, Missed) /\ ~Doubled(id, log[k].ops)
  /\ \A j \in 1..n : ~Hands(id, T[j - 1], T[j])
  /\ NoneWhole(log[k], id) => ~Excused(id, Losses) /\ \A why \in Losses : ~Told(id, why, k)

LEMMA FairWhen ==
  ASSUME NEW T, NEW n, NEW k, NEW m, NEW t, Sending(T, n, k, m, t), Sends(log[k]),
         NEW id \in Ids, Readable(T, id, k, n), ~Excused(id, Losses)'
  PROVE  Fair(T, n, k, id)
<1>1. Missed \subseteq Losses /\ "twice" \in Losses /\ "mixed" \in Losses
  BY DEF Missed, Losses, Forever
<1>2. ~Late(id, Losses) => ~Late(id, Missed)
  BY <1>1 DEF Late
<1> QED BY <1>1, <1>2, StillTold DEF Fair

(* Its actors are those of the scene.                                      *)
LEMMA Steady ==
  ASSUME NEW T, NEW n, NEW k, NEW m, NEW t, Sending(T, n, k, m, t), NEW id, Fair(T, n, k, id),
         NEW j \in k - 1..n, NEW doc
  PROVE  effective_owner(id, doc, actorsOf(T[j])) = effective_owner(id, doc, ecs)
<1>1. /\ n \in Nat /\ k \in Nat /\ k \in 1..n /\ published \in k..n /\ ecs = actorsOf(T[published])
  BY DEF Sending
<1>2. CASE id \notin Tokens
  BY <1>2 DEF effective_owner
<1>3. CASE id \in Tokens
  <2>1. PICK S : S = {x \in 0..n : actorsOf(T[x]) = actorsOf(T[k - 1])}
    OBVIOUS
  <2>2. ASSUME NEW b \in k - 1..n, b \notin S PROVE FALSE
    <3>1. PICK a \in Nat : a = k - 1 /\ a \in S /\ a <= b
      <4>1. k - 1 \in Nat /\ k - 1 \in 0..n /\ k - 1 <= b
        BY <1>1
      <4> QED BY <2>1, <4>1
    <3>2. b \in Nat /\ b <= n
      BY <1>1
    <3>3. PICK x \in a + 1..b : x - 1 \in S /\ x \notin S
      BY <2>2, <3>1, <3>2, Switch
    <3>4. x \in 1..n /\ x \in 0..n
      BY <1>1, <3>1, <3>2
    <3>5. Hands(id, T[x - 1], T[x])
      BY <1>3, <2>1, <3>3, <3>4 DEF Hands
    <3> QED BY <3>4, <3>5 DEF Fair
  <2>3. j \in S /\ published \in S
    <3>1. published \in k - 1..n
      BY <1>1
    <3> QED BY <2>2, <3>1
  <2>4. actorsOf(T[j]) = ecs
    BY <1>1, <2>1, <2>3
  <2> QED BY <2>4
<1> QED BY <1>2, <1>3

LEMMA SteadySees ==
  ASSUME NEW T, NEW n, NEW k, NEW m, NEW t, Sending(T, n, k, m, t), NEW id, Fair(T, n, k, id),
         NEW j \in k - 1..n, id \in DOMAIN T[j], NEW doc, doc = T[j][id]
  PROVE  /\ Reads(T[j], id) <=> Now(id, doc)
         /\ Sees(T[j], id) <=> Reads(T[j], id) /\ can_see(doc.tier, effective_owner(id, doc, ecs))
         /\ OwnerIn(T[j], id) = effective_owner(id, doc, ecs)
<1>1. OwnerIn(T[j], id) = effective_owner(id, doc, ecs)
  BY Steady DEF OwnerIn
<1> QED BY <1>1 DEF Reads, Sees, Now

LEMMA Onward ==
  ASSUME NEW T, NEW n, NEW k, NEW m, NEW t, Sending(T, n, k, m, t), NEW id, Fair(T, n, k, id)
  PROVE  /\ \A j \in k..n : id \in DOMAIN T[j] /\ Reads(T[j], id)
         /\ T[m][id].created = T[k][id].created
<1>1. \A j \in k..n : id \in DOMAIN T[j] /\ Reads(T[j], id)
  BY DEF Fair, Readable, Reads
<1>2. /\ k \in 0..n /\ m \in 0..n /\ k <= m /\ m <= n /\ k \in Nat /\ m \in Nat /\ n \in Nat
  BY Logged
<1>3. \A j \in k..m : j \in k..n
  BY <1>2
<1>4. T[m][id].created = T[k][id].created
  BY <1>1, <1>2, <1>3, OneLife
<1> QED BY <1>1, <1>4

LEMMA FairSure ==
  ASSUME NEW T, NEW n, NEW k, NEW m, NEW t, Sending(T, n, k, m, t), NEW id, Fair(T, n, k, id)
  PROVE  Sure(T, k, m, id)
<1>1. k \in k..n
  BY Logged
<1> QED BY <1>1, Onward DEF Sure

(* Commands that leave a field alone.                                      *)
LEMMA Calm ==
  ASSUME NEW T, NEW n, NEW k, NEW m, NEW t, Sending(T, n, k, m, t), NEW id, Fair(T, n, k, id),
         NEW b \in k..n
  PROVE  /\ Unmoved(id, k + 1, n) => T[b][id].parent = T[k][id].parent
         /\ Unwritten(id, k + 1, n) => T[b][id].val = T[k][id].val
<1>1. k \in Nat /\ n \in Nat /\ k \in 0..n /\ b \in Nat /\ k <= b /\ b <= n /\ k \in 1..n
  BY Logged DEF Sending
<1>2. ASSUME NEW j \in k + 1..n
      PROVE  Kept(log[j].ops, id, Len(log[j].ops), T[j - 1][id], T[j][id])
  <2>1. j \in 1..n /\ j \in k..n /\ j - 1 \in k..n
    BY <1>1
  <2>2. MadeOf(T[j - 1], T[j], log[j], j)
    BY <2>1 DEF Sending, History
  <2>3. Change(T[j - 1], T[j], log[j].ops, Len(log[j].ops))
    BY <2>2 DEF MadeOf, Made
  <2>4. id \in DOMAIN T[j - 1] /\ id \in DOMAIN T[j]
    BY <2>1, Onward
  <2> QED BY <2>3, <2>4 DEF Change
<1>3. ASSUME Unmoved(id, k + 1, n), T[b][id].parent # T[k][id].parent PROVE FALSE
  <2>1. PICK S : S = {j \in 0..n : T[j][id].parent = T[k][id].parent}
    OBVIOUS
  <2>2. k \in S /\ b \notin S
    BY <1>1, <1>3, <2>1
  <2>3. PICK j \in k + 1..b : j - 1 \in S /\ j \notin S
    BY <1>1, <2>2, Switch
  <2>4. j \in k + 1..n /\ j \in 0..n
    BY <1>1
  <2>5. T[j][id].parent = T[j - 1][id].parent
    BY <1>2, <1>3, <2>4 DEF Kept, Unmoved
  <2> QED BY <2>1, <2>3, <2>4, <2>5
<1>4. ASSUME Unwritten(id, k + 1, n), T[b][id].val # T[k][id].val PROVE FALSE
  <2>1. PICK S : S = {j \in 0..n : T[j][id].val = T[k][id].val}
    OBVIOUS
  <2>2. k \in S /\ b \notin S
    BY <1>1, <1>4, <2>1
  <2>3. PICK j \in k + 1..b : j - 1 \in S /\ j \notin S
    BY <1>1, <2>2, Switch
  <2>4. j \in k + 1..n /\ j \in 0..n
    BY <1>1
  <2>5. T[j][id].val = T[j - 1][id].val
    BY <1>2, <1>4, <2>4 DEF Kept, Unwritten
  <2> QED BY <2>1, <2>3, <2>4, <2>5
<1> QED BY <1>3, <1>4

LEMMA NoCreate ==
  ASSUME NEW T, NEW n, NEW k, NEW m, NEW t, Sending(T, n, k, m, t), NEW id, Fair(T, n, k, id),
         Reads(T[k - 1], id)
  PROVE  NoneWhole(log[k], id)
<1>1. ASSUME NEW i \in DOMAIN log[k].ops, NEW q, Sent(log[k], i, q), q.id = id, q.op \in {"create", "delete"}
      PROVE  FALSE
  <2>1. ~Doubled(id, log[k].ops) /\ Sure(T, k, m, id)
    BY FairSure DEF Fair
  <2>2. /\ q.op = "create" => SentWhole(T, k, m, id, q)
        /\ q.op = "delete" => ~Reads(T[k], id)
    BY <1>1, <2>1, SentIs
  <2>3. Reads(T[k], id)
    <3>1. k \in k..n
      BY Logged
    <3> QED BY <3>1, Onward
  <2> QED BY <1>1, <2>2, <2>3 DEF SentWhole
<1> QED BY <1>1 DEF NoneWhole, WholeSent

LEMMA SomeCreate ==
  ASSUME NEW T, NEW n, NEW k, NEW m, NEW t, Sending(T, n, k, m, t), NEW id, Fair(T, n, k, id),
         ~Reads(T[k - 1], id)
  PROVE  \E i \in DOMAIN log[k].ops : \E q : Sent(log[k], i, q) /\ q.id = id /\ q.op = "create"
<1>1. k \in k..n
  BY Logged
<1>2. Reads(T[k], id) /\ Steadily(T, n, k, id)
  BY <1>1, Onward DEF Steadily
<1>3. ~NoneWhole(log[k], id)
  <2>1. SUFFICES ASSUME NoneWhole(log[k], id) PROVE FALSE
    OBVIOUS
  <2>2. "reowned" \in Losses
    BY DEF Losses
  <2>3. ~Late(id, Missed) /\ ~Doubled(id, log[k].ops) /\ ~Told(id, "reowned", k) /\ id \in Ids
    BY <2>1, <2>2 DEF Fair
  <2>4. Reads(T[k - 1], id) # Reads(T[k], id)
    BY <1>2
  <2>5. \E i \in DOMAIN log[k].ops : WholeSent(log[k], i, id)
    BY <1>2, <2>3, <2>4, Crossing
  <2> QED BY <2>1, <2>5 DEF NoneWhole
<1>4. PICK i \in DOMAIN log[k].ops : WholeSent(log[k], i, id)
  BY <1>3 DEF NoneWhole
<1>5. PICK q : Sent(log[k], i, q) /\ q.id = id /\ q.op \in {"create", "delete"}
  BY <1>4 DEF WholeSent
<1>6. ~Doubled(id, log[k].ops) /\ Sure(T, k, m, id)
  BY FairSure DEF Fair
<1>7. q.op = "delete" => ~Reads(T[k], id)
  BY <1>5, <1>6, SentIs
<1> QED BY <1>2, <1>5, <1>7

LEMMA OldRight ==
  ASSUME NEW T, NEW n, NEW k, NEW m, NEW t, Sending(T, n, k, m, t), Sends(log[k]),
         NEW id, Fair(T, n, k, id), Faithful(T, id), id \in DOMAIN replica', Reads(T[k - 1], id)
  PROVE  /\ id \in DOMAIN replica /\ Right(T, id) /\ \A why \in Losses : ~Told(id, why, k)
<1>1. NoneWhole(log[k], id)
  BY NoCreate
<1>2. id \in DOMAIN replica
  <2>1. PICK c : c = log[k] /\ Filtered(c) /\ replica' = applyCommand(replica, filter_command(c))
    BY DEF Sends, Sending
  <2> QED BY <1>1, <2>1, PresenceAfter DEF NoneWhole
<1>3. Readable(T, id, cursor, Len(log))
  <2>1. n = Len(log) /\ k = cursor + 1 /\ cursor \in Nat /\ n \in Nat
    BY DEF Sending, EgressTyped
  <2>2. \A j \in cursor..n : j = k - 1 \/ j \in k..n
    BY <2>1
  <2> QED BY <2>1, <2>2, Onward DEF Readable
<1>4. ~Excused(id, Losses) /\ \A why \in Losses : ~Told(id, why, k)
  BY <1>1 DEF Fair
<1> QED BY <1>2, <1>3, <1>4 DEF Faithful

(* A whole document is sent as it is now, where nothing changes it later.  *)
LEMMA WholeAsNow ==
  ASSUME NEW T, NEW n, NEW k, NEW m, NEW t, Sending(T, n, k, m, t), NEW id, Fair(T, n, k, id),
         NEW i \in DOMAIN log[k].ops, NEW q, Sent(log[k], i, q), q.id = id, q.op = "create"
  PROVE  /\ Unmoved(id, k + 1, n) => q.doc.parent = T[n][id].parent
         /\ Visibly(T, id, k, n) /\ Unwritten(id, k + 1, n) => q.doc.val = T[n][id].val
         /\ Hidden(T, id, k, n) => q.doc.val = Null
<1>1. SentWhole(T, k, m, id, q)
  <2>1. ~Doubled(id, log[k].ops) /\ Sure(T, k, m, id)
    BY FairSure DEF Fair
  <2> QED BY <2>1, SentIs
<1>2. PICK j \in {k, m} : q = Whole(id, T[j][id])
  BY <1>1 DEF SentWhole
<1>3. j \in k..n /\ n \in k..n /\ j \in k - 1..n
  <2>1. k \in k..n /\ m \in k..n /\ k \in Nat /\ n \in Nat /\ k <= n
    BY Logged
  <2>2. j \in k..n
    BY <2>1
  <2> QED BY <2>1, <2>2
<1>4. PICK doc : doc = T[j][id]
  OBVIOUS
<1>5. /\ q.doc.parent = doc.parent
      /\ q.doc.val = IF can_see(doc.tier, effective_owner(id, doc, ecs)) THEN doc.val ELSE Null
  BY <1>2, <1>4, WholeCut
<1>6. Reads(T[j], id) /\ id \in DOMAIN T[j]
  BY <1>3, Onward
<1>7. Sees(T[j], id) <=> can_see(doc.tier, effective_owner(id, doc, ecs))
  BY <1>3, <1>4, <1>6, SteadySees
<1>8. Unmoved(id, k + 1, n) => doc.parent = T[n][id].parent
  BY <1>3, <1>4, Calm
<1>9. Unwritten(id, k + 1, n) => doc.val = T[n][id].val
  BY <1>3, <1>4, Calm
<1> QED BY <1>3, <1>5, <1>7, <1>8, <1>9 DEF Visibly, Hidden

LEMMA MoveAsIs ==
  ASSUME NEW T, NEW n, NEW k, NEW m, NEW t, Sending(T, n, k, m, t), NEW id, Fair(T, n, k, id),
         NEW i \in DOMAIN log[k].ops, On(log[k].ops[i], id, "move")
  PROVE  Sent(log[k], i, log[k].ops[i])
<1>1. PICK o, s : o = log[k].ops[i] /\ s = log[k].per_op[i]
  OBVIOUS
<1>2. o.op = "move" /\ id = o.id
  BY <1>1 DEF On
<1>3. /\ m \in k..n /\ k \in k..n /\ m \in k - 1..n
  <2>1. k \in k..n /\ m \in k..n /\ k \in Nat /\ n \in Nat
    BY Logged
  <2> QED BY <2>1
<1>4. Reads(T[k], id) /\ id \in DOMAIN T[k] /\ id \in DOMAIN T[m] /\ Reads(T[m], id) /\ T[m][id].created = T[k][id].created
  BY <1>3, Onward
<1>5. T[k][id].created = T[k - 1][id].created
  <2>1. id \in DOMAIN T[k - 1]
    <3>1. Batch(log[k].ops, T[k - 1], k)
      BY Logged
    <3> QED BY <1>1, <1>2, <3>1 DEF Batch, OpOK
  <2>2. k \in 1..n
    BY DEF Sending
  <2> QED BY <1>4, <2>1, <2>2, Descent
<1>6. Now(id, T[m][id])
  BY <1>3, <1>4, SteadySees
<1> QED BY <1>1, <1>2, <1>4, <1>5, <1>6, OutMove

LEMMA ParentSent ==
  ASSUME NEW T, NEW n, NEW k, NEW m, NEW t, Sending(T, n, k, m, t), Sends(log[k]), Shaped(replica),
         NEW id, Fair(T, n, k, id), Faithful(T, id), id \in DOMAIN replica', Unmoved(id, k + 1, n)
  PROVE  replica'[id].parent = T[n][id].parent
<1>1. PICK c, after, p : /\ c = log[k] /\ Filtered(c) /\ after = applyCommand(replica, filter_command(c))
                         /\ replica' = after /\ p = T[n][id].parent
  BY DEF Sends, Sending
<1>2. PICK ops : ops = log[k].ops /\ Len(ops) \in Nat /\ DOMAIN ops = 1..Len(ops)
                 /\ Batch(ops, T[k - 1], k) /\ Change(T[k - 1], T[k], ops, Len(ops))
  BY Logged
<1>3. k \in k..n /\ n \in k..n /\ k \in Nat /\ n \in Nat
  <2>1. k \in k..n /\ k \in Nat /\ n \in Nat /\ k <= n
    BY Logged
  <2> QED BY <2>1
<1>4. T[k][id].parent = p
  BY <1>1, <1>3, Calm
<1>5. ~Doubled(id, log[k].ops) /\ id \in DOMAIN T[k] /\ Sure(T, k, m, id)
  BY <1>3, Onward, FairSure DEF Fair
<1>6. ASSUME NEW a \in Nat, \A i \in a + 1..Len(ops) : ~On(ops[i], id, "move"),
             NEW i \in DOMAIN c.ops, a < i, NEW q, Sent(c, i, q)
      PROVE  Agrees(q, id, "parent", p)
  <2>1. SUFFICES ASSUME q.id = id
                 PROVE  (q.op = "create" => q.doc.parent = p) /\ q.op # "move"
    BY DEF Agrees
  <2>2. i \in DOMAIN log[k].ops /\ Sent(log[k], i, q)
    BY <1>1, <1>6
  <2>3. q.op = "create" => q.doc.parent = p
    BY <1>1, <2>1, <2>2, WholeAsNow
  <2>4. q.op = "move" => q = ops[i]
    <3>1. /\ log[k].ops[i].id = id
          /\ q.op = "create" => SentWhole(T, k, m, id, q)
          /\ q.op = "delete" => ~Reads(T[k], id)
          /\ q.op = "update" => SentUpdate(T, k, m, i, id, q)
          /\ q.op = "move" => q = log[k].ops[i]
      BY ONLY Sending(T, n, k, m, t), <1>5, <2>1, <2>2, SentIs
    <3> QED BY <1>2, <3>1
  <2>5. ~On(ops[i], id, "move")
    BY <1>1, <1>2, <1>6
  <2> QED BY <2>1, <2>3, <2>4, <2>5 DEF On
<1>7. ASSUME NEW a \in Nat, Anchor(c, a, replica, id, "parent", p),
             \A i \in a + 1..Len(ops) : ~On(ops[i], id, "move")
      PROVE  Holds(after, id, "parent", p)
  <2>1. \A i \in DOMAIN c.ops : a < i => \A q : Sent(c, i, q) => Agrees(q, id, "parent", p)
    BY <1>6, <1>7
  <2> QED BY <1>1, <1>7, <2>1, FieldAfter
<1>8. CASE \E j \in 1..Len(ops) : /\ On(ops[j], id, "move") /\ T[k][id].parent = ops[j].parent
                                  /\ \A i \in j + 1..Len(ops) : ~On(ops[i], id, "move")
  <2>1. PICK j \in 1..Len(ops) : /\ On(ops[j], id, "move") /\ T[k][id].parent = ops[j].parent
                                 /\ \A i \in j + 1..Len(ops) : ~On(ops[i], id, "move")
    BY <1>8
  <2>2. Sent(c, j, ops[j])
    BY <1>1, <1>2, <2>1, MoveAsIs
  <2>3. Writes(ops[j], id, "parent", p)
    BY <1>4, <2>1 DEF Writes, On
  <2>4. Anchor(c, j, replica, id, "parent", p)
    BY <1>1, <1>2, <2>2, <2>3 DEF Anchor
  <2>5. Holds(after, id, "parent", p)
    BY <1>2, <1>7, <2>1, <2>4
  <2> QED BY <1>1, <2>5 DEF Holds
<1>9. CASE Still(ops, id, "move", Len(ops)) /\ Reads(T[k - 1], id)
  <2>1. id \in DOMAIN replica /\ Right(T, id)
    BY <1>9, OldRight
  <2>2. Unmoved(id, cursor + 1, Len(log))
    <3>1. n = Len(log) /\ k = cursor + 1 /\ cursor \in Nat
      BY DEF Sending, EgressTyped
    <3>2. \A j \in cursor + 1..Len(log) : j = k \/ j \in k + 1..n
      BY <3>1
    <3> QED BY <1>2, <1>9, <3>2 DEF Unmoved
  <2>3. replica[id].parent = p
    BY <1>1, <2>1, <2>2 DEF Right, Sending, History
  <2>4. Anchor(c, 0, replica, id, "parent", p)
    BY <2>3 DEF Anchor, Holds
  <2>5. \A i \in 0 + 1..Len(ops) : ~On(ops[i], id, "move")
    BY <1>9 DEF Still
  <2>6. Holds(after, id, "parent", p)
    BY <1>7, <2>4, <2>5
  <2> QED BY <1>1, <2>6 DEF Holds
<1>10. CASE Still(ops, id, "move", Len(ops)) /\ ~Reads(T[k - 1], id)
  <2>1. PICK i \in DOMAIN log[k].ops : \E q : Sent(log[k], i, q) /\ q.id = id /\ q.op = "create"
    BY <1>10, SomeCreate
  <2>2. PICK q : Sent(log[k], i, q) /\ q.id = id /\ q.op = "create"
    BY <2>1
  <2>3. q.doc.parent = p
    BY <1>1, <2>2, WholeAsNow
  <2>4. Anchor(c, i, replica, id, "parent", p)
    BY <1>1, <2>2, <2>3 DEF Anchor, Writes
  <2>5. i \in Nat /\ \A x \in i + 1..Len(ops) : ~On(ops[x], id, "move")
    <3>1. i \in 1..Len(ops)
      BY <1>2
    <3>2. \A x \in i + 1..Len(ops) : x \in 1..Len(ops)
      BY <1>2, <3>1
    <3> QED BY <1>10, <3>1, <3>2 DEF Still
  <2>6. Holds(after, id, "parent", p)
    BY <1>7, <2>4, <2>5
  <2> QED BY <1>1, <2>6 DEF Holds
<1>11. \/ Still(ops, id, "move", Len(ops))
       \/ \E j \in 1..Len(ops) : /\ On(ops[j], id, "move") /\ T[k][id].parent = ops[j].parent
                                 /\ \A i \in j + 1..Len(ops) : ~On(ops[i], id, "move")
  <2>1. CASE id \in DOMAIN T[k - 1]
    <3>1. Kept(ops, id, Len(ops), T[k - 1][id], T[k][id])
      BY <1>2, <1>5, <2>1 DEF Change
    <3>2. Still(ops, id, "move", Len(ops)) \/ LastMove(ops, id, Len(ops), T[k][id].parent)
      BY <3>1 DEF Kept
    <3> QED BY <3>2 DEF LastMove
  <2>2. CASE id \notin DOMAIN T[k - 1]
    <3>1. \A j \in 1..Len(ops) : ~On(ops[j], id, "move")
      BY <1>2, <2>2 DEF Batch, OpOK, On
    <3> QED BY <3>1 DEF Still
  <2> QED BY <2>1, <2>2
<1> QED BY <1>8, <1>9, <1>10, <1>11

LEMMA SetVal ==
  ASSUME NEW o, NEW s, NEW doc, NEW set, set = UpdateSet(o, s, doc)
  PROVE  /\ retracts(o, s) => "val" \in DOMAIN set /\ set["val"] = Null
         /\ ~retracts(o, s) /\ hidden(o, s, doc) => "val" \notin DOMAIN set
         /\ ~retracts(o, s) /\ ~hidden(o, s, doc) /\ "val" \in DOMAIN o.set =>
              "val" \in DOMAIN set /\ set["val"] = o.set["val"]
         /\ ~retracts(o, s) /\ "val" \in DOMAIN set =>
              "val" \in DOMAIN o.set /\ set["val"] = o.set["val"]
<1>1. CASE retracts(o, s)
  <2>1. set = [val |-> Null]
    BY <1>1 DEF UpdateSet
  <2> QED BY <1>1, <2>1
<1>2. CASE ~retracts(o, s)
  <2>1. PICK kept : kept = DOMAIN o.set \cap (IF hidden(o, s, doc) THEN {} ELSE {"val"})
    OBVIOUS
  <2>2. set = Restrict(o.set, kept)
    BY <1>2, <2>1 DEF UpdateSet
  <2>3. DOMAIN set = kept /\ \A f \in kept : set[f] = o.set[f]
    BY <2>2 DEF Restrict
  <2> QED BY <1>2, <2>1, <2>3
<1> QED BY <1>1, <1>2

(* An update of a document read before and after it, and the rights the    *)
(* filter cuts it by.                                                      *)
LEMMA UpdateAsIs ==
  ASSUME NEW T, NEW n, NEW k, NEW m, NEW t, Sending(T, n, k, m, t), NEW id, Fair(T, n, k, id),
         NEW i \in DOMAIN log[k].ops, On(log[k].ops[i], id, "update"),
         NEW o, o = log[k].ops[i], NEW s, s = log[k].per_op[i], NEW doc, doc = T[m][id]
  PROVE  /\ Reads(T[k - 1], id) =>
              \E q : Sent(log[k], i, q) /\ q.id = id /\ q.op = "update" /\ q.set = UpdateSet(o, s, doc)
         /\ retracts(o, s) <=> touches_permissions(o) /\ ~Sees(T[k], id)
         /\ hidden(o, s, doc) <=> ~Sees(T[m], id) \/ ~Sees(T[k], id)
         /\ "val" \in DOMAIN o.set => o.set["val"] = k /\ T[k][id].val = k
<1>1. o.op = "update" /\ id = o.id
  BY DEF On
<1>2. /\ m \in k..n /\ k \in k..n /\ m \in k - 1..n /\ k \in k - 1..n /\ k \in 1..n
  <2>1. k \in k..n /\ m \in k..n /\ k \in Nat /\ n \in Nat /\ k \in 1..n
    BY Logged DEF Sending
  <2> QED BY <2>1
<1>3. /\ Reads(T[k], id) /\ id \in DOMAIN T[k] /\ id \in DOMAIN T[m] /\ Reads(T[m], id)
      /\ doc.created = T[k][id].created
  BY <1>2, Onward
<1>4. /\ Batch(log[k].ops, T[k - 1], k) /\ Part(t, T[k - 1], log[k].ops, k, Len(log[k].ops))
      /\ DOMAIN log[k].ops = 1..Len(log[k].ops) /\ t.docs = T[k]
  BY Logged DEF Sending
<1>5. id \in DOMAIN T[k - 1] /\ T[k][id].created = T[k - 1][id].created
  <2>1. id \in DOMAIN T[k - 1]
    BY <1>1, <1>4 DEF Batch, OpOK
  <2> QED BY <1>2, <1>3, <2>1, Descent
<1>6. s.open = T[k][id].open /\ s.tier = T[k][id].tier /\ s.owner = OwnerIn(T[k], id)
  <2>1. /\ o.id \in Ids /\ o.id \in DOMAIN T[k - 1]
        /\ o.id \in DOMAIN T[k] =>
             /\ s.open = T[k][o.id].open /\ s.tier = T[k][o.id].tier /\ s.owner = OwnerIn(T[k], o.id)
    BY ONLY Sending(T, n, k, m, t), i \in DOMAIN log[k].ops, o = log[k].ops[i], s = log[k].per_op[i],
       <1>1, ChangeSnap
  <2> QED BY <1>1, <1>3, <2>1
<1>7. can_see(s.tier, s.owner) <=> Sees(T[k], id)
  BY <1>3, <1>6 DEF Sees
<1>8. can_see(doc.tier, effective_owner(id, doc, ecs)) <=> Sees(T[m], id)
  BY <1>2, <1>3, SteadySees
<1>9. retracts(o, s) <=> touches_permissions(o) /\ ~Sees(T[k], id)
  BY <1>7 DEF retracts
<1>10. hidden(o, s, doc) <=> ~Sees(T[m], id) \/ ~Sees(T[k], id)
  BY <1>1, <1>7, <1>8 DEF hidden
<1>11. ASSUME "val" \in DOMAIN o.set PROVE o.set["val"] = k /\ T[k][id].val = k
  <2>1. o.set["val"] = k
    BY <1>1, <1>4, <1>11 DEF Batch, OpOK
  <2>2. id \in DOMAIN t.images /\ t.images[id].val = k
    BY <1>1, <1>4, <1>11 DEF Part, PartOps, WritesValAt
  <2>3. T[k][id] = t.images[id]
    BY <1>3, <1>4, <2>2 DEF Part, PartDocs
  <2> QED BY <2>1, <2>2, <2>3
<1>12. ASSUME Reads(T[k - 1], id)
       PROVE  \E q : Sent(log[k], i, q) /\ q.id = id /\ q.op = "update" /\ q.set = UpdateSet(o, s, doc)
  <2>1. PICK set, last, same, q :
          /\ set = UpdateSet(o, s, doc) /\ last = last_update_idx_for_doc(log[k].ops, i)
          /\ same <=> id \in DOMAIN T[m] /\ doc.created = T[k - 1][id].created
          /\ q = [op |-> "update", id |-> id, set |-> set]
    OBVIOUS
  <2>2. UpdateAt(T, k, m, i, o, s, id, doc) /\ Sure(T, k, m, id)
    BY <1>1, FairSure DEF UpdateAt
  <2>3. /\ ~same => filter_op(log[k], i) = <<>>
        /\ same /\ Reads(T[k - 1], id) # Reads(T[k], id) /\ ~last => filter_op(log[k], i) = <<>>
        /\ same /\ Reads(T[k - 1], id) # Reads(T[k], id) /\ last /\ ~Reads(T[k], id)
           => filter_op(log[k], i) = <<[op |-> "delete", id |-> id]>>
        /\ same /\ Reads(T[k - 1], id) # Reads(T[k], id) /\ last /\ Reads(T[k], id)
           => filter_op(log[k], i) = IF Now(id, doc) THEN <<Whole(id, doc)>> ELSE <<>>
        /\ same /\ ~(Reads(T[k - 1], id) # Reads(T[k], id)) => filter_op(log[k], i) =
             IF Reads(T[k], id) /\ Now(id, doc)
             THEN <<[op |-> "update", id |-> id, set |-> set]>> ELSE <<>>
    BY ONLY Sending(T, n, k, m, t), <2>1, <2>2, OutUpdate
  <2>4. Now(id, doc)
    BY <1>2, <1>3, SteadySees
  <2>5. same /\ ~(Reads(T[k - 1], id) # Reads(T[k], id))
    <3>1. Reads(T[k - 1], id) \in BOOLEAN /\ Reads(T[k], id) \in BOOLEAN
      BY DEF Reads, has_read
    <3> QED BY <1>3, <1>5, <1>12, <2>1, <3>1
  <2>6. filter_op(log[k], i) = <<q>>
    BY <1>3, <2>1, <2>3, <2>4, <2>5
  <2>7. q.id = id /\ q.op = "update" /\ q.set = set
    BY <2>1
  <2> QED BY <2>1, <2>6, <2>7 DEF Sent
<1> QED BY <1>9, <1>10, <1>11, <1>12

(* All that is sent of the field agrees: with what it is now, where the    *)
(* player sees it now and no command writes it later; or with nothing,     *)
(* where he never sees it from here on.                                    *)
Ends(T, n, k, id, v) ==
  \/ Visibly(T, id, k, n) /\ Unwritten(id, k + 1, n) /\ v = T[n][id].val
  \/ Hidden(T, id, k, n) /\ v = Null

LEMMA ValAgrees ==
  ASSUME NEW T, NEW n, NEW k, NEW m, NEW t, Sending(T, n, k, m, t), NEW id, Fair(T, n, k, id),
         NEW v, Ends(T, n, k, id, v), NEW i \in DOMAIN log[k].ops, NEW q, Sent(log[k], i, q)
  PROVE  Agrees(q, id, "val", v)
<1>1. SUFFICES ASSUME q.id = id
               PROVE  /\ q.op = "create" => q.doc.val = v
                      /\ q.op = "update" /\ "val" \in DOMAIN q.set => q.set["val"] = v
  BY DEF Agrees
<1>2. q.op = "create" => q.doc.val = v
  BY <1>1, WholeAsNow DEF Ends
<1>3. ASSUME q.op = "update", "val" \in DOMAIN q.set PROVE q.set["val"] = v
  <2>1. SentUpdate(T, k, m, i, id, q)
    <3>1. ~Doubled(id, log[k].ops) /\ Sure(T, k, m, id)
      BY FairSure DEF Fair
    <3> QED BY <1>1, <1>3, <3>1, SentIs
  <2>2. PICK o, s, doc : o = log[k].ops[i] /\ s = log[k].per_op[i] /\ doc = T[m][id]
    OBVIOUS
  <2>3. On(log[k].ops[i], id, "update") /\ q.set = UpdateSet(o, s, doc)
    BY <2>1, <2>2 DEF SentUpdate, On
  <2>4. /\ retracts(o, s) <=> touches_permissions(o) /\ ~Sees(T[k], id)
        /\ hidden(o, s, doc) <=> ~Sees(T[m], id) \/ ~Sees(T[k], id)
        /\ "val" \in DOMAIN o.set => o.set["val"] = k /\ T[k][id].val = k
    BY <2>2, <2>3, UpdateAsIs
  <2>5. k \in k..n /\ n \in k..n
    <3>1. k \in k..n /\ k \in Nat /\ n \in Nat /\ k <= n
      BY Logged
    <3> QED BY <3>1
  <2>6. CASE Visibly(T, id, k, n) /\ Unwritten(id, k + 1, n) /\ v = T[n][id].val
    <3>1. ~retracts(o, s)
      BY <2>4, <2>5, <2>6 DEF Visibly
    <3>2. "val" \in DOMAIN o.set /\ q.set["val"] = o.set["val"]
      BY <1>3, <2>3, <3>1, SetVal
    <3>3. T[k][id].val = v
      BY <2>5, <2>6, Calm
    <3> QED BY <2>4, <3>2, <3>3
  <2>7. CASE Hidden(T, id, k, n) /\ v = Null
    <3>1. hidden(o, s, doc)
      BY <2>4, <2>5, <2>7 DEF Hidden
    <3>2. retracts(o, s)
      BY <1>3, <2>3, <3>1, SetVal
    <3> QED BY <2>3, <2>7, <3>2, SetVal
  <2> QED BY <2>6, <2>7 DEF Ends
<1> QED BY <1>2, <1>3

LEMMA ValSent ==
  ASSUME NEW T, NEW n, NEW k, NEW m, NEW t, Sending(T, n, k, m, t), Sends(log[k]), Shaped(replica),
         NEW id, Fair(T, n, k, id), Faithful(T, id), id \in DOMAIN replica', NEW v, Ends(T, n, k, id, v)
  PROVE  replica'[id].val = v
<1>1. PICK c, after : /\ c = log[k] /\ Filtered(c) /\ after = applyCommand(replica, filter_command(c))
                      /\ replica' = after
  BY DEF Sends, Sending
<1>2. PICK ops : ops = log[k].ops /\ Len(ops) \in Nat /\ DOMAIN ops = 1..Len(ops) /\ IsSeq(ops)
  BY Logged
<1>3. /\ k \in k..n /\ n \in k..n /\ m \in k..n /\ k \in Nat /\ n \in Nat
      /\ n = Len(log) /\ k = cursor + 1 /\ cursor \in Nat
  <2>1. k \in k..n /\ m \in k..n /\ k \in Nat /\ n \in Nat /\ k <= n
    BY Logged
  <2>2. n = Len(log) /\ k = cursor + 1 /\ cursor \in Nat
    BY DEF Sending, EgressTyped
  <2> QED BY <2>1, <2>2
<1>4. ASSUME NEW a, Anchor(c, a, replica, id, "val", v) PROVE after[id].val = v
  <2>1. \A i \in DOMAIN c.ops : a < i => \A q : Sent(c, i, q) => Agrees(q, id, "val", v)
    BY <1>1, ValAgrees
  <2>2. Holds(after, id, "val", v)
    BY <1>1, <1>4, <2>1, FieldAfter
  <2> QED BY <1>1, <2>2 DEF Holds
<1>5. CASE ~Reads(T[k - 1], id)
  <2>1. PICK i \in DOMAIN log[k].ops : \E q : Sent(log[k], i, q) /\ q.id = id /\ q.op = "create"
    BY <1>5, SomeCreate
  <2>2. PICK q : Sent(log[k], i, q) /\ q.id = id /\ q.op = "create"
    BY <2>1
  <2>3. Agrees(q, id, "val", v)
    BY <2>2, ValAgrees
  <2>4. Anchor(c, i, replica, id, "val", v)
    BY <1>1, <2>2, <2>3 DEF Anchor, Writes, Agrees
  <2> QED BY <1>1, <1>4, <2>4
<1>6. CASE Reads(T[k - 1], id)
  <2>1. id \in DOMAIN replica /\ Right(T, id) /\ \A why \in Losses : ~Told(id, why, k)
    BY <1>6, OldRight
  <2>2. Tells(id, k, ops, T[k - 1], T[k]) /\ cursor < k
    <3>1. k \in 1..Len(log) /\ id \in Ids
      BY DEF Sending, Fair
    <3> QED BY <1>2, <1>3, <3>1 DEF Sending, Recorded
  <2>3. Reads(T[k], id)
    BY <1>3, Onward
  <2>4. \A j \in cursor..n : j = k - 1 \/ j \in k..n
    BY <1>3
  <2>5. docs = T[n]
    BY <1>3 DEF Sending, History
  <2>6. ASSUME replica[id].val = v PROVE after[id].val = v
    <3>1. Anchor(c, 0, replica, id, "val", v)
      BY <2>6 DEF Anchor, Holds
    <3> QED BY <1>4, <3>1
  <2>7. ASSUME NEW i \in DOMAIN ops, On(ops[i], id, "update"),
               NEW o, o = log[k].ops[i], NEW s, s = log[k].per_op[i], NEW doc, doc = T[m][id],
               retracts(o, s) \/ (~hidden(o, s, doc) /\ "val" \in DOMAIN o.set)
        PROVE  after[id].val = v
    <3>1. i \in DOMAIN log[k].ops /\ On(log[k].ops[i], id, "update")
      BY <1>2, <2>7
    <3>2. PICK q : Sent(log[k], i, q) /\ q.id = id /\ q.op = "update" /\ q.set = UpdateSet(o, s, doc)
      BY <1>6, <2>7, <3>1, UpdateAsIs
    <3>3. "val" \in DOMAIN q.set
      BY <2>7, <3>2, SetVal
    <3>4. Agrees(q, id, "val", v)
      BY <3>1, <3>2, ValAgrees
    <3>5. Anchor(c, i, replica, id, "val", v)
      BY <1>1, <3>1, <3>2, <3>3, <3>4 DEF Anchor, Writes, Agrees
    <3> QED BY <1>4, <3>5
  <2>8. CASE Visibly(T, id, k, n) /\ Unwritten(id, k + 1, n) /\ v = T[n][id].val
    <3>1. Sees(T[k], id) /\ Sees(T[m], id)
      BY <1>3, <2>8 DEF Visibly
    <3>2. CASE Silent(ops, id, Len(ops))
      <4>1. ~WritesVal(ops, id)
        BY <1>2, <3>2, SeqFacts DEF Silent, WritesVal, WritesValAt
      <4>2. "unhidden" \in Losses
        BY DEF Losses
      <4>3. Sees(T[k - 1], id)
        BY <1>6, <2>1, <2>2, <2>3, <3>1, <4>1, <4>2 DEF Tells
      <4>4. Visibly(T, id, cursor, Len(log))
        BY <1>3, <2>4, <2>8, <4>3 DEF Visibly
      <4>5. Unwritten(id, cursor + 1, Len(log))
        <5>1. \A j \in cursor + 1..Len(log) : j = k \/ j \in k + 1..n
          BY <1>3
        <5> QED BY <1>2, <2>8, <3>2, <5>1 DEF Unwritten
      <4>6. replica[id].val = v
        BY <2>1, <2>5, <2>8, <4>4, <4>5 DEF Right
      <4> QED BY <1>1, <2>6, <4>6
    <3>3. CASE ~Silent(ops, id, Len(ops))
      <4>1. PICK i \in DOMAIN ops : ops[i].id = id /\ ops[i].op = "update" /\ "val" \in DOMAIN ops[i].set
        BY <1>2, <3>3 DEF Silent, WritesValAt
      <4>2. PICK o, s, doc : o = log[k].ops[i] /\ s = log[k].per_op[i] /\ doc = T[m][id]
        OBVIOUS
      <4>3. On(ops[i], id, "update") /\ "val" \in DOMAIN o.set
        BY <1>2, <4>1, <4>2 DEF On
      <4>4. ~hidden(o, s, doc)
        <5>1. hidden(o, s, doc) <=> ~Sees(T[m], id) \/ ~Sees(T[k], id)
          BY <1>2, <4>2, <4>3, UpdateAsIs
        <5> QED BY <3>1, <5>1
      <4> QED BY <1>1, <2>7, <4>2, <4>3, <4>4
    <3> QED BY <3>2, <3>3
  <2>9. CASE Hidden(T, id, k, n) /\ v = Null
    <3>1. ~Sees(T[k], id)
      BY <1>3, <2>9 DEF Hidden
    <3>2. CASE ~Sees(T[k - 1], id)
      <4>1. Hidden(T, id, cursor, Len(log))
        BY <1>3, <2>4, <2>9, <3>2 DEF Hidden
      <4>2. replica[id].val = v
        BY <2>1, <2>9, <4>1 DEF Right
      <4> QED BY <1>1, <2>6, <4>2
    <3>3. CASE Sees(T[k - 1], id)
      <4>1. "kept" \in Losses
        BY DEF Losses
      <4>2. Retouched(id, ops)
        BY <1>6, <2>1, <2>2, <2>3, <3>1, <3>3, <4>1 DEF Tells
      <4>3. PICK i \in DOMAIN ops : ops[i].id = id /\ touches_permissions(ops[i])
        BY <1>2, <4>2, SeqFacts DEF Retouched
      <4>4. PICK o, s, doc : o = log[k].ops[i] /\ s = log[k].per_op[i] /\ doc = T[m][id]
        OBVIOUS
      <4>5. On(ops[i], id, "update") /\ touches_permissions(o)
        BY <1>2, <4>3, <4>4 DEF On, touches_permissions
      <4>6. retracts(o, s)
        <5>1. retracts(o, s) <=> touches_permissions(o) /\ ~Sees(T[k], id)
          BY <1>2, <4>4, <4>5, UpdateAsIs
        <5> QED BY <3>1, <4>5, <5>1
      <4> QED BY <1>1, <2>7, <4>4, <4>5, <4>6
    <3> QED BY <3>2, <3>3
  <2> QED BY <2>8, <2>9 DEF Ends
<1> QED BY <1>5, <1>6

LEMMA FaithfulSent ==
  ASSUME NEW T, NEW n, NEW k, NEW m, NEW t, Sending(T, n, k, m, t), Sends(log[k]), Shaped(replica),
         NEW id \in Ids, Faithful(T, id)
  PROVE  Faithful(T, id)'
<1>1. /\ n = Len(log) /\ k = cursor + 1 /\ cursor' = k /\ log' = log /\ docs' = docs /\ docs = T[n]
  BY DEF Sending, Sends, History
<1>2. SUFFICES ASSUME id \in DOMAIN replica', Readable(T, id, k, n), ~Excused(id, Losses)'
               PROVE  Right(T, id)'
  BY <1>1 DEF Faithful, Readable
<1>3. Fair(T, n, k, id)
  BY <1>2, FairWhen
<1>4. Unmoved(id, k + 1, n) => replica'[id].parent = docs'[id].parent
  BY <1>1, <1>2, <1>3, ParentSent
<1>5. Visibly(T, id, k, n) /\ Unwritten(id, k + 1, n) => replica'[id].val = docs'[id].val
  BY <1>1, <1>2, <1>3, ValSent DEF Ends
<1>6. Hidden(T, id, k, n) => replica'[id].val = Null
  BY <1>1, <1>2, <1>3, ValSent DEF Ends
<1>7. Unmoved(id, cursor + 1, Len(log))' <=> Unmoved(id, k + 1, n)
  BY <1>1 DEF Unmoved
<1>8. Unwritten(id, cursor + 1, Len(log))' <=> Unwritten(id, k + 1, n)
  BY <1>1 DEF Unwritten
<1> QED BY <1>1, <1>4, <1>5, <1>6, <1>7, <1>8 DEF Right, Visibly, Hidden

LEMMA RecordedSent ==
  ASSUME NEW T, NEW n, NEW k, NEW m, NEW t, Sending(T, n, k, m, t), Sends(log[k])
  PROVE  Recorded(T)'
<1>1. /\ n \in Nat /\ n = Len(log) /\ k = cursor + 1 /\ cursor \in Nat /\ cursor' = cursor + 1 /\ log' = log
  BY DEF Sending, EgressTyped, Sends
<1>2. ASSUME NEW j \in 1..n, NEW id \in Ids, NEW o, NEW b, NEW a, o = log[j].ops, b = T[j - 1], a = T[j]
      PROVE  Tells(id, j, o, b, a)'
  <2>1. Tells(id, j, o, b, a)
    BY <1>1, <1>2 DEF Sending, Recorded
  <2>2. \A why \in Forever : Told(id, why, j) => Told(id, why, j)'
    BY ToldKept
  <2>3. ASSUME cursor' < j PROVE cursor < j /\ \A why : Told(id, why, j) => Told(id, why, j)'
    <3>1. ~(j <= cursor + 1) /\ cursor < j
      BY <1>1, <2>3
    <3> QED BY <3>1, ToldKept
  <2>4. Waits(id, j)' => Waits(id, j)
    <3>1. \A i \in cursor' + 1..j - 1 : i \in cursor + 1..j - 1
      BY <1>1
    <3> QED BY <1>1, <3>1 DEF Waits
  <2>5. "mixed" \in Forever /\ "twice" \in Forever
    BY DEF Forever
  <2>6. /\ Hands(id, b, a) => Told(id, "mixed", j)'
        /\ Doubled(id, o) => Told(id, "twice", j)'
    BY <2>1, <2>2, <2>5 DEF Tells
  <2> QED BY <2>1, <2>3, <2>4, <2>6 DEF Tells
<1>3. ASSUME NEW j \in 1..n, NEW id \in Ids PROVE Tells(id, j, log[j].ops, T[j - 1], T[j])'
  <2>1. PICK o, b, a : o = log[j].ops /\ b = T[j - 1] /\ a = T[j]
    OBVIOUS
  <2>2. Tells(id, j, o, b, a)'
    BY <1>2, <2>1
  <2> QED BY <1>1, <2>1, <2>2 DEF Tells
<1> QED BY <1>1, <1>3 DEF Recorded

LEMMA MirrorSend ==
  ASSUME MirrorInv, send_filtered_event
  PROVE  MirrorInv'
<1>1. EgressInv' /\ EgressTyped /\ Shaped(replica)
  BY SendKeeps DEF MirrorInv, EgressInv
<1>2. PICK T : Mirrors(T)
  BY DEF MirrorInv
<1>3. PICK n, k, m, t : Sending(T, n, k, m, t) /\ Sends(log[k])
  BY <1>1, <1>2, SendingAt
<1>4. History(T)'
  BY <1>2, <1>3 DEF Mirrors, History, Sends
<1>5. Recorded(T)'
  BY <1>3, RecordedSent
<1>6. ASSUME NEW id \in Ids PROVE Presence(T, id)' /\ Faithful(T, id)'
  BY <1>1, <1>2, <1>3, PresenceSent, FaithfulSent DEF Mirrors
<1>7. Shaped(replica')
  <2>1. PICK c : c = log[k] /\ Filtered(c) /\ replica' = applyCommand(replica, filter_command(c))
    BY <1>3 DEF Sends
  <2> QED BY <1>1, <2>1, FieldAfter
<1>8. Mirrors(T)'
  BY <1>4, <1>5, <1>6 DEF Mirrors
<1>9. \E V : Mirrors(V)'
  BY <1>8
<1> QED BY <1>1, <1>7, <1>9 DEF MirrorInv

LEMMA MirrorStep ==
  ASSUME MirrorInv, [Next]_vars
  PROVE  MirrorInv'
<1>1. CASE \E batch \in world.batches : Commit(batch)
  BY <1>1, MirrorCommit
<1>2. CASE Publish
  BY <1>2, MirrorPublish
<1>3. CASE load_current_docs
  BY <1>3, MirrorLoad
<1>4. CASE send_filtered_event
  BY <1>4, MirrorSend
<1>5. CASE UNCHANGED vars
  <2>1. /\ UNCHANGED <<world, docs, log, published, ecs, cursor, loaded, replica, shown, left>>
        /\ UNCHANGED current
    BY <1>5 DEF vars, current
  <2>2. EgressInv'
    BY <1>5, EgressStep DEF MirrorInv
  <2>3. PICK T : Mirrors(T)
    BY DEF MirrorInv
  <2>4. History(T)'
    BY <2>1, <2>3 DEF Mirrors, History
  <2>5. Mirrors(T)'
    BY <2>1, <2>3, <2>4, MirrorUnmoved DEF Mirrors
  <2>6. \E V : Mirrors(V)'
    BY <2>5
  <2> QED BY <2>1, <2>2, <2>6 DEF MirrorInv
<1> QED BY <1>1, <1>2, <1>3, <1>4, <1>5 DEF Next

LEMMA MirrorThen ==
  ASSUME MirrorInv
  PROVE  MirrorUnlessLeft
<1>1. SUFFICES ASSUME cursor = Len(log), NEW view, view = world_snapshot(docs), NEW id \in Ids
               PROVE  /\ Excused(id, Missed) \/ (id \in DOMAIN replica <=> id \in DOMAIN view)
                      /\ \/ Excused(id, Losses)
                         \/ id \in DOMAIN replica => id \in DOMAIN view /\ replica[id] = view[id]
  BY DEF MirrorUnlessLeft, InStep, Missed
<1>2. PICK T : Mirrors(T)
  BY DEF MirrorInv
<1>3. PICK n \in Nat : n = Len(log) /\ cursor = n
  BY <1>1, SeqFacts DEF MirrorInv, EgressInv, EgressTyped
<1>4. cursor..Len(log) = {n} /\ cursor + 1..Len(log) = {} /\ T[n] = docs
  <2>1. n..n = {n} /\ n + 1..n = {}
    OBVIOUS
  <2> QED BY <1>2, <1>3, <2>1 DEF Mirrors, History
<1>5. /\ id \in DOMAIN view <=> Reads(docs, id)
      /\ id \in DOMAIN view => view[id] = filter_properties(docs[id], OwnerIn(docs, id))
  BY <1>1 DEF world_snapshot, Reads
<1>6. Excused(id, Missed) \/ (id \in DOMAIN replica <=> Reads(docs, id))
  BY <1>2, <1>4 DEF Mirrors, Presence
<1>7. ASSUME ~Excused(id, Losses), id \in DOMAIN replica
      PROVE  id \in DOMAIN view /\ replica[id] = view[id]
  <2>1. Reads(docs, id)
    BY <1>6, <1>7 DEF Excused, Missed, Losses, Forever
  <2>2. Right(T, id)
    BY <1>2, <1>4, <1>7, <2>1 DEF Mirrors, Faithful, Readable
  <2>3. /\ replica[id].parent = docs[id].parent
        /\ Sees(docs, id) => replica[id].val = docs[id].val
        /\ ~Sees(docs, id) => replica[id].val = Null
    BY <1>4, <2>2 DEF Right, Unmoved, Unwritten, Visibly, Hidden
  <2>4. Sees(docs, id) <=> can_see(docs[id].tier, OwnerIn(docs, id))
    BY <2>1 DEF Sees
  <2>5. replica[id] = [val |-> replica[id].val, parent |-> replica[id].parent]
    BY <1>7 DEF MirrorInv, Shaped
  <2>6. view[id] = [val |-> IF can_see(docs[id].tier, OwnerIn(docs, id)) THEN docs[id].val ELSE Null,
                    parent |-> docs[id].parent]
    BY <1>5, <2>1 DEF filter_properties
  <2> QED BY <1>5, <2>1, <2>3, <2>4, <2>5, <2>6
<1> QED BY <1>5, <1>6, <1>7

(* What the player has is at every moment what some state since the last   *)
(* command sent would have let him have, and each of its fields is right   *)
(* where no command on its way changes it; and every way of losing a       *)
(* document that a command on its way holds is on record: the inductive    *)
(* invariant of send_filtered_event against later commits.                 *)
THEOREM MirrorInductive == Spec => []MirrorInv
BY MirrorInit, MirrorStep, PTL DEF Spec

(* Once everything is sent, the player has what a fresh connection would   *)
(* get, but for the documents the filter loses track of: the state that    *)
(* filter_command's synthesized creates and deletes are to reach.          *)
THEOREM MirrorAlways == Spec => []MirrorUnlessLeft
<1>1. MirrorInv => MirrorUnlessLeft
  BY MirrorThen
<1> QED BY <1>1, MirrorInductive, PTL
=============================================================================
