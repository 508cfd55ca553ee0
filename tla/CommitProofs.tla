--------------------------- MODULE CommitProofs ---------------------------
(***************************************************************************)
(* What the two writers of the documents keep.  First a batch of           *)
(* operations (ApplyIntent), for every set of documents, types and bodies, *)
(* every length of a batch and every history of them; then a token's move  *)
(* (MoveCommits), for every corridor, resource, set of regions and number  *)
(* of moves, turns and failures.                                           *)
(***************************************************************************)
EXTENDS ApplyIntent, MoveCommits, SequenceTheorems, WellFoundedInduction, FiniteSetTheorems, TLAPS

-----------------------------------------------------------------------------
(* Induction, without an operator as its parameter: over a set of          *)
(* naturals.                                                               *)

LEMMA NatInd ==
  ASSUME NEW S, 0 \in S, \A n \in Nat : n \in S => n + 1 \in S
  PROVE Nat \subseteq S
<1> SUFFICES ASSUME {n \in Nat : n \notin S} # {} PROVE FALSE
  OBVIOUS
<1>1. PICK T \in SUBSET Nat : T = {n \in Nat : n \notin S}
  OBVIOUS
<1>2. IsWellFoundedOn({p \in Nat \X Nat : p[1] < p[2]}, Nat)
  BY NatLessThanWellFounded DEF OpToRel
<1>3. PICK R : R = {p \in Nat \X Nat : p[1] < p[2]}
  OBVIOUS
<1>4. PICK x \in T : \A y \in T : ~(<<y, x>> \in R)
  BY <1>1, <1>2, <1>3, WFMin
<1>5. \A y \in T : ~(y < x)
  BY <1>1, <1>3, <1>4
<1>6. x \in Nat /\ x # 0 /\ x - 1 \in Nat /\ x - 1 \notin T
  BY <1>1, <1>5
<1> QED BY <1>1, <1>6

-----------------------------------------------------------------------------
(* Chains.  A tree is a function from the ids to ids or the root.          *)
IsTree(S, up) == IsFiniteSet(S) /\ Root \notin S /\ up \in [S -> S \cup {Root}]

LEMMA WalkFacts ==
  ASSUME NEW S, NEW up, IsTree(S, up), NEW d \in S \cup {Root}
  PROVE  \E at :
           /\ at \in [0..Cardinality(S) -> S \cup {Root}] /\ at[0] = d
           /\ \A k \in 1..Cardinality(S) :
                at[k] = IF at[k - 1] = Root THEN Root ELSE up[at[k - 1]]
           /\ Chain(up, d) = {at[k] : k \in 0..Cardinality(S)}
<1>1. PICK n \in Nat : n = Cardinality(S)
  BY FS_CardinalityType DEF IsTree
<1> DEFINE Iter(h, k) == h = [i \in 0..k |->
             IF i = 0 THEN d ELSE IF h[i - 1] = Root THEN Root ELSE up[h[i - 1]]]
<1>2. Walk(up, d) = CHOOSE h : Iter(h, n)
  BY <1>1, Zenon DEF Walk, IsTree
<1>3. ASSUME NEW k \in Nat, NEW h, Iter(h, k) PROVE \E g : Iter(g, k + 1)
  <2> DEFINE g == [i \in 0..k + 1 |-> IF i = k + 1 THEN IF h[k] = Root THEN Root ELSE up[h[k]]
                                      ELSE h[i]]
  <2>1. ASSUME NEW i \in 0..k + 1
        PROVE g[i] = IF i = 0 THEN d ELSE IF g[i - 1] = Root THEN Root ELSE up[g[i - 1]]
    <3>1. CASE i = k + 1
      BY <3>1
    <3>2. CASE i # k + 1
      <4>1. i \in 0..k /\ g[i] = h[i] /\ (i # 0 => g[i - 1] = h[i - 1])
        BY <3>2
      <4>2. h[i] = IF i = 0 THEN d ELSE IF h[i - 1] = Root THEN Root ELSE up[h[i - 1]]
        BY <1>3, <4>1
      <4> QED BY <4>1, <4>2
    <3> QED BY <3>1, <3>2
  <2>2. Iter(g, k + 1)
    BY <2>1
  <2> QED BY <2>2
<1>4. PICK at : at = (CHOOSE h : Iter(h, n)) /\ Iter(at, n)
  <2>1. Iter([i \in 0..0 |-> d], 0)
    OBVIOUS
  <2>2. PICK T : T = {k \in Nat : \E h : Iter(h, k)}
    OBVIOUS
  <2> HIDE DEF Iter
  <2>3. 0 \in T
    BY <2>1, <2>2
  <2>4. ASSUME NEW k \in Nat, k \in T PROVE k + 1 \in T
    BY <1>3, <2>2, <2>4
  <2>5. Nat \subseteq T
    BY <2>3, <2>4, NatInd
  <2> QED BY <1>1, <2>2, <2>5
<1>5. at[0] = d /\ DOMAIN at = 0..n /\ at = [k \in 0..n |-> at[k]]
  BY <1>4
<1>6. \A k \in 1..n : at[k] = IF at[k - 1] = Root THEN Root ELSE up[at[k - 1]]
  <2> SUFFICES ASSUME NEW k \in 1..n
               PROVE at[k] = IF at[k - 1] = Root THEN Root ELSE up[at[k - 1]]
    OBVIOUS
  <2>1. k \in 0..n /\ k # 0
    OBVIOUS
  <2> QED BY <1>4, <2>1
<1>7. Chain(up, d) = {at[k] : k \in 0..n}
  <2>1. Walk(up, d) = at
    BY <1>2, <1>4, Zenon
  <2>2. Range(at) = {at[k] : k \in 0..n}
    BY <1>5, Zenon DEF Range
  <2> QED BY <2>1, <2>2, Zenon DEF Chain
<1> HIDE DEF Iter
<1>8. \A k \in 0..n : at[k] \in S \cup {Root}
  <2>1. PICK T : T = {k \in Nat : k <= n => at[k] \in S \cup {Root}}
    OBVIOUS
  <2>2. 0 \in T
    BY <1>5, <2>1
  <2>3. ASSUME NEW k \in Nat, k \in T PROVE k + 1 \in T
    BY <1>6, <2>1, <2>3 DEF IsTree
  <2>4. Nat \subseteq T
    BY <2>2, <2>3, NatInd
  <2> QED BY <2>1, <2>4
<1> QED BY <1>1, <1>5, <1>6, <1>7, <1>8

(* A walk that is as long as the tree is large has met all it can.         *)
Walks(S, up, n, at) ==
  /\ IsFiniteSet(S) /\ up \in [S -> S] /\ n \in Nat /\ Cardinality(S) = n + 1
  /\ at \in [0..n -> S] /\ \A i \in 1..n : at[i] = up[at[i - 1]]

LEMMA WalkCloses ==
  ASSUME NEW S, NEW up, NEW n, NEW at, Walks(S, up, n, at)
  PROVE  \A k \in 0..n : \E j \in 0..n : at[j] = up[at[k]]
<1> SUFFICES ASSUME NEW k \in 0..n PROVE \E j \in 0..n : at[j] = up[at[k]]
  OBVIOUS
<1>0. /\ IsFiniteSet(S) /\ up \in [S -> S] /\ n \in Nat /\ Cardinality(S) = n + 1
      /\ at \in [0..n -> S] /\ \A i \in 1..n : at[i] = up[at[i - 1]]
  BY DEF Walks
<1> USE <1>0
<1> DEFINE met(j) == {at[i] : i \in 0..j}
           closed(j) == \E i \in 0..j : at[i] = up[at[j]]
<1>1. PICK T : T = {j \in Nat : j <= n => \/ \E m \in 0..j : closed(m)
                                          \/ IsFiniteSet(met(j)) /\ Cardinality(met(j)) = j + 1}
  OBVIOUS
<1>2. 0 \in T
  <2>1. met(0) = {at[0]}
    OBVIOUS
  <2>2. IsFiniteSet(met(0)) /\ Cardinality(met(0)) = 1
    BY <2>1, FS_Singleton
  <2> HIDE DEF met, closed
  <2> QED BY <1>1, <2>2
<1>3. ASSUME NEW j \in Nat, j \in T PROVE j + 1 \in T
  <2> SUFFICES ASSUME j + 1 <= n, \A m \in 0..j + 1 : ~closed(m)
               PROVE IsFiniteSet(met(j + 1)) /\ Cardinality(met(j + 1)) = (j + 1) + 1
    <3> HIDE DEF met, closed
    <3> QED BY <1>1
  <2>1. ~closed(j) /\ \A m \in 0..j : ~closed(m)
    <3> HIDE DEF closed
    <3> QED OBVIOUS
  <2>2. IsFiniteSet(met(j)) /\ Cardinality(met(j)) = j + 1
    <3> HIDE DEF closed, met
    <3> QED BY <1>1, <1>3, <2>1
  <2>3. at[j + 1] = up[at[j]]
    OBVIOUS
  <2>4. at[j + 1] \notin met(j)
    <3> SUFFICES ASSUME NEW i \in 0..j, at[i] = at[j + 1] PROVE FALSE
      OBVIOUS
    <3>1. at[i] = up[at[j]]
      BY <2>3
    <3> QED BY <2>1, <3>1
  <2>5. met(j + 1) = met(j) \cup {at[j + 1]}
    OBVIOUS
  <2> HIDE DEF met, closed
  <2>6. /\ IsFiniteSet(met(j) \cup {at[j + 1]})
        /\ Cardinality(met(j) \cup {at[j + 1]}) = Cardinality(met(j)) + 1
    BY <2>2, <2>4, FS_AddElement
  <2> QED BY <2>2, <2>5, <2>6
<1>4. n \in T
  <2>1. Nat \subseteq T
    BY <1>2, <1>3, NatInd
  <2> QED BY <2>1
<1>5. \/ \E m \in 0..n : closed(m)
      \/ IsFiniteSet(met(n)) /\ Cardinality(met(n)) = n + 1
  <2> HIDE DEF closed, met
  <2> QED BY <1>1, <1>4
<1>6. CASE \E m \in 0..n : closed(m)
  <2>1. PICK m \in 0..n : closed(m)
    BY <1>6
  <2>2. PICK i \in 0..m : at[i] = up[at[m]]
    BY <2>1
  <2>3. PICK U : U = {j \in Nat : j <= n => \E l \in 0..m : at[l] = at[j]}
    OBVIOUS
  <2>4. 0 \in U
    BY <2>3
  <2>5. ASSUME NEW j \in Nat, j \in U PROVE j + 1 \in U
    <3> SUFFICES ASSUME j + 1 <= n PROVE \E l \in 0..m : at[l] = at[j + 1]
      BY <2>3
    <3>1. PICK l \in 0..m : at[l] = at[j]
      BY <2>3, <2>5
    <3>2. at[j + 1] = up[at[j]]
      OBVIOUS
    <3>3. at[j + 1] = up[at[l]]
      BY <3>1, <3>2
    <3>4. CASE l = m
      BY <2>2, <3>3, <3>4
    <3>5. CASE l # m
      <4>1. l + 1 \in 0..m /\ l + 1 \in 1..n /\ (l + 1) - 1 = l
        BY <3>5
      <4>2. at[l + 1] = up[at[l]]
        BY <4>1
      <4> QED BY <3>3, <4>1, <4>2
    <3> QED BY <3>4, <3>5
  <2>6. k \in U
    <3>1. Nat \subseteq U
      BY <2>4, <2>5, NatInd
    <3> QED BY <3>1
  <2>7. PICK l \in 0..m : at[l] = at[k]
    BY <2>3, <2>6
  <2>8. CASE l = m
    BY <2>2, <2>7, <2>8
  <2>9. CASE l # m
    <3>1. l + 1 \in 0..n /\ l + 1 \in 1..n /\ (l + 1) - 1 = l
      BY <2>9
    <3>2. at[l + 1] = up[at[l]]
      BY <3>1
    <3> QED BY <2>7, <3>1, <3>2
  <2> QED BY <2>8, <2>9
<1>7. CASE IsFiniteSet(met(n)) /\ Cardinality(met(n)) = n + 1
  <2>1. met(n) \in SUBSET S
    OBVIOUS
  <2>2. up[at[k]] \in S
    OBVIOUS
  <2> HIDE DEF met
  <2>3. met(n) = S
    BY <1>7, <2>1, FS_Subset
  <2>4. up[at[k]] \in met(n)
    BY <2>2, <2>3
  <2> QED BY <2>4 DEF met
<1> QED BY <1>5, <1>6, <1>7

(* What a chain is, without the walk: the least set with the document in   *)
(* it that goes up with each of its members.                               *)
LEMMA ChainFacts ==
  ASSUME NEW S, NEW up, IsTree(S, up), NEW d \in S \cup {Root}
  PROVE  /\ d \in Chain(up, d) /\ Chain(up, d) \subseteq S \cup {Root}
         /\ \A e \in Chain(up, d) : e # Root => e \in S /\ up[e] \in Chain(up, d)
         /\ \A C : d \in C /\ (\A e \in C \cap S : up[e] \in C) => Chain(up, d) \subseteq C
<1>1. PICK n \in Nat : n = Cardinality(S)
  BY FS_CardinalityType DEF IsTree
<1>2. PICK at : /\ at \in [0..n -> S \cup {Root}] /\ at[0] = d
                /\ \A k \in 1..n : at[k] = IF at[k - 1] = Root THEN Root ELSE up[at[k - 1]]
                /\ Chain(up, d) = {at[k] : k \in 0..n}
  BY <1>1, WalkFacts
<1>3. d \in Chain(up, d) /\ Chain(up, d) \subseteq S \cup {Root}
  BY <1>2
<1>4. ASSUME NEW e \in Chain(up, d), e # Root PROVE e \in S /\ up[e] \in Chain(up, d)
  <2>1. PICK k \in 0..n : e = at[k]
    BY <1>2
  <2>2. PICK R : R = S \cup {Root}
    OBVIOUS
  <2>3. PICK next : next = [x \in R |-> IF x = Root THEN Root ELSE up[x]]
    OBVIOUS
  <2>4. IsFiniteSet(R) /\ Cardinality(R) = n + 1
    BY <1>1, <2>2, FS_AddElement DEF IsTree
  <2>5. next \in [R -> R]
    BY <2>2, <2>3 DEF IsTree
  <2>6. at \in [0..n -> R]
    BY <1>2, <2>2
  <2>7. \A i \in 1..n : at[i] = next[at[i - 1]]
    <3> SUFFICES ASSUME NEW i \in 1..n PROVE at[i] = next[at[i - 1]]
      OBVIOUS
    <3>1. i - 1 \in 0..n
      OBVIOUS
    <3>2. at[i - 1] \in R
      BY <2>6, <3>1
    <3> QED BY <1>2, <2>3, <3>2
  <2>8. \E j \in 0..n : at[j] = next[at[k]]
    <3>1. IsFiniteSet(R) /\ Cardinality(R) = n + 1 /\ k \in 0..n
      BY <2>4
    <3>2. Walks(R, next, n, at)
      BY <2>5, <2>6, <2>7, <3>1 DEF Walks
    <3> QED BY <3>1, <3>2, WalkCloses
  <2>9. e \in S /\ next[at[k]] = up[e]
    BY <1>3, <1>4, <2>1, <2>2, <2>3
  <2> QED BY <1>2, <2>8, <2>9
<1>5. ASSUME NEW C, d \in C, \A e \in C \cap S : up[e] \in C PROVE Chain(up, d) \subseteq C
  <2>1. PICK T : T = {k \in Nat : k <= n => at[k] \in C}
    OBVIOUS
  <2>2. 0 \in T
    BY <1>2, <1>5, <2>1
  <2>3. ASSUME NEW k \in Nat, k \in T PROVE k + 1 \in T
    <3> SUFFICES ASSUME k + 1 <= n PROVE at[k + 1] \in C
      BY <2>1
    <3>1. at[k] \in C /\ at[k] \in S \cup {Root}
      BY <1>2, <2>1, <2>3
    <3>2. at[k + 1] = IF at[k] = Root THEN Root ELSE up[at[k]]
      <4>1. k + 1 \in 1..n /\ (k + 1) - 1 = k
        OBVIOUS
      <4> QED BY <1>2, <4>1
    <3> QED BY <1>5, <3>1, <3>2
  <2>4. Nat \subseteq T
    BY <2>2, <2>3, NatInd
  <2> QED BY <1>2, <2>1, <2>4
<1> QED BY <1>3, <1>4, <1>5

LEMMA ChainUp ==
  ASSUME NEW S, NEW up, IsTree(S, up)
  PROVE  /\ Chain(up, Root) = {Root}
         /\ \A d \in S : Chain(up, d) = {d} \cup Chain(up, up[d])
         /\ \A d \in S \cup {Root} : \A e \in Chain(up, d) : Chain(up, e) \subseteq Chain(up, d)
<1>1. Root \notin S /\ \A d \in S : up[d] \in S \cup {Root}
  BY DEF IsTree
<1>2. Chain(up, Root) = {Root}
  <2>1. PICK C : C = {Root}
    OBVIOUS
  <2>2. Root \in C /\ \A e \in C \cap S : up[e] \in C
    BY <1>1, <2>1
  <2>3. Root \in Chain(up, Root) /\ Chain(up, Root) \subseteq C
    BY <2>2, ChainFacts
  <2> QED BY <2>1, <2>3
<1>3. ASSUME NEW d \in S \cup {Root}, NEW e \in Chain(up, d)
      PROVE Chain(up, e) \subseteq Chain(up, d)
  <2>1. e \in S \cup {Root} /\ \A x \in Chain(up, d) \cap S : up[x] \in Chain(up, d)
    BY <1>1, ChainFacts
  <2> QED BY <2>1, ChainFacts
<1>4. ASSUME NEW d \in S PROVE Chain(up, d) = {d} \cup Chain(up, up[d])
  <2>1. up[d] \in Chain(up, d) /\ d \in Chain(up, d)
    BY <1>1, ChainFacts
  <2>2. Chain(up, up[d]) \subseteq Chain(up, d)
    BY <1>3, <2>1
  <2>3. PICK C : C = {d} \cup Chain(up, up[d])
    OBVIOUS
  <2>4. up[d] \in Chain(up, up[d]) /\ \A x \in Chain(up, up[d]) \cap S : up[x] \in Chain(up, up[d])
    BY <1>1, ChainFacts
  <2>5. d \in C /\ \A x \in C \cap S : up[x] \in C
    BY <2>3, <2>4
  <2>6. Chain(up, d) \subseteq C
    BY <2>5, ChainFacts
  <2> QED BY <2>1, <2>2, <2>3, <2>6
<1> QED BY <1>2, <1>3, <1>4

(* Trees that agree along a chain have it in common.                       *)
LEMMA ChainAgree ==
  ASSUME NEW S, NEW up, IsTree(S, up), NEW vp, IsTree(S, vp), NEW d \in S \cup {Root},
         \A e \in Chain(up, d) : e # Root => vp[e] = up[e]
  PROVE  Chain(vp, d) = Chain(up, d)
<1>1. Chain(vp, d) \subseteq Chain(up, d)
  <2>1. d \in Chain(up, d) /\ \A e \in Chain(up, d) \cap S : vp[e] \in Chain(up, d)
    BY ChainFacts DEF IsTree
  <2> QED BY <2>1, ChainFacts
<1>2. Chain(up, d) \subseteq Chain(vp, d)
  <2>1. d \in Chain(vp, d) /\ \A e \in Chain(vp, d) \cap S : vp[e] \in Chain(vp, d)
    BY ChainFacts DEF IsTree
  <2>2. \A e \in Chain(vp, d) \cap S : up[e] \in Chain(vp, d)
    BY <1>1, <2>1 DEF IsTree
  <2> QED BY <2>1, <2>2, ChainFacts
<1> QED BY <1>1, <1>2

(* Where a chain ends at the root, nothing is beneath itself; of two that  *)
(* one chain meets, one is above the other.                                *)
LEMMA ChainOnce ==
  ASSUME NEW S, NEW up, IsTree(S, up), NEW d \in S, Root \in Chain(up, d)
  PROVE  d \notin Chain(up, up[d])
<1> SUFFICES ASSUME d \in Chain(up, up[d]) PROVE FALSE
  OBVIOUS
<1>1. PICK C : C = {e \in Chain(up, d) : d \in Chain(up, e)}
  OBVIOUS
<1>2. d \in C
  BY <1>1, ChainFacts
<1>3. ASSUME NEW e \in C \cap S PROVE up[e] \in C
  <2>1. up[e] \in Chain(up, d) /\ e \in Chain(up, d) /\ d \in Chain(up, e)
    BY <1>1, <1>3, ChainFacts DEF IsTree
  <2>2. Chain(up, e) = {e} \cup Chain(up, up[e])
    BY ChainUp
  <2> QED BY <1>1, <2>1, <2>2
<1>4. Root \in C
  BY <1>2, <1>3, ChainFacts
<1>5. d \in Chain(up, Root)
  BY <1>1, <1>4
<1> QED BY <1>5, ChainUp DEF IsTree

LEMMA ChainOrder ==
  ASSUME NEW S, NEW up, IsTree(S, up), NEW d \in S \cup {Root},
         NEW e \in Chain(up, d), NEW f \in Chain(up, d)
  PROVE  f \in Chain(up, e) \/ e \in Chain(up, f)
<1>1. PICK C : C = {g \in Chain(up, d) : g \in Chain(up, e) \/ e \in Chain(up, g)}
  OBVIOUS
<1>2. d \in C
  BY <1>1, ChainFacts
<1>3. e \in S \cup {Root}
  BY ChainFacts
<1>4. ASSUME NEW g \in C \cap S PROVE up[g] \in C
  <2>1. up[g] \in Chain(up, d)
    BY <1>1, <1>4, ChainFacts DEF IsTree
  <2>2. CASE g \in Chain(up, e)
    <3>1. up[g] \in Chain(up, e)
      BY <1>3, <1>4, <2>2, ChainFacts DEF IsTree
    <3> QED BY <1>1, <2>1, <3>1
  <2>3. CASE g \notin Chain(up, e)
    <3>1. g # e
      BY <1>3, <2>3, ChainFacts
    <3>2. e \in Chain(up, up[g])
      BY <1>1, <1>4, <2>3, <3>1, ChainUp
    <3> QED BY <1>1, <2>1, <3>2
  <2> QED BY <2>2, <2>3
<1>5. f \in C
  BY <1>2, <1>4, ChainFacts
<1> QED BY <1>1, <1>5

-----------------------------------------------------------------------------
(* Tables: every parent is stored (the foreign key), every body is one of  *)
(* its document's.                                                         *)
World == IsFiniteSet(ids) /\ Root \notin ids /\ ids \subseteq Docs

TableOK(T) ==
  /\ T = [d \in DOMAIN T |-> T[d]]
  /\ DOMAIN T \subseteq ids
  /\ \A d \in DOMAIN T : T[d] \in [parent : DOMAIN T \cup {Root}, body : Bodies[d]]

(* A table without a set of documents and what is beneath one of them.     *)
Gone(T, D) == {c \in DOMAIN T : Chain(Up(T), c) \cap D # {}}
Without(T, D) == [c \in DOMAIN T \ Gone(T, D) |-> T[c]]

LEMMA TableTree ==
  ASSUME World, NEW T, TableOK(T)
  PROVE  /\ IsTree(ids, Up(T))
         /\ \A d \in DOMAIN T : d \in ids /\ d # Root /\ Up(T)[d] = T[d].parent
                                /\ T[d].parent \in DOMAIN T \cup {Root}
         /\ \A d \in ids \ DOMAIN T : Up(T)[d] = Root
         /\ \A d \in DOMAIN T \cup {Root} : Chain(Up(T), d) \subseteq DOMAIN T \cup {Root}
<1>1. \A d \in DOMAIN T : /\ d \in ids /\ d # Root /\ Up(T)[d] = T[d].parent
                          /\ T[d].parent \in DOMAIN T \cup {Root}
  BY DEF World, TableOK, Up
<1>2. \A d \in ids \ DOMAIN T : Up(T)[d] = Root
  BY DEF Up
<1>3. IsTree(ids, Up(T))
  BY <1>1, <1>2 DEF World, IsTree, Up, TableOK
<1>4. ASSUME NEW d \in DOMAIN T \cup {Root} PROVE Chain(Up(T), d) \subseteq DOMAIN T \cup {Root}
  <2>1. PICK C : C = DOMAIN T \cup {Root}
    OBVIOUS
  <2>2. d \in C /\ d \in ids \cup {Root} /\ \A e \in C \cap ids : Up(T)[e] \in C
    BY <1>1, <1>2, <2>1
  <2> QED BY <1>3, <2>1, <2>2, ChainFacts
<1> QED BY <1>1, <1>2, <1>3, <1>4

(* Whatever has its parent at or beneath d is beneath d.                   *)
LEMMA BeneathParent ==
  ASSUME World, NEW T, TableOK(T), NEW d, NEW c \in DOMAIN T,
         T[c].parent \in Descendants(T, d) \cup {d}
  PROVE  c \in Descendants(T, d) \cup {d}
<1>1. /\ Chain(Up(T), c) = {c} \cup Chain(Up(T), T[c].parent)
      /\ T[c].parent \in ids \cup {Root}
  BY TableTree, ChainUp DEF World, TableOK
<1>2. d \in Chain(Up(T), T[c].parent)
  <2>1. CASE T[c].parent = d
    BY <1>1, <2>1, TableTree, ChainFacts
  <2>2. CASE T[c].parent # d
    BY <2>2 DEF Descendants
  <2> QED BY <2>1, <2>2
<1> QED BY <1>1, <1>2 DEF Descendants

LEMMA GoneFacts ==
  ASSUME World, NEW T, TableOK(T), NEW D, Root \notin D
  PROVE  /\ \A d \in DOMAIN T : d \in D => d \in Gone(T, D)
         /\ \A d \in DOMAIN T : T[d].parent \in Gone(T, D) => d \in Gone(T, D)
         /\ \A d \in DOMAIN T : d \in Gone(T, D) <=> d \in D \/ T[d].parent \in Gone(T, D)
<1>1. \A d \in DOMAIN T : /\ d \in ids /\ d \in Chain(Up(T), d)
                          /\ Chain(Up(T), d) = {d} \cup Chain(Up(T), T[d].parent)
                          /\ T[d].parent \in DOMAIN T \cup {Root}
  BY TableTree, ChainUp, ChainFacts
<1>2. Chain(Up(T), Root) \cap D = {}
  BY TableTree, ChainUp
<1> QED BY <1>1, <1>2 DEF Gone

LEMMA WithoutOK ==
  ASSUME World, NEW T, TableOK(T), NEW D, Root \notin D
  PROVE  /\ TableOK(Without(T, D))
         /\ \A c \in DOMAIN Without(T, D) :
              Chain(Up(Without(T, D)), c) = Chain(Up(T), c)
<1>0. PICK W : W = Without(T, D)
  OBVIOUS
<1>1. /\ W = Without(T, D) /\ DOMAIN W = DOMAIN T \ Gone(T, D)
      /\ (\A c \in DOMAIN W : W[c] = T[c]) /\ W = [c \in DOMAIN W |-> W[c]]
  BY <1>0 DEF Without
<1>2. ASSUME NEW d \in DOMAIN W PROVE T[d].parent \in DOMAIN W \cup {Root}
  <2>1. T[d].parent \in DOMAIN T \cup {Root} /\ T[d].parent \notin Gone(T, D)
    BY <1>1, TableTree, GoneFacts
  <2> QED BY <1>1, <2>1
<1>3. TableOK(W)
  BY <1>1, <1>2 DEF TableOK
<1>4. ASSUME NEW c \in DOMAIN W PROVE Chain(Up(W), c) = Chain(Up(T), c)
  <2>1. \A e \in Chain(Up(W), c) : e # Root => e \in DOMAIN W
    BY <1>3, TableTree
  <2>2. \A e \in DOMAIN W : Up(W)[e] = W[e].parent /\ Up(T)[e] = T[e].parent
    BY <1>1, <1>3, TableTree
  <2>3. \A e \in Chain(Up(W), c) : e # Root => Up(T)[e] = Up(W)[e]
    BY <1>1, <2>1, <2>2
  <2>4. IsTree(ids, Up(W)) /\ IsTree(ids, Up(T)) /\ c \in ids
    BY <1>1, <1>3, TableTree
  <2> QED BY <2>3, <2>4, ChainAgree
<1> QED BY <1>1, <1>3, <1>4

(* Deleting two sets in turn is deleting both.                             *)
LEMMA WithoutBoth ==
  ASSUME World, NEW T, TableOK(T), NEW D, Root \notin D, NEW E, Root \notin E
  PROVE  Without(Without(T, D), E) = Without(T, D \cup E)
<1>0. PICK W : W = Without(T, D)
  OBVIOUS
<1>1. /\ W = Without(T, D) /\ DOMAIN W = DOMAIN T \ Gone(T, D)
      /\ \A c \in DOMAIN W : W[c] = T[c]
  BY <1>0 DEF Without
<1>2. \A c \in DOMAIN W : Chain(Up(W), c) = Chain(Up(T), c)
  BY <1>1, WithoutOK
<1>3. DOMAIN W \ Gone(W, E) = DOMAIN T \ Gone(T, D \cup E)
  BY <1>1, <1>2 DEF Gone
<1>4. Without(W, E) = [c \in DOMAIN T \ Gone(T, D \cup E) |-> T[c]]
  BY <1>1, <1>3 DEF Without
<1> QED BY <1>1, <1>4 DEF Without

LEMMA WithoutNone ==
  ASSUME World, NEW T, TableOK(T), NEW D, Root \notin D, D \cap DOMAIN T = {}
  PROVE  Gone(T, D) = {} /\ Without(T, D) = T
<1>1. Gone(T, D) = {}
  <2> SUFFICES ASSUME NEW c \in DOMAIN T, NEW e \in Chain(Up(T), c), e \in D PROVE FALSE
    BY DEF Gone
  <2>1. e \in DOMAIN T \cup {Root}
    BY TableTree
  <2> QED BY <2>1
<1> QED BY <1>1 DEF Without, TableOK

LEMMA GoneOne ==
  ASSUME World, NEW T, TableOK(T), NEW d \in DOMAIN T
  PROVE  Gone(T, {d}) = Descendants(T, d) \cup {d}
<1>1. d \in Chain(Up(T), d)
  BY TableTree, ChainFacts
<1> QED BY <1>1 DEF Gone, Descendants

(* A new document, or a new parent, that leaves the tables well-formed.    *)
LEMMA PutOK ==
  ASSUME World, NEW T, TableOK(T), NEW d \in ids, NEW x,
         x \in [parent : DOMAIN T \cup {d, Root}, body : Bodies[d]]
  PROVE  /\ TableOK(Put(T, d, x)) /\ DOMAIN Put(T, d, x) = DOMAIN T \cup {d}
         /\ Put(T, d, x)[d] = x /\ \A c \in DOMAIN T : c # d => Put(T, d, x)[c] = T[c]
<1>1. PICK P : P = Put(T, d, x)
  OBVIOUS
<1>2. /\ DOMAIN P = DOMAIN T \cup {d} /\ P[d] = x
      /\ (\A c \in DOMAIN T : c # d => P[c] = T[c]) /\ P = [c \in DOMAIN P |-> P[c]]
  BY <1>1 DEF Put
<1>3. \A c \in DOMAIN P : P[c] \in [parent : DOMAIN P \cup {Root}, body : Bodies[c]]
  <2> SUFFICES ASSUME NEW c \in DOMAIN P
               PROVE P[c] \in [parent : DOMAIN P \cup {Root}, body : Bodies[c]]
    OBVIOUS
  <2>1. CASE c = d
    BY <1>2, <2>1
  <2>2. CASE c # d
    <3>1. T[c] \in [parent : DOMAIN T \cup {Root}, body : Bodies[c]]
      BY <1>2, <2>2 DEF TableOK
    <3> QED BY <1>2, <2>2, <3>1
  <2> QED BY <2>1, <2>2
<1>4. TableOK(P)
  BY <1>2, <1>3 DEF TableOK
<1> QED BY <1>1, <1>2, <1>4

-----------------------------------------------------------------------------
(* Operations of this world, and what one makes of a table.                *)
OpOK(o) ==
  /\ o.id \in ids
  /\ \/ o.op = "create" /\ o.doc \in [parent : Parents, body : Bodies[o.id]]
     \/ /\ o.op = "update"
        /\ \E b, c \in Bodies[o.id] : \E F \in SUBSET DOMAIN b :
             o.old = Restrict(b, F) /\ o.new = Restrict(c, F)
     \/ o.op = "move" /\ o.parent \in Parents /\ o.old \in Parents
     \/ o.op = "delete"

StateOK(t) ==
  /\ t = [ok |-> t.ok, docs |-> t.docs, filed |-> t.filed]
  /\ t.ok \in BOOLEAN /\ TableOK(t.docs) /\ t.filed \in Parents

Possible(T, o) ==
  /\ o.op = "create" => o.doc.parent \in DOMAIN T \cup {Root}
  /\ o.op = "update" => o.id \in DOMAIN T
  /\ o.op = "move" => o.id \in DOMAIN T /\ o.parent \in DOMAIN T \cup {Root}

After(T, o) ==
  IF o.op = "create" THEN Put(T, o.id, o.doc)
  ELSE IF o.op = "update"
       THEN Put(T, o.id, [parent |-> T[o.id].parent, body |-> Body(T, o.id, o)])
  ELSE IF o.op = "move" THEN Put(T, o.id, [parent |-> o.parent, body |-> T[o.id].body])
  ELSE Without(T, {o.id})

FiledAfter(T, f, o) ==
  LET kept == IF f = o.id THEN T[o.id].parent ELSE f
  IN IF o.op # "delete" \/ o.id \notin DOMAIN T THEN f
     ELSE IF kept \in Gone(T, {o.id}) THEN Root ELSE kept

LEMMA OpKinds ==
  ASSUME NEW o, OpOK(o)
  PROVE  o.id \in ids /\ o.op \in {"create", "update", "move", "delete"}
BY DEF OpOK

LEMMA BodyIn ==
  ASSUME World, NEW T, TableOK(T), NEW o, OpOK(o), o.op = "update", o.id \in DOMAIN T
  PROVE  Body(T, o.id, o) \in Bodies[o.id]
<1>1. PICK b \in Bodies[o.id], c \in Bodies[o.id] :
          \E G \in SUBSET DOMAIN b : o.new = Restrict(c, G)
  BY DEF OpOK
<1>0. PICK F \in SUBSET DOMAIN b : o.new = Restrict(c, F)
  BY <1>1
<1>2. o.id \in Docs /\ T[o.id].body \in Bodies[o.id]
  BY DEF World, TableOK
<1>3. F \in SUBSET DOMAIN T[o.id].body
  BY <1>1, <1>2, ConstantsOK
<1>4. Over(Restrict(c, F), T[o.id].body) \in Bodies[o.id]
  BY <1>1, <1>2, <1>3, ConstantsOK
<1> QED BY <1>0, <1>4 DEF Body

LEMMA AfterOK ==
  ASSUME World, NEW T, TableOK(T), NEW o, OpOK(o), Possible(T, o)
  PROVE  /\ TableOK(After(T, o))
         /\ \A f \in Parents : FiledAfter(T, f, o) \in Parents
<1>1. o.id \in ids /\ o.op \in {"create", "update", "move", "delete"} /\ o.id # Root
  BY OpKinds DEF World
<1>2. CASE o.op = "create"
  <2>1. o.doc \in [parent : DOMAIN T \cup {o.id, Root}, body : Bodies[o.id]]
    BY <1>2 DEF OpOK, Possible
  <2> QED BY <1>1, <1>2, <2>1, PutOK DEF After, FiledAfter
<1>3. CASE o.op = "update"
  <2>1. PICK x : x = [parent |-> T[o.id].parent, body |-> Body(T, o.id, o)]
    OBVIOUS
  <2>2. o.id \in DOMAIN T /\ T[o.id].parent \in DOMAIN T \cup {Root}
    BY <1>3, TableTree DEF Possible
  <2>3. x \in [parent : DOMAIN T \cup {o.id, Root}, body : Bodies[o.id]]
    BY <1>3, <2>1, <2>2, BodyIn
  <2>4. TableOK(Put(T, o.id, x))
    BY <1>1, <2>3, PutOK
  <2> QED BY <1>1, <1>3, <2>1, <2>4 DEF After, FiledAfter
<1>4. CASE o.op = "move"
  <2>1. PICK x : x = [parent |-> o.parent, body |-> T[o.id].body]
    OBVIOUS
  <2>2. x \in [parent : DOMAIN T \cup {o.id, Root}, body : Bodies[o.id]]
    BY <1>4, <2>1 DEF Possible, TableOK
  <2>3. TableOK(Put(T, o.id, x))
    BY <1>1, <2>2, PutOK
  <2> QED BY <1>1, <1>4, <2>1, <2>3 DEF After, FiledAfter
<1>5. CASE o.op = "delete"
  <2>1. TableOK(Without(T, {o.id}))
    BY <1>1, WithoutOK
  <2>2. \A f \in Parents : FiledAfter(T, f, o) \in Parents
    <3>1. o.id \in DOMAIN T => T[o.id].parent \in Parents
      BY TableTree DEF Parents, TableOK
    <3> QED BY <3>1 DEF FiledAfter, Parents
  <2> QED BY <1>5, <2>1, <2>2 DEF After
<1> QED BY <1>1, <1>2, <1>3, <1>4, <1>5

LEMMA ApplyIs ==
  ASSUME World, NEW t, StateOK(t), NEW o, OpOK(o)
  PROVE  /\ StateOK(Apply(t, o))
         /\ Apply(t, o).ok <=> t.ok /\ Possible(t.docs, o)
         /\ Apply(t, o).ok => /\ Apply(t, o).docs = After(t.docs, o)
                              /\ Apply(t, o).filed = FiledAfter(t.docs, t.filed, o)
<1> DEFINE T == t.docs
           done == [ok |-> TRUE, docs |-> After(T, o), filed |-> FiledAfter(T, t.filed, o)]
           fail == [ok |-> FALSE, docs |-> T, filed |-> t.filed]
<1>1. o.id \in ids /\ o.op \in {"create", "update", "move", "delete"} /\ o.id # Root
  BY OpKinds DEF World
<1>2. /\ t = [ok |-> t.ok, docs |-> T, filed |-> t.filed]
      /\ t.ok \in BOOLEAN /\ TableOK(T) /\ t.filed \in Parents
  BY DEF StateOK
<1>3. /\ [t EXCEPT !.ok = FALSE] = fail
      /\ \A U : [t EXCEPT !.docs = U] = [ok |-> t.ok, docs |-> U, filed |-> t.filed]
      /\ \A U, g : [t EXCEPT !.docs = U, !.filed = g] = [ok |-> t.ok, docs |-> U, filed |-> g]
  <2>1. PICK a, V, f : a = t.ok /\ V = T /\ f = t.filed
    OBVIOUS
  <2>2. t = [ok |-> a, docs |-> V, filed |-> f]
    BY <1>2, <2>1, Zenon
  <2> HIDE DEF T
  <2>3. ASSUME NEW u PROVE [t EXCEPT !.ok = u] = [ok |-> u, docs |-> V, filed |-> f]
    BY <2>2
  <2>4. PICK no : no = FALSE
    OBVIOUS
  <2>5. [t EXCEPT !.ok = no] = [ok |-> no, docs |-> V, filed |-> f]
    BY <2>3
  <2>6. ASSUME NEW U PROVE [t EXCEPT !.docs = U] = [ok |-> a, docs |-> U, filed |-> f]
    BY <2>2
  <2>7. ASSUME NEW U, NEW g
        PROVE [t EXCEPT !.docs = U, !.filed = g] = [ok |-> a, docs |-> U, filed |-> g]
    <3>1. PICK u : u = [ok |-> a, docs |-> U, filed |-> f]
      OBVIOUS
    <3>2. [u EXCEPT !.filed = g] = [ok |-> a, docs |-> U, filed |-> g]
      BY <3>1
    <3>3. [t EXCEPT !.docs = U] = u
      BY <2>6, <3>1
    <3>4. [t EXCEPT !.docs = U, !.filed = g] = [[t EXCEPT !.docs = U] EXCEPT !.filed = g]
      OBVIOUS
    <3> QED BY <3>2, <3>3, <3>4, Zenon
  <2>8. [t EXCEPT !.ok = FALSE] = fail
    BY <2>1, <2>4, <2>5, Zenon
  <2>9. \A U : [t EXCEPT !.docs = U] = [ok |-> t.ok, docs |-> U, filed |-> t.filed]
    BY <2>1, <2>6, Zenon
  <2>10. \A U, g : [t EXCEPT !.docs = U, !.filed = g] = [ok |-> t.ok, docs |-> U, filed |-> g]
    BY <2>1, <2>7, Zenon
  <2> QED BY <2>8, <2>9, <2>10
<1>4. CASE ~t.ok
  <2>1. Apply(t, o) = t
    BY <1>4, Zenon DEF Apply
  <2> QED BY <1>4, <2>1
<1>5. CASE t.ok /\ o.op = "create"
  <2>1. Apply(t, o) = IF o.doc.parent = Root \/ o.doc.parent \in DOMAIN T
                      THEN [t EXCEPT !.docs = Put(@, o.id, o.doc)] ELSE fail
    BY <1>3, <1>5 DEF Apply
  <2>3. [t EXCEPT !.docs = Put(@, o.id, o.doc)] = [ok |-> TRUE, docs |-> Put(T, o.id, o.doc), filed |-> t.filed]
    BY <1>2, <1>3, <1>5
  <2>4. Possible(T, o) <=> o.doc.parent = Root \/ o.doc.parent \in DOMAIN T
    BY <1>5 DEF Possible
  <2>5. After(T, o) = Put(T, o.id, o.doc) /\ FiledAfter(T, t.filed, o) = t.filed
    BY <1>5 DEF After, FiledAfter
  <2>6. CASE Possible(T, o)
    <3>1. Apply(t, o) = done
      BY <2>1, <2>3, <2>4, <2>5, <2>6
    <3>2. TableOK(After(T, o)) /\ FiledAfter(T, t.filed, o) \in Parents
      BY <1>2, <2>6, AfterOK
    <3> QED BY <1>5, <2>6, <3>1, <3>2 DEF StateOK
  <2>7. CASE ~Possible(T, o)
    <3>1. Apply(t, o) = fail
      BY <2>1, <2>4, <2>7
    <3> QED BY <1>2, <1>5, <2>7, <3>1 DEF StateOK
  <2> QED BY <2>6, <2>7
<1>6. CASE t.ok /\ o.op = "update"
  <2>1. Apply(t, o) = IF o.id \in DOMAIN T
                      THEN [t EXCEPT !.docs[o.id].body = Body(T, o.id, o)] ELSE fail
    BY <1>3, <1>6 DEF Apply
  <2>2. ASSUME o.id \in DOMAIN T
        PROVE  [t EXCEPT !.docs[o.id].body = Body(T, o.id, o)] = done
    <3>1. /\ T[o.id] \in [parent : DOMAIN T \cup {Root}, body : Bodies[o.id]]
          /\ T = [d \in DOMAIN T |-> T[d]]
      BY <1>2, <2>2 DEF TableOK
    <3>2. PICK b : b = Body(T, o.id, o)
      OBVIOUS
    <3>3. PICK x : x = [parent |-> T[o.id].parent, body |-> b]
      OBVIOUS
    <3>4. [T[o.id] EXCEPT !.body = b] = x
      BY <3>1, <3>3
    <3>5. [T EXCEPT ![o.id] = x] = Put(T, o.id, x)
      BY <2>2, <3>1 DEF Put
    <3>6. [T EXCEPT ![o.id].body = b] = [T EXCEPT ![o.id] = x]
      BY <2>2, <3>1, <3>4
    <3>7. [t EXCEPT !.docs[o.id].body = b] = [ok |-> TRUE, docs |-> [T EXCEPT ![o.id].body = b], filed |-> t.filed]
      BY <1>3, <1>6
    <3>8. After(T, o) = Put(T, o.id, x) /\ FiledAfter(T, t.filed, o) = t.filed
      BY <1>6, <3>2, <3>3 DEF After, FiledAfter
    <3> QED BY <3>2, <3>5, <3>6, <3>7, <3>8
  <2>3. Possible(T, o) <=> o.id \in DOMAIN T
    BY <1>6 DEF Possible
  <2>4. CASE Possible(T, o)
    <3>1. Apply(t, o) = done
      BY <2>1, <2>2, <2>3, <2>4
    <3>2. TableOK(After(T, o)) /\ FiledAfter(T, t.filed, o) \in Parents
      BY <1>2, <2>4, AfterOK
    <3> QED BY <1>6, <2>4, <3>1, <3>2 DEF StateOK
  <2>5. CASE ~Possible(T, o)
    <3>1. Apply(t, o) = fail
      BY <2>1, <2>3, <2>5
    <3> QED BY <1>2, <1>6, <2>5, <3>1 DEF StateOK
  <2> QED BY <2>4, <2>5
<1>7. CASE t.ok /\ o.op = "move"
  <2>1. Apply(t, o) = IF o.id \in DOMAIN T /\ (o.parent = Root \/ o.parent \in DOMAIN T)
                      THEN [t EXCEPT !.docs[o.id].parent = o.parent] ELSE fail
    BY <1>3, <1>7 DEF Apply
  <2>2. ASSUME o.id \in DOMAIN T
        PROVE  [t EXCEPT !.docs[o.id].parent = o.parent] = done
    <3>1. /\ T[o.id] \in [parent : DOMAIN T \cup {Root}, body : Bodies[o.id]]
          /\ T = [d \in DOMAIN T |-> T[d]]
      BY <1>2, <2>2 DEF TableOK
    <3>3. PICK x : x = [parent |-> o.parent, body |-> T[o.id].body]
      OBVIOUS
    <3>4. [T[o.id] EXCEPT !.parent = o.parent] = x
      BY <3>1, <3>3
    <3>5. [T EXCEPT ![o.id] = x] = Put(T, o.id, x)
      BY <2>2, <3>1 DEF Put
    <3>6. [T EXCEPT ![o.id].parent = o.parent] = [T EXCEPT ![o.id] = x]
      BY <2>2, <3>1, <3>4
    <3>7. [t EXCEPT !.docs[o.id].parent = o.parent]
            = [ok |-> TRUE, docs |-> [T EXCEPT ![o.id].parent = o.parent], filed |-> t.filed]
      BY <1>3, <1>7
    <3>8. After(T, o) = Put(T, o.id, x) /\ FiledAfter(T, t.filed, o) = t.filed
      BY <1>7, <3>3 DEF After, FiledAfter
    <3> QED BY <3>5, <3>6, <3>7, <3>8
  <2>3. Possible(T, o) <=> o.id \in DOMAIN T /\ (o.parent = Root \/ o.parent \in DOMAIN T)
    BY <1>7 DEF Possible
  <2>4. CASE Possible(T, o)
    <3>1. Apply(t, o) = done
      BY <2>1, <2>2, <2>3, <2>4
    <3>2. TableOK(After(T, o)) /\ FiledAfter(T, t.filed, o) \in Parents
      BY <1>2, <2>4, AfterOK
    <3> QED BY <1>7, <2>4, <3>1, <3>2 DEF StateOK
  <2>5. CASE ~Possible(T, o)
    <3>1. Apply(t, o) = fail
      BY <2>1, <2>3, <2>5
    <3> QED BY <1>2, <1>7, <2>5, <3>1 DEF StateOK
  <2> QED BY <2>4, <2>5
<1>8. CASE t.ok /\ o.op = "delete"
  <2>1. Possible(T, o)
    BY <1>8 DEF Possible
  <2>2. Apply(t, o) = delete_document_tx(t, o.id)
    BY <1>8 DEF Apply
  <2>3. After(T, o) = Without(T, {o.id})
    BY <1>8 DEF After
  <2>4. delete_document_tx(t, o.id) = done
    <3>1. CASE o.id \notin DOMAIN T
      <4>1. Without(T, {o.id}) = T
        <5>1. Root \notin {o.id} /\ {o.id} \cap DOMAIN T = {}
          BY <1>1, <3>1
        <5> QED BY <1>2, <5>1, WithoutNone
      <4>2. FiledAfter(T, t.filed, o) = t.filed
        BY <3>1 DEF FiledAfter
      <4>3. delete_document_tx(t, o.id) = t
        BY <3>1 DEF delete_document_tx
      <4> QED BY <1>2, <1>8, <2>3, <4>1, <4>2, <4>3
    <3>2. CASE o.id \in DOMAIN T
      <4>1. PICK G : G = Gone(T, {o.id}) /\ G = Descendants(T, o.id) \cup {o.id}
        BY <1>2, <3>2, GoneOne
      <4>2. PICK kept : kept = IF t.filed = o.id THEN T[o.id].parent ELSE t.filed
        OBVIOUS
      <4>3. delete_document_tx(t, o.id)
              = [t EXCEPT !.docs = Restrict(@, DOMAIN @ \ G), !.filed = IF kept \in G THEN Root ELSE kept]
        BY <3>2, <4>1, <4>2, Zenon DEF delete_document_tx
      <4>4. Restrict(T, DOMAIN T \ G) = Without(T, {o.id})
        BY <4>1 DEF Restrict, Without
      <4>5. FiledAfter(T, t.filed, o) = IF kept \in G THEN Root ELSE kept
        BY <1>8, <3>2, <4>1, <4>2 DEF FiledAfter
      <4>6. PICK f : f = IF kept \in G THEN Root ELSE kept
        OBVIOUS
      <4>7. [t EXCEPT !.docs = Restrict(@, DOMAIN @ \ G), !.filed = f]
              = [ok |-> TRUE, docs |-> Restrict(T, DOMAIN T \ G), filed |-> f]
        <5>1. PICK V : V = Restrict(T, DOMAIN T \ G)
          OBVIOUS
        <5>2. [t EXCEPT !.docs = Restrict(@, DOMAIN @ \ G), !.filed = f]
                = [t EXCEPT !.docs = V, !.filed = f]
          BY <5>1
        <5> QED BY <1>3, <1>8, <5>1, <5>2, Zenon
      <4> QED BY <2>3, <4>3, <4>4, <4>5, <4>6, <4>7
    <3> QED BY <3>1, <3>2
  <2>5. TableOK(After(T, o)) /\ FiledAfter(T, t.filed, o) \in Parents
    BY <1>2, <2>1, AfterOK
  <2> QED BY <1>8, <2>1, <2>2, <2>4, <2>5 DEF StateOK
<1> QED BY <1>1, <1>2, <1>4, <1>5, <1>6, <1>7, <1>8

-----------------------------------------------------------------------------
(* A batch expanded: the operations of each of its members in turn.        *)
Flattens(X, n, parts, G) ==
  n \in Nat /\ n # 0 /\ parts \in [1..n -> Seq(X)] /\ G = FlattenSeq(parts)

Offsets(n, parts, G, off) ==
  /\ off \in [0..n -> Nat] /\ off[0] = 0 /\ off[n] = Len(G)
  /\ \A j \in 1..n : /\ off[j] = off[j - 1] + Len(parts[j])
                     /\ \A p \in 1..Len(parts[j]) : G[off[j - 1] + p] = parts[j][p]
  /\ \A k \in 1..off[n] : \E j \in 1..n : \E p \in 1..Len(parts[j]) : k = off[j - 1] + p

LEMMA FlattenFacts ==
  ASSUME NEW X, NEW n, NEW parts, NEW G, Flattens(X, n, parts, G)
  PROVE  G \in Seq(X) /\ \E off : Offsets(n, parts, G, off)
<1>0. n \in Nat /\ n # 0 /\ parts \in [1..n -> Seq(X)] /\ G = FlattenSeq(parts)
  BY DEF Flattens
<1> USE <1>0
<1> DEFINE Iter(h, k) == h = [i \in 1..k |-> IF i = 1 THEN parts[i] ELSE h[i - 1] \o parts[i]]
<1>1. Len(parts) = n
  BY <1>0
<1>2. FlattenSeq(parts) = (CHOOSE h : Iter(h, n))[n]
  BY <1>1, Zenon DEF FlattenSeq
<1>3. ASSUME NEW k \in Nat \ {0}, NEW h, Iter(h, k) PROVE \E g : Iter(g, k + 1)
  <2> DEFINE g == [i \in 1..k + 1 |-> IF i = k + 1 THEN h[k] \o parts[k + 1] ELSE h[i]]
  <2>1. ASSUME NEW i \in 1..k + 1
        PROVE g[i] = IF i = 1 THEN parts[i] ELSE g[i - 1] \o parts[i]
    <3>1. CASE i = k + 1
      <4>1. i # 1 /\ i - 1 = k /\ i - 1 \in 1..k + 1 /\ i - 1 # k + 1
        BY <3>1
      <4>2. g[i] = h[k] \o parts[k + 1] /\ g[i - 1] = h[i - 1]
        BY <3>1, <4>1, Zenon
      <4> QED BY <3>1, <4>1, <4>2, Zenon
    <3>2. CASE i # k + 1
      <4>1. i \in 1..k /\ g[i] = h[i] /\ (i # 1 => g[i - 1] = h[i - 1])
        BY <3>2
      <4>2. h[i] = IF i = 1 THEN parts[i] ELSE h[i - 1] \o parts[i]
        BY <1>3, <4>1
      <4> QED BY <4>1, <4>2
    <3> QED BY <3>1, <3>2
  <2>2. Iter(g, k + 1)
    BY <2>1
  <2> QED BY <2>2
<1>4. PICK fl : fl = (CHOOSE h : Iter(h, n)) /\ Iter(fl, n)
  <2>1. Iter([i \in 1..1 |-> parts[i]], 1)
    OBVIOUS
  <2>2. PICK T : T = {k \in Nat : \E h : Iter(h, k + 1)}
    OBVIOUS
  <2> HIDE DEF Iter
  <2>3. 0 \in T
    BY <2>1, <2>2
  <2>4. ASSUME NEW k \in Nat, k \in T PROVE k + 1 \in T
    BY <1>3, <2>2, <2>4
  <2>5. Nat \subseteq T
    BY <2>3, <2>4, NatInd
  <2>6. n - 1 \in T /\ (n - 1) + 1 = n
    BY <2>5
  <2>7. \E h : Iter(h, n)
    BY <2>2, <2>6
  <2> QED BY <2>7, Zenon
<1>5. fl[1] = parts[1] /\ \A i \in 1..n : i # 1 => fl[i] = fl[i - 1] \o parts[i]
  <2>1. 1 \in 1..n
    OBVIOUS
  <2> QED BY <1>4, <2>1, Zenon
<1> HIDE DEF Iter
<1>6. FlattenSeq(parts) = fl[n]
  BY <1>2, <1>4, Zenon
<1>7. \A i \in 1..n : fl[i] \in Seq(X)
  <2>1. PICK T : T = {i \in Nat : i \in 1..n => fl[i] \in Seq(X)}
    OBVIOUS
  <2>2. 0 \in T
    BY <2>1
  <2>3. ASSUME NEW i \in Nat, i \in T PROVE i + 1 \in T
    <3> SUFFICES ASSUME i + 1 \in 1..n PROVE fl[i + 1] \in Seq(X)
      BY <2>1
    <3>1. parts[i + 1] \in Seq(X)
      OBVIOUS
    <3>2. CASE i = 0
      BY <1>5, <3>1, <3>2
    <3>3. CASE i # 0
      <4>1. i \in 1..n /\ i + 1 # 1 /\ (i + 1) - 1 = i
        BY <3>3
      <4>2. fl[i] \in Seq(X)
        BY <2>1, <2>3, <4>1
      <4>3. fl[i + 1] = fl[(i + 1) - 1] \o parts[i + 1]
        BY <1>5, <4>1, Zenon
      <4> QED BY <3>1, <4>1, <4>2, <4>3
    <3> QED BY <3>2, <3>3
  <2>4. Nat \subseteq T
    BY <2>2, <2>3, NatInd
  <2> QED BY <2>1, <2>4
<1>8. PICK off : off = [j \in 0..n |-> IF j = 0 THEN 0 ELSE Len(fl[j])]
  OBVIOUS
<1>9. /\ off \in [0..n -> Nat] /\ off[0] = 0
      /\ \A i \in 1..n : off[i] = Len(fl[i]) /\ Len(parts[i]) \in Nat
  BY <1>7, <1>8
<1>10. \A i \in 1..n : /\ off[i] = off[i - 1] + Len(parts[i])
                       /\ \A p \in 1..Len(parts[i]) : fl[i][off[i - 1] + p] = parts[i][p]
                       /\ i # 1 => \A k \in 1..off[i - 1] : fl[i][k] = fl[i - 1][k]
  <2> SUFFICES ASSUME NEW i \in 1..n
               PROVE  /\ off[i] = off[i - 1] + Len(parts[i])
                      /\ \A p \in 1..Len(parts[i]) : fl[i][off[i - 1] + p] = parts[i][p]
                      /\ i # 1 => \A k \in 1..off[i - 1] : fl[i][k] = fl[i - 1][k]
    OBVIOUS
  <2>1. CASE i = 1
    BY <1>5, <1>9, <2>1
  <2>2. CASE i # 1
    <3>1. i - 1 \in 1..n
      BY <2>2
    <3>2. PICK s \in Seq(X), t \in Seq(X) : s = fl[i - 1] /\ t = parts[i]
      BY <1>7, <3>1
    <3>3. fl[i] = s \o t /\ off[i - 1] = Len(s) /\ off[i] = Len(s \o t)
      BY <1>5, <1>9, <2>2, <3>1, <3>2
    <3> QED BY <3>2, <3>3
  <2> QED BY <2>1, <2>2
<1>11. PICK T : T = {i \in Nat : i \in 1..n =>
         /\ \A j \in 1..i : \A p \in 1..Len(parts[j]) :
              off[j - 1] + p <= off[i] /\ fl[i][off[j - 1] + p] = parts[j][p]
         /\ \A k \in 1..off[i] :
              \E j \in 1..i : \E p \in 1..Len(parts[j]) : k = off[j - 1] + p}
  OBVIOUS
<1>12. 0 \in T
  BY <1>11
<1>13. ASSUME NEW i \in Nat, i \in T PROVE i + 1 \in T
  <2> SUFFICES ASSUME i + 1 \in 1..n
               PROVE  /\ \A j \in 1..i + 1 : \A p \in 1..Len(parts[j]) :
                           off[j - 1] + p <= off[i + 1] /\ fl[i + 1][off[j - 1] + p] = parts[j][p]
                      /\ \A k \in 1..off[i + 1] :
                           \E j \in 1..i + 1 : \E p \in 1..Len(parts[j]) : k = off[j - 1] + p
    BY <1>11
  <2>1. /\ off[i + 1] = off[i] + Len(parts[i + 1]) /\ off[i] \in Nat /\ Len(parts[i + 1]) \in Nat
        /\ \A p \in 1..Len(parts[i + 1]) : fl[i + 1][off[i] + p] = parts[i + 1][p]
        /\ i # 0 => \A k \in 1..off[i] : fl[i + 1][k] = fl[i][k]
    <3>1. (i + 1) - 1 = i /\ i \in 0..n /\ (i # 0 => i + 1 # 1)
      OBVIOUS
    <3>2. off[i] \in Nat /\ Len(parts[i + 1]) \in Nat
      BY <1>9, <3>1
    <3>3. PICK m \in 1..n : m = i + 1 /\ m - 1 = i /\ (i # 0 => m # 1)
      BY <3>1
    <3>4. /\ off[m] = off[m - 1] + Len(parts[m])
          /\ \A p \in 1..Len(parts[m]) : fl[m][off[m - 1] + p] = parts[m][p]
          /\ m # 1 => \A k \in 1..off[m - 1] : fl[m][k] = fl[m - 1][k]
      BY <1>10, Zenon
    <3> QED BY <3>2, <3>3, <3>4, Zenon
  <2>2. /\ \A j \in 1..i : \A p \in 1..Len(parts[j]) :
              off[j - 1] + p <= off[i] /\ fl[i][off[j - 1] + p] = parts[j][p]
        /\ \A k \in 1..off[i] :
              \E j \in 1..i : \E p \in 1..Len(parts[j]) : k = off[j - 1] + p
    BY <1>9, <1>11, <1>13
  <2>3. ASSUME NEW j \in 1..i + 1, NEW p \in 1..Len(parts[j])
        PROVE  off[j - 1] + p <= off[i + 1] /\ fl[i + 1][off[j - 1] + p] = parts[j][p]
    <3>1. CASE j = i + 1
      <4>0. PICK w \in Nat : w = Len(parts[i + 1]) /\ w = Len(parts[j])
        BY <2>1, <3>1
      <4>1. j - 1 = i /\ p \in Nat /\ p <= Len(parts[i + 1])
        BY <3>1, <4>0
      <4>2. fl[i + 1][off[i] + p] = parts[i + 1][p]
        BY <2>1, <3>1
      <4>3. PICK a \in Nat, l \in Nat : a = off[i] /\ l = Len(parts[i + 1])
        BY <2>1
      <4>4. off[i] + p <= off[i + 1]
        BY <2>1, <4>1, <4>3
      <4> QED BY <3>1, <4>1, <4>2, <4>4, Zenon
    <3>2. CASE j # i + 1
      <4>1. j \in 1..i /\ i # 0 /\ off[j - 1] \in Nat /\ Len(parts[j]) \in Nat
        BY <1>9, <3>2
      <4>2. off[j - 1] + p <= off[i] /\ fl[i][off[j - 1] + p] = parts[j][p]
        BY <2>2, <4>1
      <4>3. p \in Nat /\ p >= 1
        BY <4>1
      <4>4. off[j - 1] + p \in 1..off[i]
        <5>1. PICK a \in Nat, b \in Nat : a = off[j - 1] /\ b = off[i]
          BY <2>1, <4>1
        <5>2. a + p <= b
          BY <4>2, <5>1
        <5>3. a + p \in 1..b
          BY <4>3, <5>2
        <5> QED BY <5>1, <5>3
      <4>5. PICK q : q = off[j - 1] + p
        OBVIOUS
      <4>6. fl[i + 1][q] = fl[i][q] /\ fl[i][q] = parts[j][p]
        BY <2>1, <4>1, <4>2, <4>4, <4>5
      <4>7. q <= off[i + 1]
        BY <2>1, <4>4, <4>5
      <4> QED BY <4>5, <4>6, <4>7
    <3> QED BY <3>1, <3>2
  <2>4. ASSUME NEW k \in 1..off[i + 1]
        PROVE  \E j \in 1..i + 1 : \E p \in 1..Len(parts[j]) : k = off[j - 1] + p
    <3>1. CASE k <= off[i]
      <4>1. k \in 1..off[i]
        BY <2>1, <3>1
      <4>2. PICK j, p : j \in 1..i /\ p \in 1..Len(parts[j]) /\ k = off[j - 1] + p
        <5>1. \E j \in 1..i : \E p \in 1..Len(parts[j]) : k = off[j - 1] + p
          BY <2>2, <4>1
        <5> QED BY <5>1, Zenon
      <4>3. j \in 1..i
        BY <4>2, Zenon
      <4>4. j \in 1..i + 1
        BY <4>3
      <4> QED BY <4>2, <4>4, Zenon
    <3>2. CASE k > off[i]
      <4>1. PICK p : p = k - off[i]
        OBVIOUS
      <4>2. p \in 1..Len(parts[i + 1]) /\ k = off[(i + 1) - 1] + p
        BY <2>1, <3>2, <4>1
      <4> QED BY <4>2
    <3> QED BY <2>1, <3>1, <3>2
  <2> QED BY <2>3, <2>4
<1>14. n \in T
  <2>1. Nat \subseteq T
    BY <1>12, <1>13, NatInd
  <2> QED BY <2>1
<1>15. /\ \A j \in 1..n : \A p \in 1..Len(parts[j]) : fl[n][off[j - 1] + p] = parts[j][p]
       /\ \A k \in 1..off[n] : \E j \in 1..n : \E p \in 1..Len(parts[j]) : k = off[j - 1] + p
  <2>1. n \in 1..n
    OBVIOUS
  <2> QED BY <1>11, <1>14, <2>1
<1>16. fl[n] \in Seq(X) /\ off[n] = Len(fl[n])
  BY <1>7, <1>9
<1>17. /\ off \in [0..n -> Nat] /\ off[0] = 0 /\ off[n] = Len(fl[n])
       /\ \A j \in 1..n : /\ off[j] = off[j - 1] + Len(parts[j])
                          /\ \A p \in 1..Len(parts[j]) : fl[n][off[j - 1] + p] = parts[j][p]
       /\ \A k \in 1..off[n] : \E j \in 1..n : \E p \in 1..Len(parts[j]) : k = off[j - 1] + p
  BY <1>9, <1>10, <1>15, <1>16, Zenon
<1>18. G = fl[n]
  BY <1>0, <1>6, Zenon
<1>19. /\ off \in [0..n -> Nat] /\ off[0] = 0 /\ off[n] = Len(G)
       /\ \A j \in 1..n : /\ off[j] = off[j - 1] + Len(parts[j])
                          /\ \A p \in 1..Len(parts[j]) : G[off[j - 1] + p] = parts[j][p]
       /\ \A k \in 1..off[n] : \E j \in 1..n : \E p \in 1..Len(parts[j]) : k = off[j - 1] + p
  BY <1>17, <1>18, Zenon
<1>20. G \in Seq(X)
  BY <1>16, <1>18, Zenon
<1>21. Offsets(n, parts, G, off)
  BY <1>19, Zenon DEF Offsets
<1> QED BY <1>20, <1>21, Zenon

(* The least member of a set of naturals.                                  *)
LEMMA NatMin ==
  ASSUME NEW S \in SUBSET Nat, S # {}
  PROVE  \E x \in S : \A y \in S : x <= y
<1>1. IsWellFoundedOn({p \in Nat \X Nat : p[1] < p[2]}, Nat)
  BY NatLessThanWellFounded DEF OpToRel
<1>2. PICK R : R = {p \in Nat \X Nat : p[1] < p[2]}
  OBVIOUS
<1>3. PICK x \in S : \A y \in S : ~(<<y, x>> \in R)
  BY <1>1, <1>2, WFMin
<1>4. ASSUME NEW y \in S PROVE x <= y
  <2>1. x \in Nat /\ y \in Nat /\ ~(<<y, x>> \in R)
    BY <1>3
  <2>2. y < x => <<y, x>> \in R
    BY <1>2, <2>1
  <2> QED BY <2>1, <2>2
<1> QED BY <1>4

(* A finite set of documents can be listed so that none comes before one   *)
(* that has strictly less beneath it.                                      *)
LEMMA ListExists ==
  ASSUME NEW S, IsFiniteSet(S), NEW F, \A x \in S : IsFiniteSet(F[x])
  PROVE  \E s \in Lists(S) : \A i, j \in DOMAIN s :
           i < j /\ F[s[j]] \subseteq F[s[i]] => F[s[i]] \subseteq F[s[j]]
<1> DEFINE Sorted(s) == \A i, j \in DOMAIN s :
             i < j /\ F[s[j]] \subseteq F[s[i]] => F[s[i]] \subseteq F[s[j]]
<1>1. PICK T : T = {n \in Nat : \A A \in SUBSET S :
                      Cardinality(A) = n => \E s \in Lists(A) : Sorted(s)}
  OBVIOUS
<1>2. 0 \in T
  <2> SUFFICES ASSUME NEW A \in SUBSET S, Cardinality(A) = 0 PROVE \E s \in Lists(A) : Sorted(s)
    BY <1>1
  <2>1. A = {}
    BY FS_Subset, FS_EmptySet
  <2>2. PICK s : s = [i \in 1..0 |-> i]
    OBVIOUS
  <2>3. s \in [1..Cardinality(A) -> A] /\ DOMAIN s = {}
    BY <2>1, <2>2
  <2> QED BY <2>3 DEF Lists, IsInjective
<1>3. ASSUME NEW n \in Nat, n \in T PROVE n + 1 \in T
  <2> SUFFICES ASSUME NEW A \in SUBSET S, Cardinality(A) = n + 1
               PROVE  \E s \in Lists(A) : Sorted(s)
    BY <1>1
  <2>1. IsFiniteSet(A) /\ A # {}
    BY FS_Subset, FS_EmptySet
  <2>2. PICK K : K = {Cardinality(F[x]) : x \in A}
    OBVIOUS
  <2>3. K \in SUBSET Nat /\ K # {}
    BY <2>1, <2>2, FS_CardinalityType
  <2>4. PICK m \in K : \A y \in K : m <= y
    BY <2>3, NatMin
  <2>5. PICK x \in A : m = Cardinality(F[x])
    BY <2>2, <2>4
  <2>6. ASSUME NEW y \in A, F[y] \subseteq F[x] PROVE F[x] \subseteq F[y]
    <3>1. IsFiniteSet(F[x]) /\ IsFiniteSet(F[y]) /\ F[y] \in SUBSET F[x]
      BY <2>6
    <3>2. /\ Cardinality(F[y]) <= Cardinality(F[x])
          /\ Cardinality(F[x]) = Cardinality(F[y]) => F[x] = F[y]
      BY <3>1, FS_Subset
    <3>3. Cardinality(F[x]) <= Cardinality(F[y])
      BY <2>2, <2>4, <2>5
    <3>4. PICK a \in Nat, b \in Nat : a = Cardinality(F[x]) /\ b = Cardinality(F[y])
      BY <3>1, FS_CardinalityType
    <3>5. b <= a /\ a <= b
      BY <3>2, <3>3, <3>4
    <3>6. a = b
      BY <3>5
    <3>7. F[x] = F[y]
      BY <3>2, <3>4, <3>6
    <3> QED BY <3>7
  <2>7. Cardinality(A \ {x}) = n
    <3>1. Cardinality(A \ {x}) = Cardinality(A) - 1
      BY <2>1, FS_RemoveElement
    <3> QED BY <3>1
  <2>8. PICK r \in Lists(A \ {x}) : Sorted(r)
    BY <1>1, <1>3, <2>7
  <2>9. r \in [1..n -> A \ {x}] /\ \A i, j \in 1..n : r[i] = r[j] => i = j
    BY <2>7, <2>8 DEF Lists, IsInjective
  <2>10. PICK s : s = [i \in 1..n + 1 |-> IF i = 1 THEN x ELSE r[i - 1]]
    OBVIOUS
  <2>11. s \in [1..n + 1 -> A] /\ s[1] = x
         /\ \A i \in 1..n + 1 : i # 1 => i - 1 \in 1..n /\ s[i] = r[i - 1]
    BY <2>9, <2>10
  <2>12. \A i, j \in 1..n + 1 : s[i] = s[j] => i = j
    BY <2>9, <2>11
  <2>13. s \in Lists(A)
    BY <2>11, <2>12 DEF Lists, IsInjective
  <2>14. ASSUME NEW i \in 1..n + 1, NEW j \in 1..n + 1, i < j
         PROVE  F[s[j]] \subseteq F[s[i]] => F[s[i]] \subseteq F[s[j]]
    <3>1. CASE i = 1
      BY <2>6, <2>11, <3>1
    <3>2. CASE i # 1
      <4>1. i - 1 \in 1..n /\ j - 1 \in 1..n /\ i - 1 < j - 1 /\ s[i] = r[i - 1] /\ s[j] = r[j - 1]
        BY <2>11, <2>14, <3>2
      <4>2. F[r[j - 1]] \subseteq F[r[i - 1]] => F[r[i - 1]] \subseteq F[r[j - 1]]
        BY <2>8, <2>9, <4>1
      <4> QED BY <4>1, <4>2
    <3> QED BY <3>1, <3>2
  <2>15. Sorted(s)
    BY <2>11, <2>14
  <2> HIDE DEF Sorted
  <2> QED BY <2>13, <2>15
<1>4. Cardinality(S) \in T
  <2>1. Nat \subseteq T
    BY <1>2, <1>3, NatInd
  <2> QED BY <2>1, FS_CardinalityType
<1> HIDE DEF Sorted
<1>5. \E s \in Lists(S) : Sorted(s)
  BY <1>1, <1>4
<1> QED BY <1>5 DEF Sorted

-----------------------------------------------------------------------------
Forest(T) == \A d \in DOMAIN T : Root \in Chain(Up(T), d)

Logged(T, d) == [op |-> "delete", id |-> d, doc |-> T[d]]

(* What a delete is expanded to: everything beneath the document and the   *)
(* document last, each after all that is beneath it.                       *)
ListsAll(T, d, x, m) ==
  /\ m \in Nat \ {0} /\ x \in [1..m -> Descendants(T, d) \cup {d}] /\ x[m] = d
  /\ \A c \in Descendants(T, d) : \E i \in 1..m : x[i] = c
  /\ \A j \in 1..m : \A c \in Descendants(T, x[j]) : \E i \in 1..m : i < j /\ x[i] = c

Expanded(T, o, ops, from, to) ==
  \/ /\ o.op # "delete" \/ o.id \notin DOMAIN T
     /\ to = from + 1 /\ ops[to] = o
  \/ /\ o.op = "delete" /\ o.id \in DOMAIN T
     /\ \E x : /\ ListsAll(T, o.id, x, to - from)
               /\ \A i \in 1..to - from : ops[from + i] = Logged(T, x[i])

Expansion(T, batch, n, ops, off) ==
  /\ off \in [0..n -> Nat] /\ off[0] = 0 /\ off[n] = Len(ops)
  /\ \A j \in 1..n : off[j - 1] < off[j] /\ Expanded(T, batch[j], ops, off[j - 1], off[j])
  /\ \A k \in 1..Len(ops) : \E j \in 1..n : off[j - 1] < k /\ k <= off[j]

(* In a forest nothing is beneath itself, and less is beneath what is      *)
(* beneath.                                                                *)
LEMMA BeneathForest ==
  ASSUME World, NEW T, TableOK(T), Forest(T), NEW d \in DOMAIN T, NEW c \in Descendants(T, d)
  PROVE  /\ d \notin Descendants(T, c)
         /\ Descendants(T, c) \subseteq Descendants(T, d)
<1>1. /\ c \in DOMAIN T /\ c # d /\ c \in ids /\ d \in ids /\ d \in Chain(Up(T), c)
      /\ IsTree(ids, Up(T))
  BY TableTree DEF Descendants
<1>2. d \notin Descendants(T, c)
  <2> SUFFICES ASSUME c \in Chain(Up(T), d) PROVE FALSE
    BY DEF Descendants
  <2>1. Root \in Chain(Up(T), c)
    BY <1>1 DEF Forest
  <2>2. c \notin Chain(Up(T), Up(T)[c])
    BY <1>1, <2>1, ChainOnce
  <2>3. d \in Chain(Up(T), Up(T)[c]) /\ Up(T)[c] \in ids \cup {Root}
    BY <1>1, ChainUp DEF IsTree
  <2>4. Chain(Up(T), d) \subseteq Chain(Up(T), Up(T)[c])
    BY <1>1, <2>3, ChainUp
  <2> QED BY <2>2, <2>4
<1>3. ASSUME NEW e \in Descendants(T, c) PROVE e \in Descendants(T, d)
  <2>1. e \in DOMAIN T /\ c \in Chain(Up(T), e) /\ e \in ids
    BY TableTree DEF Descendants
  <2>2. Chain(Up(T), c) \subseteq Chain(Up(T), e)
    BY <1>1, <2>1, ChainUp
  <2>3. e # d
    BY <1>2
  <2> QED BY <1>1, <2>1, <2>2, <2>3 DEF Descendants
<1> QED BY <1>2, <1>3

LEMMA ListedFirst ==
  ASSUME World, NEW T, TableOK(T), NEW d \in DOMAIN T
  PROVE  /\ descendants_first(T, d) \in Lists(Descendants(T, d))
         /\ \A i, j \in DOMAIN descendants_first(T, d) :
              i < j /\ NoMoreBeneath(T, descendants_first(T, d)[j], descendants_first(T, d)[i])
                => NoMoreBeneath(T, descendants_first(T, d)[i], descendants_first(T, d)[j])
<1>1. PICK S : S = Descendants(T, d)
  OBVIOUS
<1>2. IsFiniteSet(S)
  <2>1. S \in SUBSET ids
    BY <1>1 DEF Descendants, TableOK
  <2> QED BY <2>1, FS_Subset DEF World
<1>3. PICK F : F = [c \in S |-> Descendants(T, c)]
  OBVIOUS
<1>4. \A c \in S : IsFiniteSet(F[c])
  <2> SUFFICES ASSUME NEW c \in S PROVE IsFiniteSet(F[c])
    OBVIOUS
  <2>1. F[c] \in SUBSET ids
    BY <1>3 DEF Descendants, TableOK
  <2> QED BY <2>1, FS_Subset DEF World
<1>5. PICK s \in Lists(S) : \A i, j \in DOMAIN s :
        i < j /\ F[s[j]] \subseteq F[s[i]] => F[s[i]] \subseteq F[s[j]]
  BY <1>2, <1>4, ListExists
<1>6. \A i \in DOMAIN s : F[s[i]] = Descendants(T, s[i])
  BY <1>3, <1>5 DEF Lists
<1>7. \A i, j \in DOMAIN s : i < j /\ NoMoreBeneath(T, s[j], s[i]) => NoMoreBeneath(T, s[i], s[j])
  BY <1>5, <1>6 DEF NoMoreBeneath
<1> QED BY <1>1, <1>7, Zenon DEF descendants_first

LEMMA PartFacts ==
  ASSUME World, NEW T, TableOK(T), Forest(T), NEW d \in DOMAIN T
  PROVE  \E m \in Nat : \E x :
           /\ ListsAll(T, d, x, m + 1)
           /\ Len(descendants_first(T, d)) = m
           /\ \A i \in 1..m : x[i] = descendants_first(T, d)[i]
<1>1. PICK m \in Nat : m = Cardinality(Descendants(T, d))
  <2>1. Descendants(T, d) \in SUBSET ids
    BY DEF Descendants, TableOK
  <2>2. IsFiniteSet(Descendants(T, d))
    BY <2>1, FS_Subset DEF World
  <2> QED BY <2>2, FS_CardinalityType
<1>2. PICK s : /\ s = descendants_first(T, d) /\ s \in [1..m -> Descendants(T, d)]
               /\ IsInjective(s) /\ Len(s) = m
               /\ \A i, j \in 1..m :
                    i < j /\ NoMoreBeneath(T, s[j], s[i]) => NoMoreBeneath(T, s[i], s[j])
  <2>1. PICK s : s = descendants_first(T, d)
    OBVIOUS
  <2>2. s \in Lists(Descendants(T, d))
    BY <2>1, ListedFirst
  <2>3. s \in [1..m -> Descendants(T, d)] /\ IsInjective(s)
    BY <1>1, <2>2 DEF Lists
  <2>4. DOMAIN s = 1..m /\ Len(s) = m
    BY <2>3
  <2>5. \A i, j \in 1..m :
          i < j /\ NoMoreBeneath(T, s[j], s[i]) => NoMoreBeneath(T, s[i], s[j])
    BY <2>1, <2>4, ListedFirst
  <2> QED BY <2>1, <2>3, <2>4, <2>5
<1>3. PICK D : D = Descendants(T, d) /\ IsFiniteSet(D) /\ Cardinality(D) = m /\ D \subseteq DOMAIN T
  <2>1. Descendants(T, d) \in SUBSET ids
    BY DEF Descendants, TableOK
  <2>2. IsFiniteSet(Descendants(T, d))
    BY <2>1, FS_Subset DEF World
  <2> QED BY <1>1, <2>2 DEF Descendants
<1>4. \A c \in D : \E i \in 1..m : s[i] = c
  <2>1. PICK R : R = {s[i] : i \in 1..m}
    OBVIOUS
  <2>2. R \in SUBSET D
    BY <1>2, <1>3, <2>1
  <2>3. Cardinality(R) = m
    <3>1. IsFiniteSet(1..m) /\ Cardinality(1..m) = m
      BY FS_Interval
    <3>2. s \in Bijection(1..m, R)
      BY <1>2, <2>1 DEF Bijection, Injection, Surjection, IsInjective
    <3>3. ExistsBijection(1..m, R)
      BY <3>2 DEF ExistsBijection
    <3> QED BY <3>1, <3>3, FS_Bijection
  <2>4. R = D
    BY <1>3, <2>2, <2>3, FS_Subset
  <2> QED BY <2>1, <2>4
<1>5. PICK x : x = [i \in 1..m + 1 |-> IF i = m + 1 THEN d ELSE s[i]]
  OBVIOUS
<1>6. /\ x \in [1..m + 1 -> D \cup {d}] /\ x[m + 1] = d
      /\ \A i \in 1..m : x[i] = s[i] /\ s[i] \in D
  BY <1>2, <1>3, <1>5
<1>7. \A c \in D : \E i \in 1..m + 1 : x[i] = c
  BY <1>4, <1>6
<1>8. ASSUME NEW j \in 1..m + 1, NEW c \in Descendants(T, x[j])
      PROVE  \E i \in 1..m + 1 : i < j /\ x[i] = c
  <2>1. CASE j = m + 1
    BY <1>3, <1>4, <1>6, <2>1
  <2>2. CASE j # m + 1
    <3>1. j \in 1..m /\ x[j] = s[j] /\ s[j] \in D
      BY <1>6, <2>2
    <3>2. /\ x[j] \in Descendants(T, d) /\ x[j] \in DOMAIN T
          /\ Descendants(T, x[j]) \subseteq Descendants(T, d)
      BY <1>3, <3>1, BeneathForest
    <3>3. PICK i \in 1..m : s[i] = c
      BY <1>3, <1>4, <3>2
    <3>4. c # x[j] /\ c \notin Descendants(T, c)
      BY DEF Descendants
    <3>5. i # j
      BY <3>1, <3>3, <3>4
    <3>6. ASSUME j < i PROVE FALSE
      <4>1. NoMoreBeneath(T, s[i], s[j])
        BY <3>1, <3>2, <3>3, BeneathForest DEF NoMoreBeneath
      <4>2. NoMoreBeneath(T, s[j], s[i])
        BY <1>2, <3>1, <3>6, <4>1
      <4>3. c \in Descendants(T, s[i])
        BY <3>1, <4>2 DEF NoMoreBeneath
      <4> QED BY <3>3, <3>4, <4>3
    <3> QED BY <1>6, <3>3, <3>5, <3>6
  <2> QED BY <2>1, <2>2
<1>9. ListsAll(T, d, x, m + 1)
  BY <1>3, <1>6, <1>7, <1>8 DEF ListsAll
<1> QED BY <1>2, <1>6, <1>9

Part(T, o) ==
  IF o.op # "delete" \/ o.id \notin DOMAIN T THEN <<o>>
  ELSE [i \in 1..Len(descendants_first(T, o.id)) |-> Logged(T, descendants_first(T, o.id)[i])]
         \o <<Logged(T, o.id)>>

LEMMA ExpandFacts ==
  ASSUME World, NEW T, TableOK(T), Forest(T),
         NEW n \in Nat \ {0}, NEW batch, DOMAIN batch = 1..n, \A j \in 1..n : OpOK(batch[j]),
         NEW ops, ops = Expand(T, batch)
  PROVE  /\ Len(ops) \in Nat /\ DOMAIN ops = 1..Len(ops)
         /\ \E off : Expansion(T, batch, n, ops, off)
<1>1. PICK X : X = {batch[j] : j \in 1..n} \cup {Logged(T, d) : d \in DOMAIN T}
  OBVIOUS
<1>2. PICK parts : parts = [j \in 1..n |-> Part(T, batch[j])]
  OBVIOUS
<1>3. ops = FlattenSeq(parts)
  BY <1>2, Zenon DEF Expand, Part, Logged
<1>4. ASSUME NEW j \in 1..n
      PROVE  /\ parts[j] \in Seq(X) /\ Len(parts[j]) # 0
             /\ \/ /\ batch[j].op # "delete" \/ batch[j].id \notin DOMAIN T
                   /\ Len(parts[j]) = 1 /\ parts[j][1] = batch[j]
                \/ /\ batch[j].op = "delete" /\ batch[j].id \in DOMAIN T
                   /\ \E x : /\ ListsAll(T, batch[j].id, x, Len(parts[j]))
                             /\ \A i \in 1..Len(parts[j]) : parts[j][i] = Logged(T, x[i])
  <2>1. parts[j] = Part(T, batch[j])
    BY <1>2
  <2>2. CASE batch[j].op # "delete" \/ batch[j].id \notin DOMAIN T
    <3>1. parts[j] = <<batch[j]>> /\ batch[j] \in X
      BY <1>1, <2>1, <2>2 DEF Part
    <3>2. Len(<<batch[j]>>) = 1 /\ <<batch[j]>>[1] = batch[j] /\ <<batch[j]>> \in Seq(X)
      BY <3>1
    <3> QED BY <2>2, <3>1, <3>2
  <2>3. CASE ~(batch[j].op # "delete" \/ batch[j].id \notin DOMAIN T)
    <3>1. PICK d \in DOMAIN T : d = batch[j].id /\ batch[j].op = "delete"
      BY <2>3
    <3>2. PICK m, x : /\ m \in Nat /\ ListsAll(T, d, x, m + 1)
                       /\ Len(descendants_first(T, d)) = m
                       /\ \A i \in 1..m : x[i] = descendants_first(T, d)[i]
      BY PartFacts
    <3>3. PICK s : s = [i \in 1..m |-> Logged(T, x[i])]
      OBVIOUS
    <3>4. s = [i \in 1..Len(descendants_first(T, d)) |-> Logged(T, descendants_first(T, d)[i])]
      BY <3>2, <3>3
    <3>5. parts[j] = s \o <<Logged(T, d)>>
      BY <2>1, <3>1, <3>4, Zenon DEF Part
    <3>6. x[m + 1] = d /\ \A i \in 1..m : x[i] \in DOMAIN T
      BY <3>2 DEF ListsAll, Descendants
    <3>7. \A c \in DOMAIN T : Logged(T, c) \in X
      BY <1>1
    <3>8. s \in Seq(X) /\ Len(s) = m /\ \A i \in 1..m : s[i] = Logged(T, x[i])
      BY <3>2, <3>3, <3>6, <3>7
    <3>9. PICK e : e = Logged(T, d)
      OBVIOUS
    <3>10. e \in X /\ <<e>> \in Seq(X) /\ Len(<<e>>) = 1 /\ <<e>>[1] = e
      BY <3>7, <3>9
    <3>11. /\ s \o <<e>> \in Seq(X) /\ Len(s \o <<e>>) = m + 1
           /\ \A i \in 1..m : (s \o <<e>>)[i] = s[i]
           /\ (s \o <<e>>)[m + 1] = e
      BY <3>8, <3>10
    <3>12. parts[j] = s \o <<e>>
      BY <3>5, <3>9, Zenon
    <3>13. parts[j] \in Seq(X) /\ Len(parts[j]) = m + 1
      BY <3>11, <3>12, Zenon
    <3>14. \A i \in 1..m + 1 : parts[j][i] = Logged(T, x[i])
      <4> SUFFICES ASSUME NEW i \in 1..m + 1 PROVE parts[j][i] = Logged(T, x[i])
        OBVIOUS
      <4>1. CASE i = m + 1
        BY <3>6, <3>9, <3>11, <3>12, <4>1, Zenon
      <4>2. CASE i # m + 1
        <5>1. i \in 1..m
          BY <3>2, <4>2
        <5> QED BY <3>8, <3>11, <3>12, <5>1, Zenon
      <4> QED BY <4>1, <4>2
    <3> QED BY <3>1, <3>2, <3>13, <3>14
  <2> QED BY <2>2, <2>3
<1>5. ops \in Seq(X) /\ \E off : Offsets(n, parts, ops, off)
  <2>1. parts \in [1..n -> Seq(X)] /\ n \in Nat /\ n # 0
    BY <1>2, <1>4
  <2>2. Flattens(X, n, parts, ops)
    BY <1>3, <2>1, Zenon DEF Flattens
  <2> QED BY <2>2, FlattenFacts, Zenon
<1>6. PICK off \in [0..n -> Nat] :
           /\ off[0] = 0 /\ off[n] = Len(ops)
           /\ \A j \in 1..n : /\ off[j] = off[j - 1] + Len(parts[j])
                              /\ \A p \in 1..Len(parts[j]) : ops[off[j - 1] + p] = parts[j][p]
           /\ \A k \in 1..off[n] : \E j \in 1..n : \E p \in 1..Len(parts[j]) : k = off[j - 1] + p
  BY <1>5, Zenon DEF Offsets
<1>7. \A j \in 1..n : off[j] \in Nat /\ off[j - 1] \in Nat /\ Len(parts[j]) \in Nat
  <2> SUFFICES ASSUME NEW j \in 1..n
               PROVE  off[j] \in Nat /\ off[j - 1] \in Nat /\ Len(parts[j]) \in Nat
    OBVIOUS
  <2>1. j \in 0..n /\ j - 1 \in 0..n
    OBVIOUS
  <2> QED BY <1>4, <2>1
<1> DEFINE Cut(j, a, b, l) == /\ a = off[j - 1] /\ b = off[j] /\ l = Len(parts[j]) /\ b = a + l
                              /\ \A p \in 1..l : ops[a + p] = parts[j][p]
<1>13. ASSUME NEW j \in 1..n
       PROVE  \E a, b, l \in Nat : Cut(j, a, b, l)
  <2>1. /\ off[j] = off[j - 1] + Len(parts[j])
        /\ \A p \in 1..Len(parts[j]) : ops[off[j - 1] + p] = parts[j][p]
    BY <1>6, Zenon
  <2> QED BY <1>7, <2>1, Zenon
<1>8. ASSUME NEW j \in 1..n
      PROVE  off[j - 1] < off[j] /\ Expanded(T, batch[j], ops, off[j - 1], off[j])
  <2>0. PICK a \in Nat, b \in Nat, l \in Nat : Cut(j, a, b, l)
    BY <1>13
  <2>1. a = off[j - 1] /\ b = off[j] /\ l = Len(parts[j]) /\ b = a + l /\ b - a = l /\ l # 0
    BY <1>4, <2>0
  <2>2. \A p \in 1..l : ops[a + p] = parts[j][p]
    BY <2>0
  <2> HIDE DEF Cut
  <2>3. CASE batch[j].op # "delete" \/ batch[j].id \notin DOMAIN T
    <3>1. l = 1 /\ parts[j][1] = batch[j]
      BY <1>4, <2>1, <2>3
    <3>2. b = a + 1 /\ 1 \in 1..l
      BY <2>1, <3>1
    <3>3. ops[a + 1] = parts[j][1]
      BY <2>2, <3>2, Zenon
    <3>4. ops[b] = batch[j]
      BY <3>1, <3>2, <3>3, Zenon
    <3> QED BY <2>1, <2>3, <3>2, <3>4 DEF Expanded
  <2>4. CASE ~(batch[j].op # "delete" \/ batch[j].id \notin DOMAIN T)
    <3>1. PICK x : /\ ListsAll(T, batch[j].id, x, l)
                   /\ \A i \in 1..l : parts[j][i] = Logged(T, x[i])
      BY <1>4, <2>1, <2>4
    <3>2. \A i \in 1..l : ops[a + i] = Logged(T, x[i])
      BY <2>2, <3>1, Zenon
    <3>3. /\ ListsAll(T, batch[j].id, x, b - a)
          /\ \A i \in 1..b - a : ops[a + i] = Logged(T, x[i])
      BY <2>1, <3>1, <3>2
    <3>4. batch[j].op = "delete" /\ batch[j].id \in DOMAIN T
      BY <2>4
    <3>5. Expanded(T, batch[j], ops, a, b)
      <4>1. \E y : /\ ListsAll(T, batch[j].id, y, b - a)
                   /\ \A i \in 1..b - a : ops[a + i] = Logged(T, y[i])
        BY <3>3, Zenon
      <4> QED BY <3>4, <4>1, Zenon DEF Expanded
    <3>6. off[j - 1] < off[j]
      <4>1. b = a + l /\ l # 0
        BY <2>1
      <4>2. a < b
        BY <4>1
      <4> QED BY <2>1, <4>2, Zenon
    <3>7. Expanded(T, batch[j], ops, off[j - 1], off[j])
      BY <2>1, <3>5, Zenon
    <3> QED BY <3>6, <3>7, Zenon
  <2> QED BY <2>3, <2>4
<1>9. \A k \in 1..Len(ops) : \E j \in 1..n : off[j - 1] < k /\ k <= off[j]
  <2> SUFFICES ASSUME NEW k \in 1..Len(ops) PROVE \E j \in 1..n : off[j - 1] < k /\ k <= off[j]
    OBVIOUS
  <2>1. k \in 1..off[n]
    BY <1>6
  <2>2. PICK j, p : j \in 1..n /\ p \in 1..Len(parts[j]) /\ k = off[j - 1] + p
    <3>1. \E j \in 1..n : \E p \in 1..Len(parts[j]) : k = off[j - 1] + p
      BY <1>6, <2>1, Zenon
    <3> QED BY <3>1, Zenon
  <2>3. PICK a \in Nat, b \in Nat, l \in Nat : Cut(j, a, b, l)
    BY <1>13, <2>2
  <2>4. a = off[j - 1] /\ b = off[j] /\ b = a + l /\ k = a + p /\ p \in 1..l
    BY <2>2, <2>3, Zenon
  <2>5. PICK q : q = p
    OBVIOUS
  <2>6. k = a + q /\ b = a + l /\ q \in 1..l
    BY <2>4, <2>5, Zenon
  <2>7. a < k /\ k <= b
    BY <2>6
  <2> QED BY <2>2, <2>4, <2>7, Zenon
<1>10. Len(ops) \in Nat /\ DOMAIN ops = 1..Len(ops)
  BY <1>5
<1>11. Expansion(T, batch, n, ops, off)
  BY <1>6, <1>8, <1>9 DEF Expansion
<1> QED BY <1>10, <1>11

(* Every operation of an expansion is one of this world's.                 *)
LEMMA ExpandedOK ==
  ASSUME World, NEW T, TableOK(T),
         NEW n \in Nat \ {0}, NEW batch, \A j \in 1..n : OpOK(batch[j]),
         NEW ops, NEW off, Expansion(T, batch, n, ops, off), NEW k \in 1..Len(ops)
  PROVE  OpOK(ops[k])
<1>1. PICK j \in 1..n : off[j - 1] < k /\ k <= off[j]
  BY DEF Expansion
<1>2. /\ off[j - 1] \in Nat /\ off[j] \in Nat
      /\ Expanded(T, batch[j], ops, off[j - 1], off[j])
  BY DEF Expansion
<1>3. PICK a \in Nat, b \in Nat : a = off[j - 1] /\ b = off[j] /\ a < k /\ k <= b
  BY <1>1, <1>2
<1>4. CASE b = a + 1 /\ ops[b] = batch[j]
  BY <1>3, <1>4
<1>5. CASE batch[j].op = "delete" /\ batch[j].id \in DOMAIN T
           /\ \E x : /\ ListsAll(T, batch[j].id, x, b - a)
                     /\ \A i \in 1..b - a : ops[a + i] = Logged(T, x[i])
  <2>1. PICK x : /\ ListsAll(T, batch[j].id, x, b - a)
                 /\ \A i \in 1..b - a : ops[a + i] = Logged(T, x[i])
    BY <1>5
  <2>2. k - a \in 1..b - a /\ a + (k - a) = k
    BY <1>3
  <2>3. ops[k] = Logged(T, x[k - a])
    BY <2>1, <2>2
  <2>4. x[k - a] \in DOMAIN T
    BY <1>5, <2>1, <2>2 DEF ListsAll, Descendants
  <2>5. x[k - a] \in ids
    BY <2>4 DEF TableOK
  <2> QED BY <2>3, <2>5 DEF OpOK, Logged
<1> QED BY <1>2, <1>3, <1>4, <1>5 DEF Expanded

-----------------------------------------------------------------------------
(* The recursive functions of the module, unrolled.                        *)
LEMMA Phase2Steps ==
  ASSUME NEW T, NEW f, NEW ops, NEW m \in Nat, Len(ops) = m
  PROVE  \E h : /\ h[0] = [ok |-> TRUE, docs |-> T, filed |-> f]
                /\ \A k \in 1..m : h[k] = Apply(h[k - 1], ops[k])
                /\ Phase2(T, f, ops) = h[m]
<1> DEFINE Iter(h, k) == h = [i \in 0..k |->
             IF i = 0 THEN [ok |-> TRUE, docs |-> T, filed |-> f] ELSE Apply(h[i - 1], ops[i])]
<1>1. Phase2(T, f, ops) = (CHOOSE h : Iter(h, m))[m]
  BY Zenon DEF Phase2
<1>2. ASSUME NEW k \in Nat, NEW h, Iter(h, k) PROVE \E g : Iter(g, k + 1)
  <2> DEFINE g == [i \in 0..k + 1 |-> IF i = k + 1 THEN Apply(h[k], ops[k + 1]) ELSE h[i]]
  <2>1. ASSUME NEW i \in 0..k + 1
        PROVE g[i] = IF i = 0 THEN [ok |-> TRUE, docs |-> T, filed |-> f]
                     ELSE Apply(g[i - 1], ops[i])
    <3>1. CASE i = k + 1
      <4>1. i # 0 /\ i - 1 = k /\ i - 1 \in 0..k + 1 /\ i - 1 # k + 1
        BY <3>1
      <4>2. g[i - 1] = h[k] /\ g[i] = Apply(h[k], ops[k + 1])
        BY <3>1, <4>1, Zenon
      <4> QED BY <3>1, <4>1, <4>2, Zenon
    <3>2. CASE i # k + 1
      <4>1. i \in 0..k /\ g[i] = h[i] /\ (i # 0 => g[i - 1] = h[i - 1])
        BY <3>2
      <4>2. h[i] = IF i = 0 THEN [ok |-> TRUE, docs |-> T, filed |-> f] ELSE Apply(h[i - 1], ops[i])
        BY <1>2, <4>1, Zenon
      <4> QED BY <4>1, <4>2, Zenon
    <3> QED BY <3>1, <3>2
  <2>2. Iter(g, k + 1)
    BY <2>1
  <2> QED BY <2>2
<1>3. PICK h : h = (CHOOSE g : Iter(g, m)) /\ Iter(h, m)
  <2>1. Iter([i \in 0..0 |-> [ok |-> TRUE, docs |-> T, filed |-> f]], 0)
    OBVIOUS
  <2>2. PICK T_ : T_ = {k \in Nat : \E g : Iter(g, k)}
    OBVIOUS
  <2> HIDE DEF Iter
  <2>3. 0 \in T_
    BY <2>1, <2>2
  <2>4. ASSUME NEW k \in Nat, k \in T_ PROVE k + 1 \in T_
    BY <1>2, <2>2, <2>4
  <2>5. Nat \subseteq T_
    BY <2>3, <2>4, NatInd
  <2>6. \E g : Iter(g, m)
    BY <2>2, <2>5
  <2> QED BY <2>6, Zenon
<1>4. h[0] = [ok |-> TRUE, docs |-> T, filed |-> f]
  <2>1. 0 \in 0..m
    OBVIOUS
  <2> QED BY <1>3, <2>1, Zenon
<1>5. ASSUME NEW k \in 1..m PROVE h[k] = Apply(h[k - 1], ops[k])
  <2>1. k \in 0..m /\ k # 0
    OBVIOUS
  <2> QED BY <1>3, <2>1, Zenon
<1>6. Phase2(T, f, ops) = h[m]
  BY <1>1, <1>3, Zenon
<1> HIDE DEF Iter
<1> QED BY <1>4, <1>5, <1>6, Zenon

LEMMA Phase1Steps ==
  ASSUME NEW batch, NEW who, NEW m \in Nat, Len(batch) = m
  PROVE  \E h : /\ h[0] = Start
                /\ \A k \in 1..m : h[k] = Check(h[k - 1], batch[k], deactivations_this_batch(batch), who)
                /\ Phase1(batch, who) <=> h[m].ok
<1> DEFINE Iter(h, k) == h = [i \in 0..k |->
             IF i = 0 THEN Start ELSE Check(h[i - 1], batch[i], deactivations_this_batch(batch), who)]
<1>1. Phase1(batch, who) <=> (CHOOSE h : Iter(h, m))[m].ok
  BY Zenon DEF Phase1
<1>2. ASSUME NEW k \in Nat, NEW h, Iter(h, k) PROVE \E g : Iter(g, k + 1)
  <2> DEFINE g == [i \in 0..k + 1 |->
             IF i = k + 1 THEN Check(h[k], batch[k + 1], deactivations_this_batch(batch), who) ELSE h[i]]
  <2>1. ASSUME NEW i \in 0..k + 1
        PROVE g[i] = IF i = 0 THEN Start
                     ELSE Check(g[i - 1], batch[i], deactivations_this_batch(batch), who)
    <3>1. CASE i = k + 1
      <4>1. i # 0 /\ i - 1 = k /\ i - 1 \in 0..k + 1 /\ i - 1 # k + 1
        BY <3>1
      <4>2. g[i - 1] = h[k] /\ g[i] = Check(h[k], batch[k + 1], deactivations_this_batch(batch), who)
        BY <3>1, <4>1, Zenon
      <4> QED BY <3>1, <4>1, <4>2, Zenon
    <3>2. CASE i # k + 1
      <4>1. i \in 0..k /\ g[i] = h[i] /\ (i # 0 => g[i - 1] = h[i - 1])
        BY <3>2
      <4>2. h[i] = IF i = 0 THEN Start ELSE Check(h[i - 1], batch[i], deactivations_this_batch(batch), who)
        BY <1>2, <4>1, Zenon
      <4> QED BY <4>1, <4>2, Zenon
    <3> QED BY <3>1, <3>2
  <2>2. Iter(g, k + 1)
    BY <2>1
  <2> QED BY <2>2
<1>3. PICK h : h = (CHOOSE g : Iter(g, m)) /\ Iter(h, m)
  <2>1. Iter([i \in 0..0 |-> Start], 0)
    OBVIOUS
  <2>2. PICK T_ : T_ = {k \in Nat : \E g : Iter(g, k)}
    OBVIOUS
  <2> HIDE DEF Iter
  <2>3. 0 \in T_
    BY <2>1, <2>2
  <2>4. ASSUME NEW k \in Nat, k \in T_ PROVE k + 1 \in T_
    BY <1>2, <2>2, <2>4
  <2>5. Nat \subseteq T_
    BY <2>3, <2>4, NatInd
  <2>6. \E g : Iter(g, m)
    BY <2>2, <2>5
  <2> QED BY <2>6, Zenon
<1>4. h[0] = Start
  <2>1. 0 \in 0..m
    OBVIOUS
  <2> QED BY <1>3, <2>1, Zenon
<1>5. ASSUME NEW k \in 1..m PROVE h[k] = Check(h[k - 1], batch[k], deactivations_this_batch(batch), who)
  <2>1. k \in 0..m /\ k # 0
    OBVIOUS
  <2> QED BY <1>3, <2>1, Zenon
<1>6. Phase1(batch, who) <=> h[m].ok
  BY <1>1, <1>3, Zenon
<1> HIDE DEF Iter
<1> QED BY <1>4, <1>5, <1>6, Zenon

LEMMA ReplaySteps ==
  ASSUME NEW T, NEW ops, NEW m \in Nat, Len(ops) = m
  PROVE  \E h : /\ h[0] = T
                /\ \A k \in 1..m : h[k] = applyOperation(h[k - 1], ops[k])
                /\ Replay(T, ops) = h[m]
<1> DEFINE Iter(h, k) == h = [i \in 0..k |-> IF i = 0 THEN T ELSE applyOperation(h[i - 1], ops[i])]
<1>1. Replay(T, ops) = (CHOOSE h : Iter(h, m))[m]
  BY Zenon DEF Replay
<1>2. ASSUME NEW k \in Nat, NEW h, Iter(h, k) PROVE \E g : Iter(g, k + 1)
  <2> DEFINE g == [i \in 0..k + 1 |-> IF i = k + 1 THEN applyOperation(h[k], ops[k + 1]) ELSE h[i]]
  <2>1. ASSUME NEW i \in 0..k + 1
        PROVE g[i] = IF i = 0 THEN T ELSE applyOperation(g[i - 1], ops[i])
    <3>1. CASE i = k + 1
      <4>1. i # 0 /\ i - 1 = k /\ i - 1 \in 0..k + 1 /\ i - 1 # k + 1
        BY <3>1
      <4>2. g[i - 1] = h[k] /\ g[i] = applyOperation(h[k], ops[k + 1])
        BY <3>1, <4>1, Zenon
      <4> QED BY <3>1, <4>1, <4>2, Zenon
    <3>2. CASE i # k + 1
      <4>1. i \in 0..k /\ g[i] = h[i] /\ (i # 0 => g[i - 1] = h[i - 1])
        BY <3>2
      <4>2. h[i] = IF i = 0 THEN T ELSE applyOperation(h[i - 1], ops[i])
        BY <1>2, <4>1, Zenon
      <4> QED BY <4>1, <4>2, Zenon
    <3> QED BY <3>1, <3>2
  <2>2. Iter(g, k + 1)
    BY <2>1
  <2> QED BY <2>2
<1>3. PICK h : h = (CHOOSE g : Iter(g, m)) /\ Iter(h, m)
  <2>1. Iter([i \in 0..0 |-> T], 0)
    OBVIOUS
  <2>2. PICK T_ : T_ = {k \in Nat : \E g : Iter(g, k)}
    OBVIOUS
  <2> HIDE DEF Iter
  <2>3. 0 \in T_
    BY <2>1, <2>2
  <2>4. ASSUME NEW k \in Nat, k \in T_ PROVE k + 1 \in T_
    BY <1>2, <2>2, <2>4
  <2>5. Nat \subseteq T_
    BY <2>3, <2>4, NatInd
  <2>6. \E g : Iter(g, m)
    BY <2>2, <2>5
  <2> QED BY <2>6, Zenon
<1>4. h[0] = T
  <2>1. 0 \in 0..m
    OBVIOUS
  <2> QED BY <1>3, <2>1, Zenon
<1>5. ASSUME NEW k \in 1..m PROVE h[k] = applyOperation(h[k - 1], ops[k])
  <2>1. k \in 0..m /\ k # 0
    OBVIOUS
  <2> QED BY <1>3, <2>1, Zenon
<1>6. Replay(T, ops) = h[m]
  BY <1>1, <1>3, Zenon
<1> HIDE DEF Iter
<1> QED BY <1>4, <1>5, <1>6, Zenon

LEMMA CommandSteps ==
  ASSUME NEW T, NEW batch, NEW ops, ops = Expand(T, batch), NEW m \in Nat, Len(ops) = m
  PROVE  \E h : /\ h[0] = [ok |-> TRUE, docs |-> T, filed |-> Root]
                /\ \A k \in 1..m : h[k] = ApplyTrusted(h[k - 1], ops[k])
                /\ apply_command(T, batch) = h[m]
<1> DEFINE Iter(h, k) == h = [i \in 0..k |->
             IF i = 0 THEN [ok |-> TRUE, docs |-> T, filed |-> Root] ELSE ApplyTrusted(h[i - 1], ops[i])]
<1>1. apply_command(T, batch) = (CHOOSE h : Iter(h, m))[m]
  BY Zenon DEF apply_command
<1>2. ASSUME NEW k \in Nat, NEW h, Iter(h, k) PROVE \E g : Iter(g, k + 1)
  <2> DEFINE g == [i \in 0..k + 1 |-> IF i = k + 1 THEN ApplyTrusted(h[k], ops[k + 1]) ELSE h[i]]
  <2>1. ASSUME NEW i \in 0..k + 1
        PROVE g[i] = IF i = 0 THEN [ok |-> TRUE, docs |-> T, filed |-> Root]
                     ELSE ApplyTrusted(g[i - 1], ops[i])
    <3>1. CASE i = k + 1
      <4>1. i # 0 /\ i - 1 = k /\ i - 1 \in 0..k + 1 /\ i - 1 # k + 1
        BY <3>1
      <4>2. g[i - 1] = h[k] /\ g[i] = ApplyTrusted(h[k], ops[k + 1])
        BY <3>1, <4>1, Zenon
      <4> QED BY <3>1, <4>1, <4>2, Zenon
    <3>2. CASE i # k + 1
      <4>1. i \in 0..k /\ g[i] = h[i] /\ (i # 0 => g[i - 1] = h[i - 1])
        BY <3>2
      <4>2. h[i] = IF i = 0 THEN [ok |-> TRUE, docs |-> T, filed |-> Root] ELSE ApplyTrusted(h[i - 1], ops[i])
        BY <1>2, <4>1, Zenon
      <4> QED BY <4>1, <4>2, Zenon
    <3> QED BY <3>1, <3>2
  <2>2. Iter(g, k + 1)
    BY <2>1
  <2> QED BY <2>2
<1>3. PICK h : h = (CHOOSE g : Iter(g, m)) /\ Iter(h, m)
  <2>1. Iter([i \in 0..0 |-> [ok |-> TRUE, docs |-> T, filed |-> Root]], 0)
    OBVIOUS
  <2>2. PICK T_ : T_ = {k \in Nat : \E g : Iter(g, k)}
    OBVIOUS
  <2> HIDE DEF Iter
  <2>3. 0 \in T_
    BY <2>1, <2>2
  <2>4. ASSUME NEW k \in Nat, k \in T_ PROVE k + 1 \in T_
    BY <1>2, <2>2, <2>4
  <2>5. Nat \subseteq T_
    BY <2>3, <2>4, NatInd
  <2>6. \E g : Iter(g, m)
    BY <2>2, <2>5
  <2> QED BY <2>6, Zenon
<1>4. h[0] = [ok |-> TRUE, docs |-> T, filed |-> Root]
  <2>1. 0 \in 0..m
    OBVIOUS
  <2> QED BY <1>3, <2>1, Zenon
<1>5. ASSUME NEW k \in 1..m PROVE h[k] = ApplyTrusted(h[k - 1], ops[k])
  <2>1. k \in 0..m /\ k # 0
    OBVIOUS
  <2> QED BY <1>3, <2>1, Zenon
<1>6. apply_command(T, batch) = h[m]
  BY <1>1, <1>3, Zenon
<1> HIDE DEF Iter
<1> QED BY <1>4, <1>5, <1>6, Zenon

-----------------------------------------------------------------------------
(* Phase 2 as a run: the table and the asset's folder after each operation.*)
Run(T, f, ops, m, tb, fd) ==
  /\ m \in Nat /\ tb[0] = T /\ fd[0] = f
  /\ \A k \in 0..m : TableOK(tb[k]) /\ fd[k] \in Parents
  /\ \A k \in 1..m : /\ OpOK(ops[k]) /\ Possible(tb[k - 1], ops[k])
                     /\ tb[k] = After(tb[k - 1], ops[k])
                     /\ fd[k] = FiledAfter(tb[k - 1], fd[k - 1], ops[k])

LEMMA Phase2Runs ==
  ASSUME World, NEW T, TableOK(T), NEW f \in Parents, NEW ops, NEW m \in Nat, Len(ops) = m,
         \A k \in 1..m : OpOK(ops[k]), NEW t, t = Phase2(T, f, ops), t.ok
  PROVE  \E tb, fd : Run(T, f, ops, m, tb, fd) /\ t.docs = tb[m] /\ t.filed = fd[m]
<1>1. PICK h : /\ h[0] = [ok |-> TRUE, docs |-> T, filed |-> f]
               /\ \A k \in 1..m : h[k] = Apply(h[k - 1], ops[k])
               /\ Phase2(T, f, ops) = h[m]
  BY Phase2Steps
<1>0. t = h[m]
  BY <1>1, Zenon
<1>2. \A k \in 0..m : StateOK(h[k])
  <2>1. PICK I : I = {k \in Nat : k <= m => StateOK(h[k])}
    OBVIOUS
  <2>2. StateOK(h[0])
    BY <1>1 DEF StateOK
  <2>3. ASSUME NEW k \in Nat, k \in I PROVE k + 1 \in I
    <3> SUFFICES ASSUME k + 1 <= m PROVE StateOK(h[k + 1])
      BY <2>1
    <3>1. k + 1 \in 1..m /\ (k + 1) - 1 = k /\ StateOK(h[k])
      BY <2>1, <2>3
    <3>2. h[k + 1] = Apply(h[k], ops[k + 1]) /\ OpOK(ops[k + 1])
      BY <1>1, <3>1
    <3> QED BY <3>1, <3>2, ApplyIs
  <2>4. Nat \subseteq I
    BY <2>1, <2>2, <2>3, NatInd
  <2> QED BY <2>1, <2>4
<1>3. ASSUME NEW k \in 1..m, h[k].ok
      PROVE  /\ h[k - 1].ok /\ Possible(h[k - 1].docs, ops[k])
             /\ h[k].docs = After(h[k - 1].docs, ops[k])
             /\ h[k].filed = FiledAfter(h[k - 1].docs, h[k - 1].filed, ops[k])
  <2>1. k - 1 \in 0..m
    OBVIOUS
  <2>2. StateOK(h[k - 1]) /\ h[k] = Apply(h[k - 1], ops[k])
    BY <1>1, <1>2, <2>1
  <2> QED BY <1>3, <2>2, ApplyIs
<1>4. \A k \in 0..m : h[k].ok
  <2>1. PICK I : I = {i \in Nat : i <= m => h[m - i].ok}
    OBVIOUS
  <2>2. 0 \in I
    BY <1>0, <2>1
  <2>3. ASSUME NEW i \in Nat, i \in I PROVE i + 1 \in I
    <3> SUFFICES ASSUME i + 1 <= m PROVE h[m - (i + 1)].ok
      BY <2>1
    <3>1. m - i \in 1..m /\ (m - i) - 1 = m - (i + 1) /\ h[m - i].ok
      BY <2>1, <2>3
    <3> QED BY <1>3, <3>1
  <2>4. Nat \subseteq I
    BY <2>2, <2>3, NatInd
  <2>5. \A k \in 0..m : m - k \in Nat /\ m - k <= m /\ m - (m - k) = k
    OBVIOUS
  <2> QED BY <2>1, <2>4, <2>5
<1>5. PICK tb : tb = [k \in 0..m |-> h[k].docs]
  OBVIOUS
<1>6. PICK fd : fd = [k \in 0..m |-> h[k].filed]
  OBVIOUS
<1>7. \A k \in 0..m : tb[k] = h[k].docs /\ fd[k] = h[k].filed
  BY <1>5, <1>6
<1>8. tb[0] = T /\ fd[0] = f /\ t.docs = tb[m] /\ t.filed = fd[m]
  BY <1>0, <1>1, <1>7
<1>9. \A k \in 0..m : TableOK(tb[k]) /\ fd[k] \in Parents
  BY <1>2, <1>7 DEF StateOK
<1>10. ASSUME NEW k \in 1..m
       PROVE  /\ OpOK(ops[k]) /\ Possible(tb[k - 1], ops[k])
              /\ tb[k] = After(tb[k - 1], ops[k])
              /\ fd[k] = FiledAfter(tb[k - 1], fd[k - 1], ops[k])
  <2>1. k \in 0..m /\ k - 1 \in 0..m
    OBVIOUS
  <2> QED BY <1>3, <1>4, <1>7, <2>1
<1>11. Run(T, f, ops, m, tb, fd)
  BY <1>8, <1>9, <1>10, Zenon DEF Run
<1> QED BY <1>8, <1>11, Zenon

(* One step of a run, from table P to table N.                             *)
Step(P, o, N) ==
  /\ TableOK(P) /\ TableOK(N) /\ OpOK(o) /\ Possible(P, o)
  /\ o.op = "create" =>
       /\ DOMAIN N = DOMAIN P \cup {o.id} /\ N[o.id] = o.doc
       /\ \A c \in DOMAIN P : c # o.id => N[c] = P[c]
  /\ o.op = "update" =>
       /\ o.id \in DOMAIN P /\ DOMAIN N = DOMAIN P
       /\ N[o.id].parent = P[o.id].parent /\ N[o.id].body = Body(P, o.id, o)
       /\ \A c \in DOMAIN P : c # o.id => N[c] = P[c]
  /\ o.op = "move" =>
       /\ o.id \in DOMAIN P /\ DOMAIN N = DOMAIN P
       /\ N[o.id].parent = o.parent /\ N[o.id].body = P[o.id].body
       /\ \A c \in DOMAIN P : c # o.id => N[c] = P[c]
  /\ o.op = "delete" =>
       /\ N = Without(P, {o.id}) /\ DOMAIN N = DOMAIN P \ Gone(P, {o.id})
       /\ \A c \in DOMAIN N : c # o.id /\ c \in DOMAIN P /\ N[c] = P[c]
  /\ o.op \in {"create", "update", "move", "delete"} /\ o.id \in ids

LEMMA StepFacts ==
  ASSUME World, NEW P, TableOK(P), NEW o, OpOK(o), Possible(P, o), NEW N, N = After(P, o)
  PROVE  Step(P, o, N)
<1>1. TableOK(N) /\ o.op \in {"create", "update", "move", "delete"} /\ o.id \in ids /\ o.id # Root
  BY AfterOK, OpKinds DEF World
<1>2. CASE o.op = "create"
  <2>1. N = Put(P, o.id, o.doc)
    BY <1>2 DEF After
  <2>2. /\ DOMAIN N = DOMAIN P \cup {o.id} /\ N[o.id] = o.doc
        /\ \A c \in DOMAIN P : c # o.id => N[c] = P[c]
    BY <2>1 DEF Put
  <2> QED BY <1>1, <1>2, <2>2 DEF Step
<1>3. CASE o.op = "update"
  <2>1. PICK x : x = [parent |-> P[o.id].parent, body |-> Body(P, o.id, o)]
    OBVIOUS
  <2>2. N = Put(P, o.id, x) /\ o.id \in DOMAIN P
    BY <1>3, <2>1 DEF After, Possible
  <2>3. /\ DOMAIN N = DOMAIN P \cup {o.id} /\ N[o.id] = x
        /\ \A c \in DOMAIN P : c # o.id => N[c] = P[c]
    BY <2>2 DEF Put
  <2>4. x.parent = P[o.id].parent /\ x.body = Body(P, o.id, o)
    BY <2>1
  <2>5. DOMAIN N = DOMAIN P
    BY <2>2, <2>3
  <2> QED BY <1>1, <1>3, <2>2, <2>3, <2>4, <2>5 DEF Step
<1>4. CASE o.op = "move"
  <2>1. PICK x : x = [parent |-> o.parent, body |-> P[o.id].body]
    OBVIOUS
  <2>2. N = Put(P, o.id, x) /\ o.id \in DOMAIN P
    BY <1>4, <2>1 DEF After, Possible
  <2>3. /\ DOMAIN N = DOMAIN P \cup {o.id} /\ N[o.id] = x
        /\ \A c \in DOMAIN P : c # o.id => N[c] = P[c]
    BY <2>2 DEF Put
  <2>4. x.parent = o.parent /\ x.body = P[o.id].body
    BY <2>1
  <2>5. DOMAIN N = DOMAIN P
    BY <2>2, <2>3
  <2> QED BY <1>1, <1>4, <2>2, <2>3, <2>4, <2>5 DEF Step
<1>5. CASE o.op = "delete"
  <2>1. N = Without(P, {o.id})
    BY <1>5 DEF After
  <2>2. DOMAIN N = DOMAIN P \ Gone(P, {o.id}) /\ \A c \in DOMAIN N : N[c] = P[c]
    BY <2>1 DEF Without
  <2>3. o.id \notin DOMAIN N
    BY <1>1, <2>2, GoneFacts
  <2> QED BY <1>1, <1>5, <2>1, <2>2, <2>3 DEF Step
<1> QED BY <1>1, <1>2, <1>3, <1>4, <1>5

LEMMA RunStep ==
  ASSUME World, NEW T, NEW f, NEW ops, NEW m, NEW tb, NEW fd, Run(T, f, ops, m, tb, fd),
         NEW k \in 1..m
  PROVE  Step(tb[k - 1], ops[k], tb[k])
<1>1. k - 1 \in 0..m /\ m \in Nat
  BY DEF Run
<1> QED BY <1>1, StepFacts DEF Run

(* Where the parent and the body of a stored document come from.           *)
ParentFrom(T, ops, tb, k, e) ==
  \/ /\ e \in DOMAIN T /\ tb[k][e].parent = T[e].parent
     /\ \A i \in 1..k : ops[i].id = e => ops[i].op = "update"
  \/ \E i \in 1..k : /\ ops[i].id = e
                     /\ \/ ops[i].op = "create" /\ tb[k][e].parent = ops[i].doc.parent
                        \/ ops[i].op = "move" /\ tb[k][e].parent = ops[i].parent

BodyFrom(T, ops, tb, k, e) ==
  \/ /\ e \in DOMAIN T /\ tb[k][e].body = T[e].body
     /\ \A i \in 1..k : ops[i].id = e => ops[i].op = "move"
  \/ \E i \in 1..k : /\ ops[i].id = e
                     /\ \/ ops[i].op = "create" /\ tb[k][e].body = ops[i].doc.body
                        \/ /\ ops[i].op = "update" /\ e \in DOMAIN tb[i - 1]
                           /\ tb[k][e].body = Body(tb[i - 1], e, ops[i])

LEMMA Sources ==
  ASSUME World, NEW T, NEW f, NEW ops, NEW m, NEW tb, NEW fd, Run(T, f, ops, m, tb, fd),
         NEW k \in 0..m, NEW e \in DOMAIN tb[k]
  PROVE  ParentFrom(T, ops, tb, k, e) /\ BodyFrom(T, ops, tb, k, e)
<1>1. PICK I : I = {i \in Nat : i <= m => \A c \in DOMAIN tb[i] :
                      ParentFrom(T, ops, tb, i, c) /\ BodyFrom(T, ops, tb, i, c)}
  OBVIOUS
<1>2. m \in Nat /\ tb[0] = T
  BY DEF Run
<1>3. 0 \in I
  BY <1>1, <1>2 DEF ParentFrom, BodyFrom
<1>4. ASSUME NEW i \in Nat, i \in I PROVE i + 1 \in I
  <2> SUFFICES ASSUME i + 1 <= m, NEW c \in DOMAIN tb[i + 1]
               PROVE  ParentFrom(T, ops, tb, i + 1, c) /\ BodyFrom(T, ops, tb, i + 1, c)
    BY <1>1
  <2>1. PICK k1 \in 1..m : k1 = i + 1 /\ k1 - 1 = i /\ 1..k1 = 1..i \cup {k1}
    BY <1>2
  <2>2. PICK o : o = ops[k1]
    OBVIOUS
  <2>3. Step(tb[i], o, tb[k1])
    BY <2>1, <2>2, RunStep
  <2>4. \A d \in DOMAIN tb[i] : ParentFrom(T, ops, tb, i, d) /\ BodyFrom(T, ops, tb, i, d)
    BY <1>1, <1>2, <1>4, <2>1
  <2>5. CASE c # o.id
    <3>1. c \in DOMAIN tb[i] /\ tb[k1][c] = tb[i][c]
      BY <2>1, <2>3, <2>5 DEF Step
    <3>2. ParentFrom(T, ops, tb, k1, c)
      BY <2>1, <2>2, <2>4, <2>5, <3>1 DEF ParentFrom
    <3>3. BodyFrom(T, ops, tb, k1, c)
      BY <2>1, <2>2, <2>4, <2>5, <3>1 DEF BodyFrom
    <3> QED BY <2>1, <3>2, <3>3
  <2>6. CASE c = o.id /\ o.op = "create"
    <3>1. tb[k1][c] = o.doc
      BY <2>3, <2>6 DEF Step
    <3>2. ParentFrom(T, ops, tb, k1, c)
      BY <2>1, <2>2, <2>6, <3>1 DEF ParentFrom
    <3>3. BodyFrom(T, ops, tb, k1, c)
      BY <2>1, <2>2, <2>6, <3>1 DEF BodyFrom
    <3> QED BY <2>1, <3>2, <3>3
  <2>7. CASE c = o.id /\ o.op = "update"
    <3>1. /\ c \in DOMAIN tb[i] /\ tb[k1][c].parent = tb[i][c].parent
          /\ tb[k1][c].body = Body(tb[i], c, o)
      BY <2>3, <2>7 DEF Step
    <3>2. ParentFrom(T, ops, tb, k1, c)
      BY <2>1, <2>2, <2>4, <2>7, <3>1 DEF ParentFrom
    <3>3. BodyFrom(T, ops, tb, k1, c)
      BY <2>1, <2>2, <2>7, <3>1 DEF BodyFrom
    <3> QED BY <2>1, <3>2, <3>3
  <2>8. CASE c = o.id /\ o.op = "move"
    <3>1. /\ c \in DOMAIN tb[i] /\ tb[k1][c].parent = o.parent
          /\ tb[k1][c].body = tb[i][c].body
      BY <2>3, <2>8 DEF Step
    <3>2. ParentFrom(T, ops, tb, k1, c)
      BY <2>1, <2>2, <2>8, <3>1 DEF ParentFrom
    <3>3. BodyFrom(T, ops, tb, k1, c)
      BY <2>1, <2>2, <2>4, <2>8, <3>1 DEF BodyFrom
    <3> QED BY <2>1, <3>2, <3>3
  <2>9. ~(c = o.id /\ o.op = "delete")
    BY <2>1, <2>3 DEF Step
  <2>10. o.op \in {"create", "update", "move", "delete"}
    BY <2>3 DEF Step
  <2> QED BY <2>5, <2>6, <2>7, <2>8, <2>9, <2>10
<1>5. Nat \subseteq I
  BY <1>3, <1>4, NatInd
<1>6. k \in I /\ k <= m
  BY <1>2, <1>5
<1> QED BY <1>1, <1>6

-----------------------------------------------------------------------------
(* What the operations of an expansion have to do with the batch.          *)
Listed(T, batch, n, ops, k) ==
  /\ ops[k].op # "delete" => \E j \in 1..n : ops[k] = batch[j]
  /\ ops[k].op = "delete" =>
       /\ \E j \in 1..n : /\ batch[j].op = "delete"
                          /\ \/ ops[k].id = batch[j].id
                             \/ ops[k].id \in Descendants(T, batch[j].id)
       /\ ops[k].id \in DOMAIN T =>
            /\ ops[k] = Logged(T, ops[k].id)
            /\ \A c \in Descendants(T, ops[k].id) :
                 \E i \in 1..k - 1 : ops[i].op = "delete" /\ ops[i].id = c

LEMMA ExpansionLists ==
  ASSUME World, NEW T, TableOK(T), NEW n \in Nat \ {0}, NEW batch,
         NEW ops, NEW off, Expansion(T, batch, n, ops, off), NEW k \in 1..Len(ops)
  PROVE  Listed(T, batch, n, ops, k)
<1>1. PICK j \in 1..n : off[j - 1] < k /\ k <= off[j]
  BY DEF Expansion
<1>2. /\ off[j - 1] \in Nat /\ off[j] \in Nat
      /\ Expanded(T, batch[j], ops, off[j - 1], off[j])
  BY DEF Expansion
<1>3. PICK a \in Nat, b \in Nat : a = off[j - 1] /\ b = off[j] /\ a < k /\ k <= b
  BY <1>1, <1>2
<1>4. Expanded(T, batch[j], ops, a, b)
  BY <1>2, <1>3, Zenon
<1>5. CASE batch[j].op # "delete" \/ batch[j].id \notin DOMAIN T
  <2>1. b = a + 1 /\ ops[b] = batch[j]
    BY <1>4, <1>5 DEF Expanded
  <2>2. ops[k] = batch[j]
    BY <1>3, <2>1
  <2> QED BY <1>5, <2>2 DEF Listed
<1>6. CASE ~(batch[j].op # "delete" \/ batch[j].id \notin DOMAIN T)
  <2>0. batch[j].op = "delete" /\ batch[j].id \in DOMAIN T
    BY <1>6
  <2>1. PICK x : /\ ListsAll(T, batch[j].id, x, b - a)
                 /\ \A i \in 1..b - a : ops[a + i] = Logged(T, x[i])
    BY <1>4, <1>6 DEF Expanded
  <2>2. PICK p \in 1..b - a : a + p = k
    <3>1. k - a \in 1..b - a /\ a + (k - a) = k
      BY <1>3
    <3> QED BY <3>1
  <2>3. ops[k] = Logged(T, x[p])
    BY <2>1, <2>2
  <2>4. ops[k].op = "delete" /\ ops[k].id = x[p]
    BY <2>3 DEF Logged
  <2>5. x[p] = batch[j].id \/ x[p] \in Descendants(T, batch[j].id)
    BY <2>1 DEF ListsAll
  <2>6. ASSUME NEW c \in Descendants(T, x[p])
        PROVE  \E i \in 1..k - 1 : ops[i].op = "delete" /\ ops[i].id = c
    <3>1. PICK q \in 1..b - a : q < p /\ x[q] = c
      BY <2>1 DEF ListsAll
    <3>2. PICK i \in 1..k - 1 : i = a + q
      BY <2>2, <3>1
    <3>3. ops[i] = Logged(T, c)
      BY <2>1, <3>1, <3>2
    <3>4. ops[i].op = "delete" /\ ops[i].id = c
      BY <3>3 DEF Logged
    <3> QED BY <3>4
  <2>7. ops[k] = Logged(T, ops[k].id)
    BY <2>3, <2>4
  <2> QED BY <2>0, <2>4, <2>5, <2>6, <2>7 DEF Listed
<1> QED BY <1>5, <1>6

(* Nothing is put beneath a document the batch deletes.                    *)
Adopts(ops, m) ==
  \E i, k \in 1..m :
    /\ ops[k].op = "delete"
    /\ \/ ops[i].op = "create" /\ ops[i].doc.parent = ops[k].id
       \/ ops[i].op = "move" /\ ops[i].parent = ops[k].id

CleanRun(T, f, ops, m, tb, fd, batch, n) ==
  /\ Forest(T) /\ Run(T, f, ops, m, tb, fd) /\ ~Adopts(ops, m)
  /\ \A k \in 1..m : Listed(T, batch, n, ops, k)

(* From P to N, d goes and nothing else does.                              *)
Clean(P, d, N) ==
  /\ \A c \in DOMAIN P : P[c].parent # d
  /\ Gone(P, {d}) = {d} \cap DOMAIN P
  /\ DOMAIN N = DOMAIN P \ {d}
  /\ N = Restrict(P, DOMAIN P \ {d})

(* A delete removes its document and nothing else.                         *)
LEMMA CleanDelete ==
  ASSUME World, NEW T, NEW f, NEW ops, NEW m, NEW tb, NEW fd, NEW batch, NEW n,
         CleanRun(T, f, ops, m, tb, fd, batch, n), NEW k \in 1..m, ops[k].op = "delete"
  PROVE  Clean(tb[k - 1], ops[k].id, tb[k])
<1>0. /\ Forest(T) /\ Run(T, f, ops, m, tb, fd) /\ ~Adopts(ops, m)
      /\ \A i \in 1..m : Listed(T, batch, n, ops, i)
  BY DEF CleanRun
<1> USE <1>0
<1>1. PICK d, P : d = ops[k].id /\ P = tb[k - 1]
  OBVIOUS
<1>2. k - 1 \in 0..m /\ m \in Nat /\ tb[0] = T /\ 0 \in 0..m
  BY DEF Run
<1>3. TableOK(P) /\ TableOK(T) /\ Step(P, ops[k], tb[k])
  BY <1>1, <1>2, RunStep DEF Run
<1>4. d \in ids /\ d # Root
  BY <1>1, <1>3 DEF Step, World
<1>5. ASSUME NEW c \in DOMAIN P, P[c].parent = d PROVE FALSE
  <2>1. ParentFrom(T, ops, tb, k - 1, c)
    BY <1>1, <1>2, <1>5, Sources
  <2>2. CASE \E i \in 1..k - 1 : /\ ops[i].id = c
                     /\ \/ ops[i].op = "create" /\ P[c].parent = ops[i].doc.parent
                        \/ ops[i].op = "move" /\ P[c].parent = ops[i].parent
    <3>1. 1..k - 1 \subseteq 1..m
      BY <1>2
    <3> QED BY <1>1, <1>5, <2>2, <3>1 DEF Adopts
  <2>3. CASE /\ c \in DOMAIN T /\ P[c].parent = T[c].parent
             /\ \A i \in 1..k - 1 : ops[i].id = c => ops[i].op = "update"
    <3>1. d \in DOMAIN T /\ T[c].parent = d
      BY <1>3, <1>4, <1>5, <2>3, TableTree
    <3>2. c # d
      <4> SUFFICES ASSUME c = d PROVE FALSE
        OBVIOUS
      <4>1. /\ IsTree(ids, Up(T)) /\ Up(T)[d] = d
        BY <1>3, <3>1, TableTree
      <4>2. Root \in Chain(Up(T), d)
        BY <3>1 DEF Forest
      <4>3. d \notin Chain(Up(T), d)
        BY <1>4, <4>1, <4>2, ChainOnce
      <4> QED BY <1>4, <4>1, <4>3, ChainFacts
    <3>3. c \in Descendants(T, d)
      BY <1>3, <2>3, <3>1, <3>2, BeneathParent
    <3>4. \E i \in 1..k - 1 : ops[i].op = "delete" /\ ops[i].id = c
      BY <1>1, <3>1, <3>3 DEF Listed
    <3> QED BY <2>3, <3>4
  <2> QED BY <1>1, <2>1, <2>2, <2>3 DEF ParentFrom
<1>6. ASSUME NEW c \in DOMAIN P, d \in Chain(Up(P), c) PROVE c = d
  <2> SUFFICES ASSUME c # d PROVE FALSE
    OBVIOUS
  <2>1. /\ IsTree(ids, Up(P)) /\ c \in ids /\ c # Root
        /\ \A e \in DOMAIN P : Up(P)[e] = P[e].parent
        /\ \A e \in ids \ DOMAIN P : Up(P)[e] = Root
    BY <1>3, TableTree
  <2>2. PICK C : C = (ids \cup {Root}) \ {d}
    OBVIOUS
  <2>3. \A e \in C \cap ids : Up(P)[e] \in C
    <3> SUFFICES ASSUME NEW e \in C \cap ids PROVE Up(P)[e] \in C
      OBVIOUS
    <3>1. Up(P)[e] \in ids \cup {Root}
      BY <2>1 DEF IsTree
    <3> QED BY <1>4, <1>5, <2>1, <2>2, <3>1
  <2>4. c \in C
    BY <2>1, <2>2
  <2>5. Chain(Up(P), c) \subseteq C
    BY <2>1, <2>3, <2>4, ChainFacts
  <2> QED BY <1>6, <2>2, <2>5
<1>7. Gone(P, {d}) = {d} \cap DOMAIN P
  <2>1. \A c \in Gone(P, {d}) : c = d /\ c \in DOMAIN P
    BY <1>6 DEF Gone
  <2>2. d \in DOMAIN P => d \in Gone(P, {d})
    BY <1>3, <1>4, GoneFacts
  <2> QED BY <2>1, <2>2
<1>8. tb[k] = Without(P, {d}) /\ DOMAIN tb[k] = DOMAIN P \ Gone(P, {d})
  BY <1>1, <1>3 DEF Step
<1>9. DOMAIN tb[k] = DOMAIN P \ {d}
  BY <1>7, <1>8
<1>10. tb[k] = Restrict(P, DOMAIN P \ {d})
  <2>1. DOMAIN P \ Gone(P, {d}) = DOMAIN P \ {d}
    BY <1>7
  <2> QED BY <1>8, <2>1 DEF Without, Restrict
<1>11. Clean(P, d, tb[k])
  BY <1>5, <1>7, <1>9, <1>10 DEF Clean
<1> QED BY <1>1, <1>11, Zenon

(* A client applies an operation as the table does, but for what a delete  *)
(* takes with it.                                                          *)
LEMMA ReplayIs ==
  ASSUME World, NEW P, TableOK(P), NEW o, OpOK(o), Possible(P, o)
  PROVE  /\ o.op # "delete" => applyOperation(P, o) = After(P, o)
         /\ o.op = "delete" => applyOperation(P, o) = Restrict(P, DOMAIN P \ {o.id})
<1>1. o.op \in {"create", "update", "move", "delete"}
  BY OpKinds
<1>2. CASE o.op = "create"
  BY <1>2 DEF applyOperation, After
<1>3. CASE o.op = "delete"
  <2>1. applyOperation(P, o) = Restrict(P, DOMAIN P \ {o.id})
    BY <1>3 DEF applyOperation
  <2> QED BY <1>3, <2>1
<1>4. CASE o.op = "move"
  <2>1. o.id \in DOMAIN P
    BY <1>4 DEF Possible
  <2>2. applyOperation(P, o) = [P EXCEPT ![o.id].parent = o.parent]
    BY <1>4, <2>1 DEF applyOperation
  <2>3. /\ P[o.id] \in [parent : DOMAIN P \cup {Root}, body : Bodies[o.id]]
        /\ P = [d \in DOMAIN P |-> P[d]]
    BY <2>1 DEF TableOK
  <2>4. PICK x : x = [parent |-> o.parent, body |-> P[o.id].body]
    OBVIOUS
  <2>5. [P[o.id] EXCEPT !.parent = o.parent] = x
    BY <2>3, <2>4
  <2>6. [P EXCEPT ![o.id] = x] = Put(P, o.id, x)
    BY <2>1, <2>3 DEF Put
  <2>7. [P EXCEPT ![o.id].parent = o.parent] = [P EXCEPT ![o.id] = x]
    BY <2>1, <2>3, <2>5
  <2>8. After(P, o) = Put(P, o.id, x)
    BY <1>4, <2>4 DEF After
  <2> QED BY <1>4, <2>2, <2>6, <2>7, <2>8
<1>5. CASE o.op = "update"
  <2>1. o.id \in DOMAIN P
    BY <1>5 DEF Possible
  <2>2. PICK b : b = Body(P, o.id, o)
    OBVIOUS
  <2>3. applyOperation(P, o) = [P EXCEPT ![o.id].body = b]
    BY <1>5, <2>1, <2>2 DEF applyOperation
  <2>4. /\ P[o.id] \in [parent : DOMAIN P \cup {Root}, body : Bodies[o.id]]
        /\ P = [d \in DOMAIN P |-> P[d]]
    BY <2>1 DEF TableOK
  <2>5. PICK x : x = [parent |-> P[o.id].parent, body |-> b]
    OBVIOUS
  <2>6. [P[o.id] EXCEPT !.body = b] = x
    BY <2>4, <2>5
  <2>7. [P EXCEPT ![o.id] = x] = Put(P, o.id, x)
    BY <2>1, <2>4 DEF Put
  <2>8. [P EXCEPT ![o.id].body = b] = [P EXCEPT ![o.id] = x]
    BY <2>1, <2>4, <2>6
  <2>9. After(P, o) = Put(P, o.id, x)
    BY <1>5, <2>2, <2>5 DEF After
  <2> QED BY <1>5, <2>3, <2>7, <2>8, <2>9
<1> QED BY <1>1, <1>2, <1>3, <1>4, <1>5

(* A client that applies the same operations has the same documents.       *)
LEMMA ReplayFollows ==
  ASSUME World, NEW T, NEW f, NEW ops, NEW m, NEW tb, NEW fd, NEW batch, NEW n,
         CleanRun(T, f, ops, m, tb, fd, batch, n), Len(ops) = m
  PROVE  Replay(T, ops) = tb[m]
<1>0. Run(T, f, ops, m, tb, fd)
  BY DEF CleanRun
<1>1. m \in Nat /\ tb[0] = T
  BY <1>0 DEF Run
<1>2. PICK h : /\ h[0] = T /\ \A k \in 1..m : h[k] = applyOperation(h[k - 1], ops[k])
               /\ Replay(T, ops) = h[m]
  BY <1>1, ReplaySteps, SMTT(40)
<1>3. ASSUME NEW j \in 1..m PROVE applyOperation(tb[j - 1], ops[j]) = tb[j]
  <2>0. j - 1 \in 0..m
    BY <1>1
  <2>1. /\ TableOK(tb[j - 1]) /\ OpOK(ops[j]) /\ Possible(tb[j - 1], ops[j])
        /\ tb[j] = After(tb[j - 1], ops[j])
    BY <1>0, <2>0, Zenon DEF Run
  <2>2. CASE ops[j].op # "delete"
    <3>1. PICK P, o : P = tb[j - 1] /\ o = ops[j]
      OBVIOUS
    <3>2. applyOperation(P, o) = After(P, o)
      <4>1. TableOK(P) /\ OpOK(o) /\ Possible(P, o) /\ o.op # "delete"
        BY <2>1, <2>2, <3>1, Zenon
      <4> QED BY <4>1, ReplayIs, Zenon
    <3> QED BY <2>1, <3>1, <3>2, Zenon
  <2>3. CASE ops[j].op = "delete"
    <3>0. Clean(tb[j - 1], ops[j].id, tb[j])
      BY <2>3, CleanDelete
    <3>1. tb[j] = Restrict(tb[j - 1], DOMAIN tb[j - 1] \ {ops[j].id})
      BY <3>0, Zenon DEF Clean
    <3>2. PICK P, o : P = tb[j - 1] /\ o = ops[j]
      OBVIOUS
    <3>3. applyOperation(P, o) = Restrict(P, DOMAIN P \ {o.id})
      BY <2>1, <2>3, <3>2, ReplayIs, Zenon
    <3> QED BY <3>1, <3>2, <3>3, Zenon
  <2> QED BY <2>2, <2>3
<1>4. PICK I : I = {k \in Nat : k <= m => h[k] = tb[k]}
  OBVIOUS
<1>5. 0 \in I
  BY <1>1, <1>2, <1>4
<1>6. ASSUME NEW k \in Nat, k \in I PROVE k + 1 \in I
  <2> SUFFICES ASSUME k + 1 <= m PROVE h[k + 1] = tb[k + 1]
    BY <1>4
  <2>1. PICK j \in 1..m : j = k + 1 /\ j - 1 = k /\ k <= m
    BY <1>1
  <2>2. h[j - 1] = tb[j - 1]
    BY <1>4, <1>6, <2>1
  <2>3. h[j] = applyOperation(h[j - 1], ops[j])
    BY <1>2, Zenon
  <2>4. h[j] = tb[j]
    BY <1>3, <2>2, <2>3, Zenon
  <2> QED BY <2>1, <2>4
<1>7. Nat \subseteq I
  BY <1>5, <1>6, NatInd
<1> QED BY <1>1, <1>2, <1>4, <1>7

-----------------------------------------------------------------------------
(* Phase 1: what a check that passes makes of the maps of the batch.       *)
AccOK(a) ==
  /\ a.ok \in BOOLEAN
  /\ a = [ok |-> a.ok, folders |-> a.folders, combats |-> a.combats, moves |-> a.moves,
          owner |-> a.owner, seeded |-> a.seeded, singles |-> a.singles]

(* The owners after a scene has been looked up.                            *)
Seeded(acc, scene, freed) ==
  IF scene \in acc.seeded \/ scene \in freed \/ active_combat_owner(scene) = {} THEN acc.owner
  ELSE Put(acc.owner, scene, CHOOSE d \in active_combat_owner(scene) : TRUE)

SameMaps(a, c) == c.folders = a.folders /\ c.combats = a.combats /\ c.moves = a.moves

Claims(a, c, d, scene, freed) ==
  /\ scene \in DOMAIN Seeded(a, scene, freed) => Seeded(a, scene, freed)[scene] = d
  /\ c.owner = Put(Seeded(a, scene, freed), scene, d)
  /\ c.seeded = a.seeded \cup {scene}

Releases(a, c, d, scene, freed) ==
  /\ \/ /\ scene \in DOMAIN Seeded(a, scene, freed) /\ Seeded(a, scene, freed)[scene] = d
        /\ c.owner = Restrict(Seeded(a, scene, freed), DOMAIN Seeded(a, scene, freed) \ {scene})
     \/ /\ ~(scene \in DOMAIN Seeded(a, scene, freed) /\ Seeded(a, scene, freed)[scene] = d)
        /\ c.owner = Seeded(a, scene, freed)
  /\ c.seeded = a.seeded \cup {scene}

LEMMA RefuseIs ==
  ASSUME NEW a, AccOK(a)
  PROVE  AccOK(Refuse(a)) /\ ~Refuse(a).ok
<1>1. PICK ok, fo, co, mo, ow, se, si :
        a = [ok |-> ok, folders |-> fo, combats |-> co, moves |-> mo,
             owner |-> ow, seeded |-> se, singles |-> si]
  BY DEF AccOK
<1>2. PICK no : no = FALSE
  OBVIOUS
<1>3. [a EXCEPT !.ok = no] = [ok |-> no, folders |-> fo, combats |-> co, moves |-> mo,
                              owner |-> ow, seeded |-> se, singles |-> si]
  BY <1>1
<1>4. Refuse(a) = [a EXCEPT !.ok = no]
  BY <1>2, Zenon DEF Refuse
<1> QED BY <1>2, <1>3, <1>4 DEF AccOK

SeedsTo(a, scene, freed, c) ==
  /\ AccOK(c) /\ c.ok = a.ok /\ SameMaps(a, c)
  /\ c.owner = Seeded(a, scene, freed) /\ c.seeded = a.seeded \cup {scene}

LEMMA SeedIs ==
  ASSUME NEW a, AccOK(a), NEW scene, NEW freed, NEW c, c = ensure_scene_owner_seeded(a, scene, freed)
  PROVE  SeedsTo(a, scene, freed, c)
<1>1. CASE scene \in a.seeded
  <2>1. c = a
    BY <1>1 DEF ensure_scene_owner_seeded
  <2> QED BY <1>1, <2>1 DEF SeedsTo, SameMaps, Seeded
<1>2. CASE scene \notin a.seeded
  <2>1. PICK ok, fo, co, mo, ow, se, si :
          /\ a = [ok |-> ok, folders |-> fo, combats |-> co, moves |-> mo,
                  owner |-> ow, seeded |-> se, singles |-> si]
          /\ ok \in BOOLEAN
    BY DEF AccOK
  <2>2. a.owner = ow /\ a.seeded = se
    BY <2>1
  <2>3. PICK se1, ow1 : /\ se1 = se \cup {scene}
                        /\ ow1 = IF scene \in freed \/ active_combat_owner(scene) = {} THEN ow
                                 ELSE Put(ow, scene, CHOOSE d \in active_combat_owner(scene) : TRUE)
    OBVIOUS
  <2>4. c = [a EXCEPT !.seeded = se1, !.owner = ow1]
    BY <1>2, <2>2, <2>3, Zenon DEF ensure_scene_owner_seeded
  <2>5. PICK u : u = [ok |-> ok, folders |-> fo, combats |-> co, moves |-> mo,
                      owner |-> ow, seeded |-> se1, singles |-> si]
    OBVIOUS
  <2>6. [a EXCEPT !.seeded = se1] = u
    BY <2>1, <2>5
  <2>7. [u EXCEPT !.owner = ow1] = [ok |-> ok, folders |-> fo, combats |-> co, moves |-> mo,
                                    owner |-> ow1, seeded |-> se1, singles |-> si]
    BY <2>5
  <2>8. c = [[a EXCEPT !.seeded = se1] EXCEPT !.owner = ow1]
    BY <2>4
  <2>9. c = [ok |-> ok, folders |-> fo, combats |-> co, moves |-> mo,
             owner |-> ow1, seeded |-> se1, singles |-> si]
    BY <2>6, <2>7, <2>8, Zenon
  <2>10. AccOK(c) /\ c.ok = a.ok /\ SameMaps(a, c)
    BY <2>1, <2>9 DEF AccOK, SameMaps
  <2>11. c.owner = ow1 /\ c.seeded = se1
    BY <2>9
  <2>12. ow1 = Seeded(a, scene, freed)
    BY <1>2, <2>2, <2>3 DEF Seeded
  <2> QED BY <2>2, <2>3, <2>10, <2>11, <2>12 DEF SeedsTo
<1> QED BY <1>1, <1>2

LEMMA ClaimIs ==
  ASSUME NEW a, AccOK(a), NEW d, NEW scene, NEW freed, NEW c, c = Claim(a, d, scene, freed)
  PROVE  AccOK(c) /\ (c.ok => SameMaps(a, c) /\ Claims(a, c, d, scene, freed))
<1>1. PICK s : s = ensure_scene_owner_seeded(a, scene, freed)
  OBVIOUS
<1>2. /\ AccOK(s) /\ s.ok = a.ok /\ SameMaps(a, s)
      /\ s.owner = Seeded(a, scene, freed) /\ s.seeded = a.seeded \cup {scene}
  <2>1. SeedsTo(a, scene, freed, s)
    BY <1>1, SeedIs, Zenon
  <2> QED BY <2>1 DEF SeedsTo
<1>3. c = IF scene \in DOMAIN s.owner /\ s.owner[scene] # d THEN Refuse(s)
          ELSE [s EXCEPT !.owner = Put(@, scene, d)]
  BY <1>1, Zenon DEF Claim
<1>4. CASE scene \in DOMAIN s.owner /\ s.owner[scene] # d
  <2>1. c = Refuse(s)
    BY <1>3, <1>4, Zenon
  <2> QED BY <1>2, <2>1, RefuseIs
<1>5. CASE ~(scene \in DOMAIN s.owner /\ s.owner[scene] # d)
  <2>1. PICK ok, fo, co, mo, ow, se, si :
          /\ s = [ok |-> ok, folders |-> fo, combats |-> co, moves |-> mo,
                  owner |-> ow, seeded |-> se, singles |-> si]
          /\ ok \in BOOLEAN
    BY <1>2 DEF AccOK
  <2>2. s.owner = ow
    BY <2>1
  <2>3. PICK ow1 : ow1 = Put(ow, scene, d)
    OBVIOUS
  <2>4. c = [s EXCEPT !.owner = ow1]
    BY <1>3, <1>5, <2>2, <2>3, Zenon
  <2>5. c = [ok |-> ok, folders |-> fo, combats |-> co, moves |-> mo,
             owner |-> ow1, seeded |-> se, singles |-> si]
    BY <2>1, <2>4
  <2>6. AccOK(c) /\ SameMaps(s, c) /\ c.seeded = s.seeded /\ c.owner = ow1
    BY <2>1, <2>5 DEF AccOK, SameMaps
  <2>7. SameMaps(a, c)
    BY <1>2, <2>6 DEF SameMaps
  <2>8. Claims(a, c, d, scene, freed)
    BY <1>2, <1>5, <2>2, <2>3, <2>6, Zenon DEF Claims
  <2> QED BY <2>6, <2>7, <2>8
<1> QED BY <1>4, <1>5

LEMMA ReleaseIs ==
  ASSUME NEW a, AccOK(a), NEW d, NEW scene, NEW freed, NEW c, c = Release(a, d, scene, freed)
  PROVE  AccOK(c) /\ SameMaps(a, c) /\ Releases(a, c, d, scene, freed)
<1>1. PICK s : s = ensure_scene_owner_seeded(a, scene, freed)
  OBVIOUS
<1>2. /\ AccOK(s) /\ s.ok = a.ok /\ SameMaps(a, s)
      /\ s.owner = Seeded(a, scene, freed) /\ s.seeded = a.seeded \cup {scene}
  <2>1. SeedsTo(a, scene, freed, s)
    BY <1>1, SeedIs, Zenon
  <2> QED BY <2>1 DEF SeedsTo
<1>3. c = IF scene \in DOMAIN s.owner /\ s.owner[scene] = d
          THEN [s EXCEPT !.owner = Restrict(@, DOMAIN @ \ {scene})] ELSE s
  BY <1>1, Zenon DEF Release
<1>4. CASE ~(scene \in DOMAIN s.owner /\ s.owner[scene] = d)
  <2>1. c = s
    BY <1>3, <1>4, Zenon
  <2>2. Releases(a, c, d, scene, freed)
    BY <1>2, <1>4, <2>1, Zenon DEF Releases
  <2> QED BY <1>2, <2>1, <2>2, Zenon
<1>5. CASE scene \in DOMAIN s.owner /\ s.owner[scene] = d
  <2>1. PICK ok, fo, co, mo, ow, se, si :
          /\ s = [ok |-> ok, folders |-> fo, combats |-> co, moves |-> mo,
                  owner |-> ow, seeded |-> se, singles |-> si]
          /\ ok \in BOOLEAN
    BY <1>2 DEF AccOK
  <2>2. s.owner = ow
    BY <2>1
  <2>3. PICK ow1 : ow1 = Restrict(ow, DOMAIN ow \ {scene})
    OBVIOUS
  <2>4. c = [s EXCEPT !.owner = ow1]
    BY <1>3, <1>5, <2>2, <2>3, Zenon
  <2>5. c = [ok |-> ok, folders |-> fo, combats |-> co, moves |-> mo,
             owner |-> ow1, seeded |-> se, singles |-> si]
    BY <2>1, <2>4
  <2>6. AccOK(c) /\ SameMaps(s, c) /\ c.seeded = s.seeded /\ c.owner = ow1
    BY <2>1, <2>5 DEF AccOK, SameMaps
  <2>7. SameMaps(a, c)
    BY <1>2, <2>6 DEF SameMaps
  <2>8. Releases(a, c, d, scene, freed)
    BY <1>2, <1>5, <2>2, <2>3, <2>6, Zenon DEF Releases
  <2> QED BY <2>6, <2>7, <2>8
<1> QED BY <1>4, <1>5

(* What an operation passes, and what it leaves in the maps.               *)
SameOwners(a, c) == c.owner = a.owner /\ c.seeded = a.seeded

PassedCreate(a, o, freed, who, c) ==
  /\ CreateOk(a, o, who)
  /\ c.folders = IF TypeOf[o.id] = "folder" THEN Put(a.folders, o.id, o.doc.parent) ELSE a.folders
  /\ c.combats = IF TypeOf[o.id] = "combat" THEN a.combats \cup {o.id} ELSE a.combats
  /\ c.moves = a.moves
  /\ IsActive(o.id, o.doc.body) => Claims(a, c, o.id, o.doc.body.scene, freed)
  /\ ~IsActive(o.id, o.doc.body) => SameOwners(a, c)

PassedUpdate(a, o, freed, who, c) ==
  /\ o.id \in DOMAIN docs /\ MayUpdate(who, o.id)
  /\ \A f \in DOMAIN o.old : docs[o.id].body[f] = o.old[f]
  /\ SameMaps(a, c)
  /\ \/ /\ IsActive(o.id, Body(docs, o.id, o))
        /\ Claims(a, c, o.id, Body(docs, o.id, o).scene, freed)
     \/ /\ ~IsActive(o.id, Body(docs, o.id, o)) /\ IsActive(o.id, docs[o.id].body)
        /\ Releases(a, c, o.id, docs[o.id].body.scene, freed)
     \/ /\ ~IsActive(o.id, Body(docs, o.id, o))
        /\ SameOwners(a, c)

PassedMove(a, o, who, c) ==
  /\ o.id \in DOMAIN docs /\ MayMove(who) /\ docs[o.id].parent = o.old
  /\ c.folders = a.folders /\ c.combats = a.combats /\ SameOwners(a, c)
  /\ \/ o.parent = o.old /\ c.moves = a.moves
     \/ /\ o.parent # o.old /\ c.moves = Put(a.moves, o.id, o.parent)
        /\ validate_containment(o.id, o.parent)
        /\ check_parent_placement(docs, a, o.id, o.parent)
        /\ check_move_acyclic(docs, a, o.id, o.parent)

PassedDelete(a, o, who, c) ==
  o.id \in DOMAIN docs /\ MayDelete(who, o.id) /\ SameMaps(a, c) /\ SameOwners(a, c)

Passed(a, o, freed, who, c) ==
  /\ o.op = "create" => PassedCreate(a, o, freed, who, c)
  /\ o.op = "update" => PassedUpdate(a, o, freed, who, c)
  /\ o.op = "move" => PassedMove(a, o, who, c)
  /\ o.op = "delete" => PassedDelete(a, o, who, c)

LEMMA CheckCreateIs ==
  ASSUME NEW a, AccOK(a), NEW o, NEW freed, NEW who, NEW c, c = CheckCreate(a, o, freed, who)
  PROVE  AccOK(c) /\ (c.ok => PassedCreate(a, o, freed, who, c))
<1>1. CASE ~CreateOk(a, o, who)
  <2>1. c = Refuse(a)
    BY <1>1, Zenon DEF CheckCreate
  <2> QED BY <2>1, RefuseIs
<1>2. CASE CreateOk(a, o, who)
  <2>1. PICK ok, fo, co, mo, ow, se, si :
          /\ a = [ok |-> ok, folders |-> fo, combats |-> co, moves |-> mo,
                  owner |-> ow, seeded |-> se, singles |-> si]
          /\ ok \in BOOLEAN
    BY DEF AccOK
  <2>2. a.folders = fo /\ a.combats = co /\ a.singles = si /\ a.owner = ow /\ a.seeded = se /\ a.moves = mo
    BY <2>1
  <2>3. PICK fo1, co1, si1 :
          /\ fo1 = IF TypeOf[o.id] = "folder" THEN Put(fo, o.id, o.doc.parent) ELSE fo
          /\ co1 = IF TypeOf[o.id] = "combat" THEN co \cup {o.id} ELSE co
          /\ si1 = IF TypeOf[o.id] = "single" THEN si \cup {"single"} ELSE si
    OBVIOUS
  <2>4. PICK s : s = [a EXCEPT !.folders = fo1, !.combats = co1, !.singles = si1]
    OBVIOUS
  <2>5. PICK u : u = [ok |-> ok, folders |-> fo1, combats |-> co, moves |-> mo,
                      owner |-> ow, seeded |-> se, singles |-> si]
    OBVIOUS
  <2>5a. PICK v : v = [ok |-> ok, folders |-> fo1, combats |-> co1, moves |-> mo,
                       owner |-> ow, seeded |-> se, singles |-> si]
    OBVIOUS
  <2>6. [a EXCEPT !.folders = fo1] = u
    BY <2>1, <2>5
  <2>7. [u EXCEPT !.combats = co1] = v
    BY <2>5, <2>5a
  <2>8. [v EXCEPT !.singles = si1] = [ok |-> ok, folders |-> fo1, combats |-> co1, moves |-> mo,
                                      owner |-> ow, seeded |-> se, singles |-> si1]
    BY <2>5a
  <2>9. s = [[[a EXCEPT !.folders = fo1] EXCEPT !.combats = co1] EXCEPT !.singles = si1]
    BY <2>4
  <2>10. s = [ok |-> ok, folders |-> fo1, combats |-> co1, moves |-> mo,
              owner |-> ow, seeded |-> se, singles |-> si1]
    BY <2>6, <2>7, <2>8, <2>9, Zenon
  <2>11. /\ AccOK(s) /\ s.ok = a.ok /\ s.folders = fo1 /\ s.combats = co1 /\ s.moves = a.moves
         /\ s.owner = a.owner /\ s.seeded = a.seeded
    BY <2>1, <2>2, <2>10 DEF AccOK
  <2>12. c = IF IsActive(o.id, o.doc.body) THEN Claim(s, o.id, o.doc.body.scene, freed) ELSE s
    BY <1>2, <2>2, <2>3, <2>4, Zenon DEF CheckCreate
  <2>13. CASE ~IsActive(o.id, o.doc.body)
    <3>1. c = s
      BY <2>12, <2>13, Zenon
    <3>2. SameOwners(a, c) /\ c.moves = a.moves /\ AccOK(c)
      BY <2>11, <3>1, Zenon DEF SameOwners
    <3> QED BY <1>2, <2>2, <2>3, <2>11, <2>13, <3>1, <3>2 DEF PassedCreate
  <2>14. CASE IsActive(o.id, o.doc.body)
    <3>1. PICK scene : scene = o.doc.body.scene
      OBVIOUS
    <3>2. c = Claim(s, o.id, scene, freed)
      BY <2>12, <2>14, <3>1, Zenon
    <3>3. AccOK(c) /\ (c.ok => SameMaps(s, c) /\ Claims(s, c, o.id, scene, freed))
      BY <2>11, <3>2, ClaimIs, Zenon
    <3>4. Seeded(s, scene, freed) = Seeded(a, scene, freed)
      BY <2>11 DEF Seeded
    <3>5. c.ok => Claims(a, c, o.id, scene, freed)
      BY <2>11, <3>3, <3>4, Zenon DEF Claims
    <3>6. c.ok => c.folders = fo1 /\ c.combats = co1 /\ c.moves = a.moves
      BY <2>11, <3>3, Zenon DEF SameMaps
    <3> QED BY <1>2, <2>2, <2>3, <2>14, <3>1, <3>3, <3>5, <3>6 DEF PassedCreate
  <2> QED BY <2>13, <2>14
<1> QED BY <1>1, <1>2

LEMMA CheckIs ==
  ASSUME NEW a, AccOK(a), NEW o, NEW freed, NEW who, NEW c, c = Check(a, o, freed, who),
         o.op \in {"create", "update", "move", "delete"}
  PROVE  AccOK(c) /\ (c.ok => a.ok /\ Passed(a, o, freed, who, c))
<1>1. CASE ~a.ok
  <2>1. c = a
    BY <1>1, Zenon DEF Check
  <2> QED BY <1>1, <2>1
<1>2. CASE a.ok /\ o.op = "create"
  <2>1. c = CheckCreate(a, o, freed, who)
    BY <1>2 DEF Check
  <2>2. AccOK(c) /\ (c.ok => PassedCreate(a, o, freed, who, c))
    BY <1>2, <2>1, CheckCreateIs, Zenon
  <2> QED BY <1>2, <2>2 DEF Passed
<1>3. CASE a.ok /\ o.op = "update"
  <2>1. c = CheckUpdate(a, o, freed, who)
    BY <1>3 DEF Check
  <2>2. AccOK(c) /\ (c.ok => PassedUpdate(a, o, freed, who, c))
    <3> DEFINE bad == \/ o.id \notin DOMAIN docs \/ ~MayUpdate(who, o.id)
                      \/ \E f \in DOMAIN o.old : docs[o.id].body[f] # o.old[f]
    <3>1. CASE bad
      <4>1. c = Refuse(a)
        BY <2>1, <3>1, Zenon DEF CheckUpdate
      <4> QED BY <4>1, RefuseIs
    <3>2. CASE ~bad
      <4>1. PICK before, after : before = docs[o.id].body /\ after = Body(docs, o.id, o)
        OBVIOUS
      <4>2. c = IF IsActive(o.id, after) THEN Claim(a, o.id, after.scene, freed)
                ELSE IF IsActive(o.id, before) THEN Release(a, o.id, before.scene, freed)
                ELSE a
        BY <2>1, <3>2, <4>1, Zenon DEF CheckUpdate
      <4>3. /\ o.id \in DOMAIN docs /\ MayUpdate(who, o.id)
            /\ \A f \in DOMAIN o.old : docs[o.id].body[f] = o.old[f]
        BY <3>2
      <4> HIDE DEF bad
      <4>4. CASE IsActive(o.id, after)
        <5>1. PICK scene : scene = after.scene
          OBVIOUS
        <5>2. c = Claim(a, o.id, scene, freed)
          BY <4>2, <4>4, <5>1, Zenon
        <5>3. AccOK(c) /\ (c.ok => SameMaps(a, c) /\ Claims(a, c, o.id, scene, freed))
          BY <1>3, <5>2, ClaimIs, Zenon
        <5> QED BY <4>1, <4>3, <4>4, <5>1, <5>3, Zenon DEF PassedUpdate
      <4>5. CASE ~IsActive(o.id, after) /\ IsActive(o.id, before)
        <5>1. PICK scene : scene = before.scene
          OBVIOUS
        <5>2. c = Release(a, o.id, scene, freed)
          BY <4>2, <4>5, <5>1, Zenon
        <5>3. AccOK(c) /\ SameMaps(a, c) /\ Releases(a, c, o.id, scene, freed)
          BY <1>3, <5>2, ReleaseIs, Zenon
        <5> QED BY <4>1, <4>3, <4>5, <5>1, <5>3, Zenon DEF PassedUpdate
      <4>6. CASE ~IsActive(o.id, after) /\ ~IsActive(o.id, before)
        <5>1. c = a
          BY <4>2, <4>6, Zenon
        <5>2. SameMaps(a, c) /\ SameOwners(a, c) /\ AccOK(c)
          BY <5>1, Zenon DEF SameMaps, SameOwners
        <5> QED BY <4>1, <4>3, <4>6, <5>2, Zenon DEF PassedUpdate
      <4> QED BY <4>4, <4>5, <4>6
    <3> QED BY <3>1, <3>2
  <2> QED BY <1>3, <2>2 DEF Passed
<1>4. CASE a.ok /\ o.op = "move"
  <2>1. c = CheckMove(a, o, who)
    BY <1>4 DEF Check
  <2>2. AccOK(c) /\ (c.ok => PassedMove(a, o, who, c))
    <3> DEFINE bad == o.id \notin DOMAIN docs \/ ~MayMove(who) \/ docs[o.id].parent # o.old
               fits == /\ validate_containment(o.id, o.parent)
                       /\ check_parent_placement(docs, a, o.id, o.parent)
                       /\ check_move_acyclic(docs, a, o.id, o.parent)
    <3>1. CASE bad \/ (~bad /\ o.parent # o.old /\ ~fits)
      <4>1. c = Refuse(a)
        BY <2>1, <3>1, Zenon DEF CheckMove
      <4> QED BY <4>1, RefuseIs
    <3>2. CASE ~bad /\ o.parent = o.old
      <4>1. c = a
        BY <2>1, <3>2, Zenon DEF CheckMove
      <4> QED BY <3>2, <4>1, Zenon DEF PassedMove, SameOwners
    <3>3. CASE ~bad /\ o.parent # o.old /\ fits
      <4>1. PICK ok, fo, co, mo, ow, se, si :
              /\ a = [ok |-> ok, folders |-> fo, combats |-> co, moves |-> mo,
                      owner |-> ow, seeded |-> se, singles |-> si]
              /\ ok \in BOOLEAN
        BY DEF AccOK
      <4>2. PICK mo1 : mo1 = Put(mo, o.id, o.parent)
        OBVIOUS
      <4>3. a.moves = mo
        BY <4>1
      <4>4. c = [a EXCEPT !.moves = mo1]
        BY <2>1, <3>3, <4>2, <4>3, Zenon DEF CheckMove
      <4>5. c = [ok |-> ok, folders |-> fo, combats |-> co, moves |-> mo1,
                 owner |-> ow, seeded |-> se, singles |-> si]
        BY <4>1, <4>4
      <4>6. /\ AccOK(c) /\ c.folders = a.folders /\ c.combats = a.combats /\ c.moves = mo1
            /\ SameOwners(a, c)
        BY <4>1, <4>5 DEF AccOK, SameOwners
      <4> QED BY <3>3, <4>2, <4>3, <4>6, Zenon DEF PassedMove
    <3> QED BY <3>1, <3>2, <3>3
  <2> QED BY <1>4, <2>2 DEF Passed
<1>5. CASE a.ok /\ o.op = "delete"
  <2>1. c = CheckDelete(a, o, who)
    BY <1>5 DEF Check
  <2>2. CASE o.id \in DOMAIN docs /\ MayDelete(who, o.id)
    <3>1. c = a
      BY <2>1, <2>2, Zenon DEF CheckDelete
    <3>2. SameMaps(a, c) /\ SameOwners(a, c)
      BY <3>1, Zenon DEF SameMaps, SameOwners
    <3> QED BY <1>5, <2>2, <3>1, <3>2 DEF Passed, PassedDelete
  <2>3. CASE ~(o.id \in DOMAIN docs /\ MayDelete(who, o.id))
    <3>1. c = Refuse(a)
      BY <2>1, <2>3, Zenon DEF CheckDelete
    <3> QED BY <3>1, RefuseIs
  <2> QED BY <2>2, <2>3
<1> QED BY <1>1, <1>2, <1>3, <1>4, <1>5

(* Phase 1 as a run: the maps after each operation.                        *)
Checked(who, batch, n, acc) ==
  /\ n \in Nat /\ acc[0] = Start
  /\ \A j \in 1..n : Passed(acc[j - 1], batch[j], deactivations_this_batch(batch), who, acc[j])

LEMMA Phase1Runs ==
  ASSUME NEW who, NEW batch, NEW n \in Nat, Len(batch) = n, Phase1(batch, who),
         \A j \in 1..n : OpOK(batch[j])
  PROVE  \E acc : Checked(who, batch, n, acc)
<1>1. PICK freed : freed = deactivations_this_batch(batch)
  OBVIOUS
<1>2. PICK h : /\ h[0] = Start
               /\ \A k \in 1..n : h[k] = Check(h[k - 1], batch[k], deactivations_this_batch(batch), who)
               /\ Phase1(batch, who) <=> h[n].ok
  <2>1. n \in Nat /\ Len(batch) = n
    OBVIOUS
  <2> QED BY <2>1, Phase1Steps
<1>2a. h[n].ok
  BY <1>2, Zenon
<1>2b. AccOK(Start)
  BY DEF AccOK, Start
<1>3. \A k \in 0..n : AccOK(h[k])
  <2>1. PICK I : I = {k \in Nat : k <= n => AccOK(h[k])}
    OBVIOUS
  <2>2. 0 \in I
    BY <1>2, <1>2b, <2>1
  <2>3. ASSUME NEW k \in Nat, k \in I PROVE k + 1 \in I
    <3> SUFFICES ASSUME k + 1 <= n PROVE AccOK(h[k + 1])
      BY <2>1
    <3>1. PICK j \in 1..n : j = k + 1 /\ j - 1 = k
      OBVIOUS
    <3>2. AccOK(h[j - 1])
      BY <2>1, <2>3, <3>1
    <3>3. h[j] = Check(h[j - 1], batch[j], freed, who)
      BY <1>1, <1>2, Zenon
    <3>4. batch[j].op \in {"create", "update", "move", "delete"}
      BY OpKinds
    <3> QED BY <3>1, <3>2, <3>3, <3>4, CheckIs, Zenon
  <2>4. Nat \subseteq I
    BY <2>2, <2>3, NatInd
  <2> QED BY <2>1, <2>4
<1>4. ASSUME NEW k \in 1..n, h[k].ok
      PROVE  h[k - 1].ok /\ Passed(h[k - 1], batch[k], freed, who, h[k])
  <2>1. k - 1 \in 0..n
    OBVIOUS
  <2>2. AccOK(h[k - 1]) /\ h[k] = Check(h[k - 1], batch[k], freed, who)
    BY <1>1, <1>2, <1>3, <2>1
  <2>3. batch[k].op \in {"create", "update", "move", "delete"}
    BY OpKinds
  <2> QED BY <1>4, <2>2, <2>3, CheckIs, Zenon
<1>5. \A k \in 0..n : h[k].ok
  <2>1. PICK I : I = {i \in Nat : i <= n => h[n - i].ok}
    OBVIOUS
  <2>2. 0 \in I
    BY <1>2a, <2>1
  <2>3. ASSUME NEW i \in Nat, i \in I PROVE i + 1 \in I
    <3> SUFFICES ASSUME i + 1 <= n PROVE h[n - (i + 1)].ok
      BY <2>1
    <3>1. n - i \in 1..n /\ (n - i) - 1 = n - (i + 1) /\ h[n - i].ok
      BY <2>1, <2>3
    <3> QED BY <1>4, <3>1
  <2>4. Nat \subseteq I
    BY <2>2, <2>3, NatInd
  <2>5. \A k \in 0..n : n - k \in Nat /\ n - k <= n /\ n - (n - k) = k
    OBVIOUS
  <2> QED BY <2>1, <2>4, <2>5
<1>6. ASSUME NEW j \in 1..n PROVE Passed(h[j - 1], batch[j], deactivations_this_batch(batch), who, h[j])
  <2>1. j \in 0..n
    OBVIOUS
  <2> QED BY <1>1, <1>4, <1>5, <2>1, Zenon
<1>7. Checked(who, batch, n, h)
  BY <1>2, <1>6, Zenon DEF Checked
<1> QED BY <1>7, Zenon

-----------------------------------------------------------------------------
(* A batch that commits: its checks, its expansion and its run.            *)
Committed(who, batch, n, acc, ops, off, m, tb, fd) ==
  /\ TableOK(docs) /\ Forest(docs)
  /\ n \in Nat \ {0} /\ DOMAIN batch = 1..n
  /\ (\A j \in 1..n : OpOK(batch[j])) /\ Checked(who, batch, n, acc)
  /\ Expansion(docs, batch, n, ops, off) /\ Len(ops) = m /\ m \in Nat \ {0}
  /\ DOMAIN ops = 1..m
  /\ (\A k \in 1..m : Listed(docs, batch, n, ops, k))
  /\ Run(docs, filed, ops, m, tb, fd)

LEMMA OpsOK ==
  ASSUME World, TableOK(docs), NEW o \in Ops
  PROVE  OpOK(o)
<1>1. CASE o \in Creates
  <2>1. PICK d, p, b : d \in ids /\ p \in Parents /\ b \in Bodies[d] /\
          o = [op |-> "create", id |-> d, doc |-> [parent |-> p, body |-> b]]
    BY <1>1 DEF Creates
  <2>2. [parent |-> p, body |-> b] \in [parent : Parents, body : Bodies[d]]
    BY <2>1
  <2>3. o.op = "create" /\ o.id = d /\ o.doc = [parent |-> p, body |-> b]
    BY <2>1
  <2> QED BY <2>1, <2>2, <2>3 DEF OpOK
<1>2. CASE o \in Updates
  <2>1. PICK d, b, c, F : d \in ids /\ b \in Bodies[d] /\ c \in Bodies[d] /\ F \in SUBSET DOMAIN b /\
          o = [op |-> "update", id |-> d, old |-> Restrict(b, F), new |-> Restrict(c, F)]
    BY <1>2 DEF Updates
  <2>2. o.op = "update" /\ o.id = d /\ o.old = Restrict(b, F) /\ o.new = Restrict(c, F)
    BY <2>1
  <2> QED BY <2>1, <2>2 DEF OpOK
<1>3. CASE o \in Moves
  <2>1. PICK d, p, q : d \in DOMAIN docs /\ p \in Parents /\ q \in {docs[d].parent, Root} /\
          o = [op |-> "move", id |-> d, parent |-> p, old |-> q]
    BY <1>3 DEF Moves
  <2>2. o.op = "move" /\ o.id = d /\ o.parent = p /\ o.old = q
    BY <2>1
  <2>3. d \in ids /\ q \in Parents
    <3>1. d \in ids /\ docs[d].parent \in DOMAIN docs \cup {Root} /\ DOMAIN docs \subseteq ids
      BY <2>1, TableTree DEF TableOK
    <3> QED BY <2>1, <3>1 DEF Parents
  <2> QED BY <2>1, <2>2, <2>3 DEF OpOK
<1>4. CASE o \in Deletes
  <2>1. PICK d \in DOMAIN docs : o = [op |-> "delete", id |-> d]
    BY <1>4 DEF Deletes
  <2>2. o.op = "delete" /\ o.id = d /\ d \in ids
    BY <2>1, TableTree
  <2> QED BY <2>2 DEF OpOK
<1> QED BY <1>1, <1>2, <1>3, <1>4 DEF Ops

LEMMA Commits ==
  ASSUME World, TableOK(docs), Forest(docs), filed \in Parents,
         NEW who, NEW n \in Nat \ {0}, NEW batch \in [1..n -> Ops], apply_intent(who, batch),
         NEW ops, ops = Expand(docs, batch)
  PROVE  \E acc, off, m, tb, fd :
           Committed(who, batch, n, acc, ops, off, m, tb, fd) /\ docs' = tb[m] /\ filed' = fd[m]
<1>1. PICK m : m = Len(ops)
  OBVIOUS
<1>2. DOMAIN batch = 1..n /\ Len(batch) = n /\ \A j \in 1..n : OpOK(batch[j])
  BY OpsOK
<1>3. m \in Nat /\ DOMAIN ops = 1..m /\ \E off : Expansion(docs, batch, n, ops, off)
  BY <1>1, <1>2, ExpandFacts
<1>4. PICK off : Expansion(docs, batch, n, ops, off)
  BY <1>3
<1>5. \A k \in 1..m : OpOK(ops[k])
  BY <1>1, <1>2, <1>4, ExpandedOK
<1>6. \A k \in 1..m : Listed(docs, batch, n, ops, k)
  BY <1>1, <1>2, <1>4, ExpansionLists
<1>7. PICK t : t = Phase2(docs, filed, ops)
  OBVIOUS
<1>8. Phase1(batch, who) /\ t.ok /\ docs' = t.docs /\ filed' = t.filed
  BY <1>7, Zenon DEF apply_intent
<1>9. PICK acc : Checked(who, batch, n, acc)
  BY <1>2, <1>8, Phase1Runs
<1>10. PICK tb, fd : Run(docs, filed, ops, m, tb, fd) /\ t.docs = tb[m] /\ t.filed = fd[m]
  BY <1>1, <1>3, <1>5, <1>7, <1>8, Phase2Runs
<1>11. m # 0
  <2>1. /\ n \in 0..n /\ n - 1 \in 0..n /\ n \in 1..n
        /\ off \in [0..n -> Nat] /\ off[n] = m /\ off[n - 1] < off[n]
    BY <1>1, <1>4 DEF Expansion
  <2>2. off[n - 1] \in Nat /\ off[n] \in Nat
    BY <2>1
  <2> QED BY <2>1, <2>2
<1>12. Committed(who, batch, n, acc, ops, off, m, tb, fd)
  BY <1>1, <1>2, <1>3, <1>4, <1>6, <1>9, <1>10, <1>11 DEF Committed
<1> QED BY <1>8, <1>10, <1>12, Zenon

(* No document is named twice; none is moved beneath one that is created,  *)
(* or only beneath a folder.                                               *)
Once(ops, m) == \A i, k \in 1..m : ops[i].id = ops[k].id => i = k
Houses(ops, m) ==
  \E i, k \in 1..m : /\ ops[i].op = "move" /\ ops[k].op = "create"
                     /\ ops[i].parent = ops[k].id /\ TypeOf[ops[k].id] # "folder"
Shelves(ops, m) ==
  \E i, k \in 1..m : /\ ops[i].op = "move" /\ ops[k].op = "create"
                     /\ ops[i].parent = ops[k].id /\ TypeOf[ops[k].id] = "folder"

LEMMA TangleFacts ==
  ASSUME NEW ops, NEW m, DOMAIN ops = 1..m
  PROVE  /\ "twice" \notin Tangles(ops) => Once(ops, m)
         /\ "adopted" \notin Tangles(ops) => ~Adopts(ops, m)
         /\ "housed" \notin Tangles(ops) => ~Houses(ops, m)
         /\ "shelved" \notin Tangles(ops) => ~Shelves(ops, m)
<1> DEFINE some(kinds) == {ops[i].id : i \in {j \in DOMAIN ops : ops[j].op \in kinds}}
           put(kinds)  == {o \in Range(ops) : o.op \in kinds}
<1>1. \A i \in 1..m : ops[i] \in Range(ops)
  BY DEF Range
<1>2. Once(ops, m) \/ "twice" \in Tangles(ops)
  BY DEF Once, Tangles, Reasons
<1>3. ASSUME Adopts(ops, m) PROVE "adopted" \in Tangles(ops)
  <2>1. PICK i \in 1..m, k \in 1..m :
          /\ ops[k].op = "delete"
          /\ \/ ops[i].op = "create" /\ ops[i].doc.parent = ops[k].id
             \/ ops[i].op = "move" /\ ops[i].parent = ops[k].id
    BY <1>3 DEF Adopts
  <2>2. ops[k].id \in some({"delete"})
    BY <2>1
  <2>3. \/ \E o \in put({"create"}) : o.doc.parent \in some({"delete"})
        \/ \E o \in put({"move"}) : o.parent \in some({"delete"})
    BY <1>1, <2>1, <2>2
  <2> QED BY <2>3 DEF Tangles, Reasons
<1>4. ASSUME Houses(ops, m) PROVE "housed" \in Tangles(ops)
  <2>1. PICK i \in 1..m, k \in 1..m :
          /\ ops[i].op = "move" /\ ops[k].op = "create"
          /\ ops[i].parent = ops[k].id /\ TypeOf[ops[k].id] # "folder"
    BY <1>4 DEF Houses
  <2>2. ops[i].parent \in some({"create"}) /\ ops[i] \in put({"move"})
    BY <1>1, <2>1
  <2>3. \E o \in put({"move"}) :
          /\ o.parent \in some({"create"})
          /\ TypeOf[o.parent] = "folder" <=> "housed" = "shelved"
    BY <2>1, <2>2
  <2> QED BY <2>3 DEF Tangles, Reasons
<1>5. ASSUME Shelves(ops, m) PROVE "shelved" \in Tangles(ops)
  <2>1. PICK i \in 1..m, k \in 1..m :
          /\ ops[i].op = "move" /\ ops[k].op = "create"
          /\ ops[i].parent = ops[k].id /\ TypeOf[ops[k].id] = "folder"
    BY <1>5 DEF Shelves
  <2>2. ops[i].parent \in some({"create"}) /\ ops[i] \in put({"move"})
    BY <1>1, <2>1
  <2>3. \E o \in put({"move"}) :
          /\ o.parent \in some({"create"})
          /\ TypeOf[o.parent] = "folder" <=> "shelved" = "shelved"
    BY <2>1, <2>2
  <2> QED BY <2>3 DEF Tangles, Reasons
<1> QED BY <1>2, <1>3, <1>4, <1>5

LEMMA OffsetsGrow ==
  ASSUME NEW T, NEW batch, NEW n \in Nat, NEW ops, NEW off, Expansion(T, batch, n, ops, off),
         NEW i \in 0..n, NEW j \in 0..n, i < j
  PROVE  off[i] < off[j]
<1>1. /\ \A h \in 0..n : off[h] \in Nat
      /\ \A h \in 1..n : off[h - 1] < off[h]
  BY DEF Expansion
<1>2. PICK I : I = {h \in Nat : i + 1 + h <= n => off[i] < off[i + 1 + h]}
  OBVIOUS
<1>3. 0 \in I
  <2>1. i + 1 <= n => i + 1 \in 1..n /\ (i + 1) - 1 = i /\ i + 1 + 0 = i + 1
    OBVIOUS
  <2> QED BY <1>1, <1>2, <2>1
<1>4. ASSUME NEW h \in Nat, h \in I PROVE h + 1 \in I
  <2> SUFFICES ASSUME i + 1 + (h + 1) <= n PROVE off[i] < off[i + 1 + (h + 1)]
    BY <1>2
  <2>1. PICK g \in 1..n : g = i + 1 + (h + 1) /\ g - 1 = i + 1 + h /\ g - 1 \in 0..n /\ g \in 0..n
    OBVIOUS
  <2>2. off[i] < off[g - 1]
    BY <1>2, <1>4, <2>1
  <2>3. off[g - 1] < off[g] /\ off[g - 1] \in Nat /\ off[g] \in Nat /\ off[i] \in Nat
    BY <1>1, <2>1
  <2>4. PICK a \in Nat, b \in Nat, c \in Nat : a = off[i] /\ b = off[g - 1] /\ c = off[g]
    BY <2>3
  <2>5. a < c
    BY <2>2, <2>3, <2>4
  <2> QED BY <2>1, <2>4, <2>5, Zenon
<1>5. Nat \subseteq I
  BY <1>3, <1>4, NatInd
<1>6. j - (i + 1) \in Nat /\ i + 1 + (j - (i + 1)) = j /\ j <= n
  OBVIOUS
<1>7. j - (i + 1) \in I
  BY <1>5, <1>6
<1> QED BY <1>2, <1>6, <1>7

(* An operation that is no delete is found at the same place in both.      *)
Places(batch, n, ops, off, m) ==
  /\ \A k \in 1..m : ops[k].op # "delete" =>
       \E j \in 1..n : ops[k] = batch[j] /\ off[j] = k /\ off[j - 1] = k - 1
  /\ \A j \in 1..n : /\ off[j] \in 1..m
                     /\ ops[off[j]].id = batch[j].id /\ ops[off[j]].op = batch[j].op
                     /\ batch[j].op # "delete" => ops[off[j]] = batch[j]

LEMMA Positions ==
  ASSUME NEW T, NEW batch, NEW n \in Nat, NEW ops, NEW off, Expansion(T, batch, n, ops, off)
  PROVE  Places(batch, n, ops, off, Len(ops))
<1>0. /\ \A h \in 0..n : off[h] \in Nat
      /\ off[n] = Len(ops)
  BY DEF Expansion
<1>1. ASSUME NEW k \in 1..Len(ops), ops[k].op # "delete"
      PROVE  \E j \in 1..n : ops[k] = batch[j] /\ off[j] = k /\ off[j - 1] = k - 1
  <2>1. PICK j \in 1..n : off[j - 1] < k /\ k <= off[j]
    BY DEF Expansion
  <2>2. PICK a \in Nat, b \in Nat : a = off[j - 1] /\ b = off[j] /\ a < k /\ k <= b
    <3>1. j \in 0..n /\ j - 1 \in 0..n
      OBVIOUS
    <3> QED BY <1>0, <2>1, <3>1
  <2>3. Expanded(T, batch[j], ops, a, b)
    BY <2>2, Zenon DEF Expansion
  <2>4. CASE b = a + 1 /\ ops[b] = batch[j]
    <3>1. k = b /\ a = k - 1
      BY <2>2, <2>4
    <3> QED BY <2>2, <2>4, <3>1
  <2>5. ASSUME NEW x, \A i \in 1..b - a : ops[a + i] = Logged(T, x[i]) PROVE FALSE
    <3>1. PICK p \in 1..b - a : a + p = k
      <4>1. k - a \in 1..b - a /\ a + (k - a) = k
        BY <2>2
      <4> QED BY <4>1
    <3>2. ops[k] = Logged(T, x[p])
      BY <2>5, <3>1
    <3> QED BY <1>1, <3>2 DEF Logged
  <2> QED BY <2>3, <2>4, <2>5 DEF Expanded
<1>2. ASSUME NEW j \in 1..n
      PROVE  /\ off[j] \in 1..Len(ops)
             /\ ops[off[j]].id = batch[j].id /\ ops[off[j]].op = batch[j].op
             /\ batch[j].op # "delete" => ops[off[j]] = batch[j]
  <2>1. j \in 0..n /\ j - 1 \in 0..n /\ n \in 0..n
    OBVIOUS
  <2>2. PICK a \in Nat, b \in Nat, c \in Nat : a = off[j - 1] /\ b = off[j] /\ c = off[n]
    BY <1>0, <2>1
  <2>3. Expanded(T, batch[j], ops, a, b) /\ a < b
    <3>1. off[j - 1] < off[j] /\ Expanded(T, batch[j], ops, off[j - 1], off[j])
      BY DEF Expansion
    <3> QED BY <2>2, <3>1, Zenon
  <2>4. /\ ops[b].id = batch[j].id /\ ops[b].op = batch[j].op
        /\ batch[j].op # "delete" => ops[b] = batch[j]
    <3>1. CASE batch[j].op # "delete" \/ batch[j].id \notin DOMAIN T
      <4>1. ops[b] = batch[j]
        BY <2>3, <3>1 DEF Expanded
      <4> QED BY <4>1, Zenon
    <3>2. CASE ~(batch[j].op # "delete" \/ batch[j].id \notin DOMAIN T)
      <4>1. PICK x : /\ ListsAll(T, batch[j].id, x, b - a)
                     /\ \A i \in 1..b - a : ops[a + i] = Logged(T, x[i])
        BY <2>3, <3>2 DEF Expanded
      <4>2. b - a \in 1..b - a /\ a + (b - a) = b
        BY <2>3
      <4>3. ops[b] = Logged(T, x[b - a])
        BY <4>1, <4>2
      <4>4. x[b - a] = batch[j].id
        BY <4>1 DEF ListsAll
      <4> QED BY <3>2, <4>3, <4>4 DEF Logged
    <3> QED BY <3>1, <3>2
  <2>5. b <= c
    <3>1. CASE j = n
      BY <2>2, <3>1
    <3>2. CASE j # n
      <4>1. j < n
        BY <3>2
      <4>2. off[j] < off[n]
        BY <2>1, <4>1, OffsetsGrow
      <4> QED BY <2>2, <4>2
    <3> QED BY <3>1, <3>2
  <2>6. b \in 1..c
    BY <2>3, <2>5
  <2> QED BY <1>0, <2>2, <2>4, <2>6, Zenon
<1> QED BY <1>1, <1>2, Zenon DEF Places

LEMMA Placing ==
  ASSUME NEW who, NEW batch, NEW n, NEW acc, NEW ops, NEW off, NEW m, NEW tb, NEW fd,
         Committed(who, batch, n, acc, ops, off, m, tb, fd)
  PROVE  Places(batch, n, ops, off, m)
<1>1. PICK T : T = docs
  OBVIOUS
<1>2. n \in Nat /\ Len(ops) = m /\ Expansion(T, batch, n, ops, off)
  BY <1>1 DEF Committed
<1>3. Places(batch, n, ops, off, Len(ops))
  BY <1>2, Positions
<1> QED BY <1>2, <1>3

LEMMA CommitClean ==
  ASSUME NEW who, NEW batch, NEW n, NEW acc, NEW ops, NEW off, NEW m, NEW tb, NEW fd,
         Committed(who, batch, n, acc, ops, off, m, tb, fd), ~Adopts(ops, m)
  PROVE  CleanRun(docs, filed, ops, m, tb, fd, batch, n)
BY Zenon DEF Committed, CleanRun

-----------------------------------------------------------------------------
(* The asset climbs one stored folder at a time.                           *)
Hop(ops, tb, fd, k) ==
  /\ fd[k] \in DOMAIN tb[k] \cup {Root} /\ fd[k] \in Chain(Up(docs), filed)
  /\ \A e \in Chain(Up(docs), filed) :
       e \in Chain(Up(docs), fd[k]) \/ (e \notin DOMAIN tb[k] /\ \E i \in 1..k : ops[i].id = e)

LEMMA HopsOn ==
  ASSUME World, NEW who, NEW batch, NEW n, NEW acc, NEW ops, NEW off, NEW m, NEW tb, NEW fd,
         Committed(who, batch, n, acc, ops, off, m, tb, fd), Once(ops, m), ~Adopts(ops, m),
         filed \in DOMAIN docs
  PROVE  Hop(ops, tb, fd, m)
<1>1. /\ TableOK(docs) /\ Forest(docs) /\ m \in Nat \ {0} /\ Run(docs, filed, ops, m, tb, fd)
      /\ CleanRun(docs, filed, ops, m, tb, fd, batch, n)
  BY CommitClean, Zenon DEF Committed
<1>2. /\ tb[0] = docs /\ fd[0] = filed /\ IsTree(ids, Up(docs))
      /\ \A d \in DOMAIN docs : d \in ids /\ d # Root /\ Up(docs)[d] = docs[d].parent
  BY <1>1, TableTree DEF Run
<1>3. PICK I : I = {k \in Nat : k <= m => Hop(ops, tb, fd, k)}
  OBVIOUS
<1>4. 0 \in I
  <2>1. filed \in Chain(Up(docs), filed)
    BY <1>2, ChainFacts
  <2> QED BY <1>2, <1>3, <2>1 DEF Hop
<1>5. ASSUME NEW i \in Nat, i \in I PROVE i + 1 \in I
  <2> SUFFICES ASSUME i + 1 <= m PROVE Hop(ops, tb, fd, i + 1)
    BY <1>3
  <2>1. PICK k \in 1..m : k = i + 1 /\ k - 1 = i /\ i \in 0..m /\ 1..k = 1..i \cup {k}
    BY <1>1
  <2>2. PICK P, o, N : P = tb[i] /\ o = ops[k] /\ N = tb[k]
    OBVIOUS
  <2>3. Step(P, o, N) /\ fd[k] = FiledAfter(P, fd[i], o)
    BY <1>1, <2>1, <2>2, RunStep DEF Run
  <2>4. Hop(ops, tb, fd, i)
    BY <1>1, <1>3, <1>5, <2>1
  <2>5. \A h \in 1..i : ops[h].id # o.id
    <3> SUFFICES ASSUME NEW h \in 1..i, ops[h].id = ops[k].id PROVE FALSE
      BY <2>2
    <3>1. h \in 1..m /\ h # k
      BY <1>1, <2>1
    <3> QED BY <3>1 DEF Once
  <2>6. ASSUME o.op = "delete" PROVE Clean(P, o.id, N)
    <3>1. ops[k].op = "delete"
      BY <2>2, <2>6
    <3>2. Clean(tb[k - 1], ops[k].id, tb[k])
      BY <1>1, <3>1, CleanDelete
    <3> QED BY <2>1, <2>2, <3>2, Zenon
  <2>7. \A e \in DOMAIN N : e \in DOMAIN P \/ e = o.id
    BY <2>3 DEF Step
  <2>8. CASE o.op # "delete" \/ o.id \notin DOMAIN P
    <3>1. fd[k] = fd[i]
      BY <2>3, <2>8 DEF FiledAfter
    <3>2. DOMAIN P \subseteq DOMAIN N
      BY <2>3, <2>6, <2>8 DEF Step, Clean
    <3>3. fd[k] \in DOMAIN N \cup {Root} /\ fd[k] \in Chain(Up(docs), filed)
      BY <2>2, <2>4, <3>1, <3>2 DEF Hop
    <3>4. ASSUME NEW e \in Chain(Up(docs), filed), e \notin Chain(Up(docs), fd[k])
          PROVE  e \notin DOMAIN N /\ \E h \in 1..k : ops[h].id = e
      <4>1. e \notin DOMAIN P /\ \E h \in 1..i : ops[h].id = e
        BY <2>2, <2>4, <3>1, <3>4 DEF Hop
      <4> QED BY <2>1, <2>5, <2>7, <4>1
    <3> QED BY <2>1, <2>2, <3>3, <3>4 DEF Hop
  <2>9. CASE o.op = "delete" /\ o.id \in DOMAIN P /\ fd[i] # o.id
    <3>1. fd[k] = fd[i]
      <4>1. Gone(P, {o.id}) \subseteq {o.id}
        BY <2>6, <2>9 DEF Clean
      <4> QED BY <2>3, <2>9, <4>1 DEF FiledAfter
    <3>2. DOMAIN N = DOMAIN P \ {o.id}
      BY <2>6, <2>9 DEF Clean
    <3>3. fd[k] \in DOMAIN N \cup {Root} /\ fd[k] \in Chain(Up(docs), filed)
      BY <2>2, <2>4, <2>9, <3>1, <3>2 DEF Hop
    <3>4. ASSUME NEW e \in Chain(Up(docs), filed), e \notin Chain(Up(docs), fd[k])
          PROVE  e \notin DOMAIN N /\ \E h \in 1..k : ops[h].id = e
      <4>1. e \notin DOMAIN P /\ \E h \in 1..i : ops[h].id = e
        BY <2>2, <2>4, <3>1, <3>4 DEF Hop
      <4> QED BY <2>1, <3>2, <4>1
    <3> QED BY <2>1, <2>2, <3>3, <3>4 DEF Hop
  <2>10. CASE o.op = "delete" /\ o.id \in DOMAIN P /\ fd[i] = o.id
    <3>1. PICK d, p : d = o.id /\ p = P[d].parent
      OBVIOUS
    <3>2. Gone(P, {d}) \subseteq {d} /\ p # d /\ DOMAIN N = DOMAIN P \ {d}
      BY <2>6, <2>10, <3>1 DEF Clean
    <3>3. fd[k] = p
      BY <2>3, <2>10, <3>1, <3>2 DEF FiledAfter
    <3>4. p \in DOMAIN P \cup {Root}
      BY <2>3, <2>10, <3>1, TableTree DEF Step
    <3>5. d \in DOMAIN docs /\ p = docs[d].parent
      <4>1. ParentFrom(docs, ops, tb, i, d)
        BY <1>1, <2>1, <2>2, <2>10, <3>1, Sources
      <4> QED BY <2>2, <2>5, <3>1, <4>1 DEF ParentFrom
    <3>6. d \in Chain(Up(docs), filed)
      BY <2>4, <2>10, <3>1 DEF Hop
    <3>7. p \in Chain(Up(docs), filed) /\ Chain(Up(docs), d) = {d} \cup Chain(Up(docs), p)
      <4>1. Up(docs)[d] = p /\ d \in ids /\ d # Root
        BY <1>2, <3>5
      <4>2. p \in Chain(Up(docs), filed)
        <5>1. filed \in ids \cup {Root}
          BY <1>2
        <5> QED BY <1>2, <3>6, <4>1, <5>1, ChainFacts
      <4> QED BY <1>2, <4>1, <4>2, ChainUp
    <3>8. fd[k] \in DOMAIN N \cup {Root} /\ fd[k] \in Chain(Up(docs), filed)
      BY <3>2, <3>3, <3>4, <3>7
    <3>9. ASSUME NEW e \in Chain(Up(docs), filed), e \notin Chain(Up(docs), fd[k])
          PROVE  e \notin DOMAIN N /\ \E h \in 1..k : ops[h].id = e
      <4>1. CASE e = d
        BY <2>1, <2>2, <3>1, <3>2, <4>1
      <4>2. CASE e # d
        <5>1. e \notin Chain(Up(docs), fd[i])
          BY <2>10, <3>1, <3>3, <3>7, <3>9, <4>2
        <5>2. e \notin DOMAIN P /\ \E h \in 1..i : ops[h].id = e
          BY <2>2, <2>4, <5>1 DEF Hop
        <5> QED BY <2>1, <3>2, <5>2
      <4> QED BY <4>1, <4>2
    <3> QED BY <2>1, <2>2, <3>8, <3>9 DEF Hop
  <2> QED BY <2>8, <2>9, <2>10
<1>6. Nat \subseteq I
  BY <1>4, <1>5, NatInd
<1> QED BY <1>1, <1>3, <1>6

LEMMA AssetHops ==
  ASSUME World, NEW who, NEW batch, NEW n, NEW acc, NEW ops, NEW off, NEW m, NEW tb, NEW fd,
         Committed(who, batch, n, acc, ops, off, m, tb, fd), Once(ops, m), ~Adopts(ops, m),
         filed \in DOMAIN docs,
         NEW stays, stays = Chain(Up(docs), filed) \cap (DOMAIN tb[m] \cup {Root})
  PROVE  fd[m] \in stays /\ stays \subseteq Chain(Up(docs), fd[m])
<1>1. Hop(ops, tb, fd, m)
  BY HopsOn
<1>2. TableOK(docs) /\ Forest(docs)
  BY DEF Committed
<1>3. IsTree(ids, Up(docs)) /\ Chain(Up(docs), filed) \subseteq DOMAIN docs \cup {Root}
  BY <1>2, TableTree
<1>4. Root \in Chain(Up(docs), fd[m])
  <2>1. fd[m] \in DOMAIN docs \cup {Root}
    BY <1>1, <1>3 DEF Hop
  <2> QED BY <1>2, <1>3, <2>1, ChainUp DEF Forest
<1> QED BY <1>1, <1>4 DEF Hop

-----------------------------------------------------------------------------
(* What a player's batch may hold.                                         *)
LEMMA PlayersOps ==
  ASSUME NEW batch, NEW n, NEW acc, NEW ops, NEW off, NEW m, NEW tb, NEW fd,
         Committed("player", batch, n, acc, ops, off, m, tb, fd),
         \A j \in 1..n : batch[j].op = "delete" =>
           \A d \in Descendants(docs, batch[j].id) : MayDelete("player", d),
         NEW k \in 1..m
  PROVE  /\ ops[k].op = "delete" => ops[k].id \in Owned /\ ops[k].id \in DOMAIN docs
         /\ ops[k].op # "move"
         /\ ops[k].op = "create" => ops[k].id \notin DOMAIN docs
<1>1. /\ Listed(docs, batch, n, ops, k)
      /\ \A j \in 1..n : Passed(acc[j - 1], batch[j], deactivations_this_batch(batch), "player", acc[j])
  BY DEF Committed, Checked
<1>2. ops[k].op = "delete" => ops[k].id \in Owned /\ ops[k].id \in DOMAIN docs
  <2> SUFFICES ASSUME ops[k].op = "delete" PROVE ops[k].id \in Owned /\ ops[k].id \in DOMAIN docs
    OBVIOUS
  <2>1. PICK j \in 1..n : /\ batch[j].op = "delete"
                          /\ \/ ops[k].id = batch[j].id
                             \/ ops[k].id \in Descendants(docs, batch[j].id)
    BY <1>1 DEF Listed
  <2>2. MayDelete("player", batch[j].id) /\ batch[j].id \in DOMAIN docs
    BY <1>1, <2>1 DEF Passed, PassedDelete
  <2> QED BY <2>1, <2>2 DEF MayDelete, Descendants
<1>3. ops[k].op # "move"
  <2> SUFFICES ASSUME ops[k].op = "move" PROVE FALSE
    OBVIOUS
  <2>1. PICK j \in 1..n : ops[k] = batch[j]
    BY <1>1 DEF Listed
  <2>2. MayMove("player")
    BY <1>1, <2>1 DEF Passed, PassedMove
  <2> QED BY <2>2 DEF MayMove
<1>4. ops[k].op = "create" => ops[k].id \notin DOMAIN docs
  <2> SUFFICES ASSUME ops[k].op = "create" PROVE ops[k].id \notin DOMAIN docs
    OBVIOUS
  <2>1. PICK j \in 1..n : ops[k] = batch[j]
    BY <1>1 DEF Listed
  <2>2. CreateOk(acc[j - 1], batch[j], "player")
    BY <1>1, <2>1 DEF Passed, PassedCreate
  <2> QED BY <2>1, <2>2 DEF CreateOk
<1> QED BY <1>2, <1>3, <1>4

LEMMA OthersStay ==
  ASSUME World, NEW batch, NEW n, NEW acc, NEW ops, NEW off, NEW m, NEW tb, NEW fd,
         Committed("player", batch, n, acc, ops, off, m, tb, fd),
         \A j \in 1..n : batch[j].op = "delete" =>
           \A d \in Descendants(docs, batch[j].id) : MayDelete("player", d)
  PROVE  DOMAIN docs \ DOMAIN tb[m] \subseteq Owned
<1>1. /\ TableOK(docs) /\ m \in Nat \ {0} /\ Run(docs, filed, ops, m, tb, fd) /\ tb[0] = docs
      /\ \A k \in 1..m : Listed(docs, batch, n, ops, k)
  BY DEF Committed, Run
<1>2. \A k \in 1..m : /\ ops[k].op = "delete" => ops[k].id \in Owned /\ ops[k].id \in DOMAIN docs
                      /\ ops[k].op # "move"
                      /\ ops[k].op = "create" => ops[k].id \notin DOMAIN docs
  BY PlayersOps
<1>3. PICK D : D = {d \in DOMAIN docs : \E k \in 1..m : ops[k].op = "delete" /\ ops[k].id = d}
  OBVIOUS
<1>4. PICK K : K = (DOMAIN docs \ D) \cup {Root}
  OBVIOUS
<1>5. \A c \in DOMAIN docs : c \in ids /\ c # Root /\ docs[c].parent \in DOMAIN docs \cup {Root}
  BY <1>1, TableTree
<1>6. ASSUME NEW c \in DOMAIN docs, c \notin D PROVE docs[c].parent \in K
  <2> SUFFICES ASSUME docs[c].parent \in D PROVE FALSE
    BY <1>4, <1>5
  <2>1. PICK k \in 1..m : ops[k].op = "delete" /\ ops[k].id = docs[c].parent
    BY <1>3
  <2>2. ops[k].id \in DOMAIN docs
    BY <1>2, <2>1
  <2>3. c \in Descendants(docs, ops[k].id) \cup {ops[k].id}
    <3>1. PICK d : d = ops[k].id
      OBVIOUS
    <3>2. docs[c].parent \in Descendants(docs, d) \cup {d}
      BY <2>1, <3>1
    <3> QED BY <1>1, <3>1, <3>2, BeneathParent
  <2>4. CASE c = ops[k].id
    BY <1>3, <1>6, <2>1, <2>4
  <2>5. CASE c \in Descendants(docs, ops[k].id)
    <3>1. PICK i \in 1..k - 1 : ops[i].op = "delete" /\ ops[i].id = c
      BY <1>1, <2>1, <2>2, <2>5 DEF Listed
    <3>2. i \in 1..m
      BY <1>1
    <3> QED BY <1>3, <1>6, <3>1, <3>2
  <2> QED BY <2>3, <2>4, <2>5
<1>7. PICK I : I = {k \in Nat : k <= m => \A c \in DOMAIN docs \ D :
                      c \in DOMAIN tb[k] /\ tb[k][c].parent = docs[c].parent}
  OBVIOUS
<1>8. 0 \in I
  BY <1>1, <1>7
<1>9. ASSUME NEW i \in Nat, i \in I PROVE i + 1 \in I
  <2> SUFFICES ASSUME i + 1 <= m, NEW c \in DOMAIN docs, c \notin D
               PROVE  c \in DOMAIN tb[i + 1] /\ tb[i + 1][c].parent = docs[c].parent
    BY <1>7
  <2>1. PICK k \in 1..m : k = i + 1 /\ k - 1 = i /\ i <= m
    BY <1>1
  <2>2. PICK P, o, N : P = tb[i] /\ o = ops[k] /\ N = tb[k]
    OBVIOUS
  <2>3. Step(P, o, N)
    BY <1>1, <2>1, <2>2, RunStep
  <2>4. \A e \in DOMAIN docs \ D : e \in DOMAIN P /\ P[e].parent = docs[e].parent
    BY <1>7, <1>9, <2>1, <2>2
  <2>5. /\ o.op = "delete" => o.id \in D
        /\ o.op # "move" /\ (o.op = "create" => o.id \notin DOMAIN docs)
    BY <1>2, <1>3, <2>2
  <2>6. CASE o.op = "create"
    BY <2>1, <2>2, <2>3, <2>4, <2>5, <2>6 DEF Step
  <2>7. CASE o.op = "update"
    BY <2>1, <2>2, <2>3, <2>4, <2>7 DEF Step
  <2>8. CASE o.op = "delete"
    <3>1. TableOK(P) /\ IsTree(ids, Up(P)) /\ \A e \in DOMAIN P : Up(P)[e] = P[e].parent
      BY <2>3, TableTree DEF Step
    <3>2. \A e \in K \cap ids : Up(P)[e] \in K
      <4> SUFFICES ASSUME NEW e \in K \cap ids PROVE Up(P)[e] \in K
        OBVIOUS
      <4>1. e \in DOMAIN docs /\ e \notin D
        BY <1>4 DEF World
      <4> QED BY <1>6, <2>4, <3>1, <4>1
    <3>3. c \in ids /\ c \in K
      BY <1>4, <1>5
    <3>4. Chain(Up(P), c) \subseteq K
      BY <3>1, <3>2, <3>3, ChainFacts
    <3>5. o.id \notin K
      BY <1>3, <1>4, <1>5, <2>5, <2>8
    <3>6. c \notin Gone(P, {o.id}) /\ c \in DOMAIN P
      BY <2>4, <3>4, <3>5 DEF Gone
    <3>7. c \in DOMAIN N /\ N[c] = P[c]
      BY <2>3, <2>8, <3>6 DEF Step
    <3> QED BY <2>1, <2>2, <2>4, <3>7
  <2> QED BY <2>3, <2>5, <2>6, <2>7, <2>8 DEF Step
<1>10. Nat \subseteq I
  BY <1>8, <1>9, NatInd
<1>11. \A c \in DOMAIN docs \ D : c \in DOMAIN tb[m]
  BY <1>1, <1>7, <1>10
<1>12. D \subseteq Owned
  BY <1>2, <1>3
<1> QED BY <1>11, <1>12

-----------------------------------------------------------------------------
(* The owners Phase 1 keeps.  HeldBy: a scene looked up belongs to d.      *)
(* Kept: if it is looked up at all.                                        *)
HeldBy(a, s, d) == s \in a.seeded /\ s \in DOMAIN a.owner /\ a.owner[s] = d
Kept(a, s, d) == HeldBy(a, s, d) \/ (s \notin a.seeded /\ s \notin DOMAIN a.owner)

(* d is who the table says holds s, and nothing frees it.                  *)
Holder(s, d, freed) == s \notin freed /\ active_combat_owner(s) = {d}

LEMMA SeededKeeps ==
  ASSUME NEW a, NEW s, NEW d, NEW freed, NEW r, NEW w, w = Seeded(a, r, freed)
  PROVE  /\ HeldBy(a, s, d) => s \in DOMAIN w /\ w[s] = d
         /\ Kept(a, s, d) /\ Holder(s, d, freed) /\ r = s => s \in DOMAIN w /\ w[s] = d
         /\ Kept(a, s, d) /\ r # s /\ s \notin a.seeded => s \notin DOMAIN w
<1>1. CASE r \in a.seeded \/ r \in freed \/ active_combat_owner(r) = {}
  <2>1. w = a.owner
    BY <1>1 DEF Seeded
  <2> QED BY <1>1, <2>1 DEF HeldBy, Kept, Holder
<1>2. CASE ~(r \in a.seeded \/ r \in freed \/ active_combat_owner(r) = {})
  <2>1. PICK x : x = CHOOSE e \in active_combat_owner(r) : TRUE
    OBVIOUS
  <2>2. w = Put(a.owner, r, x)
    BY <1>2, <2>1, Zenon DEF Seeded
  <2>3. /\ DOMAIN w = DOMAIN a.owner \cup {r} /\ w[r] = x
        /\ \A c \in DOMAIN a.owner : c # r => w[c] = a.owner[c]
    BY <2>2 DEF Put
  <2>4. active_combat_owner(r) = {d} => x = d
    BY <2>1
  <2> QED BY <1>2, <2>3, <2>4 DEF HeldBy, Kept, Holder
<1> QED BY <1>1, <1>2

(* What one operation of somebody else does to it.                         *)
LEMMA ClaimsKeep ==
  ASSUME NEW a, NEW c, NEW x, NEW r, NEW freed, Claims(a, c, x, r, freed), NEW s, NEW d, x # d
  PROVE  /\ HeldBy(a, s, d) => HeldBy(c, s, d) /\ r # s
         /\ Kept(a, s, d) /\ Holder(s, d, freed) => Kept(c, s, d) /\ r # s
<1>1. PICK w : w = Seeded(a, r, freed)
  OBVIOUS
<1>2. /\ r \in DOMAIN w => w[r] = x
      /\ c.owner = Put(w, r, x) /\ c.seeded = a.seeded \cup {r}
  BY <1>1, Zenon DEF Claims
<1>3. /\ DOMAIN c.owner = DOMAIN w \cup {r}
      /\ \A e \in DOMAIN w : e # r => c.owner[e] = w[e]
  BY <1>2 DEF Put
<1>4. /\ HeldBy(a, s, d) => s \in DOMAIN w /\ w[s] = d
      /\ Kept(a, s, d) /\ Holder(s, d, freed) /\ r = s => s \in DOMAIN w /\ w[s] = d
      /\ Kept(a, s, d) /\ r # s /\ s \notin a.seeded => s \notin DOMAIN w
  BY <1>1, SeededKeeps
<1>5. HeldBy(a, s, d) => HeldBy(c, s, d) /\ r # s
  BY <1>2, <1>3, <1>4 DEF HeldBy
<1>6. ASSUME Kept(a, s, d), Holder(s, d, freed) PROVE Kept(c, s, d) /\ r # s
  <2>1. r # s
    BY <1>2, <1>4, <1>6
  <2>2. CASE HeldBy(a, s, d)
    BY <1>5, <2>1, <2>2 DEF Kept
  <2>3. CASE s \notin a.seeded
    <3>1. s \notin c.seeded /\ s \notin DOMAIN c.owner
      BY <1>2, <1>3, <1>4, <1>6, <2>1, <2>3
    <3> QED BY <2>1, <3>1 DEF Kept
  <2> QED BY <1>6, <2>2, <2>3 DEF Kept
<1> QED BY <1>5, <1>6

LEMMA ReleasesKeep ==
  ASSUME NEW a, NEW c, NEW x, NEW r, NEW freed, Releases(a, c, x, r, freed), NEW s, NEW d, x # d
  PROVE  /\ HeldBy(a, s, d) => HeldBy(c, s, d)
         /\ Kept(a, s, d) /\ Holder(s, d, freed) => Kept(c, s, d)
<1>1. PICK w : w = Seeded(a, r, freed)
  OBVIOUS
<1>2. /\ \/ r \in DOMAIN w /\ w[r] = x /\ c.owner = Restrict(w, DOMAIN w \ {r})
         \/ ~(r \in DOMAIN w /\ w[r] = x) /\ c.owner = w
      /\ c.seeded = a.seeded \cup {r}
  BY <1>1, Zenon DEF Releases
<1>3. /\ \A e \in DOMAIN w : e # r => e \in DOMAIN c.owner /\ c.owner[e] = w[e]
      /\ DOMAIN c.owner \subseteq DOMAIN w
      /\ r \in DOMAIN w /\ w[r] # x => r \in DOMAIN c.owner /\ c.owner[r] = w[r]
  BY <1>2 DEF Restrict
<1>4. /\ HeldBy(a, s, d) => s \in DOMAIN w /\ w[s] = d
      /\ Kept(a, s, d) /\ Holder(s, d, freed) /\ r = s => s \in DOMAIN w /\ w[s] = d
      /\ Kept(a, s, d) /\ r # s /\ s \notin a.seeded => s \notin DOMAIN w
  BY <1>1, SeededKeeps
<1>5. HeldBy(a, s, d) => HeldBy(c, s, d)
  BY <1>2, <1>3, <1>4 DEF HeldBy
<1>6. ASSUME Kept(a, s, d), Holder(s, d, freed) PROVE Kept(c, s, d)
  <2>1. CASE HeldBy(a, s, d)
    BY <1>5, <2>1 DEF Kept
  <2>2. CASE s \notin a.seeded /\ r = s
    <3>1. s \in DOMAIN w /\ w[s] = d
      BY <1>4, <1>6, <2>2
    <3>2. HeldBy(c, s, d)
      BY <1>2, <1>3, <2>2, <3>1 DEF HeldBy
    <3> QED BY <3>2 DEF Kept
  <2>3. CASE s \notin a.seeded /\ r # s
    <3>1. s \notin c.seeded /\ s \notin DOMAIN c.owner
      BY <1>2, <1>3, <1>4, <1>6, <2>3
    <3> QED BY <3>1 DEF Kept
  <2> QED BY <1>6, <2>1, <2>2, <2>3 DEF Kept
<1> QED BY <1>5, <1>6

(* The operation that makes d active on s.                                 *)
Claimant(o, d, s) ==
  /\ o.id = d
  /\ \/ o.op = "create" /\ IsActive(d, o.doc.body) /\ o.doc.body.scene = s
     \/ o.op = "update" /\ IsActive(d, Body(docs, d, o)) /\ Body(docs, d, o).scene = s

LEMMA PassedKeeps ==
  ASSUME NEW a, NEW o, NEW freed, NEW who, NEW c, Passed(a, o, freed, who, c),
         o.op \in {"create", "update", "move", "delete"},
         NEW s, NEW d, o.op \in {"create", "update"} => o.id # d
  PROVE  /\ HeldBy(a, s, d) => HeldBy(c, s, d) /\ \A x : ~Claimant(o, x, s)
         /\ Kept(a, s, d) /\ Holder(s, d, freed) => Kept(c, s, d) /\ \A x : ~Claimant(o, x, s)
<1>1. ASSUME SameOwners(a, c)
      PROVE  (HeldBy(a, s, d) => HeldBy(c, s, d)) /\ (Kept(a, s, d) => Kept(c, s, d))
  BY <1>1, Zenon DEF SameOwners, HeldBy, Kept
<1>2. CASE o.op = "create"
  <2>1. PassedCreate(a, o, freed, who, c) /\ o.id # d
    BY <1>2 DEF Passed
  <2>2. CASE IsActive(o.id, o.doc.body)
    <3>1. Claims(a, c, o.id, o.doc.body.scene, freed)
      BY <2>1, <2>2 DEF PassedCreate
    <3>2. PICK x, r : /\ x = o.id /\ r = o.doc.body.scene
                      /\ Claims(a, c, x, r, freed) /\ x # d
      BY <2>1, <3>1
    <3>3. /\ HeldBy(a, s, d) => HeldBy(c, s, d) /\ r # s
          /\ Kept(a, s, d) /\ Holder(s, d, freed) => Kept(c, s, d) /\ r # s
      BY <3>2, ClaimsKeep
    <3> QED BY <1>2, <3>2, <3>3 DEF Claimant
  <2>3. CASE ~IsActive(o.id, o.doc.body)
    <3>1. SameOwners(a, c)
      BY <2>1, <2>3 DEF PassedCreate
    <3> QED BY <1>1, <1>2, <2>3, <3>1 DEF Claimant
  <2> QED BY <2>2, <2>3
<1>3. CASE o.op = "update"
  <2>1. PassedUpdate(a, o, freed, who, c) /\ o.id # d
    BY <1>3 DEF Passed
  <2>2. CASE /\ IsActive(o.id, Body(docs, o.id, o))
             /\ Claims(a, c, o.id, Body(docs, o.id, o).scene, freed)
    <3>1. PICK x, r : /\ x = o.id /\ r = Body(docs, o.id, o).scene
                      /\ Claims(a, c, x, r, freed) /\ x # d
      BY <2>1, <2>2
    <3>2. /\ HeldBy(a, s, d) => HeldBy(c, s, d) /\ r # s
          /\ Kept(a, s, d) /\ Holder(s, d, freed) => Kept(c, s, d) /\ r # s
      BY <3>1, ClaimsKeep
    <3> QED BY <1>3, <3>1, <3>2 DEF Claimant
  <2>3. CASE /\ ~IsActive(o.id, Body(docs, o.id, o))
             /\ Releases(a, c, o.id, docs[o.id].body.scene, freed)
    <3>1. /\ HeldBy(a, s, d) => HeldBy(c, s, d)
          /\ Kept(a, s, d) /\ Holder(s, d, freed) => Kept(c, s, d)
      BY <2>1, <2>3, ReleasesKeep, Zenon
    <3> QED BY <1>3, <2>3, <3>1 DEF Claimant
  <2>4. CASE ~IsActive(o.id, Body(docs, o.id, o)) /\ SameOwners(a, c)
    BY <1>1, <1>3, <2>4 DEF Claimant
  <2> QED BY <2>1, <2>2, <2>3, <2>4 DEF PassedUpdate
<1>4. CASE o.op = "move"
  BY <1>1, <1>4 DEF Passed, PassedMove, Claimant
<1>5. CASE o.op = "delete"
  BY <1>1, <1>5 DEF Passed, PassedDelete, Claimant
<1> QED BY <1>2, <1>3, <1>4, <1>5

LEMMA ClaimantHolds ==
  ASSUME NEW a, NEW o, NEW freed, NEW who, NEW c, Passed(a, o, freed, who, c),
         NEW s, NEW d, Claimant(o, d, s)
  PROVE  HeldBy(c, s, d)
<1>1. Claims(a, c, d, s, freed)
  <2>1. CASE o.op = "create"
    BY <2>1 DEF Claimant, Passed, PassedCreate
  <2>2. CASE o.op = "update"
    BY <2>2 DEF Claimant, Passed, PassedUpdate
  <2> QED BY <2>1, <2>2 DEF Claimant
<1>2. PICK w : w = Seeded(a, s, freed)
  OBVIOUS
<1>3. c.owner = Put(w, s, d) /\ c.seeded = a.seeded \cup {s}
  BY <1>1, <1>2, Zenon DEF Claims
<1>4. s \in DOMAIN c.owner /\ c.owner[s] = d
  BY <1>3 DEF Put
<1> QED BY <1>3, <1>4 DEF HeldBy

-----------------------------------------------------------------------------
(* One active combat per scene.                                            *)
OneActive(T) ==
  \A d, e \in DOMAIN T :
    IsActive(d, T[d].body) /\ IsActive(e, T[e].body) /\ d # e => T[d].body.scene # T[e].body.scene

BatchOnce(batch, n) == \A i, j \in 1..n : batch[i].id = batch[j].id => i = j

LEMMA OnceInBatch ==
  ASSUME NEW who, NEW batch, NEW n, NEW acc, NEW ops, NEW off, NEW m, NEW tb, NEW fd,
         Committed(who, batch, n, acc, ops, off, m, tb, fd), Once(ops, m)
  PROVE  BatchOnce(batch, n)
<1>1. n \in Nat /\ Len(ops) = m /\ Expansion(docs, batch, n, ops, off)
  BY DEF Committed
<1>2. ASSUME NEW i \in 1..n, NEW j \in 1..n, batch[i].id = batch[j].id, i < j PROVE FALSE
  <2>1. off[i] \in 1..m /\ off[j] \in 1..m /\ ops[off[i]].id = ops[off[j]].id
    BY <1>2, Placing DEF Places
  <2>2. off[i] = off[j]
    BY <2>1 DEF Once
  <2>3. off[i] < off[j]
    BY <1>1, <1>2, OffsetsGrow
  <2> QED BY <2>1, <2>2, <2>3
<1> SUFFICES ASSUME NEW i \in 1..n, NEW j \in 1..n, batch[i].id = batch[j].id PROVE i = j
  BY DEF BatchOnce
<1>3. i < j \/ j < i \/ i = j
  BY <1>1
<1> QED BY <1>2, <1>3

(* Once a combat has claimed a scene nobody else of the batch does.        *)
LEMMA HeldOn ==
  ASSUME NEW who, NEW batch, NEW n, NEW acc, Checked(who, batch, n, acc), BatchOnce(batch, n),
         \A j \in 1..n : OpOK(batch[j]),
         NEW s, NEW d, NEW j \in 1..n, Claimant(batch[j], d, s),
         NEW h \in 1..n, NEW x, Claimant(batch[h], x, s), j < h
  PROVE  FALSE
<1>0. n \in Nat
  BY DEF Checked
<1>1. ASSUME NEW i \in 1..n, j < i, HeldBy(acc[i - 1], s, d)
      PROVE  HeldBy(acc[i], s, d) /\ ~Claimant(batch[i], x, s)
  <2>1. batch[i].id # d
    BY <1>1 DEF BatchOnce, Claimant
  <2>2. Passed(acc[i - 1], batch[i], deactivations_this_batch(batch), who, acc[i])
    BY DEF Checked
  <2>3. batch[i].op \in {"create", "update", "move", "delete"}
    BY OpKinds
  <2>4. PICK o, freed, a, c : /\ o = batch[i] /\ a = acc[i - 1] /\ c = acc[i]
                              /\ freed = deactivations_this_batch(batch)
    OBVIOUS
  <2>5. /\ Passed(a, o, freed, who, c) /\ o.op \in {"create", "update", "move", "delete"}
        /\ o.id # d /\ HeldBy(a, s, d)
    BY <1>1, <2>1, <2>2, <2>3, <2>4
  <2>6. HeldBy(c, s, d) /\ ~Claimant(o, x, s)
    BY <2>5, PassedKeeps
  <2> QED BY <2>4, <2>6
<1>2. HeldBy(acc[j], s, d)
  <2>1. Passed(acc[j - 1], batch[j], deactivations_this_batch(batch), who, acc[j])
    BY DEF Checked
  <2> QED BY <2>1, ClaimantHolds
<1>3. PICK S : S = {i \in Nat : j <= i /\ i < h => HeldBy(acc[i], s, d)}
  OBVIOUS
<1>4. 0 \in S
  BY <1>3
<1>5. ASSUME NEW i \in Nat, i \in S PROVE i + 1 \in S
  <2> SUFFICES ASSUME j <= i + 1, i + 1 < h PROVE HeldBy(acc[i + 1], s, d)
    BY <1>3
  <2>1. CASE i + 1 = j
    BY <1>2, <2>1
  <2>2. CASE i + 1 # j
    <3>1. i + 1 \in 1..n /\ j < i + 1 /\ (i + 1) - 1 = i /\ HeldBy(acc[i], s, d)
      BY <1>0, <1>3, <1>5, <2>2
    <3> QED BY <1>1, <3>1
  <2> QED BY <2>1, <2>2
<1>6. Nat \subseteq S
  BY <1>4, <1>5, NatInd
<1>7. HeldBy(acc[h - 1], s, d)
  <2>1. h - 1 \in S /\ j <= h - 1 /\ h - 1 < h
    BY <1>0, <1>6
  <2> QED BY <1>3, <2>1
<1> QED BY <1>1, <1>7

(* A scene whose owner the batch leaves alone has no claimant.             *)
LEMMA HolderAlone ==
  ASSUME OneActive(docs), NEW who, NEW batch, NEW n, NEW acc, Checked(who, batch, n, acc),
         DOMAIN batch = 1..n, \A j \in 1..n : OpOK(batch[j]),
         NEW d \in DOMAIN docs, IsActive(d, docs[d].body), NEW s, s = docs[d].body.scene,
         \A j \in 1..n : batch[j].id = d => batch[j].op = "move",
         NEW h \in 1..n, NEW x, Claimant(batch[h], x, s)
  PROVE  FALSE
<1>0. n \in Nat
  BY DEF Checked
<1>1. PICK freed : freed = deactivations_this_batch(batch)
  OBVIOUS
<1>2. active_combat_owner(s) = {d}
  BY DEF active_combat_owner, OneActive
<1>3. s \notin freed
  <2> SUFFICES ASSUME s \in freed PROVE FALSE
    OBVIOUS
  <2>1. PICK e \in DOMAIN docs : /\ IsActive(e, docs[e].body) /\ s = docs[e].body.scene
                                 /\ \E i \in DOMAIN batch : batch[i].id = e /\ batch[i].op # "move"
    BY <1>1 DEF deactivations_this_batch
  <2>2. e = d
    BY <2>1 DEF OneActive
  <2> QED BY <2>1, <2>2
<1>4. Holder(s, d, freed)
  BY <1>2, <1>3 DEF Holder
<1>5. ASSUME NEW i \in 1..n, Kept(acc[i - 1], s, d)
      PROVE  Kept(acc[i], s, d) /\ ~Claimant(batch[i], x, s)
  <2>1. batch[i].op \in {"create", "update"} => batch[i].id # d
    OBVIOUS
  <2>2. Passed(acc[i - 1], batch[i], freed, who, acc[i])
    BY <1>1 DEF Checked
  <2>3. batch[i].op \in {"create", "update", "move", "delete"}
    BY OpKinds
  <2>4. PICK o, a, c : o = batch[i] /\ a = acc[i - 1] /\ c = acc[i]
    OBVIOUS
  <2>5. /\ Passed(a, o, freed, who, c) /\ o.op \in {"create", "update", "move", "delete"}
        /\ (o.op \in {"create", "update"} => o.id # d) /\ Kept(a, s, d)
    BY <1>5, <2>1, <2>2, <2>3, <2>4
  <2>6. Kept(c, s, d) /\ ~Claimant(o, x, s)
    BY <1>4, <2>5, PassedKeeps
  <2> QED BY <2>4, <2>6
<1>6. Kept(acc[0], s, d)
  BY DEF Checked, Kept, Start
<1>7. PICK S : S = {i \in Nat : i <= n => Kept(acc[i], s, d)}
  OBVIOUS
<1>8. 0 \in S
  BY <1>6, <1>7
<1>9. ASSUME NEW i \in Nat, i \in S PROVE i + 1 \in S
  <2> SUFFICES ASSUME i + 1 <= n PROVE Kept(acc[i + 1], s, d)
    BY <1>7
  <2>1. i + 1 \in 1..n /\ (i + 1) - 1 = i /\ Kept(acc[i], s, d)
    BY <1>0, <1>7, <1>9
  <2> QED BY <1>5, <2>1
<1>10. Nat \subseteq S
  BY <1>8, <1>9, NatInd
<1>11. h - 1 \in S /\ h - 1 <= n
  BY <1>0, <1>10
<1>12. Kept(acc[h - 1], s, d)
  BY <1>7, <1>11
<1> QED BY <1>5, <1>12

(* Where the body of a document after the batch comes from.                *)
Untouched(batch, n, x) == \A j \in 1..n : batch[j].id = x => batch[j].op = "move"

LEMMA FinalBody ==
  ASSUME World, NEW who, NEW batch, NEW n, NEW acc, NEW ops, NEW off, NEW m, NEW tb, NEW fd,
         Committed(who, batch, n, acc, ops, off, m, tb, fd), Once(ops, m),
         NEW x \in DOMAIN tb[m], IsActive(x, tb[m][x].body), NEW s, s = tb[m][x].body.scene
  PROVE  \/ \E j \in 1..n : Claimant(batch[j], x, s)
         \/ x \in DOMAIN docs /\ docs[x].body = tb[m][x].body /\ Untouched(batch, n, x)
<1>1. /\ n \in Nat /\ m \in Nat /\ Len(ops) = m /\ Expansion(docs, batch, n, ops, off)
      /\ Run(docs, filed, ops, m, tb, fd)
  BY DEF Committed
<1>2. BodyFrom(docs, ops, tb, m, x)
  <2>1. m \in 0..m
    BY <1>1
  <2> QED BY <1>1, <2>1, Sources
<1>3. ASSUME NEW i \in 1..m, ops[i].op # "delete" PROVE \E j \in 1..n : ops[i] = batch[j]
  BY <1>3, Placing DEF Places
<1>4. CASE x \in DOMAIN docs /\ tb[m][x].body = docs[x].body
           /\ \A i \in 1..m : ops[i].id = x => ops[i].op = "move"
  <2>1. ASSUME NEW j \in 1..n, batch[j].id = x PROVE batch[j].op = "move"
    <3>1. off[j] \in 1..m /\ ops[off[j]].id = x /\ ops[off[j]].op = batch[j].op
      BY <2>1, Placing DEF Places
    <3> QED BY <1>4, <3>1
  <2> QED BY <1>4, <2>1 DEF Untouched
<1>5. ASSUME NEW i \in 1..m, ops[i].id = x, ops[i].op = "create", tb[m][x].body = ops[i].doc.body
      PROVE  \E j \in 1..n : Claimant(batch[j], x, s)
  <2>1. Claimant(ops[i], x, s)
    BY <1>5 DEF Claimant
  <2> QED BY <1>3, <1>5, <2>1
<1>6. ASSUME NEW i \in 1..m, ops[i].id = x, ops[i].op = "update", x \in DOMAIN tb[i - 1],
             tb[m][x].body = Body(tb[i - 1], x, ops[i])
      PROVE  \E j \in 1..n : Claimant(batch[j], x, s)
  <2>1. i - 1 \in 0..m /\ i - 1 \in Nat
    BY <1>1
  <2>2. BodyFrom(docs, ops, tb, i - 1, x)
    BY <1>1, <1>6, <2>1, Sources
  <2>3. ASSUME NEW l \in 1..i - 1 PROVE ops[l].id # x
    <3>1. l \in 1..m /\ l # i
      BY <1>1
    <3> QED BY <1>6, <3>1 DEF Once
  <2>4. tb[i - 1][x].body = docs[x].body
    BY <2>2, <2>3 DEF BodyFrom
  <2>5. Body(docs, x, ops[i]) = tb[m][x].body
    BY <1>6, <2>4 DEF Body
  <2>6. Claimant(ops[i], x, s)
    BY <1>6, <2>5 DEF Claimant
  <2> QED BY <1>3, <1>6, <2>6
<1> QED BY <1>2, <1>4, <1>5, <1>6 DEF BodyFrom

LEMMA OneActiveStays ==
  ASSUME World, OneActive(docs),
         NEW who, NEW batch, NEW n, NEW acc, NEW ops, NEW off, NEW m, NEW tb, NEW fd,
         Committed(who, batch, n, acc, ops, off, m, tb, fd), Once(ops, m)
  PROVE  OneActive(tb[m])
<1>1. /\ Checked(who, batch, n, acc) /\ DOMAIN batch = 1..n /\ n \in Nat
      /\ \A j \in 1..n : OpOK(batch[j])
  BY DEF Committed
<1>2. BatchOnce(batch, n)
  BY OnceInBatch
<1> SUFFICES ASSUME NEW d \in DOMAIN tb[m], NEW e \in DOMAIN tb[m], d # e,
                    IsActive(d, tb[m][d].body), IsActive(e, tb[m][e].body),
                    tb[m][d].body.scene = tb[m][e].body.scene
             PROVE  FALSE
  BY DEF OneActive
<1>3. PICK s : s = tb[m][d].body.scene /\ s = tb[m][e].body.scene
  OBVIOUS
<1>4. \/ \E j \in 1..n : Claimant(batch[j], d, s)
      \/ d \in DOMAIN docs /\ docs[d].body = tb[m][d].body /\ Untouched(batch, n, d)
  BY <1>3, FinalBody
<1>5. \/ \E j \in 1..n : Claimant(batch[j], e, s)
      \/ e \in DOMAIN docs /\ docs[e].body = tb[m][e].body /\ Untouched(batch, n, e)
  BY <1>3, FinalBody
<1>6. ASSUME NEW x \in {d, e}, x \in DOMAIN docs, docs[x].body = tb[m][x].body,
             Untouched(batch, n, x), NEW h \in 1..n, NEW y, Claimant(batch[h], y, s)
      PROVE  FALSE
  <2>1. IsActive(x, docs[x].body) /\ s = docs[x].body.scene
    BY <1>3, <1>6
  <2>2. \A j \in 1..n : batch[j].id = x => batch[j].op = "move"
    BY <1>6 DEF Untouched
  <2> QED BY <1>1, <1>6, <2>1, <2>2, HolderAlone
<1>7. ASSUME NEW j \in 1..n, Claimant(batch[j], d, s), NEW h \in 1..n, Claimant(batch[h], e, s)
      PROVE  FALSE
  <2>1. j # h
    BY <1>7 DEF Claimant
  <2>2. CASE j < h
    BY <1>1, <1>2, <1>7, <2>2, HeldOn
  <2>3. CASE h < j
    BY <1>1, <1>2, <1>7, <2>3, HeldOn
  <2> QED BY <1>1, <2>1, <2>2, <2>3
<1>8. CASE /\ d \in DOMAIN docs /\ docs[d].body = tb[m][d].body /\ Untouched(batch, n, d)
           /\ e \in DOMAIN docs /\ docs[e].body = tb[m][e].body /\ Untouched(batch, n, e)
  BY <1>8 DEF OneActive
<1> QED BY <1>4, <1>5, <1>6, <1>7, <1>8

-----------------------------------------------------------------------------
(* What the maps of a batch hold after its first j operations.             *)
Makes(o, e) == o.op = "create" /\ o.id = e /\ TypeOf[e] = "folder"
Shifts(o, e) == o.op = "move" /\ o.id = e /\ o.parent # o.old

Mapped(batch, a, j) ==
  /\ \A e \in DOMAIN a.folders : \E i \in 1..j : Makes(batch[i], e) /\ a.folders[e] = batch[i].doc.parent
  /\ \A e \in DOMAIN a.moves : \E i \in 1..j : Shifts(batch[i], e) /\ a.moves[e] = batch[i].parent
  /\ \A e \in a.combats : TypeOf[e] = "combat"
  /\ \A i \in 1..j : /\ Makes(batch[i], batch[i].id) => batch[i].id \in DOMAIN a.folders
                     /\ Shifts(batch[i], batch[i].id) => batch[i].id \in DOMAIN a.moves

LEMMA MappedNext ==
  ASSUME NEW batch, NEW a, NEW i \in Nat, Mapped(batch, a, i),
         NEW freed, NEW who, NEW c, NEW o, o = batch[i + 1],
         o.op \in {"create", "update", "move", "delete"}, Passed(a, o, freed, who, c)
  PROVE  Mapped(batch, c, i + 1)
<1>1. 1..i + 1 = 1..i \cup {i + 1}
  OBVIOUS
<1>2. /\ c.folders = a.folders \/ (Makes(o, o.id) /\ c.folders = Put(a.folders, o.id, o.doc.parent))
      /\ Makes(o, o.id) => c.folders = Put(a.folders, o.id, o.doc.parent)
  <2>1. CASE o.op = "create"
    BY <2>1 DEF Passed, PassedCreate, Makes
  <2>2. CASE o.op # "create"
    BY <2>2 DEF Passed, PassedUpdate, PassedMove, PassedDelete, SameMaps, Makes
  <2> QED BY <2>1, <2>2
<1>3. /\ c.moves = a.moves \/ (Shifts(o, o.id) /\ c.moves = Put(a.moves, o.id, o.parent))
      /\ Shifts(o, o.id) => c.moves = Put(a.moves, o.id, o.parent)
  <2>1. CASE o.op = "move"
    BY <2>1 DEF Passed, PassedMove, Shifts
  <2>2. CASE o.op # "move"
    BY <2>2 DEF Passed, PassedUpdate, PassedCreate, PassedDelete, SameMaps, Shifts
  <2> QED BY <2>1, <2>2
<1>4. \A e \in c.combats : e \in a.combats \/ TypeOf[e] = "combat"
  BY DEF Passed, PassedCreate, PassedUpdate, PassedMove, PassedDelete, SameMaps
<1>5. ASSUME NEW e \in DOMAIN c.folders
      PROVE  \E k \in 1..i + 1 : Makes(batch[k], e) /\ c.folders[e] = batch[k].doc.parent
  <2>1. CASE e \in DOMAIN a.folders /\ c.folders[e] = a.folders[e]
    BY <1>1, <2>1 DEF Mapped
  <2>2. CASE ~(e \in DOMAIN a.folders /\ c.folders[e] = a.folders[e])
    <3>1. Makes(o, o.id) /\ c.folders = Put(a.folders, o.id, o.doc.parent)
      BY <1>2, <1>5, <2>2
    <3>2. e = o.id /\ c.folders[e] = o.doc.parent
      BY <1>5, <2>2, <3>1 DEF Put
    <3> QED BY <1>1, <3>1, <3>2
  <2> QED BY <2>1, <2>2
<1>6. ASSUME NEW e \in DOMAIN c.moves
      PROVE  \E k \in 1..i + 1 : Shifts(batch[k], e) /\ c.moves[e] = batch[k].parent
  <2>1. CASE e \in DOMAIN a.moves /\ c.moves[e] = a.moves[e]
    BY <1>1, <2>1 DEF Mapped
  <2>2. CASE ~(e \in DOMAIN a.moves /\ c.moves[e] = a.moves[e])
    <3>1. Shifts(o, o.id) /\ c.moves = Put(a.moves, o.id, o.parent)
      BY <1>3, <1>6, <2>2
    <3>2. e = o.id /\ c.moves[e] = o.parent
      BY <1>6, <2>2, <3>1 DEF Put
    <3> QED BY <1>1, <3>1, <3>2
  <2> QED BY <2>1, <2>2
<1>7. /\ DOMAIN a.folders \subseteq DOMAIN c.folders /\ DOMAIN a.moves \subseteq DOMAIN c.moves
      /\ Makes(o, o.id) => o.id \in DOMAIN c.folders
      /\ Shifts(o, o.id) => o.id \in DOMAIN c.moves
  BY <1>2, <1>3 DEF Put
<1>8. ASSUME NEW k \in 1..i + 1
      PROVE  /\ Makes(batch[k], batch[k].id) => batch[k].id \in DOMAIN c.folders
             /\ Shifts(batch[k], batch[k].id) => batch[k].id \in DOMAIN c.moves
  <2>1. CASE k = i + 1
    BY <1>7, <2>1
  <2>2. CASE k \in 1..i
    BY <1>7, <2>2 DEF Mapped
  <2> QED BY <1>1, <2>1, <2>2
<1>9. \A e \in c.combats : TypeOf[e] = "combat"
  BY <1>4 DEF Mapped
<1> QED BY <1>5, <1>6, <1>8, <1>9 DEF Mapped

LEMMA MappedAll ==
  ASSUME NEW who, NEW batch, NEW n, NEW acc, Checked(who, batch, n, acc),
         \A j \in 1..n : OpOK(batch[j]), NEW k \in 0..n
  PROVE  Mapped(batch, acc[k], k)
<1>0. n \in Nat
  BY DEF Checked
<1>1. Mapped(batch, acc[0], 0)
  <2>1. PICK a : a = acc[0] /\ DOMAIN a.folders = {} /\ DOMAIN a.moves = {} /\ a.combats = {}
    BY DEF Checked, Start
  <2>2. Mapped(batch, a, 0)
    BY <2>1 DEF Mapped
  <2> QED BY <2>1, <2>2
<1>2. PICK S : S = {i \in Nat : i <= n => Mapped(batch, acc[i], i)}
  OBVIOUS
<1>3. 0 \in S
  BY <1>1, <1>2
<1>4. ASSUME NEW i \in Nat, i \in S PROVE i + 1 \in S
  <2> SUFFICES ASSUME i + 1 <= n PROVE Mapped(batch, acc[i + 1], i + 1)
    BY <1>2
  <2>1. i + 1 \in 1..n /\ (i + 1) - 1 = i /\ Mapped(batch, acc[i], i)
    BY <1>0, <1>2, <1>4
  <2>2. PICK o, a, c, freed : o = batch[i + 1] /\ a = acc[i] /\ c = acc[i + 1]
                              /\ freed = deactivations_this_batch(batch)
    OBVIOUS
  <2>3. Passed(a, o, freed, who, c)
    <3>1. Passed(acc[(i + 1) - 1], batch[i + 1], deactivations_this_batch(batch), who, acc[i + 1])
      BY <2>1 DEF Checked
    <3> QED BY <2>1, <2>2, <3>1
  <2>4. o.op \in {"create", "update", "move", "delete"}
    BY <2>1, <2>2, OpKinds
  <2>5. Mapped(batch, c, i + 1)
    BY <2>1, <2>2, <2>3, <2>4, MappedNext
  <2> QED BY <2>2, <2>5
<1>5. Nat \subseteq S
  BY <1>3, <1>4, NatInd
<1> QED BY <1>0, <1>2, <1>5

-----------------------------------------------------------------------------
(* Everything stored is where it may be put.                               *)
PlacedAt(d, p) ==
  /\ validate_containment(d, p)
  /\ TypeOf[d] = "combatant" => TypeOf[p] = "combat"
  /\ TypeOf[d] = "folder" /\ p # Root => TypeOf[p] = "folder"
Placed(T) == \A d \in DOMAIN T : PlacedAt(d, T[d].parent)

LEMMA PlacedChecks ==
  ASSUME NEW batch, NEW a, NEW i, Mapped(batch, a, i), NEW d, NEW p,
         validate_containment(d, p), check_parent_placement(docs, a, d, p)
  PROVE  PlacedAt(d, p)
<1>1. \A e \in DOMAIN a.folders : TypeOf[e] = "folder"
  BY DEF Mapped, Makes
<1>2. \A e \in a.combats : TypeOf[e] = "combat"
  BY DEF Mapped
<1> QED BY <1>1, <1>2 DEF PlacedAt, check_parent_placement

(* What the operations of a batch put where.                               *)
OpPlaced(o) ==
  /\ o.op = "create" => /\ PlacedAt(o.id, o.doc.parent) /\ o.doc.parent # o.id
                        /\ o.id \notin DOMAIN docs
  /\ o.op = "move" => /\ o.id \in DOMAIN docs /\ docs[o.id].parent = o.old
                      /\ o.parent # o.old => PlacedAt(o.id, o.parent)
  /\ o.op = "update" => /\ o.id \in DOMAIN docs
                        /\ \A f \in DOMAIN o.old : docs[o.id].body[f] = o.old[f]
  /\ o.op = "delete" => o.id \in DOMAIN docs

LEMMA BatchPlaced ==
  ASSUME NEW who, NEW batch, NEW n, NEW acc, Checked(who, batch, n, acc),
         \A j \in 1..n : OpOK(batch[j]), NEW j \in 1..n
  PROVE  OpPlaced(batch[j])
<1>0. n \in Nat /\ j - 1 \in 0..n
  BY DEF Checked
<1>1. PICK o, a, c, freed : o = batch[j] /\ a = acc[j - 1] /\ c = acc[j]
                            /\ freed = deactivations_this_batch(batch)
  OBVIOUS
<1>2. Passed(a, o, freed, who, c)
  BY <1>1 DEF Checked
<1>3. Mapped(batch, a, j - 1)
  BY <1>0, <1>1, MappedAll
<1>4. o.op = "create" => /\ PlacedAt(o.id, o.doc.parent) /\ o.doc.parent # o.id
                         /\ o.id \notin DOMAIN docs
  BY <1>2, <1>3, PlacedChecks DEF Passed, PassedCreate, CreateOk
<1>5. o.op = "move" => /\ o.id \in DOMAIN docs /\ docs[o.id].parent = o.old
                       /\ o.parent # o.old => PlacedAt(o.id, o.parent)
  BY <1>2, <1>3, PlacedChecks DEF Passed, PassedMove
<1>6. /\ o.op = "update" => /\ o.id \in DOMAIN docs
                            /\ \A f \in DOMAIN o.old : docs[o.id].body[f] = o.old[f]
      /\ o.op = "delete" => o.id \in DOMAIN docs
  BY <1>2 DEF Passed, PassedUpdate, PassedDelete
<1> QED BY <1>1, <1>4, <1>5, <1>6 DEF OpPlaced

LEMMA PlacedStays ==
  ASSUME World, Placed(docs),
         NEW who, NEW batch, NEW n, NEW acc, NEW ops, NEW off, NEW m, NEW tb, NEW fd,
         Committed(who, batch, n, acc, ops, off, m, tb, fd), NEW k \in 0..m
  PROVE  Placed(tb[k])
<1>1. /\ Checked(who, batch, n, acc) /\ Run(docs, filed, ops, m, tb, fd) /\ m \in Nat
      /\ \A j \in 1..n : OpOK(batch[j])
  BY DEF Committed
<1>2. ASSUME NEW i \in 1..m, ops[i].op # "delete" PROVE OpPlaced(ops[i])
  <2>1. PICK j \in 1..n : ops[i] = batch[j]
    BY <1>2, Placing DEF Places
  <2> QED BY <1>1, <2>1, BatchPlaced
<1> SUFFICES ASSUME NEW d \in DOMAIN tb[k] PROVE PlacedAt(d, tb[k][d].parent)
  BY DEF Placed
<1>3. ParentFrom(docs, ops, tb, k, d)
  BY <1>1, Sources
<1>4. CASE d \in DOMAIN docs /\ tb[k][d].parent = docs[d].parent
  BY <1>4 DEF Placed
<1>5. ASSUME NEW i \in 1..k, ops[i].id = d, ops[i].op = "create", tb[k][d].parent = ops[i].doc.parent
      PROVE  PlacedAt(d, tb[k][d].parent)
  BY <1>1, <1>2, <1>5 DEF OpPlaced
<1>6. ASSUME NEW i \in 1..k, ops[i].id = d, ops[i].op = "move", tb[k][d].parent = ops[i].parent
      PROVE  PlacedAt(d, tb[k][d].parent)
  <2>1. OpPlaced(ops[i])
    BY <1>1, <1>2, <1>6
  <2>2. d \in DOMAIN docs /\ docs[d].parent = ops[i].old
    BY <1>6, <2>1 DEF OpPlaced
  <2> QED BY <1>6, <2>1, <2>2 DEF OpPlaced, Placed
<1> QED BY <1>3, <1>4, <1>5, <1>6 DEF ParentFrom

-----------------------------------------------------------------------------
(* The parents stay a forest.                                              *)

(* A table whose parents are the same has the same chains.                 *)
LEMMA ForestSame ==
  ASSUME World, NEW P, TableOK(P), Forest(P), NEW N, TableOK(N), DOMAIN N = DOMAIN P,
         \A c \in DOMAIN P : N[c].parent = P[c].parent
  PROVE  Forest(N)
<1>1. Up(N) = Up(P)
  BY DEF Up
<1> QED BY <1>1 DEF Forest

LEMMA ForestCreate ==
  ASSUME World, NEW P, TableOK(P), Forest(P), NEW o, NEW N, Step(P, o, N), o.op = "create",
         o.id \notin DOMAIN P, o.doc.parent # o.id
  PROVE  Forest(N)
<1>1. PICK d, p : d = o.id /\ p = o.doc.parent
  OBVIOUS
<1>2. /\ TableOK(N) /\ DOMAIN N = DOMAIN P \cup {d} /\ d \notin DOMAIN P /\ d # p
      /\ N[d].parent = p /\ \A c \in DOMAIN P : c # d => N[c] = P[c]
  BY <1>1 DEF Step
<1>3. p \in DOMAIN P \cup {Root} /\ d \in ids /\ d # Root
  BY <1>2, TableTree
<1>4. ASSUME NEW c \in DOMAIN P \cup {Root} PROVE Root \in Chain(Up(N), c)
  <2>1. Root \in Chain(Up(P), c)
    <3>1. CASE c = Root
      BY <3>1, TableTree, ChainUp
    <3>2. CASE c # Root
      BY <3>2 DEF Forest
    <3> QED BY <3>1, <3>2
  <2>2. Chain(Up(P), c) \subseteq DOMAIN P \cup {Root}
    BY TableTree
  <2>3. ASSUME NEW e \in Chain(Up(P), c), e # Root PROVE Up(N)[e] = Up(P)[e]
    <3>1. e \in DOMAIN P /\ e \in DOMAIN N /\ N[e] = P[e]
      BY <1>2, <2>2, <2>3
    <3> QED BY <1>2, <3>1, TableTree
  <2>4. IsTree(ids, Up(P)) /\ IsTree(ids, Up(N)) /\ c \in ids \cup {Root}
    BY <1>2, TableTree
  <2>5. Chain(Up(N), c) = Chain(Up(P), c)
    BY <2>3, <2>4, ChainAgree
  <2> QED BY <2>1, <2>5
<1>5. Root \in Chain(Up(N), d)
  <2>1. Chain(Up(N), d) = {d} \cup Chain(Up(N), Up(N)[d]) /\ Up(N)[d] = p
    BY <1>2, <1>3, TableTree, ChainUp
  <2> QED BY <1>3, <1>4, <2>1
<1> QED BY <1>2, <1>4, <1>5 DEF Forest

LEMMA ForestMove ==
  ASSUME World, NEW P, TableOK(P), Forest(P), NEW o, NEW N, Step(P, o, N), o.op = "move",
         o.id \notin Chain(Up(P), o.parent), Root \in Chain(Up(P), o.parent)
  PROVE  Forest(N)
<1>1. PICK d, p : d = o.id /\ p = o.parent
  OBVIOUS
<1>2. /\ TableOK(N) /\ DOMAIN N = DOMAIN P /\ d \in DOMAIN P
      /\ N[d].parent = p /\ \A c \in DOMAIN P : c # d => N[c] = P[c]
      /\ d \notin Chain(Up(P), p) /\ Root \in Chain(Up(P), p)
  BY <1>1 DEF Step
<1>3. /\ IsTree(ids, Up(P)) /\ IsTree(ids, Up(N)) /\ d \in ids /\ d # Root
      /\ Up(N)[d] = p /\ p \in DOMAIN N \cup {Root}
  BY <1>2, TableTree
<1>4. \A e \in ids : e # d => Up(N)[e] = Up(P)[e]
  BY <1>2, <1>3, TableTree
<1>5. p \in ids \cup {Root} /\ DOMAIN N \subseteq ids
  BY <1>2, <1>3 DEF TableOK
<1>6. Chain(Up(N), p) = Chain(Up(P), p)
  <2>1. \A e \in Chain(Up(P), p) : e # Root => e \in ids /\ e # d
    BY <1>2, <1>3, <1>5, ChainFacts
  <2>2. \A e \in Chain(Up(P), p) : e # Root => Up(N)[e] = Up(P)[e]
    BY <1>4, <2>1
  <2> QED BY <1>3, <1>5, <2>2, ChainAgree
<1>7. Root \in Chain(Up(N), d)
  <2>1. Chain(Up(N), d) = {d} \cup Chain(Up(N), p)
    BY <1>3, ChainUp
  <2> QED BY <1>2, <1>6, <2>1
<1>8. ASSUME NEW c \in DOMAIN N, Root \notin Chain(Up(N), c) PROVE FALSE
  <2>0. c \in ids
    BY <1>5
  <2>1. d \notin Chain(Up(N), c)
    <3>1. d \in Chain(Up(N), c) => Chain(Up(N), d) \subseteq Chain(Up(N), c)
      BY <1>3, <2>0, ChainUp
    <3> QED BY <1>7, <1>8, <3>1
  <2>2. \A e \in Chain(Up(N), c) : e # Root => e \in ids /\ e # d
    BY <1>3, <2>0, <2>1, ChainFacts
  <2>3. \A e \in Chain(Up(N), c) : e # Root => Up(P)[e] = Up(N)[e]
    BY <1>4, <2>2
  <2>4. Chain(Up(P), c) = Chain(Up(N), c)
    BY <1>3, <2>0, <2>3, ChainAgree
  <2> QED BY <1>2, <1>8, <2>4 DEF Forest
<1> QED BY <1>8 DEF Forest

LEMMA ForestDelete ==
  ASSUME World, NEW P, TableOK(P), Forest(P), NEW o, NEW N, Step(P, o, N), o.op = "delete"
  PROVE  Forest(N)
<1>1. PICK D : D = {o.id}
  OBVIOUS
<1>2. N = Without(P, D) /\ DOMAIN N \subseteq DOMAIN P /\ Root \notin D
  BY <1>1 DEF Step, World
<1>3. \A c \in DOMAIN N : Chain(Up(N), c) = Chain(Up(P), c)
  BY <1>2, WithoutOK
<1> QED BY <1>2, <1>3 DEF Forest

(* The tree check_move_acyclic walks, and the one it stands for.           *)
Seen(acc) == Over(acc.moves, Over(acc.folders, Up(docs)))

(* The operations before the one batch[j] became are those of batch[1],    *)
(* ..., batch[j - 1].                                                      *)
Earlier(batch, ops, off, j) ==
  /\ \A i \in 1..off[j] - 1 : ops[i].op # "delete" => \E h \in 1..j - 1 : ops[i] = batch[h]
  /\ \A h \in 1..j - 1 : off[h] \in 1..off[j] - 1 /\ (batch[h].op # "delete" => ops[off[h]] = batch[h])

LEMMA EarlierIs ==
  ASSUME NEW who, NEW batch, NEW n, NEW acc, NEW ops, NEW off, NEW m, NEW tb, NEW fd,
         Committed(who, batch, n, acc, ops, off, m, tb, fd), NEW j \in 1..n
  PROVE  Earlier(batch, ops, off, j)
<1>1. n \in Nat /\ m \in Nat /\ Expansion(docs, batch, n, ops, off) /\ Places(batch, n, ops, off, m)
  BY Placing DEF Committed
<1>2. PICK T : T = docs
  OBVIOUS
<1>3. \A g, h \in 1..n : g < h => off[g] < off[h]
  <2> SUFFICES ASSUME NEW g \in 1..n, NEW h \in 1..n, g < h PROVE off[g] < off[h]
    OBVIOUS
  <2>1. g \in 0..n /\ h \in 0..n /\ Expansion(T, batch, n, ops, off)
    BY <1>1, <1>2
  <2> QED BY <1>1, <2>1, OffsetsGrow
<1>4. \A h \in 1..n : off[h] \in 1..m
  BY <1>1 DEF Places
<1>5. ASSUME NEW i \in 1..off[j] - 1, ops[i].op # "delete"
      PROVE  \E h \in 1..j - 1 : ops[i] = batch[h]
  <2>1. i \in 1..m
    BY <1>1, <1>4
  <2>2. PICK h \in 1..n : ops[i] = batch[h] /\ off[h] = i
    BY <1>1, <1>5, <2>1 DEF Places
  <2>3. ~(j < h) /\ j # h
    BY <1>3, <1>4, <2>2
  <2> QED BY <1>1, <2>2, <2>3
<1>6. ASSUME NEW h \in 1..j - 1
      PROVE  off[h] \in 1..off[j] - 1 /\ (batch[h].op # "delete" => ops[off[h]] = batch[h])
  <2>1. h \in 1..n /\ h < j
    BY <1>1
  <2> QED BY <1>1, <1>3, <1>4, <2>1 DEF Places
<1> QED BY <1>5, <1>6 DEF Earlier

(* A stored document is as it was before the batch, or of the batch.       *)
LEMMA NewMade ==
  ASSUME World, NEW who, NEW batch, NEW n, NEW acc, NEW ops, NEW off, NEW m, NEW tb, NEW fd,
         Committed(who, batch, n, acc, ops, off, m, tb, fd), NEW k \in 0..m,
         NEW e \in DOMAIN tb[k], e \notin DOMAIN docs
  PROVE  \E i \in 1..k : ops[i].op = "create" /\ ops[i].id = e
<1>1. /\ Checked(who, batch, n, acc) /\ Run(docs, filed, ops, m, tb, fd) /\ m \in Nat
      /\ \A j \in 1..n : OpOK(batch[j])
  BY DEF Committed
<1>2. ParentFrom(docs, ops, tb, k, e)
  BY <1>1, Sources
<1>3. PICK i \in 1..k : ops[i].id = e /\ ops[i].op \in {"create", "move"}
  BY <1>2 DEF ParentFrom
<1>4. ops[i].op # "move"
  <2> SUFFICES ASSUME ops[i].op = "move" PROVE FALSE
    OBVIOUS
  <2>0. i \in 1..m /\ ops[i].op # "delete"
    BY <1>1
  <2>1. PICK j \in 1..n : ops[i] = batch[j]
    BY <2>0, Placing DEF Places
  <2>2. OpPlaced(ops[i])
    BY <1>1, <2>1, BatchPlaced
  <2> QED BY <1>3, <2>2 DEF OpPlaced
<1> QED BY <1>3, <1>4

LEMMA SeenTree ==
  ASSUME World, TableOK(docs), NEW batch, NEW a, NEW i \in Nat, Mapped(batch, a, i),
         \A h \in 1..i : OpOK(batch[h])
  PROVE  IsTree(ids, Seen(a))
<1>1. PICK U : U = Seen(a)
  OBVIOUS
<1>2. PICK F : F = Over(a.folders, Up(docs))
  OBVIOUS
<1>3. DOMAIN Up(docs) = ids /\ \A e \in ids : Up(docs)[e] \in Parents
  <2>1. IsTree(ids, Up(docs))
    BY TableTree
  <2> QED BY <2>1 DEF IsTree, Parents
<1>4. \A e \in DOMAIN a.folders : e \in ids /\ a.folders[e] \in Parents
  BY DEF Mapped, Makes, OpOK
<1>5. \A e \in DOMAIN a.moves : e \in ids /\ a.moves[e] \in Parents
  BY DEF Mapped, Shifts, OpOK
<1>6. /\ F = [e \in ids |-> F[e]] /\ \A e \in ids : F[e] \in Parents
  BY <1>2, <1>3, <1>4 DEF Over
<1>7. /\ U = [e \in ids |-> U[e]] /\ \A e \in ids : U[e] \in Parents
  <2>1. U = Over(a.moves, F)
    BY <1>1, <1>2 DEF Seen
  <2> QED BY <1>5, <1>6, <2>1 DEF Over
<1>8. U \in [ids -> ids \cup {Root}]
  BY <1>7 DEF Parents
<1> QED BY <1>1, <1>8 DEF IsTree, World

(* It shows the parent of whatever was stored before the batch, and of     *)
(* every folder.                                                           *)
LEMMA SeenIs ==
  ASSUME World, NEW who, NEW batch, NEW n, NEW acc, NEW ops, NEW off, NEW m, NEW tb, NEW fd,
         Committed(who, batch, n, acc, ops, off, m, tb, fd), Once(ops, m),
         NEW j \in 1..n, NEW k, k = off[j], NEW P, P = tb[k - 1],
         NEW e \in DOMAIN P, e \in DOMAIN docs \/ TypeOf[e] = "folder"
  PROVE  /\ Seen(acc[j - 1])[e] = P[e].parent
         /\ P[e].parent \in DOMAIN docs \cup {Root} \/ TypeOf[P[e].parent] = "folder"
            \/ \E i \in 1..k - 1 : ops[i].op = "move" /\ ops[i].id = e /\ ops[i].parent = P[e].parent
<1>1. /\ Checked(who, batch, n, acc) /\ Run(docs, filed, ops, m, tb, fd) /\ m \in Nat /\ n \in Nat
      /\ TableOK(docs) /\ \A h \in 1..n : OpOK(batch[h])
  BY DEF Committed
<1>2. k \in 1..m /\ k - 1 \in 0..m /\ Earlier(batch, ops, off, j) /\ BatchOnce(batch, n)
  BY <1>1, Placing, EarlierIs, OnceInBatch DEF Places
<1>3. PICK a : a = acc[j - 1] /\ Mapped(batch, a, j - 1)
  <2>1. j - 1 \in 0..n
    BY <1>1
  <2> QED BY <1>1, <2>1, MappedAll
<1>4. PICK up : up = Up(docs)
  OBVIOUS
<1>5. /\ DOMAIN up = ids /\ e \in ids
      /\ e \in DOMAIN docs => up[e] = docs[e].parent /\ docs[e].parent \in DOMAIN docs \cup {Root}
  <2>1. TableOK(P)
    BY <1>1, <1>2 DEF Run
  <2>2. e \in ids
    BY <2>1, TableTree
  <2>3. DOMAIN up = ids
    BY <1>4 DEF Up
  <2> QED BY <1>1, <1>4, <2>2, <2>3, TableTree
<1>6. Seen(a)[e] = IF e \in DOMAIN a.moves THEN a.moves[e]
                   ELSE IF e \in DOMAIN a.folders THEN a.folders[e] ELSE up[e]
  BY <1>4, <1>5 DEF Seen, Over
<1>7. \A h \in 1..j - 1 : h \in 1..n /\ OpPlaced(batch[h])
  <2> SUFFICES ASSUME NEW h \in 1..j - 1 PROVE h \in 1..n /\ OpPlaced(batch[h])
    OBVIOUS
  <2>1. h \in 1..n
    BY <1>1
  <2> QED BY <1>1, <2>1, BatchPlaced
<1>8. ParentFrom(docs, ops, tb, k - 1, e)
  BY <1>1, <1>2, Sources
<1>9. ASSUME NEW h \in 1..j - 1, batch[h].id = e
      PROVE  /\ \A g \in 1..j - 1 : batch[g].id = e => g = h
             /\ e \in DOMAIN a.moves <=> Shifts(batch[h], e)
             /\ e \in DOMAIN a.moves => a.moves[e] = batch[h].parent
             /\ e \in DOMAIN a.folders <=> Makes(batch[h], e)
             /\ e \in DOMAIN a.folders => a.folders[e] = batch[h].doc.parent
  <2>1. \A g \in 1..j - 1 : batch[g].id = e => g = h
    BY <1>2, <1>7, <1>9 DEF BatchOnce
  <2>2. /\ e \in DOMAIN a.moves => Shifts(batch[h], e) /\ a.moves[e] = batch[h].parent
        /\ e \in DOMAIN a.folders => Makes(batch[h], e) /\ a.folders[e] = batch[h].doc.parent
    BY <1>3, <2>1 DEF Mapped, Shifts, Makes
  <2>3. /\ Shifts(batch[h], e) => e \in DOMAIN a.moves
        /\ Makes(batch[h], e) => e \in DOMAIN a.folders
    BY <1>3, <1>9 DEF Mapped
  <2> QED BY <2>1, <2>2, <2>3
<1>10. CASE e \in DOMAIN docs /\ P[e].parent = docs[e].parent
            /\ \A i \in 1..k - 1 : ops[i].id = e => ops[i].op = "update"
  <2>1. e \notin DOMAIN a.moves /\ e \notin DOMAIN a.folders
    <3> SUFFICES ASSUME e \in DOMAIN a.moves \/ e \in DOMAIN a.folders PROVE FALSE
      OBVIOUS
    <3>1. PICK h \in 1..j - 1 : batch[h].id = e /\ batch[h].op \in {"move", "create"}
      BY <1>3 DEF Mapped, Makes, Shifts
    <3>2. off[h] \in 1..k - 1 /\ ops[off[h]] = batch[h]
      BY <1>2, <3>1 DEF Earlier
    <3> QED BY <1>10, <3>1, <3>2
  <2> QED BY <1>3, <1>5, <1>6, <1>10, <2>1
<1>11. ASSUME NEW i \in 1..k - 1, ops[i].id = e, ops[i].op = "create", P[e].parent = ops[i].doc.parent
       PROVE  /\ Seen(a)[e] = P[e].parent
              /\ P[e].parent \in DOMAIN docs \cup {Root} \/ TypeOf[P[e].parent] = "folder"
  <2>1. PICK h \in 1..j - 1 : ops[i] = batch[h]
    BY <1>2, <1>11 DEF Earlier
  <2>2. e \notin DOMAIN docs /\ PlacedAt(e, P[e].parent)
    BY <1>7, <1>11, <2>1 DEF OpPlaced
  <2>3. Makes(batch[h], e) /\ ~Shifts(batch[h], e)
    BY <1>11, <2>1, <2>2 DEF Makes, Shifts
  <2>4. e \in DOMAIN a.folders /\ a.folders[e] = P[e].parent /\ e \notin DOMAIN a.moves
    BY <1>9, <1>11, <2>1, <2>3
  <2> QED BY <1>6, <2>2, <2>3, <2>4 DEF PlacedAt, Makes
<1>12. ASSUME NEW i \in 1..k - 1, ops[i].id = e, ops[i].op = "move", P[e].parent = ops[i].parent
       PROVE  Seen(a)[e] = P[e].parent
  <2>1. PICK h \in 1..j - 1 : ops[i] = batch[h]
    BY <1>2, <1>12 DEF Earlier
  <2>2. e \in DOMAIN docs /\ docs[e].parent = batch[h].old /\ ~Makes(batch[h], e)
    BY <1>7, <1>12, <2>1 DEF OpPlaced, Makes
  <2>3. e \notin DOMAIN a.folders
    BY <1>9, <1>12, <2>1, <2>2
  <2>4. CASE batch[h].parent = batch[h].old
    <3>1. e \notin DOMAIN a.moves
      BY <1>9, <1>12, <2>1, <2>4 DEF Shifts
    <3> QED BY <1>5, <1>6, <1>12, <2>1, <2>2, <2>3, <2>4, <3>1
  <2>5. CASE batch[h].parent # batch[h].old
    <3>1. e \in DOMAIN a.moves /\ a.moves[e] = batch[h].parent
      BY <1>9, <1>12, <2>1, <2>5 DEF Shifts
    <3> QED BY <1>6, <1>12, <2>1, <3>1
  <2> QED BY <2>4, <2>5
<1>13. CASE \E i \in 1..k - 1 : ops[i].id = e /\ ops[i].op = "create" /\ P[e].parent = ops[i].doc.parent
  BY <1>3, <1>11, <1>13
<1>14. CASE \E i \in 1..k - 1 : ops[i].id = e /\ ops[i].op = "move" /\ P[e].parent = ops[i].parent
  BY <1>3, <1>12, <1>14
<1> QED BY <1>8, <1>10, <1>13, <1>14 DEF ParentFrom

(* So a move that passes is one the stored tree of its turn allows.        *)
LEMMA MoveFits ==
  ASSUME World, NEW who, NEW batch, NEW n, NEW acc, NEW ops, NEW off, NEW m, NEW tb, NEW fd,
         Committed(who, batch, n, acc, ops, off, m, tb, fd), Once(ops, m), ~Houses(ops, m),
         NEW j \in 1..n, NEW o, o = batch[j], o.op = "move", o.parent # o.old,
         NEW k, k = off[j], NEW P, P = tb[k - 1]
  PROVE  o.id \notin Chain(Up(P), o.parent) /\ Root \in Chain(Up(P), o.parent)
<1>1. /\ Checked(who, batch, n, acc) /\ Run(docs, filed, ops, m, tb, fd) /\ m \in Nat /\ n \in Nat
      /\ TableOK(docs) /\ \A h \in 1..n : OpOK(batch[h])
  BY DEF Committed
<1>2. k \in 1..m /\ k - 1 \in 0..m /\ ops[k] = o
  BY <1>1, Placing DEF Places
<1>3. TableOK(P) /\ o.parent \in DOMAIN P \cup {Root}
  BY <1>1, <1>2 DEF Run, Possible
<1>4. PICK U : U = Seen(acc[j - 1])
  OBVIOUS
<1>5. IsTree(ids, U) /\ IsTree(ids, Up(P))
  <2>1. j - 1 \in 0..n /\ j - 1 \in Nat
    BY <1>1
  <2>2. Mapped(batch, acc[j - 1], j - 1)
    BY <1>1, <2>1, MappedAll
  <2>3. \A h \in 1..j - 1 : OpOK(batch[h])
    BY <1>1
  <2>4. IsTree(ids, Seen(acc[j - 1]))
    BY <1>1, <2>1, <2>2, <2>3, SeenTree
  <2> QED BY <1>3, <1>4, <2>4, TableTree
<1>6. o.id \notin Chain(U, o.parent) /\ Root \in Chain(U, o.parent)
  <2>1. PICK a, c, freed : a = acc[j - 1] /\ c = acc[j] /\ freed = deactivations_this_batch(batch)
    OBVIOUS
  <2>2. Passed(a, o, freed, who, c)
    BY <1>1, <2>1 DEF Checked
  <2>3. check_move_acyclic(docs, a, o.id, o.parent)
    BY <2>2 DEF Passed, PassedMove
  <2>4. U = Seen(a)
    BY <1>4, <2>1
  <2> QED BY <2>3, <2>4, Zenon DEF check_move_acyclic, Seen
<1>7. PICK K : K = {e \in DOMAIN P : e \in DOMAIN docs \/ TypeOf[e] = "folder"} \cup {Root}
  OBVIOUS
<1>8. ASSUME NEW i \in 1..m, ops[i].op = "move", ops[i].parent \in DOMAIN P PROVE ops[i].parent \in K
  <2>1. CASE ops[i].parent \in DOMAIN docs
    BY <1>7, <1>8, <2>1
  <2>2. CASE ops[i].parent \notin DOMAIN docs
    <3>1. PICK h \in 1..k - 1 : ops[h].op = "create" /\ ops[h].id = ops[i].parent
      BY <1>2, <1>8, <2>2, NewMade
    <3>2. h \in 1..m
      BY <1>1, <1>2
    <3>3. TypeOf[ops[h].id] = "folder"
      BY <1>8, <3>1, <3>2 DEF Houses
    <3> QED BY <1>7, <1>8, <3>1, <3>3
  <2> QED BY <2>1, <2>2
<1>9. o.parent \in K
  BY <1>2, <1>3, <1>7, <1>8
<1>10. ASSUME NEW e \in K, e # Root PROVE e \in ids /\ U[e] = Up(P)[e] /\ U[e] \in K
  <2>1. e \in DOMAIN P /\ (e \in DOMAIN docs \/ TypeOf[e] = "folder")
    BY <1>7, <1>10
  <2>2. /\ U[e] = P[e].parent
        /\ P[e].parent \in DOMAIN docs \cup {Root} \/ TypeOf[P[e].parent] = "folder"
           \/ \E i \in 1..k - 1 : ops[i].op = "move" /\ ops[i].id = e /\ ops[i].parent = P[e].parent
    BY <1>4, <2>1, SeenIs
  <2>3. e \in ids /\ Up(P)[e] = P[e].parent /\ P[e].parent \in DOMAIN P \cup {Root}
    BY <1>3, <2>1, TableTree
  <2>4. ASSUME NEW i \in 1..k - 1, ops[i].op = "move", ops[i].parent = P[e].parent
        PROVE  P[e].parent \in K
    <3>1. i \in 1..m
      BY <1>1, <1>2
    <3> QED BY <1>7, <1>8, <2>3, <2>4, <3>1
  <2>5. P[e].parent \in K
    BY <1>7, <2>2, <2>3, <2>4
  <2> QED BY <2>2, <2>3, <2>5
<1>11. o.parent \in ids \cup {Root}
  BY <1>9, <1>10
<1>12. Chain(U, o.parent) \subseteq K
  <2>1. \A e \in K \cap ids : U[e] \in K
    BY <1>10 DEF World
  <2> QED BY <1>5, <1>9, <1>11, <2>1, ChainFacts
<1>13. Chain(Up(P), o.parent) = Chain(U, o.parent)
  <2>1. \A e \in Chain(U, o.parent) : e # Root => Up(P)[e] = U[e]
    BY <1>10, <1>12
  <2> QED BY <1>5, <1>11, <2>1, ChainAgree
<1> QED BY <1>6, <1>13

(* The first operation on a document meets it as it was.                   *)
LEMMA FirstMeets ==
  ASSUME World, NEW who, NEW batch, NEW n, NEW acc, NEW ops, NEW off, NEW m, NEW tb, NEW fd,
         Committed(who, batch, n, acc, ops, off, m, tb, fd), Once(ops, m),
         NEW k \in 1..m, ops[k].id \in DOMAIN tb[k - 1]
  PROVE  /\ ops[k].id \in DOMAIN docs
         /\ tb[k - 1][ops[k].id].parent = docs[ops[k].id].parent
         /\ tb[k - 1][ops[k].id].body = docs[ops[k].id].body
<1>1. m \in Nat /\ k - 1 \in 0..m /\ Run(docs, filed, ops, m, tb, fd)
  BY DEF Committed
<1>2. PICK d : d = ops[k].id
  OBVIOUS
<1>3. ParentFrom(docs, ops, tb, k - 1, d) /\ BodyFrom(docs, ops, tb, k - 1, d)
  BY <1>1, <1>2, Sources
<1>4. ASSUME NEW i \in 1..k - 1 PROVE ops[i].id # d
  <2>1. i \in 1..m /\ i # k
    BY <1>1
  <2> QED BY <1>2, <2>1 DEF Once
<1> QED BY <1>2, <1>3, <1>4 DEF ParentFrom, BodyFrom

LEMMA ForestNext ==
  ASSUME World, NEW who, NEW batch, NEW n, NEW acc, NEW ops, NEW off, NEW m, NEW tb, NEW fd,
         Committed(who, batch, n, acc, ops, off, m, tb, fd), Once(ops, m), ~Houses(ops, m),
         NEW k \in 1..m, Forest(tb[k - 1])
  PROVE  Forest(tb[k])
<1>1. /\ Checked(who, batch, n, acc) /\ Run(docs, filed, ops, m, tb, fd) /\ m \in Nat /\ n \in Nat
      /\ TableOK(docs) /\ \A h \in 1..n : OpOK(batch[h])
  BY DEF Committed
<1>2. PICK o, P, N : o = ops[k] /\ P = tb[k - 1] /\ N = tb[k]
  OBVIOUS
<1>3. Step(P, o, N) /\ TableOK(P) /\ TableOK(N) /\ Forest(P)
  <2>1. Step(tb[k - 1], ops[k], tb[k])
    BY <1>1, RunStep
  <2> QED BY <1>2, <2>1 DEF Step
<1>4. ASSUME o.op # "delete" PROVE OpPlaced(o) /\ \E j \in 1..n : o = batch[j] /\ k = off[j]
  <2>1. PICK j \in 1..n : ops[k] = batch[j] /\ off[j] = k
    BY <1>2, <1>4, Placing DEF Places
  <2> QED BY <1>1, <1>2, <2>1, BatchPlaced
<1>5. o.id \in DOMAIN P => o.id \in DOMAIN docs /\ P[o.id].parent = docs[o.id].parent
  BY <1>2, FirstMeets
<1>6. CASE o.op = "create"
  <2>1. o.id \notin DOMAIN P /\ o.doc.parent # o.id
    BY <1>4, <1>5, <1>6 DEF OpPlaced
  <2> QED BY <1>2, <1>3, <1>6, <2>1, ForestCreate
<1>7. CASE o.op = "update"
  BY <1>2, <1>3, <1>7, ForestSame DEF Step
<1>8. CASE o.op = "move" /\ o.parent = o.old
  <2>1. /\ o.id \in DOMAIN P /\ DOMAIN N = DOMAIN P /\ N[o.id].parent = o.parent
        /\ \A c \in DOMAIN P : c # o.id => N[c] = P[c]
    BY <1>3, <1>8 DEF Step
  <2>2. P[o.id].parent = o.parent
    BY <1>4, <1>5, <1>8, <2>1 DEF OpPlaced
  <2>3. \A c \in DOMAIN P : N[c].parent = P[c].parent
    BY <2>1, <2>2
  <2> QED BY <1>2, <1>3, <2>1, <2>3, ForestSame
<1>9. CASE o.op = "move" /\ o.parent # o.old
  <2>1. PICK j \in 1..n : o = batch[j] /\ k = off[j]
    BY <1>4, <1>9
  <2>2. o.id \notin Chain(Up(P), o.parent) /\ Root \in Chain(Up(P), o.parent)
    BY <1>2, <1>9, <2>1, MoveFits
  <2> QED BY <1>2, <1>3, <1>9, <2>2, ForestMove
<1>10. CASE o.op = "delete"
  BY <1>2, <1>3, <1>10, ForestDelete
<1>11. o.op \in {"create", "update", "move", "delete"}
  BY <1>3 DEF Step
<1> QED BY <1>6, <1>7, <1>8, <1>9, <1>10, <1>11

LEMMA Forests ==
  ASSUME World, NEW who, NEW batch, NEW n, NEW acc, NEW ops, NEW off, NEW m, NEW tb, NEW fd,
         Committed(who, batch, n, acc, ops, off, m, tb, fd), Once(ops, m), ~Houses(ops, m),
         NEW k \in 0..m
  PROVE  Forest(tb[k])
<1>1. m \in Nat /\ Forest(tb[0])
  BY DEF Committed, Run
<1>2. PICK S : S = {i \in Nat : i <= m => Forest(tb[i])}
  OBVIOUS
<1>3. 0 \in S
  BY <1>1, <1>2
<1>4. ASSUME NEW i \in Nat, i \in S PROVE i + 1 \in S
  <2> SUFFICES ASSUME i + 1 <= m PROVE Forest(tb[i + 1])
    BY <1>2
  <2>1. i + 1 \in 1..m /\ (i + 1) - 1 = i /\ Forest(tb[i])
    BY <1>1, <1>2, <1>4
  <2>2. Forest(tb[(i + 1) - 1])
    BY <2>1
  <2> QED BY <2>1, <2>2, ForestNext
<1>5. Nat \subseteq S
  BY <1>3, <1>4, NatInd
<1> QED BY <1>1, <1>2, <1>5

-----------------------------------------------------------------------------
(* apply_command: what it refuses, and what it makes of an inverse.        *)
Allowed(T, o) ==
  /\ o.op = "create" => validate_containment(o.id, o.doc.parent)
  /\ o.op = "move" /\ o.id \in DOMAIN T /\ T[o.id].parent # o.parent =>
       /\ validate_containment(o.id, o.parent)
       /\ check_parent_placement(T, Start, o.id, o.parent)
       /\ check_move_acyclic(T, Start, o.id, o.parent)

(* The state of apply_command after an operation that goes through.        *)
Holds(t, T) == StateOK(t) /\ t.ok /\ t.docs = T

LEMMA TrustedIs ==
  ASSUME World, NEW t, NEW T, Holds(t, T), NEW o, OpOK(o), Allowed(T, o), Possible(T, o)
  PROVE  Holds(ApplyTrusted(t, o), After(T, o))
<1>1. StateOK(t) /\ t.ok /\ t.docs = T
  BY DEF Holds
<1>2. ApplyTrusted(t, o) = Apply(t, o)
  <2>1. PICK placed : placed = CASE o.op = "create" -> validate_containment(o.id, o.doc.parent)
          [] o.op = "move" /\ o.id \in DOMAIN t.docs ->
               t.docs[o.id].parent # o.parent =>
                 /\ validate_containment(o.id, o.parent)
                 /\ check_parent_placement(t.docs, Start, o.id, o.parent)
                 /\ check_move_acyclic(t.docs, Start, o.id, o.parent)
          [] OTHER -> TRUE
    OBVIOUS
  <2>2. placed = TRUE
    BY <1>1, <2>1 DEF Allowed
  <2>3. ApplyTrusted(t, o) = IF t.ok /\ ~placed THEN [t EXCEPT !.ok = FALSE] ELSE Apply(t, o)
    BY <2>1, Zenon DEF ApplyTrusted
  <2> QED BY <2>2, <2>3
<1>3. PICK u : u = Apply(t, o)
  OBVIOUS
<1>4. /\ StateOK(u) /\ u.ok <=> t.ok /\ Possible(t.docs, o)
      /\ u.ok => u.docs = After(t.docs, o)
  BY <1>1, <1>3, ApplyIs
<1> QED BY <1>1, <1>2, <1>3, <1>4 DEF Holds

(* An inverse that can be applied and leads from N back to P.              *)
Undoes(P, v, N) == OpOK(v) /\ Allowed(N, v) /\ Possible(N, v) /\ After(N, v) = P

LEMMA TableSame ==
  ASSUME World, NEW P, TableOK(P), NEW Q, TableOK(Q), DOMAIN Q = DOMAIN P,
         \A c \in DOMAIN P : Q[c].parent = P[c].parent /\ Q[c].body = P[c].body
  PROVE  Q = P
<1>1. \A c \in DOMAIN P : Q[c] = P[c]
  <2> SUFFICES ASSUME NEW c \in DOMAIN P PROVE Q[c] = P[c]
    OBVIOUS
  <2>1. /\ P[c] \in [parent : DOMAIN P \cup {Root}, body : Bodies[c]]
        /\ Q[c] \in [parent : DOMAIN P \cup {Root}, body : Bodies[c]]
    BY DEF TableOK
  <2>2. Q[c].parent = P[c].parent /\ Q[c].body = P[c].body
    OBVIOUS
  <2> QED BY <2>1, <2>2
<1>2. P = [c \in DOMAIN P |-> P[c]] /\ Q = [c \in DOMAIN Q |-> Q[c]]
  BY DEF TableOK
<1> QED BY <1>1, <1>2

LEMMA InvertOK ==
  ASSUME World, NEW o, OpOK(o),
         o.op = "delete" => o.doc \in [parent : Parents, body : Bodies[o.id]]
  PROVE  /\ OpOK(InvertOp(o)) /\ InvertOp(o).id = o.id
         /\ InvertOp(o).op = "delete" <=> o.op = "create"
<1>1. o.id \in ids /\ o.op \in {"create", "update", "move", "delete"}
  BY OpKinds
<1>2. CASE o.op = "create"
  <2>1. InvertOp(o) = [op |-> "delete", id |-> o.id]
    BY <1>2 DEF InvertOp
  <2> QED BY <1>1, <1>2, <2>1 DEF OpOK
<1>3. CASE o.op = "delete"
  <2>1. InvertOp(o) = [op |-> "create", id |-> o.id, doc |-> o.doc]
    BY <1>3 DEF InvertOp
  <2> QED BY <1>1, <1>3, <2>1 DEF OpOK
<1>4. CASE o.op = "move"
  <2>1. InvertOp(o) = [op |-> "move", id |-> o.id, parent |-> o.old, old |-> o.parent]
    BY <1>4 DEF InvertOp
  <2> QED BY <1>1, <1>4, <2>1 DEF OpOK
<1>5. CASE o.op = "update"
  <2>1. InvertOp(o) = [op |-> "update", id |-> o.id, old |-> o.new, new |-> o.old]
    BY <1>5 DEF InvertOp
  <2>2. PICK b, c, F : b \in Bodies[o.id] /\ c \in Bodies[o.id] /\
          F \in SUBSET DOMAIN b /\ o.old = Restrict(b, F) /\ o.new = Restrict(c, F)
    BY <1>5 DEF OpOK
  <2>3. F \in SUBSET DOMAIN c
    <3>1. PICK d : d = o.id
      OBVIOUS
    <3>2. d \in Docs /\ b \in Bodies[d] /\ c \in Bodies[d]
      BY <1>1, <2>2, <3>1 DEF World
    <3>3. DOMAIN c = DOMAIN b
      BY <3>2, ConstantsOK
    <3> QED BY <2>2, <3>3
  <2>4. PICK v : v = InvertOp(o) /\ v.op = "update" /\ v.id = o.id /\ v.old = o.new /\ v.new = o.old
    BY <2>1
  <2>5. OpOK(v)
    BY <1>1, <2>2, <2>3, <2>4 DEF OpOK
  <2> QED BY <1>5, <2>4, <2>5
<1> QED BY <1>1, <1>2, <1>3, <1>4, <1>5

LEMMA UndoUpdate ==
  ASSUME World, NEW P, NEW o, NEW N, Step(P, o, N), o.op = "update",
         \A f \in DOMAIN o.old : P[o.id].body[f] = o.old[f]
  PROVE  Undoes(P, InvertOp(o), N)
<1>0. /\ TableOK(P) /\ TableOK(N) /\ OpOK(o) /\ o.id \in ids
      /\ o.id \in DOMAIN P /\ DOMAIN N = DOMAIN P
      /\ N[o.id].parent = P[o.id].parent /\ N[o.id].body = Body(P, o.id, o)
      /\ \A c \in DOMAIN P : c # o.id => N[c] = P[c]
  BY DEF Step
<1>1. PICK v, d : v = InvertOp(o) /\ d = o.id
  OBVIOUS
<1>2. v.op = "update" /\ v.id = d /\ v.old = o.new /\ v.new = o.old
  BY <1>1 DEF InvertOp
<1>3. OpOK(v)
  BY <1>0, <1>1, InvertOK
<1>4. Allowed(N, v) /\ Possible(N, v)
  BY <1>0, <1>1, <1>2 DEF Allowed, Possible
<1>5. PICK b0 : b0 = P[d].body
  OBVIOUS
<1>6. b0 \in Bodies[d] /\ d \in Docs
  BY <1>0, <1>1, <1>5 DEF TableOK, World
<1>7. PICK F : DOMAIN o.old = F /\ DOMAIN o.new = F /\ F \subseteq DOMAIN b0
  <2>1. PICK b, c, F : b \in Bodies[d] /\ c \in Bodies[d] /\
          F \in SUBSET DOMAIN b /\ o.old = Restrict(b, F) /\ o.new = Restrict(c, F)
    BY <1>0, <1>1 DEF OpOK
  <2>2. DOMAIN b0 = DOMAIN b
    BY <1>6, <2>1, ConstantsOK
  <2> QED BY <2>1, <2>2 DEF Restrict
<1>8. Body(N, d, v) = b0
  <2>1. PICK b1 : b1 = N[d].body
    OBVIOUS
  <2>2. b1 = Over(o.new, b0)
    BY <1>0, <1>1, <1>5, <2>1 DEF Body
  <2>3. DOMAIN b1 = DOMAIN b0 /\ \A f \in DOMAIN b0 : f \notin F => b1[f] = b0[f]
    BY <1>7, <2>2 DEF Over
  <2>4. \A f \in F : o.old[f] = b0[f]
    BY <1>1, <1>5, <1>7
  <2>5. PICK b2 : b2 = Over(o.old, b1)
    OBVIOUS
  <2>6. b2 = [f \in DOMAIN b0 |-> b0[f]]
    BY <1>7, <2>3, <2>4, <2>5 DEF Over
  <2>7. b0 = [f \in DOMAIN b0 |-> b0[f]]
    BY <1>6, ConstantsOK
  <2>8. Body(N, d, v) = b2
    BY <1>2, <2>1, <2>5 DEF Body
  <2> QED BY <2>6, <2>7, <2>8
<1>9. After(N, v) = P
  <2>1. PICK Q : Q = After(N, v)
    OBVIOUS
  <2>2. Step(N, v, Q)
    BY <1>0, <1>3, <1>4, <2>1, StepFacts
  <2>3. /\ TableOK(Q) /\ DOMAIN Q = DOMAIN N /\ Q[d].parent = N[d].parent /\ Q[d].body = b0
        /\ \A c \in DOMAIN N : c # d => Q[c] = N[c]
    BY <1>2, <1>8, <2>2 DEF Step
  <2>4. \A c \in DOMAIN P : Q[c].parent = P[c].parent /\ Q[c].body = P[c].body
    BY <1>0, <1>1, <1>5, <2>3
  <2>5. Q = P
    BY <1>0, <2>3, <2>4, TableSame
  <2> QED BY <2>1, <2>5
<1> QED BY <1>1, <1>3, <1>4, <1>9 DEF Undoes

LEMMA UndoMove ==
  ASSUME World, NEW P, NEW o, NEW N, Step(P, o, N), o.op = "move",
         P[o.id].parent = o.old, PlacedAt(o.id, o.old), Forest(P)
  PROVE  Undoes(P, InvertOp(o), N)
<1>0. /\ TableOK(P) /\ TableOK(N) /\ OpOK(o) /\ o.id \in ids
      /\ o.id \in DOMAIN P /\ DOMAIN N = DOMAIN P
      /\ N[o.id].parent = o.parent /\ N[o.id].body = P[o.id].body
      /\ \A c \in DOMAIN P : c # o.id => N[c] = P[c]
  BY DEF Step
<1>1. PICK v, d, p : v = InvertOp(o) /\ d = o.id /\ p = o.old
  OBVIOUS
<1>2. v.op = "move" /\ v.id = d /\ v.parent = p /\ v.old = o.parent
  BY <1>1 DEF InvertOp
<1>3. OpOK(v)
  BY <1>0, <1>1, InvertOK
<1>4. p \in DOMAIN P \cup {Root} /\ d \in DOMAIN P /\ d \in ids /\ P[d].parent = p /\ Up(P)[d] = p
  BY <1>0, <1>1, TableTree
<1>5. IsTree(ids, Up(P)) /\ IsTree(ids, Up(N)) /\ p \in ids \cup {Root}
  BY <1>0, <1>4, TableTree DEF TableOK
<1>6. d \notin Chain(Up(P), p) /\ Root \in Chain(Up(P), p)
  <2>1. Root \in Chain(Up(P), d)
    BY <1>4 DEF Forest
  <2>2. d \notin Chain(Up(P), p)
    BY <1>4, <1>5, <2>1, ChainOnce
  <2>3. Chain(Up(P), d) = {d} \cup Chain(Up(P), p)
    BY <1>4, <1>5, ChainUp
  <2> QED BY <1>4, <2>1, <2>2, <2>3 DEF World
<1>7. Chain(Up(N), p) = Chain(Up(P), p)
  <2>1. ASSUME NEW e \in Chain(Up(P), p), e # Root PROVE Up(N)[e] = Up(P)[e]
    <3>1. e \in ids /\ e # d
      BY <1>5, <1>6, <2>1, ChainFacts
    <3>2. CASE e \in DOMAIN P
      BY <1>0, <1>1, <3>1, <3>2, TableTree
    <3>3. CASE e \notin DOMAIN P
      BY <1>0, <3>1, <3>3, TableTree
    <3> QED BY <3>2, <3>3
  <2> QED BY <1>5, <2>1, ChainAgree
<1>8. check_parent_placement(N, Start, d, p)
  <2>1. validate_containment(d, p)
    BY <1>1 DEF PlacedAt
  <2>2. p # Root => p \in DOMAIN N
    BY <1>0, <1>4
  <2>3. /\ TypeOf[d] = "combatant" => p # Root /\ TypeOf[p] = "combat"
        /\ TypeOf[d] = "folder" /\ p # Root => TypeOf[p] = "folder"
    BY <1>1, <2>1 DEF PlacedAt, validate_containment
  <2> QED BY <2>2, <2>3 DEF check_parent_placement
<1>9. check_move_acyclic(N, Start, d, p)
  <2>1. PICK up : up = Up(N)
    OBVIOUS
  <2>2. Over(Start.moves, Over(Start.folders, up)) = up
    <3>1. DOMAIN Start.moves = {} /\ DOMAIN Start.folders = {}
      BY DEF Start
    <3>2. up = [e \in DOMAIN up |-> up[e]]
      BY <1>5, <2>1 DEF IsTree
    <3>3. PICK ms, fs : ms = Start.moves /\ fs = Start.folders
      OBVIOUS
    <3>4. Over(fs, up) = up
      BY <3>1, <3>2, <3>3 DEF Over
    <3>5. Over(ms, up) = up
      BY <3>1, <3>2, <3>3 DEF Over
    <3> QED BY <3>3, <3>4, <3>5
  <2>3. check_move_acyclic(N, Start, d, p) <=> d \notin Chain(up, p) /\ Root \in Chain(up, p)
    BY <2>1, <2>2, Zenon DEF check_move_acyclic
  <2> QED BY <1>6, <1>7, <2>1, <2>3
<1>10. Allowed(N, v) /\ Possible(N, v)
  BY <1>0, <1>1, <1>2, <1>4, <1>8, <1>9 DEF Allowed, Possible, PlacedAt
<1>11. After(N, v) = P
  <2>1. PICK Q : Q = After(N, v)
    OBVIOUS
  <2>2. Step(N, v, Q)
    BY <1>0, <1>3, <1>10, <2>1, StepFacts
  <2>3. /\ TableOK(Q) /\ DOMAIN Q = DOMAIN N /\ Q[d].parent = p /\ Q[d].body = N[d].body
        /\ \A c \in DOMAIN N : c # d => Q[c] = N[c]
    BY <1>2, <2>2 DEF Step
  <2>4. \A c \in DOMAIN P : Q[c].parent = P[c].parent /\ Q[c].body = P[c].body
    BY <1>0, <1>1, <1>4, <2>3
  <2>5. Q = P
    BY <1>0, <2>3, <2>4, TableSame
  <2> QED BY <2>1, <2>5
<1> QED BY <1>1, <1>3, <1>10, <1>11 DEF Undoes

LEMMA UndoDelete ==
  ASSUME World, NEW P, NEW o, NEW N, Step(P, o, N), o.op = "delete", Clean(P, o.id, N),
         o.id \in DOMAIN P, o.doc = P[o.id], PlacedAt(o.id, P[o.id].parent)
  PROVE  Undoes(P, InvertOp(o), N)
<1>0. /\ TableOK(P) /\ TableOK(N) /\ OpOK(o) /\ o.id \in ids
  BY DEF Step
<1>1. PICK v, d, x : v = InvertOp(o) /\ d = o.id /\ x = P[o.id]
  OBVIOUS
<1>2. v.op = "create" /\ v.id = d /\ v.doc = x
  BY <1>1 DEF InvertOp
<1>3. /\ d \in DOMAIN P /\ DOMAIN N = DOMAIN P \ {d} /\ (\A c \in DOMAIN N : N[c] = P[c])
      /\ \A c \in DOMAIN P : P[c].parent # d
  <2>1. /\ \A c \in DOMAIN P : P[c].parent # d
        /\ DOMAIN N = DOMAIN P \ {d} /\ N = Restrict(P, DOMAIN P \ {d})
    BY <1>1 DEF Clean
  <2> QED BY <1>1, <2>1 DEF Restrict
<1>4. x \in [parent : DOMAIN P \cup {Root}, body : Bodies[d]] /\ DOMAIN P \subseteq ids
  BY <1>0, <1>1, <1>3 DEF TableOK
<1>5. OpOK(v)
  <2>1. o.doc \in [parent : Parents, body : Bodies[o.id]]
    BY <1>1, <1>4 DEF Parents
  <2> QED BY <1>0, <1>1, <2>1, InvertOK
<1>6. Allowed(N, v) /\ Possible(N, v)
  BY <1>1, <1>2, <1>3, <1>4 DEF Allowed, Possible, PlacedAt
<1>7. After(N, v) = P
  <2>1. PICK Q : Q = After(N, v)
    OBVIOUS
  <2>2. Step(N, v, Q)
    BY <1>0, <1>5, <1>6, <2>1, StepFacts
  <2>3. /\ TableOK(Q) /\ DOMAIN Q = DOMAIN N \cup {d} /\ Q[d] = x
        /\ \A c \in DOMAIN N : c # d => Q[c] = N[c]
    BY <1>2, <2>2 DEF Step
  <2>4. DOMAIN Q = DOMAIN P /\ \A c \in DOMAIN P : Q[c].parent = P[c].parent /\ Q[c].body = P[c].body
    BY <1>1, <1>3, <2>3
  <2>5. Q = P
    BY <1>0, <2>3, <2>4, TableSame
  <2> QED BY <2>1, <2>5
<1> QED BY <1>1, <1>5, <1>6, <1>7 DEF Undoes

(* Deleting a document that was created in a table that had nothing        *)
(* beneath it gives the table back.                                        *)
LEMMA UndoCreate ==
  ASSUME World, NEW P, NEW o, NEW N, Step(P, o, N), o.op = "create",
         o.id \notin DOMAIN P, o.doc.parent # o.id
  PROVE  Without(N, {o.id}) = P
<1>0. /\ TableOK(P) /\ TableOK(N) /\ OpOK(o) /\ o.id \in ids
      /\ DOMAIN N = DOMAIN P \cup {o.id} /\ N[o.id] = o.doc
      /\ \A c \in DOMAIN P : c # o.id => N[c] = P[c]
  BY DEF Step
<1>1. PICK d : d = o.id
  OBVIOUS
<1>2. \A c \in DOMAIN P : N[c] = P[c] /\ c # d /\ P[c].parent \in DOMAIN P \cup {Root}
  BY <1>0, <1>1, TableTree
<1>3. ASSUME NEW c \in DOMAIN P PROVE Chain(Up(N), c) \subseteq DOMAIN P \cup {Root}
  <2>1. PICK C : C = DOMAIN P \cup {Root}
    OBVIOUS
  <2>2. ASSUME NEW e \in C \cap ids PROVE Up(N)[e] \in C
    <3>1. e \in DOMAIN P /\ e \in DOMAIN N
      BY <1>0, <2>1, <2>2 DEF World
    <3>2. Up(N)[e] = P[e].parent
      BY <1>0, <1>2, <3>1, TableTree
    <3> QED BY <1>2, <2>1, <3>1, <3>2
  <2>3. c \in C /\ c \in ids \cup {Root} /\ IsTree(ids, Up(N))
    BY <1>0, <2>1, TableTree
  <2>4. Chain(Up(N), c) \subseteq C
    BY <2>2, <2>3, ChainFacts
  <2> QED BY <2>1, <2>4
<1>4. d \in Chain(Up(N), d)
  BY <1>0, <1>1, TableTree, ChainFacts
<1>5. Gone(N, {d}) = {d}
  <2>1. d # Root /\ d \notin DOMAIN P
    BY <1>0, <1>1 DEF World
  <2> QED BY <1>0, <1>1, <1>3, <1>4, <2>1 DEF Gone
<1>6. DOMAIN N \ Gone(N, {d}) = DOMAIN P
  BY <1>0, <1>1, <1>5
<1>7. Without(N, {d}) = [c \in DOMAIN P |-> P[c]]
  BY <1>2, <1>6 DEF Without
<1> QED BY <1>0, <1>1, <1>7 DEF TableOK

-----------------------------------------------------------------------------
(* Documents come and go with the operations that name them.               *)
LEMMA Leaves ==
  ASSUME World, NEW T, NEW f, NEW ops, NEW m, NEW tb, NEW fd, NEW batch, NEW n,
         CleanRun(T, f, ops, m, tb, fd, batch, n), NEW a \in 0..m, NEW b \in 0..m, a <= b,
         NEW e \in DOMAIN tb[a], e \notin DOMAIN tb[b]
  PROVE  \E i \in a + 1..b : ops[i].op = "delete" /\ ops[i].id = e
<1> SUFFICES ASSUME \A i \in a + 1..b : ~(ops[i].op = "delete" /\ ops[i].id = e) PROVE FALSE
  OBVIOUS
<1>1. m \in Nat /\ Run(T, f, ops, m, tb, fd)
  BY DEF CleanRun, Run
<1>2. PICK S : S = {i \in Nat : a <= i /\ i <= b => e \in DOMAIN tb[i]}
  OBVIOUS
<1>3. 0 \in S
  BY <1>1, <1>2
<1>4. ASSUME NEW i \in Nat, i \in S PROVE i + 1 \in S
  <2> SUFFICES ASSUME a <= i + 1, i + 1 <= b PROVE e \in DOMAIN tb[i + 1]
    BY <1>2
  <2>1. CASE i + 1 = a
    BY <2>1
  <2>2. CASE i + 1 # a
    <3>1. i + 1 \in 1..m /\ (i + 1) - 1 = i /\ i + 1 \in a + 1..b /\ e \in DOMAIN tb[i]
      BY <1>1, <1>2, <1>4, <2>2
    <3>2. PICK o, P, N : o = ops[i + 1] /\ P = tb[i] /\ N = tb[i + 1]
      OBVIOUS
    <3>3. Step(P, o, N)
      <4>1. Step(tb[(i + 1) - 1], ops[i + 1], tb[i + 1])
        BY <1>1, <3>1, RunStep
      <4> QED BY <3>1, <3>2, <4>1
    <3>4. CASE o.op = "delete"
      <4>1. Clean(tb[(i + 1) - 1], ops[i + 1].id, tb[i + 1])
        BY <3>1, <3>2, <3>4, CleanDelete
      <4>2. DOMAIN N = DOMAIN P \ {o.id}
        BY <3>1, <3>2, <4>1 DEF Clean
      <4> QED BY <3>1, <3>2, <3>4, <4>2
    <3>5. CASE o.op # "delete"
      BY <3>1, <3>2, <3>3, <3>5 DEF Step
    <3> QED BY <3>4, <3>5
  <2> QED BY <2>1, <2>2
<1>5. Nat \subseteq S
  BY <1>3, <1>4, NatInd
<1> QED BY <1>1, <1>2, <1>5

LEMMA Enters ==
  ASSUME World, NEW T, NEW f, NEW ops, NEW m, NEW tb, NEW fd, Run(T, f, ops, m, tb, fd),
         NEW a \in 0..m, NEW b \in 0..m, a <= b, NEW e \in DOMAIN tb[b], e \notin DOMAIN tb[a]
  PROVE  \E i \in a + 1..b : ops[i].op = "create" /\ ops[i].id = e
<1> SUFFICES ASSUME \A i \in a + 1..b : ~(ops[i].op = "create" /\ ops[i].id = e) PROVE FALSE
  OBVIOUS
<1>1. m \in Nat
  BY DEF Run
<1>2. PICK S : S = {i \in Nat : a <= i /\ i <= b => e \notin DOMAIN tb[i]}
  OBVIOUS
<1>3. 0 \in S
  BY <1>1, <1>2
<1>4. ASSUME NEW i \in Nat, i \in S PROVE i + 1 \in S
  <2> SUFFICES ASSUME a <= i + 1, i + 1 <= b PROVE e \notin DOMAIN tb[i + 1]
    BY <1>2
  <2>1. CASE i + 1 = a
    BY <2>1
  <2>2. CASE i + 1 # a
    <3>1. i + 1 \in 1..m /\ (i + 1) - 1 = i /\ i + 1 \in a + 1..b /\ e \notin DOMAIN tb[i]
      BY <1>1, <1>2, <1>4, <2>2
    <3>2. PICK o, P, N : o = ops[i + 1] /\ P = tb[i] /\ N = tb[i + 1]
      OBVIOUS
    <3>3. Step(P, o, N)
      <4>1. Step(tb[(i + 1) - 1], ops[i + 1], tb[i + 1])
        BY <1>1, <3>1, RunStep
      <4> QED BY <3>1, <3>2, <4>1
    <3>4. o.op = "create" => o.id # e
      BY <3>1, <3>2
    <3> QED BY <3>1, <3>2, <3>3, <3>4 DEF Step
  <2> QED BY <2>1, <2>2
<1>5. Nat \subseteq S
  BY <1>3, <1>4, NatInd
<1> QED BY <1>1, <1>2, <1>5

(* What no two operations name is there from its first table to its last.  *)
LEMMA Between ==
  ASSUME World, NEW T, NEW f, NEW ops, NEW m, NEW tb, NEW fd, NEW batch, NEW n,
         CleanRun(T, f, ops, m, tb, fd, batch, n), Once(ops, m),
         NEW a \in 0..m, NEW b \in 0..m, NEW c \in 0..m, a <= b, b <= c,
         NEW e \in DOMAIN tb[a], e \in DOMAIN tb[c]
  PROVE  e \in DOMAIN tb[b]
<1> SUFFICES ASSUME e \notin DOMAIN tb[b] PROVE FALSE
  OBVIOUS
<1>1. m \in Nat /\ Run(T, f, ops, m, tb, fd)
  BY DEF CleanRun, Run
<1>2. PICK i \in a + 1..b : ops[i].op = "delete" /\ ops[i].id = e
  BY Leaves
<1>3. PICK h \in b + 1..c : ops[h].op = "create" /\ ops[h].id = e
  BY <1>1, Enters
<1>4. i \in 1..m /\ h \in 1..m /\ i # h
  BY <1>1
<1> QED BY <1>2, <1>3, <1>4 DEF Once

(* A batch none of whose operations meet.                                  *)
Apart(ops, m) == Once(ops, m) /\ ~Adopts(ops, m) /\ ~Houses(ops, m) /\ ~Shelves(ops, m)

LEMMA ApartRun ==
  ASSUME NEW who, NEW batch, NEW n, NEW acc, NEW ops, NEW off, NEW m,
         NEW tb, NEW fd, Committed(who, batch, n, acc, ops, off, m, tb, fd), Apart(ops, m)
  PROVE  /\ m \in Nat /\ m \in 0..m /\ 0 \in 0..m /\ Run(docs, filed, ops, m, tb, fd)
         /\ tb[0] = docs /\ TableOK(docs) /\ TableOK(tb[m]) /\ Once(ops, m)
         /\ CleanRun(docs, filed, ops, m, tb, fd, batch, n)
<1>1. m \in Nat /\ Run(docs, filed, ops, m, tb, fd) /\ TableOK(docs)
  BY DEF Committed
<1>2. m \in 0..m /\ 0 \in 0..m
  BY <1>1
<1>3. tb[0] = docs /\ TableOK(tb[m])
  BY <1>1, <1>2 DEF Run
<1>4. CleanRun(docs, filed, ops, m, tb, fd, batch, n)
  BY CommitClean DEF Apart
<1> QED BY <1>1, <1>2, <1>3, <1>4 DEF Apart

LEMMA DeletesStored ==
  ASSUME NEW who, NEW batch, NEW n, NEW acc, NEW ops, NEW off, NEW m, NEW tb, NEW fd,
         Committed(who, batch, n, acc, ops, off, m, tb, fd), NEW k \in 1..m, ops[k].op = "delete"
  PROVE  ops[k].id \in DOMAIN docs /\ ops[k] = Logged(docs, ops[k].id)
<1>1. /\ Checked(who, batch, n, acc) /\ Listed(docs, batch, n, ops, k)
      /\ \A j \in 1..n : OpOK(batch[j])
  BY DEF Committed
<1>2. PICK j \in 1..n : /\ batch[j].op = "delete"
                        /\ ops[k].id = batch[j].id \/ ops[k].id \in Descendants(docs, batch[j].id)
  BY <1>1 DEF Listed
<1>3. OpPlaced(batch[j])
  BY <1>1, BatchPlaced
<1>4. ops[k].id \in DOMAIN docs
  BY <1>2, <1>3 DEF OpPlaced, Descendants
<1> QED BY <1>1, <1>4 DEF Listed

LEMMA OpsPlaced ==
  ASSUME NEW who, NEW batch, NEW n, NEW acc, NEW ops, NEW off, NEW m, NEW tb, NEW fd,
         Committed(who, batch, n, acc, ops, off, m, tb, fd), NEW k \in 1..m
  PROVE  OpPlaced(ops[k])
<1>1. Checked(who, batch, n, acc) /\ \A j \in 1..n : OpOK(batch[j])
  BY DEF Committed
<1>2. CASE ops[k].op = "delete"
  BY <1>2, DeletesStored DEF OpPlaced
<1>3. CASE ops[k].op # "delete"
  <2>1. PICK j \in 1..n : ops[k] = batch[j]
    BY <1>3, Placing DEF Places
  <2> QED BY <1>1, <2>1, BatchPlaced
<1> QED BY <1>2, <1>3

(* Whatever is not created is undone by its inverse.                       *)
LEMMA OpUndone ==
  ASSUME World, Placed(docs), NEW who, NEW batch, NEW n, NEW acc, NEW ops, NEW off, NEW m,
         NEW tb, NEW fd, Committed(who, batch, n, acc, ops, off, m, tb, fd), Apart(ops, m),
         NEW k \in 1..m, ops[k].op # "create"
  PROVE  Undoes(tb[k - 1], InvertOp(ops[k]), tb[k])
<1>1. /\ m \in Nat /\ k - 1 \in 0..m /\ 0 \in 0..m /\ Run(docs, filed, ops, m, tb, fd) /\ tb[0] = docs
      /\ CleanRun(docs, filed, ops, m, tb, fd, batch, n) /\ TableOK(docs)
  BY ApartRun
<1>2. PICK o, P, N, d : o = ops[k] /\ P = tb[k - 1] /\ N = tb[k] /\ d = ops[k].id
  OBVIOUS
<1>3. Step(P, o, N) /\ TableOK(P)
  <2>1. Step(tb[k - 1], ops[k], tb[k])
    BY <1>1, RunStep
  <2> QED BY <1>2, <2>1 DEF Step
<1>4. OpPlaced(o)
  BY <1>2, OpsPlaced
<1>5. d \in DOMAIN P => d \in DOMAIN docs /\ P[d].parent = docs[d].parent /\ P[d].body = docs[d].body
  BY <1>2, FirstMeets DEF Apart
<1>6. d \in DOMAIN docs => PlacedAt(d, docs[d].parent)
  BY DEF Placed
<1>7. CASE o.op = "update"
  <2>1. d \in DOMAIN P
    BY <1>2, <1>3, <1>7 DEF Step
  <2>2. \A f \in DOMAIN o.old : P[o.id].body[f] = o.old[f]
    BY <1>2, <1>4, <1>5, <1>7, <2>1 DEF OpPlaced
  <2>3. Undoes(P, InvertOp(o), N)
    BY <1>3, <1>7, <2>2, UndoUpdate
  <2> QED BY <1>2, <2>3
<1>8. CASE o.op = "move"
  <2>1. d \in DOMAIN P
    BY <1>2, <1>3, <1>8 DEF Step
  <2>2. P[o.id].parent = o.old /\ PlacedAt(o.id, o.old)
    BY <1>2, <1>4, <1>5, <1>6, <1>8, <2>1 DEF OpPlaced
  <2>3. Forest(P)
    BY <1>1, <1>2, Forests DEF Apart
  <2>4. Undoes(P, InvertOp(o), N)
    BY <1>3, <1>8, <2>2, <2>3, UndoMove
  <2> QED BY <1>2, <2>4
<1>9. CASE o.op = "delete"
  <2>1. d \in DOMAIN docs /\ o = Logged(docs, d)
    BY <1>2, <1>9, DeletesStored
  <2>2. d \in DOMAIN P
    <3> SUFFICES ASSUME d \notin DOMAIN P PROVE FALSE
      OBVIOUS
    <3>1. PICK i \in 0 + 1..k - 1 : ops[i].op = "delete" /\ ops[i].id = d
      BY <1>1, <1>2, <2>1, Leaves
    <3>2. i \in 1..m /\ i # k
      BY <1>1
    <3> QED BY <1>2, <3>1, <3>2 DEF Once, Apart
  <2>3. Clean(P, o.id, N)
    BY <1>1, <1>2, <1>9, CleanDelete
  <2>4. P[d] = docs[d]
    <3>1. /\ P[d] \in [parent : DOMAIN P \cup {Root}, body : Bodies[d]]
          /\ docs[d] \in [parent : DOMAIN docs \cup {Root}, body : Bodies[d]]
      BY <1>1, <1>3, <2>1, <2>2 DEF TableOK
    <3>2. P[d].parent = docs[d].parent /\ P[d].body = docs[d].body
      BY <1>5, <2>2
    <3> QED BY <3>1, <3>2
  <2>5. o.id \in DOMAIN P /\ o.doc = P[o.id] /\ PlacedAt(o.id, P[o.id].parent)
    <3>1. o.id = d /\ o.doc = docs[d]
      BY <2>1 DEF Logged
    <3> QED BY <1>6, <2>1, <2>2, <2>4, <3>1
  <2>6. Undoes(P, InvertOp(o), N)
    BY <1>3, <1>9, <2>3, <2>5, UndoDelete
  <2> QED BY <1>2, <2>6
<1> QED BY <1>2, <1>3, <1>7, <1>8, <1>9 DEF Step

(* Nothing that was there is beneath what the batch creates.               *)
LEMMA CreatedAlone ==
  ASSUME World, NEW who, NEW batch, NEW n, NEW acc, NEW ops, NEW off, NEW m,
         NEW tb, NEW fd, Committed(who, batch, n, acc, ops, off, m, tb, fd), Apart(ops, m),
         NEW k \in 1..m, ops[k].op = "create"
  PROVE  /\ ops[k].id \notin DOMAIN tb[k - 1]
         /\ \A c \in Descendants(tb[m], ops[k].id) : c \notin DOMAIN tb[k - 1]
<1>1. /\ m \in Nat /\ k - 1 \in 0..m /\ 0 \in 0..m /\ m \in 0..m /\ TableOK(tb[m])
      /\ Run(docs, filed, ops, m, tb, fd) /\ tb[0] = docs
      /\ CleanRun(docs, filed, ops, m, tb, fd, batch, n) /\ TableOK(docs) /\ Once(ops, m)
  BY ApartRun
<1>2. PICK A, d, T : A = DOMAIN tb[k - 1] /\ d = ops[k].id /\ T = tb[m]
  OBVIOUS
<1>3. d \notin A /\ d # Root
  <2>1. OpPlaced(ops[k])
    BY OpsPlaced
  <2>2. d \notin DOMAIN docs
    BY <1>2, <2>1 DEF OpPlaced
  <2>3. d \in ids
    BY <1>1, <1>2 DEF Run, OpOK
  <2> QED BY <1>1, <1>2, <2>2, <2>3, FirstMeets DEF World
<1>4. ASSUME NEW e \in A, e \in DOMAIN T, T[e].parent # Root PROVE T[e].parent \in A
  <2>1. PICK y : y = T[e].parent
    OBVIOUS
  <2>2. y \in DOMAIN T
    BY <1>1, <1>2, <1>4, <2>1, TableTree
  <2>3. ASSUME NEW a \in 0..k - 1, y \in DOMAIN tb[a] PROVE y \in A
    <3>1. a \in 0..m /\ a <= k - 1 /\ k - 1 <= m
      BY <1>1
    <3> QED BY <1>1, <1>2, <2>2, <2>3, <3>1, Between
  <2>4. y \in DOMAIN docs => y \in A
    <3>1. 0 \in 0..k - 1
      BY <1>1
    <3> QED BY <1>1, <2>3, <3>1
  <2>5. ParentFrom(docs, ops, tb, m, e)
    BY <1>1, <1>2, <1>4, Sources
  <2>6. CASE e \in DOMAIN docs /\ y = docs[e].parent
    BY <1>1, <1>4, <2>1, <2>4, <2>6, TableTree
  <2>7. ASSUME NEW h \in 1..m, ops[h].id = e, ops[h].op = "create", y = ops[h].doc.parent
        PROVE  y \in A
    <3>1. h - 1 \in 0..m /\ y \in DOMAIN tb[h - 1]
      BY <1>1, <1>4, <2>1, <2>7 DEF Run, Possible
    <3>2. e \notin DOMAIN tb[h - 1]
      <4>1. OpPlaced(ops[h])
        BY OpsPlaced
      <4> QED BY <1>1, <2>7, <4>1, FirstMeets DEF OpPlaced
    <3>3. h - 1 < k - 1
      <4> SUFFICES ASSUME k - 1 <= h - 1 PROVE FALSE
        BY <1>1
      <4>1. PICK i \in (k - 1) + 1..h - 1 : ops[i].op = "delete" /\ ops[i].id = e
        BY <1>1, <1>2, <1>4, <3>1, <3>2, Leaves
      <4>2. i \in 1..m /\ i # h
        BY <1>1
      <4> QED BY <1>1, <2>7, <4>1, <4>2 DEF Once
    <3>4. h - 1 \in 0..k - 1
      BY <1>1, <3>3
    <3> QED BY <2>3, <3>1, <3>4
  <2>8. ASSUME NEW h \in 1..m, ops[h].id = e, ops[h].op = "move", y = ops[h].parent
        PROVE  y \in A
    <3>1. h - 1 \in 0..m /\ y \in DOMAIN tb[h - 1]
      BY <1>1, <1>4, <2>1, <2>8 DEF Run, Possible
    <3>2. y \in DOMAIN docs
      <4> SUFFICES ASSUME y \notin DOMAIN docs PROVE FALSE
        OBVIOUS
      <4>1. PICK g \in 1..h - 1 : ops[g].op = "create" /\ ops[g].id = y
        BY <3>1, NewMade
      <4>2. g \in 1..m
        BY <1>1
      <4> QED BY <2>8, <4>1, <4>2 DEF Apart, Houses, Shelves
    <3> QED BY <2>4, <3>2
  <2>9. y \in A
    BY <1>2, <2>1, <2>5, <2>6, <2>7, <2>8 DEF ParentFrom
  <2> QED BY <2>1, <2>9
<1>5. ASSUME NEW c \in A, c \in DOMAIN T PROVE d \notin Chain(Up(T), c)
  <2>1. PICK C : C = A \cup {Root}
    OBVIOUS
  <2>2. IsTree(ids, Up(T)) /\ c \in ids
    BY <1>1, <1>2, <1>5, TableTree
  <2>3. ASSUME NEW e \in C \cap ids PROVE Up(T)[e] \in C
    <3>1. e \in A
      BY <2>1, <2>3 DEF World
    <3>2. CASE e \in DOMAIN T
      BY <1>1, <1>2, <1>4, <2>1, <3>1, <3>2, TableTree
    <3>3. CASE e \notin DOMAIN T
      BY <1>1, <1>2, <2>1, <2>3, <3>3, TableTree
    <3> QED BY <3>2, <3>3
  <2>4. Chain(Up(T), c) \subseteq C
    BY <2>1, <2>2, <2>3, ChainFacts
  <2> QED BY <1>3, <2>1, <2>4
<1> QED BY <1>2, <1>3, <1>5 DEF Descendants

-----------------------------------------------------------------------------
(* The inverse of a command is applied from its last operation to its      *)
(* first.                                                                  *)
LEMMA InvertIs ==
  ASSUME NEW ops, NEW m \in Nat, DOMAIN ops = 1..m, NEW F, F = Invert(ops)
  PROVE  DOMAIN F = 1..m /\ \A j \in 1..m : F[j] = InvertOp(ops[m - j + 1])
<1>1. PICK s : s = [i \in DOMAIN ops |-> InvertOp(ops[i])]
  OBVIOUS
<1>2. PICK X : X = {InvertOp(ops[i]) : i \in 1..m}
  OBVIOUS
<1>3. s \in [1..m -> X]
  BY <1>1, <1>2
<1>4. s \in Seq(X)
  BY <1>3
<1>5. Len(s) = m
  BY <1>3, <1>4, LenProperties
<1>6. F = [i \in 1..m |-> s[(m - i) + 1]]
  <2>1. F = Reverse(s)
    BY <1>1, Zenon DEF Invert
  <2>2. Reverse(s) = [i \in 1..Len(s) |-> s[(Len(s) - i) + 1]]
    BY Zenon DEF Reverse
  <2> QED BY <1>5, <2>1, <2>2
<1>7. \A j \in 1..m : F[j] = InvertOp(ops[m - j + 1])
  <2> SUFFICES ASSUME NEW j \in 1..m PROVE F[j] = InvertOp(ops[m - j + 1])
    OBVIOUS
  <2>1. F[j] = s[(m - j) + 1] /\ (m - j) + 1 \in 1..m
    BY <1>6
  <2> QED BY <1>1, <2>1
<1> QED BY <1>6, <1>7

(* The run of apply_command on the inverse.                                *)
Reverts(ops, m, tb, F, eops, eoff, h) ==
  /\ DOMAIN F = 1..m /\ \A j \in 1..m : F[j] = InvertOp(ops[m - j + 1])
  /\ Expansion(tb[m], F, m, eops, eoff)
  /\ \A k \in 1..Len(eops) : h[k] = ApplyTrusted(h[k - 1], eops[k])

LEMMA RevertDelete ==
  ASSUME World, NEW P, TableOK(P), NEW N, TableOK(N), NEW d \in ids,
         d \notin DOMAIN P, DOMAIN N = DOMAIN P \cup {d}, Without(N, {d}) = P,
         NEW t, NEW e, e.op = "delete", e.id \in ids, e.id \notin DOMAIN P
  PROVE  /\ Holds(t, P) => Holds(ApplyTrusted(t, e), P)
         /\ Holds(t, N) /\ e.id = d => Holds(ApplyTrusted(t, e), P)
         /\ Holds(t, N) /\ e.id # d => Holds(ApplyTrusted(t, e), N)
<1>1. OpOK(e)
  BY DEF OpOK
<1>2. \A T : Allowed(T, e) /\ Possible(T, e)
  BY DEF Allowed, Possible
<1>3. \A T : After(T, e) = Without(T, {e.id})
  BY DEF After
<1>4. PICK D : D = {e.id} /\ Root \notin D
  BY DEF World
<1>5. Without(P, D) = P
  BY <1>4, WithoutNone
<1>6. e.id = d => Without(N, D) = P
  BY <1>4
<1>7. e.id # d => Without(N, D) = N
  BY <1>4, WithoutNone
<1>8. ASSUME NEW T, Holds(t, T) PROVE Holds(ApplyTrusted(t, e), Without(T, D))
  BY <1>1, <1>2, <1>3, <1>4, <1>8, TrustedIs
<1> QED BY <1>5, <1>6, <1>7, <1>8

LEMMA RevertStep ==
  ASSUME World, Placed(docs), NEW who, NEW batch, NEW n, NEW acc, NEW ops, NEW off, NEW m,
         NEW tb, NEW fd, Committed(who, batch, n, acc, ops, off, m, tb, fd), Apart(ops, m),
         NEW F, NEW eops, NEW eoff, NEW h, Reverts(ops, m, tb, F, eops, eoff, h),
         NEW j \in 0..m - 1, Holds(h[eoff[j]], tb[m - j])
  PROVE  Holds(h[eoff[j + 1]], tb[m - (j + 1)])
<1>1. /\ m \in Nat /\ m \in 0..m /\ Run(docs, filed, ops, m, tb, fd) /\ TableOK(tb[m])
  BY ApartRun
<1>2. PICK i \in 1..m : i = m - j /\ i - 1 = m - (j + 1)
  <2>1. m - j \in 1..m /\ (m - j) - 1 = m - (j + 1)
    BY <1>1
  <2> QED BY <2>1
<1>3. PICK a \in Nat, b \in Nat, c \in Nat :
        a = eoff[j] /\ b = eoff[j + 1] /\ c = Len(eops) /\ a < b /\ b <= c
  <2>1. Expansion(tb[m], F, m, eops, eoff)
    BY DEF Reverts
  <2>2. /\ j + 1 \in 1..m /\ (j + 1) - 1 = j /\ j + 1 \in 0..m /\ j \in 0..m
    BY <1>1
  <2>3. eoff[j] \in Nat /\ eoff[j + 1] \in Nat /\ eoff[m] = Len(eops) /\ eoff[m] \in Nat
    BY <1>1, <2>1, <2>2 DEF Expansion
  <2>4. eoff[j] < eoff[j + 1]
    BY <2>1, <2>2 DEF Expansion
  <2>5. eoff[j + 1] <= eoff[m]
    <3>1. CASE j + 1 = m
      BY <2>3, <3>1
    <3>2. CASE j + 1 # m
      <4>1. j + 1 < m
        BY <1>1, <2>2, <3>2
      <4>2. PICK T, g : T = tb[m] /\ g = j + 1
        OBVIOUS
      <4>3. eoff[g] < eoff[m]
        BY <1>1, <2>1, <2>2, <4>1, <4>2, OffsetsGrow
      <4> QED BY <2>3, <4>2, <4>3
    <3> QED BY <3>1, <3>2
  <2> QED BY <2>3, <2>4, <2>5
<1>4. PICK v, o, P, N, T : v = F[j + 1] /\ o = ops[i] /\ P = tb[i - 1] /\ N = tb[i] /\ T = tb[m]
  OBVIOUS
<1>5. v = InvertOp(o)
  <2>1. j + 1 \in 1..m /\ m - (j + 1) + 1 = i
    BY <1>1, <1>2
  <2>2. F[j + 1] = InvertOp(ops[m - (j + 1) + 1])
    BY <2>1 DEF Reverts
  <2> QED BY <1>4, <2>1, <2>2
<1>6. Expanded(T, v, eops, a, b)
  <2>1. j + 1 \in 1..m /\ (j + 1) - 1 = j
    BY <1>1
  <2>2. Expanded(tb[m], F[j + 1], eops, eoff[(j + 1) - 1], eoff[j + 1])
    BY <2>1 DEF Reverts, Expansion
  <2> QED BY <1>3, <1>4, <2>1, <2>2, Zenon
<1>7. \A k \in 1..c : h[k] = ApplyTrusted(h[k - 1], eops[k])
  BY <1>3 DEF Reverts
<1>8. Holds(h[a], N)
  BY <1>2, <1>3, <1>4
<1>9. Step(P, o, N) /\ TableOK(P) /\ TableOK(N) /\ o.id \in ids
  <2>1. Step(tb[i - 1], ops[i], tb[i])
    BY <1>1, RunStep
  <2> QED BY <1>4, <2>1 DEF Step
<1>10. CASE o.op # "create"
  <2>1. Undoes(P, v, N)
    BY <1>4, <1>5, <1>10, OpUndone
  <2>2. v.op # "delete"
    BY <1>5, <1>9, <1>10 DEF InvertOp, Step
  <2>3. b = a + 1 /\ eops[b] = v
    BY <1>6, <2>2 DEF Expanded
  <2>4. PICK t : t = h[a] /\ Holds(t, N)
    BY <1>8
  <2>5. h[b] = ApplyTrusted(t, v)
    <3>1. b \in 1..c /\ b - 1 = a
      BY <1>3, <2>3
    <3> QED BY <1>7, <2>3, <2>4, <3>1
  <2>6. Holds(ApplyTrusted(t, v), P)
    <3>1. Holds(ApplyTrusted(t, v), After(N, v))
      BY <2>1, <2>4, TrustedIs DEF Undoes
    <3> QED BY <2>1, <3>1 DEF Undoes
  <2> QED BY <1>2, <1>3, <1>4, <2>5, <2>6
<1>11. CASE o.op = "create"
  <2>1. PICK d : d = o.id
    OBVIOUS
  <2>2. v.op = "delete" /\ v.id = d
    BY <1>5, <1>11, <2>1 DEF InvertOp
  <2>3. d \notin DOMAIN P /\ \A e \in Descendants(T, d) : e \notin DOMAIN P /\ e \in DOMAIN T
    BY <1>4, <1>11, <2>1, CreatedAlone DEF Descendants
  <2>4. DOMAIN N = DOMAIN P \cup {d} /\ o.doc.parent # o.id
    <3>1. OpPlaced(o)
      BY <1>4, OpsPlaced
    <3> QED BY <1>9, <1>11, <2>1, <3>1 DEF Step, OpPlaced
  <2>5. Without(N, {d}) = P
    BY <1>9, <1>11, <2>1, <2>3, <2>4, UndoCreate
  <2>6. ASSUME NEW t, NEW e, e.op = "delete", e.id \in ids, e.id \notin DOMAIN P
        PROVE  /\ Holds(t, P) => Holds(ApplyTrusted(t, e), P)
               /\ Holds(t, N) /\ e.id = d => Holds(ApplyTrusted(t, e), P)
               /\ Holds(t, N) /\ e.id # d => Holds(ApplyTrusted(t, e), N)
    BY <1>9, <2>1, <2>3, <2>4, <2>5, <2>6, RevertDelete
  <2>7. CASE b = a + 1 /\ eops[b] = v
    <3>1. b \in 1..c /\ b - 1 = a
      BY <1>3, <2>7
    <3>2. h[b] = ApplyTrusted(h[a], v)
      BY <1>7, <2>7, <3>1
    <3>3. Holds(h[b], P)
      BY <1>8, <1>9, <2>1, <2>2, <2>3, <2>6, <3>2
    <3> QED BY <1>2, <1>3, <1>4, <3>3
  <2>8. ASSUME NEW x, ListsAll(T, d, x, b - a), \A l \in 1..b - a : eops[a + l] = Logged(T, x[l])
        PROVE  Holds(h[b], P)
    <3>1. ASSUME NEW l \in 1..b - a
          PROVE  /\ Holds(h[a + l - 1], P) => Holds(h[a + l], P)
                 /\ Holds(h[a + l - 1], N) /\ x[l] = d => Holds(h[a + l], P)
                 /\ Holds(h[a + l - 1], N) /\ x[l] # d => Holds(h[a + l], N)
      <4>1. PICK t, e : t = h[a + l - 1] /\ e = Logged(T, x[l])
        OBVIOUS
      <4>2. h[a + l] = ApplyTrusted(t, e)
        <5>1. a + l \in 1..c
          BY <1>3
        <5> QED BY <1>7, <2>8, <4>1, <5>1
      <4>3. x[l] \in Descendants(T, d) \cup {d}
        BY <2>8 DEF ListsAll
      <4>4. DOMAIN T \subseteq ids
        BY <1>1, <1>4 DEF TableOK
      <4>5. e.op = "delete" /\ e.id = x[l] /\ e.id \in ids /\ e.id \notin DOMAIN P
        BY <1>9, <2>1, <2>3, <4>1, <4>3, <4>4 DEF Logged
      <4> QED BY <2>6, <4>1, <4>2, <4>5
    <3>2. PICK S : S = {l \in Nat : l <= b - a => Holds(h[a + l], P) \/ Holds(h[a + l], N)}
      OBVIOUS
    <3>3. 0 \in S
      BY <1>8, <3>2
    <3>4. ASSUME NEW l \in Nat, l \in S PROVE l + 1 \in S
      <4> SUFFICES ASSUME l + 1 <= b - a
                   PROVE Holds(h[a + (l + 1)], P) \/ Holds(h[a + (l + 1)], N)
        BY <3>2
      <4>1. l + 1 \in 1..b - a /\ a + (l + 1) - 1 = a + l
        BY <1>3
      <4>2. Holds(h[a + l], P) \/ Holds(h[a + l], N)
        BY <1>3, <3>2, <3>4
      <4> QED BY <3>1, <4>1, <4>2
    <3>5. Nat \subseteq S
      BY <3>3, <3>4, NatInd
    <3>6. PICK g \in 1..b - a : g = b - a /\ a + g = b
      <4>1. b - a \in 1..b - a /\ a + (b - a) = b
        BY <1>3
      <4> QED BY <4>1
    <3>7. Holds(h[a + g - 1], P) \/ Holds(h[a + g - 1], N)
      <4>0. PICK w \in Nat : w = b - a /\ g = w /\ g \in 1..w
        BY <1>3, <3>6
      <4>1. g - 1 \in Nat /\ g - 1 <= b - a /\ a + (g - 1) = a + g - 1
        BY <1>3, <4>0
      <4>2. Holds(h[a + (g - 1)], P) \/ Holds(h[a + (g - 1)], N)
        BY <3>2, <3>5, <4>1
      <4> QED BY <4>1, <4>2
    <3>8. x[g] = d
      BY <2>8, <3>6 DEF ListsAll
    <3>9. Holds(h[a + g], P)
      BY <3>1, <3>7, <3>8
    <3> QED BY <3>6, <3>9
  <2>9. Holds(h[b], P)
    <3>1. CASE b = a + 1 /\ eops[b] = v
      BY <1>2, <1>3, <1>4, <2>7, <3>1
    <3>2. CASE ~(b = a + 1 /\ eops[b] = v)
      <4>1. PICK x : /\ ListsAll(T, v.id, x, b - a)
                     /\ \A l \in 1..b - a : eops[a + l] = Logged(T, x[l])
        BY <1>6, <3>2 DEF Expanded
      <4> QED BY <2>2, <2>8, <4>1
    <3> QED BY <3>1, <3>2
  <2> QED BY <1>2, <1>3, <1>4, <2>9
<1> QED BY <1>10, <1>11

LEMMA Reverted ==
  ASSUME World, Placed(docs), NEW who, NEW batch, NEW n, NEW acc, NEW ops, NEW off, NEW m,
         NEW tb, NEW fd, Committed(who, batch, n, acc, ops, off, m, tb, fd), Apart(ops, m),
         NEW u, u = apply_command(tb[m], Invert(ops))
  PROVE  u.ok /\ u.docs = docs
<1>1. /\ m \in Nat \ {0} /\ m \in 0..m /\ Run(docs, filed, ops, m, tb, fd) /\ TableOK(tb[m])
      /\ tb[0] = docs /\ DOMAIN ops = 1..m /\ \A k \in 1..m : OpOK(ops[k])
  BY ApartRun DEF Committed, Run
<1>2. PICK T : T = tb[m] /\ TableOK(T) /\ Forest(T)
  BY <1>1, Forests DEF Apart
<1>3. PICK F : F = Invert(ops)
  OBVIOUS
<1>4. DOMAIN F = 1..m /\ \A j \in 1..m : F[j] = InvertOp(ops[m - j + 1])
  BY <1>1, <1>3, InvertIs
<1>5. \A j \in 1..m : OpOK(F[j])
  <2> SUFFICES ASSUME NEW k \in 1..m PROVE OpOK(InvertOp(ops[k]))
    <3>1. \A j \in 1..m : m - j + 1 \in 1..m
      BY <1>1
    <3> QED BY <1>4, <3>1
  <2>1. ASSUME ops[k].op = "delete"
        PROVE  ops[k].doc \in [parent : Parents, body : Bodies[ops[k].id]]
    <3>1. PICK d \in DOMAIN docs : d = ops[k].id /\ ops[k] = Logged(docs, d)
      BY <2>1, DeletesStored
    <3>2. /\ docs[d] \in [parent : DOMAIN docs \cup {Root}, body : Bodies[d]]
          /\ DOMAIN docs \subseteq ids
      BY ApartRun DEF TableOK
    <3>3. ops[k].doc = docs[d]
      BY <3>1 DEF Logged
    <3> QED BY <3>1, <3>2, <3>3 DEF Parents
  <2> QED BY <1>1, <2>1, InvertOK
<1>6. PICK eops : eops = Expand(T, F)
  OBVIOUS
<1>7. PICK M, eoff : M \in Nat /\ Len(eops) = M /\ Expansion(T, F, m, eops, eoff)
  <2>1. Len(eops) \in Nat /\ \E eoff : Expansion(T, F, m, eops, eoff)
    BY <1>1, <1>2, <1>4, <1>5, <1>6, ExpandFacts
  <2> QED BY <2>1
<1>8. PICK h : /\ h[0] = [ok |-> TRUE, docs |-> T, filed |-> Root]
               /\ \A k \in 1..M : h[k] = ApplyTrusted(h[k - 1], eops[k])
               /\ apply_command(T, F) = h[M]
  <2>1. eops = Expand(T, F) /\ M \in Nat /\ Len(eops) = M
    BY <1>6, <1>7
  <2> QED BY <2>1, CommandSteps, SMTT(60)
<1>9. Reverts(ops, m, tb, F, eops, eoff, h)
  BY <1>2, <1>4, <1>7, <1>8 DEF Reverts
<1>10. eoff[0] = 0 /\ eoff[m] = M
  BY <1>7 DEF Expansion
<1>11. PICK S : S = {j \in Nat : j <= m => Holds(h[eoff[j]], tb[m - j])}
  OBVIOUS
<1>12. 0 \in S
  <2>1. PICK t : t = h[0] /\ t = [ok |-> TRUE, docs |-> T, filed |-> Root]
    BY <1>8
  <2>2. StateOK(t) /\ t.ok /\ t.docs = T
    BY <1>2, <2>1 DEF StateOK, Parents
  <2>3. Holds(t, T)
    BY <2>2 DEF Holds
  <2>4. m - 0 = m
    BY <1>1
  <2> QED BY <1>2, <1>10, <1>11, <2>1, <2>3, <2>4
<1>13. ASSUME NEW j \in Nat, j \in S PROVE j + 1 \in S
  <2> SUFFICES ASSUME j + 1 <= m PROVE Holds(h[eoff[j + 1]], tb[m - (j + 1)])
    BY <1>11
  <2>1. j \in 0..m - 1 /\ Holds(h[eoff[j]], tb[m - j])
    BY <1>1, <1>11, <1>13
  <2> QED BY <1>9, <2>1, RevertStep
<1>14. Nat \subseteq S
  BY <1>12, <1>13, NatInd
<1>15. Holds(h[eoff[m]], tb[m - m]) /\ m - m = 0
  BY <1>1, <1>11, <1>14
<1>16. Holds(h[M], docs)
  BY <1>1, <1>10, <1>15
<1> QED BY <1>2, <1>3, <1>8, <1>16 DEF Holds

(* A client's documents are of this world, whatever it applies.            *)
LEMMA ReplayIn ==
  ASSUME NEW T, DOMAIN T \subseteq ids, NEW ops, NEW m \in Nat, Len(ops) = m,
         \A k \in 1..m : OpOK(ops[k])
  PROVE  DOMAIN Replay(T, ops) \subseteq ids
<1>1. PICK h : /\ h[0] = T /\ \A k \in 1..m : h[k] = applyOperation(h[k - 1], ops[k])
               /\ Replay(T, ops) = h[m]
  BY ReplaySteps, SMTT(40)
<1>2. ASSUME NEW U, DOMAIN U \subseteq ids, NEW o, OpOK(o)
      PROVE  DOMAIN applyOperation(U, o) \subseteq ids
  <2>1. o.id \in ids /\ o.op \in {"create", "update", "move", "delete"}
    BY <1>2, OpKinds
  <2>2. CASE o.op = "create"
    BY <1>2, <2>1, <2>2 DEF applyOperation, Put
  <2>3. CASE o.op = "delete"
    BY <1>2, <2>1, <2>3 DEF applyOperation, Restrict
  <2>4. CASE o.op = "move"
    BY <1>2, <2>1, <2>4 DEF applyOperation
  <2>5. CASE o.op = "update"
    BY <1>2, <2>1, <2>5 DEF applyOperation
  <2> QED BY <2>1, <2>2, <2>3, <2>4, <2>5
<1>3. PICK S : S = {k \in Nat : k <= m => DOMAIN h[k] \subseteq ids}
  OBVIOUS
<1>4. 0 \in S
  BY <1>1, <1>3
<1>5. ASSUME NEW k \in Nat, k \in S PROVE k + 1 \in S
  <2> SUFFICES ASSUME k + 1 <= m PROVE DOMAIN h[k + 1] \subseteq ids
    BY <1>3
  <2>1. k + 1 \in 1..m /\ (k + 1) - 1 = k /\ DOMAIN h[k] \subseteq ids
    BY <1>3, <1>5
  <2>2. h[k + 1] = applyOperation(h[k], ops[k + 1])
    BY <1>1, <2>1
  <2> QED BY <1>2, <2>1, <2>2
<1>6. Nat \subseteq S
  BY <1>4, <1>5, NatInd
<1> QED BY <1>1, <1>3, <1>6

-----------------------------------------------------------------------------
(* The inductive invariant.  Besides what is to be proved it says that     *)
(* every stored document has a stored parent of a kind that may have it:   *)
(* without that the inverse of a move, or of a delete, might be refused.   *)
IInv ==
  /\ ids \in Worlds /\ TableOK(docs) /\ filed \in Parents /\ DOMAIN replica \subseteq ids
  /\ undoes \in BOOLEAN /\ author \in {"gm", "player"} /\ tangled \subseteq Reasons
  /\ Placed(docs)
  /\ OneActiveUnlessTwice /\ ForestUnlessTangled /\ LogTellsAllUnlessAdopted
  /\ UndoesUnlessTangled

LEMMA WorldOK == ids \in Worlds => World
BY ConstantsOK DEF World

LEMMA IInvInit == Init => IInv
<1> SUFFICES ASSUME Init PROVE IInv
  OBVIOUS
<1>1. /\ ids \in Worlds /\ docs = <<>> /\ replica = <<>> /\ filed = Root
      /\ undoes = TRUE /\ author = "gm" /\ tangled = {}
  BY DEF Init
<1>2. PICK T : T = docs /\ DOMAIN T = {} /\ T = [d \in DOMAIN T |-> T[d]]
  <2>1. DOMAIN <<>> = {} /\ <<>> = [d \in {} |-> <<>>[d]]
    OBVIOUS
  <2> QED BY <1>1, <2>1
<1>3. TableOK(T) /\ Placed(T) /\ Forest(T) /\ OneActive(T)
  BY <1>2 DEF TableOK, Placed, Forest, OneActive
<1>4. DOMAIN replica = {} /\ replica = docs
  BY <1>1
<1> QED BY <1>1, <1>2, <1>3, <1>4
        DEF IInv, Parents, OneActiveUnlessTwice, OneActivePerScene, OneActive,
            ForestUnlessTangled, Forest, LogTellsAllUnlessAdopted, UndoesUnlessTangled

(* What the invariant says of a world whose last batch was not tangled.    *)
LEMMA Untangled ==
  ASSUME IInv, tangled = {}
  PROVE  /\ World /\ TableOK(docs) /\ Forest(docs) /\ OneActive(docs) /\ Placed(docs)
         /\ replica = docs /\ filed \in Parents
BY WorldOK DEF IInv, Forest, ForestUnlessTangled, OneActive, OneActivePerScene,
               OneActiveUnlessTwice, LogTellsAllUnlessAdopted

(* A step of the specification, seen from the run of the batch.            *)
Intended(who, batch, n, acc, ops, off, m, tb, fd, u) ==
  /\ Committed(who, batch, n, acc, ops, off, m, tb, fd)
  /\ docs' = tb[m] /\ filed' = fd[m] /\ tangled' = Tangles(ops)
  /\ ids' = ids /\ author' = who /\ replica' = Replay(replica, ops)
  /\ u = apply_command(tb[m], Invert(ops)) /\ undoes' = (u.ok /\ u.docs = docs)
  /\ \A j \in 1..n : batch[j].op = "delete" =>
       \A d \in Descendants(docs, batch[j].id) : MayDelete(who, d)

LEMMA Intents ==
  ASSUME IInv, tangled = {}, NEW who, NEW n \in 1..MaxOps, NEW batch \in [1..n -> Ops],
         apply_intent(who, batch)
  PROVE  \E acc, ops, off, m, tb, fd, u : Intended(who, batch, n, acc, ops, off, m, tb, fd, u)
<1>1. World /\ TableOK(docs) /\ Forest(docs) /\ filed \in Parents
  BY Untangled
<1>2. n \in Nat \ {0}
  BY ConstantsOK
<1>3. PICK ops : ops = Expand(docs, batch)
  OBVIOUS
<1>4. PICK acc, off, m, tb, fd :
        Committed(who, batch, n, acc, ops, off, m, tb, fd) /\ docs' = tb[m] /\ filed' = fd[m]
  BY <1>1, <1>2, <1>3, Commits
<1>5. PICK t : t = Phase2(docs, filed, ops)
  OBVIOUS
<1>6. PICK u : u = apply_command(t.docs, Invert(ops))
  OBVIOUS
<1>7. /\ docs' = t.docs /\ tangled' = Tangles(ops) /\ ids' = ids /\ author' = who
      /\ replica' = Replay(replica, ops) /\ undoes' = (u.ok /\ u.docs = docs)
  BY <1>3, <1>5, <1>6, Zenon DEF apply_intent
<1>8. \A j \in 1..n : batch[j].op = "delete" =>
        \A d \in Descendants(docs, batch[j].id) : MayDelete(who, d)
  <2>1. \A o \in Range(batch) : o.op = "delete" =>
          \A d \in Descendants(docs, o.id) : MayDelete(who, d)
    BY DEF apply_intent
  <2>2. \A j \in 1..n : batch[j] \in Range(batch)
    BY DEF Range
  <2> QED BY <2>1, <2>2
<1>9. t.docs = tb[m]
  BY <1>4, <1>7
<1>10. Intended(who, batch, n, acc, ops, off, m, tb, fd, u)
  BY <1>4, <1>6, <1>7, <1>8, <1>9 DEF Intended
<1> QED BY <1>10

-----------------------------------------------------------------------------
(* A batch keeps the invariant.                                            *)
LEMMA IntentStep ==
  ASSUME IInv, tangled = {}, NEW who \in {"gm", "player"}, NEW n \in 1..MaxOps,
         NEW batch \in [1..n -> Ops], apply_intent(who, batch)
  PROVE  IInv'
<1>0. /\ World /\ TableOK(docs) /\ Forest(docs) /\ OneActive(docs) /\ Placed(docs)
      /\ replica = docs /\ filed \in Parents /\ ids \in Worlds
  BY Untangled DEF IInv
<1>1. PICK acc, ops, off, m, tb, fd, u : Intended(who, batch, n, acc, ops, off, m, tb, fd, u)
  BY Intents
<1>2. /\ Committed(who, batch, n, acc, ops, off, m, tb, fd)
      /\ docs' = tb[m] /\ filed' = fd[m] /\ tangled' = Tangles(ops)
      /\ ids' = ids /\ author' = who /\ replica' = Replay(docs, ops)
      /\ u = apply_command(tb[m], Invert(ops)) /\ undoes' = (u.ok /\ u.docs = docs)
  BY <1>0, <1>1 DEF Intended
<1>3. /\ Run(docs, filed, ops, m, tb, fd) /\ m \in Nat /\ m \in 0..m /\ DOMAIN ops = 1..m
      /\ Len(ops) = m /\ \A k \in 1..m : OpOK(ops[k])
  BY <1>2 DEF Committed, Run
<1>4. /\ "twice" \notin tangled' => Once(ops, m)
      /\ "adopted" \notin tangled' => ~Adopts(ops, m)
      /\ "housed" \notin tangled' => ~Houses(ops, m)
      /\ "shelved" \notin tangled' => ~Shelves(ops, m)
  BY <1>2, <1>3, TangleFacts
<1>5. PICK T : T = tb[m]
  OBVIOUS
<1>6. TableOK(T) /\ Placed(T) /\ fd[m] \in Parents
  BY <1>0, <1>2, <1>3, <1>5, PlacedStays DEF Run
<1>7. TableOK(docs)'
  BY <1>2, <1>5, <1>6 DEF TableOK
<1>8. Placed(docs)'
  BY <1>2, <1>5, <1>6 DEF Placed
<1>9. filed' \in Parents'
  BY <1>2, <1>6 DEF Parents
<1>10. DOMAIN replica' \subseteq ids'
  <2>1. DOMAIN docs \subseteq ids
    BY <1>0 DEF TableOK
  <2>2. DOMAIN Replay(docs, ops) \subseteq ids
    BY <1>3, <2>1, ReplayIn
  <2> QED BY <1>2, <2>2
<1>11. OneActiveUnlessTwice'
  <2> SUFFICES ASSUME "twice" \notin tangled' PROVE OneActivePerScene'
    BY DEF OneActiveUnlessTwice
  <2>1. OneActive(T)
    BY <1>0, <1>2, <1>4, <1>5, OneActiveStays
  <2> QED BY <1>2, <1>5, <2>1 DEF OneActive, OneActivePerScene
<1>12. ForestUnlessTangled'
  <2> SUFFICES ASSUME tangled' \cap {"twice", "housed"} = {}
               PROVE  (\A d \in DOMAIN docs : Root \in Chain(Up(docs), d))'
    BY DEF ForestUnlessTangled
  <2>1. "twice" \notin tangled' /\ "housed" \notin tangled'
    OBVIOUS
  <2>2. Forest(T)
    BY <1>0, <1>2, <1>3, <1>4, <1>5, <2>1, Forests
  <2>3. \A d \in DOMAIN T : Root \in Chain(Up(T), d)
    BY <2>2 DEF Forest
  <2>4. docs' = T /\ Up(docs)' = Up(T)
    BY <1>2, <1>5 DEF Up
  <2>5. ASSUME NEW d \in DOMAIN docs' PROVE Root \in Chain(Up(docs)', d)
    BY <2>3, <2>4, <2>5
  <2> QED BY <2>5
<1>13. LogTellsAllUnlessAdopted'
  <2> SUFFICES ASSUME "adopted" \notin tangled' PROVE replica' = docs'
    BY DEF LogTellsAllUnlessAdopted
  <2>1. CleanRun(docs, filed, ops, m, tb, fd, batch, n)
    BY <1>2, <1>4, CommitClean
  <2>2. Replay(docs, ops) = tb[m]
    BY <1>0, <1>3, <2>1, ReplayFollows
  <2> QED BY <1>2, <2>2
<1>14. UndoesUnlessTangled'
  <2> SUFFICES ASSUME tangled' = {} PROVE undoes'
    BY DEF UndoesUnlessTangled
  <2>1. Apart(ops, m)
    BY <1>4 DEF Apart
  <2>2. u.ok /\ u.docs = docs
    BY <1>0, <1>2, <2>1, Reverted
  <2> QED BY <1>2, <2>2
<1>15. undoes' \in BOOLEAN /\ tangled' \subseteq Reasons /\ ids' \in Worlds /\ author' \in {"gm", "player"}
  <2>1. undoes' \in BOOLEAN
    BY <1>2
  <2>2. tangled' \subseteq Reasons
    BY <1>2 DEF Tangles
  <2> QED BY <1>0, <1>2, <2>1, <2>2
<1> QED BY <1>7, <1>8, <1>9, <1>10, <1>11, <1>12, <1>13, <1>14, <1>15 DEF IInv

LEMMA FileStep ==
  ASSUME IInv, NEW folder, FileAsset(folder)
  PROVE  IInv'
<1>1. /\ ids' = ids /\ docs' = docs /\ replica' = replica /\ undoes' = undoes
      /\ author' = author /\ tangled' = tangled /\ filed' = folder
      /\ folder \in {Root} \cup DOMAIN docs
  BY DEF FileAsset
<1>2. filed' \in Parents'
  BY <1>1 DEF IInv, TableOK, Parents
<1> QED BY <1>1, <1>2
        DEF IInv, TableOK, Placed, OneActiveUnlessTwice, OneActivePerScene, ForestUnlessTangled,
            Up, LogTellsAllUnlessAdopted, UndoesUnlessTangled

(* Every state satisfies the invariant: no scene has two active combats,   *)
(* the parents are a forest, a client that applies the log has the         *)
(* documents and the inverse of the last command would restore them, each  *)
(* unless the last batch was tangled in the way that breaks it; and every  *)
(* document is where it may be put.                                        *)
THEOREM IntentInvariant == Spec => []IInv
<1>1. Init => IInv
  BY IInvInit
<1>2. IInv /\ [Next]_vars => IInv'
  <2> SUFFICES ASSUME IInv, [Next]_vars PROVE IInv'
    OBVIOUS
  <2>1. ASSUME tangled = {}, NEW n \in 1..MaxOps, NEW batch \in [1..n -> Ops],
               NEW who \in {"gm", "player"}, apply_intent(who, batch)
        PROVE  IInv'
    BY <2>1, IntentStep
  <2>2. ASSUME NEW folder \in Parents, FileAsset(folder) PROVE IInv'
    BY <2>2, FileStep
  <2>3. CASE UNCHANGED vars
    BY <2>3 DEF vars, IInv, TableOK, Placed, Parents, OneActiveUnlessTwice, OneActivePerScene,
                ForestUnlessTangled, Up, LogTellsAllUnlessAdopted, UndoesUnlessTangled
  <2> QED BY <2>1, <2>2, <2>3 DEF Next
<1> QED BY <1>1, <1>2, PTL DEF Spec

(* Batches and filings keep the state well typed.                          *)
THEOREM IntentTyped == Spec => []TypeOK
<1>1. IInv => TypeOK
  BY DEF IInv, TableOK, TypeOK
<1> QED BY <1>1, IntentInvariant, PTL

(* No scene ever has two active combats, unless a batch named a document   *)
(* twice (active_combat_owner, sqlite/documents.rs:405).                   *)
THEOREM OneActiveAlways == Spec => []OneActiveUnlessTwice
<1>1. IInv => OneActiveUnlessTwice
  BY DEF IInv
<1> QED BY <1>1, IntentInvariant, PTL

(* The parents of the stored documents stay a forest, whatever moves a     *)
(* batch combines (check_move_acyclic, sqlite/documents.rs:339).           *)
THEOREM ForestAlways == Spec => []ForestUnlessTangled
<1>1. IInv => ForestUnlessTangled
  BY DEF IInv
<1> QED BY <1>1, IntentInvariant, PTL

(* A client that applies every logged command has the stored documents,    *)
(* unless a batch deletes the parent it gives to another of its documents  *)
(* (the expansion of deletes, sqlite.rs:2019).                             *)
THEOREM LogTellsAllAlways == Spec => []LogTellsAllUnlessAdopted
<1>1. IInv => LogTellsAllUnlessAdopted
  BY DEF IInv
<1> QED BY <1>1, IntentInvariant, PTL

(* The inverse of a logged command, run through apply_command, restores    *)
(* the documents, unless operations of the batch meet (Command::invert,    *)
(* command.rs:266).                                                        *)
THEOREM UndoesAlways == Spec => []UndoesUnlessTangled
<1>1. IInv => UndoesUnlessTangled
  BY DEF IInv
<1> QED BY <1>1, IntentInvariant, PTL

(* A player's batch never takes a document with it that a player may not   *)
(* delete, however deep beneath what he deletes (sqlite.rs:2019).          *)
THEOREM OnlyOwnDeletedAlways == Spec => OnlyOwnDeleted
<1>1. IInv /\ [Next]_vars => [author' = "player" => DOMAIN docs \ DOMAIN docs' \subseteq Owned]_vars
  <2> SUFFICES ASSUME IInv, Next, author' = "player" PROVE DOMAIN docs \ DOMAIN docs' \subseteq Owned
    BY DEF vars
  <2>1. ASSUME tangled = {}, NEW n \in 1..MaxOps, NEW batch \in [1..n -> Ops],
               NEW who \in {"gm", "player"}, apply_intent(who, batch)
        PROVE  DOMAIN docs \ DOMAIN docs' \subseteq Owned
    <3>1. PICK acc, ops, off, m, tb, fd, u : Intended(who, batch, n, acc, ops, off, m, tb, fd, u)
      BY <2>1, Intents
    <3>2. /\ who = "player" /\ docs' = tb[m]
          /\ Committed("player", batch, n, acc, ops, off, m, tb, fd)
          /\ \A j \in 1..n : batch[j].op = "delete" =>
               \A d \in Descendants(docs, batch[j].id) : MayDelete("player", d)
      BY <3>1 DEF Intended
    <3>3. World
      BY <2>1, Untangled
    <3>4. DOMAIN docs \ DOMAIN tb[m] \subseteq Owned
      BY <3>2, <3>3, OthersStay
    <3> QED BY <3>2, <3>4
  <2>2. ASSUME NEW folder \in Parents, FileAsset(folder) PROVE DOMAIN docs \ DOMAIN docs' = {}
    BY <2>2 DEF FileAsset
  <2> QED BY <2>1, <2>2 DEF Next
<1> QED BY <1>1, IntentInvariant, PTL DEF Spec, OnlyOwnDeleted

(* An asset whose folder goes is filed under the closest folder above that *)
(* stays (delete_document_tx, sqlite/documents.rs:654).                    *)
THEOREM AssetHopsAlways == Spec => AssetHopsToSurvivor
<1> DEFINE A == (filed \in DOMAIN docs /\ filed \notin DOMAIN docs' /\ tangled' = {}) =>
                  LET stays == Chain(Up(docs), filed) \cap (DOMAIN docs' \cup {Root})
                  IN filed' \in stays /\ stays \subseteq Chain(Up(docs), filed')
<1>1. IInv /\ [Next]_vars => [A]_vars
  <2> SUFFICES ASSUME IInv, Next, filed \in DOMAIN docs, filed \notin DOMAIN docs', tangled' = {},
                      NEW stays, stays = Chain(Up(docs), filed) \cap (DOMAIN docs' \cup {Root})
               PROVE  filed' \in stays /\ stays \subseteq Chain(Up(docs), filed')
    BY DEF vars
  <2>1. ASSUME tangled = {}, NEW n \in 1..MaxOps, NEW batch \in [1..n -> Ops],
               NEW who \in {"gm", "player"}, apply_intent(who, batch)
        PROVE  filed' \in stays /\ stays \subseteq Chain(Up(docs), filed')
    <3>1. PICK acc, ops, off, m, tb, fd, u : Intended(who, batch, n, acc, ops, off, m, tb, fd, u)
      BY <2>1, Intents
    <3>2. /\ docs' = tb[m] /\ filed' = fd[m] /\ tangled' = Tangles(ops)
          /\ Committed(who, batch, n, acc, ops, off, m, tb, fd)
      BY <3>1 DEF Intended
    <3>3. World
      BY <2>1, Untangled
    <3>4. DOMAIN ops = 1..m
      BY <3>2 DEF Committed
    <3>5. Once(ops, m) /\ ~Adopts(ops, m)
      BY <3>2, <3>4, TangleFacts
    <3>6. stays = Chain(Up(docs), filed) \cap (DOMAIN tb[m] \cup {Root})
      BY <3>2
    <3>7. fd[m] \in stays /\ stays \subseteq Chain(Up(docs), fd[m])
      BY <3>2, <3>3, <3>5, <3>6, AssetHops
    <3> QED BY <3>2, <3>7
  <2>2. ASSUME NEW folder \in Parents, FileAsset(folder) PROVE FALSE
    BY <2>2 DEF FileAsset
  <2> QED BY <2>1, <2>2 DEF Next
<1> QED BY <1>1, IntentInvariant, PTL DEF Spec, AssetHopsToSurvivor

-----------------------------------------------------------------------------
(* A token's move (MoveCommits).                                           *)

(* Arithmetic.                                                             *)
LEMMA MaxOfTwo ==
  ASSUME NEW a \in Int, NEW b \in Int
  PROVE  Max({a, b}) = IF a >= b THEN a ELSE b
<1> DEFINE m == IF a >= b THEN a ELSE b
<1>1. m \in {a, b} /\ \A y \in {a, b} : m >= y OBVIOUS
<1>2. \A x \in {a, b} : (\A y \in {a, b} : x >= y) => x = m BY <1>1
<1> HIDE DEF m
<1>3. QED BY <1>1, <1>2 DEF Max

LEMMA MinOfTwo ==
  ASSUME NEW a \in Int, NEW b \in Int
  PROVE  Min({a, b}) = IF a <= b THEN a ELSE b
<1> DEFINE m == IF a <= b THEN a ELSE b
<1>1. m \in {a, b} /\ \A y \in {a, b} : m <= y OBVIOUS
<1>2. \A x \in {a, b} : (\A y \in {a, b} : x <= y) => x = m BY <1>1
<1> HIDE DEF m
<1>3. QED BY <1>1, <1>2 DEF Min

LEMMA MinOfSet ==
  ASSUME NEW S \in SUBSET Nat, S # {}
  PROVE  Min(S) \in S
<1> DEFINE Less == {ss \in Nat \X Nat : ss[1] < ss[2]}
<1>1. IsWellFoundedOn(Less, Nat) BY NatLessThanWellFounded DEF OpToRel
<1> HIDE DEF Less
<1>2. PICK x \in S : \A y \in S : ~(<<y, x>> \in Less) BY <1>1, WFMin, ZenonT(30)
<1>3. ASSUME NEW y \in S PROVE x <= y
  <2>1. x \in Nat /\ y \in Nat /\ ~(<<y, x>> \in Less) BY <1>2
  <2>2. y < x => <<y, x>> \in Less BY <2>1 DEF Less
  <2>3. QED BY <2>1, <2>2
<1>4. QED BY <1>3 DEF Min

(* What regions leave a resource at is a resource.                         *)
LEMMA ClampIn ==
  ASSUME NEW n \in Int
  PROVE  Clamp(n) \in 0..Full
BY MoveAssumption, MinOfTwo, MaxOfTwo DEF Clamp

-----------------------------------------------------------------------------
(* A walk stays on the corridor, and costs no more than the budget it was  *)
(* resolved against.                                                       *)
LEMMA StepsFacts ==
  ASSUME MoveTypeOK, NEW to \in Floor, NEW gm \in BOOLEAN
  PROVE  /\ Steps(to, gm) \in Seq(Floor)
         /\ Held(gm) => Len(Steps(to, gm)) <= combat.left
<1> DEFINE cell == token.cell
           dir == IF to < cell THEN -1 ELSE 1
           n == (to - cell) * dir
           all == [i \in 1..n |-> cell + i * dir]
           k == Min({Len(all), resource_cells(gm)})
           paid == SubSeq(all, 1, k)
           held == IF gm THEN {} ELSE {i \in DOMAIN paid : Arrests(token.scene, paid[i])}
<1>1. /\ Size \in Nat /\ cell \in 0..Size - 1 /\ to \in 0..Size - 1
      /\ combat.left \in Nat
  BY MoveAssumption DEF MoveTypeOK, Floor
<1>2. n \in Nat /\ \A i \in 1..n : cell + i * dir \in 0..Size - 1
  <2>1. CASE to < cell
    <3>1. dir = -1 /\ n = cell - to BY <1>1, <2>1
    <3>2. QED BY <1>1, <2>1, <3>1
  <2>2. CASE ~(to < cell)
    <3>1. dir = 1 /\ n = to - cell BY <1>1, <2>2
    <3>2. QED BY <1>1, <2>2, <3>1
  <2>3. QED BY <2>1, <2>2
<1> HIDE DEF n, dir
<1>3. /\ Len(all) = n
      /\ \A i \in 1..n : all[i] \in Floor
  BY <1>2 DEF Floor
<1>4. resource_cells(gm) \in Nat /\ (Held(gm) => resource_cells(gm) = combat.left)
  BY <1>1 DEF resource_cells
<1> HIDE DEF all
<1>5. k \in Nat /\ k <= n /\ k <= resource_cells(gm)
  BY <1>2, <1>3, <1>4, MinOfTwo
<1> HIDE DEF k
<1>6. /\ paid \in Seq(Floor) /\ Len(paid) = k
      /\ DOMAIN paid = 1..k
      /\ \A i \in 1..k : paid[i] \in Floor
  <2>1. \A i \in 1..k : all[i] \in Floor BY <1>2, <1>3, <1>5
  <2>2. paid \in Seq(Floor) /\ Len(paid) = IF 1 <= k THEN k - 1 + 1 ELSE 0
    BY <1>5, <2>1, SubSeqProperties
  <2>3. QED BY <1>5, <2>2
<1> HIDE DEF paid
<1>7. held \in SUBSET (1..k) /\ held \in SUBSET Nat BY <1>5, <1>6
<1>8. Steps(to, gm) = IF held = {} THEN paid ELSE SubSeq(paid, 1, Min(held))
  BY DEF Steps, held, paid, k, all, n, dir
<1> HIDE DEF held
<1>9. CASE held = {}
  BY <1>4, <1>5, <1>6, <1>8, <1>9, <1>1
<1>10. CASE held # {}
  <2>1. Min(held) \in held BY <1>7, <1>10, MinOfSet
  <2>2. PICK h \in 1..k : h = Min(held) BY <1>7, <2>1
  <2>3. \A i \in 1..h : paid[i] \in Floor BY <1>5, <1>6, <2>2
  <2>4. SubSeq(paid, 1, h) \in Seq(Floor) /\ Len(SubSeq(paid, 1, h)) = h
    BY <1>5, <2>2, <2>3, SubSeqProperties
  <2>5. QED BY <1>1, <1>4, <1>5, <1>8, <1>10, <2>2, <2>4
<1>11. QED BY <1>9, <1>10

-----------------------------------------------------------------------------
(* What a portal leads to: nowhere, or to a cell of a scene of this world; *)
(* and after a hop, nowhere.                                               *)
LEMMA TakenFacts ==
  ASSUME MoveTypeOK, NEW e \in Taken
  PROVE  \/ e = None
         \/ e # None /\ e.scene \in Scenes /\ e.cell \in Floor /\ flight.hop
<1>1. CASE e = None BY <1>1
<1>2. CASE e # None
  <2>1. PICK r \in Fired("teleport") : e = r.effect /\ flight.hop /\ e.scene \in Scenes
    BY <1>2 DEF Taken
  <2>2. r \in world.regions /\ r.effect.is = "teleport"
    BY <2>1 DEF Fired, fired_triggers
  <2>3. world \in Corridors BY DEF MoveTypeOK
  <2>4. e.cell \in Floor BY <2>1, <2>2, <2>3, MoveAssumption
  <2>5. QED BY <1>2, <2>1, <2>4
<1>3. QED BY <1>1, <1>2

LEMMA ResourcedIn ==
  ASSUME MoveTypeOK
  PROVE  Resourced \in 0..Full
<1>1. world \in Corridors /\ combat.left \in 0..Full BY DEF MoveTypeOK
<1>2. Fired("resource") \in SUBSET {r \in world.regions : r.effect.is = "resource"}
  BY DEF Fired, fired_triggers
<1>3. DeltaOf(Fired("resource")) \in Int BY <1>1, <1>2, DeltaAssumption
<1>4. PICK d \in Int : d = DeltaOf(Fired("resource")) BY <1>3
<1>5. combat.left + d \in Int BY <1>1, MoveAssumption
<1>6. Clamp(combat.left + d) \in 0..Full BY <1>5, ClampIn
<1>7. QED BY <1>1, <1>4, <1>6 DEF Resourced

-----------------------------------------------------------------------------
(* The strengthening.  While the walk is committed and its cost is not,    *)
(* the budget is owed the cost; and a move that may still hop has not.     *)
Owed == IF flight.gated THEN Max({flight.had - flight.cost, 0}) ELSE combat.left
BudgetInv ==
  world.enforcement = "hard" /\ ~ledger.unpaid =>
    /\ flight.is = "moved" /\ flight.gated => flight.had = combat.left
    /\ ledger.paced + (IF flight.is = "moved" THEN Owed ELSE combat.left)
         <= Full + ledger.granted

HopInv ==
  /\ ledger.hops <= 1
  /\ flight.is \in {"moved", "fire"} /\ flight.hop => ledger.hops = 0

MoveInv == MoveTypeOK /\ BudgetInv /\ HopInv

LEMMA InitMove == MoveInit => MoveInv
<1> SUFFICES ASSUME MoveInit PROVE MoveInv
  OBVIOUS
<1>1. 0 \in Floor BY MoveAssumption DEF Floor
<1>2. MoveTypeOK BY <1>1, MoveAssumption DEF MoveInit, MoveTypeOK, Ledger, Scenes
<1>3. BudgetInv /\ HopInv BY MoveAssumption DEF MoveInit, BudgetInv, HopInv, None
<1>4. QED BY <1>2, <1>3 DEF MoveInv

(* A player's walk: what it walked is owed, out of what it had.            *)
LEMMA WalkMove ==
  ASSUME MoveInv, NEW gm \in BOOLEAN, NEW to \in Floor, execute_move(gm, to)
  PROVE  MoveInv'
<1>1. MoveTypeOK /\ BudgetInv /\ HopInv BY DEF MoveInv
<1>2. PICK entered \in Seq(Floor) :
        /\ entered = Steps(to, gm) /\ entered # <<>>
        /\ Held(gm) => Len(entered) <= combat.left
  BY <1>1, StepsFacts DEF execute_move
<1>3. PICK cost \in Nat : cost = Len(entered) /\ cost >= 1 BY <1>2, EmptySeq
<1>4. PICK stop \in Floor : stop = Last(entered) BY <1>2, <1>3, ElementOfSeq DEF Last
<1>5. PICK over \in SUBSET Floor : over = Range(entered)
  <2>1. DOMAIN entered = 1..Len(entered) /\ \A i \in 1..Len(entered) : entered[i] \in Floor
    BY <1>2, ElementOfSeq
  <2>2. Range(entered) \subseteq Floor BY <2>1 DEF Range
  <2>3. QED BY <2>2
<1>6. PICK arrest \in BOOLEAN : arrest = (~gm /\ Arrests(token.scene, stop)) OBVIOUS
<1>7. PICK gated \in BOOLEAN : gated = Gated BY DEF Gated
<1>8. PICK left \in Nat : left = combat.left BY <1>1, MoveAssumption DEF MoveTypeOK
<1>9. /\ token' = [token EXCEPT !.cell = stop]
      /\ flight' = [is |-> "moved", scene |-> token.scene, entered |-> over,
                    arrest |-> arrest, gated |-> gated,
                    had |-> left, cost |-> cost, hop |-> TRUE, walk |-> TRUE]
      /\ ledger' = [ledger EXCEPT !.moves = @ + 1, !.hops = 0,
                                  !.paced = IF Held(gm) THEN @ + cost ELSE @]
      /\ flight = None
      /\ UNCHANGED <<world, combat, advance, moving, clock>>
  BY <1>2, <1>3, <1>4, <1>5, <1>6, <1>7, <1>8 DEF execute_move
<1>10. MoveTypeOK'
  <2>1. flight' \in Flights BY <1>1, <1>9 DEF MoveTypeOK, Flights
  <2>2. token' \in [scene : Scenes, cell : Floor] BY <1>1, <1>9 DEF MoveTypeOK
  <2>3. ledger' \in Ledger
    <3>1. ledger \in Ledger BY <1>1 DEF MoveTypeOK
    <3>2. PICK n \in Nat : n = ledger.moves + 1 BY <3>1 DEF Ledger
    <3>3. PICK paced \in Nat : paced = IF Held(gm) THEN ledger.paced + cost ELSE ledger.paced
      BY <3>1 DEF Ledger
    <3>4. ledger' = [ledger EXCEPT !.moves = n, !.hops = 0, !.paced = paced]
      BY <1>9, <3>2, <3>3
    <3>5. QED BY <3>1, <3>4 DEF Ledger
  <2>4. QED BY <1>1, <1>9, <2>1, <2>2, <2>3 DEF MoveTypeOK
<1>11. HopInv' BY <1>1, <1>9 DEF HopInv, MoveTypeOK
<1>12. BudgetInv'
  <2> SUFFICES ASSUME world.enforcement = "hard", ~ledger.unpaid
               PROVE  /\ left = combat.left
                      /\ ledger.paced' + (IF gated THEN Max({left - cost, 0}) ELSE left)
                           <= Full + ledger.granted'
    BY <1>1, <1>8, <1>9 DEF BudgetInv, Owed, MoveTypeOK
  <2>1. ledger.paced + left <= Full + ledger.granted
    BY <1>1, <1>8, <1>9 DEF BudgetInv, None
  <2>2. /\ ledger.paced \in Nat /\ ledger.granted \in Nat /\ Full \in Nat
        /\ ledger.granted' = ledger.granted
        /\ ledger'.paced = IF Held(gm) THEN ledger.paced + cost ELSE ledger.paced
    BY <1>1, <1>9, MoveAssumption DEF MoveTypeOK, Ledger
  <2>3. PICK rest \in Nat :
          /\ rest = Max({left - cost, 0})
          /\ rest <= left /\ (cost <= left => rest = left - cost)
    <3>1. Max({left - cost, 0}) = IF left - cost >= 0 THEN left - cost ELSE 0 BY MaxOfTwo
    <3>2. QED BY <3>1
  <2>4. CASE Held(gm)
    <3>1. gated /\ cost <= left BY <1>2, <1>3, <1>7, <1>8, <2>4 DEF Held
    <3>2. QED BY <1>8, <2>1, <2>2, <2>3, <2>4, <3>1
  <2>5. CASE ~Held(gm)
    <3>1. ledger'.paced = ledger.paced BY <2>2, <2>5
    <3>2. ledger.paced + rest <= Full + ledger.granted BY <2>1, <2>2, <2>3
    <3>3. CASE gated BY <1>8, <2>2, <2>3, <3>1, <3>2, <3>3
    <3>4. CASE ~gated BY <1>8, <2>1, <2>2, <3>1, <3>4
    <3>5. QED BY <3>3, <3>4
  <2>6. QED BY <2>4, <2>5
<1>13. QED BY <1>10, <1>11, <1>12 DEF MoveInv

(* The cost is charged at the resource the budget was resolved from, or    *)
(* the failure leaves it unpaid.                                           *)
LEMMA SpendMove ==
  ASSUME MoveInv, spend_budget
  PROVE  MoveInv'
<1>1. /\ MoveTypeOK /\ BudgetInv /\ HopInv
      /\ flight.is = "moved" /\ flight \in Flights
      /\ flight' = [flight EXCEPT !.is = "fire"]
      /\ UNCHANGED <<world, token, advance, moving, clock>>
  BY DEF MoveInv, spend_budget, MoveTypeOK, None
<1>2. /\ flight' \in Flights /\ flight'.is = "fire" /\ flight'.hop = flight.hop
  BY <1>1 DEF Flights
<1>3. PICK had \in Nat, cost \in Nat, left \in Nat :
        had = flight.had /\ cost = flight.cost /\ left = combat.left
  BY <1>1, MoveAssumption DEF Flights, MoveTypeOK
<1>4. Max({had - cost, 0}) = IF had >= cost THEN had - cost ELSE 0 BY MaxOfTwo
<1>5. PICK rest \in Nat : rest = Max({had - cost, 0}) /\ rest <= had BY <1>3, <1>4
<1>6. ledger.paced \in Nat /\ ledger.granted \in Nat /\ Full \in Nat
  BY <1>1, MoveAssumption DEF MoveTypeOK, Ledger
<1>7. CASE flight.gated /\ combat.left = flight.had /\ combat' = Charged /\ UNCHANGED ledger
  <2>1. combat' = [combat EXCEPT !.left = rest]
    BY <1>3, <1>5, <1>7 DEF Charged, Decrement, Spend
  <2>2. rest \in 0..Full BY <1>1, <1>3, <1>5, <1>6, <1>7 DEF MoveTypeOK
  <2>3. MoveTypeOK' BY <1>1, <1>2, <1>7, <2>1, <2>2 DEF MoveTypeOK
  <2>4. HopInv' BY <1>1, <1>2, <1>7 DEF HopInv
  <2>5. combat'.left = rest BY <1>1, <2>1 DEF MoveTypeOK
  <2>6. BudgetInv'
    BY <1>1, <1>2, <1>3, <1>5, <1>7, <2>5 DEF BudgetInv, Owed
  <2>7. QED BY <2>3, <2>4, <2>6 DEF MoveInv
<1>8. CASE ledger' = Unspent /\ UNCHANGED combat
  <2>1. ledger'.unpaid = TRUE /\ ledger'.hops = ledger.hops
    BY <1>1, <1>8 DEF MoveTypeOK, Unspent
  <2>2. ledger' \in Ledger
    <3>1. ledger \in Ledger BY <1>1 DEF MoveTypeOK
    <3>2. PICK n \in Nat : n = ledger.failures + 1 BY <3>1 DEF Ledger
    <3>3. ledger' = [ledger EXCEPT !.failures = n, !.unpaid = TRUE] BY <1>8, <3>2 DEF Unspent
    <3>4. QED BY <3>1, <3>3 DEF Ledger
  <2>3. MoveTypeOK' BY <1>1, <1>2, <1>8, <2>2 DEF MoveTypeOK
  <2>4. HopInv' BY <1>1, <1>2, <2>1 DEF HopInv
  <2>5. BudgetInv' BY <2>1 DEF BudgetInv
  <2>6. QED BY <2>3, <2>4, <2>5 DEF MoveInv
<1>9. CASE ~flight.gated /\ UNCHANGED <<combat, ledger>>
  <2>1. MoveTypeOK' BY <1>1, <1>2, <1>9 DEF MoveTypeOK
  <2>2. HopInv' BY <1>1, <1>2, <1>9 DEF HopInv
  <2>3. BudgetInv' BY <1>1, <1>2, <1>9 DEF BudgetInv, Owed
  <2>4. QED BY <2>1, <2>2, <2>3 DEF MoveInv
<1>10. QED BY <1>7, <1>8, <1>9 DEF spend_budget

(* Regions give what they add, which is granted, and hop once.             *)
LEMMA FireMove ==
  ASSUME MoveInv, fire_region_triggers
  PROVE  MoveInv'
<1>1. /\ MoveTypeOK /\ BudgetInv /\ HopInv
      /\ flight.is = "fire" /\ flight \in Flights
      /\ UNCHANGED <<world, advance, moving, clock>>
  BY DEF MoveInv, fire_region_triggers, MoveTypeOK, None
<1>2. Done \in Flights /\ Done.is = "done" BY <1>1 DEF Done, Flights
<1>3. PICK left \in 0..Full, now \in 0..Full :
        left = combat.left /\ now = Resourced
  BY <1>1, ResourcedIn DEF MoveTypeOK
<1>4. ledger.paced \in Nat /\ ledger.granted \in Nat /\ Full \in Nat /\ ledger.hops \in Nat
  BY <1>1, MoveAssumption DEF MoveTypeOK, Ledger
<1>5. ASSUME flight' = Done, UNCHANGED <<token, combat>>,
             \/ UNCHANGED ledger
             \/ ledger' = [ledger EXCEPT !.failures = @ + 1]
      PROVE  MoveInv'
  <2>1. /\ ledger' \in Ledger
        /\ ledger'.hops = ledger.hops /\ ledger'.paced = ledger.paced
        /\ ledger'.granted = ledger.granted /\ ledger'.unpaid = ledger.unpaid
    BY <1>1, <1>5 DEF MoveTypeOK, Ledger
  <2>2. MoveTypeOK' BY <1>1, <1>2, <1>5, <2>1 DEF MoveTypeOK
  <2>3. HopInv' BY <1>1, <1>2, <1>5, <2>1 DEF HopInv
  <2>4. BudgetInv' BY <1>1, <1>2, <1>5, <2>1 DEF BudgetInv
  <2>5. QED BY <2>2, <2>3, <2>4 DEF MoveInv
<1>6. ASSUME NEW e \in Taken, Effects(e) PROVE MoveInv'
  <2>1. e = None \/ (e # None /\ e.scene \in Scenes /\ e.cell \in Floor /\ flight.hop)
    BY <1>1, TakenFacts
  <2>2. PICK given \in Nat : given = Max({0, now - left}) /\ now - left <= given
    <3>1. Max({0, now - left}) = IF 0 >= now - left THEN 0 ELSE now - left
      BY <1>3, <1>4, MaxOfTwo
    <3>2. QED BY <1>3, <1>4, <3>1
  <2>3. /\ combat' = [combat EXCEPT !.left = now]
        /\ flight' = IF e = None THEN Done ELSE Refire(e)
        /\ ledger' = [ledger EXCEPT !.granted = @ + given, !.hops = IF e = None THEN @ ELSE @ + 1]
    BY <1>3, <1>6, <2>2 DEF Effects
  <2>4. /\ combat'.left = now
        /\ combat' \in [turn : {"mine", "theirs"}, round : Nat, left : 0..Full]
    BY <1>1, <1>3, <2>3 DEF MoveTypeOK
  <2>5. /\ token' \in [scene : Scenes, cell : Floor]
        /\ flight' \in Flights /\ flight'.is # "moved"
        /\ flight'.is = "fire" => ~flight'.hop
    <3>1. CASE e = None
      BY <1>1, <1>2, <1>6, <2>3, <3>1 DEF Effects, MoveTypeOK
    <3>2. CASE e # None
      <4>1. token' = [scene |-> e.scene, cell |-> e.cell] BY <1>6, <3>2 DEF Effects
      <4>2. flight' = [[flight EXCEPT !.hop = FALSE] EXCEPT !.scene = e.scene, !.entered = {e.cell}, !.arrest = FALSE]
        BY <2>3, <3>2 DEF Refire, AfterHop, OneHop
      <4>3. QED BY <1>1, <2>1, <3>2, <4>1, <4>2 DEF Flights
    <3>3. QED BY <3>1, <3>2
  <2>6. PICK hops \in Nat : hops = ledger'.hops /\ hops <= 1
    <3>1. CASE e = None BY <1>1, <1>4, <2>3, <3>1 DEF HopInv, MoveTypeOK
    <3>2. CASE e # None
      <4>1. ledger.hops = 0 BY <1>1, <2>1, <3>2 DEF HopInv
      <4>2. ledger'.hops = 1 BY <1>1, <2>3, <3>2, <4>1 DEF MoveTypeOK
      <4>3. QED BY <4>2
    <3>3. QED BY <3>1, <3>2
  <2>7. /\ ledger' \in Ledger
        /\ ledger'.paced = ledger.paced /\ ledger'.unpaid = ledger.unpaid
        /\ ledger'.granted = ledger.granted + given
    <3>1. ledger \in Ledger BY <1>1 DEF MoveTypeOK
    <3>2. PICK n \in Nat : n = ledger.granted + given BY <3>1 DEF Ledger
    <3>3. PICK h \in Nat : h = IF e = None THEN ledger.hops ELSE ledger.hops + 1
      BY <3>1 DEF Ledger
    <3>4. ledger' = [ledger EXCEPT !.granted = n, !.hops = h] BY <2>3, <3>2, <3>3
    <3>5. QED BY <3>1, <3>2, <3>4 DEF Ledger
  <2>8. MoveTypeOK' BY <1>1, <2>4, <2>5, <2>7 DEF MoveTypeOK
  <2>9. HopInv' BY <2>5, <2>6 DEF HopInv
  <2>10. BudgetInv'
    <3> SUFFICES ASSUME world.enforcement = "hard", ~ledger.unpaid
                 PROVE  ledger.paced' + now <= Full + ledger.granted'
      BY <1>1, <2>4, <2>5, <2>7 DEF BudgetInv
    <3>1. ledger.paced + left <= Full + ledger.granted BY <1>1, <1>3 DEF BudgetInv
    <3>2. QED BY <1>3, <1>4, <2>2, <2>7, <3>1
  <2>11. QED BY <2>8, <2>9, <2>10 DEF MoveInv
<1>7. QED BY <1>5, <1>6 DEF fire_region_triggers

(* A turn that comes back finds the ledger blank and the resource within   *)
(* its maximum; one that passes away changes no resource.                  *)
LEMMA AdvanceMove ==
  ASSUME MoveInv, CommitAdvance
  PROVE  MoveInv'
<1>1. /\ MoveTypeOK /\ BudgetInv /\ HopInv
      /\ flight = None /\ UNCHANGED <<world, token, flight, moving, clock>>
  BY DEF MoveInv, CommitAdvance
<1>2. CASE UNCHANGED <<combat, ledger>>
  BY <1>1, <1>2 DEF MoveInv, MoveTypeOK, BudgetInv, HopInv, Owed
<1>3. CASE ~Conflicts /\ ~UNCHANGED <<combat, ledger>>
  <2>1. /\ combat' = [turn |-> IF advance.turn = "mine" THEN "theirs" ELSE "mine",
                      round |-> combat.round + 1,
                      left |-> IF Recovers THEN Full ELSE combat.left]
        /\ ledger' = IF combat'.turn = "mine" THEN [ledger EXCEPT !.paced = 0, !.granted = 0]
                     ELSE ledger
        /\ advance.turn = combat.turn
    BY <1>3 DEF CommitAdvance, Conflicts
  <2>2. combat.left \in 0..Full /\ combat.round \in Nat /\ Full \in Nat
    BY <1>1, MoveAssumption DEF MoveTypeOK
  <2>3. combat' \in [turn : {"mine", "theirs"}, round : Nat, left : 0..Full]
    BY <2>1, <2>2
  <2>4. /\ ledger' \in Ledger
        /\ ledger'.hops = ledger.hops /\ ledger'.unpaid = ledger.unpaid
    BY <1>1, <2>1 DEF MoveTypeOK, Ledger
  <2>5. MoveTypeOK' BY <1>1, <2>3, <2>4 DEF MoveTypeOK
  <2>6. HopInv' BY <1>1, <2>4 DEF HopInv
  <2>7. CASE advance.turn = "mine"
    <3>1. combat'.left = combat.left /\ ledger' = ledger BY <2>1, <2>7 DEF Recovers
    <3>2. BudgetInv' BY <1>1, <3>1 DEF BudgetInv, Owed, None
    <3>3. QED BY <2>5, <2>6, <3>2 DEF MoveInv
  <2>8. CASE advance.turn # "mine"
    <3>1. ledger'.paced = 0 /\ ledger'.granted = 0 BY <1>1, <2>1, <2>8 DEF MoveTypeOK
    <3>2. combat'.left \in 0..Full BY <2>3
    <3>3. BudgetInv' BY <1>1, <2>2, <3>1, <3>2 DEF BudgetInv, None
    <3>4. QED BY <2>5, <2>6, <3>3 DEF MoveInv
  <2>9. QED BY <2>7, <2>8
<1>4. QED BY <1>2, <1>3 DEF CommitAdvance

(* The other steps commit no walk and touch no resource.                   *)
LEMMA OtherMoves ==
  ASSUME MoveInv,
         \/ Finish \/ LoadAdvance \/ Tick \/ Crash \/ UNCHANGED moveVars
         \/ \E c \in Floor : fire_placement_triggers(c)
  PROVE  MoveInv'
<1>1. MoveTypeOK /\ BudgetInv /\ HopInv BY DEF MoveInv
<1>2. CASE Finish
  <2>1. flight' = None /\ UNCHANGED <<world, token, combat, clock, ledger>> /\ flight.is = "done"
    BY <1>2 DEF Finish
  <2>2. moving' \in Nat BY <1>1, <1>2, MoveAssumption DEF Finish, MoveTypeOK
  <2>3. MoveTypeOK' BY <1>1, <2>1, <2>2 DEF MoveTypeOK
  <2>4. HopInv' BY <1>1, <2>1 DEF HopInv, None
  <2>5. BudgetInv' BY <1>1, <2>1 DEF BudgetInv, None
  <2>6. QED BY <2>3, <2>4, <2>5 DEF MoveInv
<1>3. CASE LoadAdvance
  BY <1>1, <1>3 DEF LoadAdvance, MoveInv, MoveTypeOK, BudgetInv, HopInv, Owed
<1>4. CASE Tick
  BY <1>1, <1>4 DEF Tick, MoveInv, MoveTypeOK, BudgetInv, HopInv, Owed
<1>5. CASE UNCHANGED moveVars
  BY <1>1, <1>5 DEF moveVars, MoveInv, MoveTypeOK, BudgetInv, HopInv, Owed
<1>6. CASE Crash
  <2>1. /\ flight' = None /\ moving' = 0 /\ UNCHANGED <<world, token, combat, clock>>
        /\ ledger' = [ledger EXCEPT !.failures = @ + 1, !.unpaid = @ \/ flight.is = "moved"]
    BY <1>6 DEF Crash
  <2>2. /\ ledger' \in Ledger
        /\ ledger'.hops = ledger.hops /\ ledger'.paced = ledger.paced
        /\ ledger'.granted = ledger.granted
    <3>1. ledger \in Ledger BY <1>1 DEF MoveTypeOK
    <3>2. PICK n \in Nat : n = ledger.failures + 1 BY <3>1 DEF Ledger
    <3>3. PICK u \in BOOLEAN : u = (ledger.unpaid \/ flight.is = "moved") OBVIOUS
    <3>4. ledger' = [ledger EXCEPT !.failures = n, !.unpaid = u] BY <2>1, <3>2, <3>3
    <3>5. QED BY <3>1, <3>4 DEF Ledger
  <2>3. ~ledger'.unpaid => ~ledger.unpaid /\ flight.is # "moved"
    BY <1>1, <2>1 DEF MoveTypeOK, Ledger
  <2>4. MoveTypeOK' BY <1>1, <2>1, <2>2 DEF MoveTypeOK
  <2>5. HopInv' BY <1>1, <2>1, <2>2 DEF HopInv, None
  <2>6. BudgetInv' BY <1>1, <2>1, <2>2, <2>3 DEF BudgetInv, None
  <2>7. QED BY <2>4, <2>5, <2>6 DEF MoveInv
<1>7. ASSUME NEW c \in Floor, fire_placement_triggers(c) PROVE MoveInv'
  <2>1. /\ flight = None
        /\ token' = [token EXCEPT !.cell = c]
        /\ flight' = [is |-> "fire", scene |-> token.scene, entered |-> {c}, arrest |-> FALSE,
                      gated |-> FALSE, had |-> 0, cost |-> 0, hop |-> TRUE, walk |-> FALSE]
        /\ ledger' = [ledger EXCEPT !.moves = @ + 1, !.hops = 0]
        /\ UNCHANGED <<world, combat, advance, moving, clock>>
    BY <1>7 DEF fire_placement_triggers
  <2>2. flight' \in Flights /\ flight'.is = "fire" BY <1>1, <2>1 DEF MoveTypeOK, Flights
  <2>3. token' \in [scene : Scenes, cell : Floor] BY <1>1, <2>1 DEF MoveTypeOK
  <2>4. /\ ledger' \in Ledger
        /\ ledger'.hops = 0 /\ ledger'.paced = ledger.paced
        /\ ledger'.granted = ledger.granted /\ ledger'.unpaid = ledger.unpaid
    <3>1. ledger \in Ledger BY <1>1 DEF MoveTypeOK
    <3>2. PICK n \in Nat : n = ledger.moves + 1 BY <3>1 DEF Ledger
    <3>3. ledger' = [ledger EXCEPT !.moves = n, !.hops = 0] BY <2>1, <3>2
    <3>4. QED BY <3>1, <3>3 DEF Ledger
  <2>5. MoveTypeOK' BY <1>1, <2>1, <2>2, <2>3, <2>4 DEF MoveTypeOK
  <2>6. HopInv' BY <2>4 DEF HopInv
  <2>7. BudgetInv' BY <1>1, <2>1, <2>2, <2>4 DEF BudgetInv, None
  <2>8. QED BY <2>5, <2>6, <2>7 DEF MoveInv
<1>8. QED BY <1>2, <1>3, <1>4, <1>5, <1>6, <1>7

-----------------------------------------------------------------------------
(* Every state is well typed, the budget accounted for and the hop single. *)
THEOREM MoveInvariant == MoveSpec => []MoveInv
<1>1. MoveInit => MoveInv BY InitMove
<1>2. MoveInv /\ [MoveNext]_moveVars => MoveInv'
  <2> SUFFICES ASSUME MoveInv, [MoveNext]_moveVars PROVE MoveInv'
    OBVIOUS
  <2>1. CASE \E gm \in BOOLEAN, to \in Floor : execute_move(gm, to) BY <2>1, WalkMove
  <2>2. CASE spend_budget BY <2>2, SpendMove
  <2>3. CASE fire_region_triggers BY <2>3, FireMove
  <2>4. CASE CommitAdvance BY <2>4, AdvanceMove
  <2>5. CASE \/ Finish \/ LoadAdvance \/ Tick \/ Crash \/ UNCHANGED moveVars
             \/ \E c \in Floor : fire_placement_triggers(c)
    BY <2>5, OtherMoves
  <2>6. QED BY <2>1, <2>2, <2>3, <2>4, <2>5 DEF MoveNext
<1>3. QED BY <1>1, <1>2, PTL DEF MoveSpec

(* Under hard enforcement no player ever walks further in a turn than its  *)
(* resource and the regions paid for (BudgetKept, room.rs:1876).           *)
THEOREM BudgetKeptAlways == MoveSpec => []BudgetKept
<1>1. MoveInv => BudgetKept BY DEF MoveInv, BudgetInv, BudgetKept, None
<1>2. QED BY <1>1, MoveInvariant, PTL

(* Portals pass a token on once per move (HopsOnce, room.rs:2513).         *)
THEOREM HopsOnceAlways == MoveSpec => []HopsOnce
<1>1. MoveInv => HopsOnce BY DEF MoveInv, HopInv, HopsOnce
<1>2. QED BY <1>1, MoveInvariant, PTL

(* Moves, charges, hops and turns keep the state well typed.               *)
THEOREM MoveTyped == MoveSpec => []MoveTypeOK
<1>1. MoveInv => MoveTypeOK BY DEF MoveInv
<1>2. QED BY <1>1, MoveInvariant, PTL
=============================================================================
