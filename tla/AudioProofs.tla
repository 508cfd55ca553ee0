---------------------------- MODULE AudioProofs ----------------------------
(***************************************************************************)
(* Proofs about AudioTransport, for any playlists, sessions, operations    *)
(* and lengths of a game: no track is cut short, an ambience leaves with   *)
(* its scene, a shuffle repeats nothing and a reported end advances.       *)
(*   - the two folds, unrolled: retain, and the permutation of a seed;     *)
(*   - a walk through a shuffled playlist follows one cycle (Follows);     *)
(*   - what an operation makes of an entry and of its history (Told);      *)
(*   - the inductive invariant (AudioInv), and the theorems.               *)
(***************************************************************************)
EXTENDS AudioTransport, WellFoundedInduction, SequenceTheorems, TLAPS

-----------------------------------------------------------------------------
(* The inductive invariant.                                                *)

IsSeq(s) == s \in Seq(Range(s))

Settings ==
  /\ DOMAIN lists = DOMAIN Lists
  /\ \A p \in DOMAIN Lists : lists[p] = Gone \/ IsPlaylist(lists[p])
  /\ DOMAIN ambience = Scenes
  /\ \A s \in Scenes : ambience[s] \in DOMAIN Lists \cup {None}
  /\ active \in Scenes \cup {None}

EntryFields == {"id", "playlist", "index", "asset", "loop", "channel", "started", "paused"}
EntryOK(e, n) ==
  /\ DOMAIN e = EntryFields
  /\ e.id \in Nat /\ e.id <= n
  /\ e.playlist \in DOMAIN Lists \cup {None}
  /\ e.index # Nowhere
  /\ e.started \in Int /\ e.paused \in Int

(* The entries of a document that has minted n ids: each id is used once.  *)
PlayingOK(playing, n) ==
  /\ IsSeq(playing)
  /\ \A k \in DOMAIN playing : EntryOK(playing[k], n)
  /\ \A j, k \in DOMAIN playing : playing[j].id = playing[k].id => j = k

AudioOK(a) ==
  /\ DOMAIN a = {"playing", "seed", "ids"}
  /\ a.seed \in Seeds /\ a.ids \in Nat
  /\ PlayingOK(a.playing, a.ids)

AskedOK ==
  /\ clock \in Nat /\ DOMAIN asked = Gms \cup Listeners
  /\ \A c \in Gms \cup Listeners :
       /\ DOMAIN asked[c] = {"op", "now"}
       /\ Now(c) \in Nat /\ Now(c) <= clock
       /\ Waits(c, "play") => IsPlay(Op(c))
       /\ Waits(c, "seek") => Op(c).position \in Nat
       /\ Waits(c, "active") => Op(c).scene \in Scenes \cup {None}

(* A session knows no id that is still to be minted.                       *)
TabOK ==
  /\ DOMAIN tab = Listeners
  /\ \A c \in Listeners :
       /\ DOMAIN tab[c] = {"view", "ended"}
       /\ \A k \in DOMAIN tab[c].view : tab[c].view[k].id \in Nat /\ tab[c].view[k].id <= audio.ids
       /\ \A id \in tab[c].ended : id \in Nat /\ id <= audio.ids

(* A walk of more than one step through the order of a seed, from place p  *)
(* on and around; its first step may be a track an edit has taken away.    *)
Turn(x, n) == IF x <= n THEN x ELSE x - n
Follows(walk, p, order, n) ==
  /\ Len(walk) <= n
  /\ walk[1] = order[p] \/ (walk[1] \notin 1..n /\ p = 1)
  /\ \A k \in 2..Len(walk) : walk[k] = order[Turn(p + k - 1, n)]
InOrder(list, seed, walk) ==
  LET n == Len(list.tracks)
  IN \E p \in 1..n : Follows(walk, p, seeded_permutation(n, seed), n)
Walked(playlist, seed, walk) ==
  playlist # None /\ lists[playlist].mode = "shuffle" /\ Len(walk) > 1 =>
    InOrder(lists[playlist], seed, walk)

Scened(from, playlist, scene) ==
  spoiled \/ from = None \/ (from = scene /\ scene # None /\ playlist = ambience[scene] /\ playlist # None)

(* What the history says of an entry, and of those of a document.          *)
Told(e, h, seed) ==
  /\ DOMAIN h = {"from", "heard", "walk"}
  /\ h.heard \in Int /\ h.heard >= Elapsed(e, clock)
  /\ IsSeq(h.walk) /\ h.walk # <<>> /\ Last(h.walk) = e.index
  /\ Walked(e.playlist, seed, h.walk)
AllTold(a, h, scene) ==
  /\ DOMAIN h = Ids(a.playing)
  /\ \A k \in DOMAIN a.playing :
       LET e == a.playing[k]
       IN Told(e, h[e.id], a.seed) /\ Scened(h[e.id].from, e.playlist, scene)

AudioInv ==
  /\ Settings /\ AudioOK(audio) /\ AskedOK /\ TabOK /\ AllTold(audio, history, active)
  /\ EndAdvancesUnlessMissed

-----------------------------------------------------------------------------
(* Induction, without an operator as its parameter: over a set of          *)
(* naturals.                                                               *)

LEMMA NatInd ==
  ASSUME NEW S, 0 \in S, \A n \in Nat : n \in S => n + 1 \in S
  PROVE Nat \subseteq S
<1> SUFFICES ASSUME {n \in Nat : n \notin S} # {} PROVE FALSE
  OBVIOUS
<1>1. PICK T \in SUBSET Nat : T = {n \in Nat : n \notin S}
  OBVIOUS
<1>2. IsWellFoundedOn({p \in Nat \X Nat : p[1] < p[2]}, Nat)
  BY NatLessThanWellFounded DEF OpToRel
<1>3. PICK R : R = {p \in Nat \X Nat : p[1] < p[2]}
  OBVIOUS
<1>4. PICK x \in T : \A y \in T : ~(<<y, x>> \in R)
  BY <1>1, <1>2, <1>3, WFMin
<1>5. \A y \in T : ~(y < x)
  BY <1>1, <1>3, <1>4
<1>6. x \in Nat /\ x # 0 /\ x - 1 \in Nat /\ x - 1 \notin T
  BY <1>1, <1>5
<1> QED BY <1>1, <1>6

LEMMA UpTo ==
  ASSUME NEW k \in Nat
  PROVE  /\ 1..k + 1 # {} /\ Max(1..k + 1) = k + 1
         /\ (1..k + 1) \ {k + 1} = 1..k
         /\ \A s \in SUBSET (1..k + 1) : k + 1 \in s => Max(s) = k + 1
<1>1. ASSUME NEW s \in SUBSET (1..k + 1), k + 1 \in s PROVE Max(s) = k + 1
  <2>1. \A y \in s : k + 1 >= y
    BY <1>1
  <2>2. \A x \in s : (\A y \in s : x >= y) => x = k + 1
    BY <1>1
  <2> QED BY <1>1, <2>1, <2>2 DEF Max
<1>2. k + 1 \in 1..k + 1 /\ 1..k + 1 \in SUBSET (1..k + 1)
  OBVIOUS
<1> QED BY <1>1, <1>2

(* The two folds, unrolled: the values each passes through.                *)

LEMMA RetainUnrolled ==
  ASSUME NEW playing, NEW gone, IsSeq(playing)
  PROVE  \E it : /\ it[0] = <<>> /\ it[Len(playing)] = retain(playing, gone)
                 /\ \A k \in Nat : k + 1 <= Len(playing) => it[k + 1] = IF playing[k + 1].id \in gone THEN it[k] ELSE Append(it[k], playing[k + 1])
<1> DEFINE Step(out, x) == IF x.id \in gone THEN out ELSE Append(out, x)
           Iter(h, k) == h = [s \in SUBSET (1..k) |->
             IF s = {} THEN <<>> ELSE Step(h[s \ {Max(s)}], playing[Max(s)])]
<1>1. PICK m \in Nat : m = Len(playing) /\ DOMAIN playing = 1..m
  BY DEF IsSeq
<1>2. retain(playing, gone) = (CHOOSE h : Iter(h, m))[1..m]
  BY <1>1, Zenon DEF retain, FoldLeft, MapThenFoldSet
<1> HIDE DEF Step
<1>3. ASSUME NEW k \in Nat, NEW h, Iter(h, k) PROVE \E g : Iter(g, k + 1)
  <2> DEFINE g == [s \in SUBSET (1..k + 1) |->
        IF k + 1 \in s THEN Step(h[s \ {k + 1}], playing[k + 1]) ELSE h[s]]
  <2>1. ASSUME NEW s \in SUBSET (1..k + 1)
        PROVE  g[s] = IF s = {} THEN <<>> ELSE Step(g[s \ {Max(s)}], playing[Max(s)])
    <3>1. CASE k + 1 \in s
      <4>1. Max(s) = k + 1 /\ s # {} /\ s \ {k + 1} \in SUBSET (1..k)
        BY <3>1, UpTo
      <4>2. s \ {k + 1} \in SUBSET (1..k + 1) /\ k + 1 \notin s \ {k + 1}
        OBVIOUS
      <4>3. g[s \ {k + 1}] = h[s \ {k + 1}]
        BY <4>2
      <4> QED BY <3>1, <4>1, <4>3
    <3>2. CASE k + 1 \notin s
      <4>1. s \in SUBSET (1..k) /\ s \ {Max(s)} \in SUBSET (1..k) /\ k + 1 \notin s \ {Max(s)}
        <5>1. \A x \in s : x \in 1..k
          BY <3>2
        <5> QED BY <3>2, <5>1
      <4>2. s \ {Max(s)} \in SUBSET (1..k + 1)
        OBVIOUS
      <4>3. g[s] = h[s] /\ g[s \ {Max(s)}] = h[s \ {Max(s)}]
        BY <3>2, <4>1, <4>2
      <4> QED BY <1>3, <4>1, <4>3
    <3> QED BY <3>1, <3>2
  <2>2. Iter(g, k + 1)
    BY <2>1
  <2> QED BY <2>2
<1>4. PICK w : w = (CHOOSE h : Iter(h, m)) /\ Iter(w, m)
  <2>1. Iter([s \in SUBSET (1..0) |-> <<>>], 0)
    OBVIOUS
  <2>2. PICK T : T = {k \in Nat : \E h : Iter(h, k)}
    OBVIOUS
  <2> HIDE DEF Iter
  <2>3. 0 \in T
    BY <2>1, <2>2
  <2>4. ASSUME NEW k \in Nat, k \in T PROVE k + 1 \in T
    BY <1>3, <2>2, <2>4
  <2>5. Nat \subseteq T
    BY <2>3, <2>4, NatInd
  <2> QED BY <1>1, <2>2, <2>5
<1> DEFINE it == [k \in 0..m |-> w[1..k]]
<1>5. it[0] = <<>>
  <2>1. 1..0 \in SUBSET (1..m) /\ 1..0 = {} /\ it[0] = w[1..0]
    BY <1>1
  <2> QED BY <1>4, <2>1
<1>6. ASSUME NEW k \in Nat, k + 1 <= m PROVE it[k + 1] = IF playing[k + 1].id \in gone THEN it[k] ELSE Append(it[k], playing[k + 1])
  <2>1. 1..k + 1 \in SUBSET (1..m) /\ it[k] = w[1..k] /\ it[k + 1] = w[1..k + 1]
    BY <1>1, <1>6
  <2>2. 1..k + 1 # {} /\ Max(1..k + 1) = k + 1 /\ (1..k + 1) \ {k + 1} = 1..k
    BY UpTo
  <2>3. w[1..k + 1] = Step(w[1..k], playing[k + 1])
    BY <1>4, <2>1, <2>2
  <2> QED BY <2>1, <2>3 DEF Step
<1>7. it[m] = retain(playing, gone)
  BY <1>1, <1>2, <1>4
<1> QED BY <1>1, <1>5, <1>6, <1>7

LEMMA PermutationUnrolled ==
  ASSUME NEW n \in Nat \ {0}, NEW seed
  PROVE  \E it : /\ it[0] = [i \in 1..n |-> i] /\ it[n - 1] = seeded_permutation(n, seed)
                 /\ \A k \in Nat : k + 1 <= n - 1 => it[k + 1] = 
                                   swap(it[k], n - k, (Stream[seed][k + 1] % (n - k)) + 1)
<1> DEFINE First == [i \in 1..n |-> i]
           nth == [k \in 1..n - 1 |-> k]
           Step(out, x) == swap(out, n + 1 - x, (Stream[seed][x] % (n + 1 - x)) + 1)
           Iter(h, k) == h = [s \in SUBSET (1..k) |->
             IF s = {} THEN First ELSE Step(h[s \ {Max(s)}], nth[Max(s)])]
<1>1. PICK m \in Nat : m = n - 1 /\ DOMAIN nth = 1..m /\ \A k \in 1..m : nth[k] = k
  OBVIOUS
<1>2. seeded_permutation(n, seed) = (CHOOSE h : Iter(h, m))[1..m]
  BY <1>1, Zenon DEF seeded_permutation, FoldLeft, MapThenFoldSet
<1> HIDE DEF Step, First, nth
<1>3. ASSUME NEW k \in Nat, NEW h, Iter(h, k) PROVE \E g : Iter(g, k + 1)
  <2> DEFINE g == [s \in SUBSET (1..k + 1) |->
        IF k + 1 \in s THEN Step(h[s \ {k + 1}], nth[k + 1]) ELSE h[s]]
  <2>1. ASSUME NEW s \in SUBSET (1..k + 1)
        PROVE  g[s] = IF s = {} THEN First ELSE Step(g[s \ {Max(s)}], nth[Max(s)])
    <3>1. CASE k + 1 \in s
      <4>1. Max(s) = k + 1 /\ s # {} /\ s \ {k + 1} \in SUBSET (1..k)
        BY <3>1, UpTo
      <4>2. s \ {k + 1} \in SUBSET (1..k + 1) /\ k + 1 \notin s \ {k + 1}
        OBVIOUS
      <4>3. g[s \ {k + 1}] = h[s \ {k + 1}]
        BY <4>2
      <4> QED BY <3>1, <4>1, <4>3
    <3>2. CASE k + 1 \notin s
      <4>1. s \in SUBSET (1..k) /\ s \ {Max(s)} \in SUBSET (1..k) /\ k + 1 \notin s \ {Max(s)}
        <5>1. \A x \in s : x \in 1..k
          BY <3>2
        <5> QED BY <3>2, <5>1
      <4>2. s \ {Max(s)} \in SUBSET (1..k + 1)
        OBVIOUS
      <4>3. g[s] = h[s] /\ g[s \ {Max(s)}] = h[s \ {Max(s)}]
        BY <3>2, <4>1, <4>2
      <4> QED BY <1>3, <4>1, <4>3
    <3> QED BY <3>1, <3>2
  <2>2. Iter(g, k + 1)
    BY <2>1
  <2> QED BY <2>2
<1>4. PICK w : w = (CHOOSE h : Iter(h, m)) /\ Iter(w, m)
  <2>1. Iter([s \in SUBSET (1..0) |-> First], 0)
    OBVIOUS
  <2>2. PICK T : T = {k \in Nat : \E h : Iter(h, k)}
    OBVIOUS
  <2> HIDE DEF Iter
  <2>3. 0 \in T
    BY <2>1, <2>2
  <2>4. ASSUME NEW k \in Nat, k \in T PROVE k + 1 \in T
    BY <1>3, <2>2, <2>4
  <2>5. Nat \subseteq T
    BY <2>3, <2>4, NatInd
  <2> QED BY <1>1, <2>2, <2>5
<1> DEFINE it == [k \in 0..m |-> w[1..k]]
<1>5. it[0] = First
  <2>1. 1..0 \in SUBSET (1..m) /\ 1..0 = {} /\ it[0] = w[1..0]
    BY <1>1
  <2> QED BY <1>4, <2>1
<1>6. ASSUME NEW k \in Nat, k + 1 <= m PROVE it[k + 1] = 
                                   swap(it[k], n - k, (Stream[seed][k + 1] % (n - k)) + 1)
  <2>1. 1..k + 1 \in SUBSET (1..m) /\ it[k] = w[1..k] /\ it[k + 1] = w[1..k + 1]
    BY <1>1, <1>6
  <2>2. 1..k + 1 # {} /\ Max(1..k + 1) = k + 1 /\ (1..k + 1) \ {k + 1} = 1..k
    BY UpTo
  <2>3. w[1..k + 1] = Step(w[1..k], nth[k + 1])
    BY <1>4, <2>1, <2>2
  <2>4. nth[k + 1] = k + 1 /\ n + 1 - (k + 1) = n - k
    BY <1>1, <1>6
  <2> QED BY <2>1, <2>3, <2>4 DEF Step
<1>7. it[m] = seeded_permutation(n, seed)
  BY <1>1, <1>2, <1>4
<1> QED BY <1>1, <1>5, <1>6, <1>7 DEF First

-----------------------------------------------------------------------------
(* What the two folds give.                                                *)

LEMMA SeqFacts ==
  ASSUME NEW s, IsSeq(s)
  PROVE  /\ Len(s) \in Nat /\ DOMAIN s = 1..Len(s)
         /\ \A i \in DOMAIN s : s[i] \in Range(s)
         /\ \A x \in Range(s) : \E i \in DOMAIN s : x = s[i]
BY DEF IsSeq, Range

LEMMA AppendFacts ==
  ASSUME NEW s, IsSeq(s), NEW e
  PROVE  /\ IsSeq(Append(s, e)) /\ Len(Append(s, e)) = Len(s) + 1
         /\ Append(s, e)[Len(s) + 1] = e
         /\ \A i \in 1..Len(s) : Append(s, e)[i] = s[i]
<1>1. PICK S : S = Range(s) \cup {e} /\ s \in Seq(S) /\ e \in S
  <2>1. PICK R, S : R = Range(s) /\ S = Range(s) \cup {e}
    OBVIOUS
  <2>2. s \in Seq(R) /\ R \subseteq S /\ e \in S
    BY <2>1 DEF IsSeq
  <2>3. s \in Seq(S)
    BY <2>2
  <2> QED BY <2>1, <2>2, <2>3
<1>2. /\ Append(s, e) \in Seq(S) /\ Len(Append(s, e)) = Len(s) + 1
      /\ Append(s, e)[Len(s) + 1] = e
      /\ \A i \in 1..Len(s) : Append(s, e)[i] = s[i]
  BY <1>1
<1>3. PICK new \in Seq(S) : new = Append(s, e)
  BY <1>2
<1>4. \A i \in 1..Len(new) : new[i] \in Range(new)
  BY <1>3 DEF Range
<1>5. new \in Seq(Range(new))
  BY <1>3, <1>4
<1> QED BY <1>2, <1>3, <1>5 DEF IsSeq

LEMMA OneFacts ==
  ASSUME NEW x
  PROVE  IsSeq(<<x>>) /\ Len(<<x>>) = 1 /\ <<x>>[1] = x /\ <<x>> # <<>> /\ Last(<<x>>) = x
BY DEF IsSeq, Range, Last

LEMMA EmptyFacts == IsSeq(<<>>) /\ DOMAIN <<>> = {}
BY DEF IsSeq, Range

(* What is left of the first k entries.                                    *)
Left(r, playing, gone, k) ==
  /\ IsSeq(r)
  /\ \A j \in DOMAIN r : \E i \in 1..k : r[j] = playing[i] /\ playing[i].id \notin gone
  /\ \A i \in 1..k : playing[i].id \notin gone => \E j \in DOMAIN r : r[j] = playing[i]
  /\ \A j, l \in DOMAIN r : r[j].id = r[l].id => j = l

LEMMA LeftStep ==
  ASSUME NEW playing, NEW gone, NEW k \in Nat, NEW r, NEW q, Left(r, playing, gone, k),
         k + 1 \in DOMAIN playing, DOMAIN playing = 1..Len(playing), Len(playing) \in Nat,
         \A i, j \in DOMAIN playing : playing[i].id = playing[j].id => i = j,
         q = IF playing[k + 1].id \in gone THEN r ELSE Append(r, playing[k + 1])
  PROVE  Left(q, playing, gone, k + 1)
<1>1. 1..k + 1 = (1..k) \cup {k + 1} /\ 1..k + 1 \subseteq DOMAIN playing
  OBVIOUS
<1>2. CASE playing[k + 1].id \in gone
  <2>1. \A j \in DOMAIN q : \E i \in 1..k + 1 : q[j] = playing[i] /\ playing[i].id \notin gone
    BY <1>1, <1>2 DEF Left
  <2>2. \A i \in 1..k + 1 : playing[i].id \notin gone => \E j \in DOMAIN q : q[j] = playing[i]
    BY <1>1, <1>2 DEF Left
  <2> QED BY <1>2, <2>1, <2>2 DEF Left
<1>3. CASE playing[k + 1].id \notin gone
  <2>1. PICK n \in Nat : n = Len(r) /\ DOMAIN r = 1..n
    BY SeqFacts DEF Left
  <2>2. /\ IsSeq(q) /\ DOMAIN q = (1..n) \cup {n + 1}
        /\ q[n + 1] = playing[k + 1] /\ \A j \in 1..n : q[j] = r[j]
    <3>1. IsSeq(q) /\ Len(q) = n + 1 /\ q[n + 1] = playing[k + 1] /\ \A j \in 1..n : q[j] = r[j]
      BY <1>3, <2>1, AppendFacts DEF Left
    <3> QED BY <2>1, <3>1, SeqFacts
  <2>3. \A j \in DOMAIN q : \E i \in 1..k + 1 : q[j] = playing[i] /\ playing[i].id \notin gone
    BY <1>1, <1>3, <2>1, <2>2 DEF Left
  <2>4. ASSUME NEW i \in 1..k + 1, playing[i].id \notin gone PROVE \E j \in DOMAIN q : q[j] = playing[i]
    <3>1. CASE i = k + 1
      BY <2>2, <3>1
    <3>2. CASE i \in 1..k
      <4>1. PICK j \in DOMAIN r : r[j] = playing[i]
        BY <2>4, <3>2 DEF Left
      <4> QED BY <2>1, <2>2, <4>1
    <3> QED BY <1>1, <3>1, <3>2
  <2>5. ASSUME NEW j \in DOMAIN q, NEW l \in DOMAIN q, q[j].id = q[l].id PROVE j = l
    <3>1. ASSUME NEW a \in 1..n PROVE r[a].id # playing[k + 1].id
      <4>1. PICK i \in 1..k : r[a] = playing[i]
        BY <2>1, <3>1 DEF Left
      <4>2. i # k + 1 /\ i \in DOMAIN playing
        BY <1>1
      <4> QED BY <4>1, <4>2
    <3>2. CASE j = n + 1
      BY <2>2, <2>5, <3>1, <3>2
    <3>3. CASE l = n + 1
      BY <2>2, <2>5, <3>1, <3>3
    <3>4. CASE j \in 1..n /\ l \in 1..n
      BY <2>1, <2>2, <2>5, <3>4 DEF Left
    <3> QED BY <2>2, <3>2, <3>3, <3>4
  <2> QED BY <2>2, <2>3, <2>4, <2>5 DEF Left
<1> QED BY <1>2, <1>3

LEMMA RetainFacts ==
  ASSUME NEW playing, NEW gone, IsSeq(playing),
         \A i, j \in DOMAIN playing : playing[i].id = playing[j].id => i = j
  PROVE  Left(retain(playing, gone), playing, gone, Len(playing))
<1>1. PICK n \in Nat : n = Len(playing) /\ DOMAIN playing = 1..n
  BY SeqFacts
<1>2. PICK it : /\ it[0] = <<>> /\ it[n] = retain(playing, gone)
                /\ \A k \in Nat : k + 1 <= n =>
                     it[k + 1] = IF playing[k + 1].id \in gone THEN it[k] ELSE Append(it[k], playing[k + 1])
  BY <1>1, RetainUnrolled
<1>3. PICK T : T = {k \in Nat : k <= n => Left(it[k], playing, gone, k)}
  OBVIOUS
<1>4. 0 \in T
  <2>1. Left(<<>>, playing, gone, 0)
    BY EmptyFacts DEF Left
  <2> QED BY <1>2, <1>3, <2>1
<1>5. ASSUME NEW k \in Nat, k \in T PROVE k + 1 \in T
  <2>1. CASE k + 1 <= n
    <3>1. Left(it[k], playing, gone, k) /\ k + 1 \in DOMAIN playing
      BY <1>1, <1>3, <1>5, <2>1
    <3>2. it[k + 1] = IF playing[k + 1].id \in gone THEN it[k] ELSE Append(it[k], playing[k + 1])
      BY <1>2, <2>1
    <3>3. Left(it[k + 1], playing, gone, k + 1)
      BY <1>1, <3>1, <3>2, LeftStep
    <3> QED BY <1>3, <3>3
  <2>2. CASE ~(k + 1 <= n)
    BY <1>3, <2>2
  <2> QED BY <2>1, <2>2
<1>6. Nat \subseteq T
  BY <1>4, <1>5, NatInd
<1> QED BY <1>1, <1>2, <1>3, <1>6

Permutation(p, n) ==
  /\ p \in [1..n -> 1..n]
  /\ \A i, j \in 1..n : p[i] = p[j] => i = j
  /\ \A x \in 1..n : \E i \in 1..n : p[i] = x

LEMMA SwapFacts ==
  ASSUME NEW n \in Nat, NEW p, Permutation(p, n), NEW i \in 1..n, NEW j \in 1..n
  PROVE  Permutation(swap(p, i, j), n)
<1>1. PICK q : q = swap(p, i, j)
  OBVIOUS
<1>2. /\ q \in [1..n -> 1..n] /\ q[i] = p[j] /\ q[j] = p[i]
      /\ \A k \in 1..n : k # i /\ k # j => q[k] = p[k]
  BY <1>1 DEF swap, Permutation
<1>3. ASSUME NEW a \in 1..n, NEW b \in 1..n, q[a] = q[b] PROVE a = b
  <2>1. \A k, l \in 1..n : p[k] = p[l] => k = l
    BY DEF Permutation
  <2>2. CASE a = i
    BY <1>2, <1>3, <2>1, <2>2
  <2>3. CASE a = j
    BY <1>2, <1>3, <2>1, <2>3
  <2>4. CASE a # i /\ a # j
    BY <1>2, <1>3, <2>1, <2>4
  <2> QED BY <2>2, <2>3, <2>4
<1>4. ASSUME NEW x \in 1..n PROVE \E k \in 1..n : q[k] = x
  <2>1. PICK k \in 1..n : p[k] = x
    BY DEF Permutation
  <2>2. CASE k = i BY <1>2, <2>1, <2>2
  <2>3. CASE k = j BY <1>2, <2>1, <2>3
  <2>4. CASE k # i /\ k # j BY <1>2, <2>1, <2>4
  <2> QED BY <2>2, <2>3, <2>4
<1> QED BY <1>1, <1>2, <1>3, <1>4 DEF Permutation

LEMMA RemainderFacts ==
  ASSUME NEW a \in Nat, NEW n \in Nat \ {0}
  PROVE  a % n \in 0..n - 1
OBVIOUS

LEMMA PermutationFacts ==
  ASSUME NEW n \in Nat \ {0}, NEW seed \in Seeds, 1..n - 1 \subseteq DOMAIN Stream[seed]
  PROVE  Permutation(seeded_permutation(n, seed), n)
<1>1. PICK it : /\ it[0] = [i \in 1..n |-> i] /\ it[n - 1] = seeded_permutation(n, seed)
                /\ \A k \in Nat : k + 1 <= n - 1 =>
                     it[k + 1] = swap(it[k], n - k, (Stream[seed][k + 1] % (n - k)) + 1)
  BY PermutationUnrolled
<1>2. PICK T : T = {k \in Nat : k <= n - 1 => Permutation(it[k], n)}
  OBVIOUS
<1>3. 0 \in T
  BY <1>1, <1>2 DEF Permutation
<1>4. ASSUME NEW k \in Nat, k \in T PROVE k + 1 \in T
  <2>1. CASE k + 1 <= n - 1
    <3>1. n - k \in 1..n /\ n - k \in Nat \ {0} /\ k + 1 \in 1..n - 1 /\ Permutation(it[k], n)
      BY <1>2, <1>4, <2>1
    <3>2. PICK a : a = Stream[seed][k + 1]
      OBVIOUS
    <3>3. a \in Nat
      BY <3>1, <3>2, AudioAssumption
    <3>4. a % (n - k) \in 0..n - k - 1
      BY <3>1, <3>3, RemainderFacts
    <3>5. (a % (n - k)) + 1 \in 1..n
      BY <3>1, <3>4
    <3>6. Permutation(it[k + 1], n)
      BY <1>1, <2>1, <3>1, <3>2, <3>5, SwapFacts
    <3> QED BY <1>2, <3>6
  <2>2. CASE ~(k + 1 <= n - 1)
    BY <1>2, <2>2
  <2> QED BY <2>1, <2>2
<1>5. Nat \subseteq T
  BY <1>3, <1>4, NatInd
<1> QED BY <1>1, <1>2, <1>5

-----------------------------------------------------------------------------
(* Which track comes next.                                                 *)

LEMMA WrapTurns ==
  ASSUME NEW n \in Nat \ {0}, NEW q \in 1..n
  PROVE  Wrap(q + 1, n) = Turn(q + 1, n) /\ Turn(q + 1, n) \in 1..n
<1>1. q < n => q % n = q
  OBVIOUS
<1>2. q = n => q % n = 0
  OBVIOUS
<1>3. (q + 1) - 1 = q
  OBVIOUS
<1> QED BY <1>1, <1>2, <1>3 DEF Wrap, Turn

LEMMA TurnFacts ==
  ASSUME NEW n \in Nat \ {0}, NEW p \in 1..n, NEW k \in 1..n
  PROVE  /\ Turn(p + k - 1, n) \in 1..n /\ Turn(p, n) = p
         /\ k < n => Turn(Turn(p + k - 1, n) + 1, n) = Turn(p + k, n)
         /\ \A j \in 1..n : Turn(p + j - 1, n) = Turn(p + k - 1, n) => j = k
BY DEF Turn

LEMMA ShuffledNext ==
  ASSUME NEW n \in Nat \ {0}, NEW seed, Permutation(seeded_permutation(n, seed), n),
         NEW i, NEW p \in 1..n, seeded_permutation(n, seed)[p] = i \/ (i \notin 1..n /\ p = 1)
  PROVE  ShuffledTrack(n, seed, i, TRUE) = seeded_permutation(n, seed)[Turn(p + 1, n)]
<1>1. PICK at : at = IF i \in 1..n THEN CHOOSE k \in 1..n : seeded_permutation(n, seed)[k] = i ELSE 1
  OBVIOUS
<1>2. at = p
  <2>1. CASE seeded_permutation(n, seed)[p] = i
    <3>1. i \in 1..n
      BY <2>1 DEF Permutation
    <3>2. \A k \in 1..n : seeded_permutation(n, seed)[k] = i => k = p
      BY <2>1 DEF Permutation
    <3> QED BY <1>1, <2>1, <3>1, <3>2
  <2>2. CASE i \notin 1..n /\ p = 1
    BY <1>1, <2>2
  <2> QED BY <2>1, <2>2
<1>3. ShuffledTrack(n, seed, i, TRUE) = seeded_permutation(n, seed)[Wrap(at + 1, n)]
  BY <1>1 DEF ShuffledTrack
<1> QED BY <1>2, <1>3, WrapTurns

LEMMA PlaylistFacts ==
  ASSUME NEW list, IsPlaylist(list), NEW seed \in Seeds, Len(list.tracks) # 0
  PROVE  /\ Len(list.tracks) \in Nat \ {0}
         /\ Permutation(seeded_permutation(Len(list.tracks), seed), Len(list.tracks))
<1>1. Len(list.tracks) \in Nat
  BY DEF IsPlaylist
<1>2. 1..Len(list.tracks) - 1 \subseteq DOMAIN Stream[seed]
  BY DEF IsPlaylist
<1> QED BY <1>1, <1>2, PermutationFacts

LEMMA FirstIndex ==
  ASSUME NEW list, IsPlaylist(list), NEW seed \in Seeds, Len(list.tracks) # 0
  PROVE  resolve_track_index(list, seed, Nowhere, TRUE) # Nowhere
<1>1. PICK n : n = Len(list.tracks)
  OBVIOUS
<1>2. n \in Nat \ {0} /\ Permutation(seeded_permutation(n, seed), n)
  BY <1>1, PlaylistFacts
<1>3. PICK i : i = resolve_track_index(list, seed, Nowhere, TRUE)
  OBVIOUS
<1>4. CASE list.mode = "single"
  BY <1>1, <1>2, <1>4 DEF resolve_track_index, Nowhere
<1>5. CASE list.mode = "sequential"
  <2>1. 1 <= n
    BY <1>2
  <2> QED BY <1>1, <2>1, <1>5 DEF resolve_track_index, Nowhere
<1>6. CASE list.mode = "loop_all"
  <2>1. i = Wrap(1, n)
    BY <1>1, <1>2, <1>3, <1>6 DEF resolve_track_index
  <2>2. Wrap(1, n) \in 1..n
    <3>1. 0 % n \in 0..n - 1 /\ 1 - 1 = 0
      BY <1>2, RemainderFacts
    <3> QED BY <1>2, <3>1 DEF Wrap
  <2>3. Wrap(1, n) # 0
    BY <1>2, <2>2
  <2> QED BY <1>3, <2>1, <2>3 DEF Nowhere
<1>7. CASE list.mode = "shuffle"
  <2>1. i = seeded_permutation(n, seed)[1]
    BY <1>1, <1>2, <1>3, <1>7 DEF resolve_track_index
  <2>2. seeded_permutation(n, seed)[1] # 0
    BY <1>2 DEF Permutation
  <2> QED BY <1>3, <2>1, <2>2 DEF Nowhere
<1> QED BY <1>4, <1>5, <1>6, <1>7 DEF IsPlaylist

LEMMA ShuffleIndex ==
  ASSUME NEW list, IsPlaylist(list), list.mode = "shuffle", NEW seed, NEW i, i # Nowhere,
         Len(list.tracks) # 0, NEW forward
  PROVE  resolve_track_index(list, seed, i, forward) = ShuffledTrack(Len(list.tracks), seed, i, forward)
BY DEF resolve_track_index

(* A walk that went around at most once has not been anywhere twice.       *)
LEMMA WalkInjective ==
  ASSUME NEW n \in Nat \ {0}, NEW order, Permutation(order, n), NEW walk, IsSeq(walk),
         NEW p \in 1..n, Follows(walk, p, order, n)
  PROVE  IsInjective(walk)
<1>1. PICK m : m = Len(walk)
  OBVIOUS
<1>2. m \in Nat /\ DOMAIN walk = 1..m /\ m <= n
  BY <1>1, SeqFacts DEF Follows
<1>3. walk[1] = order[p] \/ (walk[1] \notin 1..n /\ p = 1)
  BY DEF Follows
<1>4. \A k \in 2..m : walk[k] = order[Turn(p + k - 1, n)]
  BY <1>1 DEF Follows
<1>5. /\ \A k \in 1..n : order[k] \in 1..n
      /\ \A j, k \in 1..n : order[j] = order[k] => j = k
  BY DEF Permutation
<1>6. ASSUME NEW a \in 1..m, NEW b \in 1..m, a < b, walk[a] = walk[b] PROVE FALSE
  <2>1. b \in 2..m /\ b \in 1..n /\ a \in 1..n
    BY <1>2, <1>6
  <2>2. /\ Turn(p + b - 1, n) \in 1..n /\ Turn(p + a - 1, n) \in 1..n
        /\ Turn(p + a - 1, n) # Turn(p + b - 1, n)
    BY <1>6, <2>1 DEF Turn
  <2>3. walk[b] = order[Turn(p + b - 1, n)] /\ walk[b] \in 1..n
    BY <1>4, <1>5, <2>1, <2>2
  <2>4. CASE a = 1 /\ walk[1] \notin 1..n
    BY <1>6, <2>3, <2>4
  <2>5. CASE a = 1 /\ walk[1] = order[p]
    <3>1. Turn(p + a - 1, n) = p
      <4>1. p + 1 - 1 = p
        OBVIOUS
      <4> QED BY <2>5, <4>1 DEF Turn
    <3> QED BY <1>5, <1>6, <2>2, <2>3, <2>5, <3>1
  <2>6. CASE a # 1
    <3>1. a \in 2..m
      BY <2>1, <1>6, <2>6
    <3> QED BY <1>4, <1>5, <1>6, <2>2, <2>3, <3>1
  <2> QED BY <1>3, <2>4, <2>5, <2>6
<1>7. ASSUME NEW a \in 1..m, NEW b \in 1..m, walk[a] = walk[b] PROVE a = b
  <2>1. ~(a < b) /\ ~(b < a)
    BY <1>6, <1>7
  <2> QED BY <1>2, <2>1
<1> QED BY <1>2, <1>7 DEF IsInjective

(* A step forward goes on with the walk.                                   *)
LEMMA WalkGoesOn ==
  ASSUME NEW list, IsPlaylist(list), NEW seed \in Seeds, NEW walk, IsSeq(walk), walk # <<>>,
         Len(walk) > 1 => InOrder(list, seed, walk), Len(walk) < Len(list.tracks)
  PROVE  InOrder(list, seed, Append(walk, ShuffledTrack(Len(list.tracks), seed, Last(walk), TRUE)))
<1>1. PICK n, m, order, i, new :
        /\ n = Len(list.tracks) /\ m = Len(walk) /\ order = seeded_permutation(n, seed)
        /\ i = ShuffledTrack(n, seed, walk[m], TRUE) /\ new = Append(walk, i)
  OBVIOUS
<1>2. m \in Nat /\ m > 0 /\ m < n /\ DOMAIN walk = 1..m
  <2>1. Len(walk) \in Nat /\ DOMAIN walk = 1..Len(walk) /\ Len(walk) # 0
    BY SeqFacts DEF IsSeq
  <2> QED BY <1>1, <2>1
<1>3. n \in Nat \ {0}
  <2>1. Len(list.tracks) \in Nat
    BY DEF IsPlaylist
  <2> QED BY <1>1, <1>2, <2>1
<1>4. Permutation(order, n)
  BY <1>1, <1>3, PlaylistFacts
<1>5. Len(new) = m + 1 /\ new[m + 1] = i /\ \A k \in 1..m : new[k] = walk[k]
  <2>1. /\ Len(Append(walk, i)) = Len(walk) + 1 /\ Append(walk, i)[Len(walk) + 1] = i
        /\ \A k \in 1..Len(walk) : Append(walk, i)[k] = walk[k]
    BY AppendFacts
  <2> QED BY Zenon, <1>1, <2>1
<1>6. \A q \in 1..n : order[q] = walk[m] \/ (walk[m] \notin 1..n /\ q = 1) => i = order[Turn(q + 1, n)]
  <2>1. Permutation(seeded_permutation(n, seed), n)
    BY Zenon, <1>1, <1>4
  <2>2. ASSUME NEW q \in 1..n,
               seeded_permutation(n, seed)[q] = walk[m] \/ (walk[m] \notin 1..n /\ q = 1)
        PROVE  ShuffledTrack(n, seed, walk[m], TRUE) = seeded_permutation(n, seed)[Turn(q + 1, n)]
    BY <1>3, <2>1, <2>2, ShuffledNext
  <2> QED BY Zenon, <1>1, <2>2
<1>7. \E p \in 1..n : Follows(new, p, order, n)
  <2>1. CASE m = 1
    <3>1. PICK p \in 1..n : order[p] = walk[1] \/ (walk[1] \notin 1..n /\ p = 1)
      <4>1. CASE walk[1] \in 1..n
        BY <4>1, <1>4 DEF Permutation
      <4>2. CASE walk[1] \notin 1..n
        <5>1. 1 \in 1..n
          BY <1>3
        <5> QED BY <4>2, <5>1
      <4> QED BY <4>1, <4>2
    <3>2. i = order[Turn(p + 1, n)]
      BY <1>6, <2>1, <3>1
    <3>3. new[1] = walk[1] /\ Len(new) = 2 /\ 2 <= n /\ 2..2 = {2} /\ p + 2 - 1 = p + 1
      BY <1>2, <1>3, <1>5, <2>1
    <3>4. new[2] = order[Turn(p + 2 - 1, n)]
      BY <1>5, <2>1, <3>2, <3>3
    <3> QED BY <3>1, <3>3, <3>4 DEF Follows
  <2>2. CASE m > 1
    <3>1. PICK p \in 1..n : Follows(walk, p, order, n)
      BY <1>1, <2>2 DEF InOrder
    <3>2. /\ walk[1] = order[p] \/ (walk[1] \notin 1..n /\ p = 1)
          /\ \A k \in 2..m : walk[k] = order[Turn(p + k - 1, n)]
      BY <3>1, <1>1 DEF Follows
    <3>3. m \in 2..m /\ m \in 1..n
      BY <1>2, <1>3, <2>2
    <3>4. /\ Turn(p + m - 1, n) \in 1..n
          /\ Turn(Turn(p + m - 1, n) + 1, n) = Turn(p + m, n)
      BY <1>2, <1>3, <3>3 DEF Turn
    <3>5. i = order[Turn(p + (m + 1) - 1, n)]
      <4>1. p + (m + 1) - 1 = p + m
        BY <1>2
      <4> QED BY <1>6, <3>2, <3>3, <3>4, <4>1
    <3>6. new[1] = walk[1] /\ m + 1 <= n
      BY <1>2, <1>3, <1>5
    <3>7. ASSUME NEW k \in 2..m + 1 PROVE new[k] = order[Turn(p + k - 1, n)]
      <4>1. CASE k = m + 1
        BY <1>5, <3>5, <4>1
      <4>2. CASE k # m + 1
        <5>1. k \in 2..m /\ k \in 1..m
          BY <1>2, <4>2
        <5> QED BY <1>5, <3>2, <5>1
      <4> QED BY <4>1, <4>2
    <3> QED BY <1>5, <3>2, <3>6, <3>7 DEF Follows
  <2> QED BY <1>2, <2>1, <2>2
<1>8. Last(walk) = walk[m]
  BY <1>1 DEF Last
<1> QED BY <1>1, <1>7, <1>8 DEF InOrder

LEMMA SeedFacts ==
  /\ 0 \in Seeds
  /\ \A seed \in Seeds : advance_seed(seed) \in Seeds
<1>1. PICK n : n = Cardinality(Seeds)
  OBVIOUS
<1>2. n \in Nat \ {0} /\ Seeds = 0..n - 1
  BY <1>1, AudioAssumption
<1>3. ASSUME NEW seed \in Seeds PROVE advance_seed(seed) \in Seeds
  <2>1. seed + 1 \in Nat
    BY <1>2
  <2>2. (seed + 1) % n \in 0..n - 1
    BY <1>2, <2>1, RemainderFacts
  <2>3. advance_seed(seed) = (seed + 1) % n
    BY <1>1 DEF advance_seed
  <2> QED BY <1>2, <2>2, <2>3
<1> QED BY <1>2, <1>3

-----------------------------------------------------------------------------
(* What an operation makes of the document and of its history.             *)

LEMMA ExceptFacts ==
  ASSUME NEW s, IsSeq(s), NEW k \in DOMAIN s, NEW e, NEW t, t = [s EXCEPT ![k] = e]
  PROVE  /\ IsSeq(t) /\ DOMAIN t = DOMAIN s /\ t[k] = e
         /\ \A j \in DOMAIN s : j # k => t[j] = s[j]
<1>1. PICK n \in Nat : DOMAIN s = 1..n
  BY SeqFacts
<1>2. /\ t = [j \in 1..n |-> t[j]] /\ t[k] = e
      /\ \A j \in DOMAIN s : j # k => t[j] = s[j]
  BY <1>1
<1>3. \A j \in 1..n : t[j] \in Range(t)
  BY <1>1 DEF Range
<1>4. t \in Seq(Range(t))
  <2>1. t \in [1..n -> Range(t)]
    BY <1>2, <1>3
  <2> QED BY ONLY <1>1, <2>1, IsASeq
<1> QED BY <1>1, <1>2, <1>4 DEF IsSeq

LEMMA AtFacts ==
  ASSUME AudioOK(audio), NEW id, Plays(id)
  PROVE  /\ At(id) \in DOMAIN audio.playing /\ audio.playing[At(id)].id = id
         /\ Track(id) = audio.playing[At(id)]
         /\ \A k \in DOMAIN audio.playing : audio.playing[k].id = id => k = At(id)
<1>1. PICK k \in DOMAIN audio.playing : audio.playing[k].id = id
  BY DEF Plays, Ids
<1>2. \A j \in DOMAIN audio.playing : audio.playing[j].id = id => j = k
  BY <1>1 DEF AudioOK, PlayingOK
<1>3. At(id) = k
  BY <1>1, <1>2 DEF At
<1> QED BY <1>1, <1>2, <1>3 DEF Track

(* A document that replaces the one there is mints its ids.                *)
Renews(a) ==
  /\ a.ids \in Nat /\ a.ids >= audio.ids
  /\ \A id \in Ids(a.playing) : id \in Ids(audio.playing) \/ id > audio.ids
Result(a, h, scene) == AudioOK(a) /\ AllTold(a, h, scene) /\ Renews(a)

LEMMA Same == ASSUME AudioInv PROVE Result(audio, history, active)
BY DEF AudioInv, AudioOK, Result, Renews

(* An entry is changed in its place.                                       *)
LEMMA Changed ==
  ASSUME AudioOK(audio), AllTold(audio, history, active), NEW k \in DOMAIN audio.playing,
         NEW e, e.id = audio.playing[k].id, EntryOK(e, audio.ids),
         NEW h, Told(e, h, audio.seed), Scened(h.from, e.playlist, active),
         NEW a, a = [audio EXCEPT !.playing[k] = e],
         NEW hist, hist = [history EXCEPT ![e.id] = h]
  PROVE  Result(a, hist, active)
<1>1. PICK new : new = [audio.playing EXCEPT ![k] = e]
  OBVIOUS
<1>2. /\ IsSeq(new) /\ DOMAIN new = DOMAIN audio.playing /\ new[k] = e
      /\ \A j \in DOMAIN audio.playing : j # k => new[j] = audio.playing[j]
  BY <1>1, ExceptFacts DEF AudioOK, PlayingOK
<1>3. a.playing = new /\ a.seed = audio.seed /\ a.ids = audio.ids /\ DOMAIN a = {"playing", "seed", "ids"}
  BY <1>1 DEF AudioOK
<1>4. \A j \in DOMAIN audio.playing : new[j].id = audio.playing[j].id
  BY <1>2
<1>5. Ids(a.playing) = Ids(audio.playing)
  BY <1>2, <1>3, <1>4 DEF Ids
<1>6. AudioOK(a)
  <2>1. \A j \in DOMAIN new : EntryOK(new[j], audio.ids)
    BY <1>2 DEF AudioOK, PlayingOK
  <2>2. \A i, j \in DOMAIN new : new[i].id = new[j].id => i = j
    BY <1>2, <1>4 DEF AudioOK, PlayingOK
  <2>3. PlayingOK(new, audio.ids)
    BY <1>2, <2>1, <2>2 DEF PlayingOK
  <2> QED BY <1>3, <2>3 DEF AudioOK
<1>7. AllTold(a, hist, active)
  <2>1. DOMAIN history = Ids(audio.playing) /\ e.id \in Ids(audio.playing)
    BY DEF AllTold, Ids
  <2>2. /\ DOMAIN hist = Ids(a.playing) /\ hist[e.id] = h
        /\ \A id \in Ids(audio.playing) : id # e.id => hist[id] = history[id]
    BY <1>5, <2>1
  <2>3. ASSUME NEW j \in DOMAIN new
        PROVE  Told(new[j], hist[new[j].id], audio.seed) /\ Scened(hist[new[j].id].from, new[j].playlist, active)
    <3>1. CASE j = k
      BY <1>2, <2>2, <3>1
    <3>2. CASE j # k
      <4>1. new[j] = audio.playing[j] /\ new[j].id # e.id /\ new[j].id \in Ids(audio.playing)
        BY <1>2, <3>2 DEF AudioOK, PlayingOK, Ids
      <4>2. hist[new[j].id] = history[audio.playing[j].id]
        BY <2>2, <4>1
      <4>3. /\ Told(audio.playing[j], history[audio.playing[j].id], audio.seed)
            /\ Scened(history[audio.playing[j].id].from, audio.playing[j].playlist, active)
        BY <1>2 DEF AllTold
      <4> QED BY <4>1, <4>2, <4>3
    <3> QED BY <3>1, <3>2
  <2> QED BY <1>3, <2>2, <2>3 DEF AllTold
<1>8. Renews(a)
  BY <1>3, <1>5 DEF Renews, AudioOK
<1> QED BY <1>6, <1>7, <1>8 DEF Result

(* Entries are taken out.                                                  *)
LEMMA Taken ==
  ASSUME AudioOK(audio), NEW gone, NEW a, DOMAIN a = {"playing", "seed", "ids"},
         a.playing = retain(audio.playing, gone), a.seed = audio.seed, a.ids = audio.ids
  PROVE  /\ AudioOK(a) /\ Renews(a) /\ a.seed = audio.seed /\ a.ids = audio.ids
         /\ Ids(a.playing) = Ids(audio.playing) \ gone
         /\ \A k \in DOMAIN a.playing : \E i \in DOMAIN audio.playing :
              a.playing[k] = audio.playing[i] /\ audio.playing[i].id \notin gone
<1>1. PICK new : new = retain(audio.playing, gone)
  OBVIOUS
<1>2. a.playing = new /\ a.seed = audio.seed /\ a.ids = audio.ids /\ DOMAIN a = {"playing", "seed", "ids"}
  BY <1>1
<1>3. Left(new, audio.playing, gone, Len(audio.playing)) /\ DOMAIN audio.playing = 1..Len(audio.playing)
  BY <1>1, RetainFacts, SeqFacts DEF AudioOK, PlayingOK
<1>4. /\ IsSeq(new)
      /\ \A j \in DOMAIN new : \E i \in DOMAIN audio.playing :
           new[j] = audio.playing[i] /\ audio.playing[i].id \notin gone
      /\ \A i \in DOMAIN audio.playing :
           audio.playing[i].id \notin gone => \E j \in DOMAIN new : new[j] = audio.playing[i]
      /\ \A j, l \in DOMAIN new : new[j].id = new[l].id => j = l
  BY <1>3 DEF Left
<1>5. PlayingOK(new, audio.ids)
  BY <1>4 DEF PlayingOK, AudioOK
<1>6. Ids(new) = Ids(audio.playing) \ gone
  BY <1>4 DEF Ids
<1>7. AudioOK(a)
  BY <1>2, <1>5 DEF AudioOK
<1>8. Renews(a)
  BY <1>2, <1>6 DEF Renews, AudioOK
<1> QED BY <1>2, <1>4, <1>6, <1>7, <1>8

(* Whatever else there is in h, it tells of the entries of a document.     *)
Tells(h, a, seed, scene) ==
  \A k \in DOMAIN a.playing :
    LET e == a.playing[k]
    IN e.id \in DOMAIN h /\ Told(e, h[e.id], seed) /\ Scened(h[e.id].from, e.playlist, scene)

(* What is kept is told of.                                                *)
LEMMA OnwardTells ==
  ASSUME NEW a, NEW h, NEW scene, Tells(h, a, a.seed, scene), NEW new, NEW hist, hist = Onward(h, a, new)
  PROVE  AllTold(a, hist, scene)
<1>1. DOMAIN hist = Ids(a.playing) /\ \A id \in Ids(a.playing) : id \in DOMAIN h => hist[id] = h[id]
  BY DEF Onward
<1>2. ASSUME NEW k \in DOMAIN a.playing
      PROVE  /\ Told(a.playing[k], hist[a.playing[k].id], a.seed)
             /\ Scened(hist[a.playing[k].id].from, a.playing[k].playlist, scene)
  <2>1. /\ a.playing[k].id \in DOMAIN h
        /\ Told(a.playing[k], h[a.playing[k].id], a.seed)
        /\ Scened(h[a.playing[k].id].from, a.playing[k].playlist, scene)
    BY DEF Tells
  <2>2. hist[a.playing[k].id] = h[a.playing[k].id]
    BY <1>1, <2>1 DEF Ids
  <2> QED BY <2>1, <2>2
<1> QED BY <1>1, <1>2 DEF AllTold

(* An entry is put at the end, under a new id.                             *)
LEMMA Appended ==
  ASSUME NEW d, AudioOK(d), NEW seed \in Seeds, NEW scene, NEW h, Tells(h, d, seed, scene),
         \A id \in DOMAIN h : id \in Nat /\ id <= d.ids,
         NEW e, EntryOK(e, d.ids + 1), e.id = d.ids + 1,
         NEW new, Told(e, new, seed), Scened(new.from, e.playlist, scene),
         NEW a, a = [playing |-> Append(d.playing, e), seed |-> seed, ids |-> d.ids + 1],
         NEW hist, hist = Onward(h, a, new)
  PROVE  /\ AudioOK(a) /\ AllTold(a, hist, scene)
         /\ Ids(a.playing) = Ids(d.playing) \cup {d.ids + 1}
<1>1. PICK playing, n : playing = Append(d.playing, e) /\ n = Len(d.playing)
  OBVIOUS
<1>2. /\ n \in Nat /\ DOMAIN d.playing = 1..n /\ IsSeq(playing) /\ DOMAIN playing = (1..n) \cup {n + 1}
      /\ playing[n + 1] = e /\ \A k \in 1..n : playing[k] = d.playing[k]
  <2>1. IsSeq(d.playing)
    BY DEF AudioOK, PlayingOK
  <2>2. Len(d.playing) \in Nat /\ DOMAIN d.playing = 1..Len(d.playing)
    BY <2>1, SeqFacts
  <2>3. /\ IsSeq(Append(d.playing, e)) /\ Len(Append(d.playing, e)) = Len(d.playing) + 1
        /\ Append(d.playing, e)[Len(d.playing) + 1] = e
        /\ \A k \in 1..Len(d.playing) : Append(d.playing, e)[k] = d.playing[k]
    BY <2>1, AppendFacts
  <2>4. n \in Nat /\ DOMAIN d.playing = 1..n
    BY Zenon, <1>1, <2>2
  <2>5. /\ IsSeq(playing) /\ Len(playing) = n + 1
        /\ playing[n + 1] = e /\ \A k \in 1..n : playing[k] = d.playing[k]
    BY Zenon, <1>1, <2>3
  <2>6. DOMAIN playing = 1..Len(playing)
    BY <2>5, SeqFacts
  <2>7. 1..n + 1 = (1..n) \cup {n + 1}
    BY <2>4
  <2> QED BY <2>4, <2>5, <2>6, <2>7
<1>3. a.playing = playing /\ a.seed = seed /\ a.ids = d.ids + 1 /\ DOMAIN a = {"playing", "seed", "ids"}
  BY <1>1
<1>4. d.ids \in Nat /\ \A k \in 1..n : d.playing[k].id \in Nat /\ d.playing[k].id <= d.ids
  BY <1>2 DEF AudioOK, PlayingOK, EntryOK
<1>5. AudioOK(a)
  <2>1. \A k \in DOMAIN playing : EntryOK(playing[k], d.ids + 1)
    <3>1. ASSUME NEW k \in 1..n PROVE EntryOK(playing[k], d.ids + 1)
      <4>1. EntryOK(d.playing[k], d.ids)
        BY <1>2 DEF AudioOK, PlayingOK
      <4> QED BY <1>2, <1>4, <4>1 DEF EntryOK
    <3> QED BY <1>2, <3>1
  <2>2. ASSUME NEW i \in DOMAIN playing, NEW j \in DOMAIN playing, playing[i].id = playing[j].id PROVE i = j
    <3>1. \A k \in 1..n : playing[k].id # playing[n + 1].id
      BY <1>2, <1>4
    <3>2. CASE i \in 1..n /\ j \in 1..n
      BY <1>2, <2>2, <3>2 DEF AudioOK, PlayingOK
    <3> QED BY <1>2, <2>2, <3>1, <3>2
  <2>3. PlayingOK(playing, d.ids + 1)
    BY <1>2, <2>1, <2>2 DEF PlayingOK
  <2>4. d.ids + 1 \in Nat
    BY <1>4
  <2> QED BY Zenon, <1>3, <2>3, <2>4 DEF AudioOK
<1>6. Ids(a.playing) = Ids(d.playing) \cup {d.ids + 1}
  BY <1>2, <1>3 DEF Ids
<1>7. AllTold(a, hist, scene)
  <2>1. /\ DOMAIN hist = Ids(a.playing)
        /\ \A id \in Ids(a.playing) : hist[id] = IF id \in DOMAIN h THEN h[id] ELSE new
    BY DEF Onward
  <2>2. ASSUME NEW k \in DOMAIN playing
        PROVE  /\ Told(playing[k], hist[playing[k].id], seed)
               /\ Scened(hist[playing[k].id].from, playing[k].playlist, scene)
    <3>1. CASE k = n + 1
      <4>1. e.id \notin DOMAIN h /\ e.id \in Ids(a.playing)
        BY <1>4, <1>6
      <4>2. hist[e.id] = new
        BY <2>1, <4>1
      <4> QED BY <1>2, <3>1, <4>2
    <3>2. CASE k \in 1..n
      <4>1. /\ d.playing[k].id \in DOMAIN h
            /\ Told(d.playing[k], h[d.playing[k].id], seed)
            /\ Scened(h[d.playing[k].id].from, d.playing[k].playlist, scene)
        BY <1>2, <3>2 DEF Tells
      <4>2. d.playing[k].id \in Ids(a.playing)
        BY <1>2, <1>6, <3>2 DEF Ids
      <4>3. hist[d.playing[k].id] = h[d.playing[k].id]
        BY <2>1, <4>1, <4>2
      <4>4. playing[k] = d.playing[k]
        BY <1>2, <3>2
      <4> QED BY <4>1, <4>3, <4>4
    <3> QED BY <1>2, <3>1, <3>2
  <2> QED BY <1>3, <2>1, <2>2 DEF AllTold
<1> QED BY <1>5, <1>6, <1>7

(* A walk begins anew anywhere, and with any seed.                         *)
LEMMA Began ==
  ASSUME NEW e, EntryOK(e, e.id), NEW seed, NEW h,
         h.heard \in Int, h.heard >= Elapsed(e, clock), h.walk = <<e.index>>,
         DOMAIN h = {"from", "heard", "walk"}
  PROVE  Told(e, h, seed)
<1>1. IsSeq(h.walk) /\ Len(h.walk) = 1 /\ h.walk # <<>> /\ Last(h.walk) = e.index
  BY OneFacts
<1>2. ~(Len(h.walk) > 1)
  BY <1>1
<1> QED BY <1>1, <1>2 DEF Told, Walked

LEMMA AnewTells ==
  ASSUME NEW a, AudioOK(a), NEW seed, NEW other, NEW scene, NEW h, Tells(h, a, seed, scene), NEW hist, hist = Anew(h)
  PROVE  Tells(hist, a, other, scene)
<1> SUFFICES ASSUME NEW k \in DOMAIN a.playing, NEW e, e = a.playing[k]
             PROVE  e.id \in DOMAIN hist /\ Told(e, hist[e.id], other) /\ Scened(hist[e.id].from, e.playlist, scene)
  BY DEF Tells
<1>1. e.id \in DOMAIN h /\ Told(e, h[e.id], seed) /\ Scened(h[e.id].from, e.playlist, scene)
  BY DEF Tells
<1>2. PICK g : g = h[e.id]
  OBVIOUS
<1>3. e.id \in DOMAIN hist /\ hist[e.id] = [g EXCEPT !.walk = <<Last(@)>>]
  BY <1>1, <1>2 DEF Anew
<1>4. /\ DOMAIN g = {"from", "heard", "walk"} /\ g.heard \in Int /\ g.heard >= Elapsed(e, clock)
      /\ Last(g.walk) = e.index
  BY <1>1, <1>2 DEF Told
<1>5. PICK new : new = [g EXCEPT !.walk = <<Last(@)>>]
  OBVIOUS
<1>6. /\ DOMAIN new = {"from", "heard", "walk"} /\ new.from = g.from /\ new.heard = g.heard
      /\ new.walk = <<e.index>>
  BY <1>4, <1>5
<1>7. EntryOK(e, e.id)
  <2>1. EntryOK(e, a.ids)
    BY DEF AudioOK, PlayingOK
  <2> QED BY <2>1 DEF EntryOK
<1>8. Told(e, new, other)
  BY <1>4, <1>6, <1>7, Began
<1> QED BY <1>1, <1>2, <1>3, <1>5, <1>6, <1>8

(* A track is played, whoever asked for it: hist comes after h, a after d. *)
Starts(d, h, op, channel, from, now, a, hist, scene) ==
  /\ AudioOK(d) /\ CanPlay(d, op) /\ op.playlist \in DOMAIN Lists \cup {None} /\ op.index \in Nat
  /\ now \in Nat /\ a = Played(d, op, channel, now) /\ hist = Begun(h, a, from, now)
  /\ Tells(h, d, a.seed, scene) /\ \A id \in DOMAIN h : id \in Nat /\ id <= d.ids
  /\ Scened(from, op.playlist, scene)

LEMMA PlayedFacts ==
  ASSUME Settings, clock \in Nat, NEW d, NEW h, NEW op, NEW channel, NEW from, NEW now, NEW a, NEW hist, NEW scene,
         Starts(d, h, op, channel, from, now, a, hist, scene)
  PROVE  /\ AudioOK(a) /\ AllTold(a, hist, scene)
         /\ Ids(a.playing) = Ids(d.playing) \cup {d.ids + 1} /\ a.ids = d.ids + 1
<1>0. /\ AudioOK(d) /\ CanPlay(d, op) /\ op.playlist \in DOMAIN Lists \cup {None} /\ op.index \in Nat
      /\ now \in Nat /\ a = Played(d, op, channel, now) /\ hist = Begun(h, a, from, now)
      /\ Tells(h, d, a.seed, scene) /\ \A id \in DOMAIN h : id \in Nat /\ id <= d.ids
      /\ Scened(from, op.playlist, scene)
  BY DEF Starts
<1> USE <1>0
<1>1. PICK list, seed : list = lists[op.playlist] /\ seed = (IF Reseeds(op) THEN advance_seed(d.seed) ELSE d.seed)
  OBVIOUS
<1>2. op.playlist # None => IsPlaylist(list) /\ list.tracks # <<>>
  BY <1>1 DEF CanPlay, Settings
<1>3. seed \in Seeds
  BY <1>1, SeedFacts DEF AudioOK
<1>4. PICK i : i = IF op.index # Nowhere THEN Within(op.index, Len(list.tracks))
                   ELSE resolve_track_index(list, seed, Nowhere, TRUE)
  OBVIOUS
<1>5. op.playlist # None => i # Nowhere
  <2>1. SUFFICES ASSUME op.playlist # None PROVE i # Nowhere
    OBVIOUS
  <2>2. Len(list.tracks) \in Nat /\ Len(list.tracks) # 0
    BY <1>2, <2>1 DEF IsPlaylist
  <2>3. CASE op.index # Nowhere
    <3>1. Within(op.index, Len(list.tracks)) # 0
      BY <2>2, <2>3 DEF Within, Nowhere
    <3> QED BY <1>4, <2>3, <3>1 DEF Nowhere
  <2>4. CASE op.index = Nowhere
    BY <1>2, <1>3, <1>4, <2>1, <2>2, <2>4, FirstIndex
  <2> QED BY <2>3, <2>4
<1>6. PICK e : e = IF op.playlist = None THEN Entry(d.ids + 1, None, 1, op.track, "sfx", now)
                   ELSE Entry(d.ids + 1, op.playlist, i, list.tracks[i],
                              IF channel = None THEN list.channel ELSE channel, now)
  OBVIOUS
<1>7. a = [playing |-> Append(d.playing, e), seed |-> seed, ids |-> d.ids + 1]
  BY Zenon, <1>1, <1>4, <1>6 DEF Played
<1>8. /\ DOMAIN e = EntryFields /\ e.id = d.ids + 1 /\ e.playlist = op.playlist
      /\ e.index # Nowhere /\ e.started = now /\ e.paused = Running
  <2>1. CASE op.playlist = None
    BY <1>6, <2>1 DEF Entry, EntryFields, Nowhere
  <2>2. CASE op.playlist # None
    BY <1>5, <1>6, <2>2 DEF Entry, EntryFields
  <2> QED BY <2>1, <2>2
<1>9. EntryOK(e, d.ids + 1) /\ EntryOK(e, e.id)
  <2>1. d.ids + 1 \in Nat
    BY DEF AudioOK
  <2> QED BY <1>8, <2>1 DEF EntryOK, Running
<1>10. PICK new : new = Fresh(from, now, <<e.index>>)
  OBVIOUS
<1>11. Told(e, new, seed) /\ Scened(new.from, e.playlist, scene)
  <2>1. new.heard = clock - now /\ new.walk = <<e.index>> /\ new.from = from /\ DOMAIN new = {"from", "heard", "walk"}
    BY <1>10 DEF Fresh
  <2>2. Elapsed(e, clock) = clock - now
    BY <1>8 DEF Elapsed
  <2>3. clock - now \in Int /\ clock - now >= clock - now
    OBVIOUS
  <2> QED BY <1>8, <1>9, <2>1, <2>2, <2>3, Began
<1>12. hist = Onward(h, a, new)
  <2>1. Last(a.playing) = e
    <3>1. IsSeq(d.playing)
      BY DEF AudioOK, PlayingOK
    <3>2. a.playing = Append(d.playing, e)
      BY <1>7
    <3>3. Len(Append(d.playing, e)) = Len(d.playing) + 1 /\ Append(d.playing, e)[Len(d.playing) + 1] = e
      BY <3>1, AppendFacts
    <3> QED BY Zenon, <3>2, <3>3 DEF Last
  <2> QED BY Zenon, <1>10, <2>1 DEF Begun
<1>13. Tells(h, d, seed, scene)
  <2>1. a.seed = seed
    BY <1>7
  <2> QED BY <2>1
<1>14. /\ AudioOK(a) /\ AllTold(a, hist, scene)
       /\ Ids(a.playing) = Ids(d.playing) \cup {d.ids + 1}
  BY ONLY <1>3, <1>7, <1>8, <1>9, <1>11, <1>12, <1>13, Appended, AudioOK(d),
          \A id \in DOMAIN h : id \in Nat /\ id <= d.ids
<1> QED BY <1>7, <1>14

(* An entry gives way to one of a new id.                                  *)
LEMMA Replaced ==
  ASSUME AudioOK(audio), AllTold(audio, history, active), NEW k \in DOMAIN audio.playing,
         NEW e, EntryOK(e, audio.ids + 1), e.id = audio.ids + 1,
         NEW new, Told(e, new, audio.seed), Scened(new.from, e.playlist, active),
         NEW a, a = [audio EXCEPT !.ids = @ + 1, !.playing[k] = e],
         NEW hist, hist = Onward(history, a, new)
  PROVE  Result(a, hist, active) /\ audio.playing[k].id \notin Ids(a.playing)
<1>1. PICK playing : playing = [audio.playing EXCEPT ![k] = e]
  OBVIOUS
<1>2. /\ IsSeq(playing) /\ DOMAIN playing = DOMAIN audio.playing /\ playing[k] = e
      /\ \A j \in DOMAIN audio.playing : j # k => playing[j] = audio.playing[j]
  BY <1>1, ExceptFacts DEF AudioOK, PlayingOK
<1>3. /\ a.playing = playing /\ a.seed = audio.seed /\ a.ids = audio.ids + 1
      /\ DOMAIN a = {"playing", "seed", "ids"}
  BY <1>1 DEF AudioOK
<1>4. /\ audio.ids \in Nat /\ audio.ids + 1 \in Nat /\ audio.ids + 1 > audio.ids
      /\ \A j \in DOMAIN audio.playing : audio.playing[j].id \in Nat /\ audio.playing[j].id <= audio.ids
  BY DEF AudioOK, PlayingOK, EntryOK
<1>5. \A j \in DOMAIN audio.playing : playing[j].id = audio.ids + 1 <=> j = k
  BY <1>2, <1>4
<1>6. AudioOK(a)
  <2>1. \A j \in DOMAIN playing : EntryOK(playing[j], audio.ids + 1)
    <3>1. ASSUME NEW j \in DOMAIN audio.playing, j # k PROVE EntryOK(playing[j], audio.ids + 1)
      <4>1. EntryOK(audio.playing[j], audio.ids)
        BY DEF AudioOK, PlayingOK
      <4> QED BY <1>2, <1>4, <3>1, <4>1 DEF EntryOK
    <3> QED BY <1>2, <3>1
  <2>2. \A i, j \in DOMAIN playing : playing[i].id = playing[j].id => i = j
    <3>1. ASSUME NEW i \in DOMAIN playing, NEW j \in DOMAIN playing, playing[i].id = playing[j].id PROVE i = j
      <4>1. CASE i = k \/ j = k
        BY <1>2, <1>5, <3>1, <4>1
      <4>2. CASE i # k /\ j # k
        BY <1>2, <3>1, <4>2 DEF AudioOK, PlayingOK
      <4> QED BY <4>1, <4>2
    <3> QED BY <3>1
  <2>3. PlayingOK(playing, audio.ids + 1)
    BY <1>2, <2>1, <2>2 DEF PlayingOK
  <2> QED BY <1>3, <1>4, <2>3 DEF AudioOK
<1>7. /\ e.id \in Ids(a.playing) /\ audio.playing[k].id \notin Ids(a.playing)
      /\ \A id \in Ids(a.playing) : id \in Ids(audio.playing) \/ id > audio.ids
  <2>1. ASSUME NEW j \in DOMAIN playing
        PROVE  /\ playing[j].id # audio.playing[k].id
               /\ playing[j].id \in Ids(audio.playing) \/ playing[j].id > audio.ids
    <3>1. CASE j = k
      BY <1>2, <1>4, <3>1
    <3>2. CASE j # k
      BY <1>2, <3>2 DEF AudioOK, PlayingOK, Ids
    <3> QED BY <3>1, <3>2
  <2>2. a.playing[k].id = e.id /\ k \in DOMAIN a.playing
    BY <1>2, <1>3
  <2> QED BY <1>3, <2>1, <2>2 DEF Ids
<1>8. AllTold(a, hist, active)
  <2>1. DOMAIN history = Ids(audio.playing)
    BY DEF AllTold
  <2>2. /\ DOMAIN hist = Ids(a.playing)
        /\ \A id \in Ids(a.playing) : hist[id] = IF id \in Ids(audio.playing) THEN history[id] ELSE new
    BY <2>1 DEF Onward
  <2>3. ASSUME NEW j \in DOMAIN playing
        PROVE  /\ Told(playing[j], hist[playing[j].id], audio.seed)
               /\ Scened(hist[playing[j].id].from, playing[j].playlist, active)
    <3>1. CASE j = k
      <4>1. e.id \notin Ids(audio.playing)
        BY <1>4 DEF Ids
      <4>2. hist[e.id] = new
        BY <1>7, <2>2, <4>1
      <4> QED BY <1>2, <3>1, <4>2
    <3>2. CASE j # k
      <4>1. playing[j] = audio.playing[j] /\ j \in DOMAIN audio.playing
        BY <1>2, <3>2
      <4>2. playing[j].id \in Ids(a.playing) /\ audio.playing[j].id \in Ids(audio.playing)
        BY <1>3, <4>1 DEF Ids
      <4>3. hist[playing[j].id] = history[audio.playing[j].id]
        BY <2>2, <4>1, <4>2
      <4>4. /\ Told(audio.playing[j], history[audio.playing[j].id], audio.seed)
            /\ Scened(history[audio.playing[j].id].from, audio.playing[j].playlist, active)
        BY <4>1 DEF AllTold
      <4> QED BY <4>1, <4>3, <4>4
    <3> QED BY <3>1, <3>2
  <2> QED BY <1>3, <2>2, <2>3 DEF AllTold
<1>9. Renews(a)
  <2>1. a.ids \in Nat /\ a.ids >= audio.ids
    BY <1>3, <1>4
  <2> QED BY <1>7, <2>1 DEF Renews
<1> QED BY <1>6, <1>7, <1>8, <1>9 DEF Result

(* An entry is advanced, and what follows keeps its walk and its scene.    *)
LEMMA GoesFacts ==
  ASSUME Settings, clock \in Nat, AudioOK(audio), AllTold(audio, history, active),
         NEW id, CanAdvance(id), NEW forward \in BOOLEAN, NEW now \in Nat, NEW a, a = Advanced(id, forward, now),
         NEW hist, hist = Onward(history, a, Followed(id, a, forward, now))
  PROVE  Result(a, hist, active) /\ id \notin Ids(a.playing)
<1>1. PICK k : k = At(id)
  OBVIOUS
<1>2. k \in DOMAIN audio.playing /\ audio.playing[k].id = id /\ Track(id) = audio.playing[k]
  BY <1>1, AtFacts DEF CanAdvance
<1>3. PICK e, list : e = audio.playing[k] /\ list = lists[e.playlist]
  OBVIOUS
<1>4. EntryOK(e, audio.ids) /\ e.id = id /\ Track(id) = e
  BY <1>2, <1>3 DEF AudioOK, PlayingOK
<1>5. e.playlist # None => IsPlaylist(list)
  BY <1>3, <1>4 DEF CanAdvance, Settings, EntryOK
<1>6. PICK i : i = IF e.playlist = None THEN Nowhere ELSE resolve_track_index(list, audio.seed, e.index, forward)
  OBVIOUS
<1>7. a = IF i = Nowhere THEN [audio EXCEPT !.playing = retain(@, {id})]
          ELSE [audio EXCEPT !.ids = @ + 1,
                  !.playing[k] = Entry(audio.ids + 1, e.playlist, i, list.tracks[i], list.channel, now)]
  BY Zenon, <1>1, <1>3, <1>4, <1>6 DEF Advanced
<1>8. CASE i = Nowhere
  <2>1. PICK gone : gone = {id}
    OBVIOUS
  <2>2. a = [audio EXCEPT !.playing = retain(@, gone)]
    BY Zenon, <1>7, <1>8, <2>1
  <2>3. /\ DOMAIN a = {"playing", "seed", "ids"}
        /\ a.playing = retain(audio.playing, gone) /\ a.seed = audio.seed /\ a.ids = audio.ids
    BY <2>2 DEF AudioOK
  <2>4. /\ AudioOK(a) /\ Renews(a) /\ a.seed = audio.seed /\ a.ids = audio.ids
        /\ Ids(a.playing) = Ids(audio.playing) \ gone
        /\ \A j \in DOMAIN a.playing : \E l \in DOMAIN audio.playing :
             a.playing[j] = audio.playing[l] /\ audio.playing[l].id \notin gone
    BY ONLY AudioOK(audio), <2>3, Taken
  <2>5. Tells(history, a, a.seed, active)
    BY <2>4 DEF AllTold, Tells, Ids
  <2>6. AllTold(a, hist, active)
    BY <2>5, OnwardTells
  <2>7. id \notin Ids(a.playing)
    BY ONLY <2>1, <2>4
  <2> QED BY <2>4, <2>6, <2>7 DEF Result
<1>9. CASE i # Nowhere
  <2>1. e.playlist # None /\ IsPlaylist(list) /\ i = resolve_track_index(list, audio.seed, e.index, forward)
    BY <1>5, <1>6, <1>9
  <2>2. Len(list.tracks) # 0 /\ Len(list.tracks) \in Nat
    BY <2>1, <1>9 DEF resolve_track_index, IsPlaylist
  <2>3. PICK f : f = Entry(audio.ids + 1, e.playlist, i, list.tracks[i], list.channel, now)
    OBVIOUS
  <2>4. /\ DOMAIN f = EntryFields /\ f.id = audio.ids + 1 /\ f.playlist = e.playlist
        /\ f.index = i /\ f.started = now /\ f.paused = Running
    BY <2>3 DEF Entry, EntryFields
  <2>5. EntryOK(f, audio.ids + 1)
    <3>1. audio.ids + 1 \in Nat
      BY DEF AudioOK
    <3> QED BY <1>4, <1>9, <2>4, <3>1 DEF EntryOK, Running
  <2>6. a = [audio EXCEPT !.ids = @ + 1, !.playing[k] = f]
    BY Zenon, <1>7, <1>9, <2>3
  <2>7. a.playing[k] = f
    BY <1>2, <2>6 DEF AudioOK
  <2>8. PICK g, walk : g = history[id] /\ walk = history[id].walk
    OBVIOUS
  <2>9. /\ DOMAIN g = {"from", "heard", "walk"} /\ IsSeq(walk) /\ walk # <<>> /\ Last(walk) = e.index
        /\ Walked(e.playlist, audio.seed, walk) /\ Scened(g.from, e.playlist, active)
    BY <1>2, <1>3, <2>8 DEF AllTold, Told
  <2>10. PICK onto : onto = IF forward /\ Len(walk) < Len(list.tracks) THEN Append(walk, i) ELSE <<i>>
    OBVIOUS
  <2>11. Followed(id, a, forward, now) = Fresh(g.from, now, onto)
    BY Zenon, <1>1, <1>3, <1>4, <2>4, <2>7, <2>8, <2>10 DEF Followed
  <2>12. IsSeq(onto) /\ onto # <<>> /\ Last(onto) = i /\ Walked(e.playlist, audio.seed, onto)
    <3>1. CASE forward /\ Len(walk) < Len(list.tracks)
      <4>1. onto = Append(walk, i)
        BY <2>10, <3>1
      <4>2. IsSeq(onto) /\ onto # <<>> /\ Last(onto) = i
        <5>1. /\ IsSeq(Append(walk, i)) /\ Len(Append(walk, i)) = Len(walk) + 1
              /\ Append(walk, i)[Len(walk) + 1] = i /\ Len(walk) \in Nat
          BY <2>9, AppendFacts, SeqFacts
        <5>2. Append(walk, i) # <<>>
          BY <5>1
        <5>3. Last(Append(walk, i)) = i
          BY Zenon, <5>1 DEF Last
        <5> QED BY <4>1, <5>1, <5>2, <5>3
      <4>3. ASSUME list.mode = "shuffle" PROVE InOrder(list, audio.seed, onto)
        <5>1. Len(walk) > 1 => InOrder(list, audio.seed, walk)
          BY <1>3, <2>1, <2>9, <4>3 DEF Walked
        <5>2. InOrder(list, audio.seed, Append(walk, ShuffledTrack(Len(list.tracks), audio.seed, Last(walk), TRUE)))
          BY <2>1, <2>9, <3>1, <5>1, WalkGoesOn DEF AudioOK
        <5>3. i = ShuffledTrack(Len(list.tracks), audio.seed, e.index, forward)
          BY <1>4, <2>1, <2>2, <4>3, ShuffleIndex DEF EntryOK
        <5>4. forward = TRUE
          BY <3>1
        <5> QED BY Zenon, <2>9, <4>1, <5>2, <5>3, <5>4
      <4> QED BY <1>3, <4>2, <4>3 DEF Walked
    <3>2. CASE ~(forward /\ Len(walk) < Len(list.tracks))
      <4>1. onto = <<i>>
        BY <2>10, <3>2
      <4>2. IsSeq(<<i>>) /\ Len(<<i>>) = 1 /\ <<i>> # <<>> /\ Last(<<i>>) = i /\ ~(1 > 1)
        BY OneFacts
      <4> QED BY Zenon, <4>1, <4>2 DEF Walked
    <3> QED BY <3>1, <3>2
  <2>13. PICK new : new = Fresh(g.from, now, onto)
    OBVIOUS
  <2>14. Told(f, new, audio.seed) /\ Scened(new.from, f.playlist, active)
    <3>1. new.heard = clock - now /\ new.walk = onto /\ new.from = g.from /\ DOMAIN new = {"from", "heard", "walk"}
      BY <2>13 DEF Fresh
    <3>2. Elapsed(f, clock) = clock - now
      BY <2>4 DEF Elapsed
    <3>3. clock - now \in Int /\ clock - now >= clock - now
      OBVIOUS
    <3> QED BY Zenon, <2>4, <2>9, <2>12, <3>1, <3>2, <3>3 DEF Told
  <2>15. hist = Onward(history, a, new)
    BY Zenon, <2>11, <2>13
  <2> QED BY ONLY <1>2, <2>4, <2>5, <2>6, <2>14, <2>15, Replaced, AudioOK(audio), AllTold(audio, history, active)
<1> QED BY <1>8, <1>9

-----------------------------------------------------------------------------
(* The steps.                                                              *)

LEMMA AudioKeeps ==
  ASSUME AudioOK(audio')
  PROVE  AudioOK(audio)'
BY DEF AudioOK, PlayingOK, EntryOK, EntryFields, IsSeq, Range

LEMMA ToldKeeps ==
  ASSUME AllTold(audio', history', active'), lists' = lists, ambience' = ambience, clock' = clock, spoiled' = spoiled
  PROVE  AllTold(audio, history, active)'
BY DEF AllTold, Told, Walked, InOrder, Scened, Elapsed, Ids, IsSeq, Range, Follows, Turn, Last

(* Of an entry that stays, what the history says after a step.             *)
TellsNext(e, h) ==
  /\ DOMAIN h = {"from", "heard", "walk"}
  /\ h.heard \in Int /\ h.heard >= Elapsed(e, clock')
  /\ IsSeq(h.walk) /\ h.walk # <<>> /\ Last(h.walk) = e.index
  /\ e.playlist # None /\ lists'[e.playlist].mode = "shuffle" /\ Len(h.walk) > 1 =>
       InOrder(lists'[e.playlist], audio.seed, h.walk)
  /\ \/ spoiled' \/ h.from = None
     \/ h.from = active' /\ active' # None /\ e.playlist = ambience'[active'] /\ e.playlist # None

LEMMA ToldNext ==
  ASSUME audio' = audio, DOMAIN history' = Ids(audio.playing),
         \A k \in DOMAIN audio.playing : TellsNext(audio.playing[k], history'[audio.playing[k].id])
  PROVE  AllTold(audio, history, active)'
<1>1. ASSUME NEW k \in DOMAIN audio.playing
      PROVE  /\ Told(audio.playing[k], history[audio.playing[k].id], audio.seed)'
             /\ Scened(history[audio.playing[k].id].from, audio.playing[k].playlist, active)'
  <2>1. TellsNext(audio.playing[k], history'[audio.playing[k].id])
    OBVIOUS
  <2>2. Walked(audio.playing[k].playlist, audio.seed, history[audio.playing[k].id].walk)'
    BY <2>1 DEF TellsNext, Walked, InOrder, Follows, Turn
  <2>3. Scened(history[audio.playing[k].id].from, audio.playing[k].playlist, active)'
    BY <2>1 DEF TellsNext, Scened
  <2>4. (history[audio.playing[k].id].heard >= Elapsed(audio.playing[k], clock))'
    BY <2>1 DEF TellsNext, Elapsed
  <2>5. /\ (DOMAIN history[audio.playing[k].id] = {"from", "heard", "walk"})'
        /\ (history[audio.playing[k].id].heard \in Int)'
        /\ (history[audio.playing[k].id].walk # <<>>)'
    BY <2>1 DEF TellsNext
  <2>6. IsSeq(history[audio.playing[k].id].walk)'
    BY <2>1 DEF TellsNext, IsSeq, Range
  <2>7. (Last(history[audio.playing[k].id].walk) = audio.playing[k].index)'
    BY <2>1 DEF TellsNext, Last
  <2>8. Told(audio.playing[k], history[audio.playing[k].id], audio.seed)'
    BY <2>2, <2>4, <2>5, <2>6, <2>7 DEF Told
  <2> QED BY <2>3, <2>8
<1> QED BY <1>1 DEF AllTold, Ids

LEMMA SettingsKeep ==
  ASSUME Settings, lists' = lists, ambience' = ambience, active' \in Scenes \cup {None}
  PROVE  Settings'
BY DEF Settings, IsPlaylist, Seeds, Range, Gone

LEMMA AskedKeeps ==
  ASSUME AskedOK, clock' = clock, NEW c \in Gms \cup Listeners, Answered(c)
  PROVE  AskedOK'
<1>1. /\ DOMAIN asked' = DOMAIN asked /\ asked'[c] = Idle
      /\ \A b \in Gms \cup Listeners : b # c => asked'[b] = asked[b]
  BY DEF AskedOK, Answered
<1>2. ASSUME NEW b \in Gms \cup Listeners
      PROVE  /\ DOMAIN asked'[b] = {"op", "now"}
             /\ asked'[b].now \in Nat /\ asked'[b].now <= clock
             /\ asked'[b].op.is = "play" => IsPlay(asked'[b].op)
             /\ asked'[b].op.is = "seek" => asked'[b].op.position \in Nat
             /\ asked'[b].op.is = "active" => asked'[b].op.scene \in Scenes \cup {None}
  <2>1. CASE b = c
    <3>1. DOMAIN Idle = {"op", "now"} /\ Idle.now = 0 /\ Idle.op.is = "none"
      BY DEF Idle
    <3> QED BY <1>1, <2>1, <3>1 DEF AskedOK
  <2>2. CASE b # c
    BY <1>1, <2>2 DEF AskedOK, Now, Waits, Op
  <2> QED BY <2>1, <2>2
<1> QED BY <1>1, <1>2 DEF AskedOK, Now, Waits, Op, IsPlay

LEMMA TabKeeps ==
  ASSUME TabOK, AudioOK(audio), Renews(audio'), tab' = tab
  PROVE  TabOK'
<1>1. audio'.ids \in Nat /\ audio'.ids >= audio.ids /\ audio.ids \in Nat
  BY DEF Renews, AudioOK
<1> QED BY <1>1 DEF TabOK

LEMMA StillPlays ==
  ASSUME TabOK, AudioOK(audio), Renews(audio'), NEW c \in Listeners, NEW id \in tab[c].ended,
         id \in Ids(audio'.playing)
  PROVE  Plays(id)
<1>1. id \in Nat /\ id <= audio.ids /\ audio.ids \in Nat
  BY DEF TabOK, AudioOK
<1> QED BY <1>1 DEF Renews, Plays

LEMMA EndsKeep ==
  ASSUME TabOK, AudioOK(audio), AskedOK, Renews(audio'), tab' = tab, missed' = missed, EndAdvancesUnlessMissed,
         NEW c \in Gms \cup Listeners, Answered(c), ~Waits(c, "track_ended")
  PROVE  EndAdvancesUnlessMissed'
<1> SUFFICES ASSUME NEW b \in Listeners, NEW id \in tab[b].ended, id \in Ids(audio'.playing)
             PROVE  (asked'[b].op.is = "track_ended" /\ asked'[b].op.id = id) \/ <<b, id>> \in missed
  BY DEF EndAdvancesUnlessMissed, Waits, Op, Plays, Ids
<1>1. Plays(id)
  BY StillPlays
<1>2. (Waits(b, "track_ended") /\ Op(b).id = id) \/ <<b, id>> \in missed
  BY <1>1 DEF EndAdvancesUnlessMissed
<1>3. CASE <<b, id>> \in missed
  BY <1>3
<1>4. CASE Waits(b, "track_ended") /\ Op(b).id = id
  <2>1. b # c
    BY <1>4
  <2>2. asked'[b] = asked[b]
    BY <2>1 DEF Answered, AskedOK
  <2> QED BY <1>4, <2>2 DEF Waits, Op
<1> QED BY <1>2, <1>3, <1>4

(* An operation other than a report of an end.                             *)
LEMMA HandledKeeps ==
  ASSUME AudioInv, NEW c \in Gms \cup Listeners, Answered(c), ~Waits(c, "track_ended"),
         Result(audio', history', active'), active' \in Scenes \cup {None},
         UNCHANGED <<lists, ambience, tab, clock, missed, spoiled>>
  PROVE  AudioInv'
<1>1. Settings'
  BY SettingsKeep DEF AudioInv
<1>2. AudioOK(audio)'
  BY AudioKeeps DEF Result
<1>3. AskedOK'
  BY AskedKeeps DEF AudioInv
<1>4. TabOK'
  BY TabKeeps DEF AudioInv, Result
<1>5. AllTold(audio, history, active)'
  BY ToldKeeps DEF Result
<1>6. EndAdvancesUnlessMissed'
  BY EndsKeep DEF AudioInv, Result
<1> QED BY <1>1, <1>2, <1>3, <1>4, <1>5, <1>6 DEF AudioInv

LEMMA TrackFacts ==
  ASSUME AudioInv, NEW id, Plays(id)
  PROVE  /\ Track(id).id = id /\ EntryOK(Track(id), audio.ids)
         /\ Told(Track(id), history[id], audio.seed)
         /\ Scened(history[id].from, Track(id).playlist, active)
<1>1. At(id) \in DOMAIN audio.playing /\ audio.playing[At(id)].id = id /\ Track(id) = audio.playing[At(id)]
  BY AtFacts DEF AudioInv
<1> QED BY <1>1 DEF AudioInv, AudioOK, PlayingOK, AllTold

LEMMA IdsFacts ==
  ASSUME AudioInv
  PROVE  /\ DOMAIN history = Ids(audio.playing)
         /\ \A id \in Ids(audio.playing) : id \in Nat /\ id <= audio.ids
         /\ Tells(history, audio, audio.seed, active)
<1>1. \A k \in DOMAIN audio.playing : audio.playing[k].id \in Nat /\ audio.playing[k].id <= audio.ids
  BY DEF AudioInv, AudioOK, PlayingOK, EntryOK
<1> QED BY <1>1 DEF Ids, AudioInv, AllTold, Tells

LEMMA PlayKeeps ==
  ASSUME AudioInv, NEW c \in Gms \cup Listeners, Play(c)
  PROVE  AudioInv'
<1>1. /\ Answered(c) /\ ~Waits(c, "track_ended") /\ active' = active /\ active \in Scenes \cup {None}
      /\ UNCHANGED <<lists, ambience, tab, clock, missed, spoiled>>
  BY DEF Play, Waits, Still, worlds, AudioInv, Settings
<1>2. CASE CanPlay(audio, Op(c))
  <2>1. PICK op, now, h, a, hist :
          /\ op = Op(c) /\ now = Now(c) /\ h = (IF Reseeds(op) THEN Anew(history) ELSE history)
          /\ a = audio' /\ hist = history'
    OBVIOUS
  <2>2. a = Played(audio, op, None, now) /\ hist = Begun(h, a, None, now)
    BY Zenon, <1>2, <2>1 DEF Play
  <2>3. CanPlay(audio, op) /\ op.index \in Nat /\ op.playlist \in DOMAIN Lists \cup {None} /\ now \in Nat
    BY <1>2, <2>1 DEF Play, AudioInv, AskedOK, IsPlay
  <2>4. Tells(h, audio, a.seed, active)
    <3>1. CASE Reseeds(op)
      BY <2>1, <3>1, IdsFacts, AnewTells DEF AudioInv
    <3>2. CASE ~Reseeds(op)
      <4>1. a.seed = audio.seed
        BY <2>2, <3>2 DEF Played
      <4> QED BY <2>1, <3>2, <4>1, IdsFacts
    <3> QED BY <3>1, <3>2
  <2>5. \A id \in DOMAIN h : id \in Nat /\ id <= audio.ids
    <3>1. DOMAIN h = DOMAIN history
      BY <2>1 DEF Anew
    <3> QED BY <3>1, IdsFacts
  <2>6. Scened(None, op.playlist, active)
    BY DEF Scened
  <2>7. Settings /\ clock \in Nat /\ AudioOK(audio)
    BY DEF AudioInv, AskedOK
  <2>8. /\ AudioOK(a) /\ AllTold(a, hist, active)
        /\ Ids(a.playing) = Ids(audio.playing) \cup {audio.ids + 1} /\ a.ids = audio.ids + 1
    <3>1. Starts(audio, h, op, None, None, now, a, hist, active)
      BY Zenon, <2>2, <2>3, <2>4, <2>5, <2>6, <2>7 DEF Starts
    <3> QED BY ONLY <2>7, <3>1, PlayedFacts
  <2>9. Renews(a)
    BY <2>7, <2>8 DEF Renews, AudioOK
  <2>10. Result(audio', history', active')
    BY Zenon, <1>1, <2>1, <2>8, <2>9 DEF Result
  <2> QED BY <1>1, <2>10, HandledKeeps
<1>3. CASE ~CanPlay(audio, Op(c))
  <2>1. Result(audio', history', active')
    BY <1>1, <1>3, Same DEF Play
  <2> QED BY <1>1, <2>1, HandledKeeps
<1> QED BY <1>2, <1>3

(* What sets an entry and its history.                                     *)
LEMMA SetsKeeps ==
  ASSUME AudioInv, NEW c \in Gms \cup Listeners, Answered(c), Still, ~Waits(c, "track_ended"), Plays(Op(c).id),
         NEW e, e.id = Op(c).id, EntryOK(e, audio.ids),
         NEW h, Told(e, h, audio.seed), Scened(h.from, e.playlist, active), Sets(c, e, h)
  PROVE  AudioInv'
<1>1. AudioOK(audio) /\ AllTold(audio, history, active)
  BY DEF AudioInv
<1>2. PICK k : k = At(Op(c).id) /\ k \in DOMAIN audio.playing /\ audio.playing[k].id = e.id
  BY <1>1, AtFacts
<1>3. audio' = [audio EXCEPT !.playing[k] = e] /\ history' = [history EXCEPT ![e.id] = h]
  BY <1>2 DEF Sets
<1>4. Result(audio', history', active)
  BY <1>1, <1>2, <1>3, Changed
<1>5. /\ UNCHANGED <<lists, ambience, tab, clock, missed, spoiled>>
      /\ active' = active /\ active \in Scenes \cup {None}
  BY DEF Still, worlds, AudioInv, Settings
<1>6. Result(audio', history', active')
  BY <1>4, <1>5
<1> QED BY <1>5, <1>6, HandledKeeps

(* What does nothing.                                                      *)
LEMMA IdleKeeps ==
  ASSUME AudioInv, NEW c \in Gms \cup Listeners, Answered(c), Still, ~Waits(c, "track_ended"),
         UNCHANGED <<audio, history>>
  PROVE  AudioInv'
<1>1. /\ UNCHANGED <<lists, ambience, tab, clock, missed, spoiled>>
      /\ active' = active /\ active \in Scenes \cup {None}
  BY DEF Still, worlds, AudioInv, Settings
<1>2. Result(audio', history', active')
  BY <1>1, Same
<1> QED BY <1>1, <1>2, HandledKeeps

LEMMA PauseKeeps ==
  ASSUME AudioInv, NEW c \in Gms \cup Listeners, Pause(c)
  PROVE  AudioInv'
<1>1. Answered(c) /\ Still /\ ~Waits(c, "track_ended")
  BY DEF Pause, Waits
<1>2. CASE Plays(Op(c).id) /\ Track(Op(c).id).paused = Running
  <2>1. PICK e, g, f : e = Track(Op(c).id) /\ g = history[Op(c).id] /\ f = [e EXCEPT !.paused = Now(c)]
    OBVIOUS
  <2>2. /\ e.id = Op(c).id /\ EntryOK(e, audio.ids) /\ Told(e, g, audio.seed) /\ Scened(g.from, e.playlist, active)
    BY <1>2, <2>1, TrackFacts
  <2>3. Now(c) \in Nat /\ clock \in Nat /\ Now(c) <= clock /\ e.paused = Running
    BY <1>2, <2>1 DEF AudioInv, AskedOK
  <2>4. /\ DOMAIN f = EntryFields /\ f.id = e.id /\ f.playlist = e.playlist /\ f.index = e.index
        /\ f.started = e.started /\ f.paused = Now(c)
    BY <2>1, <2>2 DEF EntryOK, EntryFields
  <2>5. EntryOK(f, audio.ids)
    BY <2>2, <2>3, <2>4 DEF EntryOK
  <2>6. Told(f, g, audio.seed)
    <3>1. e.started \in Int /\ g.heard \in Int /\ g.heard >= clock - e.started
      BY <2>2, <2>3 DEF EntryOK, Told, Elapsed
    <3>2. Elapsed(f, clock) = Now(c) - e.started
      BY <2>3, <2>4 DEF Elapsed, Running
    <3>3. g.heard >= Elapsed(f, clock)
      BY <2>3, <3>1, <3>2
    <3> QED BY Zenon, <2>2, <2>4, <3>3 DEF Told
  <2>7. Sets(c, f, g)
    BY Zenon, <1>2, <2>1 DEF Pause
  <2> QED BY <1>1, <1>2, <2>2, <2>4, <2>5, <2>6, <2>7, SetsKeeps
<1>3. CASE ~(Plays(Op(c).id) /\ Track(Op(c).id).paused = Running)
  <2>1. UNCHANGED <<audio, history>>
    BY <1>3 DEF Pause
  <2> QED BY <1>1, <2>1, IdleKeeps
<1> QED BY <1>2, <1>3

LEMMA ResumeKeeps ==
  ASSUME AudioInv, NEW c \in Gms \cup Listeners, Resume(c)
  PROVE  AudioInv'
<1>1. Answered(c) /\ Still /\ ~Waits(c, "track_ended")
  BY DEF Resume, Waits
<1>2. CASE Plays(Op(c).id) /\ Track(Op(c).id).paused # Running
  <2>1. PICK e, g, f, h :
          /\ e = Track(Op(c).id) /\ g = history[Op(c).id]
          /\ f = [e EXCEPT !.started = @ + Now(c) - e.paused, !.paused = Running]
          /\ h = [g EXCEPT !.heard = @ + clock - Now(c)]
    OBVIOUS
  <2>2. /\ e.id = Op(c).id /\ EntryOK(e, audio.ids) /\ Told(e, g, audio.seed) /\ Scened(g.from, e.playlist, active)
    BY <1>2, <2>1, TrackFacts
  <2>3. Now(c) \in Nat /\ clock \in Nat /\ Now(c) <= clock /\ e.paused # Running
    BY <1>2, <2>1 DEF AudioInv, AskedOK
  <2>4. /\ DOMAIN f = EntryFields /\ f.id = e.id /\ f.playlist = e.playlist /\ f.index = e.index
        /\ f.started = e.started + Now(c) - e.paused /\ f.paused = Running
    BY <2>1, <2>2 DEF EntryOK, EntryFields
  <2>5. /\ DOMAIN h = {"from", "heard", "walk"} /\ h.from = g.from /\ h.walk = g.walk
        /\ h.heard = g.heard + clock - Now(c)
    BY <2>1, <2>2 DEF Told
  <2>6. e.started \in Int /\ e.paused \in Int /\ g.heard \in Int /\ g.heard >= e.paused - e.started
    BY <2>2, <2>3 DEF EntryOK, Told, Elapsed
  <2>7. EntryOK(f, audio.ids)
    <3>1. e.started + Now(c) - e.paused \in Int
      BY <2>3, <2>6
    <3> QED BY <2>2, <2>4, <3>1 DEF EntryOK, Running
  <2>8. Told(f, h, audio.seed) /\ Scened(h.from, f.playlist, active)
    <3>1. Elapsed(f, clock) = clock - (e.started + Now(c) - e.paused)
      BY <2>4 DEF Elapsed
    <3>2. h.heard \in Int /\ h.heard >= Elapsed(f, clock)
      BY <2>3, <2>5, <2>6, <3>1
    <3> QED BY Zenon, <2>2, <2>4, <2>5, <3>2 DEF Told
  <2>9. Sets(c, f, h)
    BY Zenon, <1>2, <2>1, <2>2 DEF Resume
  <2> QED BY <1>1, <1>2, <2>2, <2>4, <2>7, <2>8, <2>9, SetsKeeps
<1>3. CASE ~(Plays(Op(c).id) /\ Track(Op(c).id).paused # Running)
  <2>1. UNCHANGED <<audio, history>>
    BY <1>3 DEF Resume
  <2> QED BY <1>1, <2>1, IdleKeeps
<1> QED BY <1>2, <1>3

LEMMA SeekKeeps ==
  ASSUME AudioInv, NEW c \in Gms \cup Listeners, Seek(c)
  PROVE  AudioInv'
<1>1. Answered(c) /\ Still /\ ~Waits(c, "track_ended") /\ Op(c).position \in Nat
  BY DEF Seek, Waits, AudioInv, AskedOK
<1>2. CASE Plays(Op(c).id)
  <2>1. PICK e, g, at, f, h :
          /\ e = Track(Op(c).id) /\ g = history[Op(c).id] /\ at = Op(c).position
          /\ f = [e EXCEPT !.started = Now(c) - at, !.paused = IF e.paused = Running THEN Running ELSE Now(c)]
          /\ h = [g EXCEPT !.heard = at + (IF e.paused = Running THEN clock - Now(c) ELSE 0)]
    OBVIOUS
  <2>2. /\ e.id = Op(c).id /\ EntryOK(e, audio.ids) /\ Told(e, g, audio.seed) /\ Scened(g.from, e.playlist, active)
    BY <1>2, <2>1, TrackFacts
  <2>3. Now(c) \in Nat /\ clock \in Nat /\ Now(c) <= clock /\ at \in Nat
    BY <1>1, <2>1 DEF AudioInv, AskedOK
  <2>4. /\ DOMAIN f = EntryFields /\ f.id = e.id /\ f.playlist = e.playlist /\ f.index = e.index
        /\ f.started = Now(c) - at /\ f.paused = IF e.paused = Running THEN Running ELSE Now(c)
    BY <2>1, <2>2 DEF EntryOK, EntryFields
  <2>5. /\ DOMAIN h = {"from", "heard", "walk"} /\ h.from = g.from /\ h.walk = g.walk
        /\ h.heard = at + (IF e.paused = Running THEN clock - Now(c) ELSE 0)
    BY <2>1, <2>2 DEF Told
  <2>6. EntryOK(f, audio.ids)
    <3>1. Now(c) - at \in Int /\ f.paused \in Int
      BY <2>3, <2>4 DEF Running
    <3> QED BY <2>2, <2>4, <3>1 DEF EntryOK
  <2>7. Told(f, h, audio.seed) /\ Scened(h.from, f.playlist, active)
    <3>1. h.heard \in Int /\ h.heard >= Elapsed(f, clock)
      <4>1. CASE e.paused = Running
        BY <2>3, <2>4, <2>5, <4>1 DEF Elapsed
      <4>2. CASE e.paused # Running
        BY <2>3, <2>4, <2>5, <4>2 DEF Elapsed, Running
      <4> QED BY <4>1, <4>2
    <3> QED BY Zenon, <2>2, <2>4, <2>5, <3>1 DEF Told
  <2>8. Sets(c, f, h)
    BY Zenon, <1>2, <2>1, <2>2 DEF Seek
  <2> QED BY <1>1, <1>2, <2>2, <2>4, <2>6, <2>7, <2>8, SetsKeeps
<1>3. CASE ~Plays(Op(c).id)
  <2>1. UNCHANGED <<audio, history>>
    BY <1>3 DEF Seek
  <2> QED BY <1>1, <2>1, IdleKeeps
<1> QED BY <1>2, <1>3

LEMMA StopKeeps ==
  ASSUME AudioInv, NEW c \in Gms \cup Listeners, Stop(c)
  PROVE  AudioInv'
<1>1. /\ Answered(c) /\ ~Waits(c, "track_ended") /\ active' = active /\ active \in Scenes \cup {None}
      /\ UNCHANGED <<lists, ambience, tab, clock, missed, spoiled>>
  BY DEF Stop, Waits, Still, worlds, AudioInv, Settings
<1>2. PICK a, gone : a = audio' /\ gone = {Op(c).id}
  OBVIOUS
<1>3. a = [audio EXCEPT !.playing = retain(@, gone)] /\ history' = Restrict(history, Ids(a.playing))
  BY Zenon, <1>2 DEF Stop
<1>4. /\ DOMAIN a = {"playing", "seed", "ids"}
      /\ a.playing = retain(audio.playing, gone) /\ a.seed = audio.seed /\ a.ids = audio.ids
  BY <1>3 DEF AudioInv, AudioOK
<1>5. AudioOK(audio)
  BY DEF AudioInv
<1>6. /\ AudioOK(a) /\ Renews(a) /\ a.seed = audio.seed /\ a.ids = audio.ids
      /\ Ids(a.playing) = Ids(audio.playing) \ gone
      /\ \A j \in DOMAIN a.playing : \E l \in DOMAIN audio.playing :
           a.playing[j] = audio.playing[l] /\ audio.playing[l].id \notin gone
  BY ONLY <1>4, <1>5, Taken
<1>7. AllTold(a, history', active)
  <2>1. DOMAIN history' = Ids(a.playing) /\ \A id \in Ids(a.playing) : history'[id] = history[id]
    BY <1>3 DEF Restrict
  <2>2. ASSUME NEW j \in DOMAIN a.playing
        PROVE  /\ Told(a.playing[j], history'[a.playing[j].id], audio.seed)
               /\ Scened(history'[a.playing[j].id].from, a.playing[j].playlist, active)
    <3>1. PICK l \in DOMAIN audio.playing : a.playing[j] = audio.playing[l]
      BY <1>6
    <3>2. /\ Told(audio.playing[l], history[audio.playing[l].id], audio.seed)
          /\ Scened(history[audio.playing[l].id].from, audio.playing[l].playlist, active)
      BY DEF AudioInv, AllTold
    <3>3. history'[a.playing[j].id] = history[audio.playing[l].id]
      BY <2>1, <3>1 DEF Ids
    <3> QED BY <3>1, <3>2, <3>3
  <2> QED BY <1>6, <2>1, <2>2 DEF AllTold
<1>8. Result(audio', history', active')
  BY Zenon, <1>1, <1>2, <1>6, <1>7 DEF Result
<1> QED BY <1>1, <1>8, HandledKeeps

LEMMA StopAllKeeps ==
  ASSUME AudioInv, NEW c \in Gms \cup Listeners, StopAll(c)
  PROVE  AudioInv'
<1>1. /\ Answered(c) /\ ~Waits(c, "track_ended") /\ active' = active /\ active \in Scenes \cup {None}
      /\ UNCHANGED <<lists, ambience, tab, clock, missed, spoiled>>
  BY DEF StopAll, Waits, Still, worlds, AudioInv, Settings
<1>2. /\ DOMAIN audio' = {"playing", "seed", "ids"} /\ audio'.playing = <<>> /\ history' = <<>>
      /\ audio'.seed = audio.seed /\ audio'.ids = audio.ids
  BY DEF StopAll, AudioInv, AudioOK
<1>3. AudioOK(audio')
  <2>1. PlayingOK(<<>>, audio.ids)
    BY EmptyFacts DEF PlayingOK
  <2> QED BY <1>2, <2>1 DEF AudioInv, AudioOK
<1>4. Ids(<<>>) = {}
  BY EmptyFacts DEF Ids
<1>5. AllTold(audio', history', active)
  BY <1>2, <1>4, EmptyFacts DEF AllTold
<1>6. Renews(audio')
  BY <1>2, <1>4 DEF Renews, AudioInv, AudioOK
<1>7. Result(audio', history', active')
  BY <1>1, <1>3, <1>5, <1>6 DEF Result
<1> QED BY <1>1, <1>7, HandledKeeps

LEMMA NextPrevKeeps ==
  ASSUME AudioInv, NEW c \in Gms \cup Listeners, NextPrev(c)
  PROVE  AudioInv'
<1>1. /\ Answered(c) /\ Still /\ ~Waits(c, "track_ended") /\ active' = active /\ active \in Scenes \cup {None}
      /\ UNCHANGED <<lists, ambience, tab, clock, missed, spoiled>>
  BY DEF NextPrev, Waits, Still, worlds, AudioInv, Settings
<1>2. CASE CanAdvance(Op(c).id)
  <2>1. PICK forward \in BOOLEAN : forward = (Op(c).is = "next")
    OBVIOUS
  <2>2. PICK a, hist : a = audio' /\ hist = history'
    OBVIOUS
  <2>3. a = Advanced(Op(c).id, forward, Now(c)) /\ hist = Onward(history, a, Followed(Op(c).id, a, forward, Now(c)))
    BY Zenon, <1>2, <2>1, <2>2 DEF NextPrev, Goes
  <2>4. /\ Settings /\ clock \in Nat /\ AudioOK(audio) /\ AllTold(audio, history, active)
        /\ Now(c) \in Nat
    BY DEF AudioInv, AskedOK
  <2>5. Result(a, hist, active)
    BY ONLY <1>2, <2>1, <2>3, <2>4, GoesFacts, forward \in BOOLEAN
  <2>6. Result(audio', history', active')
    BY Zenon, <1>1, <2>2, <2>5
  <2> QED BY <1>1, <2>6, HandledKeeps
<1>3. CASE ~CanAdvance(Op(c).id)
  <2>1. UNCHANGED <<audio, history>>
    BY <1>3 DEF NextPrev
  <2> QED BY <1>1, <2>1, IdleKeeps
<1> QED BY <1>2, <1>3

(* A report is taken, or dropped: what it is then remembered by.           *)
Taking(id, now) == CanAdvance(id) /\ Track(id).asset \in Probed /\ Out(Track(id), now)

LEMMA TrackEndedFacts ==
  ASSUME AudioInv, NEW c \in Gms \cup Listeners, TrackEnded(c)
  PROVE  /\ Taking(Op(c).id, Now(c)) => Result(audio', history', active) /\ Op(c).id \notin Ids(audio'.playing)
         /\ ~Taking(Op(c).id, Now(c)) =>
              /\ UNCHANGED <<audio, history>>
              /\ Plays(Op(c).id) => <<c, Op(c).id>> \in missed'
         /\ \A m \in missed : m[2] \in Ids(audio'.playing) => m \in missed'
         /\ Answered(c) /\ UNCHANGED <<lists, ambience, active, tab, clock, left, spoiled>>
<1>1. PICK id : id = Op(c).id
  OBVIOUS
<1>2. PICK early : early = (/\ Plays(id)
                            /\ \/ Track(id).asset \notin Probed \/ ~CanAdvance(id)
                               \/ Track(id).paused # Running
                               \/ Now(c) - Track(id).started < Length[Track(id).asset])
  OBVIOUS
<1>3. /\ Answered(c) /\ UNCHANGED <<lists, ambience, active, tab, clock, left, spoiled>>
      /\ IF Taking(id, Now(c)) THEN Goes(id, TRUE, Now(c)) ELSE UNCHANGED <<audio, history>>
      /\ missed' = {m \in missed \cup (IF early THEN {<<c, id>>} ELSE {}) : m[2] \in Ids(audio'.playing)}
  BY Zenon, <1>1, <1>2 DEF TrackEnded, Taking, worlds
<1>4. ASSUME Taking(id, Now(c)) PROVE Result(audio', history', active) /\ id \notin Ids(audio'.playing)
  <2>1. PICK forward \in BOOLEAN : forward = TRUE
    OBVIOUS
  <2>2. PICK a, hist : a = audio' /\ hist = history'
    OBVIOUS
  <2>3. a = Advanced(id, forward, Now(c)) /\ hist = Onward(history, a, Followed(id, a, forward, Now(c)))
    BY Zenon, <1>3, <1>4, <2>1, <2>2 DEF Goes
  <2>4. /\ Settings /\ clock \in Nat /\ AudioOK(audio) /\ AllTold(audio, history, active)
        /\ Now(c) \in Nat /\ CanAdvance(id)
    BY <1>4 DEF AudioInv, AskedOK, Taking
  <2>5. Result(a, hist, active) /\ id \notin Ids(a.playing)
    BY ONLY <2>1, <2>3, <2>4, GoesFacts, forward \in BOOLEAN
  <2> QED BY Zenon, <2>2, <2>5
<1>5. ASSUME ~Taking(id, Now(c)), Plays(id) PROVE <<c, id>> \in missed'
  <2>1. early
    <3>1. CASE ~CanAdvance(id) \/ Track(id).asset \notin Probed \/ Track(id).paused # Running
      BY <1>2, <1>5, <3>1
    <3>2. CASE CanAdvance(id) /\ Track(id).asset \in Probed /\ Track(id).paused = Running
      <4>1. Length[Track(id).asset] \in Int
        BY <3>2, AudioAssumption
      <4>2. Now(c) - Track(id).started \in Int
        BY <1>5, TrackFacts DEF EntryOK, AudioInv, AskedOK
      <4>3. ~(Now(c) - Track(id).started >= Length[Track(id).asset])
        BY <1>5, <3>2 DEF Taking, Out, Elapsed
      <4>4. Now(c) - Track(id).started < Length[Track(id).asset]
        BY ONLY <4>1, <4>2, <4>3
      <4> QED BY Zenon, <1>2, <1>5, <4>4
    <3> QED BY <3>1, <3>2
  <2>2. id \in Ids(audio'.playing)
    BY <1>3, <1>5 DEF Plays
  <2>3. <<c, id>>[2] = id
    OBVIOUS
  <2> QED BY Zenon, <1>3, <2>1, <2>2, <2>3
<1> QED BY <1>1, <1>3, <1>4, <1>5

LEMMA TrackEndedKeeps ==
  ASSUME AudioInv, NEW c \in Gms \cup Listeners, TrackEnded(c)
  PROVE  AudioInv'
<1>1. Result(audio', history', active')
  BY TrackEndedFacts, Same
<1>2. Answered(c) /\ UNCHANGED <<lists, ambience, active, tab, clock, left, spoiled>>
  BY TrackEndedFacts
<1>3. Settings'
  BY <1>2, SettingsKeep DEF AudioInv, Settings
<1>4. AudioOK(audio)'
  BY <1>1, AudioKeeps DEF Result
<1>5. AskedOK'
  BY <1>2, AskedKeeps DEF AudioInv
<1>6. TabOK'
  BY <1>1, <1>2, TabKeeps DEF AudioInv, Result
<1>7. AllTold(audio, history, active)'
  BY <1>1, <1>2, ToldKeeps DEF Result
<1>8. EndAdvancesUnlessMissed'
  <2> SUFFICES ASSUME NEW b \in Listeners, NEW id \in tab[b].ended, id \in Ids(audio'.playing)
               PROVE  (asked'[b].op.is = "track_ended" /\ asked'[b].op.id = id) \/ <<b, id>> \in missed'
    BY <1>2 DEF EndAdvancesUnlessMissed, Waits, Op, Plays, Ids
  <2>1. Plays(id)
    BY <1>1, StillPlays DEF AudioInv, Result
  <2>2. (Waits(b, "track_ended") /\ Op(b).id = id) \/ <<b, id>> \in missed
    BY <2>1 DEF AudioInv, EndAdvancesUnlessMissed
  <2>3. CASE <<b, id>> \in missed
    <3>1. <<b, id>>[2] = id
      OBVIOUS
    <3> QED BY <2>3, <3>1, TrackEndedFacts
  <2>4. CASE b = c /\ Op(b).id = id
    BY <2>1, <2>4, TrackEndedFacts
  <2>5. CASE b # c /\ Waits(b, "track_ended") /\ Op(b).id = id
    <3>1. asked'[b] = asked[b]
      BY <1>2, <2>5 DEF Answered, AudioInv, AskedOK
    <3> QED BY <2>5, <3>1 DEF Waits, Op
  <2> QED BY <2>2, <2>3, <2>4, <2>5
<1> QED BY <1>3, <1>4, <1>5, <1>6, <1>7, <1>8 DEF AudioInv

(* The scene changes, and with it what plays.                              *)
LEMMA SwappedFacts ==
  ASSUME AudioInv, NEW new \in Scenes \cup {None}, new # active, NEW now \in Nat,
         NEW a, a = Swapped(new, now), NEW h, h = (IF a.seed # audio.seed THEN Anew(history) ELSE history),
         NEW hist, hist = Begun(h, a, new, now)
  PROVE  Result(a, hist, new)
<1>1. PICK was, come, leave, rest, op :
        /\ was = (IF active = None THEN None ELSE ambience[active])
        /\ come = (IF new = None THEN None ELSE ambience[new])
        /\ leave = {e.id : e \in {d \in Range(audio.playing) : was # None /\ Leaves(d, was)}}
        /\ rest = [audio EXCEPT !.playing = retain(@, leave)]
        /\ op = [is |-> "play", playlist |-> come, index |-> Nowhere]
  OBVIOUS
<1>2. PICK starts : starts = (/\ come # None
                              /\ \A k \in DOMAIN rest.playing : rest.playing[k].playlist # come
                              /\ CanPlay(rest, op))
  OBVIOUS
<1>3. a = IF starts THEN Played(rest, op, "ambience", now) ELSE rest
  BY Zenon, <1>1, <1>2 DEF Swapped
<1>4. /\ DOMAIN rest = {"playing", "seed", "ids"}
      /\ rest.playing = retain(audio.playing, leave) /\ rest.seed = audio.seed /\ rest.ids = audio.ids
  BY <1>1 DEF AudioInv, AudioOK
<1>5. AudioOK(audio) /\ Settings /\ clock \in Nat
  BY DEF AudioInv, AskedOK
<1>6. /\ AudioOK(rest) /\ Renews(rest) /\ rest.seed = audio.seed /\ rest.ids = audio.ids
      /\ Ids(rest.playing) = Ids(audio.playing) \ leave
      /\ \A j \in DOMAIN rest.playing : \E l \in DOMAIN audio.playing :
           rest.playing[j] = audio.playing[l] /\ audio.playing[l].id \notin leave
  BY ONLY <1>4, <1>5, Taken
<1>7. Tells(history, rest, audio.seed, new)
  <2> SUFFICES ASSUME NEW j \in DOMAIN rest.playing, NEW e, e = rest.playing[j]
               PROVE  /\ e.id \in DOMAIN history /\ Told(e, history[e.id], audio.seed)
                      /\ Scened(history[e.id].from, e.playlist, new)
    BY DEF Tells
  <2>1. PICK l \in DOMAIN audio.playing : e = audio.playing[l] /\ e.id \notin leave
    BY <1>6
  <2>2. /\ e.id \in DOMAIN history /\ Told(e, history[e.id], audio.seed)
        /\ Scened(history[e.id].from, e.playlist, active)
    BY <2>1, IdsFacts DEF Tells
  <2>3. e \in Range(audio.playing)
    BY <2>1 DEF Range
  <2>4. was # None => e.playlist # was
    BY <1>1, <2>1, <2>3 DEF Leaves
  <2>5. Scened(history[e.id].from, e.playlist, new)
    BY <1>1, <2>2, <2>4 DEF Scened
  <2> QED BY <2>2, <2>5
<1>8. Tells(h, rest, a.seed, new)
  <2>1. CASE a.seed # audio.seed
    BY <1>6, <1>7, <2>1, AnewTells
  <2>2. CASE a.seed = audio.seed
    BY <1>7, <2>2
  <2> QED BY <2>1, <2>2
<1>9. CASE starts
  <2>1. come # None /\ CanPlay(rest, op)
    BY <1>2, <1>9
  <2>2. op.playlist = come /\ op.index = Nowhere
    BY <1>1
  <2>3. come \in DOMAIN Lists \cup {None} /\ new # None /\ come = ambience[new]
    BY <1>1, <1>5, <2>1 DEF Settings
  <2>4. Scened(new, op.playlist, new)
    BY <2>1, <2>2, <2>3 DEF Scened
  <2>5. \A id \in DOMAIN h : id \in Nat /\ id <= rest.ids
    <3>1. DOMAIN h = DOMAIN history
      BY DEF Anew
    <3> QED BY <1>6, <3>1, IdsFacts
  <2>6. a = Played(rest, op, "ambience", now) /\ hist = Begun(h, a, new, now)
    BY <1>3, <1>9
  <2>7. op.index \in Nat
    BY <2>2 DEF Nowhere
  <2>8. Starts(rest, h, op, "ambience", new, now, a, hist, new)
    BY Zenon, <1>6, <1>8, <2>1, <2>2, <2>3, <2>4, <2>5, <2>6, <2>7 DEF Starts
  <2>9. /\ AudioOK(a) /\ AllTold(a, hist, new)
        /\ Ids(a.playing) = Ids(rest.playing) \cup {rest.ids + 1} /\ a.ids = rest.ids + 1
    BY ONLY <1>5, <2>8, PlayedFacts
  <2>10. Renews(a)
    <3>1. audio.ids \in Nat /\ a.ids = audio.ids + 1 /\ \A id \in Ids(a.playing) : id \in Ids(audio.playing) \/ id = audio.ids + 1
      BY <1>5, <1>6, <2>9 DEF AudioOK
    <3> QED BY ONLY <3>1 DEF Renews
  <2> QED BY <2>9, <2>10 DEF Result
<1>10. CASE ~starts
  <2>1. a = rest
    BY <1>3, <1>10
  <2>2. Tells(h, a, a.seed, new)
    BY Zenon, <1>8, <2>1
  <2>3. AllTold(a, hist, new)
    BY ONLY <2>2, OnwardTells, hist = Begun(h, a, new, now) DEF Begun
  <2> QED BY Zenon, <1>6, <2>1, <2>3 DEF Result
<1> QED BY <1>9, <1>10

LEMMA SetActiveKeeps ==
  ASSUME AudioInv, NEW c \in Gms \cup Listeners, SetActive(c)
  PROVE  AudioInv'
<1>1. /\ Answered(c) /\ ~Waits(c, "track_ended") /\ active' \in Scenes \cup {None} /\ Now(c) \in Nat
      /\ UNCHANGED <<lists, ambience, tab, clock, missed>>
  BY DEF SetActive, Waits, AudioInv, AskedOK
<1> DEFINE PlaysOn ==
      /\ spoiled' = TRUE \/ spoiled' = (spoiled \/ \E id \in DOMAIN history : history[id].from \notin {None, active'})
      /\ UNCHANGED <<audio, history>>
<1>2. PICK a, h, new :
        /\ a = (IF active' = active THEN audio ELSE Swapped(active', Now(c)))
        /\ h = (IF a.seed # audio.seed THEN Anew(history) ELSE history) /\ new = active'
  OBVIOUS
<1>3. \/ audio' = a /\ history' = Begun(h, a, new, Now(c)) /\ spoiled' = spoiled
      \/ PlaysOn
  <2>1. CASE Op(c).exact
    BY Zenon, <1>2, <2>1 DEF SetActive
  <2>2. CASE ~Op(c).exact
    BY Zenon, <2>2 DEF SetActive
  <2> QED BY Zenon, <2>1, <2>2
<1>4. CASE audio' = a /\ history' = Begun(h, a, new, Now(c)) /\ spoiled' = spoiled
  <2>1. Result(a, history', new)
    <3>1. CASE active' = active
      <4>1. a = audio /\ h = history /\ new = active
        BY <1>2, <3>1
      <4>2. Tells(h, a, a.seed, new)
        BY Zenon, <4>1, IdsFacts
      <4>3. AllTold(a, history', new)
        BY ONLY <1>4, <4>2, OnwardTells DEF Begun
      <4> QED BY Zenon, <4>1, <4>3, Same DEF Result
    <3>2. CASE active' # active
      <4>1. PICK hist, now : hist = history' /\ now = Now(c)
        OBVIOUS
      <4>2. /\ a = Swapped(new, now) /\ h = (IF a.seed # audio.seed THEN Anew(history) ELSE history)
            /\ hist = Begun(h, a, new, now) /\ new # active /\ new \in Scenes \cup {None} /\ now \in Nat
        BY Zenon, <1>1, <1>2, <1>4, <3>2, <4>1
      <4>3. Result(a, hist, new)
        BY ONLY AudioInv, <4>2, SwappedFacts
      <4> QED BY Zenon, <4>1, <4>3
    <3> QED BY <3>1, <3>2
  <2>2. Result(audio', history', active')
    BY Zenon, <1>2, <1>4, <2>1
  <2> QED BY <1>1, <1>4, <2>2, HandledKeeps
<1>5. CASE PlaysOn
  <2>0. UNCHANGED <<audio, history>>
    BY Zenon, <1>5
  <2>1. Settings'
    BY <1>1, SettingsKeep DEF AudioInv
  <2>2. Result(audio', history', active)
    BY <2>0, Same
  <2>3. AudioOK(audio)'
    BY <2>2, AudioKeeps DEF Result
  <2>4. AskedOK' /\ TabOK'
    BY <1>1, <2>2, AskedKeeps, TabKeeps DEF AudioInv, Result
  <2>5. AllTold(audio, history, active)'
    <3>1. ASSUME NEW k \in DOMAIN audio.playing
          PROVE  TellsNext(audio.playing[k], history[audio.playing[k].id])
      <4>1. PICK e, g : e = audio.playing[k] /\ g = history[e.id]
        OBVIOUS
      <4>2. Told(e, g, audio.seed) /\ Scened(g.from, e.playlist, active) /\ e.id \in DOMAIN history
        BY <4>1 DEF AudioInv, AllTold, Ids
      <4>3. spoiled' \/ g.from = None \/ g.from = active'
        BY Zenon, <1>5, <4>1, <4>2
      <4>4. \/ spoiled' \/ g.from = None
            \/ g.from = active' /\ active' # None /\ e.playlist = ambience'[active'] /\ e.playlist # None
        <5>1. spoiled => spoiled'
          BY Zenon, <1>5
        <5> QED BY Zenon, <1>1, <4>2, <4>3, <5>1 DEF Scened
      <4>5. TellsNext(e, g)
        BY <1>1, <2>0, <4>2, <4>4 DEF TellsNext, Told, Walked
      <4> QED BY <4>1, <4>5
    <3>2. DOMAIN history = Ids(audio.playing)
      BY DEF AudioInv, AllTold
    <3> QED BY <2>0, <3>1, <3>2, ToldNext
  <2>6. EndAdvancesUnlessMissed'
    BY <1>1, <2>2, EndsKeep DEF AudioInv, Result
  <2> QED BY <2>1, <2>3, <2>4, <2>5, <2>6 DEF AudioInv
<1> QED BY <1>3, <1>4, <1>5

LEMMA HandleKeeps ==
  ASSUME AudioInv, NEW c \in Gms \cup Listeners, Handle(c)
  PROVE  AudioInv'
BY PlayKeeps, PauseKeeps, ResumeKeeps, SeekKeeps, StopKeeps, StopAllKeeps, NextPrevKeeps, TrackEndedKeeps,
   SetActiveKeeps DEF Handle

(* What leaves the document alone, and no report unanswered.               *)
LEMMA OthersKeep ==
  ASSUME AudioInv, audio' = audio, Settings', AskedOK', AllTold(audio, history, active)'
  PROVE  /\ UNCHANGED <<asked, tab, missed>> => AudioInv'
         /\ TabOK' /\ EndAdvancesUnlessMissed' => AudioInv'
<1>1. AudioOK(audio)'
  BY AudioKeeps DEF AudioInv
<1>2. ASSUME UNCHANGED <<asked, tab, missed>> PROVE TabOK' /\ EndAdvancesUnlessMissed'
  BY <1>2 DEF AudioInv, TabOK, EndAdvancesUnlessMissed, Waits, Op, Plays, Ids
<1> QED BY <1>1, <1>2 DEF AudioInv

LEMMA EditAmbienceKeeps ==
  ASSUME AudioInv, NEW edit \in Asks.ambiences, EditAmbience(edit[1], edit[2])
  PROVE  AudioInv'
<1>1. PICK s, p : s = edit[1] /\ p = edit[2]
  OBVIOUS
<1>2. s \in Scenes /\ p \in DOMAIN Lists \cup {None}
  BY <1>1, AudioAssumption
<1>3. /\ ambience' = [ambience EXCEPT ![s] = p]
      /\ spoiled' = (spoiled \/ \E id \in DOMAIN history : history[id].from = s)
      /\ UNCHANGED <<audio, lists, active, asked, tab, clock, history, missed>>
  BY <1>1 DEF EditAmbience
<1>4. /\ DOMAIN ambience' = Scenes /\ ambience'[s] = p
      /\ \A z \in Scenes : z # s => ambience'[z] = ambience[z]
  BY <1>2, <1>3 DEF AudioInv, Settings
<1>5. Settings'
  <2>1. \A z \in Scenes : ambience'[z] \in DOMAIN Lists \cup {None}
    BY <1>2, <1>4 DEF AudioInv, Settings
  <2>2. active' \in Scenes \cup {None} /\ DOMAIN lists' = DOMAIN Lists
    BY <1>3 DEF AudioInv, Settings
  <2>3. \A l \in DOMAIN Lists : lists'[l] = Gone \/ IsPlaylist(lists'[l])
    BY <1>3 DEF AudioInv, Settings
  <2> QED BY <1>4, <2>1, <2>2, <2>3 DEF Settings, IsPlaylist, Seeds, Range, Gone
<1>6. AskedOK'
  BY <1>3 DEF AudioInv, AskedOK, Now, Waits, Op, IsPlay
<1>7. AllTold(audio, history, active)'
  <2>1. ASSUME NEW k \in DOMAIN audio.playing PROVE TellsNext(audio.playing[k], history[audio.playing[k].id])
    <3>1. PICK e, h : e = audio.playing[k] /\ h = history[e.id]
      OBVIOUS
    <3>2. Told(e, h, audio.seed) /\ Scened(h.from, e.playlist, active) /\ e.id \in DOMAIN history
      BY <3>1 DEF AudioInv, AllTold, Ids
    <3>3. spoiled' \/ h.from = None
            \/ (h.from = active' /\ active' # None /\ e.playlist = ambience'[active'] /\ e.playlist # None)
      <4>1. CASE h.from = s
        BY <1>3, <3>1, <3>2, <4>1
      <4>2. CASE h.from # s
        BY <1>3, <1>4, <3>2, <4>2 DEF Scened, AudioInv, Settings
      <4> QED BY <4>1, <4>2
    <3>4. TellsNext(e, h)
      BY <1>3, <3>2, <3>3 DEF TellsNext, Told, Walked
    <3> QED BY <3>1, <3>4
  <2>2. DOMAIN history = Ids(audio.playing)
    BY DEF AudioInv, AllTold
  <2> QED BY <1>3, <2>1, <2>2, ToldNext
<1> QED BY <1>3, <1>5, <1>6, <1>7, OthersKeep

LEMMA EditListKeeps ==
  ASSUME AudioInv, NEW p \in DOMAIN lists, NEW list \in Edits[p], EditList(p, list)
  PROVE  AudioInv'
<1>1. p \in DOMAIN Lists /\ DOMAIN lists = DOMAIN Lists
  BY DEF AudioInv, Settings
<1>2. list = Gone \/ IsPlaylist(list)
  BY <1>1, AudioAssumption
<1>3. /\ DOMAIN lists' = DOMAIN Lists /\ lists'[p] = list
      /\ \A l \in DOMAIN Lists : l # p => lists'[l] = lists[l]
  BY <1>1 DEF EditList
<1>4. UNCHANGED <<audio, ambience, active, asked, tab, clock, missed, spoiled>>
  BY DEF EditList
<1>5. history' = [id \in DOMAIN history |->
                    IF Track(id).playlist = p THEN [history[id] EXCEPT !.walk = <<Last(@)>>]
                    ELSE history[id]]
  BY DEF EditList
<1>6. Settings'
  <2>1. \A l \in DOMAIN Lists : lists'[l] = Gone \/ IsPlaylist(lists'[l])
    BY <1>2, <1>3 DEF AudioInv, Settings
  <2>2. /\ DOMAIN ambience' = Scenes /\ \A s \in Scenes : ambience'[s] \in DOMAIN Lists \cup {None}
        /\ active' \in Scenes \cup {None}
    BY <1>4 DEF AudioInv, Settings
  <2> QED BY <1>3, <2>1, <2>2 DEF Settings, IsPlaylist, Seeds, Range, Gone
<1>7. AskedOK'
  BY <1>4 DEF AudioInv, AskedOK, Now, Waits, Op, IsPlay
<1>8. AllTold(audio, history, active)'
  <2>1. ASSUME NEW k \in DOMAIN audio.playing PROVE TellsNext(audio.playing[k], history'[audio.playing[k].id])
    <3>1. PICK e, g, h : e = audio.playing[k] /\ g = history[e.id] /\ h = history'[e.id]
      OBVIOUS
    <3>2. /\ Told(e, g, audio.seed) /\ Scened(g.from, e.playlist, active) /\ e.id \in DOMAIN history
          /\ Plays(e.id)
      BY <3>1 DEF AudioInv, AllTold, Ids, Plays
    <3>3. Track(e.id) = e
      BY <3>1, <3>2, AtFacts DEF AudioInv
    <3>4. h = IF e.playlist = p THEN [g EXCEPT !.walk = <<Last(@)>>] ELSE g
      BY <1>5, <3>1, <3>2, <3>3
    <3>5. CASE e.playlist = p
      <4>1. /\ DOMAIN h = {"from", "heard", "walk"} /\ h.from = g.from /\ h.heard = g.heard
            /\ h.walk = <<e.index>>
        BY <3>2, <3>4, <3>5 DEF Told
      <4>2. IsSeq(h.walk) /\ h.walk # <<>> /\ Last(h.walk) = e.index /\ ~(Len(h.walk) > 1)
        BY <4>1, OneFacts
      <4>3. TellsNext(e, h)
        BY <1>4, <3>2, <4>1, <4>2 DEF TellsNext, Told, Scened
      <4> QED BY <3>1, <4>3
    <3>6. CASE e.playlist # p
      <4>1. h = g
        BY <3>4, <3>6
      <4>2. e.playlist # None => lists'[e.playlist] = lists[e.playlist]
        <5>1. e.playlist \in DOMAIN Lists \cup {None}
          BY <3>1 DEF AudioInv, AudioOK, PlayingOK, EntryOK
        <5> QED BY <1>3, <3>6, <5>1
      <4>3. TellsNext(e, g)
        BY <1>4, <3>2, <4>2 DEF TellsNext, Told, Walked, Scened
      <4> QED BY <3>1, <4>1, <4>3
    <3> QED BY <3>5, <3>6
  <2>2. DOMAIN history' = Ids(audio.playing)
    BY <1>5 DEF AudioInv, AllTold
  <2> QED BY <1>4, <2>1, <2>2, ToldNext
<1> QED BY <1>4, <1>6, <1>7, <1>8, OthersKeep

LEMMA TickKeeps ==
  ASSUME AudioInv, Tick
  PROVE  AudioInv'
<1>1. /\ clock' = clock + 1 /\ clock \in Nat /\ clock' \in Nat
      /\ UNCHANGED <<audio, lists, ambience, active, asked, tab, left, missed, spoiled>>
  BY DEF Tick, worlds, AudioInv, AskedOK
<1>2. history' = [id \in DOMAIN history |->
                    IF Track(id).paused = Running THEN [history[id] EXCEPT !.heard = @ + 1]
                    ELSE history[id]]
  BY DEF Tick
<1>3. Settings'
  BY <1>1, SettingsKeep DEF AudioInv, Settings
<1>4. AskedOK'
  <2>1. \A c \in Gms \cup Listeners : asked[c].now \in Nat /\ asked[c].now <= clock + 1
    BY <1>1 DEF AudioInv, AskedOK, Now
  <2> QED BY <1>1, <2>1 DEF AudioInv, AskedOK, Now, Waits, Op, IsPlay
<1>5. AllTold(audio, history, active)'
  <2>1. ASSUME NEW k \in DOMAIN audio.playing PROVE TellsNext(audio.playing[k], history'[audio.playing[k].id])
    <3>1. PICK e, g, h : e = audio.playing[k] /\ g = history[e.id] /\ h = history'[e.id]
      OBVIOUS
    <3>2. /\ Told(e, g, audio.seed) /\ Scened(g.from, e.playlist, active) /\ e.id \in DOMAIN history
          /\ Plays(e.id)
      BY <3>1 DEF AudioInv, AllTold, Ids, Plays
    <3>3. Track(e.id) = e
      BY <3>1, <3>2, AtFacts DEF AudioInv
    <3>4. h = IF e.paused = Running THEN [g EXCEPT !.heard = @ + 1] ELSE g
      BY <1>2, <3>1, <3>2, <3>3
    <3>5. /\ DOMAIN h = {"from", "heard", "walk"} /\ h.from = g.from /\ h.walk = g.walk
          /\ h.heard = IF e.paused = Running THEN g.heard + 1 ELSE g.heard
      BY <3>2, <3>4 DEF Told
    <3>6. e.started \in Int /\ e.paused \in Int /\ g.heard \in Int /\ g.heard >= Elapsed(e, clock)
      BY <3>1, <3>2 DEF AudioInv, AudioOK, PlayingOK, EntryOK, Told
    <3>7. h.heard \in Int /\ h.heard >= Elapsed(e, clock')
      <4>1. CASE e.paused = Running
        BY <1>1, <3>5, <3>6, <4>1 DEF Elapsed
      <4>2. CASE e.paused # Running
        BY <1>1, <3>5, <3>6, <4>2 DEF Elapsed
      <4> QED BY <4>1, <4>2
    <3>8. TellsNext(e, h)
      <4>1. /\ IsSeq(h.walk) /\ h.walk # <<>> /\ Last(h.walk) = e.index
            /\ e.playlist # None /\ lists'[e.playlist].mode = "shuffle" /\ Len(h.walk) > 1 =>
                 InOrder(lists'[e.playlist], audio.seed, h.walk)
        BY <1>1, <3>2, <3>5 DEF Told, Walked
      <4>2. \/ spoiled' \/ h.from = None
            \/ h.from = active' /\ active' # None /\ e.playlist = ambience'[active'] /\ e.playlist # None
        BY <1>1, <3>2, <3>5 DEF Scened
      <4> QED BY Zenon, <3>5, <3>7, <4>1, <4>2 DEF TellsNext
    <3> QED BY <3>1, <3>8
  <2>2. DOMAIN history' = Ids(audio.playing)
    BY <1>2 DEF AudioInv, AllTold
  <2> QED BY <1>1, <2>1, <2>2, ToldNext
<1> QED BY <1>1, <1>3, <1>4, <1>5, OthersKeep

(* What touches neither the document nor the worlds.                       *)
LEMMA SessionsKeep ==
  ASSUME AudioInv, UNCHANGED <<audio, worlds, clock, history, spoiled>>, AskedOK', TabOK', EndAdvancesUnlessMissed'
  PROVE  AudioInv'
<1>1. Settings'
  BY SettingsKeep DEF AudioInv, Settings, worlds
<1>2. AllTold(audio, history, active)'
  BY ToldKeeps DEF AudioInv, worlds
<1> QED BY <1>1, <1>2, OthersKeep

LEMMA AskKeeps ==
  ASSUME AudioInv, NEW c \in Gms, Ask(c)
  PROVE  AudioInv'
<1>1. PICK op \in Operations : asked' = [asked EXCEPT ![c] = [op |-> op, now |-> clock]]
  BY DEF Ask
<1>2. asked[c] = Idle /\ UNCHANGED <<audio, worlds, tab, clock, history, missed, spoiled>>
  BY DEF Ask
<1>3. /\ op.is = "play" => IsPlay(op)
      /\ op.is = "seek" => op.position \in Nat
      /\ op.is = "active" => op.scene \in Scenes \cup {None}
      /\ op.is # "track_ended"
  BY AudioAssumption DEF Operations, IsPlay
<1>4. /\ asked'[c] = [op |-> op, now |-> clock]
      /\ \A b \in Gms \cup Listeners : b # c => asked'[b] = asked[b]
      /\ DOMAIN asked' = Gms \cup Listeners
  BY <1>1 DEF AudioInv, AskedOK
<1>5. AskedOK'
  <2>1. ASSUME NEW b \in Gms \cup Listeners
        PROVE  /\ DOMAIN asked'[b] = {"op", "now"}
               /\ asked'[b].now \in Nat /\ asked'[b].now <= clock
               /\ asked'[b].op.is = "play" => IsPlay(asked'[b].op)
               /\ asked'[b].op.is = "seek" => asked'[b].op.position \in Nat
               /\ asked'[b].op.is = "active" => asked'[b].op.scene \in Scenes \cup {None}
    <3>1. CASE b = c
      <4>1. DOMAIN asked'[c] = {"op", "now"} /\ asked'[c].now = clock /\ asked'[c].op = op
        BY <1>4
      <4>2. clock \in Nat /\ clock <= clock
        BY DEF AudioInv, AskedOK
      <4> QED BY <1>3, <3>1, <4>1, <4>2
    <3>2. CASE b # c
      BY <1>4, <3>2 DEF AudioInv, AskedOK, Now, Waits, Op
    <3> QED BY <3>1, <3>2
  <2> QED BY <1>2, <1>4, <2>1 DEF AudioInv, AskedOK, Now, Waits, Op, IsPlay
<1>6. TabOK'
  BY <1>2 DEF AudioInv, TabOK
<1>7. EndAdvancesUnlessMissed'
  <2>1. ASSUME NEW b \in Listeners, Waits(b, "track_ended") PROVE asked'[b] = asked[b]
    <3>1. b # c
      BY <1>2, <2>1 DEF Waits, Idle
    <3> QED BY <1>4, <3>1
  <2> QED BY <1>2, <2>1 DEF AudioInv, EndAdvancesUnlessMissed, Waits, Op, Plays, Ids
<1> QED BY <1>2, <1>5, <1>6, <1>7, SessionsKeep

LEMMA applyStateKeeps ==
  ASSUME AudioInv, NEW c \in Listeners, applyState(c)
  PROVE  AudioInv'
<1>1. UNCHANGED <<audio, worlds, asked, clock, left, history, missed, spoiled>>
  BY DEF applyState
<1>2. /\ DOMAIN tab' = Listeners /\ DOMAIN tab'[c] = {"view", "ended"}
      /\ tab'[c].view = Shown /\ tab'[c].ended = {}
      /\ \A b \in Listeners : b # c => tab'[b] = tab[b]
  BY DEF applyState, AudioInv, TabOK
<1>3. AskedOK'
  BY <1>1 DEF AudioInv, AskedOK, Now, Waits, Op, IsPlay
<1>4. TabOK'
  <2>1. \A k \in DOMAIN Shown : Shown[k].id \in Nat /\ Shown[k].id <= audio.ids
    BY DEF Shown, Heard, AudioInv, AudioOK, PlayingOK, EntryOK
  <2>2. ASSUME NEW b \in Listeners
        PROVE  /\ DOMAIN tab'[b] = {"view", "ended"}
               /\ \A k \in DOMAIN tab'[b].view : tab'[b].view[k].id \in Nat /\ tab'[b].view[k].id <= audio.ids
               /\ \A id \in tab'[b].ended : id \in Nat /\ id <= audio.ids
    <3>1. CASE b = c
      BY <1>2, <2>1, <3>1
    <3>2. CASE b # c
      BY <1>2, <3>2 DEF AudioInv, TabOK
    <3> QED BY <3>1, <3>2
  <2> QED BY <1>1, <1>2, <2>2 DEF TabOK
<1>5. EndAdvancesUnlessMissed'
  <2>1. \A b \in Listeners : tab'[b].ended \subseteq tab[b].ended
    BY <1>2
  <2> QED BY <1>1, <2>1 DEF AudioInv, EndAdvancesUnlessMissed, Waits, Op, Plays, Ids
<1> QED BY <1>1, <1>3, <1>4, <1>5, SessionsKeep

LEMMA onendedKeeps ==
  ASSUME AudioInv, NEW c \in Listeners, onended(c)
  PROVE  AudioInv'
<1>1. PICK k \in DOMAIN tab[c].view :
        /\ tab' = [tab EXCEPT ![c].ended = @ \cup {tab[c].view[k].id}]
        /\ \/ /\ asked' = [asked EXCEPT ![c] =
                             [op |-> [is |-> "track_ended", id |-> tab[c].view[k].id], now |-> clock]]
              /\ UNCHANGED <<left, missed>>
           \/ /\ tab[c].view[k].id \in Ids(audio.playing)
              /\ missed' = missed \cup {<<c, tab[c].view[k].id>>} /\ UNCHANGED asked
  BY DEF onended
<1>2. asked[c] = Idle /\ UNCHANGED <<audio, worlds, clock, history, spoiled>>
  BY DEF onended
<1>3. PICK id, frame : id = tab[c].view[k].id /\ frame = [op |-> [is |-> "track_ended", id |-> id], now |-> clock]
  OBVIOUS
<1>4. id \in Nat /\ id <= audio.ids
  BY <1>3 DEF AudioInv, TabOK
<1>5. /\ DOMAIN tab' = Listeners /\ DOMAIN tab'[c] = {"view", "ended"}
      /\ tab'[c].view = tab[c].view /\ tab'[c].ended = tab[c].ended \cup {id}
      /\ \A b \in Listeners : b # c => tab'[b] = tab[b]
  BY <1>1, <1>3 DEF AudioInv, TabOK
<1>6. /\ \/ asked'[c] = frame /\ missed' = missed
         \/ missed' = missed \cup {<<c, id>>} /\ asked'[c] = asked[c]
      /\ \A b \in Gms \cup Listeners : b # c => asked'[b] = asked[b]
      /\ DOMAIN asked' = Gms \cup Listeners
  BY <1>1, <1>3 DEF AudioInv, AskedOK
<1>7. AskedOK'
  <2>1. /\ DOMAIN frame = {"op", "now"} /\ frame.now = clock /\ frame.op.is = "track_ended" /\ frame.op.id = id
    BY <1>3
  <2>2. ASSUME NEW b \in Gms \cup Listeners
        PROVE  /\ DOMAIN asked'[b] = {"op", "now"}
               /\ asked'[b].now \in Nat /\ asked'[b].now <= clock
               /\ asked'[b].op.is = "play" => IsPlay(asked'[b].op)
               /\ asked'[b].op.is = "seek" => asked'[b].op.position \in Nat
               /\ asked'[b].op.is = "active" => asked'[b].op.scene \in Scenes \cup {None}
    <3>1. CASE b = c /\ asked'[c] = frame
      <4>1. clock \in Nat /\ clock <= clock
        BY DEF AudioInv, AskedOK
      <4> QED BY <2>1, <3>1, <4>1
    <3>2. CASE asked'[b] = asked[b]
      BY <3>2 DEF AudioInv, AskedOK, Now, Waits, Op
    <3> QED BY <1>6, <3>1, <3>2
  <2> QED BY <1>2, <1>6, <2>2 DEF AudioInv, AskedOK, Now, Waits, Op, IsPlay
<1>8. TabOK'
  <2>1. ASSUME NEW b \in Listeners
        PROVE  /\ DOMAIN tab'[b] = {"view", "ended"}
               /\ \A j \in DOMAIN tab'[b].view : tab'[b].view[j].id \in Nat /\ tab'[b].view[j].id <= audio.ids
               /\ \A i \in tab'[b].ended : i \in Nat /\ i <= audio.ids
    <3>1. CASE b = c
      BY <1>4, <1>5, <3>1 DEF AudioInv, TabOK
    <3>2. CASE b # c
      BY <1>5, <3>2 DEF AudioInv, TabOK
    <3> QED BY <3>1, <3>2
  <2> QED BY <1>2, <1>5, <2>1 DEF TabOK
<1>9. EndAdvancesUnlessMissed'
  <2> SUFFICES ASSUME NEW b \in Listeners, NEW i \in tab'[b].ended, i \in Ids(audio.playing)
               PROVE  (asked'[b].op.is = "track_ended" /\ asked'[b].op.id = i) \/ <<b, i>> \in missed'
    BY <1>2 DEF EndAdvancesUnlessMissed, Waits, Op, Plays, Ids
  <2>1. CASE b = c /\ i = id
    <3>1. frame.op.is = "track_ended" /\ frame.op.id = id
      BY <1>3
    <3> QED BY <1>6, <2>1, <3>1
  <2>2. CASE b = c /\ i # id
    <3>1. i \in tab[c].ended /\ ~Waits(c, "track_ended")
      BY <1>2, <1>5, <2>2 DEF Waits, Idle
    <3>2. <<c, i>> \in missed
      BY <3>1 DEF AudioInv, EndAdvancesUnlessMissed, Plays
    <3> QED BY <1>6, <2>2, <3>2
  <2>3. CASE b # c
    <3>1. i \in tab[b].ended /\ asked'[b] = asked[b]
      BY <1>5, <1>6, <2>3
    <3>2. (Waits(b, "track_ended") /\ Op(b).id = i) \/ <<b, i>> \in missed
      BY <3>1 DEF AudioInv, EndAdvancesUnlessMissed, Plays
    <3> QED BY <1>6, <3>1, <3>2 DEF Waits, Op
  <2> QED BY <2>1, <2>2, <2>3
<1> QED BY <1>2, <1>7, <1>8, <1>9, SessionsKeep

LEMMA NextKeeps ==
  ASSUME AudioInv, [Next]_vars
  PROVE  AudioInv'
<1>1. CASE Next
  BY <1>1, HandleKeeps, AskKeeps, applyStateKeeps, onendedKeeps, EditAmbienceKeeps, EditListKeeps, TickKeeps DEF Next
<1>2. CASE UNCHANGED vars
  <2>1. UNCHANGED <<audio, worlds, clock, history, spoiled, asked, tab, missed>>
    BY <1>2 DEF vars, worlds
  <2>2. AskedOK' /\ TabOK' /\ EndAdvancesUnlessMissed'
    BY <2>1 DEF AudioInv, AskedOK, TabOK, EndAdvancesUnlessMissed, Now, Waits, Op, IsPlay, Plays, Ids
  <2> QED BY <2>1, <2>2, SessionsKeep
<1> QED BY <1>1, <1>2

LEMMA InitHolds == Init => AudioInv
<1> SUFFICES ASSUME Init PROVE AudioInv
  OBVIOUS
<1>1. /\ lists = Lists /\ ambience = Ambience /\ active = None /\ clock = 0
      /\ asked = [c \in Gms \cup Listeners |-> Idle]
      /\ tab = [c \in Listeners |-> [view |-> <<>>, ended |-> {}]]
      /\ history = Begun(<<>>, audio, None, 0)
  BY DEF Init
<1>2. Settings /\ clock \in Nat
  BY <1>1, AudioAssumption DEF Settings
<1>3. AskedOK
  <2>1. DOMAIN Idle = {"op", "now"} /\ Idle.now = 0 /\ Idle.op.is = "none"
    BY DEF Idle
  <2> QED BY <1>1, <2>1 DEF AskedOK, Now, Waits, Op
<1>4. TabOK /\ EndAdvancesUnlessMissed
  BY <1>1, EmptyFacts DEF TabOK, EndAdvancesUnlessMissed
<1>5. AudioOK(Silence) /\ Silence.playing = <<>> /\ Silence.ids = 0 /\ Silence.seed = 0
  <2>1. PlayingOK(<<>>, 0)
    BY EmptyFacts DEF PlayingOK
  <2> QED BY <2>1, SeedFacts DEF AudioOK, Silence
<1>6. \A seed : Tells(<<>>, Silence, seed, active)
  BY <1>5, EmptyFacts DEF Tells
<1>7. AudioOK(audio) /\ AllTold(audio, history, active)
  <2>1. CASE audio = Silence
    <3>1. Tells(<<>>, audio, audio.seed, active)
      BY Zenon, <1>6, <2>1
    <3>2. AllTold(audio, history, active)
      BY <1>1, <3>1, OnwardTells DEF Begun
    <3> QED BY <1>5, <2>1, <3>2
  <2>2. CASE \E op \in {o \in Asks.plays : CanPlay(Silence, o)} : audio = Played(Silence, op, None, 0)
    <3>1. PICK op : op \in Asks.plays /\ CanPlay(Silence, op) /\ audio = Played(Silence, op, None, 0)
      BY <2>2
    <3>2. op.playlist \in DOMAIN Lists \cup {None} /\ op.index \in Nat
      BY <3>1, AudioAssumption DEF IsPlay
    <3>3. Scened(None, op.playlist, active)
      BY DEF Scened
    <3>4. \A id \in DOMAIN <<>> : id \in Nat /\ id <= Silence.ids
      BY EmptyFacts
    <3>5. 0 \in Nat
      OBVIOUS
    <3>6. Starts(Silence, <<>>, op, None, None, 0, audio, history, active)
      BY Zenon, <1>1, <1>5, <1>6, <3>1, <3>2, <3>3, <3>4, <3>5 DEF Starts
    <3> QED BY ONLY <1>2, <3>6, PlayedFacts
  <2> QED BY <2>1, <2>2 DEF Init
<1> QED BY <1>2, <1>3, <1>4, <1>7 DEF AudioInv

-----------------------------------------------------------------------------
(* The theorems.                                                           *)

(* Whatever is played, paused, sought, skipped, edited and reported: each  *)
(* id is minted once, what has sounded is never less than the document     *)
(* says, a walk through a shuffle goes on along its cycle, and a session   *)
(* that reported an end waits for nothing (transport.rs, state.rs).        *)
THEOREM AudioInductive == Spec => []AudioInv
BY InitHolds, NextKeeps, PTL DEF Spec

(* What an ambience started leaves with its scene (on_active_scene).       *)
THEOREM AmbienceLeavesAlways == Spec => []AmbienceLeavesUnlessSpoiled
<1>1. ASSUME AudioInv PROVE AmbienceLeavesUnlessSpoiled
  <2> SUFFICES ASSUME NEW id \in DOMAIN history PROVE history[id].from \in {None, active} \/ spoiled
    BY DEF AmbienceLeavesUnlessSpoiled
  <2>1. PICK k \in DOMAIN audio.playing : id = audio.playing[k].id
    BY <1>1 DEF AudioInv, AllTold, Ids
  <2>2. Scened(history[id].from, audio.playing[k].playlist, active)
    BY <1>1, <2>1 DEF AudioInv, AllTold
  <2> QED BY <2>2 DEF Scened
<1> QED BY <1>1, AudioInductive, PTL

(* Going forward, a shuffled playlist plays all of it before it plays      *)
(* anything again (ShuffledTrack walks one cycle of the permutation).      *)
THEOREM RepeatsNothingAlways == Spec => []RepeatsNothingUnlessReseeded
<1>1. ASSUME AudioInv PROVE RepeatsNothingUnlessReseeded
  <2> SUFFICES ASSUME NEW e \in Range(audio.playing), e.playlist # None, lists[e.playlist].mode = "shuffle"
               PROVE  IsInjective(history[e.id].walk)
    BY DEF RepeatsNothingUnlessReseeded
  <2>1. PICK k \in DOMAIN audio.playing : e = audio.playing[k]
    BY DEF Range
  <2>2. PICK walk, list, seed : walk = history[e.id].walk /\ list = lists[e.playlist] /\ seed = audio.seed
    OBVIOUS
  <2>3. IsSeq(walk) /\ (Len(walk) > 1 => InOrder(list, seed, walk))
    BY <1>1, <2>1, <2>2 DEF AudioInv, AllTold, Told, Walked
  <2>4. IsPlaylist(list) /\ seed \in Seeds
    <3>1. e.playlist \in DOMAIN Lists
      BY <1>1, <2>1 DEF AudioInv, AudioOK, PlayingOK, EntryOK
    <3>2. list # Gone
      BY <2>2 DEF Gone
    <3> QED BY <1>1, <2>2, <3>1, <3>2 DEF AudioInv, AudioOK, Settings
  <2>5. CASE Len(walk) > 1
    <3>1. PICK n : n = Len(list.tracks)
      OBVIOUS
    <3>2. n \in Nat
      BY <2>4, <3>1 DEF IsPlaylist
    <3>3. PICK p \in 1..n : Follows(walk, p, seeded_permutation(n, seed), n)
      BY <2>3, <2>5, <3>1 DEF InOrder
    <3>4. n \in Nat \ {0}
      BY <3>2, <3>3
    <3>5. Permutation(seeded_permutation(n, seed), n)
      BY <2>4, <3>1, <3>4, PlaylistFacts
    <3> QED BY <2>2, <2>3, <3>3, <3>4, <3>5, WalkInjective
  <2>6. CASE ~(Len(walk) > 1)
    <3>1. Len(walk) \in Nat /\ DOMAIN walk = 1..Len(walk)
      BY <2>3, SeqFacts
    <3>2. \A i, j \in DOMAIN walk : i = j
      BY <2>6, <3>1
    <3> QED BY <2>2, <3>2 DEF IsInjective
  <2> QED BY <2>5, <2>6
<1> QED BY <1>1, AudioInductive, PTL

(* A session that reported an end waits for nothing, but for a report that *)
(* was early, lost or could not be acted on (transport.rs TrackEnded).     *)
THEOREM EndAdvancesAlways == Spec => []EndAdvancesUnlessMissed
<1>1. AudioInv => EndAdvancesUnlessMissed
  BY DEF AudioInv
<1> QED BY <1>1, AudioInductive, PTL

(* No report of an end cuts a track short (transport.rs TrackEnded).       *)
THEOREM NothingCutAlways == Spec => NothingCut
<1>1. ASSUME AudioInv, [Next]_vars, NEW c \in Listeners, CutsBy(c)
      PROVE  history[Op(c).id].heard >= Length[Track(Op(c).id).asset]
  <2>1. Waits(c, "track_ended") /\ asked'[c] = Idle /\ Plays(Op(c).id) /\ Op(c).id \notin Ids(audio'.playing)
    BY <1>1 DEF CutsBy
  <2>2. audio' # audio /\ asked'[c] # asked[c]
    BY <2>1 DEF Plays, Waits, Idle
  <2>3. TrackEnded(c)
    <3>1. PICK b \in Gms \cup Listeners : Handle(b)
      BY <1>1, <2>2 DEF Next, vars, Ask, applyState, onended, EditAmbience, EditList, Tick
    <3>2. Answered(b)
      BY <3>1 DEF Handle, Play, Pause, Resume, Seek, Stop, StopAll, NextPrev, TrackEnded, SetActive
    <3>3. b = c
      BY <1>1, <2>2, <3>2 DEF Answered, AudioInv, AskedOK
    <3> QED BY <2>1, <3>1, <3>3 DEF Handle, Play, Pause, Resume, Seek, Stop, StopAll, NextPrev, SetActive, Waits
  <2>4. Taking(Op(c).id, Now(c))
    BY <1>1, <2>2, <2>3, TrackEndedFacts
  <2>5. PICK e, g, n : e = Track(Op(c).id) /\ g = history[Op(c).id] /\ n = Length[e.asset]
    OBVIOUS
  <2>6. n \in Int /\ Elapsed(e, Now(c)) >= n
    BY <2>4, <2>5, AudioAssumption DEF Taking, Out
  <2>7. e.started \in Int /\ e.paused \in Int /\ g.heard \in Int /\ g.heard >= Elapsed(e, clock)
    BY <1>1, <2>1, <2>5, TrackFacts DEF EntryOK, Told
  <2>8. clock \in Nat /\ Now(c) \in Nat /\ Now(c) <= clock
    BY <1>1 DEF AudioInv, AskedOK
  <2>9. g.heard >= n
    <3>1. CASE e.paused = Running
      BY <2>6, <2>7, <2>8, <3>1 DEF Elapsed
    <3>2. CASE e.paused # Running
      BY <2>6, <2>7, <2>8, <3>2 DEF Elapsed
    <3> QED BY <3>1, <3>2
  <2> QED BY <2>5, <2>9
<1>2. AudioInv /\ [Next]_vars =>
        [\A c \in Listeners : CutsBy(c) => history[Op(c).id].heard >= Length[Track(Op(c).id).asset]]_vars
  BY <1>1
<1> QED BY <1>2, AudioInductive, PTL DEF Spec, NothingCut
=============================================================================
