------------------------ MODULE RoomRegistryProofs ------------------------
(***************************************************************************)
(* Proofs about RoomRegistry, for any sockets, writes and deletions.       *)
(***************************************************************************)
EXTENDS RoomRegistry, FiniteSetTheorems, TLAPS

-----------------------------------------------------------------------------
(* The invariant.  First what holds of the Rooms however they left the     *)
(* registry: their connection counts and their publish guards.             *)

InUse == Counted \cup Uncounted
Publishing == {a \in Actors : pc[a] \in {"seeding", "writing", "publishing"}}
CountedIn(r) == {s \in Counted : holds[s] = r}

HoldersHold == \A a \in InUse : holds[a] # NoRoom
OnlySocketsLive == \A w \in Writers : pc[w] \notin {"counted", "live", "writing"}
ConnectionsCount == \A r \in RoomIds : connections[r] = Cardinality(CountedIn(r))

GuardHeld == \A a \in Publishing : publishing[holds[a]] # 0
GuardExclusive == \A a, b \in Publishing : holds[a] = holds[b] => a = b
NotYetCreated == \A r \in RoomIds : r > created => publishing[r] = 0

RoomsInv ==
  /\ TypeOK /\ HoldersHold /\ OnlySocketsLive /\ ConnectionsCount
  /\ GuardHeld /\ GuardExclusive /\ NotYetCreated

(* The Room an actor uses.                                                 *)
LEMMA RoomInUse ==
  ASSUME TypeOK, HoldersHold, NEW a \in InUse
  PROVE  a \in Actors /\ holds[a] \in RoomIds /\ holds[a] <= created
<1>1. a \in Actors
  BY DEF InUse, Counted, Uncounted, Subscribed, Actors
<1>2. holds[a] # 0
  BY DEF HoldersHold, NoRoom
<1>3. /\ holds \in [Actors -> 0..created] /\ created \in 0..MaxRooms /\ MaxRooms \in Nat
  BY ConstantsOK DEF TypeOK, ConstantsOK
<1>4. holds[a] \in 0..created
  BY <1>1, <1>3
<1> QED BY <1>1, <1>2, <1>3, <1>4 DEF RoomIds

-----------------------------------------------------------------------------
(* What the steps do to the counts.                                        *)

(* Fewer sockets are counted in a Room than there are.                     *)
LEMMA CountsAreBounded ==
  ASSUME NEW r
  PROVE  IsFiniteSet(CountedIn(r)) /\ Cardinality(CountedIn(r)) \in 0..Cardinality(Sockets)
<1>1. CountedIn(r) \in SUBSET Sockets
  BY DEF CountedIn, Counted, Subscribed
<1>2. IsFiniteSet(CountedIn(r)) /\ Cardinality(CountedIn(r)) <= Cardinality(Sockets)
  BY <1>1, ConstantsOK, FS_Subset DEF ConstantsOK
<1>3. Cardinality(CountedIn(r)) \in Nat /\ Cardinality(Sockets) \in Nat
  BY <1>2, ConstantsOK, FS_CardinalityType DEF ConstantsOK
<1> QED BY <1>2, <1>3

(* A step that neither counts nor forgets anybody.                         *)
LEMMA CountsStay ==
  ASSUME ConnectionsCount, UNCHANGED connections,
         \A s \in Sockets : s \in Counted' <=> s \in Counted,
         \A s \in Counted : holds'[s] = holds[s]
  PROVE  ConnectionsCount'
<1> SUFFICES ASSUME NEW r \in RoomIds PROVE CountedIn(r)' = CountedIn(r)
  BY DEF ConnectionsCount
<1> QED BY DEF CountedIn, Counted, Subscribed

(* Count: the Room counts one socket more.                                 *)
LEMMA CountsOneMore ==
  ASSUME TypeOK, HoldersHold, ConnectionsCount, NEW s \in Sockets, Count(s)
  PROVE  /\ ConnectionsCount'
         /\ connections' \in [RoomIds -> 0..Cardinality(Sockets)]
<1>1. /\ pc[s] = "admitted" /\ pc' = [pc EXCEPT ![s] = "counted"]
      /\ holds' = holds
      /\ connections' = [connections EXCEPT ![holds[s]] = @ + 1]
  BY DEF Count, At
<1>2. s \in Actors /\ holds[s] \in RoomIds
  <2>1. s \in InUse
    BY <1>1 DEF InUse, Uncounted, Actors
  <2> QED BY <2>1, RoomInUse
<1>3. Counted' = Counted \cup {s} /\ s \notin Counted
  BY <1>1, <1>2 DEF TypeOK, Counted, Subscribed, Actors
<1>4. CountedIn(holds[s])' = CountedIn(holds[s]) \cup {s} /\ s \notin CountedIn(holds[s])
  BY <1>1, <1>3 DEF CountedIn
<1>5. \A r \in RoomIds : r # holds[s] => CountedIn(r)' = CountedIn(r)
  BY <1>1, <1>3 DEF CountedIn
<1>6. Cardinality(CountedIn(holds[s])') = Cardinality(CountedIn(holds[s])) + 1
  BY <1>4, CountsAreBounded, FS_AddElement
<1>7. ConnectionsCount'
  BY <1>1, <1>2, <1>5, <1>6 DEF ConnectionsCount, TypeOK
<1>8. \A r \in RoomIds : Cardinality(CountedIn(r)') \in 0..Cardinality(Sockets)
  <2> SUFFICES ASSUME NEW r \in RoomIds PROVE Cardinality(CountedIn(r)') \in 0..Cardinality(Sockets)
    OBVIOUS
  <2>1. CountedIn(r)' \in SUBSET Sockets
    BY DEF CountedIn, Counted, Subscribed
  <2> QED BY <2>1, ConstantsOK, FS_Subset, FS_CardinalityType DEF ConstantsOK
<1>9. \A r \in RoomIds : connections'[r] \in 0..Cardinality(Sockets)
  BY <1>7, <1>8 DEF ConnectionsCount
<1>10. connections' = [r \in RoomIds |-> connections'[r]]
  BY <1>1 DEF TypeOK
<1> QED BY <1>7, <1>9, <1>10

(* End: the Room counts one socket less.                                   *)
LEMMA CountsOneLess ==
  ASSUME TypeOK, HoldersHold, ConnectionsCount, NEW s \in Sockets, End(s)
  PROVE  /\ ConnectionsCount'
         /\ connections' \in [RoomIds -> 0..Cardinality(Sockets)]
<1>1. /\ pc[s] = "live" /\ pc' = [pc EXCEPT ![s] = "reaping"]
      /\ holds' = holds
      /\ connections' = [connections EXCEPT ![holds[s]] = connections[holds[s]] - 1]
  BY DEF End, At, Left
<1>2. s \in Actors /\ holds[s] \in RoomIds
  <2>1. s \in InUse
    BY <1>1 DEF InUse, Counted, Subscribed
  <2> QED BY <2>1, RoomInUse
<1>3. Counted' = Counted \ {s} /\ s \in Counted
  BY <1>1, <1>2 DEF TypeOK, Counted, Subscribed, Actors
<1>4. CountedIn(holds[s])' = CountedIn(holds[s]) \ {s} /\ s \in CountedIn(holds[s])
  BY <1>1, <1>3 DEF CountedIn
<1>5. \A r \in RoomIds : r # holds[s] => CountedIn(r)' = CountedIn(r)
  BY <1>1, <1>3 DEF CountedIn
<1>6. Cardinality(CountedIn(holds[s])') = Cardinality(CountedIn(holds[s])) - 1
  BY <1>4, CountsAreBounded, FS_RemoveElement
<1>7. ConnectionsCount'
  BY <1>1, <1>2, <1>5, <1>6 DEF ConnectionsCount, TypeOK
<1>8. \A r \in RoomIds : Cardinality(CountedIn(r)') \in 0..Cardinality(Sockets)
  <2> SUFFICES ASSUME NEW r \in RoomIds PROVE Cardinality(CountedIn(r)') \in 0..Cardinality(Sockets)
    OBVIOUS
  <2>1. CountedIn(r)' \in SUBSET Sockets
    BY DEF CountedIn, Counted, Subscribed
  <2> QED BY <2>1, ConstantsOK, FS_Subset, FS_CardinalityType DEF ConstantsOK
<1>9. \A r \in RoomIds : connections'[r] \in 0..Cardinality(Sockets)
  BY <1>7, <1>8 DEF ConnectionsCount
<1>10. connections' = [r \in RoomIds |-> connections'[r]]
  BY <1>1 DEF TypeOK
<1> QED BY <1>7, <1>9, <1>10
LEMMA UsersRoom ==
  ASSUME RoomsInv, NEW a \in InUse
  PROVE  a \in Actors /\ holds[a] \in RoomIds /\ holds[a] <= created
BY RoomInUse DEF RoomsInv

(* The Room an actor publishes to.                                         *)
LEMMA PublishersRoom ==
  ASSUME RoomsInv, NEW a \in Publishing
  PROVE  a \in InUse /\ publishing[holds[a]] \in 1..MaxSeq
<1>1. a \in InUse
  BY DEF RoomsInv, OnlySocketsLive, Publishing, InUse, Counted, Uncounted, Subscribed, Actors
<1>2. MaxSeq \in Nat
  BY ConstantsOK DEF ConstantsOK
<1> QED BY <1>1, <1>2, UsersRoom DEF RoomsInv, GuardHeld, TypeOK

-----------------------------------------------------------------------------
(* Every step keeps the types.                                             *)

(* Removing the entry.                                                     *)
LEMMA UnregisterTypes ==
  ASSUME torn \in BOOLEAN, NEW others, Unregister(others)
  PROVE  registered' = 0 /\ torn' \in BOOLEAN
<1>1. registered' = 0
  BY DEF Unregister, NoRoom
<1>2. torn' = (torn \/ \E a \in others : a \in Building \/ holds[a] = registered)
  BY DEF Unregister
<1>3. torn' = TRUE \/ torn' = FALSE
  BY <1>2, Zenon
<1> QED BY <1>1, <1>3

(* get_or_create.                                                          *)
LEMMA GetOrCreateTypes ==
  ASSUME TypeOK, NEW a \in Actors, GetOrCreate(a)
  PROVE  TypeOK'
<1> USE DEF memory, actors, history, NoRoom
<1>0. MaxSeq \in Nat /\ MaxRooms \in Nat
  BY ConstantsOK DEF ConstantsOK
<1>1. CASE LookUp(a)
  BY <1>1 DEF LookUp, At, TypeOK
<1>2. CASE GetWorld(a)
  BY <1>2 DEF GetWorld, At, TypeOK
<1>3. CASE QueryDocuments(a)
  BY <1>3 DEF QueryDocuments, At, TypeOK
<1>4. CASE Insert(a)
  <2>1. CASE Vacant
    <3>1. /\ created' = created + 1 /\ created' \in 1..MaxRooms
          /\ registered' = created' /\ registered' \in RoomIds
      BY <1>4, <2>1, <1>0 DEF Insert, TypeOK, RoomIds
    <3>2. current_seq' \in [RoomIds -> 0..MaxSeq]
      BY <1>4, <2>1, <3>1 DEF Insert, TypeOK
    <3>3. 1..docsRead[a] \in SUBSET (1..MaxSeq)
      BY <1>0 DEF TypeOK
    <3>4. scene' \in [RoomIds -> SUBSET (1..MaxSeq)]
      BY <1>4, <2>1, <3>1, <3>3 DEF Insert, TypeOK
    <3>5. holds' \in [Actors -> 0..created']
      BY <1>4, <2>1, <3>1, <1>0 DEF Insert, TypeOK
    <3>6. pc' \in [Actors -> {"idle", "row", "docs", "insert", "recheck", "rowcheck", "withdraw",
                              "refused", "held", "admitted", "seeding", "counted", "live",
                              "writing", "publishing", "reaping", "ended"}]
      BY <1>4 DEF Insert, At, TypeOK
    <3>7. UNCHANGED <<row, events, deleting, connections, publishing, seqRead, docsRead, evicted,
                      dpc, unheard, torn, abandoned>>
      BY <1>4 DEF Insert
    <3>8. /\ created' \in 0..MaxRooms /\ registered' \in 0..created'
          /\ abandoned' \subseteq 0..created'
      BY <1>0, <3>1, <3>7 DEF TypeOK
    <3> QED BY <3>2, <3>4, <3>5, <3>6, <3>7, <3>8 DEF TypeOK
  <2>2. CASE ~Vacant
    BY <1>4, <2>2 DEF Insert, At, TypeOK
  <2> QED BY <2>1, <2>2
<1>5. CASE Recheck(a)
  BY <1>5 DEF Recheck, At, TypeOK
<1>6. CASE RecheckRow(a)
  BY <1>6 DEF RecheckRow, At, TypeOK
<1>7. CASE Withdraw(a)
  BY <1>7, UnregisterTypes DEF Withdraw, At, TypeOK
<1>8. CASE GivesUp(a)
  <2>1. abandoned' \subseteq 0..created
    BY <1>8 DEF GivesUp, TypeOK
  <2> QED BY <1>8, <2>1 DEF GivesUp, At, TypeOK
<1> QED BY <1>1, <1>2, <1>3, <1>4, <1>5, <1>6, <1>7, <1>8 DEF GetOrCreate

(* Sockets, and the writes of sockets and handlers.                        *)
LEMMA SocketTypes ==
  ASSUME TypeOK, HoldersHold, ConnectionsCount, NEW s \in Sockets, HandleSocket(s)
  PROVE  TypeOK'
<1> USE DEF memory, actors, history, NoRoom
<1>0. s \in Actors
  BY DEF Actors
<1>1. CASE Admit(s)
  BY <1>0, <1>1 DEF Admit, At, TypeOK
<1>2. CASE Count(s)
  BY <1>0, <1>2, CountsOneMore DEF Count, At, TypeOK
<1>3. CASE Subscribe(s)
  BY <1>0, <1>3 DEF Subscribe, At, TypeOK
<1>4. CASE End(s)
  BY <1>0, <1>4, CountsOneLess DEF End, At, TypeOK
<1>5. CASE ReapIfEmpty(s)
  <2>1. registered' \in 0..created /\ torn' \in BOOLEAN
    BY <1>5, UnregisterTypes DEF ReapIfEmpty, TypeOK
  <2> QED BY <1>0, <1>5, <2>1 DEF ReapIfEmpty, At, TypeOK
<1> QED BY <1>1, <1>2, <1>3, <1>4, <1>5 DEF HandleSocket

LEMMA PublishTypes ==
  ASSUME RoomsInv, NEW a \in Actors,
         Deny(a) \/ Store(a) \/ Broadcast(a) \/ WriteDropped(a)
  PROVE  TypeOK'
<1> USE DEF memory, actors, history, NoRoom
<1>a. TypeOK
  BY DEF RoomsInv
<1> USE <1>a
<1>0. MaxSeq \in Nat /\ MaxRooms \in Nat
  BY ConstantsOK DEF ConstantsOK
<1>1. CASE Deny(a)
  BY <1>1 DEF Deny, At, TypeOK
<1>2. CASE Store(a)
  <2>1. events' = events + 1 /\ events' \in 1..MaxSeq
    BY <1>0, <1>2 DEF Store, TypeOK
  <2>2. PICK n \in 0..MaxSeq : n = events'
    BY <2>1, <1>0
  <2>3. publishing' = [publishing EXCEPT ![holds[a]] = n]
    BY <1>2, <2>1, <2>2 DEF Store
  <2>4. publishing' \in [RoomIds -> 0..MaxSeq]
    BY <2>3 DEF TypeOK
  <2> QED BY <1>0, <1>2, <2>1, <2>4 DEF Store, At, TypeOK
<1>3. a \in Publishing => holds[a] \in RoomIds /\ publishing[holds[a]] \in 1..MaxSeq
  BY UsersRoom, PublishersRoom
<1>4. CASE Broadcast(a)
  BY <1>0, <1>4, <1>3 DEF Broadcast, At, Publishing, TypeOK
<1>5. CASE WriteDropped(a)
  <2>1. unheard' = unheard \cup {publishing[holds[a]]} /\ a \in Publishing
    BY <1>5 DEF WriteDropped, At, Publishing
  <2>2. unheard' \subseteq 1..MaxSeq
    <3>1. publishing[holds[a]] \in 1..MaxSeq
      BY <2>1, <1>3
    <3>2. unheard \subseteq 1..MaxSeq
      BY DEF TypeOK
    <3> QED BY <2>1, <3>1, <3>2
  <2>3. publishing' \in [RoomIds -> 0..MaxSeq]
    <3>1. publishing' = [publishing EXCEPT ![holds[a]] = 0]
      BY <1>5 DEF WriteDropped, At
    <3>2. publishing \in [RoomIds -> 0..MaxSeq] /\ 0 \in 0..MaxSeq
      BY <1>0 DEF TypeOK
    <3> QED BY <3>1, <3>2
  <2>4. /\ pc' = [pc EXCEPT ![a] = "ended"]
        /\ UNCHANGED <<row, events, registered, deleting, created, current_seq, scene,
                       connections, holds, seqRead, docsRead, evicted, dpc, torn, abandoned>>
    BY <1>5 DEF WriteDropped, At
  <2> QED BY <2>2, <2>3, <2>4 DEF TypeOK
<1> QED BY <1>1, <1>2, <1>4, <1>5

LEMMA DeleteTypes ==
  ASSUME TypeOK, NEW d \in Deleters, DeleteWorld(d)
  PROVE  TypeOK'
<1> USE DEF memory, actors, history, NoRoom
<1>1. CASE BeginDelete(d)
  <2>1. registered' \in 0..created /\ torn' \in BOOLEAN
    BY <1>1, UnregisterTypes DEF BeginDelete, TypeOK
  <2>2. evicted' \subseteq Sockets
    BY <1>1 DEF BeginDelete, Subscribed, TypeOK
  <2> QED BY <1>1, <2>1, <2>2 DEF BeginDelete, DAt, TypeOK
<1>2. CASE DeleteRow(d)
  BY <1>2 DEF DeleteRow, DAt, TypeOK
<1>3. CASE FinishDelete(d)
  BY <1>3 DEF FinishDelete, DAt, TypeOK
<1>4. CASE DeleteDropped(d)
  BY <1>4 DEF DeleteDropped, DAt, TypeOK
<1> QED BY <1>1, <1>2, <1>3, <1>4 DEF DeleteWorld
-----------------------------------------------------------------------------
(* Every step keeps the rest of the Rooms' invariant.                      *)

LEMMA TypesStep ==
  ASSUME RoomsInv, [Next]_vars
  PROVE  TypeOK'
<1> USE DEF RoomsInv
<1>1. ASSUME NEW a \in Actors, GetOrCreate(a) \/ Deny(a) \/ Store(a) \/ Broadcast(a)
      PROVE  TypeOK'
  BY <1>1, GetOrCreateTypes, PublishTypes
<1>2. ASSUME NEW s \in Sockets, HandleSocket(s) PROVE TypeOK'
  BY <1>2, SocketTypes
<1>3. ASSUME NEW w \in Writers, WriteDropped(w) PROVE TypeOK'
  BY <1>3, PublishTypes DEF Actors
<1>4. ASSUME NEW d \in Deleters, DeleteWorld(d) PROVE TypeOK'
  BY <1>4, DeleteTypes
<1>5. CASE UNCHANGED vars
  BY <1>5 DEF vars, memory, actors, history, TypeOK
<1> QED BY <1>1, <1>2, <1>3, <1>4, <1>5 DEF Next

(* Who uses a Room has one, and only a socket gets as far as being counted. *)
LEMMA HoldersStep ==
  ASSUME RoomsInv, [Next]_vars
  PROVE  HoldersHold' /\ OnlySocketsLive'
<1> USE DEF RoomsInv, HoldersHold, OnlySocketsLive, InUse, Counted, Uncounted, Subscribed, Actors
<1>0. Sockets \cap Writers = {}
  BY ConstantsOK DEF ConstantsOK
<1>1. ASSUME NEW a \in Actors, GetOrCreate(a) PROVE HoldersHold' /\ OnlySocketsLive'
  <2>1. CASE LookUp(a)
    BY <1>0, <2>1 DEF LookUp, At, TypeOK
  <2>2. CASE GetWorld(a)
    BY <1>0, <2>2 DEF GetWorld, At, TypeOK
  <2>3. CASE QueryDocuments(a)
    BY <1>0, <2>3 DEF QueryDocuments, At, TypeOK
  <2>4. CASE Insert(a)
    <3>1. holds' = [holds EXCEPT ![a] = registered'] /\ registered' # NoRoom
      BY <2>4 DEF Insert, Vacant, NoRoom, TypeOK
    <3> QED BY <1>0, <2>4, <3>1 DEF Insert, At, TypeOK
  <2>5. CASE Recheck(a)
    BY <1>0, <2>5 DEF Recheck, At, TypeOK
  <2>6. CASE RecheckRow(a)
    BY <1>0, <2>6 DEF RecheckRow, At, TypeOK
  <2>7. CASE Withdraw(a)
    BY <1>0, <2>7 DEF Withdraw, At, TypeOK
  <2>8. CASE GivesUp(a)
    BY <1>0, <2>8 DEF GivesUp, At, TypeOK
  <2> QED BY <1>1, <2>1, <2>2, <2>3, <2>4, <2>5, <2>6, <2>7, <2>8 DEF GetOrCreate
<1>2. ASSUME NEW a \in Actors, Deny(a) \/ Store(a) \/ Broadcast(a)
      PROVE  HoldersHold' /\ OnlySocketsLive'
  <2>1. CASE Deny(a)
    BY <1>0, <2>1 DEF Deny, At, TypeOK
  <2>2. CASE Store(a)
    BY <1>0, <2>2 DEF Store, At, TypeOK
  <2>3. CASE Broadcast(a)
    BY <1>0, <2>3 DEF Broadcast, At, TypeOK
  <2> QED BY <1>2, <2>1, <2>2, <2>3
<1>3. ASSUME NEW s \in Sockets, HandleSocket(s) PROVE HoldersHold' /\ OnlySocketsLive'
  <2>1. CASE Admit(s)
    BY <1>0, <2>1 DEF Admit, At, TypeOK
  <2>2. CASE Count(s)
    BY <1>0, <2>2 DEF Count, At, TypeOK
  <2>3. CASE Subscribe(s)
    BY <1>0, <2>3 DEF Subscribe, At, TypeOK
  <2>4. CASE End(s)
    BY <1>0, <2>4 DEF End, At, TypeOK
  <2>5. CASE ReapIfEmpty(s)
    BY <1>0, <2>5 DEF ReapIfEmpty, At, TypeOK
  <2> QED BY <1>3, <2>1, <2>2, <2>3, <2>4, <2>5 DEF HandleSocket
<1>4. ASSUME NEW w \in Writers, WriteDropped(w) PROVE HoldersHold' /\ OnlySocketsLive'
  BY <1>0, <1>4 DEF WriteDropped, At, TypeOK
<1>5. ASSUME NEW d \in Deleters, DeleteWorld(d) PROVE UNCHANGED <<pc, holds>>
  BY <1>5 DEF DeleteWorld, BeginDelete, DeleteRow, FinishDelete, DeleteDropped, actors
<1>6. CASE UNCHANGED vars
  BY <1>6 DEF vars, actors
<1> QED BY <1>1, <1>2, <1>3, <1>4, <1>5, <1>6 DEF Next

(* connections is the number of sockets that a Room counts.                *)
LEMMA CountsStep ==
  ASSUME RoomsInv, [Next]_vars
  PROVE  ConnectionsCount'
<1> USE DEF RoomsInv, Counted, Subscribed
<1>1. ASSUME NEW a \in Actors, GetOrCreate(a) PROVE ConnectionsCount'
  <2>1. \A s \in Sockets : (s \in Counted' <=> s \in Counted) /\ (s \in Counted => holds'[s] = holds[s])
    BY <1>1 DEF GetOrCreate, LookUp, GetWorld, QueryDocuments, Insert, Recheck, RecheckRow,
                Withdraw, GivesUp, At, TypeOK, Actors
  <2>2. UNCHANGED connections
    BY <1>1 DEF GetOrCreate, LookUp, GetWorld, QueryDocuments, Insert, Recheck, RecheckRow,
                Withdraw, GivesUp, memory
  <2> QED BY <2>1, <2>2, CountsStay DEF RoomsInv
<1>2. ASSUME NEW a \in Actors, Deny(a) \/ Store(a) \/ Broadcast(a) \/ WriteDropped(a)
      PROVE  ConnectionsCount'
  <2>1. \A s \in Sockets : (s \in Counted' <=> s \in Counted) /\ (s \in Counted => holds'[s] = holds[s])
    BY <1>2 DEF Deny, Store, Broadcast, WriteDropped, At, TypeOK, Actors
  <2>2. UNCHANGED connections
    BY <1>2 DEF Deny, Store, Broadcast, WriteDropped, memory
  <2> QED BY <2>1, <2>2, CountsStay
<1>3. ASSUME NEW s \in Sockets, HandleSocket(s) PROVE ConnectionsCount'
  <2>1. CASE Count(s)
    BY <2>1, CountsOneMore
  <2>2. CASE End(s)
    BY <2>2, CountsOneLess
  <2>3. CASE Admit(s) \/ Subscribe(s) \/ ReapIfEmpty(s)
    <3>1. \A z \in Sockets : (z \in Counted' <=> z \in Counted) /\ (z \in Counted => holds'[z] = holds[z])
      BY <2>3 DEF Admit, Subscribe, ReapIfEmpty, At, TypeOK, Actors
    <3>2. UNCHANGED connections
      BY <2>3 DEF Admit, Subscribe, ReapIfEmpty, memory
    <3> QED BY <3>1, <3>2, CountsStay
  <2> QED BY <1>3, <2>1, <2>2, <2>3 DEF HandleSocket
<1>4. ASSUME NEW d \in Deleters, DeleteWorld(d) PROVE UNCHANGED <<pc, holds, connections>>
  BY <1>4 DEF DeleteWorld, BeginDelete, DeleteRow, FinishDelete, DeleteDropped, actors, memory
<1>5. CASE UNCHANGED <<pc, holds, connections>>
  BY <1>5, CountsStay
<1>6. UNCHANGED vars => UNCHANGED <<pc, holds, connections>>
  BY DEF vars, actors, memory
<1> QED BY <1>1, <1>2, <1>3, <1>4, <1>5, <1>6 DEF Next, Actors
(* The publish guard of a Room is held by one actor at a time, and a Room  *)
(* nobody has created is not being published to.                           *)
Guards == GuardHeld /\ GuardExclusive /\ NotYetCreated

(* A step that leaves the guards and their holders alone.                  *)
LEMMA GuardsStay ==
  ASSUME TypeOK, Guards, UNCHANGED publishing, created' \in Nat, created' >= created,
         \A a \in Actors : a \in Publishing' <=> a \in Publishing,
         \A a \in Publishing : holds'[a] = holds[a]
  PROVE  Guards'
<1>1. GuardHeld'
  BY DEF Guards, GuardHeld, Publishing
<1>2. GuardExclusive'
  BY DEF Guards, GuardExclusive, Publishing
<1>3. NotYetCreated'
  BY DEF Guards, NotYetCreated, TypeOK, RoomIds
<1> QED BY <1>1, <1>2, <1>3 DEF Guards

LEMMA GuardsStep ==
  ASSUME RoomsInv, [Next]_vars
  PROVE  Guards'
<1>0. TypeOK /\ Guards
  BY DEF RoomsInv, Guards
<1> USE <1>0
<1>1. ASSUME NEW a \in Actors, GetOrCreate(a) PROVE Guards'
  <2>1. \A b \in Actors : (b \in Publishing' <=> b \in Publishing) /\ (b \in Publishing => holds'[b] = holds[b])
    BY <1>1 DEF GetOrCreate, LookUp, GetWorld, QueryDocuments, Insert, Recheck, RecheckRow,
                Withdraw, GivesUp, At, TypeOK, Publishing
  <2>2. UNCHANGED publishing /\ created' \in {created, created + 1}
    BY <1>1 DEF GetOrCreate, LookUp, GetWorld, QueryDocuments, Insert, Recheck, RecheckRow,
                Withdraw, GivesUp, memory
  <2>3. created' \in Nat /\ created' >= created
    BY <2>2 DEF TypeOK
  <2> QED BY <2>1, <2>2, <2>3, GuardsStay DEF Publishing
<1>2. ASSUME NEW a \in Actors, Store(a) PROVE Guards'
  <2>1. /\ holds' = holds /\ created' = created
        /\ publishing[holds[a]] = 0
        /\ publishing' = [publishing EXCEPT ![holds[a]] = events + 1]
        /\ Publishing' = Publishing \cup {a}
    BY <1>2 DEF Store, At, Publishing, TypeOK
  <2>2. a \in InUse
    BY <1>2 DEF Store, At, InUse, Counted, Subscribed, Uncounted
  <2>3. holds[a] \in RoomIds /\ holds[a] <= created
    BY <2>2, UsersRoom
  <2>4. \A b \in Publishing : holds[b] # holds[a]
    BY <2>1 DEF Guards, GuardHeld
  <2>5. GuardHeld'
    <3>1. events + 1 # 0 /\ publishing \in [RoomIds -> 0..MaxSeq]
      BY DEF TypeOK
    <3>2. \A b \in Publishing : publishing'[holds[b]] # 0
      BY <2>1, <2>4, <3>1 DEF Guards, GuardHeld
    <3>3. publishing'[holds[a]] # 0
      BY <2>1, <2>3, <3>1
    <3> QED BY <2>1, <3>2, <3>3 DEF GuardHeld
  <2>6. GuardExclusive'
    BY <2>1, <2>4 DEF Guards, GuardExclusive
  <2>7. NotYetCreated'
    BY <2>1, <2>3 DEF Guards, NotYetCreated, TypeOK, RoomIds
  <2> QED BY <2>5, <2>6, <2>7 DEF Guards
<1>3. ASSUME NEW a \in Actors, Broadcast(a) \/ WriteDropped(a) PROVE Guards'
  <2>1. /\ a \in Publishing
        /\ holds' = holds /\ created' = created
        /\ publishing' = [publishing EXCEPT ![holds[a]] = 0]
        /\ Publishing' = Publishing \ {a}
    BY <1>3 DEF Broadcast, WriteDropped, At, Publishing, TypeOK
  <2>2. \A b \in Publishing' : holds[b] # holds[a]
    BY <2>1 DEF Guards, GuardExclusive
  <2>3. GuardHeld'
    BY <2>1, <2>2 DEF Guards, GuardHeld, TypeOK
  <2>4. GuardExclusive'
    BY <2>1 DEF Guards, GuardExclusive
  <2>5. NotYetCreated'
    BY <2>1 DEF Guards, NotYetCreated, TypeOK, RoomIds
  <2> QED BY <2>3, <2>4, <2>5 DEF Guards
<1>4. ASSUME NEW a \in Actors, Deny(a) \/ HandleSocket(a) PROVE Guards'
  <2>1. \A b \in Actors : (b \in Publishing' <=> b \in Publishing) /\ holds'[b] = holds[b]
    BY <1>4 DEF Deny, HandleSocket, Admit, Count, Subscribe, End, ReapIfEmpty, At, TypeOK, Publishing
  <2>2. UNCHANGED <<publishing, created>>
    BY <1>4 DEF Deny, HandleSocket, Admit, Count, Subscribe, End, ReapIfEmpty, memory
  <2>3. created' \in Nat /\ created' >= created
    BY <2>2 DEF TypeOK
  <2> QED BY <2>1, <2>2, <2>3, GuardsStay DEF Publishing
<1>5. ASSUME NEW d \in Deleters, DeleteWorld(d) PROVE UNCHANGED <<pc, holds, publishing, created>>
  BY <1>5 DEF DeleteWorld, BeginDelete, DeleteRow, FinishDelete, DeleteDropped, actors, memory
<1>6. UNCHANGED vars => UNCHANGED <<pc, holds, publishing, created>>
  BY DEF vars, actors, memory
<1>7. CASE UNCHANGED <<pc, holds, publishing, created>>
  BY <1>7, GuardsStay DEF Publishing, TypeOK
<1> QED BY <1>1, <1>2, <1>3, <1>4, <1>5, <1>6, <1>7 DEF Next, Actors

LEMMA RoomsInit == Init => RoomsInv
<1> SUFFICES ASSUME Init PROVE RoomsInv
  OBVIOUS
<1> USE DEF Init, NoRoom
<1>0. MaxSeq \in Nat /\ MaxRooms \in Nat /\ Cardinality(Sockets) \in Nat
  BY ConstantsOK, FS_CardinalityType DEF ConstantsOK
<1>1. TypeOK
  <2>1. row \in BOOLEAN /\ deleting \in BOOLEAN /\ torn \in BOOLEAN
    OBVIOUS
  <2>0. /\ unheard \subseteq 1..MaxSeq /\ evicted \subseteq Sockets
        /\ abandoned \subseteq 0..created
        /\ events \in 0..MaxSeq /\ created \in 0..MaxRooms /\ registered \in 0..created
    BY <1>0
  <2>2. 0 \in 0..MaxSeq /\ 0 \in 0..Cardinality(Sockets)
    BY <1>0
  <2>3. current_seq \in [RoomIds -> 0..MaxSeq] /\ publishing \in [RoomIds -> 0..MaxSeq]
    BY <2>2
  <2>4. scene \in [RoomIds -> SUBSET (1..MaxSeq)]
    OBVIOUS
  <2>5. connections \in [RoomIds -> 0..Cardinality(Sockets)]
    BY <2>2
  <2> QED BY <1>0, <2>0, <2>1, <2>3, <2>4, <2>5 DEF TypeOK
<1>2. InUse = {} /\ Counted = {} /\ Publishing = {}
  BY DEF InUse, Counted, Uncounted, Subscribed, Publishing, Actors
<1>3. \A r : CountedIn(r) = {}
  BY <1>2 DEF CountedIn
<1>4. HoldersHold /\ OnlySocketsLive /\ ConnectionsCount
  BY <1>2, <1>3, FS_EmptySet DEF HoldersHold, OnlySocketsLive, ConnectionsCount, Actors
<1>5. GuardHeld /\ GuardExclusive /\ NotYetCreated
  BY <1>2 DEF GuardHeld, GuardExclusive, NotYetCreated
<1> QED BY <1>1, <1>4, <1>5 DEF RoomsInv

LEMMA RoomsAlways == Spec => []RoomsInv
<1>1. RoomsInv /\ [Next]_vars => RoomsInv'
  BY TypesStep, HoldersStep, CountsStep, GuardsStep DEF RoomsInv, Guards
<1> QED BY <1>1, RoomsInit, PTL DEF Spec

(* What the run's variables are: in particular a Room's connections never  *)
(* go negative, nor above the number of sockets there are.                 *)
THEOREM RegistryTyped == Spec => []TypeOK
<1>1. RoomsInv => TypeOK
  BY DEF RoomsInv
<1> QED BY <1>1, RoomsAlways, PTL
-----------------------------------------------------------------------------
(* Second, what holds until a Room leaves the registry under somebody's    *)
(* feet: whoever uses a Room uses the registered one, whoever is about to  *)
(* insert one has read the newest log unless they will find another's, and *)
(* the registered Room knows all but what its own publish is carrying.     *)

InRoom == \A a \in InUse : holds[a] = registered

ReadsAreFresh ==
  registered = NoRoom =>
    \A a \in Building : seqRead[a] = events /\ (pc[a] = "insert" => docsRead[a] = events)

GuardIsNewest == registered # NoRoom => publishing[registered] \in {0, events}

Knows ==
  registered # NoRoom =>
    \A e \in (1..events) \ unheard :
      e = publishing[registered] \/ (e \in scene[registered] /\ e <= current_seq[registered])

Sound == InRoom /\ ReadsAreFresh /\ GuardIsNewest /\ Knows
UntornInv == ~torn => Sound

(* A step after which the same actors, or fewer, use and build Rooms.      *)
LEMMA SoundStays ==
  ASSUME Sound, UNCHANGED <<registered, publishing, scene, current_seq, events, unheard,
                            holds, seqRead, docsRead>>,
         InUse' \subseteq InUse,
         \A a \in Building' : a \in Building /\ pc'[a] = pc[a]
  PROVE  Sound'
<1>1. InRoom'
  BY DEF Sound, InRoom
<1>2. ReadsAreFresh'
  BY DEF Sound, ReadsAreFresh
<1>3. GuardIsNewest' /\ Knows'
  BY DEF Sound, GuardIsNewest, Knows
<1> QED BY <1>1, <1>2, <1>3 DEF Sound

(* The entry is removed, and torn remembers nothing: then nobody was there. *)
LEMMA LeavesNobody ==
  ASSUME Sound, NEW others, Unregister(others), ~torn',
         InUse' \subseteq InUse \cap others, Building' \subseteq Building \cap others
  PROVE  Sound'
<1>1. registered' = NoRoom
  BY DEF Unregister
<1>2. \A a \in others : a \notin Building /\ holds[a] # registered
  BY Zenon DEF Unregister
<1>3. InUse' = {} /\ Building' = {}
  BY <1>2 DEF Sound, InRoom
<1> QED BY <1>1, <1>3 DEF Sound, InRoom, ReadsAreFresh, GuardIsNewest, Knows

(* torn is never forgotten.                                                *)
LEMMA TornStays ==
  ASSUME [Next]_vars, ~torn'
  PROVE  ~torn
<1>1. \A S : Unregister(S) => ~torn
  BY Zenon DEF Unregister
<1>2. ASSUME NEW a \in Actors, GetOrCreate(a) \/ Deny(a) \/ Store(a) \/ Broadcast(a)
      PROVE  ~torn
  BY <1>1, <1>2 DEF GetOrCreate, LookUp, GetWorld, QueryDocuments, Insert, Recheck, RecheckRow,
                    Withdraw, GivesUp, Deny, Store, Broadcast, history
<1>3. ASSUME NEW s \in Sockets, HandleSocket(s) PROVE ~torn
  BY <1>1, <1>3 DEF HandleSocket, Admit, Count, Subscribe, End, ReapIfEmpty, history
<1>4. ASSUME NEW w \in Writers, WriteDropped(w) PROVE ~torn
  BY <1>4 DEF WriteDropped
<1>5. ASSUME NEW d \in Deleters, DeleteWorld(d) PROVE ~torn
  BY <1>1, <1>5 DEF DeleteWorld, BeginDelete, DeleteRow, FinishDelete, DeleteDropped, history
<1>6. CASE UNCHANGED vars
  BY <1>6 DEF vars, history
<1> QED BY <1>2, <1>3, <1>4, <1>5, <1>6 DEF Next

LEMMA GetOrCreateSound ==
  ASSUME RoomsInv, Sound, NEW a \in Actors, GetOrCreate(a), ~torn'
  PROVE  Sound'
<1> USE DEF InUse, Counted, Subscribed, Uncounted, Building
<1>1. CASE LookUp(a)
  <2>1. UNCHANGED <<row, events, memory, seqRead, docsRead, evicted, dpc, history>>
    BY <1>1 DEF LookUp
  <2>2. InRoom'
    <3>1. CASE pc'[a] = "held"
      <4>1. holds' = [holds EXCEPT ![a] = registered] /\ registered' = registered
        BY <1>1, <3>1 DEF LookUp, At, memory, RoomsInv, TypeOK
      <4>2. \A b \in Actors : b # a => pc'[b] = pc[b]
        BY <1>1 DEF LookUp, At, RoomsInv, TypeOK
      <4> QED BY <4>1, <4>2 DEF Sound, InRoom, RoomsInv, TypeOK, Actors
    <3>2. CASE pc'[a] # "held"
      <4>1. pc'[a] \in {"refused", "row"} /\ holds' = holds /\ registered' = registered
        BY <1>1, <3>2 DEF LookUp, At, memory, RoomsInv, TypeOK
      <4>2. \A b \in Actors : b # a => pc'[b] = pc[b]
        BY <1>1 DEF LookUp, At, RoomsInv, TypeOK
      <4> QED BY <4>1, <4>2 DEF Sound, InRoom, Actors
    <3> QED BY <3>1, <3>2
  <2>3. ReadsAreFresh'
    BY <1>1 DEF LookUp, At, memory, Sound, ReadsAreFresh, RoomsInv, TypeOK
  <2> QED BY <2>1, <2>2, <2>3 DEF memory, history, Sound, GuardIsNewest, Knows
<1>2. CASE GetWorld(a)
  <2>1. UNCHANGED <<row, events, memory, holds, docsRead, evicted, dpc, history>>
    BY <1>2 DEF GetWorld
  <2>2. InRoom'
    BY <1>2 DEF GetWorld, At, memory, Sound, InRoom, RoomsInv, TypeOK
  <2>3. ReadsAreFresh'
    BY <1>2 DEF GetWorld, At, memory, Sound, ReadsAreFresh, RoomsInv, TypeOK
  <2> QED BY <2>1, <2>2, <2>3 DEF memory, history, Sound, GuardIsNewest, Knows
<1>3. CASE QueryDocuments(a)
  <2>1. UNCHANGED <<row, events, memory, holds, seqRead, evicted, dpc, history>>
    BY <1>3 DEF QueryDocuments
  <2>2. InRoom'
    BY <1>3 DEF QueryDocuments, At, memory, Sound, InRoom, RoomsInv, TypeOK
  <2>3. ReadsAreFresh'
    BY <1>3 DEF QueryDocuments, At, memory, Sound, ReadsAreFresh, RoomsInv, TypeOK
  <2> QED BY <2>1, <2>2, <2>3 DEF memory, history, Sound, GuardIsNewest, Knows
<1>4. CASE Insert(a) /\ Vacant
  <2>1. /\ pc[a] = "insert" /\ pc' = [pc EXCEPT ![a] = "recheck"]
        /\ registered = NoRoom /\ registered' = created + 1 /\ created + 1 \in RoomIds
        /\ holds' = [holds EXCEPT ![a] = created + 1]
        /\ current_seq' = [current_seq EXCEPT ![created + 1] = seqRead[a]]
        /\ scene' = [scene EXCEPT ![created + 1] = 1..docsRead[a]]
        /\ UNCHANGED <<events, publishing, unheard>>
    <3>1. created + 1 \in RoomIds
      BY <1>4, ConstantsOK DEF Insert, RoomsInv, TypeOK, RoomIds, ConstantsOK
    <3> QED BY <1>4, <3>1 DEF Insert, Vacant, At, history
  <2>2. InUse = {}
    BY <2>1 DEF Sound, InRoom, RoomsInv, HoldersHold
  <2>3. InRoom'
    BY <2>1, <2>2 DEF InRoom, RoomsInv, TypeOK
  <2>4. registered' # NoRoom /\ publishing'[registered'] = 0
    BY <2>1 DEF RoomsInv, TypeOK, NotYetCreated, NoRoom
  <2>5. ReadsAreFresh' /\ GuardIsNewest'
    BY <2>4 DEF ReadsAreFresh, GuardIsNewest
  <2>6. seqRead[a] = events /\ docsRead[a] = events
    BY <2>1 DEF Sound, ReadsAreFresh
  <2>7. scene'[registered'] = 1..events' /\ current_seq'[registered'] = events'
    BY <2>1, <2>6 DEF RoomsInv, TypeOK
  <2>8. Knows'
    BY <2>7 DEF Knows
  <2> QED BY <2>3, <2>5, <2>8 DEF Sound
<1>5. CASE Insert(a) /\ ~Vacant
  <2>1. /\ pc' = [pc EXCEPT ![a] = "recheck"]
        /\ registered # NoRoom /\ registered' = registered
        /\ holds' = [holds EXCEPT ![a] = registered]
        /\ UNCHANGED <<events, publishing, unheard, current_seq, scene>>
    BY <1>5 DEF Insert, Vacant, At, history
  <2>2. InRoom'
    BY <2>1 DEF Sound, InRoom, RoomsInv, TypeOK
  <2> QED BY <2>1, <2>2 DEF Sound, ReadsAreFresh, GuardIsNewest, Knows
<1>6. CASE Recheck(a) \/ RecheckRow(a)
  <2>1. UNCHANGED <<registered, publishing, scene, current_seq, events, unheard,
                    holds, seqRead, docsRead>>
    BY <1>6 DEF Recheck, RecheckRow, memory, history
  <2>2. InUse' \subseteq InUse /\ \A b \in Building' : b \in Building /\ pc'[b] = pc[b]
    <3>1. /\ pc[a] \in {"recheck", "rowcheck"}
          /\ pc' = [pc EXCEPT ![a] = "rowcheck"] \/ pc' = [pc EXCEPT ![a] = "held"]
               \/ pc' = [pc EXCEPT ![a] = "withdraw"]
      BY <1>6 DEF Recheck, RecheckRow, At
    <3>2. \A b \in Actors : b # a => pc'[b] = pc[b]
      BY <3>1 DEF RoomsInv, TypeOK
    <3>3. pc'[a] \in {"rowcheck", "held", "withdraw"}
      BY <3>1 DEF RoomsInv, TypeOK
    <3> QED BY <3>1, <3>2, <3>3 DEF Actors
  <2> QED BY <2>1, <2>2, SoundStays
<1>7. CASE Withdraw(a)
  <2> DEFINE others == (Actors \ {a}) \cap (Counted \cup Uncounted \cup Building)
  <2>1. Unregister(others)
    BY <1>7 DEF Withdraw
  <2>2. InUse' \subseteq InUse \cap others /\ Building' \subseteq Building \cap others
    BY <1>7 DEF Withdraw, At, RoomsInv, TypeOK, Actors
  <2> HIDE DEF others
  <2> QED BY <2>1, <2>2, LeavesNobody
<1>8. CASE GivesUp(a)
  <2>1. UNCHANGED <<registered, publishing, scene, current_seq, events, unheard,
                    holds, seqRead, docsRead>>
    BY <1>8 DEF GivesUp, memory
  <2>2. InUse' \subseteq InUse /\ \A b \in Building' : b \in Building /\ pc'[b] = pc[b]
    <3>1. pc' = [pc EXCEPT ![a] = "refused"]
      BY <1>8 DEF GivesUp, At
    <3>2. \A b \in Actors : b # a => pc'[b] = pc[b]
      BY <3>1 DEF RoomsInv, TypeOK
    <3>3. pc'[a] = "refused"
      BY <3>1 DEF RoomsInv, TypeOK
    <3> QED BY <3>1, <3>2, <3>3 DEF Actors
  <2> QED BY <2>1, <2>2, SoundStays
<1> QED BY <1>1, <1>2, <1>3, <1>4, <1>5, <1>6, <1>7, <1>8 DEF GetOrCreate

(* publish: only the registered Room is used, so its seqs are the log's.   *)
LEMMA PublishSound ==
  ASSUME RoomsInv, Sound, NEW a \in Actors,
         Deny(a) \/ Store(a) \/ Broadcast(a) \/ WriteDropped(a)
  PROVE  Sound'
<1>0. MaxSeq \in Nat
  BY ConstantsOK DEF ConstantsOK
<1>1. CASE Deny(a)
  <2>1. UNCHANGED <<registered, publishing, scene, current_seq, events, unheard,
                    holds, seqRead, docsRead>>
    BY <1>1 DEF Deny, memory, history
  <2>2. InUse' \subseteq InUse /\ \A b \in Building' : b \in Building /\ pc'[b] = pc[b]
    BY <1>1 DEF Deny, At, RoomsInv, TypeOK, InUse, Counted, Subscribed, Uncounted, Building
  <2> QED BY <2>1, <2>2, SoundStays
<1>2. CASE Store(a)
  <2>1. /\ publishing[registered] = 0 /\ holds[a] = registered /\ registered \in RoomIds
        /\ registered # NoRoom
    <3>1. a \in InUse
      BY <1>2 DEF Store, At, InUse, Counted, Subscribed, Uncounted
    <3> QED BY <1>2, <3>1, UsersRoom DEF Store, Sound, InRoom, RoomIds, NoRoom
  <2>2. PICK n \in Nat : n = events + 1
    BY DEF RoomsInv, TypeOK
  <2>3. /\ events' = n /\ publishing' = [publishing EXCEPT ![registered] = n]
        /\ UNCHANGED <<registered, scene, current_seq, holds, seqRead, docsRead, unheard>>
    BY <1>2, <2>1, <2>2 DEF Store, history
  <2>4. InUse' \subseteq InUse
    <3>1. CASE a \in Sockets /\ At(a, "admitted", "seeding")
      BY <1>2, <3>1 DEF At, RoomsInv, TypeOK, InUse, Counted, Subscribed, Uncounted
    <3>2. CASE a \in Sockets /\ At(a, "live", "writing")
      BY <1>2, <3>2 DEF At, RoomsInv, TypeOK, InUse, Counted, Subscribed, Uncounted, Actors
    <3>3. CASE a \in Writers /\ At(a, "held", "publishing")
      BY <1>2, <3>3 DEF At, RoomsInv, TypeOK, InUse, Counted, Subscribed, Uncounted
    <3> QED BY <1>2, <3>1, <3>2, <3>3 DEF Store
  <2>5. publishing'[registered'] = n
    BY <2>1, <2>3 DEF RoomsInv, TypeOK
  <2>6. InRoom' /\ ReadsAreFresh' /\ GuardIsNewest'
    BY <2>1, <2>3, <2>4, <2>5 DEF Sound, InRoom, ReadsAreFresh, GuardIsNewest
  <2>7. Knows'
    BY <2>1, <2>2, <2>3, <2>5 DEF Sound, Knows, RoomsInv, TypeOK
  <2> QED BY <2>6, <2>7 DEF Sound
<1>3. CASE Broadcast(a) \/ WriteDropped(a)
  <2>1. a \in Publishing
    BY <1>3 DEF Broadcast, WriteDropped, At, Publishing
  <2>2. /\ holds[a] = registered /\ registered \in RoomIds /\ registered # NoRoom
        /\ publishing[registered] = events
    BY <1>0, <2>1, PublishersRoom, UsersRoom DEF Sound, InRoom, GuardIsNewest, RoomIds, NoRoom
  <2>3. /\ publishing' = [publishing EXCEPT ![registered] = 0]
        /\ UNCHANGED <<registered, events, holds, seqRead, docsRead>>
    BY <1>3, <2>2 DEF Broadcast, WriteDropped
  <2>4. publishing'[registered'] = 0
    BY <2>2, <2>3 DEF RoomsInv, TypeOK
  <2>5. InUse' \subseteq InUse
    BY <1>3 DEF Broadcast, WriteDropped, At, RoomsInv, TypeOK, OnlySocketsLive, InUse, Counted,
                Subscribed, Uncounted, Actors
  <2>6. InRoom' /\ ReadsAreFresh' /\ GuardIsNewest'
    BY <2>2, <2>3, <2>4, <2>5 DEF Sound, InRoom, ReadsAreFresh, GuardIsNewest
  <2>7. CASE Broadcast(a)
    <3>1. /\ scene'[registered] = scene[registered] \cup {events}
          /\ current_seq'[registered] = events
          /\ unheard' = unheard
      BY <2>2, <2>7 DEF Broadcast, history, RoomsInv, TypeOK
    <3>2. Knows'
      BY <2>2, <2>3, <2>4, <3>1 DEF Sound, Knows, RoomsInv, TypeOK
    <3> QED BY <2>6, <3>2 DEF Sound
  <2>8. CASE WriteDropped(a)
    <3>1. unheard' = unheard \cup {events} /\ UNCHANGED <<scene, current_seq>>
      BY <2>2, <2>8 DEF WriteDropped
    <3>2. Knows'
      BY <2>2, <2>3, <2>4, <3>1 DEF Sound, Knows
    <3> QED BY <2>6, <3>2 DEF Sound
  <2> QED BY <1>3, <2>7, <2>8
<1> QED BY <1>1, <1>2, <1>3

LEMMA SocketSound ==
  ASSUME RoomsInv, Sound, NEW s \in Sockets, HandleSocket(s), ~torn'
  PROVE  Sound'
<1>1. CASE Admit(s) \/ Count(s) \/ Subscribe(s) \/ End(s)
  <2>1. UNCHANGED <<registered, publishing, scene, current_seq, events, unheard,
                    holds, seqRead, docsRead>>
    BY <1>1 DEF Admit, Count, Subscribe, End, memory, history
  <2>2. InUse' \subseteq InUse /\ \A b \in Building' : b \in Building /\ pc'[b] = pc[b]
    BY <1>1 DEF Admit, Count, Subscribe, End, At, RoomsInv, TypeOK, InUse, Counted, Subscribed,
                Uncounted, Building, Actors
  <2> QED BY <2>1, <2>2, SoundStays
<1>2. CASE ReapIfEmpty(s)
  <2>1. InUse' \subseteq InUse /\ \A b \in Building' : b \in Building /\ pc'[b] = pc[b]
    BY <1>2 DEF ReapIfEmpty, At, RoomsInv, TypeOK, InUse, Counted, Subscribed, Uncounted, Building
  <2>2. UNCHANGED <<publishing, scene, current_seq, events, unheard, holds, seqRead, docsRead>>
    BY <1>2 DEF ReapIfEmpty
  <2>3. CASE ~Reaps
    BY <1>2, <2>1, <2>2, <2>3, SoundStays DEF ReapIfEmpty
  <2>4. CASE Reaps
    <3>1. registered \in RoomIds /\ Cardinality(CountedIn(registered)) = 0
      BY <2>4, ConstantsOK, CountsAreBounded
         DEF Reaps, RoomsInv, ConnectionsCount, TypeOK, NoRoom, RoomIds, ConstantsOK
    <3>2. CountedIn(registered) = {}
      BY <3>1, CountsAreBounded, FS_EmptySet
    <3>3. Counted = {}
      BY <3>2 DEF CountedIn, Sound, InRoom, InUse
    <3>4. Unregister(Uncounted \cup Building)
      BY <1>2, <2>4 DEF ReapIfEmpty
    <3>5. InUse' \subseteq InUse \cap (Uncounted \cup Building)
          /\ Building' \subseteq Building \cap (Uncounted \cup Building)
      BY <2>1, <3>3 DEF InUse
    <3> QED BY <3>4, <3>5, LeavesNobody
  <2> QED BY <2>3, <2>4
<1> QED BY <1>1, <1>2 DEF HandleSocket

LEMMA DeleteSound ==
  ASSUME RoomsInv, Sound, NEW d \in Deleters, DeleteWorld(d), ~torn'
  PROVE  Sound'
<1>1. UNCHANGED <<publishing, scene, current_seq, events, unheard, holds, seqRead, docsRead, pc>>
  BY DEF DeleteWorld, BeginDelete, DeleteRow, FinishDelete, DeleteDropped, memory, actors, history
<1>2. InUse' = InUse /\ Building' = Building
  BY <1>1 DEF InUse, Counted, Subscribed, Uncounted, Building
<1>3. CASE registered' = registered
  BY <1>1, <1>2, <1>3, SoundStays
<1>4. CASE registered' # registered
  <2>1. Unregister(Counted \cup Uncounted \cup Building)
    BY <1>4 DEF DeleteWorld, BeginDelete, DeleteRow, FinishDelete, DeleteDropped, memory
  <2>2. InUse' \subseteq InUse \cap (Counted \cup Uncounted \cup Building)
        /\ Building' \subseteq Building \cap (Counted \cup Uncounted \cup Building)
    BY <1>2 DEF InUse
  <2> QED BY <2>1, <2>2, LeavesNobody
<1> QED BY <1>3, <1>4

LEMMA UntornStep ==
  ASSUME RoomsInv, UntornInv, [Next]_vars
  PROVE  UntornInv'
<1> SUFFICES ASSUME ~torn' PROVE Sound'
  BY DEF UntornInv
<1>0. Sound
  BY TornStays DEF UntornInv
<1>1. ASSUME NEW a \in Actors, GetOrCreate(a) \/ Deny(a) \/ Store(a) \/ Broadcast(a)
      PROVE  Sound'
  BY <1>0, <1>1, GetOrCreateSound, PublishSound
<1>2. ASSUME NEW s \in Sockets, HandleSocket(s) PROVE Sound'
  BY <1>0, <1>2, SocketSound
<1>3. ASSUME NEW w \in Writers, WriteDropped(w) PROVE Sound'
  BY <1>0, <1>3, PublishSound DEF Actors
<1>4. ASSUME NEW d \in Deleters, DeleteWorld(d) PROVE Sound'
  BY <1>0, <1>4, DeleteSound
<1>5. CASE UNCHANGED vars
  BY <1>0, <1>5, SoundStays
     DEF vars, memory, actors, history, InUse, Counted, Subscribed, Uncounted, Building
<1> QED BY <1>1, <1>2, <1>3, <1>4, <1>5 DEF Next

LEMMA UntornInit == Init => UntornInv
<1> SUFFICES ASSUME Init PROVE Sound
  BY DEF UntornInv
<1>1. InUse = {} /\ Building = {}
  BY DEF Init, InUse, Counted, Uncounted, Subscribed, Building, Actors
<1> QED BY <1>1 DEF Init, Sound, InRoom, ReadsAreFresh, GuardIsNewest, Knows, NoRoom

LEMMA UntornAlways == Spec => []UntornInv
<1> QED BY RoomsAlways, UntornInit, UntornStep, PTL DEF Spec

(* reap_if_empty, begin_delete and the re-check of get_or_create: while no *)
(* Room left the registry under anybody's feet, every live session is in   *)
(* the registered Room, RoomSync's premise, however many sockets, writes   *)
(* and deletions there are.                                                *)
THEOREM OneRoomAlways == Spec => []OneRoomUnlessTorn
<1>1. UntornInv => OneRoomUnlessTorn
  BY DEF UntornInv, Sound, InRoom, OneRoomUnlessTorn, OneRoom, InUse, Counted
<1> QED BY <1>1, UntornAlways, PTL

(* get_or_create reads the seq and the documents before it inserts: while  *)
(* no Room was torn, the registered Room knows every command of the log    *)
(* that anybody was told of.                                               *)
THEOREM UpToDateAlways == Spec => []UpToDateUnlessTorn
<1>1. RoomsInv /\ UntornInv => UpToDateUnlessTorn
  BY DEF UntornInv, Sound, Knows, UpToDateUnlessTorn, UpToDate
<1> QED BY <1>1, RoomsAlways, UntornAlways, PTL

-----------------------------------------------------------------------------
(* Third, deletions.  One that ends takes the tombstone of another with    *)
(* it, and a ghost is possible then: what is proved is for deletions that  *)
(* never end while another has begun and not yet committed.                *)

FinishesAlone ==
  \A d \in Deleters : FinishDelete(d) => \A e \in Deleters \ {d} : dpc[e] # "begun"

Begun == \E d \in Deleters : dpc[d] = "begun"
TombHeld == Begun => deleting
Barred ==
  Begun /\ registered # NoRoom =>
    \E a \in Actors : pc[a] \in {"recheck", "withdraw"} /\ holds[a] = registered

GhostInv == TombHeld /\ Barred /\ NoGhostUnlessAbandoned

(* Whoever leaves the re-checks of a world being deleted, or deleted, has  *)
(* removed the entry.                                                      *)
LEMMA GetOrCreateGhost ==
  ASSUME TypeOK, GhostInv, NEW a \in Actors, GetOrCreate(a)
  PROVE  GhostInv'
<1>1. UNCHANGED <<row, dpc, deleting>>
  BY DEF GetOrCreate, LookUp, GetWorld, QueryDocuments, Insert, Recheck, RecheckRow, Withdraw,
         GivesUp, memory
<1>2. TombHeld'
  BY <1>1 DEF GhostInv, TombHeld, Begun
<1>3. \A b \in Actors : b # a => pc'[b] = pc[b] /\ holds'[b] = holds[b]
  BY DEF TypeOK, At, GetOrCreate, LookUp, GetWorld, QueryDocuments, Insert, Recheck, RecheckRow,
         Withdraw, GivesUp
<1>4. CASE LookUp(a) \/ GetWorld(a) \/ QueryDocuments(a)
  <2>1. pc[a] \notin {"recheck", "rowcheck", "withdraw"} /\ UNCHANGED <<registered, abandoned>>
    BY <1>4 DEF At, LookUp, GetWorld, QueryDocuments, memory, history
  <2> QED BY <1>1, <1>2, <1>3, <2>1 DEF GhostInv, Barred, NoGhostUnlessAbandoned, Begun
<1>5. CASE Insert(a)
  <2>1. pc'[a] = "recheck" /\ holds'[a] = registered'
    BY <1>5 DEF Insert, At, TypeOK
  <2> QED BY <1>2, <2>1 DEF GhostInv, Barred, NoGhostUnlessAbandoned
<1>6. CASE Recheck(a)
  <2>1. UNCHANGED <<registered, holds, abandoned>> /\ pc[a] = "recheck"
    BY <1>6 DEF Recheck, At, memory, history
  <2>2. pc'[a] \in {"rowcheck", "withdraw"} /\ (deleting => pc'[a] = "withdraw")
    BY <1>6 DEF Recheck, At, TypeOK
  <2>3. Barred'
    BY <1>1, <1>3, <2>1, <2>2 DEF GhostInv, TombHeld, Barred, Begun
  <2>4. NoGhostUnlessAbandoned'
    BY <1>1, <1>3, <2>1, <2>2 DEF GhostInv, NoGhostUnlessAbandoned
  <2> QED BY <1>2, <2>3, <2>4 DEF GhostInv
<1>7. CASE RecheckRow(a)
  <2>1. UNCHANGED <<registered, holds, abandoned>> /\ pc[a] = "rowcheck"
    BY <1>7 DEF RecheckRow, At, memory, history
  <2>2. ~row => pc'[a] = "withdraw"
    BY <1>7 DEF RecheckRow, RowIsThere, At, TypeOK
  <2>3. Barred'
    BY <1>1, <1>3, <2>1 DEF GhostInv, Barred, Begun
  <2>4. NoGhostUnlessAbandoned'
    BY <1>1, <1>3, <2>1, <2>2 DEF GhostInv, NoGhostUnlessAbandoned
  <2> QED BY <1>2, <2>3, <2>4 DEF GhostInv
<1>8. CASE Withdraw(a)
  <2>1. registered' = NoRoom
    BY <1>8 DEF Withdraw, Unregister
  <2> QED BY <1>2, <2>1 DEF GhostInv, Barred, NoGhostUnlessAbandoned
<1>9. CASE GivesUp(a)
  <2>1. UNCHANGED <<registered, holds>> /\ pc[a] \in {"row", "docs", "rowcheck"}
    BY <1>9 DEF GivesUp, At, memory
  <2>2. Barred'
    BY <1>1, <1>3, <2>1 DEF GhostInv, Barred, Begun
  <2>3. abandoned \subseteq abandoned'
    BY <1>9 DEF GivesUp
  <2>4. NoGhostUnlessAbandoned'
    <3> SUFFICES ASSUME ~row, registered # NoRoom, registered \notin abandoned'
                 PROVE  \E b \in Actors : /\ pc'[b] \in {"recheck", "rowcheck", "withdraw"}
                                           /\ holds'[b] = registered
      BY <1>1, <2>1 DEF NoGhostUnlessAbandoned
    <3>1. pc[a] = "rowcheck" => holds[a] # registered
      BY <1>9, <2>3 DEF GivesUp
    <3>2. PICK b \in Actors : /\ pc[b] \in {"recheck", "rowcheck", "withdraw"}
                               /\ holds[b] = registered
      BY <2>3 DEF GhostInv, NoGhostUnlessAbandoned
    <3>3. b # a
      BY <2>1, <3>1, <3>2
    <3> QED BY <1>3, <3>2, <3>3
  <2> QED BY <1>2, <2>2, <2>4 DEF GhostInv
<1> QED BY <1>4, <1>5, <1>6, <1>7, <1>8, <1>9 DEF GetOrCreate

LEMMA DeleteGhost ==
  ASSUME TypeOK, GhostInv, FinishesAlone, NEW d \in Deleters, DeleteWorld(d)
  PROVE  GhostInv'
<1>1. CASE BeginDelete(d)
  <2>1. registered' = NoRoom /\ deleting'
    BY <1>1 DEF BeginDelete, Unregister
  <2> QED BY <2>1 DEF GhostInv, TombHeld, Barred, NoGhostUnlessAbandoned
<1>2. CASE DeleteRow(d) \/ DeleteDropped(d)
  <2>1. UNCHANGED <<registered, deleting, pc, holds, abandoned>> /\ (Begun' => Begun)
    BY <1>2 DEF DeleteRow, DeleteDropped, DAt, TypeOK, Begun, memory, actors, history
  <2>2. row' = row \/ Begun
    BY <1>2 DEF DeleteRow, DeleteDropped, DAt, Begun
  <2> QED BY <2>1, <2>2 DEF GhostInv, TombHeld, Barred, NoGhostUnlessAbandoned
<1>3. CASE FinishDelete(d)
  <2>1. UNCHANGED <<row, registered, pc, holds, abandoned>>
    BY <1>3 DEF FinishDelete, actors, history
  <2>2. ~Begun'
    <3>1. \A e \in Deleters \ {d} : dpc[e] # "begun" /\ dpc'[e] = dpc[e]
      BY <1>3 DEF FinishesAlone, FinishDelete, DAt, TypeOK
    <3>2. dpc'[d] = "ended"
      BY <1>3 DEF FinishDelete, DAt, TypeOK
    <3> QED BY <3>1, <3>2 DEF Begun
  <2> QED BY <2>1, <2>2 DEF GhostInv, TombHeld, Barred, NoGhostUnlessAbandoned
<1> QED BY <1>1, <1>2, <1>3 DEF DeleteWorld

LEMMA GhostStep ==
  ASSUME TypeOK, GhostInv, [Next]_vars, [FinishesAlone]_vars
  PROVE  GhostInv'
<1>1. ASSUME NEW a \in Actors, GetOrCreate(a) PROVE GhostInv'
  BY <1>1, GetOrCreateGhost
<1>2. ASSUME NEW a \in Actors,
             Deny(a) \/ Store(a) \/ Broadcast(a) \/ WriteDropped(a) \/ HandleSocket(a)
      PROVE  GhostInv'
  <2>1. /\ UNCHANGED <<row, dpc, deleting, holds, abandoned>>
        /\ registered' \in {registered, NoRoom}
    BY <1>2 DEF Deny, Store, Broadcast, WriteDropped, HandleSocket, Admit, Count, Subscribe, End,
                ReapIfEmpty, Unregister, memory, history
  <2>2. \A b \in Actors : pc[b] \in {"recheck", "rowcheck", "withdraw"} => pc'[b] = pc[b]
    BY <1>2 DEF Deny, Store, Broadcast, WriteDropped, HandleSocket, Admit, Count, Subscribe, End,
                ReapIfEmpty, At, TypeOK
  <2> QED BY <2>1, <2>2 DEF GhostInv, TombHeld, Barred, NoGhostUnlessAbandoned, Begun
<1>3. ASSUME NEW d \in Deleters, DeleteWorld(d) PROVE GhostInv'
  <2>1. CASE UNCHANGED vars
    BY <2>1 DEF vars, memory, actors, history, GhostInv, TombHeld, Barred,
                  NoGhostUnlessAbandoned, Begun
  <2> QED BY <1>3, <2>1, DeleteGhost
<1>4. CASE UNCHANGED vars
  BY <1>4 DEF vars, memory, actors, history, GhostInv, TombHeld, Barred,
                  NoGhostUnlessAbandoned, Begun
<1> QED BY <1>1, <1>2, <1>3, <1>4 DEF Next, Actors

LEMMA GhostInit == Init => GhostInv
BY DEF Init, GhostInv, TombHeld, Barred, NoGhostUnlessAbandoned, Begun

(* begin_delete's tombstone and get_or_create's re-check: as long as no    *)
(* deletion ends while another has begun and not yet committed, a deleted  *)
(* world has a Room only between an insert and its re-check, however many  *)
(* joins, writes, reaps and deletions interleave.                          *)
THEOREM NoGhostWhileApart == Spec /\ [][FinishesAlone]_vars => []NoGhostUnlessAbandoned
<1>1. GhostInv => NoGhostUnlessAbandoned
  BY DEF GhostInv
<1> QED BY <1>1, GhostInit, GhostStep, RegistryTyped, PTL DEF Spec

(* The case of a single deletion, which cannot meet another.               *)
COROLLARY NoGhostOfOneDeletion ==
  ASSUME \A d, e \in Deleters : d = e
  PROVE  Spec => []NoGhostUnlessAbandoned
<1>1. FinishesAlone
  BY DEF FinishesAlone
<1>2. [FinishesAlone]_vars
  BY <1>1
<1> QED BY <1>2, NoGhostWhileApart, PTL
=============================================================================
