---------------------------- MODULE RoomRegistry ----------------------------
(***************************************************************************)
(* The life of one world's Room: RoomRegistry's get_or_create,             *)
(* reap_if_empty, begin_delete and finish_delete (ws/room.rs), run by      *)
(* joining and ending sockets (ws/conn.rs, handle_socket), by HTTP writes  *)
(* (http/routes.rs, write_ops) and by world deletions (delete_world).      *)
(* RoomSync takes one Room per world for granted; this module is about     *)
(* when there is one.  A command is its seq, a Room the order it was       *)
(* created in.                                                             *)
(***************************************************************************)
EXTENDS Integers, FiniteSets

CONSTANTS
  Sockets,      \* WebSocket connections, each one run of handle_socket
  Admins,       \* those of a server admin, who is GM of any world
  Writers,      \* HTTP document writes, each one run of write_ops
  Deleters,     \* HTTP world deletions, each one run of delete_world
  HandlersDrop, \* an HTTP handler may be dropped at an await: its client has gone
  MaxSeq,       \* bound: commands committed
  MaxRooms      \* bound: Rooms created

ASSUME ConstantsOK ==
  /\ IsFiniteSet(Sockets)
  /\ Admins \subseteq Sockets /\ Sockets \cap Writers = {}
  /\ HandlersDrop \in BOOLEAN
  /\ MaxSeq \in Nat /\ MaxRooms \in Nat

Actors == Sockets \cup Writers
RoomIds == 1..MaxRooms
NoRoom == 0

VARIABLES
  row,          \* the worlds row exists
  events,       \* worlds.seq
  registered,   \* RoomRegistry.rooms' entry for the world
  deleting,     \* the world is in RoomRegistry.deleting
  created,      \* Rooms created so far
  current_seq,  \* current_seq[r]: Room.current_seq
  scene,        \* scene[r]: the commands the Room's ECS and side tables reflect
  connections,  \* connections[r]: RoomStats.connections
  publishing,   \* publishing[r]: the command stored and not yet broadcast; 0: guard free
  pc,           \* pc[a]: how far an actor has got
  holds,        \* holds[a]: the Arc<Room> an actor has
  seqRead,      \* seqRead[a]: the world row's seq get_or_create has read
  docsRead,     \* docsRead[a]: the log position of the documents it has read
  evicted,      \* sockets with Evicted waiting in their receiver
  dpc,          \* dpc[d]: how far a deletion has got
  torn,         \* history: a Room left the registry under somebody's feet
  unheard,      \* history: the commands whose handler was dropped before the broadcast
  abandoned     \* history: the Rooms given up at the re-check of a world already deleted

memory == <<registered, deleting, created, current_seq, scene, connections, publishing>>
actors == <<pc, holds, seqRead, docsRead, evicted>>
history == <<torn, unheard, abandoned>>
vars   == <<row, events, memory, actors, dpc, history>>

At(a, from, to) == pc[a] = from /\ pc' = [pc EXCEPT ![a] = to]

(* Actors that have a Room and may still use it, and those among them the  *)
(* Room does not count; actors about to insert a Room built from what they *)
(* read earlier.                                                           *)
Subscribed == {s \in Sockets : pc[s] \in {"live", "writing"}}
Counted   == Subscribed \cup {s \in Sockets : pc[s] = "counted"}
Uncounted == {a \in Actors : pc[a] \in {"recheck", "rowcheck", "held", "admitted",
                                       "seeding", "publishing"}}
Building  == {a \in Actors : pc[a] \in {"docs", "insert"}}

-----------------------------------------------------------------------------
(* get_or_create                                                           *)

(* The tombstone, then the map.                                            *)
LookUp(a) ==
  /\ IF deleting THEN At(a, "idle", "refused") /\ UNCHANGED holds
     ELSE IF registered # NoRoom
       THEN At(a, "idle", "held") /\ holds' = [holds EXCEPT ![a] = registered]
       ELSE At(a, "idle", "row") /\ UNCHANGED holds
  /\ UNCHANGED <<row, events, memory, seqRead, docsRead, evicted, dpc, history>>

GetWorld(a) ==
  /\ At(a, "row", IF row THEN "docs" ELSE "refused")
  /\ seqRead' = [seqRead EXCEPT ![a] = events]
  /\ UNCHANGED <<row, events, memory, holds, docsRead, evicted, dpc, history>>

(* query_scene_entities and query_documents_by_types.                      *)
QueryDocuments(a) ==
  /\ At(a, "docs", "insert")
  /\ docsRead' = [docsRead EXCEPT ![a] = events]
  /\ UNCHANGED <<row, events, memory, holds, seqRead, evicted, dpc, history>>

(* entry().or_insert_with; without the or_, an entry is replaced.          *)
VacantOrNot == TRUE
Vacant == registered = NoRoom

Insert(a) ==
  /\ At(a, "insert", "recheck")
  /\ IF Vacant
       THEN /\ created < MaxRooms
            /\ created' = created + 1
            /\ registered' = created'
            /\ current_seq' = [current_seq EXCEPT ![created'] = seqRead[a]]
            /\ scene' = [scene EXCEPT ![created'] = 1..docsRead[a]]
       ELSE UNCHANGED <<created, registered, current_seq, scene>>
  /\ holds' = [holds EXCEPT ![a] = registered']
  /\ UNCHANGED <<row, events, deleting, connections, publishing, seqRead, docsRead,
                 evicted, dpc, history>>

(* The two layers of the re-check: the tombstone, then the row; failing    *)
(* either, the entry is removed, whoever's it is by now.                   *)
Recheck(a) ==
  /\ At(a, "recheck", IF deleting THEN "withdraw" ELSE "rowcheck")
  /\ UNCHANGED <<row, events, memory, holds, seqRead, docsRead, evicted, dpc, history>>

RowIsBelieved == TRUE
RowIsThere == row

RecheckRow(a) ==
  /\ At(a, "rowcheck", IF RowIsThere THEN "held" ELSE "withdraw")
  /\ UNCHANGED <<row, events, memory, holds, seqRead, docsRead, evicted, dpc, history>>

(* The entry is removed.  torn remembers whether anybody was left with the *)
(* removed Room, or about to insert what they read while it was in use.    *)
Unregister(others) ==
  /\ registered' = NoRoom
  /\ torn' = (torn \/ \E a \in others : a \in Building \/ holds[a] = registered)

Withdraw(a) ==
  /\ At(a, "withdraw", "refused")
  /\ Unregister((Actors \ {a}) \cap (Counted \cup Uncounted \cup Building))
  /\ UNCHANGED <<row, events, deleting, created, current_seq, scene, connections,
                 publishing, holds, seqRead, docsRead, evicted, dpc, unheard, abandoned>>

(* A query of get_or_create fails, and `?` returns its error, or the       *)
(* handler of a write is dropped while it waits for one.  At the re-check's*)
(* query the Room is in the registry and nobody removes it.                *)
GivesUp(a) ==
  /\ At(a, "row", "refused") \/ At(a, "docs", "refused") \/ At(a, "rowcheck", "refused")
  /\ abandoned' = IF pc[a] = "rowcheck" /\ ~row THEN abandoned \cup {holds[a]} ELSE abandoned
  /\ UNCHANGED <<row, events, memory, holds, seqRead, docsRead, evicted, dpc, torn, unheard>>

-----------------------------------------------------------------------------
(* handle_socket                                                           *)

(* permission_context: a server admin passes without a look at the world.  *)
Admit(s) ==
  /\ row \/ s \in Admins
  /\ At(s, "held", "admitted")
  /\ UNCHANGED <<row, events, memory, holds, seqRead, docsRead, evicted, dpc, history>>

(* No member of the world; for a write, apply_intent's refusal.            *)
Deny(a) ==
  /\ At(a, "held", "refused")
  /\ UNCHANGED <<row, events, memory, holds, seqRead, docsRead, evicted, dpc, history>>

Count(s) ==
  /\ At(s, "admitted", "counted")
  /\ connections' = [connections EXCEPT ![holds[s]] = @ + 1]
  /\ UNCHANGED <<row, events, registered, deleting, created, current_seq, scene,
                 publishing, holds, seqRead, docsRead, evicted, dpc, history>>

Subscribe(s) ==
  /\ At(s, "counted", "live")
  /\ UNCHANGED <<row, events, memory, holds, seqRead, docsRead, evicted, dpc, history>>

(* The socket closes, on Evicted or on its own.                            *)
LeftTwice(r) == connections[r] - 2
Left(r) == connections[r] - 1

End(s) ==
  /\ At(s, "live", "reaping")
  /\ connections' = [connections EXCEPT ![holds[s]] = Left(holds[s])]
  /\ evicted' = evicted \ {s}
  /\ UNCHANGED <<row, events, registered, deleting, created, current_seq, scene,
                 publishing, holds, seqRead, docsRead, dpc, history>>

(* reap_if_empty; Unchecked forgets the connections that are left.         *)
ReapsUnchecked == registered # NoRoom
Reaps == registered # NoRoom /\ connections[registered] <= 0

ReapIfEmpty(s) ==
  /\ At(s, "reaping", "ended")
  /\ IF Reaps THEN Unregister(Uncounted \cup Building) ELSE UNCHANGED <<registered, torn>>
  /\ UNCHANGED <<row, events, deleting, created, current_seq, scene, connections,
                 publishing, holds, seqRead, docsRead, evicted, dpc, unheard, abandoned>>

-----------------------------------------------------------------------------
(* publish: by reseed_world_config on a socket's way in, by the ingress    *)
(* loop of a live one, and by write_ops.  apply_intent refuses a world     *)
(* whose row is gone; the guard is held from there to the broadcast.       *)
Store(a) ==
  /\ row /\ events < MaxSeq
  /\ \/ a \in Sockets /\ (At(a, "admitted", "seeding") \/ At(a, "live", "writing"))
     \/ a \in Writers /\ At(a, "held", "publishing")
  /\ publishing[holds[a]] = 0
  /\ events' = events + 1
  /\ publishing' = [publishing EXCEPT ![holds[a]] = events + 1]
  /\ UNCHANGED <<row, registered, deleting, created, current_seq, scene, connections,
                 holds, seqRead, docsRead, evicted, dpc, history>>

Broadcast(a) ==
  /\ \/ At(a, "seeding", "admitted")
     \/ At(a, "writing", "live")
     \/ At(a, "publishing", "ended")
  /\ LET r == holds[a]
     IN /\ scene' = [scene EXCEPT ![r] = @ \cup {publishing[r]}]
        /\ current_seq' = [current_seq EXCEPT ![r] = publishing[r]]
        /\ publishing' = [publishing EXCEPT ![r] = 0]
  /\ UNCHANGED <<row, events, registered, deleting, created, connections,
                 holds, seqRead, docsRead, evicted, dpc, history>>

(* The handler of a write is dropped between its commit and its broadcast: *)
(* the guard is released and nobody hears of the command.                  *)
WriteDropped(w) ==
  /\ HandlersDrop
  /\ At(w, "publishing", "ended")
  /\ publishing' = [publishing EXCEPT ![holds[w]] = 0]
  /\ unheard' = unheard \cup {publishing[holds[w]]}
  /\ UNCHANGED <<row, events, registered, deleting, created, current_seq, scene,
                 connections, holds, seqRead, docsRead, evicted, dpc, torn, abandoned>>

-----------------------------------------------------------------------------
(* delete_world                                                            *)

DAt(d, from, to) == dpc[d] = from /\ dpc' = [dpc EXCEPT ![d] = to]

(* begin_delete and the Evicted broadcast on the Room it removed.          *)
BeginDelete(d) ==
  /\ DAt(d, "idle", "begun")
  /\ deleting' = TRUE
  /\ IF registered # NoRoom
       THEN /\ Unregister(Counted \cup Uncounted \cup Building)
            /\ evicted' = evicted \cup {s \in Subscribed : holds[s] = registered}
       ELSE UNCHANGED <<registered, torn, evicted>>
  /\ UNCHANGED <<row, events, created, current_seq, scene, connections, publishing,
                 pc, holds, seqRead, docsRead, unheard, abandoned>>

(* The transaction: it may fail, and does when the row is already gone.    *)
DeleteRow(d) ==
  /\ \/ row /\ row' = FALSE /\ DAt(d, "begun", "deleted")
     \/ UNCHANGED row /\ DAt(d, "begun", "failed")
  /\ UNCHANGED <<events, memory, actors, history>>

(* finish_delete, after success and failure alike.                         *)
FinishDelete(d) ==
  /\ DAt(d, "deleted", "ended") \/ DAt(d, "failed", "ended")
  /\ deleting' = FALSE
  /\ UNCHANGED <<row, events, registered, created, current_seq, scene, connections,
                 publishing, actors, history>>

(* The handler is dropped at the write barrier, in the transaction, or     *)
(* while the asset directory is removed.                                   *)
DeleteDropped(d) ==
  /\ HandlersDrop
  /\ DAt(d, "begun", "ended") \/ DAt(d, "deleted", "ended")
  /\ UNCHANGED <<row, events, memory, actors, history>>

-----------------------------------------------------------------------------
Init ==
  /\ row = TRUE /\ events = 0
  /\ registered = NoRoom /\ deleting = FALSE /\ created = 0
  /\ current_seq = [r \in RoomIds |-> 0]
  /\ scene = [r \in RoomIds |-> {}]
  /\ connections = [r \in RoomIds |-> 0]
  /\ publishing = [r \in RoomIds |-> 0]
  /\ pc = [a \in Actors |-> "idle"]
  /\ holds = [a \in Actors |-> NoRoom]
  /\ seqRead = [a \in Actors |-> 0]
  /\ docsRead = [a \in Actors |-> 0]
  /\ evicted = {}
  /\ dpc = [d \in Deleters |-> "idle"]
  /\ torn = FALSE /\ unheard = {} /\ abandoned = {}

GetOrCreate(a) ==
  LookUp(a) \/ GetWorld(a) \/ QueryDocuments(a) \/ Insert(a) \/ Recheck(a)
    \/ RecheckRow(a) \/ Withdraw(a) \/ GivesUp(a)

HandleSocket(s) ==
  Admit(s) \/ Count(s) \/ Subscribe(s) \/ End(s) \/ ReapIfEmpty(s)

DeleteWorld(d) == BeginDelete(d) \/ DeleteRow(d) \/ FinishDelete(d) \/ DeleteDropped(d)

Next ==
  \/ \E a \in Actors : GetOrCreate(a) \/ Deny(a) \/ Store(a) \/ Broadcast(a)
  \/ \E s \in Sockets : HandleSocket(s)
  \/ \E w \in Writers : WriteDropped(w)
  \/ \E d \in Deleters : DeleteWorld(d)

Spec == Init /\ [][Next]_vars

-----------------------------------------------------------------------------
(* Properties                                                              *)

TypeOK ==
  /\ row \in BOOLEAN /\ deleting \in BOOLEAN /\ torn \in BOOLEAN
  /\ unheard \subseteq 1..MaxSeq /\ abandoned \subseteq 0..created
  /\ events \in 0..MaxSeq /\ created \in 0..MaxRooms
  /\ registered \in 0..created
  /\ current_seq \in [RoomIds -> 0..MaxSeq]
  /\ scene \in [RoomIds -> SUBSET (1..MaxSeq)]
  /\ connections \in [RoomIds -> 0..Cardinality(Sockets)]
  /\ publishing \in [RoomIds -> 0..MaxSeq]
  /\ pc \in [Actors -> {"idle", "row", "docs", "insert", "recheck", "rowcheck",
                        "withdraw", "refused", "held", "admitted", "seeding", "counted", "live",
                        "writing", "publishing", "reaping", "ended"}]
  /\ holds \in [Actors -> 0..created]
  /\ seqRead \in [Actors -> 0..MaxSeq] /\ docsRead \in [Actors -> 0..MaxSeq]
  /\ evicted \subseteq Sockets
  /\ dpc \in [Deleters -> {"idle", "begun", "deleted", "failed", "ended"}]

OneRoom == \A s \in Subscribed : holds[s] = registered

(* The registered Room knows every command of the log, its own unfinished  *)
(* publish and those nobody was told of aside.                             *)
UpToDate ==
  registered # NoRoom /\ publishing[registered] = 0 =>
    \A e \in (1..events) \ unheard : e \in scene[registered] /\ e <= current_seq[registered]

(* Until a Room is removed from the registry while somebody holds it, or   *)
(* while somebody who found none is about to insert one, every live        *)
(* session is in the registered Room: RoomSync's premise.                  *)
OneRoomUnlessTorn == ~torn => OneRoom

(* Under the same premise the registered Room's seq, ECS and side tables   *)
(* are those of the log, whoever built it and whenever they read the       *)
(* world.                                                                  *)
UpToDateUnlessTorn == ~torn => UpToDate

(* Once a deletion has committed, a Room of the deleted world is           *)
(* registered only while somebody who has it is between their insert and   *)
(* the end of their re-check, or because the query of a re-check of it was *)
(* never answered: however joins and writes interleave with the deletion.  *)
NoGhostUnlessAbandoned ==
  ~row /\ registered # NoRoom =>
    \/ registered \in abandoned
    \/ \E a \in Actors : pc[a] \in {"recheck", "rowcheck", "withdraw"} /\ holds[a] = registered
=============================================================================
