---------------------------- MODULE EgressFilter ----------------------------
(***************************************************************************)
(* What one player is sent of a world's commands (data/permission.rs,      *)
(* data/snapshot.rs): each command is logged with a snapshot of the rights *)
(* in force at its commit, and filtered for the player, when his           *)
(* connection gets to it, by those rights and by the rights of now.  "Now" *)
(* is two moments: the documents are loaded first, the owners of actors    *)
(* are read from the Room's scene afterwards (ws/conn.rs).                 *)
(*                                                                         *)
(* A document has one field with a visibility tier.  The player is no GM,  *)
(* his entry or the default of a document is either observer or none       *)
(* (open), and no capability is granted besides.                           *)
(***************************************************************************)
EXTENDS Integers, Sequences, FiniteSets, Functions, SequencesExt

CONSTANTS
  Actor,       \* the actor the tokens link to
  Tokens,      \* documents of type token
  Notes,       \* documents of a type whose owner gains nothing by READ
  Player,      \* the recipient
  Worlds,      \* [docs, batches]: the stored documents and the batches a behaviour commits
  MaxCommits   \* bound

Ids == {Actor} \cup Tokens \cup Notes
None == "none"
Null == 0
Unwitnessed == -1

(* A document as it is stored before the behaviour, and what a batch may   *)
(* ask for: an update writes the fields it names.                          *)
IsStored(doc) ==
  DOMAIN doc = {"owner", "open", "tier", "val", "parent", "created"} /\ doc.created = 0
IsAsked(o) ==
  /\ o.id \in Ids
  /\ \/ o.op = "create" /\ DOMAIN o.doc = {"owner", "open", "tier", "parent"}
     \/ o.op = "update" /\ DOMAIN o.set \subseteq {"owner", "open", "tier", "val"}
     \/ o.op \in {"delete", "move"}

ASSUME EgressConstants ==
  \A w \in Worlds :
    /\ DOMAIN w.docs \subseteq Ids /\ \A id \in DOMAIN w.docs : IsStored(w.docs[id])
    /\ \A batch \in w.batches : batch \in Seq(Range(batch)) /\ \A o \in Range(batch) : IsAsked(o)

VARIABLES
  world,      \* the batches of this behaviour
  docs,       \* the documents table
  log,        \* the commands, with their snapshots
  published,  \* how many of them the Room has applied to its scene and broadcast
  ecs,        \* the scene's actors: their owners
  cursor,     \* how many the player's connection has sent
  loaded,     \* the documents loaded for the next one, if they are
  replica,    \* the player's documents
  shown,      \* history: the values a commit left visible to the player
  left        \* history: the documents the filter loses track of, why and since which commit

vars == <<world, docs, log, published, ecs, cursor, loaded, replica, shown, left>>

-----------------------------------------------------------------------------
(* Rights.  A token with no owner of its own is its actor's owner's; the   *)
(* effective owner of a token may read it.                                 *)
effective_owner(id, doc, actors) ==
  IF doc.owner # None THEN doc.owner
  ELSE IF id \in Tokens /\ Actor \in DOMAIN actors THEN actors[Actor] ELSE None

has_read(id, open, owner) == open \/ (id \in Tokens /\ owner = Player)

can_see(tier, owner) == tier = "all" \/ (tier = "owner" /\ owner = Player)

filter_properties(doc, owner) ==
  [val |-> IF can_see(doc.tier, owner) THEN doc.val ELSE Null, parent |-> doc.parent]

actorsOf(table) == [a \in DOMAIN table \cap {Actor} |-> table[a].owner]
OwnerIn(table, id) == effective_owner(id, table[id], actorsOf(table))
Reads(table, id) == id \in DOMAIN table /\ has_read(id, table[id].open, OwnerIn(table, id))
Sees(table, id) == Reads(table, id) /\ can_see(table[id].tier, OwnerIn(table, id))

(* world_snapshot: what a fresh connection starts from.                    *)
world_snapshot(table) ==
  [id \in {d \in DOMAIN table : Reads(table, d)} |->
     filter_properties(table[id], OwnerIn(table, id))]

-----------------------------------------------------------------------------
(* f where it is defined, g elsewhere.                                     *)
Over(f, g) == [x \in DOMAIN f \cup DOMAIN g |-> IF x \in DOMAIN f THEN f[x] ELSE g[x]]
Put(table, id, doc) == Over([x \in {id} |-> doc], table)
Without(table, id) == Restrict(table, DOMAIN table \ {id})

(* A commit.  Each write's value is the number of its command, and so is   *)
(* the generation (created_seq) of a document it creates.                  *)
Stamp(n, o) ==
  CASE o.op = "create" -> [op |-> "create", id |-> o.id,
                           doc |-> Over([val |-> n, created |-> n], o.doc)]
    [] o.op = "delete" -> [op |-> "delete", id |-> o.id, doc |-> docs[o.id]]
    [] o.op = "update" -> [op |-> "update", id |-> o.id,
                           set |-> [f \in DOMAIN o.set |-> IF f = "val" THEN n ELSE o.set[f]]]
    [] o.op = "move"   -> o

Written(t, id, doc) ==
  [ok |-> TRUE, docs |-> Put(t.docs, id, doc), images |-> Put(t.images, id, doc)]
Apply(t, o) ==
  IF ~t.ok THEN t
  ELSE IF o.op \in {"update", "move"} /\ o.id \notin DOMAIN t.docs THEN [t EXCEPT !.ok = FALSE]
  ELSE CASE o.op = "create" -> Written(t, o.id, o.doc)
         [] o.op = "delete" -> [t EXCEPT !.docs = Without(@, o.id)]
         [] o.op = "move"   -> Written(t, o.id, [t.docs[o.id] EXCEPT !.parent = o.parent])
         [] o.op = "update" -> Written(t, o.id, Over(o.set, t.docs[o.id]))
applied(table, ops) == FoldLeft(Apply, [ok |-> TRUE, docs |-> table, images |-> <<>>], ops)

(* An update that writes into the permissions.                             *)
touches_permissions(o) == o.op = "update" /\ DOMAIN o.set \cap {"open", "tier"} # {}

(* Mutant: the owner before the command is taken from after it.            *)
OwnerAfter(table, t, id) == effective_owner(id, t.images[id], actorsOf(t.docs))
owner_before_commit(table, t, id) == OwnerIn(table, id)

(* Built once per command, from the documents the whole command leaves.    *)
build_op_snapshot(table, t, o) ==
  LET doc == IF o.op = "delete" THEN o.doc ELSE t.images[o.id]
      was == o.op \in {"update", "move"}
  IN [owner   |-> effective_owner(o.id, doc, actorsOf(t.docs)),
      open    |-> doc.open,
      tier    |-> doc.tier,
      created |-> IF o.op = "create" \/ (was /\ o.id \notin DOMAIN t.docs)
                  THEN Unwitnessed ELSE doc.created,
      before  |-> IF was THEN [open |-> table[o.id].open, owner |-> owner_before_commit(table, t, o.id)]
                  ELSE None]

-----------------------------------------------------------------------------
(* What the filter can lose track of, with the number of the commit.       *)
Updated(ops, id) == \E o \in Range(ops) : o.id = id /\ o.op = "update"
WritesVal(ops, id) == \E o \in Range(ops) : o.id = id /\ o.op = "update" /\ "val" \in DOMAIN o.set
Pending(id) == \E i \in cursor + 1..Len(log) : \E o \in Range(log[i].ops) : o.id = id

Loses(id, why, ops, table, after) ==
  CASE why = "mixed" -> \* its rights in the filter may be of two moments
         id \in Tokens /\ actorsOf(table) # actorsOf(after)
    [] why = "twice" -> \* created twice by one command, and the second stands
         \E i, j \in DOMAIN ops : i # j /\ \A k \in {i, j} : ops[k].op = "create" /\ ops[k].id = id
    [] why = "reowned" -> \* its actor changed hands, and no update of the token tells
         /\ id \in Tokens
         /\ \/ /\ id \in DOMAIN table \cap DOMAIN after
               /\ Reads(table, id) # Reads(after, id)
               /\ ~Updated(ops, id)
            \/ /\ Pending(id) \/ id \notin DOMAIN after
               /\ actorsOf(table) # actorsOf(after)
    [] why = "reused" -> \* the id is another document's before its delete was sent
         /\ Pending(id) /\ id \notin DOMAIN table
         /\ id \in DOMAIN after /\ ~Reads(after, id)
    [] why = "unread" -> \* deleted before the loss of READ was sent
         /\ Pending(id) /\ id \in DOMAIN table \ DOMAIN after
         /\ ~Reads(table, id)
    [] why = "unhidden" -> \* the field is shown, and not written
         /\ Reads(table, id) /\ Reads(after, id)
         /\ ~Sees(table, id) /\ Sees(after, id) /\ ~WritesVal(ops, id)
    [] why = "kept" -> \* the field is hidden by a change of owner
         /\ Reads(table, id) /\ Reads(after, id)
         /\ Sees(table, id) /\ ~Sees(after, id)
         /\ ~\E o \in Range(ops) : o.id = id /\ touches_permissions(o)

Forever == {"mixed", "twice"}
Losses == Forever \cup {"reowned", "reused", "unread", "unhidden", "kept"}
Reasons(n, ops, table, after) ==
  {[id |-> l[1], why |-> l[2], at |-> n] :
     l \in {p \in Ids \X Losses : Loses(p[1], p[2], ops, table, after)}}

Commit(batch) ==
  /\ published = Len(log) /\ Len(log) < MaxCommits
  /\ \A o \in Range(batch) : o.op = "create" <=> o.id \notin DOMAIN docs
  /\ LET n     == Len(log) + 1
         ops   == [i \in DOMAIN batch |-> Stamp(n, batch[i])]
         t     == applied(docs, ops)
     IN /\ t.ok
        /\ docs' = t.docs
        /\ log' = Append(log, [ops |-> ops,
                               per_op |-> [i \in DOMAIN ops |-> build_op_snapshot(docs, t, ops[i])]])
        /\ shown' = shown \cup {<<id, t.docs[id].val>> : id \in {d \in DOMAIN t.docs : Sees(t.docs, d)}}
        /\ left' = left \cup Reasons(n, ops, docs, t.docs)
  /\ UNCHANGED <<world, published, ecs, cursor, loaded, replica>>

(* commit_ops_locked: the scene takes the command, then it is broadcast.   *)
Owned(owner) == [a \in {Actor} |-> owner]
apply_op(actors, o) ==
  IF o.id # Actor THEN actors
  ELSE CASE o.op = "create" -> Owned(o.doc.owner)
         [] o.op = "delete" -> Without(actors, Actor)
         [] o.op = "update" -> IF Actor \in DOMAIN actors /\ "owner" \in DOMAIN o.set
                               THEN Owned(o.set.owner) ELSE actors
         [] o.op = "move"   -> actors
hydrated(actors, ops) == FoldLeft(apply_op, actors, ops)

Publish ==
  /\ published < Len(log)
  /\ ecs' = hydrated(ecs, log[published + 1].ops)
  /\ published' = published + 1
  /\ UNCHANGED <<world, docs, log, cursor, loaded, replica, shown, left>>

-----------------------------------------------------------------------------
(* filter_command: one operation for the player, by the documents loaded   *)
(* and the actors of the scene.  Nothing, one operation, or a delete that  *)
(* stands for what the player may not read any more.                       *)

current == Head(loaded)

(* READ at the commit and READ now.                                        *)
read_gate(o, s, doc) ==
  /\ has_read(o.id, s.open, s.owner)
  /\ has_read(o.id, doc.open, effective_owner(o.id, doc, ecs))

Whole(id, doc) ==
  [op |-> "create", id |-> id, doc |-> filter_properties(doc, effective_owner(id, doc, ecs))]

FilterCreate(o, s) ==
  IF read_gate(o, [open |-> o.doc.open, owner |-> s.owner], o.doc) THEN <<Whole(o.id, o.doc)>> ELSE <<>>

(* The current document is another one: its id was deleted and used again. *)
Reused(o, s) ==
  s.created # Unwitnessed /\ o.id \in DOMAIN current /\ current[o.id].created # s.created

FilterDelete(o, s) ==
  IF ~Reused(o, s) /\ read_gate(o, [open |-> o.doc.open, owner |-> s.owner], o.doc)
  THEN <<[op |-> "delete", id |-> o.id]>> ELSE <<>>

FilterMove(o, s) ==
  IF o.id \in DOMAIN current /\ ~Reused(o, s) /\ read_gate(o, s, current[o.id]) THEN <<o>> ELSE <<>>

(* Mutant: the field is cut by the tier of now alone.                      *)
HiddenNow(o, s, doc) == ~can_see(doc.tier, effective_owner(o.id, doc, ecs))
(* Hidden at the commit or hidden now.                                     *)
hidden(o, s, doc) ==
  \/ ~can_see(doc.tier, effective_owner(o.id, doc, ecs))
  \/ ~can_see(s.tier, s.owner)

retracts(o, s) == touches_permissions(o) /\ ~can_see(s.tier, s.owner)

(* A change of READ cannot travel as a change of a field: the last update  *)
(* of the document in the command carries it.                              *)
Transition(o, s) ==
  has_read(o.id, s.before.open, s.before.owner) # has_read(o.id, s.open, s.owner)
FilterUpdate(o, s, last) ==
  IF o.id \notin DOMAIN current \/ Reused(o, s) THEN <<>>
  ELSE LET doc == current[o.id]
           now == has_read(o.id, doc.open, effective_owner(o.id, doc, ecs))
       IN IF Transition(o, s)
          THEN IF ~last THEN <<>>
               ELSE IF ~has_read(o.id, s.open, s.owner) THEN <<[op |-> "delete", id |-> o.id]>>
               ELSE IF now THEN <<Whole(o.id, doc)>> ELSE <<>>
          ELSE IF ~read_gate(o, s, doc) THEN <<>>
          ELSE LET kept == DOMAIN o.set \cap (IF hidden(o, s, doc) THEN {} ELSE {"val"})
               IN <<[op |-> "update", id |-> o.id,
                     set |-> IF retracts(o, s) THEN [val |-> Null] ELSE Restrict(o.set, kept)]>>

last_update_idx_for_doc(ops, i) == \A j \in i + 1..Len(ops) : ~(ops[j].op = "update" /\ ops[j].id = ops[i].id)

filter_op(c, i) ==
  LET o == c.ops[i]
      s == c.per_op[i]
  IN CASE o.op = "create" -> FilterCreate(o, s)
       [] o.op = "delete" -> FilterDelete(o, s)
       [] o.op = "move"   -> FilterMove(o, s)
       [] o.op = "update" -> FilterUpdate(o, s, last_update_idx_for_doc(c.ops, i))
filter_command(c) == FoldLeftDomain(LAMBDA out, i : out \o filter_op(c, i), <<>>, c.ops)

(* applyOperation (store.ts): what the player's client makes of it.        *)
applyOperation(table, o) ==
  IF o.op \in {"update", "move"} /\ o.id \notin DOMAIN table THEN table
  ELSE CASE o.op = "create" -> Put(table, o.id, o.doc)
         [] o.op = "delete" -> Without(table, o.id)
         [] o.op = "move"   -> [table EXCEPT ![o.id].parent = o.parent]
         [] o.op = "update" -> [table EXCEPT ![o.id] = Over(o.set, @)]
applyCommand(table, ops) == FoldLeft(applyOperation, table, ops)

(* send_filtered_event, its two moments.                                   *)
load_current_docs ==
  /\ cursor < published /\ loaded = <<>>
  /\ loaded' = <<docs>>
  /\ UNCHANGED <<world, docs, log, published, ecs, cursor, replica, shown, left>>

send_filtered_event ==
  /\ loaded # <<>>
  /\ LET ops == filter_command(log[cursor + 1])
         whole == {o.id : o \in {p \in Range(ops) : p.op \in {"create", "delete"}}}
     IN /\ replica' = applyCommand(replica, ops)
        /\ left' = {l \in left : l.why \in Forever \/ ~(l.id \in whole /\ l.at <= cursor + 1)}
  /\ cursor' = cursor + 1
  /\ loaded' = <<>>
  /\ UNCHANGED <<world, docs, log, published, ecs, shown>>

Init ==
  /\ world \in Worlds
  /\ docs = world.docs
  /\ log = <<>> /\ published = 0 /\ cursor = 0 /\ loaded = <<>>
  /\ ecs = actorsOf(docs)
  /\ replica = world_snapshot(docs)
  /\ shown = {<<id, docs[id].val>> : id \in {d \in DOMAIN docs : Sees(docs, d)}}
  /\ left = {}

Next ==
  \/ \E batch \in world.batches : Commit(batch)
  \/ Publish
  \/ load_current_docs
  \/ send_filtered_event

Spec == Init /\ [][Next]_vars

-----------------------------------------------------------------------------
InStep == cursor = Len(log)
Excused(id, whys) == \E l \in left : l.id = id /\ l.why \in whys

(* Once everything is sent, the player has the documents and the fields a  *)
(* fresh connection would get, but for the documents whose actor changed   *)
(* hands, whose id was used again or was created twice by one command, and *)
(* for fields that became visible without being written or were hidden by  *)
(* a change of owner: the final state filter_command's synthesized creates *)
(* and deletes are to reach.                                               *)
MirrorUnlessLeft ==
  InStep =>
    LET view == world_snapshot(docs)
    IN \A id \in Ids :
         /\ Excused(id, {"twice", "reowned", "reused", "unread"}) \/ (id \in DOMAIN replica <=> id \in DOMAIN view)
         /\ \/ Excused(id, Losses)
            \/ id \in DOMAIN replica => /\ id \in DOMAIN view
                                       /\ replica[id] = view[id]

(* A value that a command wrote to a document and showed the player, and   *)
(* did not leave there, since it went on to delete the document: its update*)
(* knows no generation, and is sent with those of a later document that    *)
(* has got the same id (the id-reuse check of the Update arm).             *)
UsedAgain(n, id) ==
  \E m \in n + 1..Len(log) : \E o \in Range(log[m].ops) : o.op = "create" /\ o.id = id
Unkept(id, val) ==
  /\ val \in 1..Len(log) /\ UsedAgain(val, id)
  /\ \E i \in DOMAIN log[val].ops :
       LET o == log[val].ops[i]
           s == log[val].per_op[i]
       IN /\ o.op = "update" /\ o.id = id /\ "val" \in DOMAIN o.set
          /\ s.created = Unwitnessed
          /\ has_read(id, s.open, s.owner) /\ can_see(s.tier, s.owner)

(* A value reaches the player only if some commit left it visible to him,  *)
(* whichever rights are mixed in the filter: those of the commit, those of *)
(* the documents loaded, those of the scene.  But for a token whose actor  *)
(* changed hands (OwnerOrGm, in the Create arm), for an id one command     *)
(* creates twice, where apply_intent's upsert lets the second replace the  *)
(* first and the filter sends both, and for what a command wrote to a      *)
(* document it deleted, whose id was then used again.                      *)
OnlyShownUnlessReowned ==
  \A id \in DOMAIN replica :
    \/ replica[id].val = Null
    \/ <<id, replica[id].val>> \in shown
    \/ Excused(id, Forever)
    \/ Unkept(id, replica[id].val)
=============================================================================
