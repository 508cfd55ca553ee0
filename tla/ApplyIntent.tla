---------------------------- MODULE ApplyIntent ----------------------------
(***************************************************************************)
(* SqliteRepository::apply_intent (data/sqlite.rs): one batch of           *)
(* operations becomes one command.  Phase 1 checks every operation against *)
(* the documents as they were before the batch, with a few maps that stand *)
(* for what earlier operations of the batch will have done; Phase 2 then   *)
(* applies them one after the other and checks next to nothing again.  A   *)
(* batch is one transaction, so an action is a whole batch.  What a client *)
(* makes of the logged command is core/src/store.ts, its undo is           *)
(* Command::invert (data/command.rs) run through apply_command.            *)
(*                                                                         *)
(* A document is its parent and its body; its type is a function of its    *)
(* id.  Grants are abstracted to a set of documents the players own.       *)
(***************************************************************************)
EXTENDS Integers, Sequences, FiniteSets, Functions, SequencesExt, FiniteSetsExt

CONSTANTS
  Docs,      \* document ids
  TypeOf,    \* TypeOf[d]: "combat", "combatant", "folder" (asset_folder, note), "single", "item"
  Bodies,    \* Bodies[d]: the bodies d may have; a combat's has fields active and scene
  Worlds,    \* sets of documents: the ids in use in one behaviour
  Owned,     \* documents a player may create, update and delete
  Asset,     \* an asset filed under a folder
  Root,      \* no parent
  MaxOps     \* bound: operations of a batch

(* A function with one more value, and with all of another laid over it.   *)
Put(f, d, x) == [c \in DOMAIN f \cup {d} |-> IF c = d THEN x ELSE f[c]]
Over(f, g) == [c \in DOMAIN f \cup DOMAIN g |-> IF c \in DOMAIN f THEN f[c] ELSE g[c]]

(* Deeper parents are refused, not walked; no world here is as deep.       *)
MAX_MOVE_ANCESTRY == 1000

ASSUME ConstantsOK ==
  /\ Worlds \subseteq SUBSET Docs /\ Owned \subseteq Docs
  /\ \A w \in Worlds : IsFiniteSet(w) /\ Cardinality(w) <= MAX_MOVE_ANCESTRY
  /\ Root \notin Docs /\ MaxOps \in Nat
  /\ \A d \in Docs : TypeOf[d] = "combat" =>
       \A b \in Bodies[d] : b.active \in BOOLEAN /\ "scene" \in DOMAIN b
  /\ \A d \in Docs : \A b, c \in Bodies[d] :
       /\ b = [f \in DOMAIN b |-> b[f]] /\ DOMAIN c = DOMAIN b
       /\ \A F \in SUBSET DOMAIN b : Over(Restrict(c, F), b) \in Bodies[d]

VARIABLES
  ids,       \* the ids this world uses
  docs,      \* the documents table: a function from the ids stored
  filed,     \* assets.folder_id of Asset
  replica,   \* the documents of a client that applies every logged command
  undoes,    \* history: the inverse of the last command would have restored the documents
  author,    \* history: who sent the last command
  tangled    \* history: what is unusual about the last batch (see Tangles)

vars == <<ids, docs, filed, replica, undoes, author, tangled>>

Parents == ids \cup {Root}

(* A tree is the function from each id to its parent.  Chain is what a     *)
(* walk up from d meets, d included; Root is the end of one that ends.     *)
Up(table) == [d \in ids |-> IF d \in DOMAIN table THEN table[d].parent ELSE Root]
Walk(up, d) ==
  LET at[n \in 0..Cardinality(DOMAIN up)] ==
        IF n = 0 THEN d ELSE IF at[n - 1] = Root THEN Root ELSE up[at[n - 1]]
  IN at
Chain(up, d) == Range(Walk(up, d))
Descendants(table, d) == {c \in DOMAIN table \ {d} : d \in Chain(Up(table), c)}

-----------------------------------------------------------------------------
(* Operations as a client sends them.  An update carries the old values it *)
(* was made from, a move the old parent: stale ones included.              *)

Creates ==
  UNION {{[op |-> "create", id |-> d, doc |-> [parent |-> p, body |-> b]] :
            p \in Parents, b \in Bodies[d]} : d \in ids}
Updates ==
  LET patches(d) ==
        UNION {{[op |-> "update", id |-> d, old |-> Restrict(b, F), new |-> Restrict(c, F)] :
                  F \in {G \in SUBSET DOMAIN b : \A f \in G : b[f] # c[f]} \ {{}}} :
                b \in Bodies[d], c \in Bodies[d]}
  IN UNION {patches(d) : d \in ids}
Moves ==
  UNION {{[op |-> "move", id |-> d, parent |-> p, old |-> q] :
            p \in Parents, q \in {docs[d].parent, Root}} : d \in DOMAIN docs}
Deletes == {[op |-> "delete", id |-> d] : d \in DOMAIN docs}

Ops == Creates \cup Updates \cup Moves \cup Deletes

-----------------------------------------------------------------------------
(* Phase 1: one operation, with the maps the batch has built so far.       *)

Start == [ok |-> TRUE, folders |-> <<>>, combats |-> {}, moves |-> <<>>,
          owner |-> <<>>, seeded |-> {}, singles |-> {}]
Refuse(acc) == [acc EXCEPT !.ok = FALSE]

Body(table, d, o) == Over(o.new, table[d].body)
IsActive(d, body) == TypeOf[d] = "combat" /\ body.active

(* Mutant of the pre-scan: any update that leaves a combat inactive frees. *)
FreesWhenInactive(batch) ==
  {docs[d].body.scene : d \in {e \in DOMAIN docs :
     TypeOf[e] = "combat" /\ \E i \in DOMAIN batch : batch[i].id = e /\ batch[i].op = "update"}}
(* The pre-scan: the scenes some operation of the batch will leave.        *)
deactivations_this_batch(batch) ==
  {docs[d].body.scene : d \in {e \in DOMAIN docs :
     /\ IsActive(e, docs[e].body)
     /\ \E i \in DOMAIN batch : batch[i].id = e /\
          \/ batch[i].op = "delete"
          \/ /\ batch[i].op = "update"
             /\ LET after == Body(docs, e, batch[i])
                IN ~after.active \/ after.scene # docs[e].body.scene}}

active_combat_owner(scene) ==
  {d \in DOMAIN docs : IsActive(d, docs[d].body) /\ docs[d].body.scene = scene}

ensure_scene_owner_seeded(acc, scene, freed) ==
  IF scene \in acc.seeded THEN acc
  ELSE [acc EXCEPT !.seeded = @ \cup {scene},
                   !.owner = IF scene \in freed \/ active_combat_owner(scene) = {} THEN @
                             ELSE Put(@, scene, CHOOSE d \in active_combat_owner(scene) : TRUE)]

(* Authority: a GM may everything; a player what the grants of the         *)
(* documents he owns give him, and never a move.                           *)
MayCreate(who, d) == who = "gm" \/ d \in Owned
MayUpdate(who, d) == who = "gm" \/ d \in Owned
DeletesAnything(who, d) == TRUE
MayDelete(who, d) == who = "gm" \/ d \in Owned
MayMove(who) == who = "gm"

(* A combat that will be active claims its scene.                          *)
Claim(acc, d, scene, freed) ==
  LET a == ensure_scene_owner_seeded(acc, scene, freed)
  IN IF scene \in DOMAIN a.owner /\ a.owner[scene] # d THEN Refuse(a)
     ELSE [a EXCEPT !.owner = Put(@, scene, d)]

Release(acc, d, scene, freed) ==
  LET a == ensure_scene_owner_seeded(acc, scene, freed)
  IN IF scene \in DOMAIN a.owner /\ a.owner[scene] = d
     THEN [a EXCEPT !.owner = Restrict(@, DOMAIN @ \ {scene})] ELSE a

validate_containment(d, parent) ==
  /\ TypeOf[d] = "combat" => parent = Root
  /\ TypeOf[d] = "combatant" => parent # Root

(* A parent the batch creates is seen only if its kind is kept in a map;   *)
(* a parent that is nowhere is left to the foreign key.                    *)
check_parent_placement(table, acc, d, parent) ==
  LET is(type, made) == \/ parent \in made
                        \/ parent \in DOMAIN table /\ TypeOf[parent] = type
  IN /\ TypeOf[d] = "combatant" => is("combat", acc.combats)
     /\ TypeOf[d] = "folder" /\ parent # Root => is("folder", DOMAIN acc.folders)

(* Mutant: the walk reads the stored tree only.                            *)
AcyclicInTable(table, acc, moved, parent) == moved \notin Chain(Up(table), parent)

(* The walk up from the new parent meets neither the document moved nor    *)
(* itself: along the moves of this batch, its new folders, then the table. *)
check_move_acyclic(table, acc, moved, parent) ==
  LET above == Chain(Over(acc.moves, Over(acc.folders, Up(table))), parent)
  IN moved \notin above /\ Root \in above

CreateOk(acc, o, who) ==
  /\ validate_containment(o.id, o.doc.parent)
  /\ check_parent_placement(docs, acc, o.id, o.doc.parent)
  /\ o.doc.parent # o.id
  /\ MayCreate(who, o.id)
  /\ o.id \notin DOMAIN docs
  /\ TypeOf[o.id] = "single" =>
       /\ "single" \notin acc.singles
       /\ \A d \in DOMAIN docs : TypeOf[d] # "single"

CheckCreate(acc, o, freed, who) ==
  IF ~CreateOk(acc, o, who) THEN Refuse(acc)
  ELSE LET a == [acc EXCEPT
                   !.folders = IF TypeOf[o.id] = "folder" THEN Put(@, o.id, o.doc.parent) ELSE @,
                   !.combats = IF TypeOf[o.id] = "combat" THEN @ \cup {o.id} ELSE @,
                   !.singles = IF TypeOf[o.id] = "single" THEN @ \cup {"single"} ELSE @]
       IN IF IsActive(o.id, o.doc.body) THEN Claim(a, o.id, o.doc.body.scene, freed) ELSE a

(* Field-level optimistic concurrency, against the documents stored before *)
(* the batch; then the scene the merged combat is active on.               *)
CheckUpdate(acc, o, freed, who) ==
  IF \/ o.id \notin DOMAIN docs
     \/ ~MayUpdate(who, o.id)
     \/ \E f \in DOMAIN o.old : docs[o.id].body[f] # o.old[f]
  THEN Refuse(acc)
  ELSE LET before == docs[o.id].body
           after  == Body(docs, o.id, o)
       IN IF IsActive(o.id, after) THEN Claim(acc, o.id, after.scene, freed)
          ELSE IF IsActive(o.id, before) THEN Release(acc, o.id, before.scene, freed)
          ELSE acc

CheckMove(acc, o, who) ==
  IF o.id \notin DOMAIN docs \/ ~MayMove(who) \/ docs[o.id].parent # o.old THEN Refuse(acc)
  ELSE IF o.parent = o.old THEN acc
  ELSE IF /\ validate_containment(o.id, o.parent)
          /\ check_parent_placement(docs, acc, o.id, o.parent)
          /\ check_move_acyclic(docs, acc, o.id, o.parent)
       THEN [acc EXCEPT !.moves = Put(@, o.id, o.parent)]
       ELSE Refuse(acc)

CheckDelete(acc, o, who) ==
  IF o.id \in DOMAIN docs /\ MayDelete(who, o.id) THEN acc ELSE Refuse(acc)

Check(acc, o, freed, who) ==
  IF ~acc.ok THEN acc
  ELSE CASE o.op = "create" -> CheckCreate(acc, o, freed, who)
         [] o.op = "update" -> CheckUpdate(acc, o, freed, who)
         [] o.op = "move"   -> CheckMove(acc, o, who)
         [] o.op = "delete" -> CheckDelete(acc, o, who)

Phase1(batch, who) ==
  LET freed == deactivations_this_batch(batch)
      acc[n \in 0..Len(batch)] ==
        IF n = 0 THEN Start ELSE Check(acc[n - 1], batch[n], freed, who)
  IN acc[Len(batch)].ok

(* A delete becomes one delete per document stored beneath it, children    *)
(* first, each with the stored document; the author must be allowed all.   *)
NoDescendants(table, d) == <<>>
Lists(S) == {s \in [1..Cardinality(S) -> S] : IsInjective(s)}
NoMoreBeneath(table, c, d) == Descendants(table, c) \subseteq Descendants(table, d)
ParentsFirst(table, d) ==
  CHOOSE s \in Lists(Descendants(table, d)) : \A i, j \in DOMAIN s :
    i < j /\ NoMoreBeneath(table, s[i], s[j]) => NoMoreBeneath(table, s[j], s[i])
descendants_first(table, d) ==
  CHOOSE s \in Lists(Descendants(table, d)) : \A i, j \in DOMAIN s :
    i < j /\ NoMoreBeneath(table, s[j], s[i]) => NoMoreBeneath(table, s[i], s[j])

Expand(table, batch) ==
  LET logged(d) == [op |-> "delete", id |-> d, doc |-> table[d]]
      one(o) == IF o.op # "delete" \/ o.id \notin DOMAIN table THEN <<o>>
                ELSE [i \in 1..Len(descendants_first(table, o.id)) |->
                        logged(descendants_first(table, o.id)[i])] \o <<logged(o.id)>>
  IN FlattenSeq([i \in DOMAIN batch |-> one(batch[i])])

(* The assets of a deleted folder move to its parent before the row goes;  *)
(* those of a folder the foreign key deletes go to the root (SET NULL).    *)
NoCascade(t, d) == [t EXCEPT !.docs = Restrict(@, DOMAIN @ \ {d})]
FolderToRoot(t, d) ==
  IF d \notin DOMAIN t.docs THEN t
  ELSE LET gone == Descendants(t.docs, d) \cup {d}
       IN [t EXCEPT !.docs = Restrict(@, DOMAIN @ \ gone),
                    !.filed = IF @ \in gone THEN Root ELSE @]
delete_document_tx(t, d) ==
  IF d \notin DOMAIN t.docs THEN t
  ELSE LET gone == Descendants(t.docs, d) \cup {d}
           kept == IF t.filed = d THEN t.docs[d].parent ELSE t.filed
       IN [t EXCEPT !.docs = Restrict(@, DOMAIN @ \ gone),
                    !.filed = IF kept \in gone THEN Root ELSE kept]

(* Phase 2: one operation on the table.  The row's foreign key to its      *)
(* parent is checked at once and deletes the rows beneath with it.         *)
Apply(t, o) ==
  LET parentIn(p) == p = Root \/ p \in DOMAIN t.docs
      fail == [t EXCEPT !.ok = FALSE]
  IN IF ~t.ok THEN t
     ELSE CASE o.op = "create" ->
               IF parentIn(o.doc.parent) THEN [t EXCEPT !.docs = Put(@, o.id, o.doc)] ELSE fail
          [] o.op = "update" ->
               IF o.id \in DOMAIN t.docs
               THEN [t EXCEPT !.docs[o.id].body = Body(t.docs, o.id, o)] ELSE fail
          [] o.op = "move" ->
               IF o.id \in DOMAIN t.docs /\ parentIn(o.parent)
               THEN [t EXCEPT !.docs[o.id].parent = o.parent] ELSE fail
          [] o.op = "delete" -> delete_document_tx(t, o.id)

Phase2(table, folder, ops) ==
  LET t[n \in 0..Len(ops)] ==
        IF n = 0 THEN [ok |-> TRUE, docs |-> table, filed |-> folder] ELSE Apply(t[n - 1], ops[n])
  IN t[Len(ops)]

-----------------------------------------------------------------------------
(* applyOperation (store.ts): a client's replica; unknown ids are ignored. *)
applyOperation(table, o) ==
  CASE o.op = "create" -> Put(table, o.id, o.doc)
    [] o.op = "delete" -> Restrict(table, DOMAIN table \ {o.id})
    [] o.op = "move"   -> IF o.id \in DOMAIN table
                          THEN [table EXCEPT ![o.id].parent = o.parent] ELSE table
    [] o.op = "update" -> IF o.id \in DOMAIN table
                          THEN [table EXCEPT ![o.id].body = Body(table, o.id, o)] ELSE table

Replay(table, ops) ==
  LET r[n \in 0..Len(ops)] == IF n = 0 THEN table ELSE applyOperation(r[n - 1], ops[n])
  IN r[Len(ops)]

(* Command::invert, and apply_command, which trusts its caller: it checks  *)
(* where a document is put and nothing else, with nothing to look ahead to.*)
InvertOp(o) ==
  CASE o.op = "create" -> [op |-> "delete", id |-> o.id]
    [] o.op = "delete" -> [op |-> "create", id |-> o.id, doc |-> o.doc]
    [] o.op = "move"   -> [op |-> "move", id |-> o.id, parent |-> o.old, old |-> o.parent]
    [] o.op = "update" -> [op |-> "update", id |-> o.id, old |-> o.new, new |-> o.old]
Invert(ops) == Reverse([i \in DOMAIN ops |-> InvertOp(ops[i])])

ApplyTrusted(t, o) ==
  LET placed ==
        CASE o.op = "create" -> validate_containment(o.id, o.doc.parent)
          [] o.op = "move" /\ o.id \in DOMAIN t.docs ->
               t.docs[o.id].parent # o.parent =>
                 /\ validate_containment(o.id, o.parent)
                 /\ check_parent_placement(t.docs, Start, o.id, o.parent)
                 /\ check_move_acyclic(t.docs, Start, o.id, o.parent)
          [] OTHER -> TRUE
  IN IF t.ok /\ ~placed THEN [t EXCEPT !.ok = FALSE] ELSE Apply(t, o)

apply_command(table, batch) ==
  LET ops == Expand(table, batch)
      t[n \in 0..Len(ops)] ==
        IF n = 0 THEN [ok |-> TRUE, docs |-> table, filed |-> Root] ELSE ApplyTrusted(t[n - 1], ops[n])
  IN t[Len(ops)]

-----------------------------------------------------------------------------
(* A batch whose operations meet: it names a document twice ("twice"),     *)
(* puts one beneath one it deletes ("adopted"), or moves one beneath one   *)
(* it creates, which is no folder ("housed") or is one ("shelved").        *)
Reasons == {"twice", "adopted", "housed", "shelved"}
Tangles(ops) ==
  LET some(kinds) == {ops[i].id : i \in {j \in DOMAIN ops : ops[j].op \in kinds}}
      put(kinds)  == {o \in Range(ops) : o.op \in kinds}
  IN {w \in Reasons :
        CASE w = "twice" -> \E i, j \in DOMAIN ops : i # j /\ ops[i].id = ops[j].id
          [] w = "adopted" -> \/ \E o \in put({"create"}) : o.doc.parent \in some({"delete"})
                              \/ \E o \in put({"move"}) : o.parent \in some({"delete"})
          [] OTHER -> \E o \in put({"move"}) :
                        /\ o.parent \in some({"create"})
                        /\ TypeOf[o.parent] = "folder" <=> w = "shelved"}

(* A refused batch leaves everything as it was and consumes no seq.        *)
apply_intent(who, batch) ==
  /\ Phase1(batch, who)
  /\ \A o \in Range(batch) : o.op = "delete" =>
       \A d \in Descendants(docs, o.id) : MayDelete(who, d)
  /\ LET ops == Expand(docs, batch)
         t   == Phase2(docs, filed, ops)
     IN /\ t.ok
        /\ docs' = t.docs /\ filed' = t.filed
        /\ replica' = Replay(replica, ops)
        /\ undoes' = (LET u == apply_command(t.docs, Invert(ops)) IN u.ok /\ u.docs = docs)
        /\ tangled' = Tangles(ops)
  /\ author' = who
  /\ UNCHANGED ids

(* Filing an asset under a folder (PATCH of the asset).                    *)
FileAsset(folder) ==
  /\ folder \in {Root} \cup {d \in DOMAIN docs : TypeOf[d] = "folder"}
  /\ filed' = folder
  /\ UNCHANGED <<ids, docs, replica, undoes, author, tangled>>

Init ==
  /\ ids \in Worlds
  /\ docs = <<>> /\ replica = <<>> /\ filed = Root
  /\ undoes = TRUE /\ author = "gm" /\ tangled = {}

(* The model stops after a tangled batch.                                  *)
Next ==
  /\ tangled = {}
  /\ \/ \E n \in 1..MaxOps : \E batch \in [1..n -> Ops], who \in {"gm", "player"} :
          apply_intent(who, batch)
     \/ \E folder \in Parents : FileAsset(folder)

Spec == Init /\ [][Next]_vars

-----------------------------------------------------------------------------
TypeOK ==
  /\ ids \in Worlds /\ filed \in Parents
  /\ DOMAIN docs \subseteq ids /\ DOMAIN replica \subseteq ids
  /\ \A d \in DOMAIN docs : docs[d].parent \in DOMAIN docs \cup {Root} /\ docs[d].body \in Bodies[d]
  /\ undoes \in BOOLEAN /\ author \in {"gm", "player"}
  /\ tangled \subseteq Reasons

(* "At most one row can ever match" (active_combat_owner): no scene has    *)
(* two active combats.  The claims of one batch are simulated on the       *)
(* documents before it, so this is what a batch that updates one combat    *)
(* twice breaks: it moves to another's scene while the stored row says it  *)
(* is inactive.                                                            *)
OneActivePerScene ==
  \A d, e \in DOMAIN docs :
    IsActive(d, docs[d].body) /\ IsActive(e, docs[e].body) /\ d # e
      => docs[d].body.scene # docs[e].body.scene

(* Every other batch, however it swaps, frees and claims scenes, and in    *)
(* whatever order, keeps one active combat per scene.                      *)
OneActiveUnlessTwice == "twice" \notin tangled => OneActivePerScene

(* The parent relation is a forest over stored documents ("a stored cycle, *)
(* which cannot arise"), whatever moves a batch combines, unless it names  *)
(* a document twice or moves one beneath a document it creates that is no  *)
(* folder: those parents check_move_acyclic does not see.                  *)
ForestUnlessTangled ==
  tangled \cap {"twice", "housed"} = {} =>
    \A d \in DOMAIN docs : Root \in Chain(Up(docs), d)

(* The log says everything that happened: a client that applies every      *)
(* logged command has the stored documents ("never a silent FK cascade"),  *)
(* unless a batch deletes the parent it gives to another of its documents. *)
LogTellsAllUnlessAdopted == "adopted" \notin tangled => replica = docs

(* A delete is logged as one delete per descendant so that each is         *)
(* "individually reversible": the inverse of a logged command restores the *)
(* documents, unless operations of the batch meet.                         *)
UndoesUnlessTangled == tangled = {} => undoes

(* A player's batch removes only documents a player may delete: deleting a *)
(* folder never takes somebody else's documents with it.                   *)
OnlyOwnDeleted == [][author' = "player" => DOMAIN docs \ DOMAIN docs' \subseteq Owned]_vars

(* An asset whose folder goes is filed under the closest folder above that *)
(* stays, however many levels one batch deletes.                           *)
AssetHopsToSurvivor ==
  [][(filed \in DOMAIN docs /\ filed \notin DOMAIN docs' /\ tangled' = {}) =>
       LET stays == Chain(Up(docs), filed) \cap (DOMAIN docs' \cup {Root})
       IN filed' \in stays /\ stays \subseteq Chain(Up(docs), filed')]_vars
=============================================================================
