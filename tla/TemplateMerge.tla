---------------------------- MODULE TemplateMerge ----------------------------
(***************************************************************************)
(* Pulling, pushing and reverting between a template and the documents     *)
(* stamped from it (merge/tree.rs, embedded.rs, bands.rs, plan.rs), as the *)
(* connection serves the three intents (ws/conn/merge_intents.rs): the     *)
(* documents are read outside publish_guard, merged, and committed one by  *)
(* one with whole bands as their pre-images, while both sides are edited.  *)
(*                                                                         *)
(* A document has a tree of fields (its name, engine and system bands as   *)
(* one) and one collection of embedded children of one field each.  An     *)
(* instance keeps besides, as its base, a snapshot of the template at its  *)
(* last merge, in which a child is known by its own source, or by its id.  *)
(***************************************************************************)
EXTENDS Integers, Sequences, FiniteSets, SequencesExt, FiniteSetsExt

CONSTANTS
  Absent, Obj,  \* no value at a path; an object, its fields at the paths below
  None,
  Gm, Player,   \* the two seats: the Player owns what world.owned says
  Template,     \* the template's id in world.owned
  Worlds,       \* [insts, fields, kids, owned, hidden, placed, chained, diverged, ours, mine], see MC
  MaxEdits, MaxCalls  \* bounds

Paths == {<<"a">>, <<"box">>, <<"box", "in">>}
KidIds == 1..3      \* the template's children; 3 is not there at first
KidOrder == <<1, 2, 3>>
Own == 0            \* the source of a child the instance added by itself
Keys == 1..13       \* of the base's records: a child's id, or its source's

VARIABLES
  world,
  template,  \* [tree, kids: id -> value]
  inst,      \* instance -> [tree, kids: sequence of [src, val], base: [tree, kids: key -> value]]
  req,       \* seat -> the intent its connection is serving, or None
  shown,     \* seat -> the conflicts its last reply listed, or None
  edits, calls,
  local,     \* history: instance -> the places its users wrote since its base,
             \* and those where it still differs from it
  blind,     \* history: the instances merged by a seat the template hides something from
  under,     \* history: seat -> the bands merges wrote since its intent began
  torn       \* history: the instances two merges at a time wrote different bands of

vars == <<world, template, inst, req, shown, edits, calls, local, blind, under, torn>>

Seats == {Gm, Player}
Owns(s, d) == s = Gm \/ d \in world.owned
Hidden(s) == IF s = Gm THEN {} ELSE world.hidden  \* the template's override, and so the instance's

-----------------------------------------------------------------------------
(* Trees.                                                                  *)
Overlaps(p, q) == IsPrefix(p, q) \/ IsPrefix(q, p)
Above(p) == {q \in Paths : IsStrictPrefix(q, p)}
paths_overlap(p, set) == \E q \in set : Overlaps(p, q)

\* Two objects are compared field by field, everything else as a whole.
structural_diff(base, now) ==
  {p \in Paths : base[p] # now[p] /\ \A q \in Above(p) : base[q] = Obj /\ now[q] = Obj}

same_result(p, x, y) == \A q \in Paths : IsPrefix(p, q) => x[q] = y[q]

redact(tree, hidden) ==
  [q \in Paths |-> IF \E h \in hidden : IsPrefix(h, q) THEN Absent ELSE tree[q]]

is_placement_excluded(p) == \E e \in world.placed : IsPrefix(e, p)

\* The subtree of from at each of the paths ps, in tree; the objects above are made.
take(tree, from, ps) ==
  [q \in Paths |->
     IF \E p \in ps : IsPrefix(p, q) THEN from[q]
     ELSE IF tree[q] = Absent /\ \E p \in ps : from[p] # Absent /\ q \in Above(p) THEN Obj
     ELSE tree[q]]
Unfit(tree, from, ps) ==
  \E p \in ps : from[p] # Absent /\ \E q \in Above(p) : tree[q] \notin {Absent, Obj}

\* One write of a user: a value, an object or nothing at p.
Write(tree, p, v) ==
  [q \in Paths |-> IF q = p THEN v ELSE IF IsStrictPrefix(p, q) THEN Absent ELSE tree[q]]

(* What the template changed, of what the seat may see of it.              *)
ParentDiff(s, base, t) ==
  {p \in structural_diff(redact(base, Hidden(s)), redact(t, Hidden(s))) :
     ~is_placement_excluded(p) /\ ~paths_overlap(p, Hidden(s))}

merge3_tree(s, base, t, child) ==
  LET mine == structural_diff(redact(base, Hidden(s)), child)
      Met(p) == {c \in mine : Overlaps(c, p)}
      theirs == ParentDiff(s, base, t)
  IN [tree |-> take(child, t, {p \in theirs : Met(p) = {}}),
      clash |-> {[at |-> p, parent |-> t[p], child |-> child[p], of |-> p] :
                   p \in {p \in theirs : /\ Met(p) # {}
                                         /\ ~(Met(p) = {p} /\ same_result(p, t, child))
                                         /\ ~paths_overlap(p, Hidden(s))}}]

-----------------------------------------------------------------------------
(* Embedded children, matched by the id of the template's child.  A        *)
(* conflict over one is named by its position in the merged sequence: the  *)
(* child itself where the template deleted it, its field otherwise.  What  *)
(* child that is (of), the reply does not say.                             *)
snapshot_base(doc) ==
  [tree |-> doc.tree,
   kids |-> [k \in Keys |-> LET t == IF world.chained THEN k - 10 ELSE k
                            IN IF t \in KidIds THEN doc.kids[t] ELSE Absent]]

Parent(t, k) == IF k.src = Own THEN Absent ELSE t.kids[k.src]
Base(b, k) == IF k.src = Own THEN Absent ELSE b.kids[k.src]

\* The template deleted a child its instance left alone.
Dropped(b, t, k) == Parent(t, k) = Absent /\ Base(b, k) # Absent /\ k.val = Base(b, k)
Clashes(b, t, k) ==
  /\ Base(b, k) # Absent
  /\ Parent(t, k) # Base(b, k) /\ k.val # Base(b, k) /\ k.val # Parent(t, k)
Merged(b, t, k) ==
  IF Parent(t, k) # Absent /\ k.val = Base(b, k) THEN [k EXCEPT !.val = Parent(t, k)] ELSE k

Kid(id) == <<"kid", id>>
Conflicts(b, t, kept) ==
  {[at |-> IF Parent(t, kept[i]) = Absent THEN <<"kid", i>> ELSE <<"kid", i, "val">>,
    parent |-> Parent(t, kept[i]), child |-> kept[i].val, of |-> Kid(kept[i].src)] :
     i \in {i \in DOMAIN kept : Clashes(b, t, kept[i])}}

HasCopy(kids, id) == \E i \in DOMAIN kids : kids[i].src = id
restamp_subtree(t, ids) ==
  LET added == SelectSeq(KidOrder, LAMBDA id : id \in ids)
  IN [i \in DOMAIN added |-> [src |-> added[i], val |-> t.kids[added[i]]]]

ByPosition(b, t, kids) ==
  LET kept == SelectSeq(kids, LAMBDA k : ~Dropped(b, t, k))
      added == {id \in KidIds : t.kids[id] # Absent /\ b.kids[id] = Absent /\ id \notin DOMAIN kids}
  IN [kids |-> [i \in DOMAIN kept |-> Merged(b, t, kept[i])] \o restamp_subtree(t, added),
      clash |-> Conflicts(b, t, kept)]

merge3_embedded(b, t, kids) ==
  LET kept == SelectSeq(kids, LAMBDA k : ~Dropped(b, t, k))
      added == {id \in KidIds : t.kids[id] # Absent /\ b.kids[id] = Absent /\ ~HasCopy(kids, id)}
  IN [kids |-> [i \in DOMAIN kept |-> Merged(b, t, kept[i])] \o restamp_subtree(t, added),
      clash |-> Conflicts(b, t, kept)]

revert_embedded(t, kids) ==
  LET kept == SelectSeq(kids, LAMBDA k : Parent(t, k) # Absent)
  IN [i \in DOMAIN kept |-> [kept[i] EXCEPT !.val = Parent(t, kept[i])]]
     \o restamp_subtree(t, {id \in KidIds : t.kids[id] # Absent /\ ~HasCopy(kids, id)})

-----------------------------------------------------------------------------
(* A plan for one instance, and the update that carries it out.            *)
compute_pull(s, doc, t) ==
  LET fields == merge3_tree(s, doc.base.tree, t.tree, doc.tree)
      kids == merge3_embedded(doc.base, t, doc.kids)
  IN [tree |-> fields.tree, kids |-> kids.kids, clash |-> fields.clash \cup kids.clash]

compute_revert(s, doc, t) ==
  [tree |-> take(doc.tree, t.tree, ParentDiff(s, doc.tree, t.tree)),
   kids |-> revert_embedded(t, doc.kids), clash |-> {}]

Ats(clash) == {c.at : c \in clash}
InTree(ats) == ats \cap Paths
InKids(ats) == {i \in 1..4 : {<<"kid", i>>, <<"kid", i, "val">>} \cap ats # {}}

\* The template's side of the conflicts at ats: sets, then deletes from the end.
apply_resolutions(plan, t, ats) ==
  LET set == [i \in DOMAIN plan.kids |->
                IF i \in InKids(ats) /\ Parent(t, plan.kids[i]) # Absent
                THEN [plan.kids[i] EXCEPT !.val = Parent(t, plan.kids[i])] ELSE plan.kids[i]]
      left == SelectSeq([i \in DOMAIN set |-> i],
                        LAMBDA i : ~(i \in InKids(ats) /\ Parent(t, set[i]) = Absent))
  IN [plan EXCEPT !.tree = take(plan.tree, t.tree, InTree(ats)),
                  !.kids = [i \in DOMAIN left |-> set[left[i]]]]

Bands == {"tree", "kids", "base"}
plan_to_update(doc, t, plan) ==
  [old |-> doc, new |-> [tree |-> plan.tree, kids |-> plan.kids, base |-> snapshot_base(t)]]
Written(up) == {b \in Bands : up.new[b] # up.old[b]}
writes_nothing(up) == Written(up) = {}

-----------------------------------------------------------------------------
(* The places of an instance: its paths, and its copies of the template's  *)
(* children.  Differs: a place differs from the last snapshot, whichever   *)
(* key the snapshot has the child under.                                   *)
KidAt(doc, id) ==
  IF HasCopy(doc.kids, id) THEN doc.kids[CHOOSE i \in DOMAIN doc.kids : doc.kids[i].src = id].val
  ELSE Absent
BaseAt(b, id) == IF b.kids[id] # Absent THEN b.kids[id] ELSE b.kids[id + 10]
Differs(doc) ==
  structural_diff(doc.base.tree, doc.tree)
    \cup {Kid(id) : id \in {id \in KidIds : KidAt(doc, id) # BaseAt(doc.base, id)}}
Still(places, doc) == {p \in places : paths_overlap(p, Differs(doc))}

\* The places over which the conflicts at ats are.
Named(clash, ats) == {c.of : c \in {c \in clash : c.at \in ats}}

-----------------------------------------------------------------------------
Tree0 == [p \in Paths |-> IF p = <<"box">> THEN Obj ELSE 0]
Init ==
  /\ world \in Worlds
  /\ template = [tree |-> Tree0,
                 kids |-> [id \in KidIds |-> IF id = 3 THEN Absent ELSE IF world.diverged THEN 1 ELSE 0]]
  /\ inst = [i \in world.insts |->
               [tree |-> Tree0,
                kids |-> [n \in 1..2 |-> [src |-> n, val |-> IF world.diverged THEN 2 ELSE 0]],
                base |-> [tree |-> Tree0, kids |-> [k \in Keys |-> IF k \in {1, 2} THEN 0 ELSE Absent]]]]
  /\ req = [s \in Seats |-> None]
  /\ shown = [s \in Seats |-> None]
  /\ edits = 0 /\ calls = 0
  /\ local = [i \in world.insts |-> IF world.diverged THEN {Kid(1), Kid(2)} ELSE {}]
  /\ blind = {} /\ torn = {} /\ under = [s \in Seats |-> {}]

Writes(tree, vals) ==
  {w \in {[at |-> p, tree |-> Write(tree, p, v)] : p \in world.fields, v \in vals \cup {Absent}} :
     w.tree # tree /\ \A q \in Above(w.at) : tree[q] = Obj}

EditTemplate ==
  /\ edits < MaxEdits /\ edits' = edits + 1
  /\ \/ \E w \in Writes(template.tree, world.ours) : template' = [template EXCEPT !.tree = w.tree]
     \/ \E id \in world.kids \cap KidIds, v \in world.ours \cup {Absent} :
          /\ v # template.kids[id]
          /\ (id # 3 => template.kids[id] # Absent)
          /\ template' = [template EXCEPT !.kids[id] = v]
  /\ UNCHANGED <<world, inst, req, shown, calls, local, blind, under, torn>>

EditInstance(i) ==
  /\ edits < MaxEdits /\ edits' = edits + 1
  /\ \E now \in
       {[at |-> w.at, doc |-> [inst[i] EXCEPT !.tree = w.tree]] : w \in Writes(inst[i].tree, world.mine)}
       \cup {[at |-> Kid(inst[i].kids[n].src), doc |-> [inst[i] EXCEPT !.kids[n].val = v]] :
               n \in {n \in DOMAIN inst[i].kids : inst[i].kids[n].src \in world.kids}, v \in world.mine}
       \cup {[at |-> Kid(inst[i].kids[n].src), doc |-> [inst[i] EXCEPT !.kids = RemoveAt(@, n)]] :
               n \in {n \in DOMAIN inst[i].kids : inst[i].kids[n].src \in world.kids}}
       \cup {[at |-> Kid(Own), doc |-> [inst[i] EXCEPT !.kids = Append(@, [src |-> Own, val |-> 0])]] :
               own \in {own \in world.kids : own = Own /\ ~HasCopy(inst[i].kids, Own)}} :
       /\ now.doc # inst[i]
       /\ inst' = [inst EXCEPT ![i] = now.doc]
       /\ local' = [local EXCEPT ![i] = @ \cup {now.at}]
  /\ UNCHANGED <<world, template, req, shown, calls, blind, under, torn>>

-----------------------------------------------------------------------------
(* An intent: a first call computes, a second one brings the conflicts to  *)
(* decide for the template, of those the last reply listed.  The first     *)
(* document is read: the child of a pull or a revert, the template of a    *)
(* push.                                                                   *)
Begin(s, kind, targets, first, theirs, meant) ==
  /\ calls < MaxCalls /\ calls' = calls + 1
  /\ req[s] = None
  /\ req' = [req EXCEPT ![s] =
       [kind |-> kind, targets |-> targets, first |-> first, theirs |-> theirs, meant |-> meant, todo |-> <<>>,
        docs |-> IF kind = "push" THEN None ELSE [i \in targets |-> inst[i]],
        tmpl |-> IF kind = "push" THEN template ELSE None]]
  /\ shown' = [shown EXCEPT ![s] = None]
  /\ under' = [under EXCEPT ![s] = {}]
  /\ UNCHANGED <<world, template, inst, edits, local, blind, torn>>

NoTheirs == [i \in world.insts |-> {}]
Compute(s) ==
  \/ \E i \in world.insts, kind \in {"pull", "revert"} :
       Owns(s, i) /\ Begin(s, kind, {i}, kind = "pull", NoTheirs, NoTheirs)
  \/ Owns(s, Template) /\ Begin(s, "push", world.insts, TRUE, NoTheirs, NoTheirs)
Decide(s) ==
  /\ shown[s] # None
  /\ \E theirs \in [world.insts -> SUBSET UNION {Ats(shown[s].clash[i]) : i \in DOMAIN shown[s].clash}] :
       /\ \A i \in world.insts :
            theirs[i] \subseteq IF i \in DOMAIN shown[s].clash THEN Ats(shown[s].clash[i]) ELSE {}
       /\ Begin(s, shown[s].kind, shown[s].targets, FALSE, theirs,
                [i \in world.insts |->
                   IF theirs[i] = {} THEN {} ELSE Named(shown[s].clash[i], theirs[i])])

(* The other document is read, the plans are made, and what is to be       *)
(* committed is known: nothing when a decision does not fit the plans.     *)
Plan(s, kind, doc, t) ==
  IF kind = "revert" THEN compute_revert(s, doc, t) ELSE compute_pull(s, doc, t)
Listing(kind, targets, plans) ==
  LET open == {i \in targets : plans[i].clash # {}}
  IN IF open = {} THEN None
     ELSE [kind |-> kind, targets |-> targets, clash |-> [i \in open |-> plans[i].clash]]

check_resolutions(r, plans) == \A i \in r.targets : r.theirs[i] \subseteq Ats(plans[i].clash)
Fits(r, plans, t) == \A i \in r.targets : ~Unfit(plans[i].tree, t.tree, InTree(r.theirs[i]))

Load(s) ==
  /\ req[s] # None /\ req[s].todo = <<>>
  /\ LET r == req[s]
         t == IF r.kind = "push" THEN r.tmpl ELSE template
         docs == IF r.kind = "push" THEN [i \in r.targets |-> inst[i]] ELSE r.docs
         plans == [i \in r.targets |-> Plan(s, r.kind, docs[i], t)]
         mine == {i \in r.targets : Owns(s, i)}
         Up(i) == plan_to_update(docs[i], t, apply_resolutions(plans[i], t, r.theirs[i]))
         due == {i \in mine : ~(r.first /\ plans[i].clash # {}) /\ ~writes_nothing(Up(i))}
         order == SetToSeq(due)
         accepted == check_resolutions(r, plans) /\ Fits(r, plans, t)
         todo == IF accepted
                 THEN [n \in DOMAIN order |->
                         [i |-> order[n], up |-> Up(order[n]),
                          hit |-> Named(plans[order[n]].clash, r.theirs[order[n]])]]
                 ELSE <<>>
     IN /\ req' = [req EXCEPT ![s] =
                     IF todo = <<>> THEN None ELSE [r EXCEPT !.todo = todo, !.docs = None, !.tmpl = t]]
        /\ shown' = [shown EXCEPT ![s] =
                       IF r.first \/ ~accepted THEN Listing(r.kind, mine, plans) ELSE None]
  /\ UNCHANGED <<world, template, inst, edits, calls, local, blind, under, torn>>

(* The next instance is committed under publish_guard, unless a band it    *)
(* writes was written meanwhile: then the reply lists the conflicts        *)
(* afresh, from the instances of now, and the rest is not committed.       *)
MergeUnchecked(i, up) == inst[i].base = up.old.base
Fresh(i, up) == \A b \in Written(up) : inst[i][b] = up.old[b]

Commit(s) ==
  /\ req[s] # None /\ req[s].todo # <<>>
  /\ LET r == req[s]
         c == Head(r.todo)
         rest == Tail(r.todo)
         now == [b \in Bands |-> IF b \in Written(c.up) THEN c.up.new[b] ELSE inst[c.i][b]]
         t == IF r.kind = "push" THEN r.tmpl ELSE template
         mine == {i \in r.targets : Owns(s, i)}
     IN IF Fresh(c.i, c.up)
        THEN /\ inst' = [inst EXCEPT ![c.i] = now]
             /\ local' = [local EXCEPT ![c.i] = Still(@, now)]
             /\ blind' = blind \cup IF Hidden(s) = {} THEN {} ELSE {c.i}
             /\ torn' = torn \cup IF {<<c.i, b>> : b \in Bands \ Written(c.up)} \cap under[s] = {} THEN {} ELSE {c.i}
             /\ under' = [o \in Seats |-> under[o] \cup {<<c.i, b>> : b \in Written(c.up)}]
             /\ req' = [req EXCEPT ![s] = IF rest = <<>> THEN None ELSE [r EXCEPT !.todo = rest]]
             /\ UNCHANGED shown
        ELSE /\ req' = [req EXCEPT ![s] = None]
             /\ shown' = [shown EXCEPT ![s] =
                            Listing(r.kind, mine, [i \in r.targets |-> Plan(s, r.kind, inst[i], t)])]
             /\ UNCHANGED <<inst, local, blind, under, torn>>
  /\ UNCHANGED <<world, template, edits, calls>>

Next ==
  \/ EditTemplate
  \/ \E i \in world.insts : EditInstance(i)
  \/ \E s \in Seats : Compute(s) \/ Decide(s) \/ Load(s) \/ Commit(s)
Spec == Init /\ [][Next]_vars

-----------------------------------------------------------------------------
(* An instance differs from the template of its last merge only where its  *)
(* own users made it: a merge may not note a change of the template as     *)
(* taken in the base and not bring it.  Two things are never brought: a    *)
(* field of placement, and what is hidden from the seat that merged.  A    *)
(* revert that finds the base up to date writes fields only, a pull that   *)
(* finds the fields as the template has them writes the base only, and     *)
(* both commit: instances reverted during another merge are left out.      *)
ArrivesUnlessTorn ==
  \A i \in world.insts \ torn : \A p \in Differs(inst[i]) :
    \/ paths_overlap(p, local[i])
    \/ paths_overlap(p, world.placed)
    \/ i \in blind /\ paths_overlap(p, world.hidden)

(* What the users of an instance changed stands through every pull and     *)
(* push, however they interleave with edits: a field, a child they edited, *)
(* deleted or added, unless the conflict over it was decided for the       *)
(* template (Meant), by what the reply listed at the decision's path.  The *)
(* path is all the second call is checked by, and once a child before has  *)
(* gone, it is another child's: one Strayed upon is written although       *)
(* nobody decided about it, and is left out.                               *)
Reverts(s) == req[s] # None /\ req[s].kind = "revert"
Commits(s) == req[s] # None /\ req[s].todo # <<>>
Meant(s) == IF Commits(s) THEN req[s].meant[Head(req[s].todo).i] ELSE {}
Strayed(s) == IF Commits(s) THEN Head(req[s].todo).hit \ Meant(s) ELSE {}
Kept(p, doc, now) ==
  IF p \in Paths THEN same_result(p, doc.tree, now.tree)
  ELSE KidAt(doc, p[2]) = KidAt(now, p[2])
LocalEditsStand ==
  [][\A s \in Seats : Commit(s) /\ ~Reverts(s) =>
       \A i \in world.insts :
         /\ \A p \in Still(local[i], inst[i]) :
              Kept(p, inst[i], inst'[i]) \/ paths_overlap(p, Meant(s)) \/ p \in Strayed(s)
         /\ KidAt(inst[i], Own) = KidAt(inst'[i], Own)]_vars
=============================================================================
