--------------------------- MODULE MCEgressFilter ---------------------------
(***************************************************************************)
(* EgressFilter in three kinds of worlds: a token and the actor it links   *)
(* to, a note by itself, and nothing at all.                               *)
(***************************************************************************)
EXTENDS EgressFilter, TLC

Stored(owner, open, tier) ==
  [owner |-> owner, open |-> open, tier |-> tier, val |-> 100, parent |-> "root", created |-> 0]
New(owner, open, tier) == [owner |-> owner, open |-> open, tier |-> tier, parent |-> "root"]
Create(id, doc) == [op |-> "create", id |-> id, doc |-> doc]
Update(id, set) == [op |-> "update", id |-> id, set |-> set]
Delete(id) == [op |-> "delete", id |-> id]
Move(id) == [op |-> "move", id |-> id, parent |-> "folder"]
Val == [val |-> 0]

TokenOps ==
  {Update("actor", [owner |-> o]) : o \in {"player", "other"}}
  \cup {Delete("actor"), Create("actor", New("player", TRUE, "all"))}
  \cup {Update("token", s) : s \in {Val, [open |-> TRUE], [open |-> FALSE], [owner |-> "other"], [owner |-> None]}}
  \cup {Delete("token"), Create("token", New(None, TRUE, "owner")), Create("token", New(None, FALSE, "owner"))}
TokenPairs ==
  {<<Delete("token"), Delete("actor")>>,
   <<Update("token", Val), Delete("token")>>,
   <<Update("token", [open |-> TRUE]), Delete("token")>>,
   <<Update("token", [open |-> FALSE]), Delete("token")>>,
   <<Update("actor", [owner |-> "other"]), Update("token", Val)>>,
   <<Update("token", Val), Update("actor", [owner |-> "player"])>>,
   <<Update("token", Val), Update("token", [open |-> FALSE])>>}

NoteOps ==
  {Update("note", s) : s \in
     {Val, [open |-> TRUE], [open |-> FALSE], [owner |-> "player"], [owner |-> "other"],
      [tier |-> "all"], [tier |-> "owner"], [tier |-> "gm"],
      [tier |-> "all", val |-> 0], [open |-> TRUE, tier |-> "gm"]}}
  \cup {Move("note"), Delete("note"),
        Create("note", New(None, TRUE, "all")), Create("note", New("player", FALSE, "owner"))}
NotePairs ==
  {<<Update("note", Val), Update("note", [tier |-> "gm"])>>,
   <<Update("note", [open |-> TRUE]), Update("note", Val)>>,
   <<Move("note"), Update("note", [open |-> FALSE])>>,
   <<Update("note", [open |-> FALSE]), Delete("note")>>,
   <<Update("note", [open |-> TRUE]), Delete("note")>>,
   <<Update("note", Val), Delete("note")>>,
   <<Move("note"), Delete("note")>>,
   <<Create("note", New(None, TRUE, "all")), Create("note", New(None, FALSE, "all"))>>}

Singles(ops) == {<<o>> : o \in ops}
MCWorlds ==
  {[docs |-> ("actor" :> Stored(o, TRUE, "all")) @@ ("token" :> Stored(None, open, "owner")),
    batches |-> Singles(TokenOps) \cup TokenPairs] : o \in {"player", "other"}, open \in BOOLEAN}
  \cup {[docs |-> ("note" :> Stored(o, open, t)), batches |-> Singles(NoteOps) \cup NotePairs] :
          o \in {"player", None}, open \in BOOLEAN, t \in {"all", "owner"}}
  \cup {[docs |-> <<>>, batches |-> Singles(NoteOps) \cup NotePairs]}
=============================================================================
