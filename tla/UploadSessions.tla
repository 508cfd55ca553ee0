---------------------------- MODULE UploadSessions ----------------------------
(***************************************************************************)
(* One chunked upload: the browser's startChunkedUpload (client/core/src/  *)
(* asset-upload.ts), which retries and aborts, against the server's upload *)
(* session (http/assets/uploads.rs), its request handlers, which run       *)
(* concurrently and may be dropped with their connection, and the sweeper. *)
(* A chunk is its number; the staged file is the sequence of the chunks    *)
(* appended to it, Torn standing for a part of one.                        *)
(***************************************************************************)
EXTENDS Integers, Sequences

CONSTANTS
  Parts,        \* chunks the file is cut into
  Retries,      \* attempts the client makes at a chunk
  HandlersDrop, \* a handler may be dropped at an await: its connection is gone
  MaxRestarts   \* bound: server restarts

ASSUME ConstantsOK ==
  /\ Parts \in Nat \ {0} /\ Retries \in Nat \ {0}
  /\ HandlersDrop \in BOOLEAN /\ MaxRestarts \in Nat

Gone == <<-1>>
Torn == Parts
Whole == [i \in 1..Parts |-> i - 1]

NoReply == 0
Dropped == 1
OK == 200
NotFound == 404
Conflict == 409
Internal == 500

VARIABLES
  phase,     \* how far startChunkedUpload has got
  sent,      \* chunks the client knows were accepted
  attempt,   \* attempts made at the current one
  reqs,      \* the requests made, and how far the handler of each has got
  open,      \* the session is in UploadSessions
  received,  \* UploadSession.received, in chunks
  busy,      \* UploadSession.busy
  staged,    \* the staging file
  final,     \* the asset's file
  row,       \* the asset's row
  refunds,   \* UploadRateLimiter.refund calls for the session's slot
  restarts   \* counter for the bound

client  == <<phase, sent, attempt>>
session == <<open, received, busy>>
disk    == <<staged, final, row>>
vars    == <<client, reqs, session, disk, refunds, restarts>>

Request(kind, chunk) ==
  [kind |-> kind, chunk |-> chunk, at |-> "sent", ready |-> FALSE,
   status |-> NoReply, cut |-> FALSE]

Newest == reqs[Len(reqs)]

(* The i-th request's handler is at a point; it goes on to the next, or    *)
(* answers.                                                                *)
In(i, kind, at) == reqs[i].status = NoReply /\ reqs[i].kind = kind /\ reqs[i].at = at
Go(i, to) == reqs' = [reqs EXCEPT ![i].at = to]
Answer(i, status) == reqs' = [reqs EXCEPT ![i].status = status]

(* discard: the staging file goes and the rate slot comes back; DiscardFile *)
(* forgets the slot.                                                       *)
DiscardFile == staged' = Gone /\ UNCHANGED refunds
Discard == staged' = Gone /\ refunds' = refunds + 1

-----------------------------------------------------------------------------
(* startChunkedUpload                                                      *)

(* create_session: a slot, a staging file and a session; its response may  *)
(* be lost, and then nobody will use it.                                   *)
CreateSession ==
  /\ phase = "start"
  /\ phase' \in {"ready", "rejected"}
  /\ open' = TRUE /\ staged' = <<>>
  /\ UNCHANGED <<sent, attempt, reqs, received, busy, final, row, refunds, restarts>>

(* The staging file cannot be created.                                     *)
CreateFails ==
  /\ phase = "start"
  /\ phase' = "rejected"
  /\ refunds' = refunds + 1
  /\ UNCHANGED <<sent, attempt, reqs, session, disk, restarts>>

(* The next PUT, or the completing POST once all chunks are accepted.      *)
Send ==
  /\ phase = "ready"
  /\ phase' = "waiting"
  /\ reqs' = Append(reqs, IF sent < Parts THEN Request("put", sent)
                                           ELSE Request("complete", 0))
  /\ UNCHANGED <<sent, attempt, session, disk, refunds, restarts>>

Accepted ==
  /\ phase = "waiting" /\ Newest.status = OK
  /\ IF Newest.kind = "put"
       THEN phase' = "ready" /\ sent' = sent + 1 /\ attempt' = 0
       ELSE phase' = "resolved" /\ UNCHANGED <<sent, attempt>>
  /\ UNCHANGED <<reqs, session, disk, refunds, restarts>>

Refused ==
  /\ phase = "waiting" /\ Newest.status \in {NotFound, Conflict}
  /\ phase' = "aborting"
  /\ UNCHANGED <<sent, attempt, reqs, session, disk, refunds, restarts>>

(* A 5xx, or no answer: the connection is lost, and the request or its     *)
(* response with it, whatever the server makes of it.  A PUT is retried at *)
(* the same offset.                                                        *)
Fails ==
  /\ phase = "waiting"
  /\ reqs' = IF Newest.status = Internal THEN reqs
                                         ELSE [reqs EXCEPT ![Len(reqs)].cut = TRUE]
  /\ IF Newest.kind = "put" /\ attempt + 1 < Retries
       THEN phase' = "ready" /\ attempt' = attempt + 1
       ELSE phase' = "aborting" /\ UNCHANGED attempt
  /\ UNCHANGED <<sent, session, disk, refunds, restarts>>

(* The caller's AbortSignal, which cancels a fetch in flight.              *)
Cancel ==
  /\ phase \in {"ready", "waiting"}
  /\ phase' = "aborting"
  /\ reqs' = IF phase = "waiting" THEN [reqs EXCEPT ![Len(reqs)].cut = TRUE] ELSE reqs
  /\ UNCHANGED <<sent, attempt, session, disk, refunds, restarts>>

(* abort, best effort: the DELETE may fail or be lost (the page closes).   *)
Abort ==
  /\ phase = "aborting"
  /\ phase' = "rejected"
  /\ reqs' = Append(reqs, [Request("abort", 0) EXCEPT !.cut = TRUE])
  /\ UNCHANGED <<sent, attempt, session, disk, refunds, restarts>>

-----------------------------------------------------------------------------
(* The handlers                                                            *)

(* owned_session: a copy of the session, of which complete_session will    *)
(* look at busy and received.                                              *)
OwnedSession(i) ==
  /\ \E kind \in {"put", "complete", "abort"} : In(i, kind, "sent")
  /\ IF open
       THEN reqs' = [reqs EXCEPT ![i].at = "owned", ![i].ready = ~busy /\ received = Parts]
       ELSE Answer(i, NotFound)
  /\ UNCHANGED <<client, session, disk, refunds, restarts>>

(* accept_chunk: exactly the next byte, one writer at a time; the variants *)
(* forget one or the other.                                                *)
AdmitsAnother(i) == reqs[i].chunk = received
AdmitsAnyOffset(i) == ~busy
Admits(i) == ~busy /\ reqs[i].chunk = received

PutChunk(i) ==
  /\ In(i, "put", "owned")
  /\ \/ ~open /\ Answer(i, NotFound) /\ UNCHANGED busy
     \/ open /\ ~Admits(i) /\ Answer(i, Conflict) /\ UNCHANGED busy
     \/ open /\ Admits(i) /\ Go(i, "accepted") /\ busy' = TRUE
  /\ UNCHANGED <<client, open, received, disk, refunds, restarts>>

OpenStaged(i) ==
  /\ In(i, "put", "accepted")
  /\ Go(i, IF staged = Gone THEN "torn" ELSE "opened")
  /\ UNCHANGED <<client, session, disk, refunds, restarts>>

(* What the staging file may be after an append was begun; a file that has *)
(* been removed meanwhile takes nothing.                                   *)
Appended(f, c) == IF f = Gone THEN Gone ELSE Append(f, c)
Interrupted(c) == {staged, Appended(staged, Torn), Appended(staged, c)}

AppendChunk(i) ==
  /\ In(i, "put", "opened")
  /\ \/ Go(i, "written") /\ staged' = Appended(staged, reqs[i].chunk)
     \/ Go(i, "torn") /\ staged' \in Interrupted(reqs[i].chunk)
  /\ UNCHANGED <<client, session, final, row, refunds, restarts>>

(* finish_chunk; a variant keeps the session busy.                         *)
StillBusy == TRUE
Released == FALSE

FinishChunk(i) ==
  /\ In(i, "put", "written")
  /\ Answer(i, OK)
  /\ IF open THEN received' = received + 1 /\ busy' = Released
             ELSE UNCHANGED <<received, busy>>
  /\ UNCHANGED <<client, open, disk, refunds, restarts>>

(* sessions.remove: only one caller gets the session; a variant goes by    *)
(* the copy it has.                                                        *)
TakesItsCopy == TRUE
Takes == open

(* A failed append removes the session: the file no longer matches         *)
(* received.                                                               *)
FailChunk(i) ==
  /\ In(i, "put", "torn")
  /\ IF Takes THEN Go(i, "discarding") ELSE Answer(i, Internal)
  /\ open' = FALSE
  /\ UNCHANGED <<client, received, busy, disk, refunds, restarts>>

AbortSession(i) ==
  /\ In(i, "abort", "owned")
  /\ IF Takes THEN Go(i, "discarding") ELSE Answer(i, OK)
  /\ open' = FALSE
  /\ UNCHANGED <<client, received, busy, disk, refunds, restarts>>

DiscardSession(i) ==
  /\ \/ In(i, "put", "discarding") /\ Answer(i, Internal)
     \/ In(i, "abort", "discarding") /\ Answer(i, OK)
  /\ Discard
  /\ UNCHANGED <<client, session, final, row, restarts>>

(* complete_session: the checks on its copy, then the session itself.      *)
CompleteSession(i) ==
  /\ In(i, "complete", "owned")
  /\ IF ~reqs[i].ready THEN Answer(i, Conflict) /\ UNCHANGED open
     ELSE IF open THEN Go(i, "taken") /\ open' = FALSE
     ELSE Answer(i, NotFound) /\ UNCHANGED open
  /\ UNCHANGED <<client, received, busy, disk, refunds, restarts>>

(* process_staged_blocking, which may convert the file.                    *)
Process(i) ==
  /\ In(i, "complete", "taken")
  /\ \/ Go(i, "processed") /\ UNCHANGED staged
     \/ Go(i, "undoing") /\ staged' = Gone
  /\ UNCHANGED <<client, session, final, row, refunds, restarts>>

(* commit_staged_asset: the files are moved, the row is inserted, the tags *)
(* are set.  A failure takes back the files, never the row.                *)
MoveFiles(i) ==
  /\ In(i, "complete", "processed")
  /\ staged' = Gone
  /\ \/ Go(i, "moved") /\ final' = staged
     \/ Go(i, "undoing") /\ UNCHANGED final
  /\ UNCHANGED <<client, session, row, refunds, restarts>>

InsertAsset(i) ==
  /\ In(i, "complete", "moved")
  /\ \/ Go(i, "inserted") /\ row' = TRUE /\ UNCHANGED final
     \/ Go(i, "undoing") /\ final' = Gone /\ UNCHANGED row
  /\ UNCHANGED <<client, session, staged, refunds, restarts>>

SetTags(i) ==
  /\ In(i, "complete", "inserted")
  /\ Answer(i, OK) \/ Go(i, "undoing")
  /\ UNCHANGED <<client, session, disk, refunds, restarts>>

Undo(i) ==
  /\ In(i, "complete", "undoing")
  /\ Answer(i, Internal)
  /\ Discard
  /\ UNCHANGED <<client, session, final, row, restarts>>

Handle(i) ==
  \/ OwnedSession(i) \/ PutChunk(i) \/ OpenStaged(i) \/ AppendChunk(i) \/ FinishChunk(i)
  \/ FailChunk(i) \/ AbortSession(i) \/ DiscardSession(i)
  \/ CompleteSession(i) \/ Process(i) \/ MoveFiles(i) \/ InsertAsset(i) \/ SetTags(i)
  \/ Undo(i)

(* A request that never arrived.                                           *)
Lost(i) ==
  /\ reqs[i].cut /\ reqs[i].status = NoReply /\ reqs[i].at = "sent"
  /\ Answer(i, Dropped)
  /\ UNCHANGED <<client, session, disk, refunds, restarts>>

(* The handler of a request whose connection is gone is dropped at the     *)
(* await it is at; the write it had begun may still be done.               *)
Drop(i) ==
  /\ HandlersDrop
  /\ reqs[i].cut /\ reqs[i].status = NoReply /\ reqs[i].at # "sent"
  /\ Answer(i, Dropped)
  /\ IF reqs[i].at = "opened" THEN staged' \in Interrupted(reqs[i].chunk)
                              ELSE UNCHANGED staged
  /\ UNCHANGED <<client, session, final, row, refunds, restarts>>

-----------------------------------------------------------------------------
(* spawn_sweeper: a session untouched for SESSION_IDLE_MS, however far its *)
(* client has got.                                                         *)
Sweep ==
  /\ open /\ ~busy
  /\ open' = FALSE
  /\ Discard
  /\ UNCHANGED <<client, reqs, received, busy, final, row, restarts>>

(* Sessions live in memory only, and so do rate slots.                     *)
Restart ==
  /\ restarts < MaxRestarts
  /\ restarts' = restarts + 1
  /\ open' = FALSE
  /\ reqs' = [i \in DOMAIN reqs |->
                IF reqs[i].status = NoReply THEN [reqs[i] EXCEPT !.status = Dropped]
                                            ELSE reqs[i]]
  /\ UNCHANGED <<client, received, busy, disk, refunds>>

Init ==
  /\ phase = "start" /\ sent = 0 /\ attempt = 0 /\ reqs = <<>>
  /\ open = FALSE /\ received = 0 /\ busy = FALSE
  /\ staged = Gone /\ final = Gone /\ row = FALSE
  /\ refunds = 0 /\ restarts = 0

StartChunkedUpload ==
  CreateSession \/ CreateFails \/ Send \/ Accepted \/ Refused \/ Fails \/ Cancel \/ Abort

Next ==
  \/ StartChunkedUpload
  \/ \E i \in DOMAIN reqs : Handle(i) \/ Lost(i) \/ Drop(i)
  \/ Sweep \/ Restart

Spec == Init /\ [][Next]_vars

(* Handlers that are not dropped go on, and time passes: a session that    *)
(* nobody touches becomes idle, and the sweeper ticks.                     *)
FairSpec ==
  /\ Spec
  /\ WF_vars(\E i \in DOMAIN reqs : Handle(i))
  /\ WF_vars(Sweep)

-----------------------------------------------------------------------------
(* Properties                                                              *)

Stages == {"sent", "owned", "accepted", "opened", "written", "torn", "discarding",
           "taken", "processed", "moved", "inserted", "undoing"}

TypeOK ==
  /\ phase \in {"start", "ready", "waiting", "aborting", "resolved", "rejected"}
  /\ sent \in 0..Parts /\ attempt \in 0..(Retries - 1)
  /\ reqs \in Seq([kind : {"put", "complete", "abort"}, chunk : 0..(Parts - 1),
                   at : Stages, ready : BOOLEAN, cut : BOOLEAN,
                   status : {NoReply, Dropped, OK, NotFound, Conflict, Internal}])
  /\ open \in BOOLEAN /\ received \in 0..Parts /\ busy \in BOOLEAN
  /\ staged = Gone \/ staged \in Seq(0..Parts)
  /\ final = Gone \/ final \in Seq(0..Parts)
  /\ row \in BOOLEAN /\ refunds \in Nat /\ restarts \in 0..MaxRestarts

(* complete_session: an asset's row names a file that holds every chunk    *)
(* once and in order, whatever was retried, dropped or restarted, and an   *)
(* upload that resolved has one.                                           *)
AssetWhole == (row => final = Whole) /\ (phase = "resolved" => row)

(* discard and complete_session: the slot an upload took from the rate     *)
(* limiter is refunded at most once, whoever ends it: refund would take    *)
(* another upload's.                                                       *)
RefundedOnce == refunds <= 1

Settled == ~open /\ phase # "start" /\ \A i \in DOMAIN reqs : reqs[i].status # NoReply

Undisturbed ==
  /\ restarts = 0
  /\ \A i \in DOMAIN reqs : reqs[i].status = Dropped => reqs[i].at = "sent"

(* An upload that is over, and whose handlers ran to their ends, has left  *)
(* no staging file, and either an asset or its slot given back.            *)
NothingLeftBehind ==
  Settled /\ Undisturbed => staged = Gone /\ (row \/ (refunds = 1 /\ final = Gone))

(* Every session ends, whatever answers, requests or clients are lost (the *)
(* server sweeps the one its client left), when no handler was dropped     *)
(* between accept_chunk and finish_chunk: that one stays busy.             *)
Orphaned ==
  \E i \in DOMAIN reqs :
    reqs[i].status = Dropped /\ reqs[i].at \in {"accepted", "opened", "written", "torn"}

SessionEndsUnlessOrphaned == open ~> (~open \/ Orphaned)
=============================================================================
