---------------------------- MODULE UploadProofs ----------------------------
(***************************************************************************)
(* Proofs about UploadSessions, for a file of any number of chunks, any    *)
(* number of retries and any number of restarts.                           *)
(***************************************************************************)
EXTENDS UploadSessions, SequenceTheorems, TLAPS

-----------------------------------------------------------------------------
(* The requests at work, and the invariant.                                *)

Requests == [kind : {"put", "complete", "abort"}, chunk : 0..(Parts - 1),
             at : Stages, ready : BOOLEAN, cut : BOOLEAN,
             status : {NoReply, Dropped, OK, NotFound, Conflict, Internal}]

Live(i) == reqs[i].status = NoReply

(* The handlers that have taken the session, and those that append to its  *)
(* file.                                                                   *)
Owning == {"discarding", "taken", "processed", "moved", "inserted", "undoing"}
Appending == {"accepted", "opened", "written", "torn"}
Owners == {i \in DOMAIN reqs : Live(i) /\ reqs[i].at \in Owning}
Appenders == {i \in DOMAIN reqs : Live(i) /\ reqs[i].at \in Appending}

(* The first n chunks.                                                     *)
Chunks(n) == [i \in 1..n |-> i - 1]

ClientInv ==
  /\ phase = "start" => reqs = <<>> /\ ~open /\ received = 0 /\ staged = Gone /\ refunds = 0
  /\ phase = "waiting" =>
       /\ reqs # <<>> /\ Newest.kind \in {"put", "complete"}
       /\ Newest.kind = "put" => sent < Parts

(* The session is taken once, and whoever has taken it has yet to refund   *)
(* its slot.                                                               *)
OneTaker ==
  /\ open => Owners = {}
  /\ \A i, j \in Owners : i = j
  /\ open \/ Owners # {} => refunds = 0
  /\ refunds \in 0..1

(* While the session is open, its file holds the chunks received, in order, *)
(* and at most one handler is about to append the next.                    *)
StagedInv ==
  open =>
    /\ ~busy => staged = Chunks(received) /\ Appenders = {}
    /\ \A i, j \in Appenders : i = j
    /\ \A i \in Appenders :
         /\ reqs[i].at # "torn" => reqs[i].chunk = received
         /\ reqs[i].at \in {"accepted", "opened"} => staged = Chunks(received)
         /\ reqs[i].at = "written" => staged = Chunks(received + 1)

(* Once a handler has seen all chunks received and none being written, that *)
(* is so for good: the stale copy complete_session goes by does no harm.   *)
ReadyInv ==
  (\E i \in DOMAIN reqs : reqs[i].ready) => received = Parts /\ ~busy /\ Appenders = {}

(* What the handler that has taken the session finds at each stage.        *)
OwnerInv ==
  \A i \in Owners :
    LET at == reqs[i].at
    IN /\ at \in {"taken", "processed"} => staged = Whole /\ Appenders = {}
       /\ at \in {"discarding", "taken", "processed"} => ~row /\ final = Gone
       /\ at = "moved" => ~row /\ staged = Gone /\ final = Whole
       /\ at = "inserted" => row /\ staged = Gone
       /\ at = "undoing" => staged = Gone /\ (row \/ final = Gone)

AssetInv ==
  /\ open \/ phase = "start" => ~row /\ final = Gone
  /\ row => final = Whole
  /\ phase = "resolved" => row
  /\ \A i \in DOMAIN reqs : reqs[i].kind = "complete" /\ reqs[i].status = OK => row

(* Once nobody has the session, an undisturbed upload has left what it     *)
(* should.                                                                 *)
LeftInv ==
  Undisturbed /\ phase # "start" /\ ~open /\ Owners = {} =>
    staged = Gone /\ (row \/ (refunds = 1 /\ final = Gone))

UploadInv ==
  /\ TypeOK /\ ClientInv /\ OneTaker /\ StagedInv /\ ReadyInv /\ OwnerInv /\ AssetInv
  /\ LeftInv

-----------------------------------------------------------------------------
(* Sequences of chunks.                                                    *)

LEMMA PartsPositive == Parts \in Nat /\ Parts >= 1 /\ Retries \in Nat /\ Retries >= 1
BY ConstantsOK DEF ConstantsOK

LEMMA ChunksInOrder ==
  ASSUME NEW n \in Nat
  PROVE  /\ Chunks(n) # Gone
         /\ Chunks(n) \in Seq(Int) /\ Len(Chunks(n)) = n
         /\ Append(Chunks(n), n) = Chunks(n + 1)
         /\ n = 0 => Chunks(n) = <<>>
<1>1. Chunks(n) \in Seq(Int) /\ Len(Chunks(n)) = n
  <2>1. Chunks(n) \in [1..n -> Int]
    BY DEF Chunks
  <2>2. Len(Chunks(n)) = n
    BY <2>1
  <2>3. Chunks(n) \in Seq(Int)
    BY <2>1
  <2> QED BY <2>2, <2>3
<1>2. n = 0 => Chunks(n) = <<>>
  BY <1>1, EmptySeq
<1>3. Chunks(n) # Gone
  <2> SUFFICES ASSUME Chunks(n) = <<-1>> PROVE FALSE
    BY DEF Gone
  <2>1. Len(Chunks(n)) = 1 /\ Chunks(n)[1] = -1
    OBVIOUS
  <2>2. n = 1
    BY <2>1, <1>1
  <2> QED BY <2>1, <2>2 DEF Chunks
<1>4. Append(Chunks(n), n) = Chunks(n + 1)
  <2>1. Append(Chunks(n), n) \in Seq(Int) /\ Len(Append(Chunks(n), n)) = n + 1
    BY <1>1
  <2>2. \A i \in 1..(n + 1) : Append(Chunks(n), n)[i] = i - 1
    BY <1>1 DEF Chunks
  <2>3. Chunks(n + 1) \in Seq(Int) /\ Len(Chunks(n + 1)) = n + 1
    <3>1. Chunks(n + 1) \in [1..(n + 1) -> Int]
      BY DEF Chunks
    <3> QED BY <3>1
  <2>4. \A i \in 1..(n + 1) : Chunks(n + 1)[i] = i - 1
    BY DEF Chunks
  <2> QED BY <2>1, <2>2, <2>3, <2>4, SeqEqual
<1> QED BY <1>1, <1>2, <1>3, <1>4

-----------------------------------------------------------------------------
(* What a handler's step does to the requests.                             *)

(* Only the i-th request changes.                                          *)
Only(i) ==
  /\ reqs' \in Seq(Requests) /\ Len(reqs') = Len(reqs) /\ DOMAIN reqs' = DOMAIN reqs
  /\ \A j \in DOMAIN reqs : j # i => reqs'[j] = reqs[j]

LEMMA OneChanges ==
  ASSUME reqs \in Seq(Requests), NEW i \in DOMAIN reqs, NEW r \in Requests,
         reqs' = [reqs EXCEPT ![i] = r]
  PROVE  Only(i) /\ reqs'[i] = r
<1>1. reqs' \in Seq(Requests) /\ Len(reqs') = Len(reqs) /\ DOMAIN reqs' = DOMAIN reqs
  OBVIOUS
<1> QED BY <1>1 DEF Only

LEMMA RequestsTyped ==
  ASSUME TypeOK
  PROVE  reqs \in Seq(Requests) /\ \A i \in DOMAIN reqs : reqs[i] \in Requests
<1>1. reqs \in Seq(Requests)
  BY Zenon DEF TypeOK, Requests
<1>2. \A i \in DOMAIN reqs : reqs[i] \in Requests
  BY <1>1, ElementOfSeq
<1> QED BY <1>1, <1>2

(* A handler goes on.                                                      *)
LEMMA GoDoes ==
  ASSUME TypeOK, NEW i \in DOMAIN reqs, NEW to \in Stages, Go(i, to)
  PROVE  /\ Only(i)
         /\ reqs'[i].at = to /\ reqs'[i].status = reqs[i].status
         /\ reqs'[i].kind = reqs[i].kind /\ reqs'[i].chunk = reqs[i].chunk
         /\ reqs'[i].ready = reqs[i].ready
<1>1. reqs \in Seq(Requests) /\ reqs[i] \in Requests
  BY RequestsTyped
<1>2. PICK r : r = [reqs[i] EXCEPT !.at = to]
  OBVIOUS
<1>3. r \in Requests
  BY <1>1, <1>2 DEF Requests
<1>4. reqs' = [reqs EXCEPT ![i] = r]
  BY <1>2 DEF Go
<1>5. Only(i) /\ reqs'[i] = r
  BY <1>1, <1>3, <1>4, OneChanges
<1> QED BY <1>1, <1>2, <1>5 DEF Requests

(* A handler answers, or is dropped.                                       *)
LEMMA AnswerDoes ==
  ASSUME TypeOK, NEW i \in DOMAIN reqs,
         NEW status \in {Dropped, OK, NotFound, Conflict, Internal}, Answer(i, status)
  PROVE  /\ Only(i)
         /\ reqs'[i].status = status /\ status # NoReply /\ reqs'[i].at = reqs[i].at
         /\ reqs'[i].kind = reqs[i].kind /\ reqs'[i].chunk = reqs[i].chunk
         /\ reqs'[i].ready = reqs[i].ready
<1>1. reqs \in Seq(Requests) /\ reqs[i] \in Requests
  BY RequestsTyped
<1>2. PICK r : r = [reqs[i] EXCEPT !.status = status]
  OBVIOUS
<1>3. r \in Requests
  BY <1>1, <1>2 DEF Requests
<1>4. reqs' = [reqs EXCEPT ![i] = r]
  BY <1>2 DEF Answer
<1>5. Only(i) /\ reqs'[i] = r
  BY <1>1, <1>3, <1>4, OneChanges
<1>6. status # NoReply
  BY DEF Dropped, OK, NotFound, Conflict, Internal, NoReply
<1> QED BY <1>1, <1>2, <1>5, <1>6 DEF Requests

(* owned_session's copy.                                                   *)
LEMMA OwnedDoes ==
  ASSUME TypeOK, NEW i \in DOMAIN reqs,
         reqs' = [reqs EXCEPT ![i].at = "owned", ![i].ready = ~busy /\ received = Parts]
  PROVE  /\ Only(i)
         /\ reqs'[i].at = "owned" /\ reqs'[i].status = reqs[i].status
         /\ reqs'[i].kind = reqs[i].kind /\ reqs'[i].chunk = reqs[i].chunk
         /\ reqs'[i].ready <=> ~busy /\ received = Parts
<1>1. reqs \in Seq(Requests) /\ reqs[i] \in Requests
  BY RequestsTyped
<1>2. PICK b \in BOOLEAN : b = (~busy /\ received = Parts)
  OBVIOUS
<1>3. PICK r : r = [reqs[i] EXCEPT !.at = "owned", !.ready = b]
  OBVIOUS
<1>4. r \in Requests
  BY <1>1, <1>3 DEF Requests, Stages
<1>5. reqs' = [reqs EXCEPT ![i] = r]
  BY <1>2, <1>3
<1>6. Only(i) /\ reqs'[i] = r
  BY <1>1, <1>4, <1>5, OneChanges
<1>7. /\ r.at = "owned" /\ r.status = reqs[i].status
      /\ r.kind = reqs[i].kind /\ r.chunk = reqs[i].chunk /\ r.ready = b
  BY <1>1, <1>3 DEF Requests
<1> QED BY <1>2, <1>6, <1>7

(* A request's connection is cut.                                          *)
LEMMA CutDoes ==
  ASSUME TypeOK, reqs # <<>>, reqs' = [reqs EXCEPT ![Len(reqs)].cut = TRUE]
  PROVE  /\ Only(Len(reqs)) /\ Len(reqs) \in DOMAIN reqs
         /\ \A i \in DOMAIN reqs :
              /\ reqs'[i].at = reqs[i].at /\ reqs'[i].status = reqs[i].status
              /\ reqs'[i].kind = reqs[i].kind /\ reqs'[i].chunk = reqs[i].chunk
              /\ reqs'[i].ready = reqs[i].ready
<1>0. Len(reqs) \in DOMAIN reqs
  <2>1. reqs \in Seq(Requests)
    BY RequestsTyped
  <2> QED BY <2>1, EmptySeq, LenProperties
<1>1. reqs \in Seq(Requests) /\ reqs[Len(reqs)] \in Requests
  BY <1>0, RequestsTyped
<1>2. PICK r : r = [reqs[Len(reqs)] EXCEPT !.cut = TRUE]
  OBVIOUS
<1>3. r \in Requests
  BY <1>1, <1>2 DEF Requests
<1>4. reqs' = [reqs EXCEPT ![Len(reqs)] = r]
  BY <1>2
<1>5. Only(Len(reqs)) /\ reqs'[Len(reqs)] = r
  BY <1>0, <1>1, <1>3, <1>4, OneChanges
<1> QED BY <1>0, <1>1, <1>2, <1>5 DEF Requests, Only

(* A request is made.                                                      *)
LEMMA AppendDoes ==
  ASSUME TypeOK, NEW r \in Requests, reqs' = Append(reqs, r)
  PROVE  /\ reqs' \in Seq(Requests) /\ reqs' # <<>>
         /\ Len(reqs') = Len(reqs) + 1 /\ DOMAIN reqs' = DOMAIN reqs \cup {Len(reqs')}
         /\ Len(reqs') \notin DOMAIN reqs /\ reqs'[Len(reqs')] = r
         /\ \A j \in DOMAIN reqs : reqs'[j] = reqs[j]
<1>1. reqs \in Seq(Requests)
  BY RequestsTyped
<1>2. /\ reqs' \in Seq(Requests) /\ Len(reqs') = Len(reqs) + 1 /\ Len(reqs) \in Nat
      /\ reqs'[Len(reqs) + 1] = r /\ \A j \in 1..Len(reqs) : reqs'[j] = reqs[j]
  BY <1>1, AppendProperties, LenProperties
<1>3. DOMAIN reqs = 1..Len(reqs) /\ DOMAIN reqs' = 1..(Len(reqs) + 1)
  BY <1>1, <1>2, LenProperties
<1> QED BY <1>2, <1>3

(* Every handler at work is gone with the server.                          *)
LEMMA RestartDoes ==
  ASSUME TypeOK, Restart
  PROVE  /\ reqs' \in Seq(Requests) /\ DOMAIN reqs' = DOMAIN reqs /\ Len(reqs') = Len(reqs)
         /\ \A i \in DOMAIN reqs :
              /\ reqs'[i].status = IF Live(i) THEN Dropped ELSE reqs[i].status
              /\ reqs'[i].at = reqs[i].at /\ reqs'[i].kind = reqs[i].kind
              /\ reqs'[i].chunk = reqs[i].chunk /\ reqs'[i].ready = reqs[i].ready
<1> DEFINE cut(i) == IF Live(i) THEN [reqs[i] EXCEPT !.status = Dropped] ELSE reqs[i]
<1>1. reqs' = [i \in DOMAIN reqs |-> cut(i)]
  BY DEF Restart, Live
<1>2. reqs \in Seq(Requests) /\ Len(reqs) \in Nat /\ DOMAIN reqs = 1..Len(reqs)
  BY RequestsTyped, LenProperties
<1>3. ASSUME NEW i \in DOMAIN reqs
      PROVE  /\ cut(i) \in Requests
             /\ cut(i).status = IF Live(i) THEN Dropped ELSE reqs[i].status
             /\ cut(i).at = reqs[i].at /\ cut(i).kind = reqs[i].kind
             /\ cut(i).chunk = reqs[i].chunk /\ cut(i).ready = reqs[i].ready
  <2>1. reqs[i] \in Requests
    BY RequestsTyped
  <2> QED BY <2>1 DEF Requests
<1> HIDE DEF cut
<1>4. reqs' \in [1..Len(reqs) -> Requests]
  BY <1>1, <1>2, <1>3
<1>5. reqs' \in Seq(Requests) /\ Len(reqs') = Len(reqs)
  BY <1>2, <1>4
<1> QED BY <1>1, <1>3, <1>5

(* What that does to the handlers at work.                                 *)
LEMMA GoMoves ==
  ASSUME TypeOK, NEW i \in DOMAIN reqs, Live(i), NEW to \in Stages, Go(i, to)
  PROVE  /\ Owners' = IF to \in Owning THEN Owners \cup {i} ELSE Owners \ {i}
         /\ Appenders' = IF to \in Appending THEN Appenders \cup {i} ELSE Appenders \ {i}
BY GoDoes DEF Only, Owners, Appenders, Live

LEMMA AnswerMoves ==
  ASSUME TypeOK, NEW i \in DOMAIN reqs,
         NEW status \in {Dropped, OK, NotFound, Conflict, Internal}, Answer(i, status)
  PROVE  Owners' = Owners \ {i} /\ Appenders' = Appenders \ {i}
BY AnswerDoes DEF Only, Owners, Appenders, Live

(* An upload is never undisturbed again.                                   *)
LEMMA DisturbedStays ==
  ASSUME NEW i \in DOMAIN reqs, Live(i), Only(i), UNCHANGED restarts, Undisturbed'
  PROVE  Undisturbed
<1>1. \A j \in DOMAIN reqs : reqs[j].status = Dropped => j # i
  BY DEF Live, Dropped, NoReply
<1> QED BY <1>1 DEF Undisturbed, Only

-----------------------------------------------------------------------------
(* Every step keeps the types.                                             *)

LEMMA StagedTypes ==
  ASSUME staged = Gone \/ staged \in Seq(0..Parts), NEW c \in 0..Parts
  PROVE  /\ Appended(staged, c) = Gone \/ Appended(staged, c) \in Seq(0..Parts)
         /\ \A f \in Interrupted(c) : f = Gone \/ f \in Seq(0..Parts)
<1>1. Torn \in 0..Parts
  BY PartsPositive DEF Torn
<1>2. \A x \in 0..Parts : Appended(staged, x) = Gone \/ Appended(staged, x) \in Seq(0..Parts)
  <2>1. CASE staged = Gone
    BY <2>1 DEF Appended
  <2>2. CASE staged # Gone
    BY <2>2, AppendProperties DEF Appended
  <2> QED BY <2>1, <2>2
<1> QED BY <1>1, <1>2 DEF Interrupted

(* The requests the client makes.                                          *)
LEMMA SendsRequest ==
  ASSUME TypeOK, Send \/ Abort
  PROVE  \E r \in Requests :
           /\ reqs' = Append(reqs, r)
           /\ r.at = "sent" /\ r.status = NoReply /\ ~r.ready
           /\ r.kind = "put" => sent < Parts
           /\ Send => r.kind \in {"put", "complete"}
<1> USE PartsPositive
<1>1. CASE Send /\ sent < Parts
  <2>1. sent \in 0..(Parts - 1)
    BY <1>1 DEF TypeOK
  <2>2. Request("put", sent) \in Requests
    BY <2>1 DEF Request, Requests, Stages, NoReply
  <2> QED BY <1>1, <2>2 DEF Send, Request
<1>2. CASE Send /\ ~(sent < Parts)
  <2>1. Request("complete", 0) \in Requests
    BY DEF Request, Requests, Stages, NoReply
  <2> QED BY <1>2, <2>1 DEF Send, Request
<1>3. CASE Abort
  <2>1. PICK q \in Requests : q = Request("abort", 0)
    <3>1. Request("abort", 0) \in Requests
      BY DEF Request, Requests, Stages, NoReply
    <3> QED BY <3>1
  <2>2. q.at = "sent" /\ q.status = NoReply /\ ~q.ready /\ q.kind = "abort"
    BY <2>1 DEF Request
  <2>3. PICK r : r = [q EXCEPT !.cut = TRUE]
    OBVIOUS
  <2>4. r \in Requests /\ r.at = q.at /\ r.status = q.status /\ r.kind = q.kind
    BY <2>3 DEF Requests
  <2>5. r.ready = q.ready
    BY <2>3 DEF Requests
  <2>6. reqs' = Append(reqs, r)
    BY <1>3, <2>1, <2>3 DEF Abort
  <2>7. ~Send
    BY <1>3 DEF Abort, Send
  <2> QED BY <2>2, <2>4, <2>5, <2>6, <2>7
<1> QED BY <1>1, <1>2, <1>3

LEMMA ClientTypes ==
  ASSUME TypeOK, ClientInv, StartChunkedUpload
  PROVE  TypeOK'
<1> USE PartsPositive, RequestsTyped DEF client, session, disk
<1>1. CASE CreateSession
  <2>1. staged' \in Seq(0..Parts)
    BY <1>1 DEF CreateSession
  <2> QED BY <1>1, <2>1 DEF CreateSession, TypeOK
<1>2. CASE CreateFails
  BY <1>2 DEF CreateFails, TypeOK
<1>3. CASE Send
  <2>1. PICK r \in Requests : reqs' = Append(reqs, r)
    BY <1>3, SendsRequest
  <2>2. reqs' \in Seq(Requests)
    BY <2>1, AppendDoes
  <2> QED BY <1>3, <2>2 DEF Send, TypeOK, Requests
<1>4. CASE Accepted
  BY <1>4 DEF Accepted, ClientInv, TypeOK
<1>5. CASE Refused
  BY <1>5 DEF Refused, TypeOK
<1>6. CASE Fails \/ Cancel
  <2>1. reqs' = reqs \/ (reqs # <<>> /\ reqs' = [reqs EXCEPT ![Len(reqs)].cut = TRUE])
    BY <1>6 DEF Fails, Cancel, ClientInv
  <2>2. reqs' \in Seq(Requests)
    BY <2>1, CutDoes DEF Only
  <2>3. phase' \in {"ready", "aborting"} /\ attempt' \in 0..(Retries - 1)
    BY <1>6 DEF Fails, Cancel, TypeOK
  <2> QED BY <1>6, <2>2, <2>3 DEF Fails, Cancel, TypeOK, Requests
<1>7. CASE Abort
  <2>1. PICK r \in Requests : reqs' = Append(reqs, r)
    BY <1>7, SendsRequest
  <2>2. reqs' \in Seq(Requests)
    BY <2>1, AppendDoes
  <2> QED BY <1>7, <2>2 DEF Abort, TypeOK, Requests
<1> QED BY <1>1, <1>2, <1>3, <1>4, <1>5, <1>6, <1>7 DEF StartChunkedUpload

(* The stages a handler goes on to.                                        *)
LEMMA HandleTypes ==
  ASSUME TypeOK, StagedInv, NEW i \in DOMAIN reqs, Handle(i)
  PROVE  TypeOK'
<1> USE PartsPositive DEF client, session, disk
<1>0. /\ "owned" \in Stages /\ "accepted" \in Stages /\ "opened" \in Stages
      /\ "written" \in Stages /\ "torn" \in Stages /\ "discarding" \in Stages
      /\ "taken" \in Stages /\ "processed" \in Stages /\ "moved" \in Stages
      /\ "inserted" \in Stages /\ "undoing" \in Stages
  BY DEF Stages
<1>a. reqs[i] \in Requests /\ reqs[i].chunk \in 0..Parts
  BY RequestsTyped DEF Requests
<1>b. \A to \in Stages : Go(i, to) => reqs' \in Seq(Requests)
  BY GoDoes DEF Only
<1>c. \A status \in {OK, NotFound, Conflict, Internal} :
        Answer(i, status) => reqs' \in Seq(Requests)
  BY AnswerDoes DEF Only
<1>1. CASE OwnedSession(i)
  <2>1. reqs' \in Seq(Requests)
    <3>1. CASE open
      <4>1. reqs' = [reqs EXCEPT ![i].at = "owned", ![i].ready = ~busy /\ received = Parts]
        BY <1>1, <3>1 DEF OwnedSession
      <4> QED BY <4>1, OwnedDoes DEF Only
    <3>2. CASE ~open
      BY <1>1, <1>c, <3>2 DEF OwnedSession
    <3> QED BY <3>1, <3>2
  <2> QED BY <1>1, <2>1 DEF OwnedSession, TypeOK, Requests
<1>2. CASE PutChunk(i) \/ OpenStaged(i)
  <2>1. reqs' \in Seq(Requests) /\ busy' \in BOOLEAN
    BY <1>0, <1>2, <1>b, <1>c DEF PutChunk, OpenStaged, TypeOK
  <2> QED BY <1>2, <2>1 DEF PutChunk, OpenStaged, TypeOK, Requests
<1>3. CASE AppendChunk(i)
  <2>1. reqs' \in Seq(Requests)
    BY <1>0, <1>3, <1>b DEF AppendChunk
  <2>2. staged' = Gone \/ staged' \in Seq(0..Parts)
    BY <1>3, <1>a, StagedTypes DEF AppendChunk, TypeOK
  <2> QED BY <1>3, <2>1, <2>2 DEF AppendChunk, TypeOK, Requests
<1>4. CASE FinishChunk(i)
  <2>1. reqs' \in Seq(Requests)
    BY <1>4, <1>c DEF FinishChunk
  <2>2. received' \in 0..Parts
    <3>1. open => reqs[i].chunk = received /\ reqs[i].chunk \in 0..(Parts - 1)
      BY <1>4, <1>a DEF FinishChunk, In, StagedInv, Appenders, Appending, Live, Requests
    <3> QED BY <1>4, <3>1 DEF FinishChunk, TypeOK
  <2>3. busy' \in BOOLEAN
    BY <1>4 DEF FinishChunk, Released, TypeOK
  <2> QED BY <1>4, <2>1, <2>2, <2>3 DEF FinishChunk, TypeOK, Requests
<1>5. CASE FailChunk(i) \/ AbortSession(i)
  <2>1. reqs' \in Seq(Requests)
    BY <1>0, <1>5, <1>b, <1>c DEF FailChunk, AbortSession
  <2> QED BY <1>5, <2>1 DEF FailChunk, AbortSession, TypeOK, Requests
<1>6. CASE DiscardSession(i) \/ Undo(i)
  <2>1. reqs' \in Seq(Requests)
    BY <1>0, <1>6, <1>b, <1>c DEF DiscardSession, Undo
  <2>2. staged' = Gone /\ refunds' \in Nat
    BY <1>6 DEF DiscardSession, Undo, Discard, TypeOK
  <2> QED BY <1>6, <2>1, <2>2 DEF DiscardSession, Undo, TypeOK, Requests
<1>7. CASE CompleteSession(i)
  <2>1. reqs' \in Seq(Requests) /\ open' \in BOOLEAN
    BY <1>0, <1>7, <1>b, <1>c DEF CompleteSession, TypeOK
  <2> QED BY <1>7, <2>1 DEF CompleteSession, TypeOK, Requests
<1>8. CASE Process(i) \/ MoveFiles(i) \/ InsertAsset(i) \/ SetTags(i)
  <2>1. reqs' \in Seq(Requests)
    BY <1>0, <1>8, <1>b, <1>c DEF Process, MoveFiles, InsertAsset, SetTags
  <2>2. /\ staged' \in {staged, Gone} /\ final' \in {staged, final, Gone}
        /\ row' = row \/ row' = TRUE
    BY <1>8 DEF Process, MoveFiles, InsertAsset, SetTags
  <2>3. UNCHANGED <<client, session, refunds, restarts>>
    BY <1>8 DEF Process, MoveFiles, InsertAsset, SetTags
  <2> QED BY <2>1, <2>2, <2>3 DEF TypeOK, Requests
<1> QED BY <1>1, <1>2, <1>3, <1>4, <1>5, <1>6, <1>7, <1>8 DEF Handle

LEMMA TypesStep ==
  ASSUME TypeOK, ClientInv, StagedInv, [Next]_vars
  PROVE  TypeOK'
<1> USE PartsPositive DEF client, session, disk
<1>1. CASE StartChunkedUpload
  BY <1>1, ClientTypes
<1>2. ASSUME NEW i \in DOMAIN reqs, Handle(i) PROVE TypeOK'
  BY <1>2, HandleTypes
<1>3. ASSUME NEW i \in DOMAIN reqs, Lost(i) \/ Drop(i) PROVE TypeOK'
  <2>1. reqs' \in Seq(Requests)
    BY <1>3, AnswerDoes DEF Lost, Drop, Only
  <2>2. reqs[i].chunk \in 0..Parts
    BY RequestsTyped DEF Requests
  <2>3. staged' = Gone \/ staged' \in Seq(0..Parts)
    BY <1>3, <2>2, StagedTypes DEF Lost, Drop, TypeOK
  <2> QED BY <1>3, <2>1, <2>3 DEF Lost, Drop, TypeOK, Requests
<1>4. CASE Sweep
  <2>1. staged' = Gone /\ refunds' \in Nat
    BY <1>4 DEF Sweep, Discard, TypeOK
  <2>2. open' \in BOOLEAN
    BY <1>4 DEF Sweep
  <2>3. UNCHANGED <<client, reqs, received, busy, final, row, restarts>>
    BY <1>4 DEF Sweep
  <2> QED BY <2>1, <2>2, <2>3 DEF TypeOK
<1>5. CASE Restart
  <2>1. restarts' \in 0..MaxRestarts
    BY <1>5, ConstantsOK DEF Restart, TypeOK, ConstantsOK
  <2>2. reqs' \in Seq(Requests)
    BY <1>5, RestartDoes
  <2> QED BY <1>5, <2>1, <2>2 DEF Restart, TypeOK, Requests
<1>6. CASE UNCHANGED vars
  BY <1>6 DEF vars, TypeOK
<1> QED BY <1>1, <1>2, <1>3, <1>4, <1>5, <1>6 DEF Next

-----------------------------------------------------------------------------
(* Every step keeps the rest of the invariant.                             *)

Rest ==
  ClientInv /\ OneTaker /\ StagedInv /\ ReadyInv /\ OwnerInv /\ AssetInv /\ LeftInv

(* A step of the client alone, and one of the handler that has asked for   *)
(* nothing yet.                                                            *)
LEMMA AsBefore ==
  ASSUME UploadInv, UNCHANGED <<session, disk, refunds, restarts>>,
         phase # "start", phase' # "start",
         DOMAIN reqs \subseteq DOMAIN reqs',
         \A j \in DOMAIN reqs :
           /\ reqs'[j].at = reqs[j].at /\ reqs'[j].status = reqs[j].status
           /\ reqs'[j].kind = reqs[j].kind /\ reqs'[j].chunk = reqs[j].chunk
           /\ reqs'[j].ready = reqs[j].ready,
         \A j \in DOMAIN reqs' \ DOMAIN reqs :
           reqs'[j].at = "sent" /\ reqs'[j].status = NoReply /\ ~reqs'[j].ready
  PROVE  /\ OneTaker' /\ StagedInv' /\ ReadyInv' /\ OwnerInv' /\ LeftInv'
         /\ (phase' = "resolved" => row) => AssetInv'
<1> USE DEF session, disk, UploadInv
<1>1. Owners' = Owners /\ Appenders' = Appenders
  BY DEF Owners, Appenders, Live, Owning, Appending
<1>2. OneTaker'
  BY <1>1 DEF OneTaker
<1>3. StagedInv'
  BY <1>1 DEF StagedInv, Appenders
<1>4. ReadyInv'
  BY <1>1 DEF ReadyInv
<1>5. OwnerInv'
  BY <1>1 DEF OwnerInv, Owners
<1>6. Undisturbed' => Undisturbed
  BY DEF Undisturbed
<1>7. LeftInv'
  BY <1>1, <1>6 DEF LeftInv
<1>8. (phase' = "resolved" => row) => AssetInv'
  BY DEF AssetInv, NoReply, OK
<1> QED BY <1>2, <1>3, <1>4, <1>5, <1>7, <1>8

LEMMA ClientKeeps ==
  ASSUME UploadInv, StartChunkedUpload
  PROVE  Rest'
<1>0. TypeOK
  BY DEF UploadInv
<1> USE <1>0
<1>1. CASE CreateSession \/ CreateFails
  <2>1. /\ reqs = <<>> /\ reqs' = <<>> /\ ~open /\ refunds = 0 /\ staged = Gone
        /\ ~row /\ final = Gone /\ phase' \in {"ready", "rejected"}
    BY <1>1 DEF CreateSession, CreateFails, UploadInv, ClientInv, AssetInv
  <2>2. Owners' = {} /\ Appenders' = {}
    BY <2>1 DEF Owners, Appenders
  <2>3. ClientInv' /\ OwnerInv' /\ ReadyInv'
    BY <2>1, <2>2 DEF ClientInv, OwnerInv, ReadyInv
  <2>4. CASE CreateSession
    <3>1. /\ open' = TRUE /\ staged' = <<>> /\ refunds' = 0 /\ received' = 0
          /\ UNCHANGED <<final, row>>
      BY <2>1, <2>4 DEF CreateSession, UploadInv, ClientInv
    <3>2. OneTaker'
      BY <2>2, <3>1 DEF OneTaker
    <3>3. StagedInv'
      <4>1. staged' = Chunks(received')
        BY <3>1, ChunksInOrder
      <4> QED BY <2>2, <4>1 DEF StagedInv
    <3>4. AssetInv' /\ LeftInv'
      BY <2>1, <3>1 DEF AssetInv, LeftInv
    <3> QED BY <2>3, <3>2, <3>3, <3>4 DEF Rest
  <2>5. CASE CreateFails
    <3>1. open' = open /\ staged' = Gone /\ refunds' = 1 /\ UNCHANGED <<final, row>>
      BY <2>1, <2>5 DEF CreateFails, session, disk
    <3>2. OneTaker' /\ StagedInv'
      BY <2>1, <2>2, <3>1 DEF OneTaker, StagedInv
    <3>3. AssetInv' /\ LeftInv'
      BY <2>1, <3>1 DEF AssetInv, LeftInv
    <3> QED BY <2>3, <3>2, <3>3 DEF Rest
  <2> QED BY <1>1, <2>4, <2>5
<1>2. CASE Send \/ Abort
  <2>1. PICK r \in Requests :
          /\ reqs' = Append(reqs, r)
          /\ r.at = "sent" /\ r.status = NoReply /\ ~r.ready
          /\ r.kind = "put" => sent < Parts
          /\ Send => r.kind \in {"put", "complete"}
    BY <1>2, SendsRequest
  <2>2. /\ phase # "start" /\ UNCHANGED <<session, disk, refunds, restarts, sent>>
        /\ (phase' = "waiting" /\ Send) \/ phase' = "rejected"
    BY <1>2 DEF Send, Abort
  <2>3. OneTaker' /\ StagedInv' /\ ReadyInv' /\ OwnerInv' /\ LeftInv' /\ AssetInv'
    BY <2>1, <2>2, AppendDoes, AsBefore
  <2>4. ClientInv'
    <3>1. reqs' # <<>> /\ Newest' = r
      BY <2>1, AppendDoes DEF Newest
    <3> QED BY <2>1, <2>2, <3>1 DEF ClientInv
  <2> QED BY <2>3, <2>4 DEF Rest
<1>3. CASE Accepted \/ Refused \/ Fails \/ Cancel
  <2>1. /\ phase # "start" /\ UNCHANGED <<session, disk, refunds, restarts>>
        /\ phase' \in {"ready", "aborting", "resolved"}
    BY <1>3 DEF Accepted, Refused, Fails, Cancel
  <2>2. reqs' = reqs \/ (reqs # <<>> /\ reqs' = [reqs EXCEPT ![Len(reqs)].cut = TRUE])
    BY <1>3 DEF Accepted, Refused, Fails, Cancel, UploadInv, ClientInv
  <2>3. phase' = "resolved" => row
    <3>1. SUFFICES ASSUME phase' = "resolved" PROVE row
      OBVIOUS
    <3>2. phase = "waiting" /\ Newest.status = OK /\ Newest.kind # "put"
      BY <1>3, <3>1 DEF Accepted, Refused, Fails, Cancel
    <3>3. reqs # <<>> /\ Newest.kind = "complete"
      BY <3>2 DEF UploadInv, ClientInv
    <3>4. Len(reqs) \in DOMAIN reqs
      BY <3>3, RequestsTyped, EmptySeq, LenProperties
    <3> QED BY <3>2, <3>3, <3>4 DEF UploadInv, AssetInv, Newest
  <2>4. /\ DOMAIN reqs' = DOMAIN reqs
        /\ \A j \in DOMAIN reqs :
             /\ reqs'[j].at = reqs[j].at /\ reqs'[j].status = reqs[j].status
             /\ reqs'[j].kind = reqs[j].kind /\ reqs'[j].chunk = reqs[j].chunk
             /\ reqs'[j].ready = reqs[j].ready
    BY <2>2, CutDoes DEF Only
  <2>5. OneTaker' /\ StagedInv' /\ ReadyInv' /\ OwnerInv' /\ LeftInv' /\ AssetInv'
    BY <2>1, <2>3, <2>4, AsBefore
  <2>6. ClientInv'
    BY <2>1 DEF ClientInv
  <2> QED BY <2>5, <2>6 DEF Rest
<1> QED BY <1>1, <1>2, <1>3 DEF StartChunkedUpload

(* What is common to the steps of a handler: the client does not move.     *)
LEMMA HandlerAt ==
  ASSUME UploadInv, NEW i \in DOMAIN reqs, Only(i), UNCHANGED client,
         reqs'[i].kind = reqs[i].kind
  PROVE  ClientInv' /\ phase # "start" /\ phase' = phase
<1>1. reqs # <<>> /\ reqs' # <<>>
  BY RequestsTyped, EmptySeq DEF Only, UploadInv
<1>2. Len(reqs) \in DOMAIN reqs
  BY <1>1, RequestsTyped, EmptySeq, LenProperties DEF UploadInv
<1>3. Newest'.kind = Newest.kind
  BY <1>2 DEF Only, Newest
<1> QED BY <1>1, <1>3 DEF client, UploadInv, ClientInv

(* A handler that does not have the session answers, or one that is        *)
(* dropped.                                                                *)
LEMMA GivesUp ==
  ASSUME UploadInv, NEW i \in DOMAIN reqs, Live(i),
         NEW status \in {Dropped, OK, NotFound, Conflict, Internal}, Answer(i, status),
         UNCHANGED <<client, session, disk, refunds, restarts>>,
         reqs[i].kind = "complete" => status # OK,
         i \in Owners => status = Dropped /\ reqs[i].at # "sent"
  PROVE  Rest'
<1> USE DEF session, disk
<1>0. TypeOK
  BY DEF UploadInv
<1>1. /\ Only(i) /\ reqs'[i].at = reqs[i].at /\ reqs'[i].status = status
      /\ reqs'[i].kind = reqs[i].kind /\ reqs'[i].chunk = reqs[i].chunk
      /\ reqs'[i].ready = reqs[i].ready
  BY <1>0, AnswerDoes
<1>2. Owners' = Owners \ {i} /\ Appenders' = Appenders \ {i}
  BY <1>0, AnswerMoves
<1>3. ClientInv' /\ phase # "start" /\ phase' = phase
  BY <1>1, HandlerAt
<1>4. OneTaker' /\ StagedInv' /\ ReadyInv' /\ OwnerInv'
  <2>1. \A j \in DOMAIN reqs : reqs'[j].at = reqs[j].at /\ reqs'[j].chunk = reqs[j].chunk
                              /\ reqs'[j].ready = reqs[j].ready
    BY <1>1 DEF Only
  <2>2. Owners \subseteq DOMAIN reqs /\ Appenders \subseteq DOMAIN reqs
    BY DEF Owners, Appenders
  <2>3. OneTaker'
    BY <1>2 DEF UploadInv, OneTaker
  <2>4. StagedInv'
    BY <1>2, <2>1, <2>2 DEF UploadInv, StagedInv
  <2>5. ReadyInv'
    BY <1>1, <1>2, <2>1 DEF UploadInv, ReadyInv, Only
  <2>6. OwnerInv'
    BY <1>2, <2>1, <2>2 DEF UploadInv, OwnerInv
  <2> QED BY <2>3, <2>4, <2>5, <2>6
<1>5. AssetInv'
  BY <1>1, <1>3 DEF UploadInv, AssetInv, Only
<1>6. LeftInv'
  <2>1. SUFFICES ASSUME Undisturbed' PROVE LeftInv'
    BY DEF LeftInv
  <2>2. Undisturbed
    BY <1>1, <2>1, DisturbedStays
  <2>3. i \notin Owners
    BY <1>1, <2>1 DEF Undisturbed, Only
  <2> QED BY <1>2, <1>3, <2>2, <2>3 DEF UploadInv, LeftInv
<1> QED BY <1>3, <1>4, <1>5, <1>6 DEF Rest

(* owned_session.                                                          *)
LEMMA OwnedKeeps ==
  ASSUME UploadInv, NEW i \in DOMAIN reqs, OwnedSession(i)
  PROVE  Rest'
<1>0. TypeOK /\ Live(i) /\ reqs[i].at = "sent"
  BY DEF UploadInv, OwnedSession, In, Live
<1>1. CASE ~open
  <2>1. i \notin Owners
    BY <1>0 DEF Owners, Owning
  <2> QED BY <1>0, <1>1, <2>1, GivesUp DEF OwnedSession, OK, NotFound
<1>2. CASE open
  <2>1. reqs' = [reqs EXCEPT ![i].at = "owned", ![i].ready = ~busy /\ received = Parts]
    BY <1>2 DEF OwnedSession
  <2>2. /\ Only(i)
        /\ reqs'[i].at = "owned" /\ reqs'[i].status = reqs[i].status
        /\ reqs'[i].kind = reqs[i].kind /\ reqs'[i].chunk = reqs[i].chunk
        /\ reqs'[i].ready <=> ~busy /\ received = Parts
    BY <1>0, <2>1, OwnedDoes
  <2>3. UNCHANGED <<client, open, received, busy, staged, final, row, refunds, restarts>>
    BY DEF OwnedSession, session, disk
  <2>4. ClientInv' /\ phase # "start" /\ phase' = phase
    BY <2>2, <2>3, HandlerAt
  <2>5. Owners' = Owners /\ Appenders' = Appenders
    BY <1>0, <2>2 DEF Owners, Appenders, Owning, Appending, Live, Only
  <2>6. i \notin Owners /\ i \notin Appenders
    BY <1>0 DEF Owners, Appenders, Owning, Appending
  <2>7. \A j \in Owners \cup Appenders :
          reqs'[j].at = reqs[j].at /\ reqs'[j].chunk = reqs[j].chunk
    BY <2>2, <2>6 DEF Only, Owners, Appenders
  <2>8. OneTaker' /\ StagedInv' /\ OwnerInv'
    BY <2>3, <2>5, <2>7 DEF UploadInv, OneTaker, StagedInv, OwnerInv
  <2>9. ReadyInv'
    BY <1>2, <2>2, <2>3, <2>5 DEF UploadInv, ReadyInv, StagedInv, Only
  <2>10. AssetInv' /\ LeftInv'
    BY <1>0, <1>2, <2>2, <2>3, <2>4 DEF UploadInv, AssetInv, LeftInv, Only
  <2> QED BY <2>4, <2>8, <2>9, <2>10 DEF Rest
<1> QED BY <1>1, <1>2

(* accept_chunk admits the next chunk, and nobody else is appending.       *)
LEMMA PutKeeps ==
  ASSUME UploadInv, NEW i \in DOMAIN reqs, PutChunk(i)
  PROVE  Rest'
<1>0. TypeOK /\ Live(i) /\ reqs[i].at = "owned" /\ reqs[i].kind = "put"
  BY DEF UploadInv, PutChunk, In, Live
<1>a. i \notin Owners
  BY <1>0 DEF Owners, Owning
<1>1. CASE ~(open /\ Admits(i))
  <2>1. /\ Answer(i, NotFound) \/ Answer(i, Conflict)
        /\ UNCHANGED <<client, session, disk, refunds, restarts>>
    BY <1>1 DEF PutChunk, session
  <2> QED BY <1>0, <1>a, <2>1, GivesUp
<1>2. CASE open /\ Admits(i)
  <2>1. /\ Go(i, "accepted") /\ busy' = TRUE
        /\ UNCHANGED <<client, open, received, staged, final, row, refunds, restarts>>
    BY <1>2 DEF PutChunk, disk
  <2>2. /\ Only(i) /\ reqs'[i].at = "accepted" /\ reqs'[i].status = reqs[i].status
        /\ reqs'[i].kind = reqs[i].kind /\ reqs'[i].chunk = reqs[i].chunk
        /\ reqs'[i].ready = reqs[i].ready
    BY <1>0, <2>1, GoDoes DEF Stages
  <2>3. ClientInv' /\ phase # "start" /\ phase' = phase
    BY <2>1, <2>2, HandlerAt
  <2>4. ~busy /\ reqs[i].chunk = received /\ reqs[i].chunk \in 0..(Parts - 1)
    BY <1>2, RequestsTyped DEF Admits, Requests, UploadInv
  <2>5. Appenders = {} /\ staged = Chunks(received)
    BY <1>2, <2>4 DEF UploadInv, StagedInv
  <2>6. Owners' = {} /\ Appenders' = {i} /\ Owners = {}
    BY <1>0, <1>2, <2>1, <2>5, GoMoves
       DEF UploadInv, OneTaker, Stages, Owning, Appending
  <2>7. OneTaker' /\ OwnerInv'
    BY <2>1, <2>6 DEF UploadInv, OneTaker, OwnerInv
  <2>8. StagedInv'
    BY <2>1, <2>2, <2>4, <2>5, <2>6 DEF StagedInv
  <2>9. ReadyInv'
    <3>1. \A j \in DOMAIN reqs : ~reqs[j].ready
      BY <2>4, PartsPositive DEF UploadInv, ReadyInv
    <3> QED BY <2>2, <3>1 DEF ReadyInv, Only
  <2>10. AssetInv' /\ LeftInv'
    BY <1>0, <1>2, <2>1, <2>2, <2>3 DEF UploadInv, AssetInv, LeftInv, Only
  <2> QED BY <2>3, <2>7, <2>8, <2>9, <2>10 DEF Rest
<1> QED BY <1>1, <1>2

(* The write, done or torn, of the one handler that appends.               *)
LEMMA AppendKeeps ==
  ASSUME UploadInv, NEW i \in DOMAIN reqs, OpenStaged(i) \/ AppendChunk(i)
  PROVE  Rest'
<1>0. TypeOK /\ Live(i) /\ reqs[i].at \in {"accepted", "opened"}
  BY DEF UploadInv, OpenStaged, AppendChunk, In, Live
<1>1. PICK to \in {"opened", "written", "torn"} : Go(i, to)
  BY DEF OpenStaged, AppendChunk
<1>2. /\ Only(i) /\ reqs'[i].at = to /\ reqs'[i].status = reqs[i].status
      /\ reqs'[i].kind = reqs[i].kind /\ reqs'[i].chunk = reqs[i].chunk
      /\ reqs'[i].ready = reqs[i].ready
  BY <1>0, <1>1, GoDoes DEF Stages
<1>3. UNCHANGED <<client, open, received, busy, final, row, refunds, restarts>>
  BY DEF OpenStaged, AppendChunk, session, disk
<1>4. ClientInv' /\ phase # "start" /\ phase' = phase
  BY <1>2, <1>3, HandlerAt
<1>5. i \in Appenders /\ Owners' = Owners /\ Appenders' = Appenders
  BY <1>0, <1>1, GoMoves DEF Owners, Appenders, Owning, Appending, Stages
<1>6. i \notin Owners /\ \A j \in Owners : reqs'[j] = reqs[j]
  BY <1>0, <1>2 DEF Owners, Owning, Only
<1>7. staged = Gone => staged' = Gone
  BY DEF OpenStaged, AppendChunk, Appended, Interrupted, disk
<1>8. OneTaker' /\ OwnerInv'
  BY <1>3, <1>5, <1>6, <1>7 DEF UploadInv, OneTaker, OwnerInv
<1>9. StagedInv'
  <2>1. SUFFICES ASSUME open PROVE StagedInv'
    BY <1>3 DEF StagedInv
  <2>2. Appenders = {i} /\ reqs[i].chunk = received /\ staged = Chunks(received) /\ busy
    BY <1>0, <1>5, <2>1 DEF UploadInv, StagedInv
  <2>3. to = "opened" => staged' = staged
    BY <1>0, <1>1, <1>2, <1>3, GoDoes DEF OpenStaged, AppendChunk, Stages, disk
  <2>4. to = "written" => staged' = Chunks(received + 1)
    <3>1. to = "written" => staged' = Appended(staged, reqs[i].chunk)
      BY <1>0, <1>2, GoDoes DEF OpenStaged, AppendChunk, Stages
    <3>2. received \in Nat
      BY <1>0, PartsPositive DEF TypeOK
    <3> QED BY <2>2, <3>1, <3>2, ChunksInOrder DEF Appended
  <2>5. Appenders' = {i}
    BY <1>5, <2>2
  <2> QED BY <1>1, <1>2, <1>3, <2>2, <2>3, <2>4, <2>5 DEF StagedInv
<1>10. ReadyInv'
  BY <1>2, <1>5 DEF UploadInv, ReadyInv, Only
<1>11. AssetInv'
  BY <1>0, <1>2, <1>3, <1>4 DEF UploadInv, AssetInv, Only, Live, NoReply, OK
<1>12. LeftInv'
  BY <1>0, <1>2, <1>3, <1>4, <1>5, <1>7, DisturbedStays DEF UploadInv, LeftInv
<1> QED BY <1>4, <1>8, <1>9, <1>10, <1>11, <1>12 DEF Rest

(* finish_chunk.                                                           *)
LEMMA FinishKeeps ==
  ASSUME UploadInv, NEW i \in DOMAIN reqs, FinishChunk(i)
  PROVE  Rest'
<1>0. TypeOK /\ Live(i) /\ reqs[i].at = "written" /\ reqs[i].kind = "put"
  BY DEF UploadInv, FinishChunk, In, Live
<1>1. CASE ~open
  <2>1. Answer(i, OK) /\ UNCHANGED <<client, session, disk, refunds, restarts>>
    BY <1>1 DEF FinishChunk, session
  <2>2. i \notin Owners
    BY <1>0 DEF Owners, Owning
  <2> QED BY <1>0, <2>1, <2>2, GivesUp
<1>2. CASE open
  <2>1. PICK n \in Nat : n = received + 1
    BY <1>0 DEF TypeOK
  <2>2. /\ Answer(i, OK) /\ received' = n
        /\ UNCHANGED <<client, open, staged, final, row, refunds, restarts>>
    BY <1>2, <2>1 DEF FinishChunk, disk
  <2>3. /\ Only(i) /\ reqs'[i].at = reqs[i].at /\ reqs'[i].status # NoReply
        /\ reqs'[i].kind = reqs[i].kind /\ reqs'[i].ready = reqs[i].ready
    BY <1>0, <2>2, AnswerDoes
  <2>4. ClientInv' /\ phase # "start" /\ phase' = phase
    BY <2>2, <2>3, HandlerAt
  <2>5. i \in Appenders
    BY <1>0 DEF Appenders, Appending
  <2>6. Appenders = {i} /\ staged = Chunks(received + 1)
    BY <1>0, <1>2, <2>5 DEF UploadInv, StagedInv
  <2>7. Owners = {} /\ Owners' = {} /\ Appenders' = {}
    BY <1>0, <1>2, <2>2, <2>6, AnswerMoves DEF UploadInv, OneTaker
  <2>8. OneTaker' /\ OwnerInv'
    BY <2>2, <2>7 DEF UploadInv, OneTaker, OwnerInv
  <2>9. StagedInv'
    BY <2>1, <2>2, <2>6, <2>7 DEF StagedInv
  <2>10. ReadyInv'
    BY <2>3, <2>5 DEF UploadInv, ReadyInv, Only
  <2>11. AssetInv' /\ LeftInv'
    BY <1>0, <1>2, <2>2, <2>3, <2>4 DEF UploadInv, AssetInv, LeftInv, Only
  <2> QED BY <2>4, <2>8, <2>9, <2>10, <2>11 DEF Rest
<1> QED BY <1>1, <1>2

(* sessions.remove: a failed append, an abort or the completion takes the  *)
(* session, if it is still there.                                          *)
LEMMA TakeKeeps ==
  ASSUME UploadInv, NEW i \in DOMAIN reqs, FailChunk(i) \/ AbortSession(i) \/ CompleteSession(i)
  PROVE  Rest'
<1>0. TypeOK /\ Live(i) /\ reqs[i].at \in {"torn", "owned"}
  BY DEF UploadInv, FailChunk, AbortSession, CompleteSession, In, Live
<1>a. i \notin Owners
  BY <1>0 DEF Owners, Owning
<1>1. CASE ~(open /\ (CompleteSession(i) => reqs[i].ready))
  <2>1. PICK status \in {OK, NotFound, Conflict, Internal} :
          Answer(i, status) /\ (reqs[i].kind = "complete" => status # OK)
    BY <1>1 DEF FailChunk, AbortSession, CompleteSession, Takes, In, OK, NotFound, Conflict, Internal
  <2>2. UNCHANGED <<client, session, disk, refunds, restarts>>
    <3>1. CASE CompleteSession(i)
      BY <1>1, <3>1 DEF CompleteSession, session
    <3>2. CASE FailChunk(i) \/ AbortSession(i)
      <4>1. ~open \/ CompleteSession(i)
        BY <1>1
      <4>2. ~open
        BY <3>2, <4>1 DEF FailChunk, AbortSession, CompleteSession, In
      <4>3. open = FALSE
        BY <1>0, <4>2 DEF TypeOK
      <4> QED BY <3>2, <4>3 DEF FailChunk, AbortSession, session
    <3> QED BY <3>1, <3>2
  <2> QED BY <1>0, <1>a, <2>1, <2>2, GivesUp
<1>2. CASE open /\ (CompleteSession(i) => reqs[i].ready)
  <2>1. PICK to \in {"discarding", "taken"} :
          Go(i, to) /\ (to = "taken" => reqs[i].ready)
    BY <1>2 DEF FailChunk, AbortSession, CompleteSession, Takes
  <2>2. /\ UNCHANGED <<client, received, busy, staged, final, row, refunds, restarts>>
        /\ ~open'
    BY <1>2 DEF FailChunk, AbortSession, CompleteSession, disk
  <2>3. /\ Only(i) /\ reqs'[i].at = to /\ reqs'[i].status = reqs[i].status
        /\ reqs'[i].kind = reqs[i].kind /\ reqs'[i].ready = reqs[i].ready
    BY <1>0, <2>1, GoDoes DEF Stages
  <2>4. ClientInv' /\ phase # "start" /\ phase' = phase
    BY <2>2, <2>3, HandlerAt
  <2>5. Owners = {} /\ Owners' = {i} /\ Appenders' = Appenders \ {i}
    BY <1>0, <1>2, <2>1, GoMoves DEF UploadInv, OneTaker, Stages, Owning, Appending
  <2>6. OneTaker' /\ StagedInv'
    BY <1>2, <2>2, <2>5 DEF UploadInv, OneTaker, StagedInv
  <2>7. ReadyInv'
    BY <2>2, <2>3, <2>5 DEF UploadInv, ReadyInv, Only
  <2>8. OwnerInv'
    <3>1. to = "taken" => staged = Whole /\ Appenders = {}
      BY <1>2, <2>1 DEF UploadInv, ReadyInv, StagedInv, Whole, Chunks
    <3>2. ~row /\ final = Gone
      BY <1>2 DEF UploadInv, AssetInv
    <3> QED BY <2>1, <2>2, <2>3, <2>5, <3>1, <3>2 DEF OwnerInv
  <2>9. AssetInv' /\ LeftInv'
    BY <1>0, <2>2, <2>3, <2>4, <2>5 DEF UploadInv, AssetInv, LeftInv, Only, Live, NoReply, OK
  <2> QED BY <2>4, <2>6, <2>7, <2>8, <2>9 DEF Rest
<1> QED BY <1>1, <1>2

(* The handler that has the session discards it, or undoes the asset.      *)
LEMMA DiscardKeeps ==
  ASSUME UploadInv, NEW i \in DOMAIN reqs, DiscardSession(i) \/ Undo(i)
  PROVE  Rest'
<1>0. /\ TypeOK /\ Live(i) /\ reqs[i].at \in {"discarding", "undoing"} /\ i \in Owners
      /\ reqs[i].kind = "complete" => reqs[i].at = "undoing"
  BY DEF UploadInv, DiscardSession, Undo, In, Live, Owners, Owning
<1>1. PICK status \in {OK, Internal} :
        Answer(i, status) /\ (reqs[i].kind = "complete" => status = Internal)
  BY DEF DiscardSession, Undo, In
<1>2. /\ refunds = 0 /\ ~open /\ Owners = {i}
  BY <1>0 DEF UploadInv, OneTaker
<1>3. /\ staged' = Gone /\ refunds' = 1
      /\ UNCHANGED <<client, open, received, busy, final, row, restarts>>
  BY <1>2 DEF DiscardSession, Undo, Discard, session
<1>4. /\ Only(i) /\ reqs'[i].at = reqs[i].at /\ reqs'[i].status = status
      /\ reqs'[i].kind = reqs[i].kind /\ reqs'[i].ready = reqs[i].ready
  BY <1>0, <1>1, AnswerDoes
<1>5. ClientInv' /\ phase # "start" /\ phase' = phase
  BY <1>3, <1>4, HandlerAt
<1>6. Owners' = {} /\ Appenders' = Appenders \ {i}
  BY <1>0, <1>1, <1>2, AnswerMoves
<1>7. OneTaker' /\ StagedInv' /\ OwnerInv'
  BY <1>2, <1>3, <1>6 DEF OneTaker, StagedInv, OwnerInv
<1>8. ReadyInv'
  BY <1>3, <1>4, <1>6 DEF UploadInv, ReadyInv, Only
<1>9. AssetInv'
  BY <1>1, <1>2, <1>3, <1>4, <1>5 DEF UploadInv, AssetInv, Only, OK, Internal
<1>10. LeftInv'
  BY <1>0, <1>3 DEF UploadInv, OwnerInv, LeftInv
<1> QED BY <1>5, <1>7, <1>8, <1>9, <1>10 DEF Rest

(* commit_staged_asset and what precedes it: the one handler that has the  *)
(* session goes on, or is about to undo.                                   *)
LEMMA CommitKeeps ==
  ASSUME UploadInv, NEW i \in DOMAIN reqs,
         Process(i) \/ MoveFiles(i) \/ InsertAsset(i) \/ SetTags(i)
  PROVE  Rest'
<1>0. /\ TypeOK /\ Live(i) /\ reqs[i].at \in {"taken", "processed", "moved", "inserted"}
      /\ reqs[i].kind = "complete"
  BY DEF UploadInv, Process, MoveFiles, InsertAsset, SetTags, In, Live
<1>1. i \in Owners /\ Owners = {i} /\ refunds = 0 /\ ~open
  <2>1. i \in Owners
    BY <1>0 DEF Owners, Owning
  <2> QED BY <2>1 DEF UploadInv, OneTaker
<1>2. UNCHANGED <<client, open, received, busy, refunds, restarts>>
  BY DEF Process, MoveFiles, InsertAsset, SetTags, session
<1>a. i \notin Appenders
  BY <1>0 DEF Appenders, Appending
<1>3. CASE SetTags(i) /\ Answer(i, OK)
  <2>1. /\ Only(i) /\ reqs'[i].status = OK /\ reqs'[i].ready = reqs[i].ready
        /\ reqs'[i].kind = reqs[i].kind
    BY <1>0, <1>3, AnswerDoes
  <2>2. Owners' = {} /\ Appenders' = Appenders
    BY <1>0, <1>1, <1>3, <1>a, AnswerMoves
  <2>3. row /\ staged = Gone /\ UNCHANGED <<staged, final, row>>
    BY <1>1, <1>3 DEF SetTags, In, UploadInv, OwnerInv, disk
  <2>4. ClientInv' /\ phase # "start" /\ phase' = phase
    BY <1>2, <2>1, HandlerAt
  <2>5. OneTaker' /\ StagedInv' /\ OwnerInv' /\ LeftInv'
    BY <1>1, <1>2, <2>2, <2>3 DEF OneTaker, StagedInv, OwnerInv, LeftInv
  <2>6. ReadyInv' /\ AssetInv'
    BY <1>1, <1>2, <2>1, <2>2, <2>3, <2>4 DEF UploadInv, ReadyInv, AssetInv, Only
  <2> QED BY <2>4, <2>5, <2>6 DEF Rest
<1>4. ASSUME NEW to \in {"processed", "moved", "inserted", "undoing"}, Go(i, to)
      PROVE  Rest'
  <2>1. /\ Only(i) /\ reqs'[i].at = to /\ reqs'[i].status = reqs[i].status
        /\ reqs'[i].kind = reqs[i].kind /\ reqs'[i].ready = reqs[i].ready
    BY <1>0, <1>4, GoDoes DEF Stages
  <2>2. Owners' = {i} /\ Appenders' = Appenders
    BY <1>0, <1>1, <1>4, <1>a, GoMoves DEF Stages, Owning, Appending
  <2>3. ClientInv' /\ phase # "start" /\ phase' = phase
    BY <1>2, <2>1, HandlerAt
  <2>4. OneTaker' /\ StagedInv' /\ LeftInv'
    BY <1>1, <1>2, <2>2 DEF OneTaker, StagedInv, LeftInv
  <2>5. ReadyInv'
    BY <1>2, <2>1, <2>2 DEF UploadInv, ReadyInv, Only
  <2>6. /\ to = "processed" => staged' = Whole /\ Appenders = {} /\ ~row' /\ final' = Gone
        /\ to = "moved" => ~row' /\ staged' = Gone /\ final' = Whole
        /\ to = "inserted" => row' /\ staged' = Gone
        /\ to = "undoing" => staged' = Gone /\ (row' \/ final' = Gone)
        /\ row' => final' = Whole
        /\ row => row'
    <3>1. /\ reqs[i].at \in {"taken", "processed"} => staged = Whole /\ Appenders = {}
          /\ reqs[i].at \in {"taken", "processed"} => ~row /\ final = Gone
          /\ reqs[i].at = "moved" => ~row /\ staged = Gone /\ final = Whole
          /\ reqs[i].at = "inserted" => row /\ staged = Gone /\ final = Whole
      BY <1>1 DEF UploadInv, OwnerInv, AssetInv
    <3>0. \A x \in {"processed", "moved", "inserted", "undoing"} : Go(i, x) => x = to
      BY <1>0, <2>1, GoDoes DEF Stages
    <3>a. ~Answer(i, OK)
      BY <1>0, <2>1, AnswerDoes DEF Live
    <3>2. CASE Process(i)
      BY <3>0, <3>1, <3>2 DEF Process, In
    <3>3. CASE MoveFiles(i)
      BY <3>0, <3>1, <3>3 DEF MoveFiles, In
    <3>4. CASE InsertAsset(i)
      BY <3>0, <3>1, <3>4 DEF InsertAsset, In
    <3>5. CASE SetTags(i)
      BY <3>0, <3>a, <3>1, <3>5 DEF SetTags, In, disk
    <3> QED BY <3>2, <3>3, <3>4, <3>5
  <2>7. OwnerInv'
    BY <1>4, <2>1, <2>2, <2>6 DEF OwnerInv
  <2>8. AssetInv'
    BY <1>0, <1>1, <1>2, <2>1, <2>3, <2>6
       DEF UploadInv, AssetInv, Only, Live, NoReply, OK
  <2> QED BY <2>3, <2>4, <2>5, <2>7, <2>8 DEF Rest
<1> QED BY <1>3, <1>4 DEF Process, MoveFiles, InsertAsset, SetTags

(* A request that never arrived, or whose handler is dropped.              *)
LEMMA DropKeeps ==
  ASSUME UploadInv, NEW i \in DOMAIN reqs, Lost(i) \/ Drop(i)
  PROVE  Rest'
<1>0. TypeOK /\ Live(i) /\ Answer(i, Dropped)
  BY DEF UploadInv, Lost, Drop, Live
<1>1. CASE Lost(i) \/ reqs[i].at # "opened"
  <2>1. UNCHANGED <<client, session, disk, refunds, restarts>>
    BY <1>1 DEF Lost, Drop, disk
  <2>2. i \in Owners => reqs[i].at # "sent"
    BY DEF Owners, Owning
  <2> QED BY <1>0, <2>1, <2>2, GivesUp DEF Dropped, OK
<1>2. CASE Drop(i) /\ reqs[i].at = "opened"
  <2>1. /\ staged' \in Interrupted(reqs[i].chunk)
        /\ UNCHANGED <<client, open, received, busy, final, row, refunds, restarts>>
    BY <1>2 DEF Drop, session
  <2>2. /\ Only(i) /\ reqs'[i].at = reqs[i].at /\ reqs'[i].status = Dropped
        /\ reqs'[i].kind = reqs[i].kind /\ reqs'[i].ready = reqs[i].ready
    BY <1>0, AnswerDoes
  <2>3. ClientInv' /\ phase # "start" /\ phase' = phase
    BY <2>1, <2>2, HandlerAt
  <2>4. i \in Appenders /\ i \notin Owners
    BY <1>0, <1>2 DEF Appenders, Appending, Owners, Owning
  <2>5. Owners' = Owners /\ Appenders' = Appenders \ {i}
    BY <1>0, <2>4, AnswerMoves
  <2>6. \A j \in Owners : reqs'[j] = reqs[j]
    BY <2>2, <2>4 DEF Only, Owners
  <2>7. staged = Gone => staged' = Gone
    BY <2>1 DEF Interrupted, Appended
  <2>8. OneTaker' /\ OwnerInv'
    BY <2>1, <2>4, <2>5, <2>6, <2>7 DEF UploadInv, OneTaker, OwnerInv
  <2>9. StagedInv'
    BY <2>1, <2>4, <2>5 DEF UploadInv, StagedInv
  <2>10. ReadyInv'
    BY <2>2, <2>4 DEF UploadInv, ReadyInv, Only
  <2>11. AssetInv'
    BY <2>1, <2>2, <2>3 DEF UploadInv, AssetInv, Only, Dropped, OK
  <2>12. ~Undisturbed'
    BY <1>2, <2>2 DEF Undisturbed, Only
  <2> QED BY <2>3, <2>8, <2>9, <2>10, <2>11, <2>12 DEF Rest, LeftInv
<1> QED BY <1>1, <1>2

(* The sweeper takes the session, when nobody writes.                      *)
LEMMA SweepKeeps ==
  ASSUME UploadInv, Sweep
  PROVE  Rest'
<1>1. /\ staged' = Gone /\ ~open'
      /\ UNCHANGED <<client, reqs, received, busy, final, row, restarts>>
  BY DEF Sweep, Discard
<1>2. Owners = {} /\ Appenders = {} /\ refunds = 0 /\ final = Gone
  BY DEF Sweep, UploadInv, OneTaker, StagedInv, AssetInv
<1>3. refunds' = 1
  BY <1>2 DEF Sweep, Discard
<1>4. Owners' = {} /\ Appenders' = {}
  BY <1>1, <1>2 DEF Owners, Appenders, Live
<1>5. phase # "start"
  BY DEF Sweep, UploadInv, ClientInv
<1>6. ClientInv' /\ AssetInv'
  BY <1>1, <1>5 DEF client, UploadInv, ClientInv, AssetInv, Newest
<1>7. OneTaker' /\ StagedInv' /\ OwnerInv'
  BY <1>1, <1>3, <1>4 DEF OneTaker, StagedInv, OwnerInv
<1>8. ReadyInv'
  BY <1>1, <1>4 DEF UploadInv, ReadyInv
<1>9. LeftInv'
  BY <1>1, <1>2, <1>3 DEF LeftInv
<1> QED BY <1>6, <1>7, <1>8, <1>9 DEF Rest

(* A restart forgets the session and every handler.                        *)
LEMMA RestartKeeps ==
  ASSUME UploadInv, Restart
  PROVE  Rest'
<1>1. /\ ~open' /\ restarts' = restarts + 1
      /\ UNCHANGED <<client, received, busy, staged, final, row, refunds>>
  BY DEF Restart, disk
<1>2. /\ reqs' \in Seq(Requests) /\ DOMAIN reqs' = DOMAIN reqs /\ Len(reqs') = Len(reqs)
      /\ \A i \in DOMAIN reqs :
           /\ reqs'[i].status = IF Live(i) THEN Dropped ELSE reqs[i].status
           /\ reqs'[i].at = reqs[i].at /\ reqs'[i].kind = reqs[i].kind
           /\ reqs'[i].ready = reqs[i].ready
  BY RestartDoes DEF UploadInv
<1>3. \A i \in DOMAIN reqs : reqs'[i].status # NoReply
  BY <1>2 DEF Live, Dropped, NoReply
<1>4. Owners' = {} /\ Appenders' = {}
  BY <1>2, <1>3 DEF Owners, Appenders, Live
<1>5. ClientInv'
  <2>1. reqs # <<>> => reqs' # <<>> /\ Len(reqs) \in DOMAIN reqs
    BY <1>2, RequestsTyped, EmptySeq, LenProperties DEF UploadInv
  <2>2. reqs = <<>> => reqs' = <<>>
    BY <1>2, RequestsTyped, EmptySeq DEF UploadInv
  <2>3. reqs # <<>> => Newest'.kind = Newest.kind
    BY <1>2, <2>1 DEF Newest
  <2> QED BY <1>1, <2>1, <2>2, <2>3 DEF client, UploadInv, ClientInv
<1>6. OneTaker' /\ StagedInv' /\ OwnerInv'
  BY <1>1, <1>4 DEF UploadInv, OneTaker, StagedInv, OwnerInv
<1>7. ReadyInv'
  BY <1>1, <1>2, <1>4 DEF UploadInv, ReadyInv
<1>8. AssetInv'
  BY <1>1, <1>2 DEF client, UploadInv, AssetInv, Dropped, OK
<1>9. restarts' # 0
  BY <1>1 DEF UploadInv, TypeOK
<1>10. LeftInv'
  BY <1>9 DEF LeftInv, Undisturbed
<1> QED BY <1>5, <1>6, <1>7, <1>8, <1>10 DEF Rest

-----------------------------------------------------------------------------
(* The theorems.                                                           *)

LEMMA UploadInit == Init => UploadInv
<1> SUFFICES ASSUME Init PROVE UploadInv
  OBVIOUS
<1> USE PartsPositive DEF Init
<1>1. reqs \in Seq(Requests) /\ reqs = <<>>
  OBVIOUS
<1>2. TypeOK
  <2>1. MaxRestarts \in Nat
    BY ConstantsOK DEF ConstantsOK
  <2>2. open \in BOOLEAN /\ busy \in BOOLEAN /\ row \in BOOLEAN
    OBVIOUS
  <2>3. /\ sent \in 0..Parts /\ attempt \in 0..(Retries - 1) /\ received \in 0..Parts
        /\ refunds \in Nat /\ restarts \in 0..MaxRestarts
    BY <2>1
  <2> QED BY <1>1, <2>2, <2>3 DEF TypeOK, Requests
<1>3. Owners = {} /\ Appenders = {}
  BY <1>1 DEF Owners, Appenders
<1>4. ClientInv /\ OneTaker /\ StagedInv /\ ReadyInv /\ OwnerInv /\ LeftInv
  BY <1>1, <1>3 DEF ClientInv, OneTaker, StagedInv, ReadyInv, OwnerInv, LeftInv
<1>5. AssetInv
  BY <1>1 DEF AssetInv
<1> QED BY <1>2, <1>4, <1>5 DEF UploadInv

LEMMA UploadStep ==
  ASSUME UploadInv, [Next]_vars
  PROVE  UploadInv'
<1> SUFFICES Rest'
  BY TypesStep DEF UploadInv, Rest
<1>1. CASE StartChunkedUpload
  BY <1>1, ClientKeeps
<1>2. ASSUME NEW i \in DOMAIN reqs, Handle(i) PROVE Rest'
  BY <1>2, OwnedKeeps, PutKeeps, AppendKeeps, FinishKeeps, TakeKeeps, DiscardKeeps, CommitKeeps
     DEF Handle
<1>3. ASSUME NEW i \in DOMAIN reqs, Lost(i) \/ Drop(i) PROVE Rest'
  BY <1>3, DropKeeps
<1>4. CASE Sweep \/ Restart
  BY <1>4, SweepKeeps, RestartKeeps
<1>5. CASE UNCHANGED vars
  BY <1>5 DEF vars, client, session, disk, UploadInv, Rest, ClientInv, OneTaker, StagedInv,
              ReadyInv, OwnerInv, AssetInv, LeftInv, Owners, Appenders, Live, Newest, Undisturbed
<1> QED BY <1>1, <1>2, <1>3, <1>4, <1>5 DEF Next

LEMMA UploadAlways == Spec => []UploadInv
BY UploadInit, UploadStep, PTL DEF Spec

(* What the run's variables are.                                           *)
THEOREM UploadTyped == Spec => []TypeOK
<1>1. UploadInv => TypeOK
  BY DEF UploadInv
<1> QED BY <1>1, UploadAlways, PTL

(* complete_session: an asset's row names a file that holds every chunk    *)
(* once and in order, whatever was retried, dropped, aborted or swept,     *)
(* for a file of any number of chunks.                                     *)
THEOREM AssetWholeAlways == Spec => []AssetWhole
<1>1. UploadInv => AssetWhole
  BY DEF UploadInv, AssetInv, AssetWhole
<1> QED BY <1>1, UploadAlways, PTL

(* discard, complete_session and the sweeper: the slot is refunded at most *)
(* once.                                                                   *)
THEOREM RefundedOnceAlways == Spec => []RefundedOnce
<1>1. UploadInv => RefundedOnce
  BY DEF UploadInv, OneTaker, RefundedOnce
<1> QED BY <1>1, UploadAlways, PTL

(* An upload that is over, and whose handlers ran to their ends, has left  *)
(* no staging file, and either an asset or its slot given back.            *)
THEOREM NothingLeftAlways == Spec => []NothingLeftBehind
<1>1. UploadInv => NothingLeftBehind
  <2> SUFFICES ASSUME UploadInv, Settled, Undisturbed
               PROVE  staged = Gone /\ (row \/ (refunds = 1 /\ final = Gone))
    BY DEF NothingLeftBehind
  <2>1. Owners = {}
    BY DEF Settled, Owners, Live
  <2> QED BY <2>1 DEF UploadInv, LeftInv, Settled
<1> QED BY <1>1, UploadAlways, PTL
=============================================================================
