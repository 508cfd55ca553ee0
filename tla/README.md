# Shadowcat: TLA+ models, model checking and proofs

Shadowcat is a self-hosted virtual tabletop: a Rust server (`src/src/server`)
owns every world's documents and their append-only command log, and browser
clients (`src/src/client`, `src/src/modules`) follow a world over one WebSocket
each. These modules model the parts of it whose correctness depends on the order
in which several actors move, and check and prove what they promise.

Paths below are relative to the directory that holds `src/` and `tla/`.

## 1. Inventory

### Server

| component | state it keeps | operations | what makes it correct |
|---|---|---|---|
| **Room fan-out** (`ws/room.rs`) | `current_seq`, the ring buffer, the broadcast channel, `session_floors`, the scene ECS, `moving`, `publish_guard` | `publish`, `commit_ops_locked`, `commit_combat`, `commit_audio_transport`, `resync_range`, `establish_resync_floor`, `subscribe` | broadcast order is seq order; the hot tier never hides a missing event; a watermark never runs ahead of the log |
| **Room registry** (`ws/room.rs`) | rooms by world, tombstones of worlds being deleted, per-room connection counters | `get_or_create`, `reap_if_empty`, `begin_delete`, `finish_delete`, `evict_user` | one live room per world; a reaped room has no connection and no writer; nothing is written to a deleted world |
| **Connection** (`ws/conn.rs`) | the ingress and egress tasks, the queue between them, `next_expected`, subscriptions, a snapshot of the caller's rights | the frames of `ClientMsg`, the egress `select!`, `replay`, `reseed_world_config` | every event once, in order, per connection; a rejection before any later echo; rights not staler than the connection |
| **Data** (`data/`) | documents, `worlds.seq`, the events table, memberships, assets, UI state | `apply_intent`, `events_since`, document and membership CRUD, export and import, search | one seq per accepted command, all of its operations or none; optimistic concurrency; validators and permissions decide before anything is written |
| **Combat** (`combat/`) | combat and combatant documents, turn history | start, pause, advance, rewind, fast_forward, sort, roll, resource changes; movement budgets | a turn is ended once; a rewind restores what it recorded; nobody walks further than paid for |
| **Scene** (`scene/`) | the derived ECS, exploration, vision and lighting caches | `execute_move`, pathfinding, regions, triggers, derived channels | a token moves along a legal path, one move at a time; a preview and the walk agree; a trigger fires once per entry |
| **Chat** (`chat/`) | message documents, roll records, the preview cache | send, edit, delete, recalc, link previews | an enrichment never resurrects an edited or deleted message |
| **Audio** (`audio/`, `audio_monitor/`, `client/audio/`) | the audio-state document, a shuffle seed, each session's players, the monitor's soundings | transport operations, advance at a track's end, the ambience of the active scene | an end-of-track advance applies to a track that has ended, and every end advances; an ambience sounds in its scene alone; a shuffle repeats nothing |
| **Sandbox** (`sandbox/`) | loaded validators, fault streaks | validate, record a fault, disable | a faulting module is disabled after `VALIDATOR_FAULT_LIMIT` faults in a row and not before |
| **Merge** (`merge/`, `ws/conn/merge_intents.rs`, `client/core/src/merge.ts`) | the base of an instance, in its document | pull, push and revert between a template and its instances | a change of the template arrives; a change of the instance's own stands |
| **Auth** (`auth/`) | sessions, setup token, invites, throttles | login, logout, setup, invite, password reset | an invite is used once; setup happens once |
| **HTTP** (`http/`) | upload sessions, throttles | routes, chunked uploads, asset mutation, world bundles, `world_snapshot` | an upload is committed whole or not at all; the snapshot's seq is the one its documents are at |
| **Backup** (`backup.rs`, `backup/`) | the write barrier, the staged archive | backup, restore, pending swap at start | an archive is a consistent cut; an interrupted restore leaves a usable database |
| **World bundles** (`world_bundle.rs`) | none | export, import | ids are remapped consistently |
| **Modules** (`modules.rs`, `modules/`) | the installed set, the dependency graph | install, enable, order | dependencies before dependants; no cycle |
| **Formula, dice, tables** (`formula/`, `dice/`, `tables/`) | none | parse, evaluate, order, draw | evaluation order respects dependencies, cycles are reported |

### Client

| component | state it keeps | operations | what makes it correct |
|---|---|---|---|
| **WsClient** (`client/core/src/ws-client.ts`) | `nextExpected`, `#hasEverOpened`, generations, the watchdog, pending requests | `start`, `open`, `handleFrame`, `applyEvent`, `handleClose`, `stop` | each event once, in order, no hole; it reconnects |
| **OptimisticClient** (`client/core/src/optimistic.ts`) | base documents, the pending queue, the view | `dispatch`, `applyCommand`, `reject`, `clearPending` | the view is base plus pending; a pending intent ends confirmed or rejected, and it is the one that was |
| **World session** (`client/shell/src/lib/worldSession.svelte.ts`) | the offline queue, subscriptions, controllers | `enter`, `dispatchIntent`, `#flushOfflineQueue`, `leave` | an intent is sent at most once and in order |
| **Stores and hooks** (`store.ts`, `hooks.ts`, `middleware.ts`, `services.ts`) | document mirrors, hook tables | apply, query, emit | mirrors agree with the log |
| **Loader and modules** (`loader.ts`, `src/src/modules`) | module graph, contributions | activate, deactivate | dependencies first; nothing left behind |
| **Render, formula, ui-kit** | scene graph | draw | presentation only |

### How they interact

A write reaches a world through its `Room`: an intent frame on a socket
(`conn.rs` ingress), an HTTP write (`routes.rs` `write_ops`), a combat or audio
operation, or a server-side follow-up (trigger effects, budget decrements, chat
enrichment) calls a `publish` variant, which takes `publish_guard`, runs the
transaction of `apply_intent`, pushes the command into the ring, raises
`current_seq` and broadcasts. Each connection has two tasks: ingress reads client
frames and queues answers for egress (`erx`), egress is one biased `select!` over
that queue, the subscription timer and the broadcast receiver (`rx`). A receiver
that overflows gets `Lagged` and replays from its own watermark. On the client,
`WsClient` applies events in seq order, requests a resync on a gap and on
reconnect, and hands commands to `OptimisticClient`, which confirms predictions
by position. Nothing but the database survives a restart: rooms, rings, floors,
upload sessions, tombstones and rate limiters are memory.

### What is hard here

* **Interleavings at awaits.** `get_or_create` reads, awaits three times and
  inserts; a commit is four steps that subscriptions fall between;
  `world_snapshot` reads documents and seq separately.
* **Several paths for one event.** Broadcast, requested resync and lag replay
  deliver the same seqs to one client, out of one socket and across sockets.
* **Loss.** Sockets die with frames in both directions; broadcast receivers
  drop; HTTP handlers are dropped at an await when their client disconnects.
* **Memory lost.** A reap or a restart forgets floors, ring and sessions while
  clients keep their watermarks.
* **Positional protocols.** Nothing correlates an echo with an intent.
* **Pre-images instead of locks.** A combat transition, a merge and a budget
  decrement are computed from documents read earlier; what orders two of them is
  that `apply_intent` compares the old values of the fields they write, and of no
  others.
* **Batches.** `apply_intent` checks every operation of a batch against the documents
  before it and applies them one after the other.
* **Rights of two moments.** An event is filtered for a recipient by the rights at its
  commit and by those of the moment it is sent.

## 2. Modules

| module | what it models | extends |
|---|---|---|
| `EventStream` | the abstract promise: an append-only log, and clients that apply it event by event, and pass none by but those a replay lost | |
| `RoomSync` | one world's commits, of which any may lose its publish, ring, broadcast, connections, resyncs, floors, and the sessions that follow it | |
| `RoomSyncStream` | how `RoomSync` is seen as an `EventStream`: the refinement mapping | `RoomSync` |
| `RoomSyncProofs` | theorems about `RoomSync`, ending in the refinement | `RoomSyncStream` |
| `OptimisticIntents` | predictions, their confirmation and the offline queue, over a simplified wire | |
| `IntentProofs` | theorems about `OptimisticIntents` | `OptimisticIntents` |
| `RoomRegistry` | when a world has a Room, and how many | |
| `RoomRegistryProofs` | theorems about `RoomRegistry` | `RoomRegistry` |
| `UploadSessions` | one chunked upload, client and server | |
| `UploadProofs` | theorems about `UploadSessions` | `UploadSessions` |
| `ApplyIntent` | one batch of operations: its checks, what it stores, logs and undoes | |
| `EgressFilter` | what one player is sent of a world's commands, and the documents he ends up with | |
| `EgressProofs` | theorems about `EgressFilter` | `EgressFilter` |
| `CombatClock` | turns, rounds, history and rewinds of a combat, computed from snapshots | |
| `CombatClockProofs` | theorems about `CombatClock` | `CombatClock` |
| `GridMoves` | routes over a square grid, and the walks that follow them | |
| `MoveCommits` | the commits of one move, with its budget and triggers, while turns pass | |
| `CommitProofs` | theorems about `ApplyIntent`, and about `MoveCommits` | `ApplyIntent`, `MoveCommits` |
| `TemplateMerge` | pulls, pushes and reverts between a template and its instances | |
| `AudioTransport` | what a world plays: GMs' operations, end reports, the ambience of the active scene, sessions that play for themselves | |
| `AudioProofs` | theorems about `AudioTransport` | `AudioTransport` |
| `MC*` | the instances TLC checks, one for each of these | |

How they fit together. `RoomSync` takes one Room per world for granted;
`RoomRegistry` says under which condition that is so (`OneRoomUnlessTorn`,
`UpToDateUnlessTorn`). `OptimisticIntents` takes for granted that a connection
delivers the log in order and without holes; `RoomSync` says which holes there can be
(`GaplessUnlessLost`, `AppliedInOrder`). An event of `RoomSync` is a command of
`ApplyIntent`, filtered on its way by `EgressFilter`. `CombatClock`, `MoveCommits` and
`TemplateMerge` commit through `apply_intent` and keep of it the comparison of
pre-images, field by field or band by band. `MoveCommits` takes the walk from
`GridMoves`, on a corridor where every step costs one. `AudioTransport` commits whole
under `publish_guard`, and its sessions see the newest state some time later, which is
what `RoomSync`'s `Converges` grants them.

### RoomSync

An event is its seq. `events` is `worlds.seq`; `commit` is how far
`commit_ops_locked` has got with the newest one: `stored` after the transaction,
`pushed` after the ring, `visible` after the atomic, `idle` after the broadcast. `ring` drops by count
(`MAX_EVENTS`) and by age: the age rule is any number of old entries, never the
event just pushed. `write_ops` awaits `publish` within an HTTP request, which is dropped with its
connection: at the awaits of the scene's and the ring's lock the command is stored and neither in the
ring nor announced (`PublishDropped`), and the next command overtakes it. `dropped` and `lost` are history: the stored seqs
the present Room was never told of, and the events a replay passed by, for a session. `stale` counts connections whose socket is dead and whose
handler has not ended, since the Room is reaped only after the last.

| action | code |
|---|---|
| `CommitStore`, `CommitRing`, `CommitSeq`, `CommitSend` | `Room::commit_ops_locked` |
| `PublishDropped` | the end of `write_ops`'s future between the store and the ring |
| `SnapshotDocs`, `SnapshotSeq`, `SnapshotFails` | `enter` and `world_snapshot` |
| `Connect` | `WsClient.open`; `handle_socket` up to the subscription |
| `Welcome` | the first frames of `egress_loop` |
| `IngressHello`, `IngressResync` | the ingress loop's `Hello` and `ResyncRequest` |
| `EgressResync`, `EgressLagged`, `EgressEvent`, `EgressGap` | the arms of the egress `select!` that deliver events; `EgressGap` is the branch of `rx.recv` for an event beyond the watermark, which a dropped publish causes |
| `ClientWelcome`, `ClientEvent`, `ClientResyncEnd` | `WsClient.handleFrame`, `applyEvent` |
| `Disconnect`, `Leave`, `HandlerEnds`, `Restart` | a socket's death, `leave`, `reap_if_empty`, the process |

Simplified: the floor is established and `current_seq` read in one step; frames of
a socket the client has given up are not delivered; the capacity of `erx` (64) is
not reached; one arm of the `select!` runs at a time, to its end; ingress reads
nothing before the Welcome is sent. What a replay costs a session (`PassedBy`) is the first event it lacks and the replay
left out, because it was clamped away, overtaken or not in the ring, and all after it up to the replay's end: the
client applies nothing across a gap and takes `resync_end` at its word. No property
speaks of the documents of `world_snapshot`; that it reads them before the seq is two steps here and section 6's.

### OptimisticIntents

One session's intents are numbered as dispatched; the log records for each command
its author and the intent it answers, if any, so that "the echo confirms the right
prediction" can be stated although the code cannot see it. `pending`,
`offlineQueue` and `nextExpected` are the code's. A dead socket's frames may
still be read by its ingress task (`Ingress(t, g)`) or be lost (`FramesLost`).
Four things that misalign predictions are recorded, and the main invariant holds
as long as none has happened: `Lost` (an intent or its Reject went with a socket),
`Foreign` (the account committed a command that is no intent of this session: chat,
a move, another tab), `outOfOrder` and `overtaken`. Simplified: no lag, no floor,
replay reads the whole log, the session starts on an empty log, `leave` is absent.

### RoomRegistry

`pc[a]` is the await a joining socket or an HTTP write is at; each await of
`get_or_create` is a step. `registered` is the registry's entry, `holds[a]` the
`Arc<Room>` a caller has, `connections` the counter `reap_if_empty` reads.
`torn` becomes true when a Room leaves the registry while somebody holds it
uncounted, or holds a read from which they are about to insert one. `unheard`
are commands whose handler was dropped between commit and broadcast: the log has
them and the Room does not. `GivesUp` is a failed query of `get_or_create`, whose `?` ends the join, or a dropped
handler at one: at the re-check the Room has been inserted, and nobody removes it. `abandoned` are the Rooms so left
when the world was already gone. Simplified: the get-or-create fast path and
`begin_delete` with its broadcast are one step each; the scene and document queries
are one read; a lagging receiver does not lose `Evicted` here; worlds are not
imported.

### UploadSessions

`phase`, `sent` and `attempt` are `startChunkedUpload`'s; `reqs` are the HTTP
requests it made, each with the point its handler is at, and whether its connection
is gone (`cut`). A chunk is its number, the staging file the sequence of chunks
appended, `Torn` a partial write. `open`, `received` and `busy` are the session's.
A handler whose connection is gone may run on or be dropped at the await it is at
(what hyper does when the connection is closed). Simplified: one upload; chunks
of equal size, so the overflow answer, which this client cannot provoke, is left
out, as are authentication and the limiter's window; `accept_chunk` and the lookup
of the staging path are one step; the sweeper's pass over the session is one step.

### ApplyIntent

`docs` is the documents table, and an action is a whole batch, since a batch is one
transaction: `Check` folds Phase 1 over the operations, with the maps the code keeps
(`folders`, `combats`, `moves`, scene owners, singletons); `Expand` turns deletes into
one per descendant; `Apply` is Phase 2; `replica` is a client's store after every
logged command; `undoes` records whether the command's inverse would have restored
the table. `FileAsset` files the one asset under a folder. A type is fixed per id,
grants are a set of documents the players own, schema validators are left out.
A tree is a function from ids to parents (`Up`), and what the code finds by walking it
(`check_move_acyclic`, `collect_descendants`) is read off `Chain`, the walk as a set. Phase 1
lays its maps over the stored tree; `apply_command`, which runs the inverse, applies
one operation before it checks the next and has no maps. The code refuses a chain of more than `MAX_MOVE_ANCESTRY`
parents; `ConstantsOK` has no world with as many documents, so that this refusal, which
would also stop an undo, plays no part.
`tangled` names what is unusual about the last batch: a document named `twice`, a
document `adopted` by a parent the batch deletes, one moved beneath a document the batch
creates, which is no folder (`housed`) or is one (`shelved`). A behaviour ends after a batch
that tangles, since its effects are what the conditional properties except.

### EgressFilter

`log` holds commands with the snapshot of rights `build_op_snapshot` takes at commit;
`Publish` applies one to the scene's cache of owners (`ecs`); `load_current_docs` and
`send_filtered_event` are the two moments the player's connection takes. A document
has an owner, an `open` grant, a parent and one field with a tier; the filter's four
arms are `FilterCreate`, `FilterDelete`, `FilterMove`, `FilterUpdate`. `left` records
the documents the filter loses track of: `reowned` (a token whose actor changes hands
and that is not written), `reused` (an id that is to be sent, created for a document
he may not read), `unread` (deleted unreadable before what came earlier was sent), `unhidden` (a field that becomes visible without
being written), `kept` (a field hidden by a change of owner), `mixed` (a token whose
rights in the filter are of two moments), `twice` (an id one command creates twice). The snapshot of an update or a
move is read after the whole batch, so it has no `created` of a document its own batch deletes (`Unwitnessed`), and the filter
then takes a later document with that id for the one written; `Unkept` names the values that lets through. What a
batch makes of the documents (`applied`) and of the scene (`hydrated`), what the filter makes of a
command and the client of that (`applyCommand`) are folds over operations. The GM, grants by role, capabilities, embedded
children and redaction failures are left out; each command is published and sent in the order of the log (`RoomSync` has the drops).

### CombatClock

`db` is the combat document with its order, history and members, `flight` the requests
being served: `ReadCombat` loads the combat's document, `BuildOps` its children and the
scene's other combats and runs the pure transition, `commit_combat` compares the
pre-images and applies. `Working`'s changes are carried as in the code and
coalesced at the same point. Whatever is committed between the two reads makes the
snapshot one of two moments (`torn`). Ordinary writes add, delete and move combatants and switch
the scene's other combat. Abstracted: an effect on a host is one resource per actor
that recovers at turn boundaries; a roll is one entry; messages and the byte bound of
the history are left out; the rules are those snapshotted at the start.

### GridMoves

A route is `find` with its legs (`astar_leg`: heap, stale entries, heuristics, parity of
alternating diagonals) cut by arrest and budget; a walk is `gate_walk` over the points
the client sends back, with the supercover of `line_traversal`, walls, the visibility
mask, regions and the budget. `world` is the scene and does not change; a player's
view leaves out what is secret. Points lie on a lattice of 8 units to the cell, on which every
comparison is exact; hexes, the continuous model and the Euclidean rule are left out.

### MoveCommits

`flight` is the holder of `publish_guard`: `execute_move` commits the position,
`spend_budget` the combat resource, `fire_region_triggers` the effects, `Finish`
registers the stream and lets the guard go. Each commit may fail alone, and `Crash`
comes between any two. `fire_placement_triggers` is a GM's drag. `LoadAdvance` and
`CommitAdvance` are `CombatClock`'s advance reduced to turn, round and the resource.
`ledger` is history: what the player walked this turn, what regions gave, what failed.
Conditions and notices, which are further members of the effects' batch, are left out.

### TemplateMerge

A document is a tree of three paths (its bands as one) and one collection of embedded
children; an instance has its `base`. `Begin` reads the first document of an intent,
`Load` the second one, makes the plans and knows what is to be committed, `Commit`
commits one instance, unless a band it writes has changed. A first call reports the
conflicts, a second one (`Decide`) brings those to decide for the template. `EditTemplate` and
`EditInstance` are ordinary writes. A conflict over a child is named by the child's position in the merged sequence
(`at`), and that is all `check_resolutions` compares; the child it is over (`of`) is history: a decision means the
child the reply listed there (`Meant`), and strays when the plan now has another (`Strayed`). `local` is history: the places the users of an
instance wrote since its base, as long as they differ from it; `torn`, `blind`: what
`ArrivesUnlessTorn` excepts. Left out: nested children, property overrides, packs and other
worlds, deleted documents, duplicate sources; arrays are opaque values; the listing
after a failed commit is read at one moment.

### AudioTransport

`audio` is the audio-state document; `asked` holds what a connection has stamped with the
time and is waiting to apply under the guard, so that stamps and commits need not come in
one order. `tab` is what a session plays, from the state it last saw, and which ends its
elements have reported; `Skew` is how early an element may end, since `sync` nudges its
rate by 2 % to catch up and only a change of some document calls `sync` again.

| action | code |
|---|---|
| `Play`, `Pause`, `Resume`, `Seek`, `Stop`, `StopAll`, `NextPrev` | the arms of `state::apply`, under `commit_audio_transport` |
| `TrackEnded` | the gate of `handle_transport_locked`, and the advance behind it |
| `SetActive` | a write of the active scene; if it is an Update of exactly `/engine/activeScene`, the hook of `Room::publish` and `on_active_scene` behind it |
| `EditAmbience`, `EditList` | writes of scenes and playlists, which the transport reads |
| `Ask` | a GM's frame, stamped; a player's is refused unless it is an end report |
| `applyState`, `onended` | the client's engine and `TrackPlayer` |

`history` is what the properties need to remember of an entry: the scene whose ambience
started it, how long it has sounded, and the tracks of its walk. Simplified: gains, fades
and channels' volumes are left out, as is `SetGain`; a session sees the newest state,
not each one in between; a report that is lost falls at once; the seeds are a few numbers
and `Stream[seed][k]` is the `k`-th number splitmix32 draws from a seed.

## 3. Runs

| run | instance | shows |
|---|---|---|
| `RoomSync_one` | 1 session, 3 commits, any of them dropped, ring 2, broadcast 1, 2 sockets, 1 restart, fair tasks | what the ring lacks, watermarks, what is applied and what is lost; implements `EventStream`; a session whose socket stays up ends at the newest event announced |
| `Optimistic_safe` | 1 session, 3 intents, 2 sockets, 1 other command | predictions, at most one commit, settling |
| `Registry_safe` | 2 sockets (one an admin's), 1 HTTP write, 1 deletion, 2 commits, 3 Rooms, dropped handlers, failing queries | one Room, up to date; no Room of a deleted world but one whose re-check failed |
| `Upload_safe` | 2 chunks, 2 attempts, dropped handlers, 1 restart | whole assets, one refund, clean ends, every session ends |
| `Intent_batches` | batches of up to 3, over 2 combats on 2 scenes; 3 documents in any tree; 2 folders and an asset; a combat with a combatant; 2 singletons; by a GM and by a player | scenes, the parent forest, what the log tells and undoes, whose documents a delete takes |
| `Egress_mirror` | 3 commands, alone or in pairs (a write and a delete of one document among them), on a token and its actor, or on a note, stored at first or not | the player ends with what a fresh connection gets; no value reaches him that no commit showed, but `Unkept` ones |
| `Combat_safe` | 4 requests, 2 in flight, 1 ordinary write, 2 rounds; an actor and an event, an actor, an event and the scene's other combat, two actors, or a hidden combatant nobody acts for while an actor is elsewhere | cursor, one end per turn, settling, restoring |
| `Grid_moves` | 3 x 3 cells, 2 walks; pairs of overlapping regions under 3 rules with and without a budget; walls, masks and footprints; secrets | route optimality, preview and walk agree, walks stay in what is seen |
| `Move_commits` | corridors of 4 cells, resource 3, 4 moves, 3 turns, 1 failure or crash; loops of portals, traps, portals within the scene; hard and soft | the budget holds, one hop |
| `Merge_pulls` | 3 edits, 2 calls by a GM and a player at once; nested fields; children; children both sides have edited; a hidden field; a placed one; two instances | what the template changed arrives, what an instance's users changed stands |
| `Audio_transport` | a GM and a listener, 2 operations after silence or a track that plays, clock to 3, a skew of 1, a shuffle of 3 tracks, a sequence of 2, one of them of unknown length, 2 scenes, 1 failure or lost report | nothing is cut short; an ambience leaves with its scene, if the swap is asked for; a shuffle repeats nothing; a reported end advances |
| `Merge_chain` | an instance of a template that was stamped itself, 3 edits, 3 calls | violation, section 6 |

**Why the bounds are enough to be interesting.** A receiver of capacity 1 lags on
the second unread event, so with 3 commits lag, replay from the log, replay
from the ring and a partly resident ring all occur. Two sockets are one reconnect;
everything a further one does starts from a state the first can leave. The
theorems of section 5 lift the `RoomSync` invariants and the refinement to every
number of sessions, accounts, commits, sockets and restarts and every capacity; a second session
matters through the shared floor only. Three intents are the least with an older,
a settled and a younger one. With two sockets, a writer and three Rooms, each await
of `get_or_create` can be overtaken by another join, a reap and a write. Two chunks
make "the wrong offset" different from "the wrong count". The upload client makes 3
attempts in the code and 2 in the model: with 2, a late handler of the first already
meets the second and the abort. Three operations are the least in which one batch can
free, claim and swap scenes, or move, create and delete around one folder; the table
the next batch starts from is any that batches can make. Three commands let a document
be closed, written and deleted between a commit and its delivery, or one that
was never stored be created, closed and deleted before the first of it is filtered. In `Combat_safe` two
requests in flight overlap at every step, and with two actors and no event a full round
can pass between the two reads of a snapshot, so that its turn is again the stored one; somebody who acts can come
into an order of those who do not while an advance over them is in flight; a resource of 1 is the least that distinguishes
recovered, spent and clamped, and a history of 2 evicts and redoes. A 3 x 3 grid has
walks with a diagonal and a turn, and a region to go around. Two hops need two portals.
A pause between a track's start and its end, and a session that does not know of it yet, need
two operations and three ticks; so do two scenes with an advance between them. Two calls
at once are a pull overtaken by a push, or a call overtaken by itself with
decisions; three edits put one before, between and after. A decision can stray only to a child that is in
conflict too, which takes four edits before the first call: one world starts with them.

`CHECK_DEADLOCK FALSE` in every configuration: the bounds on commits, sockets,
restarts, requests and edits make every model stop, and an upload or a deletion that is
over has nothing left to do.

## 4. Fairness

Only what a runtime owes is assumed, always weak.

* `RoomSync`, `OptimisticIntents`: in `RoomSync` a publish that has the ring's lock goes on (it awaits
  nothing more); one that has stored its command and waits for the ring owes nothing, and may end there. The ingress and egress
  tasks of a live connection, and the client's message loop, run when they have
  something to take (tokio and the browser's event loop); a running session
  reconnects (`WsClient` backs off for a bounded time and never gives up). Commits,
  disconnects, restarts, snapshots and `leave` are not fair. A reconnect in the
  models is bounded by `MaxOpens`, so liveness is stated for a session whose socket
  stays up.
* `UploadSessions`: a handler that is not dropped goes on, and time passes, so an
  idle session is swept. The client is not fair: the tab may be closed. Neither
  are `Lost` and `Drop`.
* The other modules state safety and action properties only and assume none. That an
  advance comes to an end is `TurnSettlesUnlessReordered`, an action property: the walk over
  turns is one step.

## 5. What is proved

### RoomSync

The theorems rest on `ConstantsOK` only (the map from
sessions to accounts, capacities of at least one, bounds that are naturals). They
hold for any number of sessions and accounts.

| theorem | states |
|---|---|
| `TypeCorrect` | `[]TypeOK` |
| `RingCorrect` | `[]RingLacksOnlyDropped` |
| `NoGapCorrect` | `[]EgressGapOnlyDropped` |
| `NothingInventedCorrect` | `[]NothingInvented` |
| `InOrderCorrect` | `[]AppliedInOrder` |
| `GaplessCorrect` | `[]GaplessUnlessLost` |
| `StreamCorrect` | `ImplementsStream`: `RoomSync` implements `EventStream` |

The argument has four layers.

1. `RoomInv` adds to types and ring what each step of a commit
   has done (`current_seq` is behind `events` by dropped publishes and the one under way only) and that the watermark of a
   live connection is positive. The ring is not
   inductive without the steps, because a push must know which event it is, and what lies between it and the
   last one. Lemmas about `PushRing`, `RangeFrom` and `ResyncRange` say what the ring operators return and what they leave out.
2. The watermarks: `LinkInv` says that a receiver holds the newest events sent and
   that, unless it has lagged, what its connection's watermark lacks of them is dropped, and it bounds every watermark,
   floor and frame in flight by the log. `EgressGapOnlyDropped` and
   `NothingInvented` follow.
3. `Reads(q, n, m, L)` replays the frames `q` at a client expecting `n` to which the events `L` are known to be lost: it ends at `m`, and
   is moved by no `resync_end` past an event outside `L` it has not applied. `Sound(c)` says that the frames in flight are honest in
   that sense and lead `c` at least to the watermark of its egress task, unless a catch-up is still to
   be served. One lemma per action group keeps it; `GaplessUnlessLost` is its consequence at the
   client. A replay that leaves something out adds all the client will be moved past to `lost` (`ReplayLands`), and what is on the wire
   behind it stays honest. `AppliedInOrder` needs less: everything applied is below `nextExpected`.
4. The refinement maps each step to one of `EventStream` or to none. A client's step
   that hands on an event is an `Apply`: `Behind` and `FromBase` (a watermark is past the
   one the session entered at) say the event is past all it has, the bound on frames in
   flight that the log holds it, and `GaplessUnlessLost` that only lost events
   come before it. A replay is a `Lose` or does not show (`LoseOrStay`); nor do all other steps.

### ApplyIntent

| theorem | states |
|---|---|
| `IntentInvariant` | `[]IInv` |
| `IntentTyped` | `[]TypeOK` |
| `OneActiveAlways` | `[]OneActiveUnlessTwice` |
| `ForestAlways` | `[]ForestUnlessTangled` |
| `LogTellsAllAlways` | `[]LogTellsAllUnlessAdopted` |
| `UndoesAlways` | `[]UndoesUnlessTangled` |
| `OnlyOwnDeletedAlways` | `OnlyOwnDeleted` |
| `AssetHopsAlways` | `AssetHopsToSurvivor` |

They rest on `ConstantsOK` (a world's ids are finitely many, the bodies of a document have the same
fields, and a patch of one by another is one of them) and hold for any documents, types
and bodies, and for batches of any length. A batch is one action, so the induction over
behaviours says little: `IInv` is the four invariants, types, and `Placed`, that every document
is beneath one of a kind that may have it. Without `Placed` the inverse of a move, which
puts a document back, might be refused. The work is inside the action, in inductions
over sets of naturals (`NatInd`), which take the place of a theorem with an operator as its parameter.

1. Chains. `WalkCloses`: a walk as long as the tree is large has met all it can (a pigeonhole). So
   `ChainFacts`: a chain is the least set that goes up with its members, and no proof after
   it mentions walks. `ChainAgree`: trees that agree along a chain share it. `ChainOrder`: of two
   documents on a chain that ends, one is above the other. `ListExists`: what is beneath a document can be
   listed children first, so that the `CHOOSE` of `descendants_first` means something.
2. A batch that commits is a run. `FlattenFacts` numbers the expanded operations, `Run` has the table
   and the asset's folder after each, `Intents` gives both with the maps of Phase 1 (`Passed`). Everything after reads the
   run: where a parent and a body come from, and that a document not named is as it was, or gone beneath one deleted.
3. `ReplayFollows`: when an expanded delete is applied nothing is left beneath its document (`CleanDelete`), for what was there
   came earlier in the list, and nothing was put there since unless `adopted`. So the cascade has nothing to do, and the client's
   operation does what the table's does.
4. `OneActiveStays`: the simulated owner of a scene (`HeldBy`, `Kept`) is, once a claim has passed, the claimant until the end of
   the batch, and a stored owner not named is nobody's prey. This needs the freed scenes of the pre-scan to be left by the very update that is applied later: true unless `twice`.
5. `Forests`: the tree `check_move_acyclic` walks is not the stored tree of the moment the move is applied.
   They agree on the documents stored before and on the folders created (so not if `housed`); a cycle would lie
   within these.
6. `RevertStep`: the inverse runs over the tables of the batch backwards (`Reverts`). Each step must be accepted, which takes `Placed` and
   the forest, and must lead to the table before: a deleted document comes back as it was logged; a created one is deleted with nothing beneath
   it, else the batch had put something there or it had been there before.
7. `AssetHops` follows the asset up one stored folder at a time; `OnlyOwnDeleted` needs that all beneath was checked in the table before the
   batch, so that what a batch creates or moves beneath is the author's to begin with.

### MoveCommits

| theorem | states |
|---|---|
| `MoveTyped` | `[]MoveTypeOK` |
| `BudgetKeptAlways` | `[]BudgetKept` |
| `HopsOnceAlways` | `[]HopsOnce` |

They rest on `MoveAssumption` (a corridor has a cell, bounds are naturals, and a portal
to a scene of this world ends on a cell of it) and `DeltaAssumption` (what a set of
resource regions adds up to is an integer: the sum is a fold, and what a fold
computes cannot be proved here; TLC evaluates it for every set of regions of the run).

`BudgetKept` speaks of the moments between two walks and is not inductive: while a
walk is committed and its cost is not, `BudgetInv` says that what was walked and what
will be left (`Owed`) are within the account, and that the resource still is what the budget was resolved
from. `StepsFacts` supplies that a held walk is no longer than that budget, from the
minimum of a set of naturals (`MinOfSet`); `ResourcedIn` that what regions give stays within
the maximum; an advance that gives the turn back opens a new account within a full
resource. `HopInv` says that a flight that may still hop has not.

### OptimisticIntents

| theorem | states |
|---|---|
| `IntentTyped` | `[]TypeOK` |
| `CommittedOnceAlways` | `[]CommittedAtMostOnce` |
| `PendingUnansweredAlways` | `[]PendingIsUnanswered` |

They rest on `ConstantsOK` (the account is one of the accounts, `NoIntent` is no intent,
bounds are naturals) and hold for any number of sessions, sockets, intents and other
commands. The proof has three layers.

1. Types need numbers: `resync_end` carries a seq the client adds one to, and a
   request asks for an event the log may not have. `WireInv` bounds all of them by the
   log, and `ReplayInv` says that a `resync_end` comes right after the events it answers
   for; so it never moves `nextExpected`, which is why predictions cannot be skipped.
2. `CommittedAtMostOnce` is about the log and its cause is on the wire. `FramesInv`: an
   intent is on its way once, on one socket, and no longer in the offline
   queue. `AnswersInv`: what is unread, what is committed and what is refused are
   apart. `Effects` is the lemma that carries the argument: in any step what becomes unread is
   new, and what becomes committed or refused, never both, was unread and no longer is.
3. `PendingIsUnanswered` needs the order of both streams. `OrderInv`: commits are in the order of dispatch
   and the unread are younger, until `outOfOrder`. `OvertakeInv`: no echo
   travels with the refusal of an older intent behind it, until `overtaken`; this is where
   the bias of the egress `select!` is used. Then, when an event of the account arrives, a prediction older than
   the intent it echoes would have to be unread, committed earlier,
   or refused, and none is possible (`PendingEvent`). What has come apart
   stays apart (`AlignedBefore`), so the condition of the property is no loophole a later step closes.

### RoomRegistry

| theorem | states |
|---|---|
| `RegistryTyped` | `[]TypeOK` |
| `OneRoomAlways` | `[]OneRoomUnlessTorn` |
| `UpToDateAlways` | `[]UpToDateUnlessTorn` |
| `NoGhostWhileApart` | `[]NoGhostUnlessAbandoned`, of behaviours whose steps all satisfy `FinishesAlone` |
| `NoGhostOfOneDeletion` | `[]NoGhostUnlessAbandoned`, with one deletion at most |

They rest on `ConstantsOK`: sockets and writers are apart, and there are
finitely many sockets, since a Room counts them. `RoomsInv` says that a Room's count is the number of
sockets counted in it, and that a publishing guard has one holder: the type of
`connections` is not inductive without, because a disconnect subtracts. `UntornInv` holds until `torn`:
whoever uses a Room uses the registered one; what a builder has read is fresh as long
as nothing is registered; the Room knows all but what it is publishing. `NoGhostUnlessAbandoned` follows from `GhostInv`:
while a deletion has begun the tombstone is up, and an entry means that the
re-check of somebody who holds that very Room is still ahead, which finds it or is given up. A join that gives up while a
deletion has begun and not committed does no harm: it was past the tombstone before that went up, and the Room it holds is out. The tombstone is one for all
deletions. `FinishesAlone` says that none ends while another has begun and has not yet committed;
without it there is a ghost: of two deletions begun, one fails and takes the tombstone down, a
socket joins and passes its re-check, and the other commits. `Registry_safe` has one deletion.

### UploadSessions

| theorem | states |
|---|---|
| `UploadTyped` | `[]TypeOK` |
| `AssetWholeAlways` | `[]AssetWhole` |
| `RefundedOnceAlways` | `[]RefundedOnce` |
| `NothingLeftAlways` | `[]NothingLeftBehind` |

They rest on `ConstantsOK` (a file has a chunk, a request is tried once) and hold for files of any
number of chunks and any number of retries and restarts. None of the three is
inductive, because an HTTP handler whose connection is gone may run on beside its
retry. `UploadInv` says what such handlers can do: the session is taken once
(`OneTaker`); while it is open the staging file holds the chunks received, in order,
and at most one handler is about to append (`StagedInv`, of which `busy` is the guard); once some handler has seen
all chunks received, that is so for good, and so the stale copy of the session `complete` goes by does no
harm (`ReadyInv`); and what the taker finds at each of its stages is fixed
(`OwnerInv`). `LeftInv` is the part about cleaning up.

### CombatClock

| theorem | states |
|---|---|
| `ClockInductive` | `[]ClockInv` |
| `CursorAlways` | `[]CursorAtClockUnlessTorn` |
| `NoTurnSkippedAlways` | `NoTurnSkippedUnlessTorn` |
| `UnracedAlways` | `[]UnracedCommits` |
| `RestoresAlways` | `RestoresUnlessRaced` |
| `TurnSettlesAlways` | `TurnSettlesUnlessReordered` |

They rest on `ClockConstants` (a history keeps a record at least, initiatives are integers, there are
finitely many combatants, a world's order is a sequence of them without repetition, which
`CombatEngine::validate` sees to) and hold for any number of
combatants and requests. A transition is a composition of folds over the documents. Most lemmas say what it
keeps; only of a restore and of the end of a walk do they say what it computes.

1. `WorkOK(snap, w, n)`: the first change of a field carries the snapshot's value, a field without a
   change is as in the snapshot. `SetEngine` shows it of one change, and one lemma each of the folds
   (`Everyone`, `settle_turn`, `restore`, `coalesce_updates`, `Applied`), whose intermediate
   values are made a sequence by induction over a set of naturals (`NatInd`). `Settled`: the position stays
   in the order although events leave it, and the last thing a walk does to the clock is to record it (`Recorded`).
2. `Outcome`: what each of the eight kinds of request hands to the room. It leaves the clock alone (`Steady`),
   or writes round, turn and history and stands at the boundary it recorded, or is an advance that did not
   wrap and writes turn and history only.
3. `Committed` is the heart. The room compares values, and only of fields that are written; between snapshot and commit
   anything may have happened. Where the round is written it was compared. Where it is not, the history was, and a
   history that is the snapshot's gives the round back, since in both the cursor's record is of the clock. That
   is why `CursorAtClock` and `NoTurnSkipped` need each other, and why a snapshot of two moments escapes both.
4. `ClockInv` adds what makes a comparison of the history mean anything: a combat that runs or has a turn has a record (`Counted`),
   because the first history is created and compared with nothing.
5. `RestoresAlways` follows a restore to the stored documents. `Brings`: of every captured combatant it writes
   the record's value, or finds it there, or creates it; no one twice, since the
   sequence made of a set lists each member once. `Restoring`, an invariant beside `ClockInv`: the members are as they were when a
   request was computed until another commit marks it as raced. `Stood` puts the two together: what is
   stored after the commit equals the record, whose members a later change of the history leaves alone.
6. `TurnSettlesAlways` is about the budget of a walk: the length of the order, and one more for every event that
   leaves it. `Passed(o, i, q)`: nobody acts in the last q positions before i, going round. `SteppedOn` is one
   step: a turn that is passed adds one to q, an event that goes takes its place along and leaves q (`PassedOut`), so
   q is always what of the budget is spent; when all is, q is a full pass, and nobody in the order acts (`PassedAll`).
   Counting a pass needs that nobody is in the order twice (`Once`), and that the order with one taken out is
   the rest moved up (`KeptClosed`). `Settling`, an invariant beside `ClockInv`, carries
   the end of the walk with a request until it commits, and says that a walk that took nobody
   out of the order left it as the snapshot had it.

`UnracedCommits` needs that what nobody overtook still fits: `Unraced`, from the same facts about changes.
Without `torn` both properties are false, which the attempt to prove them brought to light (section 6).

### EgressFilter

| theorem | states |
|---|---|
| `EgressInductive` | `[]EgressInv` |
| `OnlyShownAlways` | `[]OnlyShownUnlessReowned` |
| `MirrorInductive` | `[]MirrorInv` |
| `MirrorAlways` | `[]MirrorUnlessLeft` |

They rest on `EgressConstants` (what is stored has its fields and is older than every
command; an update names fields a document has) and hold for any number of documents, batches of any length and any
number of commits. `OnlyShownUnlessReowned` speaks of what has arrived; the filter decides by three things it
has not read at one moment, and the invariant says of each what it may still let out.

1. The scene (`SceneFollows`) is level with the documents or one command behind, and always level in the eyes
   of a token that is not excused; so rights computed from the scene's owners are rights of the documents.
2. A document loaded, or carried by a Create in the log, whose rights of *now* would show its value, has been
   shown with that value (`LoadedShown`, `CreatesShown`). What makes this last is that a commit that opens a document shows it,
   and puts what it leaves visible in `shown`.
3. A value an Update in the log writes, visible by the rights of *its commit*, has been shown (`UpdatesShown`),
   unless the same command went on to delete the document. Then the snapshot has no `created`, and nothing is
   stored or loaded under the id unless that was used again (`UsedAgain`): the value is `Unkept`. An Update
   whose document was there after its batch has a `created`, and is dropped where another is loaded. So the proof
   needs both tests of `hidden`, and that of `created_seq` wherever there is one.

The folds are unrolled (`AppliedUnrolled`, `HydratedUnrolled`, `CommandUnrolled`, `FilterUnrolled`), `AppliedFacts` says what a batch may make of
a document, and one lemma per arm what it lets through (`WholeFit`, `UpdateFit`, `FilterFit`). The proof
found `twice`: `apply_intent` asks of a Create that no document is stored under its id, and not that the batch has
no other, so that a batch of two creates stores the second over the first; the filter sends both,
and the first may be visible and never stored.

`MirrorUnlessLeft` speaks of the end of a series of commands, each filtered by documents of a later
moment than its commit. Its invariant cannot be about the variables alone, since the state between two
commits is no longer stored when a command is filtered: `MirrorInv` says that there is a history `T`, where
`T[k]` is the documents after `k` commands.

1. `History` ties `T` to the variables: each logged command, with its rights, leads from `T[k - 1]` to `T[k]`, the
   stored documents are the last of them, the scene's owners are those of `T[published]`, and what is loaded
   is a `T[m]` not older than the command to be filtered. `Recorded`: each loss that a command not sent yet
   causes is in `left`. A commit appends a table (`MirrorCommit`), a publication or a load picks one.
2. `Presence`: the player has a document if and only if *some* table between the last command sent and now
   lets him read it. This is as much as can be said in between: a whole document is sent as of `T[m]`, ahead of the
   commands before `m`. `Faithful`, for a document he may read in all those tables: its parent is right if no move of
   it is on its way; its value is right if he may see it in all of them and no update of it is on its way; and it
   is `Null` if he may see it in none.
3. One operation at a time: `Logged` and the `Out...` lemmas say what `filter_op` makes of a create, delete, move,
   update and of a turn of READ, in terms of `T[k - 1]`, `T[k]` and `T[m]`; the client's side is `OneStep` and its
   induction along the command.
4. Sending a command moves the window of `Presence` by one. If he could read the document after the command and could
   not before, or the reverse, a create or a delete is sent: as its `FilterCreate`, `FilterDelete`, or by the last update's
   `Transition`. If nothing is sent, either table of the pair will do. A whole document or a delete that is
   sent settles what is on record of that document, so those reasons may go from `left`. `Sure` is when what is sent follows
   the tables: not so where a command deletes what it updates or moves and the id is loaded again, since no test of `created` stops it then. But then the
   document was gone somewhere within the window, so that either will do, or `reused` is on record.
5. A field ends as the last operation to write it says (`Writes`, `Ends`), and all that come after agree: a whole document
   carries the field of `T[m]`, which is that of now if nothing on its way changes it.

The attempt found that the excuses of the model were too narrow, a gap that a world with
its documents stored at first does not show: `unread` and `reused` asked whether the player had the
document, where it is enough that a command on its way holds it. `Egress_mirror` has an empty world since.

### AudioTransport

| theorem | states |
|---|---|
| `AudioInductive` | `[]AudioInv` |
| `NothingCutAlways` | `NothingCut` |
| `EndAdvancesAlways` | `[]EndAdvancesUnlessMissed` |
| `RepeatsNothingAlways` | `[]RepeatsNothingUnlessReseeded` |
| `AmbienceLeavesAlways` | `[]AmbienceLeavesUnlessSpoiled` |

They rest on `AudioAssumption`: a known length is an integer greater than `Skew`, the seeds are `0..n-1` and draw
naturals, enough of them for every playlist, and what is stored or asked for names playlists and scenes that
were there at the start (a deleted one included). They hold for any number of sessions, scenes, playlists, tracks and
operations, and for any numbers drawn.

1. The folds are unrolled: `RetainFacts` (what `retain` leaves, each id once) and `PermutationFacts` (a swap keeps
   a permutation whatever the generator draws, so `seeded_permutation` is one).
2. `Follows` says that a walk goes along one cycle of the order; its first step may be a track that an edit has
   taken away. `WalkGoesOn` extends it by `ShuffledTrack`, and `WalkInjective` says that a walk no longer than the list
   has no track twice. It is not enough that a walk has none twice so far: that is not inductive.
3. `Told` ties an entry to its history: it has sounded at least for `Elapsed`, and its walk ends at its index.
   `Changed`, `Taken`, `Appended` and `Replaced` say what the four ways to change the document do to it,
   `Renews` that ids are only minted, `Scened` that
   what an ambience started is of the active scene's playlist, unless something was spoiled.
   With these `NothingCut` follows from the gate of `TrackEnded` alone.
4. `EndAdvancesUnlessMissed` also needs `TabOK`: a session knows no id that is still to be minted. Otherwise an
   end reported long ago could be taken for one of an entry to come.

### Only model-checked

Liveness (`Converges`, `Settles`, `SessionEndsUnlessOrphaned`), since `ENABLED` is not expanded by
this prover; all properties of `GridMoves` and `TemplateMerge`; and the
violation. `GridMoves` finds least costs by iterating, and `TemplateMerge` merges trees: what those
compute for every input would be induction over data, which is out of the prover's reach.

## 6. Where the code and its words part

`Merge_chain` is expected to end in a violation; `PROJECT.json` quotes the sentences of
the repository it contradicts. An instance keeps, as its base, the template's children
under the key the template's child came from; the merge looks the base up by the
template's child itself. Where a template was stamped from another, the two differ: after
the first pull no child of the instance has a base, so that one its user deleted
is "new in the template" and comes back, and one the user edited never receives an
update again.

The conditions of the conditional properties stand for more of the kind. Each names a
situation that is reachable in its run and in which the unconditional property fails:

* `lost` (`RoomSync`) grows in three ways. An event committed between a snapshot and the cold `hello` is below
  the floor that hello sets, so the first resync skips it; after a failed snapshot the
  resync from 1 is raised to the floor as well. A lag replay's `resync_end`
  passes a catch-up still queued. And a publish that `write_ops` drops after the store leaves a hole in the ring, of which `range_from`
  says "only when the whole requested range is still resident" (`ws/room.rs:474`): a replay from the hot
  tier serves past it, and no later one makes up for it, since the client's watermark has passed. Besides,
  `world_snapshot` reads documents, then
  the seq: a commit in between is in the seq and not in the documents.
* `Foreign` (`OptimisticIntents`): a command of the same account that answers no intent
  drops the oldest prediction before its effect is in base. `outOfOrder`: an intent
  dispatched between a reconnect and its resync's end is sent ahead of the offline
  queue. `overtaken`: a replay carries a later echo past a queued Reject.
* `torn` (`RoomRegistry`): a socket that has its Room and is not counted yet goes on in a
  Room that `reap_if_empty` unregisters, and misses `Evicted` if the world is deleted; or a
  joiner overtaken by a join, a commit and a reap inserts what it read before. With two
  `Deleters` `NoGhostUnlessAbandoned` fails: the tombstone is a set membership, and the first
  deletion to fail lifts it under the second (`FinishesAlone`, section 5). `abandoned`: a join that inserted its Room while the
  world was being deleted and whose re-check of the row (`ws/room.rs:3044`) fails or is dropped leaves the deleted world a Room,
  which an admin can still enter and which the last one out reaps; the comment above that line has a vanished row "always
  observed here". With dropped handlers a deletion may
  leave its tombstone behind (`DeleteDropped`).
* `Orphaned` (`UploadSessions`): a handler dropped while it holds a session busy keeps it
  from ever being swept. A completion whose tags fail after the row is inserted
  refunds its slot though the asset exists (`SetTags`, `Undo`).
* `twice` (`ApplyIntent`): a batch that moves an inactive combat to another's scene and
  activates it in a second update has both checked against the stored row, and the scene
  has two active combats; two moves of one document may close a cycle. `housed`: a move
  beneath a document the same batch creates escapes the cycle check, and an undo of
  [Create X, Move Y under X] deletes Y. `adopted`: [Create C under P, Delete P] leaves the
  deletion of C to the storage's cascade, which is not logged.
* `torn` (`CombatClock`): `load_snapshot` reads the combat's document and then its history
  (`combat/snapshot.rs:248` and `:259`). If others advance a full round in between, the turn
  is again what was read, an advance that does not wrap writes no round to compare, and
  the history it extends is the new one: it is accepted, ends a turn of the new round, and records a
  boundary of the old one, from which a later rewind takes the clock a round too far back. The comment of
  `commit_combat` (`ws/room.rs:1255`) has a racing write surface as a conflict "rather than a
  lost or corrupted update". With one actor in the order the turn's resource and the history
  hide it, so `Combat_safe` has two.
* `raced` (`CombatClock`): a transition writes what it changes and compares nothing else, so an
  advance computed before a pause moves a paused clock, and a rewind
  that was overtaken restores what is no longer so. A deleted combatant whose turn it
  is cannot be advanced past: `heal_order` drops it and `advance` then looks for it. A
  combatant moved away makes every restoring rewind conflict (`db.away`).
* `saw` (`CombatClock`): a walk that takes nobody out of the order does not write it, and so does not
  compare it. An order of combatants nobody acts for, an advance in flight, somebody who acts moved back
  into the combat and sorted or rolled in: the advance is accepted and stays at a turn that resolves
  by itself, though there is now somebody to stop at. The property without this condition held in every run until its
  proof asked for the order the walk had gone round; the fourth world of `Combat_safe` has the case.
* `AtCenter` (`GridMoves`): from off the middle of its cell a token's first step may be cut in
  two by the walk, which then prices and gates a cell the preview never saw. Parity of
  alternating diagonals starts anew with each request.
* `unpaid` (`MoveCommits`): a decrement that fails after the position is committed is
  logged and the move stands.
* `reowned`, `reused`, `unread`, `unhidden`, `kept`, `mixed`, `twice` (`EgressFilter`, above): a note closed
  to a player and deleted before his connection gets to either command stays with him,
  since the Update arm drops updates of documents that no longer exist before it looks at
  the READ transition; so does a note that is created open, closed and deleted (or deleted and created
  closed) before his connection gets to the first of it: the Create is sent by the rights of its commit. `Unkept`: the comment of `created_seq_at_commit`
  (`data/snapshot.rs:73`) has an op whose id was "deleted and recreated since commit" dropped, but `build_op_snapshot` reads that seq
  (`data/sqlite/documents.rs:220`, `:249`) after the whole batch: of a document its own batch deletes there is none, and the test
  (`data/permission.rs:1788`) is skipped. [Update N, Delete N] filtered after another N was created is delivered on it. A batch that creates one id twice (`data/sqlite.rs:1793` calls Create "non-clobbering")
  has the second stored over the first (`data/sqlite/documents.rs:595`), and both are sent.
* `missed` (`AudioTransport`): a report that comes before the end by the server's clock is
  dropped without an answer, and the element, which has ended, reports no more until some document
  changes. The comments of `engine.ts:394` and `track-player.ts:57` and the design
  (`docs/superpowers/specs/2026-09-11-m23-audio-design.md:253`) speak of a tick each second that corrects the drift; the code has
  none (`worldSession.svelte.ts:1434`). A track whose length is unknown, or whose playlist is
  gone, never advances. A reseed starts every shuffled playlist's walk anew. `spoiled`: a swap that
  fails is not tried again (nor is one whose handler is dropped after the commit), and an ambience edited while it plays is not recognised when
  its scene is left. Nor is there a swap at all when a GM writes all of `/engine` of the world settings, or deletes them and
  creates them anew: the hook (`ws/room.rs:1137`) looks for the path `/engine/activeScene` alone, though beside it a
  "wholesale `/engine` write is seen on its post-image" (`ws/room.rs:1103`). The old scene's ambience plays on. An ambience that has advanced plays on its playlist's channel, at its track's gain.
* `torn` (`TemplateMerge`): `/base` is written only when it changes, so two merges of one
  instance at a time may write different bands, and the base then claims what the fields
  do not have. `blind`: a merge by a player refreshes the base to the whole
  template, so a field hidden from him is not delivered by a later merge of the GM's
  either. A conflict that appears between the first and the second call is decided for
  the instance without being listed. `Strayed`: a decision is a path, and in a collection the path is a position in the merged sequence
  (`merge/embedded.rs:60`). If an instance's first child, in conflict, is deleted after the reply and the second one is in
  conflict too, a decision about the first is a current path, is not stale (`ws/conn/merge_intents.rs:264`), and writes the
  template's values over the second, about which nobody decided.

## 7. Not modelled, and why

Vision, lighting, hex grids and free movement are continuous; dice, tables and formulas
are pure evaluators with property tests of their own; rendering and the UI kit present what the modelled parts deliver; bundles transform an archive in
one transaction; audio meters are operating-system I/O; module order is computed once
at start. Sessions, invites and setup are single guarded statements in a database with
one writer. `PROJECT.json` lists every component, and every hazard with the properties
that would catch it, or the reason why none does. Known and not listed there, since no
module reaches them: the sandbox's fault streaks, counted and reset by concurrent
writes (`sandbox/mod.rs:330`); a link preview written to a message edited meanwhile
(`chat/post_publish.rs:331`); `Evicted` lost to a lagging receiver (`ws/conn.rs:2273`);
rights resolved once per connection (`ws/conn.rs:352`); the welcome watchdog of a
superseded socket (`ws-client.ts:627`); the backup's write barrier (`http/routes.rs:150`).

## 8. Plan

In this order; each item names the abstract statement it is for.

1. Non-sequenced frames (`Evicted`) over the broadcast channel of `RoomSync`.
2. Proofs for `GridMoves`, with the inductions over sets of naturals of `CommitProofs`.
3. `FaultStreaks`, `ChatEnrichment`, `BackupBarrier`, `Reconnects`
   (welcome watchdog, generations, debounced re-evaluation).
4. Hex shapes in `GridMoves` (axial cells are integers), nested children in
   `TemplateMerge`, grants by role and embedded children in `EgressFilter`.
5. An abstract log of commands for `ApplyIntent`, and `EventStream` over it.
