--------------------------- MODULE AudioTransport ---------------------------
(***************************************************************************)
(* A world's audio (audio/transport.rs, audio/state.rs): the audio-state   *)
(* singleton says what plays since when, GMs steer it, every session plays *)
(* it for itself and reports the ends it hears, and a change of the active *)
(* scene swaps the ambience.  An operation is stamped when its frame is    *)
(* read and applied when publish_guard is free.  Gains, fades and what a   *)
(* session's mixer does are left out.                                      *)
(***************************************************************************)
EXTENDS Integers, Sequences, FiniteSets, SequencesExt, Functions

CONSTANTS
  Gms, Listeners,    \* sessions that steer, and those that play and report
  Lists,             \* the playlists at the start: [mode, channel, tracks]
  Edits,             \* what a GM may make of a playlist, Gone for a deletion
  Scenes, Ambience,  \* the playlist of each scene, or None
  Length, Probed,    \* an asset's length; the assets whose length is known
  Stream,            \* Stream[seed]: the splitmix32 numbers of a seed, in turn
  MaxPlaying,        \* MAX_PLAYING_TRACKS
  Skew,              \* how early a session may hear a track's end
  Asks,           \* bound: what a GM plays, the positions sought, the
                     \* ambiences given to scenes
  MaxOps, MaxClock, MaxFailures    \* bounds

VARIABLES
  audio,     \* the audio-state document, and the ids minted
  lists, ambience, active,    \* playlists, scenes, world settings
  asked,     \* asked[c]: the operation of c that was stamped and waits, or Idle
  tab,       \* tab[c]: what c plays and which ends it has heard
  clock, left,    \* left: what remains of the bounds
  history,   \* of what plays: whose ambience, how long it has sounded (or waited
             \* for the guard to do so), its walk
  missed,    \* reports that came early, were lost or could not be acted on
  spoiled    \* an ambience plays on: its swap failed or was not asked for, or the
             \* ambience was changed while it played

vars == <<audio, lists, ambience, active, asked, tab, clock, left, history, missed, spoiled>>
worlds == <<lists, ambience, active>>

None == "none"
Gone == [mode |-> "gone"]              \* a deleted playlist
Idle == [op |-> [is |-> "none"], now |-> 0]
Running == -1
Nowhere == 0
Seeds == DOMAIN Stream

(* A playlist has a mode and tracks, and a seed has numbers for them all;  *)
(* a frame plays a track or what there is of a playlist.                   *)
IsPlaylist(list) ==
  /\ list.mode \in {"single", "shuffle", "loop_all", "sequential"}
  /\ list.tracks \in Seq(Range(list.tracks))
  /\ \A s \in Seeds : 1..Len(list.tracks) - 1 \subseteq DOMAIN Stream[s]
IsPlay(op) ==
  op.is = "play" /\ op.index \in Nat /\ op.playlist \in DOMAIN Lists \cup {None}

ASSUME AudioAssumption ==
  /\ Probed \subseteq DOMAIN Length
  /\ \A a \in DOMAIN Length : Length[a] \in Int /\ Length[a] > Skew
  /\ Cardinality(Seeds) \in Nat \ {0} /\ Seeds = 0..Cardinality(Seeds) - 1
  /\ \A s \in Seeds : \A k \in DOMAIN Stream[s] : Stream[s][k] \in Nat
  /\ None \notin DOMAIN Lists
  /\ \A p \in DOMAIN Lists :
       IsPlaylist(Lists[p]) /\ \A list \in Edits[p] : list = Gone \/ IsPlaylist(list)
  /\ \A s \in Scenes : Ambience[s] \in DOMAIN Lists \cup {None}
  /\ \A edit \in Asks.ambiences : edit[1] \in Scenes /\ edit[2] \in DOMAIN Lists \cup {None}
  /\ DOMAIN Ambience = Scenes /\ None \notin Scenes
  /\ Asks.positions \subseteq Nat /\ \A op \in Asks.plays : IsPlay(op)

-----------------------------------------------------------------------------
(* Which track comes next (indices from 1; Nowhere for none)               *)

(* Fisher-Yates, from the last place down.                                 *)
swap(p, i, j) == [p EXCEPT ![i] = p[j], ![j] = p[i]]
seeded_permutation(n, seed) ==
  LET step(p, k) == swap(p, n + 1 - k, (Stream[seed][k] % (n + 1 - k)) + 1)
  IN FoldLeft(step, [i \in 1..n |-> i], [k \in 1..n - 1 |-> k])

Wrap(i, n) == ((i - 1) % n) + 1
Within(i, n) == IF i <= n THEN i ELSE n

(* Mutant: the rotation by seed that the walk replaced.                    *)
RotatedTrack(n, seed, i, forward) == Wrap(i + seed + 1, n)

ShuffledTrack(n, seed, i, forward) ==
  LET order == seeded_permutation(n, seed)
      at == IF i \in 1..n THEN CHOOSE k \in 1..n : order[k] = i ELSE 1
  IN order[Wrap(IF forward THEN at + 1 ELSE at - 1, n)]

StepTo(i, n, forward) == IF forward THEN i + 1 ELSE Wrap(i - 1, n)

resolve_track_index(list, seed, i, forward) ==
  LET n == Len(list.tracks)
      next == IF i = Nowhere THEN 1 ELSE StepTo(i, n, forward)
  IN IF n = 0 THEN Nowhere
     ELSE CASE list.mode = "single" -> IF i = Nowhere THEN 1 ELSE Within(i, n)
          [] list.mode = "shuffle" ->
               IF i = Nowhere THEN seeded_permutation(n, seed)[1] ELSE ShuffledTrack(n, seed, i, forward)
          [] list.mode = "loop_all" -> Wrap(next, n)
          [] list.mode = "sequential" -> IF next <= n THEN next ELSE Nowhere

advance_seed(seed) == (seed + 1) % Cardinality(Seeds)

-----------------------------------------------------------------------------
(* state::apply, and the history beside it                                 *)

Ids(playing) == {playing[k].id : k \in DOMAIN playing}
At(id) == CHOOSE k \in DOMAIN audio.playing : audio.playing[k].id = id
Track(id) == audio.playing[At(id)]
Plays(id) == id \in Ids(audio.playing)

(* Vec::retain: what is not among the ids gone.                            *)
retain(playing, gone) ==
  LET keep(out, e) == IF e.id \in gone THEN out ELSE Append(out, e)
  IN FoldLeft(keep, <<>>, playing)

Entry(id, playlist, i, track, channel, now) ==
  [id |-> id, playlist |-> playlist, index |-> i, asset |-> track.asset, loop |-> track.loop,
   channel |-> channel, started |-> now, paused |-> Running]

Fresh(from, now, walk) == [from |-> from, heard |-> clock - now, walk |-> walk]

Reseeds(op) == op.playlist # None /\ lists[op.playlist].mode = "shuffle" /\ op.index = Nowhere

CanPlay(a, op) ==
  /\ Len(a.playing) < MaxPlaying
  /\ op.playlist # None => lists[op.playlist] # Gone /\ lists[op.playlist].tracks # <<>>

(* A reseed starts everyone's walk anew: the seed is the world's.          *)
Played(a, op, channel, now) ==
  LET seed == IF Reseeds(op) THEN advance_seed(a.seed) ELSE a.seed
      list == lists[op.playlist]
      i == IF op.index # Nowhere THEN Within(op.index, Len(list.tracks))
           ELSE resolve_track_index(list, seed, Nowhere, TRUE)
      e == IF op.playlist = None THEN Entry(a.ids + 1, None, 1, op.track, "sfx", now)
           ELSE Entry(a.ids + 1, op.playlist, i, list.tracks[i],
                      IF channel = None THEN list.channel ELSE channel, now)
  IN [playing |-> Append(a.playing, e), seed |-> seed, ids |-> a.ids + 1]

(* Forward or back from an entry; where there is nothing, it stops.        *)
CanAdvance(id) ==
  Plays(id) /\ (Track(id).playlist # None => lists[Track(id).playlist] # Gone)

Advanced(id, forward, now) ==
  LET e == Track(id)
      list == lists[e.playlist]
      i == IF e.playlist = None THEN Nowhere
           ELSE resolve_track_index(list, audio.seed, e.index, forward)
  IN IF i = Nowhere THEN [audio EXCEPT !.playing = retain(@, {id})]
     ELSE [audio EXCEPT !.ids = @ + 1,
             !.playing[At(id)] = Entry(audio.ids + 1, e.playlist, i, list.tracks[i], list.channel, now)]

(* What follows an entry keeps its scene, and its walk if it went forward. *)
Followed(id, a, forward, now) ==
  LET i == a.playing[At(id)].index
      walk == history[id].walk
  IN Fresh(history[id].from, now,
           IF forward /\ Len(walk) < Len(lists[Track(id).playlist].tracks) THEN Append(walk, i) ELSE <<i>>)

Anew(h) == [id \in DOMAIN h |-> [h[id] EXCEPT !.walk = <<Last(@)>>]]

(* The history of what plays in a: what is not in h is new.                *)
Onward(h, a, new) == [id \in Ids(a.playing) |-> IF id \in DOMAIN h THEN h[id] ELSE new]
Begun(h, a, from, now) == Onward(h, a, Fresh(from, now, <<Last(a.playing).index>>))

-----------------------------------------------------------------------------
(* Operations (handle_transport_locked); each answers one that waits       *)

Waits(c, is) == asked[c].op.is = is
Op(c) == asked[c].op
Now(c) == asked[c].now
Answered(c) == asked' = [asked EXCEPT ![c] = Idle]
Still == UNCHANGED <<worlds, tab, clock, left, missed, spoiled>>

Sets(c, e, h) ==
  /\ audio' = [audio EXCEPT !.playing[At(Op(c).id)] = e]
  /\ history' = [history EXCEPT ![Op(c).id] = h]

Play(c) ==
  /\ Waits(c, "play") /\ Answered(c) /\ Still
  /\ IF CanPlay(audio, Op(c))
       THEN /\ audio' = Played(audio, Op(c), None, Now(c))
            /\ history' = Begun(IF Reseeds(Op(c)) THEN Anew(history) ELSE history,
                                audio', None, Now(c))
       ELSE UNCHANGED <<audio, history>>

Pause(c) ==
  /\ Waits(c, "pause") /\ Answered(c) /\ Still
  /\ IF Plays(Op(c).id) /\ Track(Op(c).id).paused = Running
       THEN Sets(c, [Track(Op(c).id) EXCEPT !.paused = Now(c)], history[Op(c).id])
       ELSE UNCHANGED <<audio, history>>

Resume(c) ==
  /\ Waits(c, "resume") /\ Answered(c) /\ Still
  /\ IF Plays(Op(c).id) /\ Track(Op(c).id).paused # Running
       THEN LET e == Track(Op(c).id)
            IN Sets(c, [e EXCEPT !.started = @ + Now(c) - e.paused, !.paused = Running],
                       [history[e.id] EXCEPT !.heard = @ + clock - Now(c)])
       ELSE UNCHANGED <<audio, history>>

Seek(c) ==
  /\ Waits(c, "seek") /\ Answered(c) /\ Still
  /\ IF Plays(Op(c).id)
       THEN LET e == Track(Op(c).id)
                runs == e.paused = Running
            IN Sets(c, [e EXCEPT !.started = Now(c) - Op(c).position,
                                 !.paused = IF runs THEN Running ELSE Now(c)],
                       [history[e.id] EXCEPT
                          !.heard = Op(c).position + (IF runs THEN clock - Now(c) ELSE 0)])
       ELSE UNCHANGED <<audio, history>>

Stop(c) ==
  /\ Waits(c, "stop") /\ Answered(c) /\ Still
  /\ audio' = [audio EXCEPT !.playing = retain(@, {Op(c).id})]
  /\ history' = Restrict(history, Ids(audio'.playing))

StopAll(c) ==
  /\ Waits(c, "stop_all") /\ Answered(c) /\ Still
  /\ audio' = [audio EXCEPT !.playing = <<>>]
  /\ history' = <<>>

Goes(id, forward, now) ==
  /\ audio' = Advanced(id, forward, now)
  /\ history' = Onward(history, audio', Followed(id, audio', forward, now))

NextPrev(c) ==
  /\ (Waits(c, "next") \/ Waits(c, "prev")) /\ Answered(c) /\ Still
  /\ IF CanAdvance(Op(c).id) THEN Goes(Op(c).id, Op(c).is = "next", Now(c))
     ELSE UNCHANGED <<audio, history>>

(* Elapsed time is pause-aware.  Mutants: it is not; the end is exclusive. *)
ElapsedSinceStart(e, now) == now - e.started
Elapsed(e, now) == (IF e.paused = Running THEN now ELSE e.paused) - e.started
OutPast(e, now) == Elapsed(e, now) > Length[e.asset]
Out(e, now) == Elapsed(e, now) >= Length[e.asset]

(* A report of what no longer plays, of an unknown length, or before the   *)
(* end is dropped without a word.                                          *)
TrackEnded(c) ==
  LET id == Op(c).id
      taken == CanAdvance(id) /\ Track(id).asset \in Probed /\ Out(Track(id), Now(c))
      early == /\ Plays(id)
               /\ \/ Track(id).asset \notin Probed \/ ~CanAdvance(id)
                  \/ Track(id).paused # Running
                  \/ Now(c) - Track(id).started < Length[Track(id).asset]
  IN /\ Waits(c, "track_ended") /\ Answered(c)
     /\ IF taken THEN Goes(id, TRUE, Now(c)) ELSE UNCHANGED <<audio, history>>
     /\ missed' = {m \in missed \cup (IF early THEN {<<c, id>>} ELSE {}) : m[2] \in Ids(audio'.playing)}
     /\ UNCHANGED <<worlds, tab, clock, left, spoiled>>

-----------------------------------------------------------------------------
(* on_active_scene: what the old scene's ambience started leaves, the new  *)
(* one's starts, in a second commit that may fail and is then forgotten.   *)
(* Only an Update of exactly /engine/activeScene asks for it: a write of   *)
(* all of /engine and a deletion of the settings, to be created anew,      *)
(* change the scene alone.                                                 *)
LeavesOnItsChannel(e, p) == e.playlist = p /\ e.channel = "ambience"
Leaves(e, p) == e.playlist = p

Swapped(new, now) ==
  LET gone == IF active = None THEN None ELSE ambience[active]
      come == IF new = None THEN None ELSE ambience[new]
      leave == {e.id : e \in {d \in Range(audio.playing) : gone # None /\ Leaves(d, gone)}}
      rest == [audio EXCEPT !.playing = retain(@, leave)]
      op == [is |-> "play", playlist |-> come, index |-> Nowhere]
      starts == /\ come # None
                /\ \A k \in DOMAIN rest.playing : rest.playing[k].playlist # come
                /\ CanPlay(rest, op)
  IN IF starts THEN Played(rest, op, "ambience", now) ELSE rest

Fail(is) == left[is] > 0 /\ left' = [left EXCEPT ![is] = @ - 1]

SetActive(c) ==
  /\ Waits(c, "active") /\ Answered(c)
  /\ active' = Op(c).scene
  /\ LET a == IF active' = active THEN audio ELSE Swapped(active', Now(c))
         h == IF a.seed # audio.seed THEN Anew(history) ELSE history
     IN \/ /\ Op(c).exact
           /\ audio' = a
           /\ history' = Begun(h, a, active', Now(c))
           /\ UNCHANGED <<left, spoiled>>
        \/ /\ Op(c).exact /\ a # audio /\ Fail("failures") /\ spoiled' = TRUE
           /\ UNCHANGED <<audio, history>>
        \/ /\ ~Op(c).exact
           /\ spoiled' = (spoiled \/ \E id \in DOMAIN history : history[id].from \notin {None, active'})
           /\ UNCHANGED <<audio, history, left>>
  /\ UNCHANGED <<lists, ambience, tab, clock, missed>>

(* Writes of the documents the transport only reads.                       *)
EditAmbience(s, p) ==
  /\ Fail("ops") /\ p # ambience[s]
  /\ ambience' = [ambience EXCEPT ![s] = p]
  /\ spoiled' = (spoiled \/ \E id \in DOMAIN history : history[id].from = s)
  /\ UNCHANGED <<audio, lists, active, asked, tab, clock, history, missed>>

EditList(p, list) ==
  /\ Fail("ops") /\ list # lists[p]
  /\ lists' = [lists EXCEPT ![p] = list]
  /\ history' = [id \in DOMAIN history |->
                   IF Track(id).playlist = p THEN [history[id] EXCEPT !.walk = <<Last(@)>>]
                   ELSE history[id]]
  /\ UNCHANGED <<audio, ambience, active, asked, tab, clock, missed, spoiled>>

-----------------------------------------------------------------------------
(* Sessions                                                                *)

Heard(e) == [id |-> e.id, asset |-> e.asset, loop |-> e.loop, started |-> e.started, paused |-> e.paused]
Shown == [k \in DOMAIN audio.playing |-> Heard(audio.playing[k])]

Operations ==
  LET ids == Ids(audio.playing)
  IN Asks.plays
       \cup [is : {"pause", "resume", "stop", "next", "prev"}, id : ids]
       \cup [is : {"seek"}, id : ids, position : Asks.positions]
       \cup [is : {"active"}, scene : Scenes \cup {None}, exact : BOOLEAN] \cup [is : {"stop_all"}]

(* A GM's frame is read and stamped.                                       *)
Ask(c) ==
  /\ asked[c] = Idle /\ Fail("ops")
  /\ \E op \in Operations : asked' = [asked EXCEPT ![c] = [op |-> op, now |-> clock]]
  /\ UNCHANGED <<audio, worlds, tab, clock, history, missed, spoiled>>

(* Any document's change syncs every player, and an ended one plays again. *)
applyState(c) ==
  /\ tab' = [tab EXCEPT ![c].view = Shown, ![c].ended = {}]
  /\ UNCHANGED <<audio, worlds, asked, clock, left, history, missed, spoiled>>

(* An element ends: early by its nudged rate, or any time later.  Its      *)
(* report is read and stamped, or falls to the rate limit or with the      *)
(* socket.                                                                 *)
onended(c) ==
  /\ asked[c] = Idle
  /\ \E k \in DOMAIN tab[c].view :
       LET e == tab[c].view[k]
       IN /\ ~e.loop /\ e.paused = Running /\ e.id \notin tab[c].ended
          /\ clock - e.started + Skew >= Length[e.asset]
          /\ tab' = [tab EXCEPT ![c].ended = @ \cup {e.id}]
          /\ \/ /\ asked' = [asked EXCEPT ![c] =
                                [op |-> [is |-> "track_ended", id |-> e.id], now |-> clock]]
                /\ UNCHANGED <<left, missed>>
             \/ /\ e.id \in Ids(audio.playing) /\ Fail("failures")
                /\ missed' = missed \cup {<<c, e.id>>} /\ UNCHANGED asked
  /\ UNCHANGED <<audio, worlds, clock, history, spoiled>>

Tick ==
  /\ clock < MaxClock /\ clock' = clock + 1
  /\ history' = [id \in DOMAIN history |->
                   IF Track(id).paused = Running THEN [history[id] EXCEPT !.heard = @ + 1]
                   ELSE history[id]]
  /\ UNCHANGED <<audio, worlds, asked, tab, left, missed, spoiled>>

-----------------------------------------------------------------------------
(* A world is opened with something playing already, or nothing.           *)
Silence == [playing |-> <<>>, seed |-> 0, ids |-> 0]

Init ==
  /\ lists = Lists /\ ambience = Ambience /\ active = None
  /\ audio \in {Silence} \cup {Played(Silence, op, None, 0) : op \in {o \in Asks.plays : CanPlay(Silence, o)}}
  /\ asked = [c \in Gms \cup Listeners |-> Idle]
  /\ tab = [c \in Listeners |-> [view |-> <<>>, ended |-> {}]]
  /\ clock = 0 /\ left = [ops |-> MaxOps, failures |-> MaxFailures]
  /\ history = Begun(<< >>, audio, None, 0) /\ missed = {} /\ spoiled = FALSE

Handle(c) ==
  \/ Play(c) \/ Pause(c) \/ Resume(c) \/ Seek(c) \/ Stop(c) \/ StopAll(c)
  \/ NextPrev(c) \/ TrackEnded(c) \/ SetActive(c)

Next ==
  \/ \E c \in Gms \cup Listeners : Handle(c)
  \/ \E c \in Gms : Ask(c)
  \/ \E c \in Listeners : applyState(c) \/ onended(c)
  \/ \E edit \in Asks.ambiences : EditAmbience(edit[1], edit[2])
  \/ \E p \in DOMAIN lists : \E list \in Edits[p] : EditList(p, list)
  \/ Tick

Spec == Init /\ [][Next]_vars

-----------------------------------------------------------------------------
(* Properties                                                              *)

(* A report never cuts a track short: what it advances has sounded to its  *)
(* end, but for what its operations waited for the guard, whatever was     *)
(* paused, sought and resumed and however old the report is.               *)
CutsBy(c) ==
  /\ Waits(c, "track_ended") /\ asked'[c] = Idle
  /\ Plays(Op(c).id) /\ Op(c).id \notin Ids(audio'.playing)

NothingCut ==
  [][\A c \in Listeners : CutsBy(c) =>
       history[Op(c).id].heard >= Length[Track(Op(c).id).asset]]_vars

(* What an ambience started, and what followed it, sounds in its scene     *)
(* alone, through every advance, skip and hand-started playlist, unless a  *)
(* swap failed, the scene was changed over it by a write the hook does not *)
(* see, or the ambience was edited while it played.                        *)
AmbienceLeavesUnlessSpoiled ==
  \A id \in DOMAIN history : history[id].from \in {None, active} \/ spoiled

(* Going forward through a shuffled playlist nothing is heard twice before *)
(* all of it was, unless the world was reseeded or the list edited.        *)
RepeatsNothingUnlessReseeded ==
  \A e \in Range(audio.playing) :
    e.playlist # None /\ lists[e.playlist].mode = "shuffle" => IsInjective(history[e.id].walk)

(* A session that has reported an end waits for nothing: the track it      *)
(* heard is gone, unless its report came early, was lost or could not be   *)
(* acted on, for nothing but a change of some document sends it again.     *)
EndAdvancesUnlessMissed ==
  \A c \in Listeners : \A id \in tab[c].ended :
    Plays(id) => (Waits(c, "track_ended") /\ Op(c).id = id) \/ <<c, id>> \in missed
=============================================================================
