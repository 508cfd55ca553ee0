-------------------------- MODULE MCAudioTransport --------------------------
(***************************************************************************)
(* AudioTransport with a GM and a player, a shuffled ambience of three     *)
(* tracks, a sequential playlist, and two scenes.                          *)
(***************************************************************************)
EXTENDS AudioTransport

T(asset, loop) == [asset |-> asset, loop |-> loop]

Wood == [mode |-> "shuffle", channel |-> "music",
         tracks |-> <<T("short", FALSE), T("short", FALSE), T("short", FALSE)>>]
Inn == [mode |-> "sequential", channel |-> "music", tracks |-> <<T("song", FALSE), T("odd", FALSE)>>]

MCLists == [wood |-> Wood, inn |-> Inn]
MCEdits == [wood |-> {[Wood EXCEPT !.tracks = SubSeq(@, 1, 2)]}, inn |-> {Gone}]
MCScenes == {"forest", "tavern"}
MCAmbience == [forest |-> "wood", tavern |-> "inn"]
MCLength == [short |-> 2, song |-> 3, odd |-> 2]
MCStream == [s \in 0..2 |-> [k \in 1..2 |-> s + 4 - k]]
MCAsks ==
  [plays |-> {[is |-> "play", playlist |-> "wood", index |-> 0],
              [is |-> "play", playlist |-> "inn", index |-> 2],
              [is |-> "play", playlist |-> "none", index |-> 0, track |-> T("short", TRUE)]},
   positions |-> {1},
   ambiences |-> {<<"forest", "none">>, <<"tavern", "wood">>}]
=============================================================================
