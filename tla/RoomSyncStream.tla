--------------------------- MODULE RoomSyncStream ---------------------------
(***************************************************************************)
(* RoomSync seen as an EventStream: the durable log, where a session       *)
(* started, what it applied, and what the server's replays passed by.      *)
(***************************************************************************)
EXTENDS RoomSync

Stream == INSTANCE EventStream WITH log <- events, applied <- seen

(* Every session reads the log event by event from where it started, and   *)
(* passes none by but those a replay lost: the wire, the ring, dropped     *)
(* publishes, reconnects and restarts are otherwise invisible.             *)
ImplementsStream == Stream!Spec

=============================================================================
