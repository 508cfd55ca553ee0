----------------------------- MODULE MCRoomSync -----------------------------
(***************************************************************************)
(* RoomSync on a small instance: one session of one account.               *)
(***************************************************************************)
EXTENDS RoomSyncStream

CONSTANTS tab1, alice

OneAccount == [c \in Clients |-> alice]

=============================================================================
