--------------------------- MODULE MCRoomRegistry ---------------------------
(***************************************************************************)
(* RoomRegistry on small instances: a few sockets, one HTTP write and one  *)
(* or two deletions of a world.                                            *)
(***************************************************************************)
EXTENDS RoomRegistry, TLC

CONSTANTS s1, s2, s3, w1, d1, d2

SocketSymmetry == Permutations(Sockets)

=============================================================================
