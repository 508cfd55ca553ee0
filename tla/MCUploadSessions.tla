--------------------------- MODULE MCUploadSessions ---------------------------
(***************************************************************************)
(* UploadSessions for TLC: a file of two chunks, two attempts at each.     *)
(***************************************************************************)
EXTENDS UploadSessions

=============================================================================
