---------------------------- MODULE MCDownloads ----------------------------
(***************************************************************************)
(* Instance of Downloads for TLC: a manager and a stranger, bounds in the  *)
(* .cfg file.                                                              *)
(***************************************************************************)
EXTENDS Downloads

=============================================================================
