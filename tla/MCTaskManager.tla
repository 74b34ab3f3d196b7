--------------------------- MODULE MCTaskManager ---------------------------
(* Small instances of TaskManager for TLC. *)
EXTENDS TaskManager
=============================================================================
