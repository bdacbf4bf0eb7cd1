--------------------------- MODULE MCTaskExecutor ---------------------------
(* Small instances of TaskExecutor. *)
EXTENDS TaskExecutor
=============================================================================
