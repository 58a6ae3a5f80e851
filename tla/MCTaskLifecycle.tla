--------------------------- MODULE MCTaskLifecycle ---------------------------
(* Small instances of TaskLifecycle: a task that writes and one that reads.   *)
EXTENDS TaskLifecycle

CONSTANTS w, r
=============================================================================
