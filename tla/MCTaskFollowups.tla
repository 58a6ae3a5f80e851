-------------------------- MODULE MCTaskFollowups --------------------------
(* A small instance of TaskFollowups: one scan with a follow-up, and syncs   *)
(* of users in its way.                                                      *)
EXTENDS TaskFollowups, TLC

CONSTANT f1
=============================================================================
