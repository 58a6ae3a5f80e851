--------------------------- MODULE MCNotifications ---------------------------
(* One order of two packages, its notification's revisions and both checkers. *)
EXTENDS Notifications
==============================================================================
