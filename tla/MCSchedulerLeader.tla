-------------------------- MODULE MCSchedulerLeader --------------------------
(* Small instances of SchedulerLeader: a new client and an old one that switch *)
(* their mode as they like, and one thread each for the same timer's scan.     *)
EXTENDS SchedulerLeader, TLC

CONSTANTS a, b, scan, ta, tb

MCClientOf == ta :> a @@ tb :> b
MCJobOf == ta :> scan @@ tb :> scan
=============================================================================
