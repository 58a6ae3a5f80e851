---------------------------- MODULE RequestPromise ----------------------------
(***************************************************************************)
(* What the request journal promises of a call, whatever is lost, sent      *)
(* again, timed out or restarted on the way: each part takes effect at most *)
(* once and only while the call is open, the outcome is settled once, and   *)
(* the client hears of a success only when there is one.  RequestJournal    *)
(* implements it.                                                          *)
(***************************************************************************)
EXTENDS Naturals

CONSTANTS Call, Part

VARIABLES
    outcome,   \* of a call: open, done or failed
    effects,   \* how often a part has taken effect
    told       \* what the client has been told of a call

Init ==
    /\ outcome = [c \in Call |-> "open"]
    /\ effects = [c \in Call |-> [i \in Part |-> 0]]
    /\ told = [c \in Call |-> "nothing"]

TakeEffect(c, i) ==
    /\ outcome[c] = "open" /\ effects[c][i] = 0
    /\ effects' = [effects EXCEPT ![c][i] = 1]
    /\ UNCHANGED <<outcome, told>>

Succeed(c) ==
    /\ outcome[c] = "open"
    /\ outcome' = [outcome EXCEPT ![c] = "done"]
    /\ UNCHANGED <<effects, told>>

\* A restart fails all the calls it finds open.
GiveUp(C) ==
    /\ C # {} /\ \A c \in C : outcome[c] = "open"
    /\ outcome' = [c \in Call |-> IF c \in C THEN "failed" ELSE outcome[c]]
    /\ UNCHANGED <<effects, told>>

\* A success is told when there is one; that an attempt failed may be told
\* whatever becomes of the call.
Tell(c) ==
    /\ told[c] = "nothing"
    /\ \/ outcome[c] = "done" /\ told' = [told EXCEPT ![c] = "done"]
       \/ told' = [told EXCEPT ![c] = "failed"]
    /\ UNCHANGED <<outcome, effects>>

Next ==
    \/ \E c \in Call : Succeed(c) \/ Tell(c) \/ \E i \in Part : TakeEffect(c, i)
    \/ \E C \in SUBSET Call : GiveUp(C)

Spec == Init /\ [][Next]_<<outcome, effects, told>>
=============================================================================
