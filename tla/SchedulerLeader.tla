--------------------------- MODULE SchedulerLeader ---------------------------
(***************************************************************************)
(* Which desktop submits the recurring scans.  Every call of a client      *)
(* renews or elects the one scheduler slot; a client that was told it leads*)
(* sees a job is due, submits it in a later call, and the coordinator      *)
(* authorizes the run only while that client still leads and the job is    *)
(* still due.  A run that is not accepted gives its turn back.             *)
(*                                                                         *)
(* Absolute times are countdowns that Tick lowers together: an expires_at  *)
(* or next_due_at that has passed is a countdown at 0.  A Call is one      *)
(* client thread; each submission it makes carries a fresh request_id, so  *)
(* lastRequest forgets the call when it submits anew.                      *)
(*                                                                         *)
(* The names every specification has carry a prefix here, so that a module *)
(* can extend this one beside another component of the coordinator.        *)
(***************************************************************************)
EXTENDS Naturals

CONSTANTS
    Client,      \* desktop instances
    Job,         \* scheduler job keys
    Automatic,   \* jobs submitted by automatic processing, not by a UI timer
    Call,        \* client threads that submit a job
    ClientOf,    \* the client of a call
    JobOf,       \* the job a call submits
    Capable,     \* clients of AUTOMATIC_PROCESSING_MIN_CLIENT_VERSION or later
    NoClient,        \* no slot row, no request
    SlotTTL,     \* scheduler_lease_seconds
    InstanceTTL, \* instance_ttl_seconds
    PollEvery,   \* the longest pause between two calls of a running client
    Interval,    \* SCHEDULED_SCAN_INTERVALS
    Retry,       \* retry_seconds of defer_scheduled_job
    MaxRestarts  \* bound on restarts of the coordinator

ASSUME SchedulerConstants ==
    /\ Automatic \subseteq Job
    /\ Capable \subseteq Client
    /\ ClientOf \in [Call -> Client]
    /\ JobOf \in [Call -> Job]
    /\ NoClient \notin Client \cup Call
    /\ {SlotTTL, InstanceTTL, PollEvery, Interval, Retry} \subseteq Nat \ {0}
    /\ MaxRestarts \in Nat

VARIABLES
    owner,        \* coordination_scheduler_slots: owner_instance_id
    slotLeft,     \* its expires_at
    seenLeft,     \* coordination_instances: expires_at, 0 also for no row
    paused,       \* clients whose row says execution_paused
    manual,       \* clients whose loaded settings switch automatic work off
    dueIn,        \* coordination_scheduler_jobs: next_due_at
    lastRequest,  \* coordination_scheduler_jobs: last_request_id
    pc,           \* where each call stands
    alive,        \* clients that run
    pollIn,       \* time until a running client calls again at the latest
    quiet,        \* history: how long the last claim that was kept still counts
    restarts

slot == <<owner, slotLeft>>
jobs == <<dueIn, lastRequest, quiet>>
desktops == <<alive, pollIn>>
leaderVars == <<owner, slotLeft, seenLeft, paused, manual, dueIn, lastRequest, pc,
                alive, pollIn, quiet, restarts>>

PcStates == {"idle", "offered", "admitted", "claimed"}

LeaderTypeOK ==
    /\ owner \in Client \cup {NoClient}
    /\ slotLeft \in 0..SlotTTL
    /\ seenLeft \in [Client -> 0..InstanceTTL]
    /\ paused \subseteq Client
    /\ manual \subseteq Client
    /\ dueIn \in [Job -> Nat]
    /\ lastRequest \in [Job -> Call \cup {NoClient}]
    /\ pc \in [Call -> PcStates]
    /\ alive \subseteq Client
    /\ pollIn \in [Client -> 0..PollEvery]
    /\ quiet \in [Job -> 0..Interval]
    /\ restarts \in Nat

LeaderInit ==
    /\ owner = NoClient
    /\ slotLeft = 0
    /\ seenLeft = [c \in Client |-> 0]
    /\ paused = {}
    /\ manual = {}
    /\ dueIn = [j \in Job |-> Interval]
    /\ lastRequest = [j \in Job |-> NoClient]
    /\ pc = [t \in Call |-> "idle"]
    /\ alive = {}
    /\ pollIn = [c \in Client |-> 0]
    /\ quiet = [j \in Job |-> 0]
    /\ restarts = 0

-----------------------------------------------------------------------------
(* elect_scheduler.                                                        *)

Beat(c) == [seenLeft EXCEPT ![c] = InstanceTTL]

\* Mutant of Eligible: a paused client may lead.
EligibleThoughPaused(beats) ==
    LET online == {c \in Client : beats[c] > 0}
        first(A, B) == IF A # {} THEN A ELSE B
    IN first((online \cap Capable) \ manual,
             first(online \cap Capable, first(online \ manual, online)))

\* Clients that can run automatic processing and want to, else those that can,
\* else those that want to, else whoever is online.
Eligible(beats) ==
    LET online == {c \in Client : beats[c] > 0} \ paused
        first(A, B) == IF A # {} THEN A ELSE B
    IN first((online \cap Capable) \ manual,
             first(online \cap Capable, first(online \ manual, online)))

\* Mutant of ElectedOwner: whoever holds an unexpired slot keeps it.
StickyOwner(c) ==
    LET held == owner # NoClient /\ slotLeft > 0
    IN IF held THEN owner ELSE IF c \in Eligible(Beat(c)) THEN c ELSE owner

\* The row's owner after c asked: an eligible client takes a slot that no other
\* eligible client still holds; one that is not gives its own slot up.
ElectedOwner(c) ==
    LET eligible == Eligible(Beat(c))
        held == owner \in eligible /\ slotLeft > 0
    IN IF c \in eligible
       THEN IF held THEN owner ELSE c
       ELSE IF owner = c THEN NoClient ELSE owner

Leads(c) == ElectedOwner(c) = c

\* What every call of a running client does first: heartbeat, then election.
\* Only the owner's own call moves expires_at.
CallIn(c) ==
    /\ seenLeft' = Beat(c)
    /\ pollIn' = [pollIn EXCEPT ![c] = PollEvery]
    /\ owner' = ElectedOwner(c)
    /\ slotLeft' = IF Leads(c) THEN SlotTTL
                   ELSE IF owner = c THEN 0 ELSE slotLeft

-----------------------------------------------------------------------------
(* Clients.                                                                *)

\* register: the row and an election.
Start(c) ==
    /\ c \notin alive
    /\ alive' = alive \cup {c}
    /\ CallIn(c)
    /\ UNCHANGED <<paused, manual, jobs, pc, restarts>>

\* heartbeat or snapshot; a row that is gone is registered again.
Poll(c) ==
    /\ c \in alive
    /\ CallIn(c)
    /\ UNCHANGED <<paused, manual, jobs, pc, alive, restarts>>

\* What the client was about to submit is lost with it.
Forget(c) == [t \in Call |-> IF ClientOf[t] = c /\ pc[t] = "offered" THEN "idle" ELSE pc[t]]

\* The desktop dies without a word.
Die(c) ==
    /\ c \in alive
    /\ alive' = alive \ {c}
    /\ pc' = Forget(c)
    /\ UNCHANGED <<slot, seenLeft, paused, manual, jobs, pollIn, restarts>>

\* deregister deletes the row and the client's slot.
Deregister(c) ==
    /\ c \in alive
    /\ alive' = alive \ {c}
    /\ pc' = Forget(c)
    /\ paused' = paused \ {c}
    /\ seenLeft' = [seenLeft EXCEPT ![c] = 0]
    /\ owner' = IF Leads(c) THEN NoClient ELSE ElectedOwner(c)
    /\ slotLeft' = IF Leads(c) \/ owner = c THEN 0 ELSE slotLeft
    /\ UNCHANGED <<manual, jobs, pollIn, restarts>>

\* set_instance_execution_paused(enabled) deletes the client's slot.
Pause(c) ==
    /\ c \in alive \ paused
    /\ paused' = paused \cup {c}
    /\ seenLeft' = Beat(c)
    /\ pollIn' = [pollIn EXCEPT ![c] = PollEvery]
    /\ owner' = IF Leads(c) THEN NoClient ELSE ElectedOwner(c)
    /\ slotLeft' = IF Leads(c) \/ owner = c THEN 0 ELSE slotLeft
    /\ UNCHANGED <<manual, jobs, pc, alive, restarts>>

Resume(c) ==
    /\ c \in alive \cap paused
    /\ CallIn(c)
    /\ paused' = paused \ {c}
    /\ UNCHANGED <<manual, jobs, pc, alive, restarts>>

\* The operator switches the processing mode, or the controller that holds the
\* setting is loaded for the first time.
SetMode(c) ==
    /\ manual' = IF c \in manual THEN manual \ {c} ELSE manual \cup {c}
    /\ UNCHANGED <<slot, seenLeft, paused, jobs, pc, desktops, restarts>>

-----------------------------------------------------------------------------
(* A recurring run.                                                        *)

GoTo(t, place) == pc' = [pc EXCEPT ![t] = place]

\* Automatic work is dispatched by a new enough client in automatic mode.
CanRun(c, j) == j \in Automatic => c \in Capable \ manual

\* The call that shows a leading client a due job: a snapshot for a UI timer,
\* get_automatic_processing_tasks for automatic work.
Offer(t) ==
    LET c == ClientOf[t] IN
    /\ pc[t] = "idle"
    /\ c \in alive \ paused
    /\ CanRun(c, JobOf[t])
    /\ Leads(c)
    /\ dueIn[JobOf[t]] = 0
    /\ CallIn(c)
    /\ GoTo(t, "offered")
    /\ UNCHANGED <<paused, manual, jobs, alive, restarts>>

\* invoke("submit_task") up to the claim: automatic work of a client that no
\* longer leads and any work of a paused one goes no further.
Invoke(t) ==
    LET c == ClientOf[t] IN
    /\ pc[t] = "offered"
    /\ c \in alive
    /\ CallIn(c)
    /\ GoTo(t, IF c \notin paused /\ (JobOf[t] \in Automatic => Leads(c))
               THEN "admitted" ELSE "idle")
    /\ lastRequest' = [j \in Job |-> IF lastRequest[j] = t THEN NoClient ELSE lastRequest[j]]
    /\ UNCHANGED <<paused, manual, dueIn, quiet, alive, restarts>>

\* The slot's owner, with the slot and the owner's row unexpired and unpaused.
IsLeader(c) == owner = c /\ slotLeft > 0 /\ seenLeft[c] > 0 /\ c \notin paused

\* Mutant of Claim: the due time is trusted from the call that read it.
ClaimAsOffered(t) ==
    LET j == JobOf[t] IN
    /\ pc[t] = "admitted"
    /\ \/ /\ IsLeader(ClientOf[t])
          /\ GoTo(t, "claimed")
          /\ dueIn' = [dueIn EXCEPT ![j] = Interval]
          /\ lastRequest' = [lastRequest EXCEPT ![j] = t]
          /\ quiet' = [quiet EXCEPT ![j] = Interval]
       \/ /\ ~IsLeader(ClientOf[t])
          /\ GoTo(t, "idle")
          /\ UNCHANGED jobs
    /\ UNCHANGED <<slot, seenLeft, paused, manual, desktops, restarts>>

\* claim_scheduled_job.
Claim(t) ==
    LET j == JobOf[t]
        granted == IsLeader(ClientOf[t]) /\ dueIn[j] = 0
    IN
    /\ pc[t] = "admitted"
    /\ \/ /\ granted
          /\ GoTo(t, "claimed")
          /\ dueIn' = [dueIn EXCEPT ![j] = Interval]
          /\ lastRequest' = [lastRequest EXCEPT ![j] = t]
          /\ quiet' = [quiet EXCEPT ![j] = Interval]
       \/ /\ ~granted
          /\ GoTo(t, "idle")
          /\ UNCHANGED jobs
    /\ UNCHANGED <<slot, seenLeft, paused, manual, desktops, restarts>>

\* The controller accepts and the task is bound.
Accept(t) ==
    /\ pc[t] = "claimed"
    /\ GoTo(t, "idle")
    /\ UNCHANGED <<slot, seenLeft, paused, manual, jobs, desktops, restarts>>

\* A lease conflict, a refusal or an exception: defer_scheduled_job finds the
\* jobs whose last_request_id is still this request.
Refuse(t) ==
    LET mine(j) == lastRequest[j] = t IN
    /\ pc[t] = "claimed"
    /\ GoTo(t, "idle")
    /\ dueIn' = [j \in Job |-> IF mine(j) THEN Retry ELSE dueIn[j]]
    /\ lastRequest' = [j \in Job |-> IF mine(j) THEN NoClient ELSE lastRequest[j]]
    /\ quiet' = [j \in Job |-> IF mine(j) THEN 0 ELSE quiet[j]]
    /\ UNCHANGED <<slot, seenLeft, paused, manual, desktops, restarts>>

-----------------------------------------------------------------------------
(* The coordinator and time.                                               *)

\* cleanup_expired: an expired row goes, its pause with it.
Cleanup ==
    /\ \E c \in paused : seenLeft[c] = 0
    /\ paused' = {c \in paused : seenLeft[c] > 0}
    /\ UNCHANGED <<slot, seenLeft, manual, jobs, pc, desktops, restarts>>

\* The process dies and starts again: tables stay, threads are gone, pauses are
\* reset, and no controller is loaded yet that could say "manual".
Restart ==
    /\ restarts < MaxRestarts
    /\ restarts' = restarts + 1
    /\ pc' = [t \in Call |-> IF pc[t] = "offered" THEN "offered" ELSE "idle"]
    /\ paused' = {}
    /\ manual' = {}
    /\ UNCHANGED <<slot, seenLeft, jobs, desktops>>

\* Time passes, but not past the next call of a running client.
Tick ==
    LET less(n) == IF n = 0 THEN 0 ELSE n - 1 IN
    /\ \A c \in alive : pollIn[c] > 0
    /\ slotLeft' = less(slotLeft)
    /\ seenLeft' = [c \in Client |-> less(seenLeft[c])]
    /\ pollIn' = [c \in Client |-> less(pollIn[c])]
    /\ dueIn' = [j \in Job |-> less(dueIn[j])]
    /\ quiet' = [j \in Job |-> less(quiet[j])]
    /\ UNCHANGED <<owner, paused, manual, lastRequest, pc, alive, restarts>>

LeaderNext ==
    \/ \E c \in Client :
          \/ Start(c) \/ Poll(c) \/ Die(c) \/ Deregister(c)
          \/ Pause(c) \/ Resume(c) \/ SetMode(c)
    \/ \E t \in Call : Offer(t) \/ Invoke(t) \/ Claim(t) \/ Accept(t) \/ Refuse(t)
    \/ Cleanup \/ Restart \/ Tick

LeaderSpec == LeaderInit /\ [][LeaderNext]_leaderVars

\* A running client keeps calling and acts on what it is shown, the
\* coordinator's threads run, time passes.  Nobody has to start, stop, pause
\* or change a setting, and a submission may always be refused.
Fairness ==
    /\ \A c \in Client : WF_leaderVars(Poll(c))
    /\ \A t \in Call :
          /\ WF_leaderVars(Offer(t))
          /\ WF_leaderVars(Invoke(t))
          /\ WF_leaderVars(Claim(t))
          /\ WF_leaderVars(Accept(t) \/ Refuse(t))
    /\ WF_leaderVars(Tick)

LeaderFairSpec == LeaderSpec /\ Fairness

-----------------------------------------------------------------------------
(* Properties.                                                             *)

\* A recurring job is not authorized again within its interval, whoever leads
\* by then and whatever became of an older run; only a run that was itself
\* refused gives its turn back.
NoEarlyClaim ==
    [][\A t \in Call :
          pc[t] = "admitted" /\ pc'[t] = "claimed" => quiet[JobOf[t]] = 0]_leaderVars

\* "Old clients may scan during rollout, but must yield immediately when a
\* client that can actually run automatic processing appears": while such a
\* client stays and may run, the slot keeps coming back to one.
YieldsToCapable ==
    \A c \in Capable :
        <>[](c \in alive /\ c \notin paused \cup manual)
            => []<>(owner \in Capable \ (paused \cup manual))

\* Once nobody comes, goes, pauses or changes mode any more, every job some
\* client can run is authorized again and again, though the leader that was
\* shown it may lose the slot or die before it claims.
DueJobIsClaimed ==
    \A j \in Job :
        /\ <>[][UNCHANGED <<alive, paused, manual>>]_leaderVars
        /\ <>[](\E t \in Call : /\ JobOf[t] = j
                                /\ ClientOf[t] \in alive \ paused
                                /\ CanRun(ClientOf[t], j))
        => []<>(\E t \in Call : JobOf[t] = j /\ pc[t] = "claimed")
=============================================================================
