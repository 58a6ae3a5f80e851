------------------------------ MODULE TaskLeases ------------------------------
(***************************************************************************)
(* How a desktop's submit_task becomes a background task that owns the     *)
(* business objects it touches: the lease rows of the coordination store,  *)
(* the invoke thread that moves a request through them, the controller's   *)
(* task, the monitor loop that gives the lease back, the manual review     *)
(* locks that outlive it, and the coordinator's shutdown, crash and start. *)
(*                                                                         *)
(* One Request is one submit_task call; the task it creates carries the    *)
(* request's name.  Time appears only as the passing of a transient        *)
(* lease's expires_at (TransientLapse): a delay has no upper bound unless  *)
(* the code sets one.                                                      *)
(***************************************************************************)
EXTENDS Naturals, FiniteSets

CONSTANTS
    Request,      \* submit_task calls
    Operator,     \* clients; each has a controller of its own
    Resource,     \* lease keys: order:, logistics:, shipment:, scan:, ...
    OwnerOf,      \* the client that makes a request
    Needs,        \* the keys _resource_keys/_order_resource_keys derive
    Lockable,     \* the order:, logistics: and shipment: keys
    Writes,       \* requests whose capability writes to ERP
    NoRequest,    \* no lease row
    Faults,       \* which of the rare events below may happen
    MaxHalts      \* bound on crashes and shutdowns

FaultKinds == {"slow_submit",    \* submit_task outlasts the transient lease
               "bind_error",     \* bind_task raises after the task started
               "late_leave",     \* a client deregisters while it submits
               "crash_unbound",  \* the process dies between submit and bind
               "crash_recovery", \* the process dies during start-up recovery
               "close"}          \* the service is shut down by a signal

ASSUME LeaseConstants ==
    /\ OwnerOf \in [Request -> Operator]
    /\ Needs \in [Request -> SUBSET Resource]
    /\ \A r \in Request : Needs[r] # {}
    /\ Lockable \subseteq Resource
    /\ Writes \subseteq Request
    /\ NoRequest \notin Request
    /\ Faults \subseteq FaultKinds
    /\ MaxHalts \in Nat

VARIABLES
    lease,       \* coordination_leases: the request_id of each key's row
    bound,       \* requests whose rows carry a task_id
    lapsed,      \* requests whose transient expires_at has passed
    review,      \* coordination_manual_review_locks
    stop,        \* the global emergency write stop
    pc,          \* where invoke stands for each request
    task,        \* the controller's task of each request
    flagged,     \* tasks whose payload carries _manual_review_lock
    tracked,     \* _tracked_tasks
    monitor,     \* the task the monitor loop is about to release
    server,      \* the coordinator process
    recovered,   \* rows clear_task_leases returned and start-up still handles
    halts,       \* crashes and shutdowns so far
    unresolved   \* history: keys with an uncertain write nobody resolved yet

store == <<lease, bound, lapsed, review, stop>>
memory == <<flagged, tracked, monitor>>
process == <<server, recovered, halts>>
vars == <<lease, bound, lapsed, review, stop, pc, task, flagged, tracked,
          monitor, server, recovered, halts, unresolved>>

PcStates == {"idle", "admitted", "reviewed", "leased", "accepted", "bound",
             "done", "rejected", "failed", "lost"}
InFlight == {"admitted", "reviewed", "leased", "accepted", "bound"}
TaskStates == {"none", "running", "stopping", "ended", "blocked", "killed"}
Live == {"running", "stopping"}
ServerStates == {"up", "closing", "closed", "down", "cleared", "stopped"}

TypeOK ==
    /\ lease \in [Resource -> Request \cup {NoRequest}]
    /\ bound \subseteq Request
    /\ lapsed \subseteq Request
    /\ review \subseteq Resource
    /\ stop \in BOOLEAN
    /\ pc \in [Request -> PcStates]
    /\ task \in [Request -> TaskStates]
    /\ flagged \subseteq Request
    /\ tracked \subseteq Request
    /\ monitor \in Request \cup {NoRequest}
    /\ server \in ServerStates
    /\ recovered \subseteq Request \X Resource
    /\ halts \in Nat
    /\ unresolved \subseteq Resource

-----------------------------------------------------------------------------
(* The lease table.                                                        *)

\* Mutant of Expired: bind_task leaves the transient expires_at in the row.
ExpiredThoughBound(s) == lease[s] \in lapsed

\* A row without task_id whose expires_at has passed.
Expired(s) == lease[s] \in lapsed \ bound

\* The table without the rows of the requests in R.
Without(R) == [s \in Resource |-> IF lease[s] \in R THEN NoRequest ELSE lease[s]]

\* release_task for every task in R.
ReleaseTasks(R) == Without(R \cap bound)

\* release_request: only rows that carry no task yet.
ReleaseRequest(r) == Without({r} \ bound)

\* The keys a task locks for review when its write is uncertain.
ReviewKeys(R) == Lockable \cap UNION {Needs[r] : r \in R}

\* Threads and executors run until the process ends; the monitor loop until
\* close() has reconciled the leases.
Serving == server \in {"up", "closing", "closed"}
MonitorRuns == server \in {"up", "closing"}
LiveTasks == {r \in Request : task[r] \in Live}
TasksOf(I) == {r \in LiveTasks : OwnerOf[r] \in I}

Init ==
    /\ lease = [s \in Resource |-> NoRequest]
    /\ bound = {}
    /\ lapsed = {}
    /\ review = {}
    /\ stop = FALSE
    /\ pc = [r \in Request |-> "idle"]
    /\ task = [r \in Request |-> "none"]
    /\ flagged = {}
    /\ tracked = {}
    /\ monitor = NoRequest
    /\ server = "up"
    /\ recovered = {}
    /\ halts = 0
    /\ unresolved = {}

-----------------------------------------------------------------------------
(* invoke("submit_task"), one action per store transaction or controller   *)
(* call; other threads run between any two of them.                        *)

GoTo(r, place) == pc' = [pc EXCEPT ![r] = place]

\* heartbeat, controller lookup and begin_request.
Admit(r) ==
    /\ server = "up"
    /\ pc[r] = "idle"
    /\ GoTo(r, "admitted")
    /\ UNCHANGED <<store, task, memory, process, unresolved>>

\* The review lock is read once, before the lease is taken.
CheckReviewLock(r) ==
    /\ Serving
    /\ pc[r] = "admitted"
    /\ GoTo(r, IF Needs[r] \cap review = {} THEN "reviewed" ELSE "rejected")
    /\ UNCHANGED <<store, task, memory, process, unresolved>>

\* Mutant of Acquire: rows that carry no task yet are no conflict.
AcquireOverTransient(r) ==
    /\ Serving
    /\ pc[r] = "reviewed"
    /\ \A s \in Needs[r] : lease[s] \notin bound
    /\ GoTo(r, "leased")
    /\ lease' = [s \in Resource |-> IF s \in Needs[r] THEN r ELSE lease[s]]
    /\ UNCHANGED <<bound, lapsed, review, stop, task, memory, process, unresolved>>

\* Any row left on a wanted key is a conflict, and a conflict rolls back the
\* removal of expired rows with everything else.
Acquire(r) ==
    /\ Serving
    /\ pc[r] = "reviewed"
    /\ LET kept == [s \in Resource |-> IF Expired(s) THEN NoRequest ELSE lease[s]]
       IN \/ /\ \E s \in Needs[r] : kept[s] # NoRequest
             /\ GoTo(r, "rejected")
             /\ lease' = lease
          \/ /\ \A s \in Needs[r] : kept[s] = NoRequest
             /\ GoTo(r, "leased")
             /\ lease' = [s \in Resource |-> IF s \in Needs[r] THEN r ELSE kept[s]]
    /\ UNCHANGED <<bound, lapsed, review, stop, task, memory, process, unresolved>>

\* The write stop and the review flag of the operator's own controller refuse
\* for certain; its duplicate checks depend on the kind of task.
ControllerRefuses(r) ==
    \/ stop /\ r \in Writes
    \/ \E q \in flagged : OwnerOf[q] = OwnerOf[r] /\ Needs[q] \cap Needs[r] \cap Lockable # {}

\* submit_task of the controller starts the task in its executor.
SubmitAccepted(r) ==
    /\ Serving
    /\ pc[r] = "leased"
    /\ ~ControllerRefuses(r)
    /\ task' = [task EXCEPT ![r] = "running"]
    /\ GoTo(r, "accepted")
    /\ UNCHANGED <<store, memory, process, unresolved>>

\* The controller refuses or raises; finally releases the transient lease.
SubmitRefused(r) ==
    /\ Serving
    /\ pc[r] = "leased"
    /\ GoTo(r, "rejected")
    /\ lease' = ReleaseRequest(r)
    /\ UNCHANGED <<bound, lapsed, review, stop, task, memory, process, unresolved>>

\* bind_task updates whatever rows still carry the request_id.
BindTask(r) ==
    /\ Serving
    /\ pc[r] = "accepted"
    /\ bound' = bound \cup {r}
    /\ GoTo(r, "bound")
    /\ UNCHANGED <<lease, lapsed, review, stop, task, memory, process, unresolved>>

\* bind_task raises: the request fails and finally releases the lease, while
\* the task the controller accepted keeps running.
BindFails(r) ==
    /\ "bind_error" \in Faults
    /\ Serving
    /\ pc[r] = "accepted"
    /\ GoTo(r, "failed")
    /\ lease' = ReleaseRequest(r)
    /\ UNCHANGED <<bound, lapsed, review, stop, task, memory, process, unresolved>>

\* _tracked_tasks.add, _task_owners, _task_controllers; the lease is kept.
Track(r) ==
    /\ Serving
    /\ pc[r] = "bound"
    /\ tracked' = tracked \cup {r}
    /\ GoTo(r, "done")
    /\ UNCHANGED <<store, task, flagged, monitor, process, unresolved>>

\* A transient lease outlives its request only if the process died, unless a
\* submit may take longer than the lease's 30 seconds.
TransientLapse(r) ==
    /\ r \notin lapsed \cup bound
    /\ \E s \in Resource : lease[s] = r
    /\ pc[r] \in {"leased", "accepted"} => "slow_submit" \in Faults
    /\ lapsed' = lapsed \cup {r}
    /\ UNCHANGED <<lease, bound, review, stop, pc, task, memory, process, unresolved>>

-----------------------------------------------------------------------------
(* The controller's tasks.                                                 *)

\* A task ends with a known outcome.
Finish(r) ==
    /\ Serving
    /\ task[r] \in Live
    /\ task' = [task EXCEPT ![r] = "ended"]
    /\ UNCHANGED <<store, pc, memory, process, unresolved>>

\* A stopping write did not return within the grace period, or returned an
\* error or an unknown result: BLOCKED, with the review flag in its payload.
EndUncertain(r) ==
    /\ Serving
    /\ task[r] = "stopping"
    /\ task' = [task EXCEPT ![r] = "blocked"]
    /\ flagged' = flagged \cup {r}
    /\ unresolved' = unresolved \cup ReviewKeys({r})
    /\ UNCHANGED <<store, pc, tracked, monitor, process>>

\* pause_tasks for the tasks in R: a queued or read-only task ends at once, a
\* running write is asked to stop.
PauseTasks(R, atOnce) ==
    /\ atOnce \subseteq {r \in R : task[r] = "running"}
    /\ {r \in R : task[r] = "running"} \subseteq Writes \cup atOnce
    /\ task' = [r \in Request |-> IF r \in atOnce THEN "ended"
                                  ELSE IF r \in R /\ task[r] = "running"
                                       THEN "stopping" ELSE task[r]]

\* _activate_instance_execution_pause under _call_lock: stop the client's
\* tasks, then lock and release those already terminal.
PauseOperator(i) ==
    /\ Serving
    /\ \E r \in tracked : OwnerOf[r] = i /\ task[r] = "running"
    /\ LET targets == {r \in tracked : OwnerOf[r] = i} IN
       \E atOnce \in SUBSET targets :
             LET over == atOnce \cup {r \in targets : task[r] \notin Live} IN
             /\ PauseTasks(targets, atOnce)
             /\ review' = review \cup ReviewKeys(over \cap flagged)
             /\ lease' = ReleaseTasks(over)
    /\ UNCHANGED <<bound, lapsed, stop, pc, memory, process, unresolved>>

-----------------------------------------------------------------------------
(* The monitor loop.                                                       *)

\* Mutant of MonitorObserve: the lease goes before the review lock is set.
ObserveWithoutLock(r) ==
    /\ MonitorRuns
    /\ monitor = NoRequest
    /\ r \in tracked
    /\ task[r] \notin Live
    /\ monitor' = r
    /\ UNCHANGED <<store, pc, task, flagged, tracked, process, unresolved>>

\* A terminal task is seen; an uncertain one locks its orders first.
MonitorObserve(r) ==
    /\ MonitorRuns
    /\ monitor = NoRequest
    /\ r \in tracked
    /\ task[r] \notin Live
    /\ review' = review \cup ReviewKeys({r} \cap flagged)
    /\ monitor' = r
    /\ UNCHANGED <<lease, bound, lapsed, stop, pc, task, flagged, tracked,
                   process, unresolved>>

\* Mutant of MonitorRelease: a task is forgotten before its lease is released.
ForgetWithoutRelease ==
    /\ MonitorRuns
    /\ monitor # NoRequest
    /\ tracked' = tracked \ {monitor}
    /\ monitor' = NoRequest
    /\ UNCHANGED <<store, pc, task, flagged, process, unresolved>>

\* release_task, then the task is no longer tracked.
MonitorRelease ==
    /\ MonitorRuns
    /\ monitor # NoRequest
    /\ lease' = ReleaseTasks({monitor})
    /\ tracked' = tracked \ {monitor}
    /\ monitor' = NoRequest
    /\ UNCHANGED <<bound, lapsed, review, stop, pc, task, flagged, process,
                   unresolved>>

\* cleanup_expired(include_task_leases=False).
MonitorCleanup ==
    /\ MonitorRuns
    /\ monitor = NoRequest
    /\ \E s \in Resource : Expired(s)
    /\ lease' = [s \in Resource |-> IF Expired(s) THEN NoRequest ELSE lease[s]]
    /\ UNCHANGED <<bound, lapsed, review, stop, pc, task, memory, process,
                   unresolved>>

-----------------------------------------------------------------------------
(* Operators.                                                              *)

\* A reopen or retry-stage call on the order: it takes the key's lease, clears
\* the controller's flag and the review lock, and releases the lease.
Unlock(s) ==
    /\ server = "up"
    /\ s \in review
    /\ lease[s] = NoRequest \/ Expired(s)
    /\ review' = review \ {s}
    /\ unresolved' = unresolved \ {s}
    /\ flagged' = flagged \ {r \in Request : s \in Needs[r]}
    /\ lease' = [t \in Resource |-> IF Expired(t) THEN NoRequest ELSE lease[t]]
    /\ UNCHANGED <<bound, lapsed, stop, pc, task, tracked, monitor, process>>

\* deregister, once the client's tasks are paused (PauseOperator): its rows
\* without a task are deleted, those of a submit that is being served included.
Deregister(i) ==
    /\ server = "up"
    /\ \A r \in Request : OwnerOf[r] = i /\ pc[r] \in InFlight => "late_leave" \in Faults
    /\ \A r \in tracked : OwnerOf[r] = i => task[r] # "running"
    /\ \E s \in Resource : lease[s] \in Request \ bound /\ OwnerOf[lease[s]] = i
    /\ lease' = Without({r \in Request : OwnerOf[r] = i} \ bound)
    /\ UNCHANGED <<bound, lapsed, review, stop, pc, task, memory, process,
                   unresolved>>

\* set_emergency_stop_writes(False): refused while any task is unfinished.
ReleaseStop ==
    /\ server = "up"
    /\ stop
    /\ LiveTasks = {}
    /\ stop' = FALSE
    /\ UNCHANGED <<lease, bound, lapsed, review, pc, task, memory, process,
                   unresolved>>

-----------------------------------------------------------------------------
(* Shutdown, crash and start-up.                                           *)

\* _reconcile_shutdown_task_leases, first pass: terminal tasks are released;
\* unfinished ones raise the emergency stop, and their controllers pause.
ClosePass ==
    /\ "close" \in Faults
    /\ server = "up"
    /\ halts < MaxHalts
    /\ LET busy == {r \in tracked : task[r] \in Live} IN
       /\ lease' = ReleaseTasks(tracked \ busy)
       /\ tracked' = busy
       /\ IF busy = {}
            THEN /\ server' = "closed"
                 /\ UNCHANGED <<stop, task>>
            ELSE /\ server' = "closing"
                 /\ stop' = TRUE
                 /\ \E atOnce \in SUBSET Request :
                       PauseTasks(TasksOf({OwnerOf[r] : r \in busy}), atOnce)
    /\ UNCHANGED <<bound, lapsed, review, pc, flagged, monitor, recovered, halts,
                   unresolved>>

\* The second pass releases what stopped in the meantime.
CloseFinish ==
    /\ server = "closing"
    /\ LET quiet == {r \in tracked : task[r] \notin Live} IN
       /\ lease' = ReleaseTasks(quiet)
       /\ tracked' = tracked \ quiet
    /\ server' = "closed"
    /\ UNCHANGED <<bound, lapsed, review, stop, pc, task, flagged, monitor,
                   recovered, halts, unresolved>>

\* Threads, tasks and service memory die with the process; the store stays.
ProcessDies ==
    /\ (\E r \in Request : pc[r] = "accepted") => "crash_unbound" \in Faults
    /\ server' = "down"
    /\ halts' = halts + 1
    /\ pc' = [r \in Request |-> IF pc[r] \in InFlight THEN "lost" ELSE pc[r]]
    /\ task' = [r \in Request |-> IF task[r] \in Live THEN "killed" ELSE task[r]]
    /\ unresolved' = unresolved \cup ReviewKeys(LiveTasks \cap Writes)
    /\ flagged' = {}
    /\ tracked' = {}
    /\ monitor' = NoRequest
    /\ recovered' = {}
    /\ UNCHANGED store

Crash ==
    /\ halts < MaxHalts
    /\ \/ MonitorRuns
       \/ server \in {"cleared", "stopped"} /\ "crash_recovery" \in Faults
    /\ ProcessDies

Exit ==
    /\ server = "closed"
    /\ ProcessDies

\* clear_task_leases deletes the task rows and returns them.  The controllers'
\* task journals flag the interrupted tasks when they are loaded.
ClearTaskLeases ==
    /\ server = "down"
    /\ recovered' = {row \in bound \X Resource : lease[row[2]] = row[1]}
    /\ lease' = ReleaseTasks(Request)
    /\ flagged' = {r \in Request : task[r] = "killed"}
    /\ server' = "cleared"
    /\ UNCHANGED <<bound, lapsed, review, stop, pc, task, tracked, monitor, halts,
                   unresolved>>

\* The emergency stop is persisted before any review lock is.
RaiseStop ==
    /\ server = "cleared"
    /\ IF recovered = {} THEN server' = "up" /\ UNCHANGED stop
                         ELSE server' = "stopped" /\ stop' = TRUE
    /\ UNCHANGED <<lease, bound, lapsed, review, pc, task, memory, recovered,
                   halts, unresolved>>

\* set_manual_review_locks for one recovered task.
LockRecovered(r) ==
    /\ server = "stopped"
    /\ \E s \in Resource : <<r, s>> \in recovered
    /\ review' = review \cup {s \in Lockable : <<r, s>> \in recovered}
    /\ recovered' = recovered \ ({r} \X Resource)
    /\ server' = IF recovered' = {} THEN "up" ELSE "stopped"
    /\ UNCHANGED <<lease, bound, lapsed, stop, pc, task, memory, halts, unresolved>>

-----------------------------------------------------------------------------
Proceed(r) ==
    \/ CheckReviewLock(r) \/ Acquire(r)
    \/ SubmitAccepted(r) \/ SubmitRefused(r)
    \/ BindTask(r) \/ BindFails(r) \/ Track(r)

Worker(r) == Finish(r) \/ EndUncertain(r)
Monitor == (\E r \in Request : MonitorObserve(r)) \/ MonitorRelease \/ MonitorCleanup
StartUp == ClearTaskLeases \/ RaiseStop \/ (\E r \in Request : LockRecovered(r))

Next ==
    \/ \E r \in Request : Admit(r) \/ Proceed(r) \/ Worker(r) \/ TransientLapse(r)
    \/ \E i \in Operator : PauseOperator(i) \/ Deregister(i)
    \/ \E s \in Resource : Unlock(s)
    \/ Monitor
    \/ ReleaseStop
    \/ ClosePass \/ CloseFinish \/ Crash \/ Exit
    \/ StartUp

Spec == Init /\ [][Next]_vars

\* Threads keep running while the process lives, the monitor loop never ends,
\* time passes, and the service manager restarts a stopped process.  Nothing
\* makes a task end, an operator act or the process die.
Fairness ==
    /\ \A r \in Request :
          /\ WF_vars(Proceed(r))
          /\ WF_vars(MonitorObserve(r))
          /\ WF_vars(TransientLapse(r))
          /\ WF_vars(LockRecovered(r))
    /\ WF_vars(MonitorRelease)
    /\ WF_vars(MonitorCleanup)
    /\ WF_vars(CloseFinish)
    /\ WF_vars(Exit)
    /\ WF_vars(ClearTaskLeases)
    /\ WF_vars(RaiseStop)

FairSpec == Spec /\ Fairness

-----------------------------------------------------------------------------
(* Properties.                                                             *)

\* Two unfinished tasks never touch the same business object: the lease
\* acquire grants is "global across every client and feature".  It needs every
\* submit to be bound before its transient lease lapses or is deleted.
OneTaskPerResource ==
    \A q, r \in Request :
        q # r /\ task[q] \in Live /\ task[r] \in Live => Needs[q] \cap Needs[r] = {}

\* While requests are served, a key whose last write is uncertain is kept from
\* other clients, by a review lock or by the task's own lease, until an
\* operator resolves it.
UnresolvedIsGuarded ==
    server = "up" => \A s \in unresolved : s \in review \/ lease[s] \in bound

\* No step takes a lease away from a task that keeps running after it:
\* neither the TTL, nor a failing request's finally, nor another client's
\* acquire, nor the shutdown.
LiveTaskKeepsLease ==
    [][\A s \in Resource :
          lease[s] \in bound /\ task'[lease[s]] \in Live => lease'[s] = lease[s]]_vars

\* A lease never outlives its use: once its request is over and its task, if
\* any, has ended, the row goes away, across shutdowns and crashes too.
LeaseIsReturned ==
    \A s \in Resource, r \in Request :
        lease[s] = r /\ task[r] \notin Live /\ pc[r] \notin InFlight
            ~> lease[s] # r
=============================================================================
