---------------------------- MODULE InstancePause ----------------------------
(***************************************************************************)
(* The pause gate of one desktop instance: execution_pause_state in its    *)
(* row, the three times invoke looks at it, the threads that close it (the *)
(* operator's, the invoke thread that finds it closed behind a task it has *)
(* just started, the monitor when the instance's heartbeat is lost), the   *)
(* monitor's refresh that ends a pause, and resume.                        *)
(*                                                                         *)
(* A Request is one submit_task call and names the task it starts.  Leases *)
(* are TaskLeases' concern.                                                *)
(***************************************************************************)
EXTENDS Naturals, FiniteSets

CONSTANTS
    Instance,     \* desktop instances
    Request,      \* submit_task calls
    OwnerOf,      \* the instance that makes a request
    Writes,       \* requests whose task cannot be cut short while it runs
    Monitor,      \* the monitor loop's thread
    None,         \* no request, no instance
    Faults,       \* which of the rare events below may happen
    MaxLosses     \* bound on how often heartbeats are lost

FaultKinds == {"preempt",      \* others run between a read of the pause state
                               \* or of the counts and the write it leads to
               "hasty_resume", \* a resume overlaps a pause of its instance
               "late_call"}    \* an RPC is still being served when its
                               \* instance's row has expired or is deleted

Thread == Instance \cup Request \cup {Monitor}

ASSUME PauseConstants ==
    /\ OwnerOf \in [Request -> Instance]
    /\ Writes \subseteq Request
    /\ Instance \cap Request = {}
    /\ Monitor \notin Instance \cup Request
    /\ None \notin Thread
    /\ Faults \subseteq FaultKinds
    /\ MaxLosses \in Nat

VARIABLES
    row,       \* coordination_instances: no row, or its execution_pause_state
    expired,   \* instances whose expires_at has passed
    closing,   \* instances that are being deregistered
    pc,        \* where invoke stands for each request
    task,      \* the controller's task of each request
    owned,     \* _tracked_tasks, _task_owners
    targets,   \* _instance_pause_targets
    lost,      \* _lost_task_owners
    step,      \* where each thread stands in a pause, a resume or a refresh
    seen,      \* active_instance_ids() as the monitor's iteration read it
    todo,      \* tracked tasks the iteration has not visited yet
    visited,   \* the task it is visiting
    victim,    \* the instance the monitor is pausing or refreshing
    losses     \* heartbeat losses so far

client == <<expired, closing, losses>>
service == <<owned, targets, lost>>
loop == <<seen, todo, visited, victim>>
vars == <<row, expired, closing, pc, task, owned, targets, lost, step, seen,
          todo, visited, victim, losses>>

RowStates == {"none", "active", "pausing", "paused"}
Closed == {"pausing", "paused"}
\* "ended": answered, refused or failed; the reply is not modelled.
PcStates == {"idle", "admitted", "cleared", "accepted", "tracked", "ended"}
InFlight == {"admitted", "cleared", "accepted", "tracked"}
TaskStates == {"none", "running", "stopping", "over"}
Live == {"running", "stopping"}
\* "blind": the monitor pauses an instance that has no row any more.
StepStates == {"off", "begin", "gated", "blind", "stopped", "blindstopped",
               "busy", "quiet", "resuming", "refreshing"}
\* The next step writes what an earlier read decided.
Deciding == {t \in Thread : step[t] \in {"busy", "quiet", "resuming", "refreshing"}}

TypeOK ==
    /\ row \in [Instance -> RowStates]
    /\ expired \subseteq Instance
    /\ closing \subseteq Instance
    /\ pc \in [Request -> PcStates]
    /\ task \in [Request -> TaskStates]
    /\ owned \subseteq Request
    /\ targets \in [Instance -> SUBSET Request]
    /\ lost \subseteq Instance
    /\ step \in [Thread -> StepStates]
    /\ seen \subseteq Instance
    /\ todo \subseteq Request
    /\ visited \in Request \cup {None}
    /\ victim \in Instance \cup {None}
    /\ losses \in Nat

-----------------------------------------------------------------------------
Online(i) == row[i] # "none" /\ i \notin expired
Owned(i) == {r \in owned : OwnerOf[r] = i}

\* The instance's RPCs that are being served.
Calls(i) == {r \in Request : OwnerOf[r] = i /\ pc[r] \in InFlight}
            \cup {t \in {i} : step[t] # "off"}

\* The instance a thread pauses.
Subject(t) == IF t \in Instance THEN t
              ELSE IF t \in Request THEN OwnerOf[t] ELSE victim

\* The threads that are pausing an instance, or about to.
Pausers(i) == {t \in Thread : Subject(t) = i /\ step[t] # "off"}
              \cup {r \in owned : OwnerOf[r] = i /\ pc[r] = "tracked"}

\* _instance_pause_counts: none of the pause's targets is unfinished.
AllStopped(i) == \A r \in targets[i] : task[r] \notin Live

Init ==
    /\ row = [i \in Instance |-> "active"]
    /\ expired = {}
    /\ closing = {}
    /\ pc = [r \in Request |-> "idle"]
    /\ task = [r \in Request |-> "none"]
    /\ owned = {}
    /\ targets = [i \in Instance |-> {}]
    /\ lost = {}
    /\ step = [t \in Thread |-> "off"]
    /\ seen = {}
    /\ todo = {}
    /\ visited = None
    /\ victim = None
    /\ losses = 0

-----------------------------------------------------------------------------
(* invoke("submit_task").                                                  *)

GoTo(r, place) == pc' = [pc EXCEPT ![r] = place]
Turn(t, place) == step' = [step EXCEPT ![t] = place]

\* The heartbeat renews the row; then the first look at the gate.
Admit(r) ==
    LET i == OwnerOf[r] IN
    /\ pc[r] = "idle"
    /\ row[i] # "none" /\ i \notin closing
    /\ expired' = expired \ {i}
    /\ GoTo(r, IF row[i] = "active" THEN "admitted" ELSE "ended")
    /\ UNCHANGED <<row, closing, task, service, step, loop, losses>>

\* The second look, in invoke_controller; without a row the call fails.
RecheckGate(r) ==
    /\ pc[r] = "admitted"
    /\ GoTo(r, IF row[OwnerOf[r]] = "active" THEN "cleared" ELSE "ended")
    /\ UNCHANGED <<row, client, task, service, step, loop>>

\* The controller starts the task or refuses it.
Submit(r) ==
    /\ pc[r] = "cleared"
    /\ \/ GoTo(r, "accepted") /\ task' = [task EXCEPT ![r] = "running"]
       \/ GoTo(r, "ended") /\ UNCHANGED task
    /\ UNCHANGED <<row, client, service, step, loop>>

\* Mutant of Track: a task whose instance lost its row is not registered.
TrackIfOnline(r) ==
    /\ pc[r] = "accepted"
    /\ owned' = IF row[OwnerOf[r]] = "none" THEN owned ELSE owned \cup {r}
    /\ GoTo(r, "tracked")
    /\ UNCHANGED <<row, client, task, targets, lost, step, loop>>

\* bind_task, _tracked_tasks, _task_owners, _task_controllers.
Track(r) ==
    /\ pc[r] = "accepted"
    /\ owned' = owned \cup {r}
    /\ GoTo(r, "tracked")
    /\ UNCHANGED <<row, client, task, targets, lost, step, loop>>

\* Mutant of LateCheck: there is no third look.
EndUnchecked(r) ==
    /\ pc[r] = "tracked" /\ step[r] = "off"
    /\ GoTo(r, "ended")
    /\ UNCHANGED <<row, client, task, service, step, loop>>

\* The third look: a gate that closed meanwhile stops the task just started.
\* Without a row the call fails, its task tracked and running.
LateCheck(r) ==
    LET i == OwnerOf[r] IN
    /\ pc[r] = "tracked" /\ step[r] = "off"
    /\ IF row[i] \in Closed THEN Turn(r, "begin") /\ UNCHANGED pc
       ELSE GoTo(r, "ended") /\ UNCHANGED step
    /\ UNCHANGED <<row, client, task, service, loop>>

-----------------------------------------------------------------------------
(* _activate_instance_execution_pause, for any thread.                     *)

\* What a thread does after its pause.
Return(t) ==
    /\ pc' = IF t \in Request THEN [pc EXCEPT ![t] = "ended"] ELSE pc
    /\ Turn(t, "off")

\* The row says "pausing" before any task is touched.  Without a row only the
\* monitor goes on.
CloseGate(t) ==
    LET i == Subject(t) IN
    /\ step[t] = "begin"
    /\ \/ /\ row[i] # "none"
          /\ row' = [row EXCEPT ![i] = "pausing"]
          /\ Turn(t, "gated")
          /\ UNCHANGED pc
       \/ /\ row[i] = "none" /\ t = Monitor
          /\ Turn(t, "blind")
          /\ UNCHANGED <<row, pc>>
       \/ /\ row[i] = "none" /\ t # Monitor
          /\ Turn(t, "off")
          /\ pc' = IF t \in Request THEN [pc EXCEPT ![t] = "ended"] ELSE pc
          /\ UNCHANGED row
    /\ UNCHANGED <<client, task, service, loop>>

\* Under _call_lock: pause_tasks for everything the instance owns.  A queued
\* or read-only task ends at once, a running write is asked to stop.
StopTasks(t) ==
    LET i == Subject(t) IN
    /\ step[t] \in {"gated", "blind"}
    /\ targets' = [targets EXCEPT ![i] = @ \cup Owned(i)]
    /\ \E atOnce \in SUBSET {r \in Owned(i) : task[r] = "running"} :
          /\ {r \in Owned(i) : task[r] = "running"} \subseteq Writes \cup atOnce
          /\ task' = [r \in Request |->
                        IF r \in atOnce THEN "over"
                        ELSE IF r \in Owned(i) /\ task[r] = "running"
                             THEN "stopping" ELSE task[r]]
    /\ Turn(t, IF step[t] = "gated" THEN "stopped" ELSE "blindstopped")
    /\ UNCHANGED <<row, client, pc, owned, lost, loop>>

\* The counts decide the state the thread writes last.
CountTargets(t) ==
    /\ step[t] \in {"stopped", "blindstopped"}
    /\ IF step[t] = "blindstopped" THEN Return(t)
       ELSE Turn(t, IF AllStopped(Subject(t)) THEN "quiet" ELSE "busy") /\ UNCHANGED pc
    /\ UNCHANGED <<row, client, task, service, loop>>

\* The second write; a row deleted meanwhile is a KeyError.
SettleGate(t) ==
    LET i == Subject(t) IN
    /\ step[t] \in {"quiet", "busy"}
    /\ row' = IF row[i] = "none" THEN row
              ELSE [row EXCEPT ![i] = IF step[t] = "quiet" THEN "paused" ELSE "pausing"]
    /\ Return(t)
    /\ UNCHANGED <<client, task, service, loop>>

-----------------------------------------------------------------------------
(* The operator and the tasks.                                             *)

\* set_execution_paused(True), the fail-safe endpoint, or close.
UserPause(i) ==
    /\ step[i] = "off"
    /\ Online(i) /\ i \notin closing
    /\ Turn(i, "begin")
    /\ UNCHANGED <<row, client, pc, task, service, loop>>

\* set_execution_paused(False): refused while the state is "pausing".
AskResume(i) ==
    /\ step[i] = "off"
    /\ Online(i) /\ i \notin closing
    /\ row[i] = "paused"
    /\ Pausers(i) = {} \/ "hasty_resume" \in Faults
    /\ Turn(i, "resuming")
    /\ UNCHANGED <<row, client, pc, task, service, loop>>

Resume(i) ==
    /\ step[i] = "resuming"
    /\ row' = IF row[i] = "none" THEN row ELSE [row EXCEPT ![i] = "active"]
    /\ targets' = IF row[i] = "none" THEN targets ELSE [targets EXCEPT ![i] = {}]
    /\ Turn(i, "off")
    /\ UNCHANGED <<client, pc, task, owned, lost, loop>>

\* A running task ends by itself.
Finish(r) ==
    /\ task[r] = "running"
    /\ task' = [task EXCEPT ![r] = "over"]
    /\ UNCHANGED <<row, client, pc, service, step, loop>>

\* A stopping task ends, at the latest when the grace period is over.
Stop(r) ==
    /\ task[r] = "stopping"
    /\ task' = [task EXCEPT ![r] = "over"]
    /\ UNCHANGED <<row, client, pc, service, step, loop>>

\* No heartbeat within the instance's TTL.
LoseHeartbeat(i) ==
    /\ losses < MaxLosses
    /\ Online(i)
    /\ Calls(i) = {} \/ "late_call" \in Faults
    /\ expired' = expired \cup {i}
    /\ losses' = losses + 1
    /\ UNCHANGED <<row, closing, pc, task, service, step, loop>>

\* The client reaches the service again: an old row is renewed as it is, a
\* deleted one is registered anew.
Reconnect(i) ==
    /\ i \notin closing
    /\ ~Online(i)
    /\ row' = [row EXCEPT ![i] = IF @ = "none" THEN "active" ELSE @]
    /\ expired' = expired \ {i}
    /\ UNCHANGED <<closing, pc, task, service, step, loop, losses>>

\* deregister: owned tasks are paused before the row is deleted.
BeginClose(i) ==
    /\ i \notin closing
    /\ Online(i) /\ step[i] = "off"
    /\ Calls(i) = {} \/ "late_call" \in Faults
    /\ closing' = closing \cup {i}
    /\ Turn(i, IF Owned(i) = {} THEN "off" ELSE "begin")
    /\ UNCHANGED <<row, expired, pc, task, service, loop, losses>>

Deregister(i) ==
    /\ i \in closing
    /\ step[i] = "off"
    /\ row[i] # "none"
    /\ row' = [row EXCEPT ![i] = "none"]
    /\ expired' = expired \ {i}
    /\ UNCHANGED <<closing, pc, task, service, step, loop, losses>>

-----------------------------------------------------------------------------
(* The monitor loop: one iteration visits the tracked tasks, refreshes the *)
(* pauses and deletes expired rows.                                        *)

Idle == step[Monitor] = "off" /\ visited = None

\* active_instance_ids() is read once per iteration.
BeginIteration ==
    /\ Idle /\ todo = {} /\ owned # {}
    /\ seen' = {i \in Instance : Online(i)}
    /\ todo' = owned
    /\ UNCHANGED <<row, client, pc, task, service, step, visited, victim>>

\* Mutant of Visit: the lease is renewed whether the owner is there or not.
RenewOnly(r) ==
    /\ Idle /\ r \in todo
    /\ visited' = r
    /\ UNCHANGED <<row, client, pc, task, service, step, seen, todo, victim>>

\* The owner of a tracked task is gone: its tasks are paused, once.
Visit(r) ==
    LET i == OwnerOf[r] IN
    /\ Idle /\ r \in todo
    /\ visited' = r
    /\ IF i \notin seen \cup lost
         THEN /\ lost' = lost \cup {i}
              /\ victim' = i
              /\ Turn(Monitor, "begin")
         ELSE UNCHANGED <<lost, victim, step>>
    /\ UNCHANGED <<row, client, pc, task, owned, targets, seen, todo>>

\* A task that is over is released and forgotten; the last one of a lost owner
\* takes the owner's pause with it.
EndVisit ==
    LET r == visited
        i == OwnerOf[r]
    IN
    /\ visited # None /\ step[Monitor] = "off"
    /\ visited' = None /\ victim' = None
    /\ todo' = todo \ {r}
    /\ seen' = IF todo' = {} THEN {} ELSE seen
    /\ IF task[r] \in Live THEN UNCHANGED service
       ELSE /\ owned' = owned \ {r}
            /\ IF i \notin seen /\ Owned(i) \subseteq {r}
                 THEN /\ targets' = [targets EXCEPT ![i] = {}]
                      /\ lost' = lost \ {i}
                 ELSE UNCHANGED <<targets, lost>>
    /\ UNCHANGED <<row, client, pc, task, step>>

\* Mutant of ReadPause: blocked tasks count as unfinished for ever.
ReadUntouchedPause(i) ==
    /\ Idle /\ todo = {}
    /\ row[i] = "pausing" /\ targets[i] = {}
    /\ victim' = i
    /\ Turn(Monitor, "refreshing")
    /\ UNCHANGED <<row, client, pc, task, service, seen, todo, visited>>

\* _refresh_instance_pause_state: reads the state and the counts ...
ReadPause(i) ==
    /\ Idle /\ todo = {}
    /\ row[i] = "pausing" /\ AllStopped(i)
    /\ victim' = i
    /\ Turn(Monitor, "refreshing")
    /\ UNCHANGED <<row, client, pc, task, service, seen, todo, visited>>

\* ... and writes "paused".
RefreshPause ==
    /\ step[Monitor] = "refreshing"
    /\ row' = IF row[victim] = "none" THEN row ELSE [row EXCEPT ![victim] = "paused"]
    /\ victim' = None
    /\ Turn(Monitor, "off")
    /\ UNCHANGED <<client, pc, task, service, seen, todo, visited>>

\* cleanup_expired.
Cleanup ==
    /\ Idle /\ todo = {}
    /\ \E i \in expired : row[i] # "none"
    /\ row' = [i \in Instance |-> IF i \in expired THEN "none" ELSE row[i]]
    /\ expired' = {}
    /\ UNCHANGED <<closing, pc, task, service, step, loop, losses>>

-----------------------------------------------------------------------------
Proceed(r) == RecheckGate(r) \/ Submit(r) \/ Track(r) \/ LateCheck(r)
Pausing(t) == CloseGate(t) \/ StopTasks(t) \/ CountTargets(t)
Decide == RefreshPause \/ (\E i \in Instance : Resume(i)) \/ (\E t \in Thread : SettleGate(t))

VisitTasks == BeginIteration \/ (\E r \in Request : Visit(r)) \/ EndVisit

Step ==
    \/ \E r \in Request : Admit(r) \/ Proceed(r) \/ Finish(r) \/ Stop(r)
    \/ \E t \in Thread : Pausing(t)
    \/ \E i \in Instance :
          \/ UserPause(i) \/ AskResume(i) \/ LoseHeartbeat(i) \/ Reconnect(i)
          \/ BeginClose(i) \/ Deregister(i) \/ ReadPause(i)
    \/ VisitTasks \/ Cleanup

Next ==
    \/ Decide
    \/ (Deciding = {} \/ "preempt" \in Faults) /\ Step

Spec == Init /\ [][Next]_vars

\* Every thread of the service keeps running, an iteration of the monitor loop
\* reads every pausing row and cleans up, and a stopping task is ended by the
\* grace period's enforcer.  No task, client or operator has to act.
Fairness ==
    /\ WF_vars(Decide)
    /\ WF_vars(VisitTasks)
    /\ SF_vars(Cleanup)
    /\ \A r \in Request : WF_vars(Proceed(r)) /\ WF_vars(Stop(r))
    /\ \A t \in Thread : WF_vars(Pausing(t))
    /\ \A i \in Instance : SF_vars(ReadPause(i)) /\ WF_vars(Deregister(i))

FairSpec == Spec /\ Fairness

-----------------------------------------------------------------------------
(* Properties.                                                             *)

\* No unfinished task but one whose invoke has yet to look at the gate a third
\* time.
Quiet(i) ==
    \A r \in Request :
        OwnerOf[r] = i /\ task[r] \in Live => pc[r] \in {"accepted", "tracked"}

\* An instance that is reported as paused, and may therefore be resumed, has
\* no unfinished task left, once the threads that pause it are through: resume
\* is refused while tasks are still stopping.
SettledPauseIsQuiet ==
    \A i \in Instance :
        row[i] = "paused" /\ Pausers(i) = {} => Quiet(i)

\* No task runs on unwatched: once invoke is over, whatever became of the
\* instance's row meanwhile, the monitor knows the task and its owner.
LiveTaskIsTracked ==
    \A r \in Request : task[r] \in Live /\ pc[r] = "ended" => r \in owned

\* A pause always comes to an end: it is settled or given up.
PauseCompletes ==
    \A i \in Instance : row[i] = "pausing" ~> row[i] # "pausing"

\* The service stops the tasks of a client whose heartbeat is lost, unless
\* the client comes back.
LostOwnerStops ==
    \A r \in Request :
        r \in owned /\ ~Online(OwnerOf[r])
            ~> Online(OwnerOf[r]) \/ task[r] # "running"
=============================================================================
