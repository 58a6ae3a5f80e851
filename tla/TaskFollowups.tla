---------------------------- MODULE TaskFollowups ----------------------------
(***************************************************************************)
(* The durable follow-up of a shipment scan: an intent row is written      *)
(* before the controller is asked to start the source scan, becomes due    *)
(* when the monitor sees the scan end, and is then submitted by the        *)
(* coordinator itself as a customer-notification sync (the compensation),  *)
(* with a claim that lapses, retries, and requeueing at start-up.          *)
(*                                                                         *)
(* An Intent is one source scan's row.  invoke (one thread per intent) and *)
(* the single monitor thread interleave at every store transaction.  A     *)
(* next_attempt_at or claim_until that has passed is "ready".              *)
(***************************************************************************)
EXTENDS Naturals, FiniteSets

CONSTANTS
    Intent,       \* rows of coordination_task_followups, by source request
    Faults,       \* which of the rare events below may happen
    MaxAttempts,  \* followup_max_error_attempts
    MaxCrashes,   \* bound on crashes of the coordinator
    MaxSyncs      \* bound on notification syncs that users start themselves

FaultKinds == {"bind_source_error", \* bind_task_followup_source raises
               "late_error",        \* invoke raises after the source started
               "submit_error",      \* the controller raises on a compensation
               "mark_error",        \* mark_task_followup_submitted raises
               "pass_error",        \* the pass over claimed rows is broken off
               "settle_error"}      \* activate or complete raises

ASSUME FollowupConstants ==
    /\ Faults \subseteq FaultKinds
    /\ {MaxAttempts, MaxCrashes, MaxSyncs} \subseteq Nat
    /\ IsFiniteSet(Intent)

VARIABLES
    state,     \* state column
    ready,     \* rows whose next_attempt_at or claim_until has passed
    attempts,  \* attempt_count, counted up to MaxAttempts
    log,       \* Disturbances in coordination_task_followup_attempts
    pc,        \* where invoke stands for each intent
    source,    \* the source scan's task
    comp,      \* the latest compensation task of each intent
    linked,    \* intents whose submitted_task_id names that latest task
    tracked,   \* _tracked_tasks
    monitor,   \* the monitor: its step and the rows or the task it is at
    syncing,   \* a notification sync some user started is unfinished
    runs,      \* history: compensations the controller accepted, up to 2
    crashes, syncs

rows == <<state, ready, attempts, log>>
tasks == <<source, comp, linked, runs>>
bounds == <<crashes, syncs>>
vars == <<state, ready, attempts, log, pc, source, comp, linked, tracked, monitor,
          syncing, runs, crashes, syncs>>

Final == {"COMPLETED", "FAILED", "CANCELLED"}
RowStates == {"NONE", "REGISTERING", "WAITING_SOURCE", "PENDING", "CLAIMED",
              "SUBMITTED"} \cup Final

\* The outcomes that tell how a row was disturbed; the others are not kept.
Disturbances == {"SOURCE_BIND_RETRY", "SOURCE_SUBMIT_FAILED", "SUBMIT_EXCEPTION",
                 "RECOVERED"}

\* "ended": succeeded, for a scan also failed or blocked; "failed": a sync that
\* did not succeed; "stopped": a scan that was cancelled or paused.
TaskStates == {"none", "live", "ended", "failed", "stopped", "killed"}
Task == {"source", "comp"} \X Intent

TypeOK ==
    /\ state \in [Intent -> RowStates]
    /\ ready \subseteq Intent
    /\ attempts \in [Intent -> 0..MaxAttempts]
    /\ log \in [Intent -> SUBSET Disturbances]
    /\ pc \in [Intent -> {"idle", "registered", "accepted", "bound", "tracked", "over"}]
    /\ source \in [Intent -> TaskStates]
    /\ comp \in [Intent -> TaskStates]
    /\ linked \subseteq Intent
    /\ tracked \subseteq Task
    /\ monitor \in [at : {"visit", "due"}, left : SUBSET Intent]
                   \cup [at : {"settle"}, task : Task]
                   \cup [at : {"mark"}, row : Intent, left : SUBSET Intent]
    /\ syncing \in BOOLEAN
    /\ runs \in [Intent -> 0..2]
    /\ crashes \in 0..MaxCrashes /\ syncs \in 0..MaxSyncs

Visiting == [at |-> "visit", left |-> {}]

Init ==
    /\ state = [f \in Intent |-> "NONE"]
    /\ ready = {}
    /\ attempts = [f \in Intent |-> 0]
    /\ log = [f \in Intent |-> {}]
    /\ pc = [f \in Intent |-> "idle"]
    /\ source = [f \in Intent |-> "none"]
    /\ comp = [f \in Intent |-> "none"]
    /\ linked = {}
    /\ tracked = {}
    /\ monitor = Visiting
    /\ syncing = FALSE
    /\ runs = [f \in Intent |-> 0]
    /\ crashes = 0 /\ syncs = 0

StatusOf(k) == IF k[1] = "source" THEN source[k[2]] ELSE comp[k[2]]

-----------------------------------------------------------------------------
(* Row updates shared by several transactions.                             *)

Note(f, outcome) == log' = [log EXCEPT ![f] = @ \cup ({outcome} \cap Disturbances)]

\* An UPDATE that sets the state, clears claim_until and logs the outcome.
Put(f, to, outcome) ==
    /\ state' = [state EXCEPT ![f] = to]
    /\ ready' = ready \ {f}
    /\ Note(f, outcome)
    /\ UNCHANGED attempts

\* retry_task_followup: whatever the state was, PENDING with a later due time.
Retry(f, outcome) ==
    /\ state' = [state EXCEPT ![f] = "PENDING"]
    /\ ready' = ready \ {f}
    /\ attempts' = [attempts EXCEPT ![f] = IF @ < MaxAttempts THEN @ + 1 ELSE @]
    /\ Note(f, outcome)

-----------------------------------------------------------------------------
(* invoke("submit_task") of a scan that requires the follow-up.            *)

GoTo(f, place) == pc' = [pc EXCEPT ![f] = place]

\* register_task_followup_intent, before the controller sees the scan.
Register(f) ==
    /\ pc[f] = "idle"
    /\ GoTo(f, "registered")
    /\ state' = [state EXCEPT ![f] = "REGISTERING"]
    /\ UNCHANGED <<ready, attempts, log, tasks, tracked, monitor, syncing, bounds>>

SourceAccepted(f) ==
    /\ pc[f] = "registered"
    /\ GoTo(f, "accepted")
    /\ source' = [source EXCEPT ![f] = "live"]
    /\ UNCHANGED <<rows, comp, linked, runs, tracked, monitor, syncing, bounds>>

\* cancel_task_followup_intent for a scan the controller refuses.
SourceRefused(f) ==
    /\ pc[f] = "registered"
    /\ GoTo(f, "over")
    /\ Put(f, IF state[f] = "REGISTERING" THEN "CANCELLED" ELSE state[f], "SOURCE_REJECTED")
    /\ UNCHANGED <<tasks, tracked, monitor, syncing, bounds>>

\* The controller raises: mark_task_followup_failed.
SourceRaises(f) ==
    /\ pc[f] = "registered"
    /\ GoTo(f, "over")
    /\ Put(f, "FAILED", "SOURCE_SUBMIT_FAILED")
    /\ UNCHANGED <<tasks, tracked, monitor, syncing, bounds>>

\* bind_task_followup_source; when it raises the intent is retried at once,
\* without its source.
BindSource(f) ==
    /\ pc[f] = "accepted"
    /\ GoTo(f, "bound")
    /\ \/ /\ state[f] \in {"REGISTERING", "WAITING_SOURCE"}
          /\ state' = [state EXCEPT ![f] = "WAITING_SOURCE"]
          /\ ready' = ready \ {f}
          /\ UNCHANGED <<attempts, log>>
       \/ /\ "bind_source_error" \in Faults
          /\ Retry(f, "SOURCE_BIND_RETRY")
    /\ UNCHANGED <<tasks, tracked, monitor, syncing, bounds>>

\* bind_task, _tracked_tasks.add.
Track(f) ==
    /\ pc[f] = "bound"
    /\ GoTo(f, "tracked")
    /\ tracked' = tracked \cup {<<"source", f>>}
    /\ UNCHANGED <<rows, tasks, monitor, syncing, bounds>>

Return(f) ==
    /\ pc[f] = "tracked"
    /\ GoTo(f, "over")
    /\ UNCHANGED <<rows, tasks, tracked, monitor, syncing, bounds>>

\* Something raises after the controller accepted the scan: the row is marked
\* FAILED whatever it has become.
LateError(f) ==
    /\ "late_error" \in Faults
    /\ pc[f] \in {"bound", "tracked"}
    /\ GoTo(f, "over")
    /\ Put(f, "FAILED", "SOURCE_SUBMIT_FAILED")
    /\ UNCHANGED <<tasks, tracked, monitor, syncing, bounds>>

-----------------------------------------------------------------------------
(* Tasks in the controller.                                                *)

SourceEnds(f) ==
    /\ source[f] = "live"
    /\ \E end \in {"ended", "stopped"} : source' = [source EXCEPT ![f] = end]
    /\ UNCHANGED <<rows, pc, comp, linked, runs, tracked, monitor, syncing, bounds>>

CompensationEnds(f) ==
    /\ comp[f] = "live"
    /\ \E end \in {"ended", "failed"} : comp' = [comp EXCEPT ![f] = end]
    /\ UNCHANGED <<rows, pc, source, linked, runs, tracked, monitor, syncing, bounds>>

\* The controller runs one notification sync at a time, whoever asks.
Busy == syncing \/ \E f \in Intent : comp[f] = "live"

UserSync ==
    /\ ~Busy /\ syncs < MaxSyncs
    /\ syncing' = TRUE /\ syncs' = syncs + 1
    /\ UNCHANGED <<rows, pc, tasks, tracked, monitor, crashes>>

UserSyncEnds ==
    /\ syncing
    /\ syncing' = FALSE
    /\ UNCHANGED <<rows, pc, tasks, tracked, monitor, bounds>>

-----------------------------------------------------------------------------
(* The monitor loop.                                                       *)

\* A tracked task is over: its lease goes and it is no longer tracked.
Observe(k) ==
    /\ monitor = Visiting
    /\ k \in tracked
    /\ StatusOf(k) # "live"
    /\ tracked' = tracked \ {k}
    /\ monitor' = [at |-> "settle", task |-> k]
    /\ UNCHANGED <<rows, pc, tasks, syncing, bounds>>

\* Mutant of Settle: a stopped scan is followed up like any other.
SettleAnyEnd ==
    /\ monitor.at = "settle"
    /\ monitor' = Visiting
    /\ LET f == monitor.task[2] IN
       \/ /\ monitor.task[1] = "source" /\ state[f] = "WAITING_SOURCE"
          /\ state' = [state EXCEPT ![f] = "PENDING"]
          /\ ready' = ready \cup {f}
          /\ UNCHANGED <<attempts, log>>
       \/ /\ monitor.task[1] = "comp" /\ state[f] = "SUBMITTED" /\ f \in linked
          /\ IF comp[f] = "ended" THEN Put(f, "COMPLETED", "COMPLETED")
                                      ELSE Put(f, "FAILED", "TASK_FAILED")
    /\ UNCHANGED <<pc, tasks, tracked, syncing, bounds>>

\* activate_task_followup, then complete_task_followup: the row that waits for
\* this task, if any.
Settle ==
    /\ monitor.at = "settle"
    /\ monitor' = Visiting
    /\ LET f == monitor.task[2]
           waits == monitor.task[1] = "source" /\ state[f] = "WAITING_SOURCE"
           submitted == monitor.task[1] = "comp" /\ state[f] = "SUBMITTED" /\ f \in linked
       IN \/ /\ waits
             /\ state' = [state EXCEPT ![f] = IF source[f] = "stopped" THEN "CANCELLED"
                                              ELSE "PENDING"]
             /\ ready' = IF source[f] = "stopped" THEN ready \ {f} ELSE ready \cup {f}
             /\ UNCHANGED <<attempts, log>>
          \/ /\ submitted
             /\ IF comp[f] = "ended" THEN Put(f, "COMPLETED", "COMPLETED")
                                         ELSE Put(f, "FAILED", "TASK_FAILED")
          \/ ~waits /\ ~submitted /\ UNCHANGED rows
    /\ UNCHANGED <<pc, tasks, tracked, syncing, bounds>>

\* Time passes: a retry becomes due, a claim lapses.
Lapse(f) ==
    /\ state[f] \in {"PENDING", "CLAIMED"}
    /\ f \notin ready
    /\ ready' = ready \cup {f}
    /\ UNCHANGED <<state, attempts, log, pc, tasks, tracked, monitor, syncing, bounds>>

\* Mutant of ClaimDue: any row whose claim_until has passed is claimed.
ClaimLapsed ==
    LET due == {f \in Intent : \/ f \in ready /\ state[f] \in {"PENDING", "CLAIMED"}
                              \/ state[f] = "FAILED"} IN
    /\ monitor = Visiting
    /\ due # {}
    /\ state' = [f \in Intent |-> IF f \in due THEN "CLAIMED" ELSE state[f]]
    /\ ready' = ready \ due
    /\ monitor' = [at |-> "due", left |-> due]
    /\ UNCHANGED <<attempts, log, pc, tasks, tracked, syncing, bounds>>

\* claim_due_task_followups, once the tasks are visited.
ClaimDue ==
    LET due == {f \in ready : state[f] \in {"PENDING", "CLAIMED"}} IN
    /\ monitor = Visiting
    /\ due # {}
    /\ state' = [f \in Intent |-> IF f \in due THEN "CLAIMED" ELSE state[f]]
    /\ ready' = ready \ due
    /\ monitor' = [at |-> "due", left |-> due]
    /\ UNCHANGED <<attempts, log, pc, tasks, tracked, syncing, bounds>>

\* The monitor goes on to the next claimed row, or to its next iteration.
GoOn(left) == monitor' = IF left = {} THEN Visiting ELSE [at |-> "due", left |-> left]

At(f) == monitor.at = "due" /\ f \in monitor.left

\* Another sync holds scan:notification or runs in the same controller.
Conflict(f) ==
    /\ At(f)
    /\ Busy
    /\ Retry(f, "CONFLICT")
    /\ GoOn(monitor.left \ {f})
    /\ UNCHANGED <<pc, tasks, tracked, syncing, bounds>>

\* The controller accepts; its task runs before the row says so.
Accepted(f) ==
    /\ At(f)
    /\ ~Busy
    /\ comp' = [comp EXCEPT ![f] = "live"]
    /\ linked' = linked \ {f}
    /\ runs' = [runs EXCEPT ![f] = IF @ < 2 THEN @ + 1 ELSE @]
    /\ monitor' = [at |-> "mark", row |-> f, left |-> monitor.left \ {f}]
    /\ UNCHANGED <<rows, pc, source, tracked, syncing, bounds>>

\* Refused for good (paused, disabled), or no controller can be loaded.
Refused(f) ==
    /\ At(f)
    /\ ~Busy
    /\ Put(f, "FAILED", "TASK_REJECTED")
    /\ GoOn(monitor.left \ {f})
    /\ UNCHANGED <<pc, tasks, tracked, syncing, bounds>>

\* An exception is retried until the attempts are used up.
RetryOrFail(f) ==
    IF attempts[f] + 1 >= MaxAttempts THEN Put(f, "FAILED", "SUBMIT_EXCEPTION")
                                      ELSE Retry(f, "SUBMIT_EXCEPTION")

SubmitRaises(f) ==
    /\ "submit_error" \in Faults
    /\ At(f)
    /\ RetryOrFail(f)
    /\ GoOn(monitor.left \ {f})
    /\ UNCHANGED <<pc, tasks, tracked, syncing, bounds>>

\* Mutant of Mark: the row keeps its claim.
MarkKeepsClaim ==
    /\ monitor.at = "mark"
    /\ LET f == monitor.row IN
          /\ Put(f, "CLAIMED", "SUBMITTED")
          /\ linked' = linked \cup {f}
          /\ tracked' = tracked \cup {<<"comp", f>>}
    /\ GoOn(monitor.left)
    /\ UNCHANGED <<pc, source, comp, runs, syncing, bounds>>

\* mark_task_followup_submitted, _tracked_tasks.add, bind_task.
Mark ==
    /\ monitor.at = "mark"
    /\ LET f == monitor.row IN
          /\ Put(f, "SUBMITTED", "SUBMITTED")
          /\ linked' = linked \cup {f}
          /\ tracked' = tracked \cup {<<"comp", f>>}
    /\ GoOn(monitor.left)
    /\ UNCHANGED <<pc, source, comp, runs, syncing, bounds>>

\* The mark raises: the accepted task goes on unknown to the coordinator.
MarkRaises ==
    /\ "mark_error" \in Faults
    /\ monitor.at = "mark"
    /\ RetryOrFail(monitor.row)
    /\ GoOn(monitor.left)
    /\ UNCHANGED <<pc, tasks, tracked, syncing, bounds>>

\* An exception outside the loop's own handlers ends the iteration: claimed
\* rows wait for their claim to lapse, a task that was seen is forgotten.
MonitorFails ==
    /\ \/ monitor.at = "due" /\ "pass_error" \in Faults
       \/ monitor.at = "settle" /\ "settle_error" \in Faults
    /\ monitor' = Visiting
    /\ UNCHANGED <<rows, pc, tasks, tracked, syncing, bounds>>

-----------------------------------------------------------------------------
(* Crash and start-up.                                                     *)

\* Mutants of Recovers: rows that wait for their source, or were submitted, are
\* left as they are.
RecoversClaimed(f) == state[f] \in {"REGISTERING", "CLAIMED", "SUBMITTED"}
RecoversUnsubmitted(f) == state[f] \in {"REGISTERING", "WAITING_SOURCE", "CLAIMED"}

\* Rows that recover_task_followups makes due again.
Recovers(f) == state[f] \in {"REGISTERING", "WAITING_SOURCE", "CLAIMED", "SUBMITTED"}

\* The process dies with its threads and tasks; recover_task_followups runs
\* before the next one serves anything.
Crash ==
    /\ crashes < MaxCrashes
    /\ crashes' = crashes + 1
    /\ LET open == {f \in Intent : Recovers(f)}
           dies(s) == IF s = "live" THEN "killed" ELSE s
       IN /\ state' = [f \in Intent |-> IF f \in open THEN "PENDING" ELSE state[f]]
          /\ ready' = ready \cup open
          /\ log' = [f \in Intent |-> IF f \in open THEN log[f] \cup {"RECOVERED"} ELSE log[f]]
          /\ linked' = linked \ open
          /\ source' = [f \in Intent |-> dies(source[f])]
          /\ comp' = [f \in Intent |-> dies(comp[f])]
    /\ pc' = [f \in Intent |-> IF pc[f] = "idle" THEN "idle" ELSE "over"]
    /\ tracked' = {}
    /\ monitor' = Visiting
    /\ syncing' = FALSE
    /\ UNCHANGED <<attempts, runs, syncs>>

-----------------------------------------------------------------------------
Proceed(f) ==
    \/ SourceAccepted(f) \/ SourceRefused(f) \/ SourceRaises(f)
    \/ BindSource(f) \/ Track(f) \/ Return(f) \/ LateError(f)

Process(f) == Conflict(f) \/ Accepted(f) \/ Refused(f) \/ SubmitRaises(f)

Monitor ==
    \/ \E k \in Task : Observe(k)
    \/ Settle \/ ClaimDue \/ Mark \/ MarkRaises \/ MonitorFails
    \/ \E f \in Intent : Process(f)

Next ==
    \/ \E f \in Intent : \/ Register(f) \/ Proceed(f) \/ Lapse(f)
                         \/ SourceEnds(f) \/ CompensationEnds(f)
    \/ UserSync \/ UserSyncEnds
    \/ Monitor \/ Crash

Spec == Init /\ [][Next]_vars

\* invoke's threads and the monitor run while the process lives, time passes.
\* An iteration that breaks off is followed by one that does not.
Fairness ==
    /\ \A f \in Intent :
          /\ WF_vars(Proceed(f))
          /\ WF_vars(Lapse(f))
          /\ SF_vars(Process(f))
    /\ \A k \in Task : WF_vars(Observe(k))
    /\ WF_vars(Settle \/ MonitorFails)
    /\ WF_vars(ClaimDue)
    /\ WF_vars(Mark \/ MarkRaises)

FairSpec == Spec /\ Fairness

-----------------------------------------------------------------------------
(* Properties.                                                             *)

\* A compensation starts only after its source scan has ended by itself.  The
\* exceptions are rows whose source could not be bound and rows requeued by a
\* restart, which no longer know how their source ended.
CompensatesEndedSource ==
    [][\A f \in Intent :
          comp'[f] = "live" /\ comp[f] # "live"
              => \/ source[f] = "ended"
                 \/ log[f] \cap {"SOURCE_BIND_RETRY", "RECOVERED"} # {}]_vars

\* One intent is compensated once, through lapsed claims, conflicts and
\* broken-off passes.  It may run again only after a restart, or after an
\* exception that hid the accepted task.
CompensatedOnce ==
    \A f \in Intent :
        runs[f] > 1 => log[f] \cap {"RECOVERED", "SUBMIT_EXCEPTION"} # {}

\* What a follow-up came to stays: only invoke's own late failure writes over
\* a row that is final, or revives one the monitor is just submitting.
OutcomeStands ==
    [][\A f \in Intent :
          state[f] \in Final /\ state'[f] # state[f]
              => "SOURCE_SUBMIT_FAILED" \in log'[f]]_vars

\* A compensation the coordinator counts as submitted is known to the monitor
\* or is just being settled, so its end reaches the row.
SubmittedIsWatched ==
    \A f \in Intent :
        state[f] = "SUBMITTED"
            => \/ <<"comp", f>> \in tracked
               \/ monitor.at = "settle" /\ monitor.task = <<"comp", f>>

\* Every intent comes to an end, across retries, lapsed claims, broken-off
\* passes and crashes, as long as the tasks themselves end.
IntentSettles ==
    \A f \in Intent :
        /\ \A g \in Intent : []<>(source[g] # "live") /\ []<>(comp[g] # "live")
        /\ []<>~syncing
        => (state[f] # "NONE" ~> state[f] \in Final)
=============================================================================
