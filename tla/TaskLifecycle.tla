---------------------------- MODULE TaskLifecycle ----------------------------
(***************************************************************************)
(* The tasks of one controller and the threads that execute them.  A       *)
(* thread may not return from an external call, so a task can be over while*)
(* its thread is not: it is then abandoned and fenced, and what it reports *)
(* later is ignored.  A run is one submission of a task to an executor; a  *)
(* task that only reads may be run again under the same id.  Each action   *)
(* is one stretch of code under the controller's lock.                     *)
(***************************************************************************)
EXTENDS Naturals

CONSTANTS
    Task,     \* task ids
    Writes,   \* those whose capability writes to a remote system
    MaxRuns,  \* bound on the runs of a task
    Faults    \* rare events that may happen

FaultKinds == {"hasty_retry", "late_block", "late_begin"}

ASSUME TaskConstants ==
    /\ Writes \subseteq Task
    /\ MaxRuns \in Nat \ {0}
    /\ Faults \subseteq FaultKinds

VARIABLES
    status,     \* TaskRecord.status, "none" before the task is submitted
    review,     \* tasks with _manual_review_lock
    pc,         \* where each run stands
    goal,       \* the result a run returned, then the status it is to record
    runs,       \* number of runs
    future,     \* _futures: the run a task id stands for, 0 for none
    abandoned,  \* _abandoned_futures
    fenced,     \* _terminally_fenced_tasks
    reasons,    \* keys of _task_pause_reasons
    cancels,    \* _shutdown_cancel_requested
    answer,     \* _interaction_responses of the one question of a task
    grace,      \* tasks some _enforce_task_pause_after_grace waits for
    stop,       \* policy.emergency_stop_writes
    paused,     \* policy.execution_paused
    closing     \* _closing_requested

records == <<status, review>>
threads == <<pc, goal, runs>>
marks == <<fenced, reasons, cancels>>
gates == <<stop, paused, closing>>
vars == <<status, review, pc, goal, runs, future, abandoned, fenced, reasons,
          cancels, answer, grace, stop, paused, closing>>

Ended == {"succeeded", "failed", "blocked", "paused", "cancelled"}
Statuses == Ended \cup {"none", "queued", "running", "waiting", "stopping"}
Results == {"succeeded", "failed", "blocked", "cancelled", "raised"}
PcStates == {"none", "pending", "picked", "running", "asking", "cleared", "writing",
             "returned", "settling", "storing", "leaving", "done"}
Run == 1..MaxRuns

TypeOK ==
    /\ status \in [Task -> Statuses]
    /\ review \subseteq Task
    /\ pc \in [Task -> [Run -> PcStates]]
    /\ goal \in [Task -> [Run -> Ended \cup Results \cup {"none"}]]
    /\ runs \in [Task -> 0..MaxRuns]
    /\ future \in [Task -> 0..MaxRuns]
    /\ abandoned \in [Task -> 0..MaxRuns]
    /\ fenced \subseteq Task
    /\ reasons \subseteq Task
    /\ cancels \subseteq Task
    /\ answer \in [Task -> {"none", "yes", "no"}]
    /\ grace \subseteq Task
    /\ stop \in BOOLEAN /\ paused \in BOOLEAN /\ closing \in BOOLEAN

Init ==
    /\ status = [t \in Task |-> "none"]
    /\ review = {}
    /\ pc = [t \in Task |-> [k \in Run |-> "none"]]
    /\ goal = [t \in Task |-> [k \in Run |-> "none"]]
    /\ runs = [t \in Task |-> 0]
    /\ future = [t \in Task |-> 0]
    /\ abandoned = [t \in Task |-> 0]
    /\ fenced = {}
    /\ reasons = {}
    /\ cancels = {}
    /\ answer = [t \in Task |-> "none"]
    /\ grace = {}
    /\ stop = FALSE
    /\ paused = FALSE
    /\ closing = FALSE

Over(t) == status[t] \in Ended \cup {"none"}
GoTo(t, k, place) == pc' = [pc EXCEPT ![t][k] = place]

\* The future of a task, and whether a thread has it in hand.
Pending(t) == future[t] # 0 /\ pc[t][future[t]] = "pending"
Undone(t) == future[t] # 0 /\ pc[t][future[t]] # "done"
InHand(t) == Undone(t) /\ ~Pending(t)
HasActiveTasks == \E t \in Task : Undone(t)

\* Mutant of Ignored: only what would set a stopping task going is ignored.
IgnoredWhileStopping(t, s, fences) == t \in reasons /\ s \in {"queued", "running", "waiting"}

\* What set_task_status ignores: late steps of a stopping task and of a thread
\* that was given up.
Ignored(t, s, fences) ==
    \/ t \in reasons /\ s \in {"queued", "running", "waiting"}
    \/ t \in fences /\ s \notin {"paused", "blocked"}

\* set_task_status(t, s) by a caller that holds the lock.
Put(t, s) == IF Ignored(t, s, fenced) THEN status ELSE [status EXCEPT ![t] = s]

-----------------------------------------------------------------------------
(* Submission.                                                             *)

\* effective_mode_for is not DISABLED.
Enabled(t) == ~paused /\ (t \in Writes => ~stop)

Enqueue(t, k) ==
    /\ status' = [status EXCEPT ![t] = "queued"]
    /\ runs' = [runs EXCEPT ![t] = k]
    /\ GoTo(t, k, "pending")
    /\ future' = [future EXCEPT ![t] = k]

Submit(t) ==
    /\ status[t] = "none"
    /\ ~closing
    /\ Enabled(t)
    /\ Enqueue(t, 1)
    /\ UNCHANGED <<review, goal, abandoned, marks, answer, grace, gates>>

\* Mutant of Retry: the thread that was given up is not asked for.
RetryBeside(t) ==
    /\ t \notin Writes
    /\ status[t] \in {"failed", "blocked", "paused", "cancelled"}
    /\ Undone(t) => "hasty_retry" \in Faults
    /\ Enabled(t)
    /\ runs[t] < MaxRuns
    /\ Enqueue(t, runs[t] + 1)
    /\ UNCHANGED <<review, goal, abandoned, marks, answer, grace, gates>>

\* retry_task: refused for writes and while the thread that was given up runs.
\* A retry before the last run has left its finally, in particular of a task
\* cancelled under its thread, is the fault hasty_retry.
Retry(t) ==
    /\ t \notin Writes
    /\ abandoned[t] = 0
    /\ status[t] \in {"failed", "blocked", "paused", "cancelled"}
    /\ Undone(t) => "hasty_retry" \in Faults
    /\ Enabled(t)
    /\ runs[t] < MaxRuns
    /\ Enqueue(t, runs[t] + 1)
    /\ UNCHANGED <<review, goal, abandoned, marks, answer, grace, gates>>

-----------------------------------------------------------------------------
(* A thread: _execute_task and the runner it calls.                        *)

rest == <<review, goal, runs, future, abandoned, marks, grace, gates>>

\* The executor takes the run; its future can no longer be cancelled.
Pick(t, k) ==
    /\ pc[t][k] = "pending"
    /\ GoTo(t, k, "picked")
    /\ UNCHANGED <<status, answer, rest>>

Begin(t, k) ==
    /\ pc[t][k] = "picked"
    /\ \/ /\ status[t] # "queued"
          /\ GoTo(t, k, "leaving")
          /\ UNCHANGED status
       \/ /\ status[t] = "queued" /\ (closing \/ ~Enabled(t))
          /\ GoTo(t, k, "leaving")
          /\ status' = Put(t, "cancelled")
       \/ /\ status[t] = "queued" /\ ~closing /\ Enabled(t)
          /\ GoTo(t, k, "running")
          /\ status' = Put(t, "running")
    /\ UNCHANGED <<answer, rest>>

\* request_interaction: a question to the user, or a step delegated to the
\* desktop's browser, during which the task counts as running.
Ask(t, k) ==
    /\ pc[t][k] = "running"
    /\ ~closing /\ ~paused /\ t \notin reasons
    /\ GoTo(t, k, "asking")
    /\ \E s \in {"waiting", "running"} : status' = Put(t, s)
    /\ answer' = [answer EXCEPT ![t] = "none"]
    /\ UNCHANGED rest

RespondInteraction(t) ==
    /\ \E k \in Run : pc[t][k] = "asking"
    /\ answer[t] = "none"
    /\ \E a \in {"yes", "no"} : answer' = [answer EXCEPT ![t] = a]
    /\ UNCHANGED <<records, threads, future, abandoned, marks, grace, gates>>

\* A thread whose question is rejected returns; one that may go on does.
Wake(t, k) ==
    /\ pc[t][k] = "asking"
    /\ answer[t] # "none"
    /\ answer' = [answer EXCEPT ![t] = "none"]
    /\ status' = IF Over(t) THEN status ELSE Put(t, "running")
    /\ GoTo(t, k, IF answer[t] = "yes" THEN "running" ELSE "returned")
    /\ goal' = IF answer[t] = "yes" THEN goal ELSE [goal EXCEPT ![t][k] = "cancelled"]
    /\ UNCHANGED <<review, runs, future, abandoned, marks, grace, gates>>

\* The guard the runner asks before each external write; the write follows
\* without the lock.
Guard(t, k) ==
    /\ pc[t][k] = "running"
    /\ t \in Writes
    /\ ~stop /\ ~paused /\ t \notin cancels \cup reasons
    /\ GoTo(t, k, "cleared")
    /\ UNCHANGED <<status, answer, rest>>

Write(t, k) ==
    /\ pc[t][k] = "cleared"
    /\ GoTo(t, k, "writing")
    /\ UNCHANGED <<status, answer, rest>>

\* A write that returned may be followed by another step.
Written(t, k) ==
    /\ pc[t][k] = "writing"
    /\ GoTo(t, k, "running")
    /\ UNCHANGED <<status, answer, rest>>

Return(t, k) ==
    /\ pc[t][k] \in {"running", "writing"}
    /\ GoTo(t, k, "returned")
    /\ \E r \in Results : goal' = [goal EXCEPT ![t][k] = r]
    /\ UNCHANGED <<records, runs, future, abandoned, marks, answer, grace, gates>>

\* What becomes of the result: of a task that is to stop, and of any other.
Verdict(t, result) ==
    LET stopped == t \in reasons \/ (paused /\ result # "raised")
        uncertain == result = "blocked" \/ (result = "raised" /\ t \in Writes)
    IN CASE stopped /\ uncertain -> "blocked"
         [] stopped /\ ~uncertain -> "paused"
         [] ~stopped /\ result = "raised" -> "failed"
         [] OTHER -> result

\* The result is looked at under the lock; the status is recorded later.
Judge(t, k) ==
    /\ pc[t][k] = "returned"
    /\ \/ /\ t \in fenced
          /\ GoTo(t, k, "leaving")
          /\ UNCHANGED <<review, goal>>
       \/ /\ t \notin fenced
          /\ GoTo(t, k, "settling")
          /\ LET v == Verdict(t, goal[t][k])
                 stopped == t \in reasons \/ (paused /\ goal[t][k] # "raised")
             IN /\ goal' = [goal EXCEPT ![t][k] = v]
                /\ review' = IF stopped /\ v = "blocked" THEN review \cup {t} ELSE review
    /\ UNCHANGED <<status, runs, future, abandoned, marks, answer, grace, gates>>

\* set_task_status checks under the lock, and sets under the lock again.
Check(t, k) ==
    /\ pc[t][k] = "settling"
    /\ GoTo(t, k, IF Ignored(t, goal[t][k], fenced) THEN "leaving" ELSE "storing")
    /\ UNCHANGED <<status, answer, rest>>

Store(t, k) ==
    /\ pc[t][k] = "storing"
    /\ status' = [status EXCEPT ![t] = goal[t][k]]
    /\ GoTo(t, k, "leaving")
    /\ UNCHANGED <<answer, rest>>

\* finally: whatever is filed under the task's id goes.
Finally(t, k) ==
    /\ pc[t][k] = "leaving"
    /\ GoTo(t, k, "done")
    /\ goal' = [goal EXCEPT ![t][k] = "none"]
    /\ future' = [future EXCEPT ![t] = 0]
    /\ abandoned' = [abandoned EXCEPT ![t] = 0]
    /\ fenced' = fenced \ {t}
    /\ cancels' = cancels \ {t}
    /\ reasons' = reasons \ {t}
    /\ UNCHANGED <<records, runs, answer, grace, gates>>

-----------------------------------------------------------------------------
(* Stopping tasks.                                                         *)

\* Every open question of the tasks in ts is answered with no.
Reject(ts) ==
    [t \in Task |-> IF t \in ts /\ answer[t] = "none" /\ (\E k \in Run : pc[t][k] = "asking")
                    THEN "no" ELSE answer[t]]

Cancelled(ts) ==
    [t \in Task |-> [k \in Run |-> IF t \in ts /\ k = future[t] THEN "done" ELSE pc[t][k]]]

\* cancel_task: at once when nothing can be under way outside, else by request.
CancelTask(t) ==
    /\ status[t] # "none"
    /\ \/ /\ InHand(t)
          /\ cancels' = cancels \cup {t}
          /\ answer' = Reject({t})
          /\ IF status[t] = "waiting" \/ t \notin Writes
             THEN status' = Put(t, "cancelled") /\ fenced' = fenced \cup {t}
             ELSE UNCHANGED <<status, fenced>>
          /\ UNCHANGED pc
       \/ /\ ~InHand(t)
          /\ ~Over(t)
          /\ pc' = IF Pending(t) THEN Cancelled({t}) ELSE pc
          /\ status' = [status EXCEPT ![t] = "cancelled"]
          /\ UNCHANGED <<cancels, fenced, answer>>
    /\ UNCHANGED <<review, goal, runs, future, abandoned, reasons, grace, gates>>

\* Mutant of PauseTasks: a task is at rest unless it is seen to write.
PauseAsRead(ts) ==
    LET targets == {t \in ts : ~Over(t)}
        idle == {t \in targets : ~InHand(t)}
        held == targets \ idle
    IN
    /\ status' = [t \in Task |-> IF t \in targets THEN "paused" ELSE status[t]]
    /\ pc' = Cancelled({t \in idle : Pending(t)})
    /\ future' = [t \in Task |-> IF t \in targets THEN 0 ELSE future[t]]
    /\ abandoned' = [t \in Task |-> IF t \in held THEN future[t] ELSE abandoned[t]]
    /\ fenced' = fenced \cup held
    /\ reasons' = reasons \cup held
    /\ cancels' = cancels \cup held
    /\ answer' = Reject(held)
    /\ UNCHANGED <<review, goal, runs, grace>>

\* pause_tasks.  Tasks without a thread are paused; a thread that reads or waits
\* for its user is given up; one that may be writing is asked to stop, and an
\* enforcer is started for it.  late_begin: that thread has not begun yet.
PauseTasks(ts) ==
    LET targets == {t \in ts : ~Over(t)}
        idle == {t \in targets : ~InHand(t)}
        held == targets \ idle
        atRest == {t \in held : status[t] = "waiting" \/ t \notin Writes}
    IN
    /\ "late_begin" \in Faults \/ \A t \in held \ atRest : pc[t][future[t]] # "picked"
    /\ status' = [t \in Task |->
                    CASE t \in idle \cup atRest -> "paused"
                      [] t \in held \ atRest -> IF t \in fenced THEN status[t] ELSE "stopping"
                      [] OTHER -> status[t]]
    /\ pc' = Cancelled({t \in idle : Pending(t)})
    /\ future' = [t \in Task |-> IF t \in idle \cup atRest THEN 0 ELSE future[t]]
    /\ abandoned' = [t \in Task |-> IF t \in atRest THEN future[t] ELSE abandoned[t]]
    /\ fenced' = fenced \cup atRest
    /\ reasons' = reasons \cup held
    /\ cancels' = cancels \cup held
    /\ answer' = Reject(held)
    /\ grace' = grace \cup (held \ atRest)
    /\ UNCHANGED <<review, goal, runs>>

PauseSome(t) ==
    /\ ~Over(t)
    /\ PauseTasks({t})
    /\ UNCHANGED gates

\* Mutant of Enforce: a future that is still in hand is only forgotten.
EnforceForgets(t) ==
    LET stuck == t \in reasons /\ Undone(t)
        ends == stuck /\ ~Over(t)
    IN
    /\ t \in grace
    /\ grace' = grace \ {t}
    /\ future' = IF stuck THEN [future EXCEPT ![t] = 0] ELSE future
    /\ fenced' = IF ends THEN fenced \cup {t} ELSE fenced
    /\ review' = IF ends /\ t \in Writes THEN review \cup {t} ELSE review
    /\ status' = IF ends THEN [status EXCEPT ![t] = IF t \in Writes THEN "blocked" ELSE "paused"]
                 ELSE status
    /\ UNCHANGED <<threads, abandoned, reasons, cancels, answer, gates>>

\* Mutant of Enforce: the fence is enough, the status will follow.
EnforceLater(t) ==
    LET stuck == t \in reasons /\ Undone(t) IN
    /\ t \in grace
    /\ grace' = grace \ {t}
    /\ fenced' = IF stuck THEN fenced \cup {t} ELSE fenced
    /\ future' = IF stuck THEN [future EXCEPT ![t] = 0] ELSE future
    /\ abandoned' = IF stuck THEN [abandoned EXCEPT ![t] = future[t]] ELSE abandoned
    /\ review' = IF stuck /\ t \in Writes THEN review \cup {t} ELSE review
    /\ UNCHANGED <<status, threads, reasons, cancels, answer, gates>>

\* _enforce_task_pause_after_grace gives up a thread that is still at it.
Enforce(t) ==
    LET stuck == t \in reasons /\ Undone(t)
        ends == stuck /\ ~Over(t)
    IN
    /\ t \in grace
    /\ grace' = grace \ {t}
    /\ future' = IF stuck THEN [future EXCEPT ![t] = 0] ELSE future
    /\ abandoned' = IF stuck THEN [abandoned EXCEPT ![t] = future[t]] ELSE abandoned
    /\ fenced' = IF ends THEN fenced \cup {t} ELSE fenced
    /\ review' = IF ends /\ t \in Writes THEN review \cup {t} ELSE review
    /\ status' = IF ends THEN [status EXCEPT ![t] = IF t \in Writes THEN "blocked" ELSE "paused"]
                 ELSE status
    /\ UNCHANGED <<threads, reasons, cancels, answer, gates>>

\* A task failed for a reason its queued like share; late_block: one of them has
\* begun since it was seen queued.
BlockQueued(t) ==
    /\ status[t] = "queued" \/ (status[t] = "running" /\ "late_block" \in Faults)
    /\ status' = Put(t, "blocked")
    /\ UNCHANGED <<review, threads, future, abandoned, marks, answer, grace, gates>>

\* An operator who knows what became of the write unlocks the order.
Resolve(t) ==
    /\ t \in review
    /\ \A k \in Run : pc[t][k] \notin {"cleared", "writing"}
    /\ review' = review \ {t}
    /\ UNCHANGED <<status, threads, future, abandoned, marks, answer, grace, gates>>

-----------------------------------------------------------------------------
(* The controller's gates.                                                 *)

\* set_execution_paused.
PauseExecution ==
    /\ ~paused
    /\ paused' = TRUE
    /\ PauseTasks(Task)
    /\ UNCHANGED <<stop, closing>>

ResumeExecution ==
    /\ paused
    /\ ~HasActiveTasks
    /\ paused' = FALSE
    /\ UNCHANGED <<records, threads, future, abandoned, marks, answer, grace, stop, closing>>

\* set_emergency_stop_writes.
StopWrites ==
    LET queued == {t \in Writes : Pending(t)}
        running == {t \in Writes : InHand(t)}
    IN
    /\ ~stop
    /\ stop' = TRUE
    /\ status' = [t \in Task |-> IF t \in queued THEN Put(t, "cancelled")[t] ELSE status[t]]
    /\ pc' = Cancelled(queued)
    /\ future' = [t \in Task |-> IF t \in queued THEN 0 ELSE future[t]]
    /\ cancels' = cancels \cup running
    /\ answer' = Reject(Writes)
    /\ UNCHANGED <<review, goal, runs, abandoned, fenced, reasons, grace, paused, closing>>

ReleaseWrites ==
    /\ stop
    /\ ~HasActiveTasks
    /\ stop' = FALSE
    /\ UNCHANGED <<records, threads, future, abandoned, marks, answer, grace, paused, closing>>

\* prepare_close.
PrepareClose ==
    /\ ~closing
    /\ closing' = TRUE
    /\ paused' = TRUE
    /\ PauseTasks(IF paused THEN {} ELSE Task)
    /\ UNCHANGED stop

-----------------------------------------------------------------------------
Thread(t, k) ==
    \/ Pick(t, k) \/ Begin(t, k) \/ Ask(t, k) \/ Wake(t, k) \/ Guard(t, k)
    \/ Write(t, k) \/ Written(t, k) \/ Return(t, k)
    \/ Judge(t, k) \/ Check(t, k) \/ Store(t, k) \/ Finally(t, k)

Next ==
    \/ \E t \in Task, k \in Run : Thread(t, k)
    \/ \E t \in Task :
          \/ Submit(t) \/ Retry(t) \/ RespondInteraction(t) \/ CancelTask(t)
          \/ PauseSome(t) \/ Enforce(t) \/ BlockQueued(t) \/ Resolve(t)
    \/ PauseExecution \/ ResumeExecution \/ StopWrites \/ ReleaseWrites \/ PrepareClose

Spec == Init /\ [][Next]_vars

\* The grace period of every enforcer ends.  No fairness for the threads: an
\* external call may never return.
FairSpec == Spec /\ \A t \in Task : WF_vars(Enforce(t))

-----------------------------------------------------------------------------
(* Properties.                                                             *)

\* A task that is over while its thread has a write outside is flagged for
\* review, however it came to be over: only then is its lock kept when its
\* lease goes.
OutstandingIsFlagged ==
    \A t \in Writes, k \in Run :
        pc[t][k] = "writing" /\ status[t] \in Ended => t \in review

\* "To avoid executing it twice": no two threads work on one task.
OneThreadPerTask ==
    \A t \in Task, k, l \in Run :
        {pc[t][k], pc[t][l]} \subseteq {"running", "asking", "cleared", "writing"} => k = l

\* A thread at work is on the books, so that a release of the stop, a resume
\* or a maintenance step that looks there does not overlook it.
ThreadIsOnTheBooks ==
    \A t \in Task, k \in Run :
        pc[t][k] \in {"running", "asking", "cleared", "writing"}
            => k \in {future[t], abandoned[t]}

\* What a thread reports late does not bring a task back that is over; only a
\* retry queues it again.
OverIsOver ==
    [][\A t \in Task :
          status[t] \in Ended /\ status'[t] \notin Ended
              => status'[t] = "queued" /\ runs'[t] = runs[t] + 1]_vars

\* A task told to stop is over when its grace period ends, though its thread
\* never returns.
StoppingEnds ==
    \A t \in Task : status[t] = "stopping" ~> status[t] \in Ended
=============================================================================
