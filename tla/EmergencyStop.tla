---------------------------- MODULE EmergencyStop ----------------------------
(***************************************************************************)
(* The global stop of ERP writes.  The service holds one flag, in memory   *)
(* and in its database, and every operator's controller a flag of its own, *)
(* in memory and in its configuration file; only the controller's flag     *)
(* keeps a write from starting.  Raising and lifting the stop visit the    *)
(* controllers one after another under the policy lock, which loading and  *)
(* evicting a controller take too and ordinary calls do not: tasks are     *)
(* submitted, started and finished between any two steps.                  *)
(*                                                                         *)
(* A controller has at most one task here: a write that is queued, running *)
(* or over with its future not yet done ("ending"), or one that only reads.*)
(***************************************************************************)
EXTENDS Naturals

CONSTANTS
    Operator,   \* operators; each has a controller while it is loaded
    None,       \* the service's flag before any controller was loaded
    Faults,     \* rare events that may happen
    MaxCrashes  \* bound on deaths of the process

FaultKinds == {"save_error", "snapshot_error", "crash_recovery"}

ASSUME StopConstants ==
    /\ Faults \subseteq FaultKinds
    /\ None \notin BOOLEAN
    /\ MaxCrashes \in Nat

VARIABLES
    boot,      \* the process: down, its old leases deleted, or serving
    flag,      \* _global_emergency_stop
    stored,    \* coordination_settings: emergency_stop_writes
    loaded,    \* _operator_controllers
    stopped,   \* controllers whose policy says emergency_stop_writes
    saved,     \* controllers whose file says erp_writes_enabled = False
    work,      \* the task of each controller
    marked,    \* controllers whose journal of the day has an interrupted task
    leases,    \* task leases are left in the database of a dead process
    op,        \* the policy transition under way
    armed,     \* history: no write may start
    imported,  \* history: controllers stopped by an import alone
    crashes

service == <<boot, flag, stored, leases>>
controllers == <<loaded, stopped, saved>>
vars == <<boot, flag, stored, loaded, stopped, saved, work, marked, leases, op,
          armed, imported, crashes>>

WorkStates == {"none", "queued", "running", "ending", "reading"}
Transitions == {"idle", "stopping", "checking", "lifting", "undoing"}

\* todo: controllers still to visit; targets: those the preflight found
\* stopped; bad: the preflight is blocked, or the rollback failed somewhere;
\* joins: a controller that is loaded when the transition is over.
Idle == [kind |-> "idle", todo |-> {}, targets |-> {}, bad |-> FALSE, joins |-> {}]

TypeOK ==
    /\ boot \in {"down", "cleared", "up"}
    /\ flag \in BOOLEAN \cup {None}
    /\ stored \in BOOLEAN \cup {None}
    /\ loaded \subseteq Operator
    /\ stopped \subseteq Operator
    /\ saved \subseteq Operator
    /\ work \in [Operator -> WorkStates]
    /\ marked \subseteq Operator
    /\ leases \in BOOLEAN
    /\ op \in [kind : Transitions, todo : SUBSET Operator, targets : SUBSET Operator,
               bad : BOOLEAN, joins : SUBSET Operator]
    /\ armed \in BOOLEAN
    /\ imported \subseteq Operator
    /\ crashes \in Nat

Init ==
    /\ boot = "up"
    /\ flag = None
    /\ stored = None
    /\ loaded = {}
    /\ stopped = {}
    /\ saved \in SUBSET Operator
    /\ work = [o \in Operator |-> "none"]
    /\ marked = {}
    /\ leases = FALSE
    /\ op = Idle
    /\ armed = FALSE
    /\ imported = {}
    /\ crashes = 0

Free == boot = "up" /\ op.kind = "idle"
Active == {o \in Operator : work[o] \in {"queued", "running", "reading"}}

-----------------------------------------------------------------------------
(* A controller's set_emergency_stop_writes.                               *)

\* What a save leaves in the file.
Saves(set, o, enabled) ==
    {IF enabled THEN set \cup {o} ELSE set \ {o}}
        \cup (IF "save_error" \in Faults THEN {set} ELSE {})

\* set_emergency_stop_writes(True): the flag stands even if it is not saved;
\* a queued write is cancelled unless a worker is just about to begin it.
Stop(o) ==
    /\ stopped' = stopped \cup {o}
    /\ saved' \in Saves(saved, o, TRUE)
    /\ \/ UNCHANGED work
       \/ work[o] = "queued" /\ work' = [work EXCEPT ![o] = "none"]
    /\ imported' = imported \ {o}

\* set_emergency_stop_writes(False) that is accepted.
Lift(o) ==
    /\ \/ o \notin stopped /\ UNCHANGED saved
       \/ o \in stopped /\ work[o] = "none" /\ saved' = saved \ {o}
    /\ stopped' = stopped \ {o}
    /\ imported' = imported \ {o}
    /\ UNCHANGED work

\* ... that is refused: some future is not done, or the flag cannot be saved.
RefusesLift(o) ==
    /\ o \in stopped
    /\ work[o] # "none" \/ "save_error" \in Faults
    /\ UNCHANGED <<stopped, saved, work, imported>>

-----------------------------------------------------------------------------
(* Controllers come and go.                                                *)

\* A transition that stops every controller, the new one included.
Stopping(joins) ==
    [Idle EXCEPT !.kind = "stopping", !.todo = loaded \cup joins, !.joins = joins]

\* The flag a controller is built with: its file's, unless the file cannot be
\* read or the journal holds an interrupted task.
Built(o) == {TRUE, (o \in saved \cup marked)}

\* Mutant of Load: a new controller keeps the flag it was built with.
LoadAsBuilt(o) ==
    /\ Free
    /\ o \notin loaded
    /\ loaded' = loaded \cup {o}
    /\ \E own \in Built(o) :
          /\ stopped' = IF own THEN stopped \cup {o} ELSE stopped \ {o}
          /\ flag' = IF flag = None THEN own ELSE flag
          /\ stored' = IF flag = None THEN own ELSE stored
          /\ imported' = imported \ {o}
    /\ UNCHANGED <<boot, saved, leases, op, work, marked, armed, crashes>>

\* _controller_for of an operator without a controller.
Load(o) ==
    /\ Free
    /\ o \notin loaded
    /\ \E own \in Built(o) :
          \/ /\ flag = None
             /\ flag' = own
             /\ stored' = own
             /\ stopped' = IF own THEN stopped \cup {o} ELSE stopped \ {o}
             /\ loaded' = loaded \cup {o}
             /\ imported' = imported \ {o}
             /\ UNCHANGED <<saved, op>>
          \/ /\ flag = TRUE
             /\ stopped' = stopped \cup {o}
             /\ saved' \in Saves(saved, o, TRUE)
             /\ loaded' = loaded \cup {o}
             /\ imported' = imported \ {o}
             /\ UNCHANGED <<flag, stored, op>>
          \/ /\ flag = FALSE
             /\ stopped' = stopped \ {o}
             /\ saved' = IF own THEN saved \ {o} ELSE saved
             /\ loaded' = loaded \cup {o}
             /\ imported' = imported \ {o}
             /\ UNCHANGED <<flag, stored, op>>
          \/ /\ flag = FALSE /\ own /\ "save_error" \in Faults
             /\ stopped' = stopped \cup {o}
             /\ flag' = TRUE
             /\ stored' = TRUE
             /\ op' = Stopping({o})
             /\ UNCHANGED <<loaded, saved, imported>>
    /\ UNCHANGED <<boot, leases, work, marked, armed, crashes>>

\* _evict_idle_operator_controllers_locked; a review flag may be resolved.
Evict(o) ==
    /\ Free
    /\ o \in loaded
    /\ work[o] = "none"
    /\ loaded' = loaded \ {o}
    /\ UNCHANGED <<service, stopped, saved, work, marked, op, armed, imported, crashes>>

\* import_portable_migration: the imported configuration never allows writes,
\* and takes the controller's lock only.
Import(o) ==
    /\ boot = "up"
    /\ o \in loaded
    /\ work[o] = "none"
    /\ stopped' = stopped \cup {o}
    /\ saved' = saved \cup {o}
    /\ imported' = IF o \in stopped THEN imported ELSE imported \cup {o}
    /\ UNCHANGED <<service, loaded, work, marked, op, armed, crashes>>

-----------------------------------------------------------------------------
(* Tasks.                                                                  *)

SetWork(o, state) ==
    /\ boot = "up"
    /\ o \in loaded
    /\ work' = [work EXCEPT ![o] = state]
    /\ UNCHANGED <<service, controllers, marked, op, armed, imported, crashes>>

SubmitWrite(o) == work[o] = "none" /\ o \notin stopped /\ SetWork(o, "queued")
SubmitRead(o) == work[o] = "none" /\ SetWork(o, "reading")

\* _execute_task looks at the effective mode again before it starts.
Begin(o) ==
    /\ work[o] = "queued"
    /\ SetWork(o, IF o \in stopped THEN "ending" ELSE "running")

Finish(o) == work[o] = "running" /\ SetWork(o, "ending")

Retire(o) == work[o] \in {"ending", "reading"} /\ SetWork(o, "none")

-----------------------------------------------------------------------------
(* Raising the stop.                                                       *)

\* Mutant of Activate: the flag is raised in memory only.
ActivateUnstored ==
    /\ Free
    /\ loaded # {}
    /\ flag' = TRUE
    /\ op' = Stopping({})
    /\ UNCHANGED <<boot, stored, leases, controllers, work, marked, armed, imported, crashes>>

\* _activate_global_emergency_stop publishes the flag before any controller.
Activate ==
    /\ Free
    /\ loaded # {}
    /\ flag' = TRUE
    /\ stored' = TRUE
    /\ op' = Stopping({})
    /\ UNCHANGED <<boot, leases, controllers, work, marked, armed, imported, crashes>>

StopNext(o) ==
    /\ op.kind = "stopping"
    /\ o \in op.todo
    /\ Stop(o)
    /\ op' = [op EXCEPT !.todo = @ \ {o}]
    /\ UNCHANGED <<service, loaded, marked, armed, crashes>>

StopDone ==
    /\ op.kind = "stopping"
    /\ op.todo = {}
    /\ op' = Idle
    /\ loaded' = loaded \cup op.joins
    /\ armed' = TRUE
    /\ UNCHANGED <<service, stopped, saved, work, marked, imported, crashes>>

-----------------------------------------------------------------------------
(* Lifting it: _release_global_emergency_stop.                             *)

AskRelease ==
    /\ Free
    /\ loaded # {}
    /\ op' = [Idle EXCEPT !.kind = "checking", !.todo = loaded]
    /\ UNCHANGED <<service, controllers, work, marked, armed, imported, crashes>>

\* The preflight: one snapshot per controller.
CheckNext(o) ==
    /\ op.kind = "checking"
    /\ o \in op.todo
    /\ \/ op' = [op EXCEPT !.todo = @ \ {o},
                           !.targets = IF o \in stopped THEN @ \cup {o} ELSE @,
                           !.bad = @ \/ (o \in stopped \cap Active)]
       \/ /\ "snapshot_error" \in Faults
          /\ op' = [op EXCEPT !.todo = @ \ {o}, !.bad = TRUE]
    /\ UNCHANGED <<service, controllers, work, marked, armed, imported, crashes>>

Checked == op.kind = "checking" /\ op.todo = {}

\* Mutant of Blocked: the preflight is repeated until nothing blocks it.
BlockedWaits ==
    /\ Checked
    /\ op.bad
    /\ op' = [Idle EXCEPT !.kind = "checking", !.todo = loaded]
    /\ UNCHANGED <<service, controllers, work, marked, armed, imported, crashes>>

\* Some controller cannot be released: nothing changes, unless the service
\* itself was already released, which is then taken back.
Blocked ==
    /\ Checked
    /\ op.bad
    /\ op' = IF flag = TRUE THEN Idle ELSE Stopping({})
    /\ flag' = TRUE
    /\ stored' = IF flag = TRUE THEN stored ELSE TRUE
    /\ UNCHANGED <<boot, leases, controllers, work, marked, armed, imported, crashes>>

\* Nothing to do, or the first controller is next.
Lifting ==
    /\ Checked
    /\ ~op.bad
    /\ LET already == op.targets = {} /\ flag = FALSE IN
          /\ op' = IF already THEN Idle
                   ELSE [op EXCEPT !.kind = "lifting", !.todo = op.targets]
          /\ armed' = IF already THEN armed ELSE FALSE
    /\ UNCHANGED <<service, controllers, work, marked, imported, crashes>>

LiftNext(o) ==
    /\ op.kind = "lifting"
    /\ o \in op.todo
    /\ \/ /\ Lift(o)
          /\ op' = [op EXCEPT !.todo = @ \ {o}]
       \/ /\ RefusesLift(o)
          /\ op' = [op EXCEPT !.kind = "undoing", !.todo = loaded]
    /\ UNCHANGED <<service, loaded, marked, armed, crashes>>

LiftDone ==
    /\ op.kind = "lifting"
    /\ op.todo = {}
    /\ op' = Idle
    /\ flag' = FALSE
    /\ stored' = FALSE
    /\ UNCHANGED <<boot, leases, controllers, work, marked, armed, imported, crashes>>

\* The rollback gives every controller the flag the preflight saw.
UndoNext(o) ==
    /\ op.kind = "undoing"
    /\ o \in op.todo
    /\ \/ /\ o \in op.targets
          /\ Stop(o)
          /\ \E failed \in BOOLEAN :
                /\ failed => "save_error" \in Faults
                /\ ~failed => o \in saved'
                /\ op' = [op EXCEPT !.todo = @ \ {o}, !.bad = @ \/ failed]
       \/ /\ o \notin op.targets
          /\ Lift(o)
          /\ op' = [op EXCEPT !.todo = @ \ {o}]
       \/ /\ o \notin op.targets
          /\ RefusesLift(o)
          /\ op' = [op EXCEPT !.todo = @ \ {o}, !.bad = TRUE]
    /\ UNCHANGED <<service, loaded, marked, armed, crashes>>

\* Mutant of UndoDone: a rollback that failed somewhere is left at that.
UndoDoneAnyway ==
    /\ op.kind = "undoing"
    /\ op.todo = {}
    /\ op' = Idle
    /\ armed' = (flag = TRUE)
    /\ UNCHANGED <<service, controllers, work, marked, imported, crashes>>

\* A rollback to "released", or one that failed, ends in a stop of everything.
UndoDone ==
    /\ op.kind = "undoing"
    /\ op.todo = {}
    /\ LET again == flag = FALSE \/ op.bad IN
          /\ op' = IF again THEN Stopping({}) ELSE Idle
          /\ flag' = TRUE
          /\ stored' = TRUE
          /\ armed' = ~again
    /\ UNCHANGED <<boot, leases, controllers, work, marked, imported, crashes>>

-----------------------------------------------------------------------------
(* The process dies and starts again.                                      *)

Crash ==
    /\ crashes < MaxCrashes
    /\ boot \in {"up"} \cup (IF "crash_recovery" \in Faults THEN {"cleared"} ELSE {})
    /\ crashes' = crashes + 1
    /\ boot' = "down"
    /\ loaded' = {}
    /\ op' = Idle
    /\ work' = [o \in Operator |-> "none"]
    /\ marked' = marked \cup Active
    /\ leases' \in {TRUE, leases \/ Active # {}}
    /\ armed' = (armed \/ Active # {})
    /\ UNCHANGED <<flag, stored, stopped, saved, imported>>

\* __init__: the flag is read, the leases of the dead process are deleted.
ClearLeases ==
    /\ boot = "down"
    /\ boot' = IF leases THEN "cleared" ELSE "up"
    /\ leases' = FALSE
    /\ flag' = stored
    /\ UNCHANGED <<stored, controllers, work, marked, op, armed, imported, crashes>>

\* ... and if there were any, all writes are stopped.
RaiseStop ==
    /\ boot = "cleared"
    /\ boot' = "up"
    /\ flag' = TRUE
    /\ stored' = TRUE
    /\ UNCHANGED <<leases, controllers, work, marked, op, armed, imported, crashes>>

\* The journal of the day is all that a controller looks at.
NewDay ==
    /\ marked # {}
    /\ marked' = {}
    /\ UNCHANGED <<service, controllers, work, op, armed, imported, crashes>>

-----------------------------------------------------------------------------
Transition ==
    \/ StopDone \/ Blocked \/ Lifting \/ LiftDone \/ UndoDone
    \/ \E o \in Operator : StopNext(o) \/ CheckNext(o) \/ LiftNext(o) \/ UndoNext(o)

Next ==
    \/ \E o \in Operator :
          \/ Load(o) \/ Evict(o) \/ Import(o)
          \/ SubmitWrite(o) \/ SubmitRead(o) \/ Begin(o) \/ Finish(o) \/ Retire(o)
    \/ Activate \/ AskRelease \/ Transition
    \/ Crash \/ ClearLeases \/ RaiseStop \/ NewDay

Spec == Init /\ [][Next]_vars

\* The thread that holds the policy lock runs on.
FairSpec == Spec /\ WF_vars(Transition)

-----------------------------------------------------------------------------
(* Properties.                                                             *)

\* While no transition is under way, the service's stop covers every loaded
\* controller: "Never admit a newly loaded controller in a state that
\* contradicts the authoritative global flag".
StopCovers == Free /\ flag = TRUE => loaded \subseteq stopped

\* Once the service is released no controller is still stopped, but for those
\* that imported a configuration since: a release is all or nothing.
ReleaseCovers == Free /\ flag = FALSE => loaded \cap stopped \subseteq imported

\* After a stop was acknowledged, or the process died with work unfinished, no
\* write starts in any controller, loaded then or later, before a release
\* passes its preflight.
StopHolds ==
    [][\A o \in Operator : work[o] # "running" /\ work'[o] = "running" => ~armed]_vars

\* A request to raise or lift the stop is never held up by the tasks it finds:
\* it ends in success, refusal or rollback, unless the process dies.
TransitionEnds == op.kind # "idle" ~> op.kind = "idle"
=============================================================================
