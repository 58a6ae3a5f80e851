-------------------------- MODULE Coordinator_proofs --------------------------
(***************************************************************************)
(* Theorems about two of the coordinator's states that all its clients     *)
(* share and that do not depend on each other: the emergency stop, for     *)
(* every set of operators and any number of deaths of the process, and the *)
(* scheduler's leadership, for every set of desktops, jobs and calls, every*)
(* lease, interval and retry time, and any number of restarts.             *)
(***************************************************************************)
EXTENDS EmergencyStop, SchedulerLeader, TLAPS

-------------------------------------------------------------------------------
(* The emergency stop. *)

USE StopConstants DEF FaultKinds

Ops == [kind : Transitions, todo : SUBSET Operator, targets : SUBSET Operator,
        bad : BOOLEAN, joins : SUBSET Operator]

\* Controllers are loaded, and transitions under way, only in a process that
\* serves; a controller gives the service its flag.
Serving ==
    /\ boot # "up" => loaded = {} /\ op.kind = "idle"
    /\ flag = None => loaded = {}
    /\ op.kind # "idle" => flag # None
    /\ boot = "cleared" => flag # None \/ stored = None

\* Why the service's stop covers every controller when a transition is over.
Raised ==
    /\ op.kind = "idle" /\ flag = TRUE => loaded \subseteq stopped
    /\ op.kind = "stopping" =>
          /\ flag = TRUE /\ stored = TRUE
          /\ loaded \cup op.joins \subseteq stopped \cup op.todo
    /\ op.kind = "checking" /\ flag = TRUE =>
          /\ loaded \subseteq stopped
          /\ op.bad \/ loaded \subseteq op.targets \cup op.todo
    /\ op.kind = "lifting" /\ flag = TRUE => loaded \subseteq op.targets
    /\ op.kind = "undoing" /\ flag = TRUE =>
          /\ loaded \subseteq op.targets
          /\ loaded \subseteq stopped \cup op.todo

\* Why no controller is still stopped when the service has been released.
Released ==
    /\ op.kind = "idle" /\ flag = FALSE => loaded \cap stopped \subseteq imported
    /\ op.kind = "checking" =>
          op.bad \/ loaded \cap stopped \subseteq op.targets \cup op.todo \cup imported
    /\ op.kind = "lifting" => loaded \cap stopped \subseteq op.todo \cup imported

\* What keeps a write from starting once the stop was acknowledged, and what
\* will again when the process comes back.
Guarded ==
    "crash_recovery" \notin Faults /\ armed =>
        /\ boot = "up" => /\ flag = TRUE /\ stored = TRUE /\ loaded \subseteq stopped
                          /\ op.kind \in {"idle", "stopping", "checking"}
        /\ boot = "down" => stored = TRUE \/ leases = TRUE

Inv == TypeOK /\ Serving /\ Raised /\ Released /\ Guarded

LEMMA IdleType == Idle \in Ops /\ Idle.kind = "idle"
BY DEF Idle, Ops, Transitions

LEMMA StopType ==
    ASSUME TypeOK, NEW o \in Operator, Stop(o)
    PROVE  /\ stopped' = stopped \cup {o} /\ saved' \subseteq Operator
           /\ work' \in [Operator -> WorkStates] /\ imported' \subseteq Operator
BY DEF TypeOK, Stop, Saves, WorkStates

LEMMA LiftType ==
    ASSUME TypeOK, NEW o \in Operator, Lift(o) \/ RefusesLift(o)
    PROVE  /\ stopped' \subseteq Operator /\ saved' \subseteq Operator
           /\ work' = work /\ imported' \subseteq Operator
BY DEF TypeOK, Lift, RefusesLift

\* What loading a controller does, whichever flag it was built with.
LEMMA LoadCases ==
    ASSUME NEW o \in Operator, Load(o)
    PROVE  \/ /\ flag = None /\ flag' = TRUE /\ stored' = TRUE
              /\ stopped' = stopped \cup {o} /\ loaded' = loaded \cup {o}
              /\ imported' = imported \ {o} /\ UNCHANGED <<saved, op>>
           \/ /\ flag = None /\ flag' = FALSE /\ stored' = FALSE
              /\ stopped' = stopped \ {o} /\ loaded' = loaded \cup {o}
              /\ imported' = imported \ {o} /\ UNCHANGED <<saved, op>>
           \/ /\ flag = TRUE
              /\ stopped' = stopped \cup {o} /\ loaded' = loaded \cup {o}
              /\ saved' \in Saves(saved, o, TRUE)
              /\ imported' = imported \ {o} /\ UNCHANGED <<flag, stored, op>>
           \/ /\ flag = FALSE
              /\ stopped' = stopped \ {o} /\ loaded' = loaded \cup {o}
              /\ saved' \in {saved, saved \ {o}}
              /\ imported' = imported \ {o} /\ UNCHANGED <<flag, stored, op>>
           \/ /\ flag = FALSE /\ flag' = TRUE /\ stored' = TRUE
              /\ stopped' = stopped \cup {o} /\ op' = Stopping({o})
              /\ UNCHANGED <<loaded, saved, imported>>
<1>1. ASSUME NEW own, own \in Built(o) PROVE own = TRUE \/ own = FALSE
  BY <1>1 DEF Built
<1> QED BY <1>1 DEF Load

LEMMA LoadStep ==
    ASSUME Inv, NEW o \in Operator, Load(o)
    PROVE  Inv'
<1> USE DEF Inv, TypeOK
<1>2. boot = "up" /\ op.kind = "idle" /\ UNCHANGED <<boot, leases, work, marked, armed, crashes>>
  BY DEF Load, Free
<1>3. Stopping({o}) \in Ops /\ Stopping({o}).kind = "stopping"
      /\ Stopping({o}).todo = loaded \cup {o} /\ Stopping({o}).joins = {o}
  BY IdleType DEF Stopping, Ops, Transitions
<1>4. saved' \subseteq Operator
  BY LoadCases DEF Saves
<1>a. flag' \in BOOLEAN \cup {None} /\ stored' \in BOOLEAN \cup {None}
  BY LoadCases
<1>b. stopped' \subseteq Operator /\ loaded' \subseteq Operator /\ imported' \subseteq Operator
  BY LoadCases
<1>5. op' \in Ops
  BY LoadCases, <1>3 DEF Ops
<1>6. TypeOK'
  BY <1>2, <1>4, <1>a, <1>b, <1>5 DEF Ops
<1>7. Serving'
  BY LoadCases, <1>2, <1>3 DEF Serving
<1>8. Raised'
  BY LoadCases, <1>2, <1>3 DEF Serving, Raised
<1>9. Released'
  BY LoadCases, <1>2, <1>3 DEF Serving, Released
<1>10. Guarded'
  BY LoadCases, <1>2, <1>3 DEF Guarded
<1> QED BY <1>6, <1>7, <1>8, <1>9, <1>10

\* Tasks, and the journal of the day, leave the stop alone.
LEMMA TaskStep ==
    ASSUME Inv, UNCHANGED <<service, controllers, op, armed, imported, crashes>>,
           work' \in [Operator -> WorkStates], marked' \subseteq Operator
    PROVE  Inv'
<1>1. UNCHANGED <<boot, flag, stored, leases, loaded, stopped, saved, op, armed, imported, crashes>>
  BY DEF service, controllers
<1>2. TypeOK'
  BY <1>1 DEF Inv, TypeOK
<1> QED BY <1>1, <1>2 DEF Inv, Serving, Raised, Released, Guarded

\* The steps of a transition that visit one controller.
LEMMA VisitStep ==
    ASSUME Inv, NEW o \in Operator,
           StopNext(o) \/ CheckNext(o) \/ LiftNext(o) \/ UndoNext(o)
    PROVE  Inv'
<1> USE DEF Inv, TypeOK
<1>1. CASE StopNext(o)
  <2>1. /\ op' = [op EXCEPT !.todo = @ \ {o}] /\ stopped' = stopped \cup {o}
        /\ op.kind = "stopping"
        /\ UNCHANGED <<boot, flag, stored, leases, loaded, marked, armed, crashes>>
        /\ saved' \subseteq Operator /\ work' \in [Operator -> WorkStates]
        /\ imported' \subseteq Operator
    BY <1>1, StopType DEF StopNext, service
  <2>2. op' \in Ops /\ op'.kind = op.kind /\ op'.todo = op.todo \ {o}
        /\ op'.joins = op.joins /\ op'.targets = op.targets /\ op'.bad = op.bad
    BY <2>1 DEF Ops
  <2>3. TypeOK'
    BY <2>1, <2>2 DEF Ops
  <2>4. Serving' /\ Raised' /\ Released' /\ Guarded'
    BY <2>1, <2>2 DEF Serving, Raised, Released, Guarded
  <2> QED BY <2>3, <2>4
<1>2. CASE CheckNext(o)
  <2>1. /\ UNCHANGED <<boot, flag, stored, leases, loaded, stopped, saved, work, marked, armed,
                       imported, crashes>>
        /\ op.kind = "checking"
    BY <1>2 DEF CheckNext, service, controllers
  <2>2. /\ op' \in Ops /\ op'.kind = op.kind /\ op'.todo = op.todo \ {o} /\ op'.joins = op.joins
        /\ \/ op'.bad = TRUE
           \/ /\ op'.bad = op.bad
              /\ op'.targets = IF o \in stopped THEN op.targets \cup {o} ELSE op.targets
    <3>1. CASE op' = [op EXCEPT !.todo = @ \ {o}, !.bad = TRUE]
      BY <3>1 DEF Ops
    <3>2. CASE op' = [op EXCEPT !.todo = @ \ {o},
                                !.targets = IF o \in stopped THEN @ \cup {o} ELSE @,
                                !.bad = @ \/ (o \in stopped \cap Active)]
      <4> DEFINE hit == op.bad \/ (o \in stopped \cap Active)
                 found == IF o \in stopped THEN op.targets \cup {o} ELSE op.targets
      <4>1. hit \in BOOLEAN /\ (hit = TRUE \/ hit = op.bad)
        OBVIOUS
      <4>2. found \subseteq Operator
        OBVIOUS
      <4>3. op' = [op EXCEPT !.todo = @ \ {o}, !.targets = found, !.bad = hit]
        BY <3>2
      <4> HIDE DEF hit
      <4> QED BY <4>1, <4>2, <4>3 DEF Ops
    <3> QED BY <1>2, <3>1, <3>2 DEF CheckNext
  <2>3. TypeOK'
    BY <2>1, <2>2 DEF Ops
  <2>4. Serving' /\ Guarded'
    BY <2>1, <2>2 DEF Serving, Guarded
  <2>5. Raised' /\ Released'
    BY <2>1, <2>2 DEF Raised, Released
  <2> QED BY <2>3, <2>4, <2>5
<1>3. CASE LiftNext(o)
  <2>1. /\ UNCHANGED <<boot, flag, stored, leases, loaded, marked, armed, crashes>>
        /\ op.kind = "lifting" /\ o \in op.todo
    BY <1>3 DEF LiftNext, service
  <2>2. /\ stopped' \subseteq Operator /\ saved' \subseteq Operator
        /\ work' = work /\ imported' \subseteq Operator
    BY <1>3, LiftType DEF LiftNext
  <2>3. CASE Lift(o) /\ op' = [op EXCEPT !.todo = @ \ {o}]
    <3>1. op' \in Ops /\ op'.kind = op.kind /\ op'.todo = op.todo \ {o} /\ op'.joins = op.joins
          /\ op'.targets = op.targets
      BY <2>3 DEF Ops
    <3>2. stopped' = stopped \ {o} /\ imported' = imported \ {o}
      BY <2>3 DEF Lift
    <3> QED BY <2>1, <2>2, <3>1, <3>2 DEF Ops, Serving, Raised, Released, Guarded
  <2>4. CASE RefusesLift(o) /\ op' = [op EXCEPT !.kind = "undoing", !.todo = loaded]
    <3>1. op' \in Ops /\ op'.kind = "undoing" /\ op'.todo = loaded /\ op'.targets = op.targets
      BY <2>4 DEF Ops, Transitions
    <3>2. stopped' = stopped /\ imported' = imported
      BY <2>4 DEF RefusesLift
    <3> QED BY <2>1, <2>2, <3>1, <3>2 DEF Ops, Serving, Raised, Released, Guarded
  <2> QED BY <1>3, <2>3, <2>4 DEF LiftNext
<1>4. CASE UndoNext(o)
  <2>1. /\ UNCHANGED <<boot, flag, stored, leases, loaded, marked, armed, crashes>>
        /\ op.kind = "undoing" /\ o \in op.todo
    BY <1>4 DEF UndoNext, service
  <2>2. /\ stopped' \subseteq Operator /\ saved' \subseteq Operator
        /\ work' \in [Operator -> WorkStates] /\ imported' \subseteq Operator
        /\ o \in op.targets => stopped' = stopped \cup {o}
        /\ o \notin op.targets => stopped \ {o} \subseteq stopped'
    <3>1. CASE o \in op.targets
      <4>1. Stop(o)
        BY <1>4, <3>1 DEF UndoNext
      <4> QED BY <3>1, <4>1, StopType
    <3>2. CASE o \notin op.targets
      <4>1. Lift(o) \/ RefusesLift(o)
        BY <1>4, <3>2 DEF UndoNext
      <4>2. stopped \ {o} \subseteq stopped'
        BY <4>1 DEF Lift, RefusesLift
      <4> QED BY <3>2, <4>1, <4>2, LiftType
    <3> QED BY <3>1, <3>2
  <2>3. op' \in Ops /\ op'.kind = op.kind /\ op'.todo = op.todo \ {o} /\ op'.targets = op.targets
    <3>1. ASSUME NEW failed \in BOOLEAN,
                 op' = [op EXCEPT !.todo = @ \ {o}, !.bad = @ \/ failed]
          PROVE  op' \in Ops /\ op'.kind = op.kind /\ op'.todo = op.todo \ {o}
                 /\ op'.targets = op.targets
      <4> DEFINE hit == op.bad \/ failed
      <4>1. hit \in BOOLEAN
        OBVIOUS
      <4>2. op' = [op EXCEPT !.todo = @ \ {o}, !.bad = hit]
        BY <3>1
      <4> HIDE DEF hit
      <4> QED BY <4>1, <4>2 DEF Ops
    <3>2. CASE \/ op' = [op EXCEPT !.todo = @ \ {o}]
               \/ op' = [op EXCEPT !.todo = @ \ {o}, !.bad = TRUE]
      BY <3>2 DEF Ops
    <3> QED BY <1>4, <3>1, <3>2 DEF UndoNext
  <2>4. TypeOK'
    BY <2>1, <2>2, <2>3 DEF Ops
  <2>5. Serving' /\ Raised' /\ Released' /\ Guarded'
    BY <2>1, <2>2, <2>3 DEF Serving, Raised, Released, Guarded
  <2> QED BY <2>4, <2>5
<1> QED BY <1>1, <1>2, <1>3, <1>4

\* The other steps of a transition.
LEMMA TransitionStep ==
    ASSUME Inv, StopDone \/ Blocked \/ Lifting \/ LiftDone \/ UndoDone
    PROVE  Inv'
<1> USE DEF Inv, TypeOK
<1>0. /\ Stopping({}) \in Ops /\ Stopping({}).kind = "stopping"
      /\ Stopping({}).todo = loaded /\ Stopping({}).joins = {}
  BY IdleType DEF Stopping, Ops, Transitions
<1>1. CASE StopDone
  <2>1. /\ op.kind = "stopping" /\ op.todo = {} /\ op' = Idle
        /\ loaded' = loaded \cup op.joins /\ armed' = TRUE
        /\ UNCHANGED <<boot, flag, stored, leases, stopped, saved, work, marked, imported, crashes>>
    BY <1>1 DEF StopDone, service
  <2>2. TypeOK'
    BY <2>1, IdleType DEF Ops
  <2> QED BY <2>1, <2>2, IdleType DEF Serving, Raised, Released, Guarded
<1>2. CASE Blocked
  <2>1. /\ op.kind = "checking" /\ flag' = TRUE
        /\ UNCHANGED <<boot, leases, loaded, stopped, saved, work, marked, armed, imported, crashes>>
        /\ \/ flag = TRUE /\ op' = Idle /\ stored' = stored
           \/ flag # TRUE /\ op' = Stopping({}) /\ stored' = TRUE
    BY <1>2 DEF Blocked, Checked, controllers
  <2>2. op' \in Ops
    BY <1>0, <2>1, IdleType
  <2>3. TypeOK'
    BY <2>1, <2>2 DEF Ops
  <2>4. Serving' /\ Raised' /\ Released'
    BY <1>0, <2>1, IdleType DEF Serving, Raised, Released
  <2>5. Guarded'
    BY <1>0, <2>1, IdleType DEF Guarded
  <2> QED BY <2>3, <2>4, <2>5
<1>3. CASE Lifting
  <2>1. /\ op.kind = "checking" /\ op.todo = {} /\ ~op.bad
        /\ UNCHANGED <<boot, flag, stored, leases, loaded, stopped, saved, work, marked, imported,
                       crashes>>
        /\ \/ op.targets = {} /\ flag = FALSE /\ op' = Idle /\ armed' = armed
           \/ /\ op' = [op EXCEPT !.kind = "lifting", !.todo = op.targets] /\ armed' = FALSE
    BY <1>3 DEF Lifting, Checked, service, controllers
  <2>2. CASE op.targets = {} /\ flag = FALSE /\ op' = Idle /\ armed' = armed
    <3>1. TypeOK'
      BY <2>1, <2>2, IdleType DEF Ops
    <3> QED BY <2>1, <2>2, <3>1, IdleType DEF Serving, Raised, Released, Guarded
  <2>3. CASE op' = [op EXCEPT !.kind = "lifting", !.todo = op.targets] /\ armed' = FALSE
    <3>1. op' \in Ops /\ op'.kind = "lifting" /\ op'.todo = op.targets /\ op'.targets = op.targets
      BY <2>3 DEF Ops, Transitions
    <3>2. TypeOK'
      BY <2>1, <2>3, <3>1 DEF Ops
    <3>3. Serving' /\ Raised' /\ Guarded'
      BY <2>1, <2>3, <3>1 DEF Serving, Raised, Guarded
    <3>4. Released'
      BY <2>1, <2>3, <3>1 DEF Released
    <3> QED BY <3>2, <3>3, <3>4
  <2> QED BY <2>1, <2>2, <2>3
<1>4. CASE LiftDone
  <2>1. /\ op.kind = "lifting" /\ op.todo = {} /\ op' = Idle
        /\ flag' = FALSE /\ stored' = FALSE
        /\ UNCHANGED <<boot, leases, loaded, stopped, saved, work, marked, armed, imported, crashes>>
    BY <1>4 DEF LiftDone, controllers
  <2>2. TypeOK'
    BY <2>1, IdleType DEF Ops
  <2> QED BY <2>1, <2>2, IdleType DEF Serving, Raised, Released, Guarded
<1>5. CASE UndoDone
  <2>1. /\ op.kind = "undoing" /\ op.todo = {} /\ flag' = TRUE /\ stored' = TRUE
        /\ UNCHANGED <<boot, leases, loaded, stopped, saved, work, marked, imported, crashes>>
        /\ \/ op' = Stopping({}) /\ armed' = FALSE
           \/ flag # FALSE /\ op' = Idle /\ armed' = TRUE
    <3>1. UNCHANGED <<boot, leases, loaded, stopped, saved, work, marked, imported, crashes>>
          /\ op.kind = "undoing" /\ op.todo = {} /\ flag' = TRUE /\ stored' = TRUE
      BY <1>5 DEF UndoDone, controllers
    <3>2. CASE flag = FALSE \/ op.bad
      BY <1>5, <3>1, <3>2 DEF UndoDone
    <3>3. CASE ~(flag = FALSE \/ op.bad)
      BY <1>5, <3>1, <3>3 DEF UndoDone
    <3> QED BY <3>1, <3>2, <3>3
  <2>2. op' \in Ops
    BY <1>0, <2>1, IdleType
  <2>3. TypeOK'
    BY <2>1, <2>2 DEF Ops
  <2>4. flag = TRUE \/ op' = Stopping({})
    BY <2>1 DEF Serving
  <2>5. Serving' /\ Raised' /\ Released'
    BY <1>0, <2>1, <2>4, IdleType DEF Serving, Raised, Released
  <2>6. Guarded'
    BY <1>0, <2>1, <2>4, IdleType DEF Guarded, Serving, Raised
  <2> QED BY <2>3, <2>5, <2>6
<1> QED BY <1>1, <1>2, <1>3, <1>4, <1>5

LEMMA NextStep == Inv /\ [Next]_vars => Inv'
<1> SUFFICES ASSUME Inv, [Next]_vars PROVE Inv'
  OBVIOUS
<1>0. TypeOK
  BY DEF Inv
<1>1. ASSUME NEW o \in Operator, Load(o) PROVE Inv'
  BY <1>1, LoadStep
<1>2. ASSUME NEW o \in Operator, Evict(o) PROVE Inv'
  <2>1. /\ loaded' = loaded \ {o} /\ op.kind = "idle"
        /\ UNCHANGED <<boot, flag, stored, leases, stopped, saved, work, marked, op, armed, imported,
                       crashes>>
    BY <1>2 DEF Evict, service, Free
  <2>2. TypeOK'
    BY <1>0, <2>1 DEF TypeOK
  <2> QED BY <2>1, <2>2 DEF Inv, Serving, Raised, Released, Guarded
<1>3. ASSUME NEW o \in Operator, Import(o) PROVE Inv'
  <2>1. /\ stopped' = stopped \cup {o} /\ saved' = saved \cup {o} /\ boot = "up"
        /\ imported' = IF o \in stopped THEN imported ELSE imported \cup {o}
        /\ UNCHANGED <<boot, flag, stored, leases, loaded, work, marked, op, armed, crashes>>
    BY <1>3 DEF Import, service
  <2>2. TypeOK'
    BY <1>0, <2>1 DEF TypeOK
  <2>3. Serving' /\ Raised' /\ Guarded'
    BY <2>1 DEF Inv, Serving, Raised, Guarded
  <2>4. Released'
    BY <2>1 DEF Inv, Released
  <2> QED BY <2>2, <2>3, <2>4 DEF Inv
<1>4. ASSUME NEW o \in Operator,
             SubmitWrite(o) \/ SubmitRead(o) \/ Begin(o) \/ Finish(o) \/ Retire(o)
      PROVE  Inv'
  <2>1. /\ UNCHANGED <<service, controllers, marked, op, armed, imported, crashes>>
        /\ \E state \in WorkStates : work' = [work EXCEPT ![o] = state]
    BY <1>4 DEF SubmitWrite, SubmitRead, Begin, Finish, Retire, SetWork, WorkStates
  <2>2. work' \in [Operator -> WorkStates] /\ marked' \subseteq Operator
    BY <1>0, <2>1 DEF TypeOK
  <2> QED BY <2>1, <2>2, TaskStep
<1>5. ASSUME Activate PROVE Inv'
  <2>1. /\ boot = "up" /\ op.kind = "idle" /\ flag' = TRUE /\ stored' = TRUE /\ op' = Stopping({})
        /\ UNCHANGED <<boot, leases, loaded, stopped, saved, work, marked, armed, imported, crashes>>
    BY <1>5 DEF Activate, Free, controllers
  <2>2. /\ Stopping({}) \in Ops /\ Stopping({}).kind = "stopping"
        /\ Stopping({}).todo = loaded /\ Stopping({}).joins = {}
    BY <1>0, IdleType DEF Stopping, Ops, Transitions, TypeOK
  <2>3. TypeOK'
    BY <1>0, <2>1, <2>2 DEF TypeOK, Ops
  <2> QED BY <2>1, <2>2, <2>3 DEF Inv, Serving, Raised, Released, Guarded
<1>6. ASSUME AskRelease PROVE Inv'
  <2> DEFINE next == [Idle EXCEPT !.kind = "checking", !.todo = loaded]
  <2>1. /\ boot = "up" /\ op.kind = "idle" /\ loaded # {} /\ op' = next
        /\ UNCHANGED <<boot, flag, stored, leases, loaded, stopped, saved, work, marked, armed,
                       imported, crashes>>
    BY <1>6 DEF AskRelease, Free, controllers, service
  <2>2. next \in Ops /\ next.kind = "checking" /\ next.todo = loaded
    BY <1>0, IdleType DEF Ops, Transitions, TypeOK
  <2> HIDE DEF next
  <2>3. TypeOK'
    BY <1>0, <2>1, <2>2 DEF TypeOK, Ops
  <2> QED BY <2>1, <2>2, <2>3 DEF Inv, Serving, Raised, Released, Guarded
<1>7. ASSUME Transition PROVE Inv'
  BY <1>7, TransitionStep, VisitStep DEF Transition
<1>8. ASSUME Crash PROVE Inv'
  <2>1. /\ crashes' \in Nat /\ boot' = "down" /\ loaded' = {} /\ op' = Idle
        /\ work' \in [Operator -> WorkStates] /\ marked' \subseteq Operator
        /\ UNCHANGED <<flag, stored, stopped, saved, imported>>
    BY <1>0, <1>8 DEF Crash, TypeOK, Active, WorkStates
  <2>2. leases' \in BOOLEAN /\ armed' \in BOOLEAN
    BY <1>0, <1>8 DEF Crash, TypeOK
  <2>3. TypeOK'
    BY <1>0, <2>1, <2>2, IdleType DEF TypeOK, Ops
  <2>4. Guarded'
    <3>1. CASE Active # {}
      BY <1>8, <2>1, <3>1 DEF Crash, Guarded
    <3>2. CASE Active = {}
      BY <1>8, <2>1, <3>2 DEF Crash, Guarded, Inv
    <3> QED BY <3>1, <3>2
  <2> QED BY <2>1, <2>3, <2>4, IdleType DEF Inv, Serving, Raised, Released
<1>9. ASSUME ClearLeases PROVE Inv'
  <2>1. /\ boot = "down" /\ leases' = FALSE /\ flag' = stored
        /\ boot' = IF leases THEN "cleared" ELSE "up"
        /\ UNCHANGED <<stored, loaded, stopped, saved, work, marked, op, armed, imported, crashes>>
    BY <1>9 DEF ClearLeases, controllers
  <2>2. TypeOK'
    BY <1>0, <2>1 DEF TypeOK
  <2> QED BY <2>1, <2>2 DEF Inv, Serving, Raised, Released, Guarded
<1>10. ASSUME RaiseStop PROVE Inv'
  <2>1. /\ boot = "cleared" /\ boot' = "up" /\ flag' = TRUE /\ stored' = TRUE
        /\ UNCHANGED <<leases, loaded, stopped, saved, work, marked, op, armed, imported, crashes>>
    BY <1>10 DEF RaiseStop, controllers
  <2>2. TypeOK'
    BY <1>0, <2>1 DEF TypeOK
  <2> QED BY <2>1, <2>2 DEF Inv, Serving, Raised, Released, Guarded
<1>11. ASSUME NewDay PROVE Inv'
  <2>1. work' \in [Operator -> WorkStates] /\ marked' \subseteq Operator
    BY <1>0, <1>11 DEF NewDay, TypeOK
  <2> QED BY <1>11, <2>1, TaskStep DEF NewDay
<1>12. ASSUME UNCHANGED vars PROVE Inv'
  <2>1. work' \in [Operator -> WorkStates] /\ marked' \subseteq Operator
    BY <1>0, <1>12 DEF vars, TypeOK
  <2>2. UNCHANGED <<service, controllers, op, armed, imported, crashes>>
    BY <1>12 DEF vars, service, controllers
  <2> QED BY <2>1, <2>2, TaskStep
<1> QED BY <1>1, <1>2, <1>3, <1>4, <1>5, <1>6, <1>7, <1>8, <1>9, <1>10, <1>11, <1>12 DEF Next

LEMMA InitStep == Init => Inv
<1> SUFFICES ASSUME Init PROVE Inv
  OBVIOUS
<1>1. TypeOK
  BY IdleType DEF Init, TypeOK, WorkStates, Ops
<1> QED BY <1>1, IdleType DEF Init, Inv, Serving, Raised, Released, Guarded

\* The invariant that the theorems below rest on.
THEOREM Invariance == Spec => []Inv
BY InitStep, NextStep, PTL DEF Spec

\* The service's and the controllers' flags, files and tasks keep their types.
THEOREM TypeCorrect == Spec => []TypeOK
<1>1. Inv => TypeOK
  BY DEF Inv
<1> QED BY <1>1, Invariance, PTL

\* No loaded controller contradicts a stop of the service, however many operators
\* there are and wherever a file could not be written or the process died.
THEOREM Covers == Spec => []StopCovers
<1>1. Inv => StopCovers
  BY DEF Inv, Raised, StopCovers, Free
<1> QED BY <1>1, Invariance, PTL

\* A release is all or nothing.
THEOREM ReleaseIsWhole == Spec => []ReleaseCovers
<1>1. Inv => ReleaseCovers
  BY DEF Inv, Released, ReleaseCovers, Free
<1> QED BY <1>1, Invariance, PTL

\* After a stop no write starts before a release, as long as the process does not
\* die while it takes the leases of its dead predecessor away.
THEOREM Holds ==
    ASSUME "crash_recovery" \notin Faults
    PROVE  Spec => StopHolds
<1>1. Inv /\ [Next]_vars =>
        [\A o \in Operator : work[o] # "running" /\ work'[o] = "running" => ~armed]_vars
  <2> SUFFICES ASSUME Inv, Next, NEW o \in Operator, work[o] # "running", work'[o] = "running"
               PROVE  ~armed
    OBVIOUS
  <2>0. work \in [Operator -> WorkStates]
    BY DEF Inv, TypeOK
  <2>1. ASSUME NEW p \in Operator, Begin(p) PROVE ~armed
    <3>1. p = o /\ o \notin stopped /\ boot = "up" /\ o \in loaded
      BY <2>0, <2>1 DEF Begin, SetWork
    <3> QED BY <3>1 DEF Inv, Guarded
  <2>2. ASSUME NEW p \in Operator,
               Load(p) \/ Evict(p) \/ Import(p) \/ SubmitWrite(p) \/ SubmitRead(p) \/ Finish(p)
               \/ Retire(p)
        PROVE  FALSE
    BY <2>0, <2>2 DEF Load, Evict, Import, SubmitWrite, SubmitRead, Finish, Retire, SetWork
  <2>3. ASSUME NEW p \in Operator, StopNext(p) \/ CheckNext(p) \/ LiftNext(p) \/ UndoNext(p)
        PROVE  FALSE
    BY <2>0, <2>3 DEF StopNext, CheckNext, LiftNext, UndoNext, Stop, Lift, RefusesLift
  <2>4. ASSUME StopDone \/ Blocked \/ Lifting \/ LiftDone \/ UndoDone PROVE FALSE
    BY <2>0, <2>4 DEF StopDone, Blocked, Lifting, LiftDone, UndoDone
  <2>5. ASSUME Activate \/ AskRelease \/ Crash \/ ClearLeases \/ RaiseStop \/ NewDay PROVE FALSE
    BY <2>0, <2>5 DEF Activate, AskRelease, Crash, ClearLeases, RaiseStop, NewDay
  <2> QED BY <2>1, <2>2, <2>3, <2>4, <2>5 DEF Next, Transition
<1> QED BY <1>1, Invariance, PTL DEF Spec, StopHolds

-------------------------------------------------------------------------------
(* The scheduler's leadership. *)

LEMMA LeaderTimes ==
    /\ SlotTTL \in Nat \ {0} /\ InstanceTTL \in Nat \ {0} /\ PollEvery \in Nat \ {0}
    /\ Interval \in Nat \ {0} /\ Retry \in Nat \ {0}
    /\ ClientOf \in [Call -> Client] /\ JobOf \in [Call -> Job] /\ MaxRestarts \in Nat
BY SchedulerConstants

\* A job is not due before the claim that was kept has run its interval.
QuietIsNotDue == \A j \in Job : quiet[j] <= dueIn[j]

LeaderInv == LeaderTypeOK /\ QuietIsNotDue

LEMMA CallInType ==
    ASSUME LeaderTypeOK, NEW c \in Client, CallIn(c)
    PROVE  /\ seenLeft' \in [Client -> 0..InstanceTTL] /\ pollIn' \in [Client -> 0..PollEvery]
           /\ owner' \in Client \cup {NoClient} /\ slotLeft' \in 0..SlotTTL
BY LeaderTimes DEF LeaderTypeOK, CallIn, Beat, ElectedOwner

\* A client's step that leaves the jobs alone.
LEMMA ClientStep ==
    ASSUME LeaderInv, NEW c \in Client,
           Start(c) \/ Poll(c) \/ Die(c) \/ Deregister(c) \/ Pause(c) \/ Resume(c) \/ SetMode(c)
    PROVE  LeaderInv'
<1> USE DEF LeaderInv, LeaderTypeOK
<1>1. UNCHANGED <<dueIn, lastRequest, quiet, restarts>>
  BY DEF Start, Poll, Die, Deregister, Pause, Resume, SetMode, jobs
<1>2. Forget(c) \in [Call -> PcStates]
  BY DEF Forget, PcStates
<1>3. CASE Start(c) \/ Poll(c) \/ Resume(c)
  <2>1. CallIn(c) /\ UNCHANGED <<manual, pc>> /\ paused' \subseteq Client /\ alive' \subseteq Client
    BY <1>3 DEF Start, Poll, Resume
  <2> QED BY <1>1, <2>1, CallInType DEF QuietIsNotDue
<1>4. CASE Die(c)
  <2>1. pc' \in [Call -> PcStates] /\ alive' \subseteq Client
        /\ UNCHANGED <<owner, slotLeft, seenLeft, paused, manual, pollIn>>
    BY <1>2, <1>4 DEF Die, slot
  <2> QED BY <1>1, <2>1 DEF QuietIsNotDue
<1>5. CASE Deregister(c)
  <2>1. pc' \in [Call -> PcStates] /\ alive' \subseteq Client /\ paused' \subseteq Client
        /\ UNCHANGED <<manual, pollIn>>
    BY <1>2, <1>5 DEF Deregister
  <2>2. seenLeft' \in [Client -> 0..InstanceTTL]
    BY <1>5, LeaderTimes DEF Deregister
  <2>3. owner' \in Client \cup {NoClient} /\ slotLeft' \in 0..SlotTTL
    BY <1>5, LeaderTimes DEF Deregister, ElectedOwner
  <2> QED BY <1>1, <2>1, <2>2, <2>3 DEF QuietIsNotDue
<1>6. CASE Pause(c)
  <2>1. paused' \subseteq Client /\ UNCHANGED <<manual, pc, alive>>
    BY <1>6 DEF Pause
  <2>2. seenLeft' \in [Client -> 0..InstanceTTL] /\ pollIn' \in [Client -> 0..PollEvery]
    BY <1>6, LeaderTimes DEF Pause, Beat
  <2>3. owner' \in Client \cup {NoClient} /\ slotLeft' \in 0..SlotTTL
    BY <1>6, LeaderTimes DEF Pause, ElectedOwner
  <2> QED BY <1>1, <2>1, <2>2, <2>3 DEF QuietIsNotDue
<1>7. CASE SetMode(c)
  <2>1. manual' \subseteq Client
        /\ UNCHANGED <<owner, slotLeft, seenLeft, paused, pc, alive, pollIn>>
    BY <1>7 DEF SetMode, slot, desktops
  <2> QED BY <1>1, <2>1 DEF QuietIsNotDue
<1> QED BY <1>3, <1>4, <1>5, <1>6, <1>7

\* The steps of a submission.
LEMMA CallStep ==
    ASSUME LeaderInv, NEW t \in Call,
           Offer(t) \/ Invoke(t) \/ Claim(t) \/ Accept(t) \/ Refuse(t)
    PROVE  LeaderInv'
<1> USE DEF LeaderInv, LeaderTypeOK
<1>0. ClientOf[t] \in Client /\ JobOf[t] \in Job
  BY LeaderTimes
<1>1. CASE Offer(t)
  <2>1. CallIn(ClientOf[t]) /\ pc' \in [Call -> PcStates]
        /\ UNCHANGED <<paused, manual, dueIn, lastRequest, quiet, alive, restarts>>
    BY <1>1 DEF Offer, GoTo, jobs, PcStates
  <2> QED BY <1>0, <2>1, CallInType DEF QuietIsNotDue
<1>2. CASE Invoke(t)
  <2>1. CallIn(ClientOf[t]) /\ pc' \in [Call -> PcStates]
        /\ UNCHANGED <<paused, manual, dueIn, quiet, alive, restarts>>
    BY <1>2 DEF Invoke, GoTo, PcStates
  <2>2. lastRequest' \in [Job -> Call \cup {NoClient}]
    BY <1>2 DEF Invoke
  <2> QED BY <1>0, <2>1, <2>2, CallInType DEF QuietIsNotDue
<1>3. CASE Claim(t)
  <2>1. pc' \in [Call -> PcStates]
        /\ UNCHANGED <<owner, slotLeft, seenLeft, paused, manual, alive, pollIn, restarts>>
    BY <1>3 DEF Claim, GoTo, PcStates, slot, desktops
  <2>2. \/ UNCHANGED <<dueIn, lastRequest, quiet>>
        \/ /\ dueIn' = [dueIn EXCEPT ![JobOf[t]] = Interval]
           /\ quiet' = [quiet EXCEPT ![JobOf[t]] = Interval]
           /\ lastRequest' = [lastRequest EXCEPT ![JobOf[t]] = t]
    BY <1>3 DEF Claim, jobs
  <2>3. LeaderTypeOK'
    BY <1>0, <2>1, <2>2, LeaderTimes
  <2>4. QuietIsNotDue'
    BY <1>0, <2>2, LeaderTimes DEF QuietIsNotDue
  <2> QED BY <2>3, <2>4
<1>4. CASE Accept(t)
  <2>1. pc' \in [Call -> PcStates]
        /\ UNCHANGED <<owner, slotLeft, seenLeft, paused, manual, dueIn, lastRequest, quiet, alive,
                      pollIn, restarts>>
    BY <1>4 DEF Accept, GoTo, PcStates, slot, desktops, jobs
  <2> QED BY <2>1 DEF QuietIsNotDue
<1>5. CASE Refuse(t)
  <2>1. pc' \in [Call -> PcStates]
        /\ UNCHANGED <<owner, slotLeft, seenLeft, paused, manual, alive, pollIn, restarts>>
    BY <1>5 DEF Refuse, GoTo, PcStates, slot, desktops
  <2>2. /\ dueIn' = [j \in Job |-> IF lastRequest[j] = t THEN Retry ELSE dueIn[j]]
        /\ lastRequest' = [j \in Job |-> IF lastRequest[j] = t THEN NoClient ELSE lastRequest[j]]
        /\ quiet' = [j \in Job |-> IF lastRequest[j] = t THEN 0 ELSE quiet[j]]
    BY <1>5 DEF Refuse
  <2>3. LeaderTypeOK'
    BY <2>1, <2>2, LeaderTimes
  <2>4. QuietIsNotDue'
    BY <2>2, LeaderTimes DEF QuietIsNotDue
  <2> QED BY <2>3, <2>4
<1> QED BY <1>1, <1>2, <1>3, <1>4, <1>5

\* The coordinator and time.
LEMMA TimeStep ==
    ASSUME LeaderInv, Cleanup \/ Restart \/ Tick
    PROVE  LeaderInv'
<1> USE DEF LeaderInv, LeaderTypeOK
<1>1. CASE Cleanup
  BY <1>1 DEF Cleanup, slot, jobs, desktops, QuietIsNotDue
<1>2. CASE Restart
  <2>1. pc' \in [Call -> PcStates]
    BY <1>2 DEF Restart, PcStates
  <2> QED BY <1>2, <2>1 DEF Restart, slot, jobs, desktops, QuietIsNotDue
<1>3. CASE Tick
  <2> DEFINE less(n) == IF n = 0 THEN 0 ELSE n - 1
  <2>1. /\ slotLeft' = less(slotLeft)
        /\ seenLeft' = [c \in Client |-> less(seenLeft[c])]
        /\ pollIn' = [c \in Client |-> less(pollIn[c])]
        /\ dueIn' = [j \in Job |-> less(dueIn[j])]
        /\ quiet' = [j \in Job |-> less(quiet[j])]
        /\ UNCHANGED <<owner, paused, manual, lastRequest, pc, alive, restarts>>
    BY <1>3 DEF Tick
  <2>a. ASSUME NEW n \in Nat PROVE less(n) \in Nat /\ less(n) <= n
    OBVIOUS
  <2> HIDE DEF less
  <2>b. slotLeft' \in 0..SlotTTL /\ dueIn' \in [Job -> Nat]
    BY <2>1, <2>a, LeaderTimes
  <2>c. seenLeft' \in [Client -> 0..InstanceTTL] /\ pollIn' \in [Client -> 0..PollEvery]
    BY <2>1, <2>a, LeaderTimes
  <2>d. quiet' \in [Job -> 0..Interval]
    BY <2>1, <2>a, LeaderTimes
  <2>2. LeaderTypeOK'
    BY <2>1, <2>b, <2>c, <2>d
  <2>3. QuietIsNotDue'
    BY <2>1 DEF QuietIsNotDue, less
  <2> QED BY <2>2, <2>3
<1> QED BY <1>1, <1>2, <1>3

LEMMA LeaderInitStep == LeaderInit => LeaderInv
BY LeaderTimes DEF LeaderInit, LeaderInv, LeaderTypeOK, QuietIsNotDue, PcStates

LEMMA LeaderNextStep == LeaderInv /\ [LeaderNext]_leaderVars => LeaderInv'
<1> SUFFICES ASSUME LeaderInv, [LeaderNext]_leaderVars PROVE LeaderInv'
  OBVIOUS
<1>1. CASE UNCHANGED leaderVars
  BY <1>1 DEF leaderVars, LeaderInv, LeaderTypeOK, QuietIsNotDue
<1> QED BY <1>1, ClientStep, CallStep, TimeStep DEF LeaderNext

\* The slot, the clients' rows, the jobs and the calls keep their types: no
\* countdown runs past zero or beyond its lease.
THEOREM LeaderTypeCorrect == LeaderSpec => []LeaderTypeOK
<1>1. LeaderInv => LeaderTypeOK
  BY DEF LeaderInv
<1> QED BY <1>1, LeaderInitStep, LeaderNextStep, PTL DEF LeaderSpec

\* A recurring job is authorized at most once per interval, among any number of
\* desktops that lead one after another and calls that were shown it due.
THEOREM ClaimedOncePerInterval == LeaderSpec => NoEarlyClaim
<1>1. LeaderInv /\ [LeaderNext]_leaderVars =>
        [\A t \in Call : pc[t] = "admitted" /\ pc'[t] = "claimed" => quiet[JobOf[t]] = 0]_leaderVars
  <2> SUFFICES ASSUME LeaderInv, LeaderNext, NEW t \in Call, pc[t] = "admitted", pc'[t] = "claimed"
               PROVE  quiet[JobOf[t]] = 0
    OBVIOUS
  <2>0. pc \in [Call -> PcStates] /\ JobOf[t] \in Job
    BY LeaderTimes DEF LeaderInv, LeaderTypeOK
  <2>1. ASSUME NEW u \in Call, Claim(u) PROVE quiet[JobOf[t]] = 0
    <3>1. u = t /\ dueIn[JobOf[t]] = 0
      BY <2>0, <2>1 DEF Claim, GoTo
    <3> QED BY <2>0, <3>1 DEF LeaderInv, LeaderTypeOK, QuietIsNotDue
  <2>2. ASSUME NEW u \in Call, Offer(u) \/ Invoke(u) \/ Accept(u) \/ Refuse(u) PROVE FALSE
    BY <2>0, <2>2 DEF Offer, Invoke, Accept, Refuse, GoTo
  <2>3. ASSUME NEW c \in Client,
               \/ Start(c) \/ Poll(c) \/ Die(c) \/ Deregister(c)
               \/ Pause(c) \/ Resume(c) \/ SetMode(c)
        PROVE  FALSE
    BY <2>0, <2>3 DEF Start, Poll, Die, Deregister, Pause, Resume, SetMode, Forget
  <2>4. ASSUME Cleanup \/ Restart \/ Tick PROVE FALSE
    BY <2>0, <2>4 DEF Cleanup, Restart, Tick
  <2> QED BY <2>1, <2>2, <2>3, <2>4 DEF LeaderNext
<1> QED BY <1>1, LeaderInitStep, LeaderNextStep, PTL DEF LeaderSpec, NoEarlyClaim
===============================================================================
