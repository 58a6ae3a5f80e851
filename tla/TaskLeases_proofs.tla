-------------------------- MODULE TaskLeases_proofs --------------------------
(***************************************************************************)
(* Theorems about TaskLeases, for every set of requests, operators and     *)
(* keys.                                                                   *)
(***************************************************************************)
EXTENDS TaskLeases, TLAPS

USE LeaseConstants DEF FaultKinds

LEMMA WithoutType ==
    ASSUME NEW R, lease \in [Resource -> Request \cup {NoRequest}]
    PROVE  Without(R) \in [Resource -> Request \cup {NoRequest}]
BY DEF Without

LEMMA PauseType ==
    ASSUME TypeOK, NEW R, NEW atOnce, PauseTasks(R, atOnce)
    PROVE  task' \in [Request -> TaskStates]
<1> DEFINE after(r) == IF r \in atOnce THEN "ended"
                       ELSE IF r \in R /\ task[r] = "running" THEN "stopping"
                       ELSE task[r]
<1>1. \A r \in Request : after(r) \in TaskStates
  BY DEF TypeOK, TaskStates
<1>2. task' = [r \in Request |-> after(r)]
  BY DEF PauseTasks
<1> QED BY <1>1, <1>2

\* TypeOK is preserved by every step, whichever faults may happen.
THEOREM TypeCorrect == Spec => []TypeOK
<1>1. ASSUME Init PROVE TypeOK
  <2>1. lease \in [Resource -> Request \cup {NoRequest}]
    BY <1>1 DEF Init
  <2>2. pc \in [Request -> PcStates] /\ task \in [Request -> TaskStates]
    BY <1>1 DEF Init, PcStates, TaskStates
  <2>3. halts \in Nat /\ server \in ServerStates /\ stop \in BOOLEAN
    BY <1>1 DEF Init, ServerStates
  <2> QED BY <1>1, <2>1, <2>2, <2>3 DEF Init, TypeOK
<1>2. TypeOK /\ [Next]_vars => TypeOK'
  <2> SUFFICES ASSUME TypeOK, [Next]_vars PROVE TypeOK'
    OBVIOUS
  <2> USE DEF TypeOK, PcStates, TaskStates, ServerStates
  <2>1. ASSUME NEW r \in Request, Admit(r) PROVE TypeOK'
    BY <2>1 DEF Admit, GoTo, store, memory, process
  <2>2. ASSUME NEW r \in Request, Proceed(r) PROVE TypeOK'
    <3>1. CASE CheckReviewLock(r)
      BY <3>1 DEF CheckReviewLock, GoTo, store, memory, process
    <3>2. CASE Acquire(r)
      BY <3>2 DEF Acquire, GoTo, store, memory, process
    <3>3. CASE SubmitAccepted(r)
      BY <3>3 DEF SubmitAccepted, GoTo, store, memory, process
    <3>4. CASE SubmitRefused(r)
      BY <3>4, WithoutType DEF SubmitRefused, ReleaseRequest, GoTo, memory, process
    <3>5. CASE BindTask(r)
      BY <3>5 DEF BindTask, GoTo, memory, process
    <3>6. CASE BindFails(r)
      BY <3>6, WithoutType DEF BindFails, ReleaseRequest, GoTo, memory, process
    <3>7. CASE Track(r)
      BY <3>7 DEF Track, GoTo, store, process
    <3> QED BY <2>2, <3>1, <3>2, <3>3, <3>4, <3>5, <3>6, <3>7 DEF Proceed
  <2>3. ASSUME NEW r \in Request, Worker(r) PROVE TypeOK'
    BY <2>3 DEF Worker, Finish, EndUncertain, ReviewKeys, store, memory, process
  <2>4. ASSUME NEW r \in Request, TransientLapse(r) PROVE TypeOK'
    BY <2>4 DEF TransientLapse, memory, process
  <2>5. ASSUME NEW i \in Operator, PauseOperator(i) PROVE TypeOK'
    <3>1. task' \in [Request -> TaskStates]
      BY <2>5, PauseType DEF PauseOperator
    <3>2. lease' \in [Resource -> Request \cup {NoRequest}]
      BY <2>5, WithoutType DEF PauseOperator, ReleaseTasks
    <3> QED BY <2>5, <3>1, <3>2 DEF PauseOperator, ReviewKeys, memory, process
  <2>6. ASSUME NEW s \in Resource, Unlock(s) PROVE TypeOK'
    BY <2>6 DEF Unlock, process
  <2>7. CASE Monitor
    <3>1. ASSUME NEW r \in Request, MonitorObserve(r) PROVE TypeOK'
      BY <3>1 DEF MonitorObserve, ReviewKeys, process
    <3>2. CASE MonitorRelease
      BY <3>2, WithoutType DEF MonitorRelease, ReleaseTasks, process
    <3>3. CASE MonitorCleanup
      BY <3>3 DEF MonitorCleanup, memory, process
    <3> QED BY <2>7, <3>1, <3>2, <3>3 DEF Monitor
  <2>8. CASE ReleaseStop
    BY <2>8 DEF ReleaseStop, memory, process
  <2>9. CASE ClosePass
    BY <2>9, WithoutType, PauseType DEF ClosePass, ReleaseTasks
  <2>10. CASE CloseFinish
    BY <2>10, WithoutType DEF CloseFinish, ReleaseTasks
  <2>11. CASE Crash \/ Exit
    BY <2>11 DEF Crash, Exit, ProcessDies, ReviewKeys, store
  <2>12. CASE StartUp
    <3>1. CASE ClearTaskLeases
      BY <3>1, WithoutType DEF ClearTaskLeases, ReleaseTasks
    <3>2. CASE RaiseStop
      BY <3>2 DEF RaiseStop, memory
    <3>3. ASSUME NEW r \in Request, LockRecovered(r) PROVE TypeOK'
      BY <3>3 DEF LockRecovered, memory
    <3> QED BY <2>12, <3>1, <3>2, <3>3 DEF StartUp
  <2>13. CASE UNCHANGED vars
    BY <2>13 DEF vars
  <2>14. ASSUME NEW i \in Operator, Deregister(i) PROVE TypeOK'
    BY <2>14, WithoutType DEF Deregister, memory, process
  <2> QED
    BY <2>1, <2>2, <2>3, <2>4, <2>5, <2>6, <2>7, <2>8, <2>9, <2>10, <2>11,
       <2>12, <2>13, <2>14 DEF Next
<1> QED BY <1>1, <1>2, PTL DEF Spec

-----------------------------------------------------------------------------
(* Leases of running tasks.                                                *)

\* What ties the invoke threads, the service memory and the tasks to the lease
\* rows; true whichever faults may happen.
ThreadInv ==
    /\ \A r \in Request :
          /\ task[r] \in Live => pc[r] \in {"accepted", "bound", "done", "failed"}
          /\ pc[r] = "bound" => r \in bound
          /\ r \in tracked \/ monitor = r => pc[r] = "done"
    /\ monitor # NoRequest => task[monitor] \notin Live
    /\ server \in {"down", "cleared", "stopped"} =>
          \A r \in Request : task[r] \notin Live /\ pc[r] \notin InFlight

\* PauseTasks only moves tasks towards their end.
LEMMA PauseOnlyStops ==
    ASSUME TypeOK, NEW R, NEW atOnce, PauseTasks(R, atOnce), NEW r \in Request,
           task'[r] \in Live
    PROVE  task[r] \in Live /\ r \notin atOnce
BY DEF TypeOK, PauseTasks, Live, TaskStates

LEMMA ThreadInvariant == Spec => []ThreadInv
<1>1. Init => ThreadInv
  BY DEF Init, ThreadInv, Live
<1>2. TypeOK /\ ThreadInv /\ [Next]_vars => ThreadInv'
  <2> SUFFICES ASSUME TypeOK, ThreadInv, [Next]_vars PROVE ThreadInv'
    OBVIOUS
  <2> USE DEF TypeOK, ThreadInv, Live, InFlight, PcStates, TaskStates
  <2>1. ASSUME NEW r \in Request, Admit(r) PROVE ThreadInv'
    BY <2>1 DEF Admit, GoTo, store, memory, process
  <2>2. ASSUME NEW r \in Request, Proceed(r) PROVE ThreadInv'
    <3> USE DEF Serving
    <3>1. CASE CheckReviewLock(r)
      BY <3>1 DEF CheckReviewLock, GoTo, store, memory, process
    <3>2. CASE Acquire(r)
      BY <3>2 DEF Acquire, GoTo, store, memory, process
    <3>3. CASE SubmitAccepted(r)
      BY <3>3 DEF SubmitAccepted, GoTo, store, memory, process
    <3>4. CASE SubmitRefused(r)
      BY <3>4 DEF SubmitRefused, GoTo, memory, process
    <3>5. CASE BindTask(r)
      BY <3>5 DEF BindTask, GoTo, memory, process
    <3>6. CASE BindFails(r)
      BY <3>6 DEF BindFails, GoTo, memory, process
    <3>7. CASE Track(r)
      BY <3>7 DEF Track, GoTo, store, process
    <3> QED BY <2>2, <3>1, <3>2, <3>3, <3>4, <3>5, <3>6, <3>7 DEF Proceed
  <2>3. ASSUME NEW r \in Request, Worker(r) PROVE ThreadInv'
    BY <2>3 DEF Worker, Finish, EndUncertain, Serving, store, memory, process
  <2>4. ASSUME NEW r \in Request, TransientLapse(r) PROVE ThreadInv'
    BY <2>4 DEF TransientLapse, memory, process
  <2>5. ASSUME NEW i \in Operator, PauseOperator(i) PROVE ThreadInv'
    <3>1. \A q \in Request : task'[q] \in Live => task[q] \in Live
      BY <2>5, PauseOnlyStops DEF PauseOperator
    <3> QED BY <2>5, <3>1 DEF PauseOperator, Serving, memory, process
  <2>6. ASSUME NEW s \in Resource, Unlock(s) PROVE ThreadInv'
    BY <2>6 DEF Unlock, process
  <2>7. CASE Monitor
    <3>1. ASSUME NEW r \in Request, MonitorObserve(r) PROVE ThreadInv'
      BY <3>1 DEF MonitorObserve, process
    <3>2. CASE MonitorRelease
      BY <3>2 DEF MonitorRelease, process
    <3>3. CASE MonitorCleanup
      BY <3>3 DEF MonitorCleanup, memory, process
    <3> QED BY <2>7, <3>1, <3>2, <3>3 DEF Monitor
  <2>8. CASE ReleaseStop
    BY <2>8 DEF ReleaseStop, memory, process
  <2>9. CASE ClosePass
    <3>1. \A q \in Request : task'[q] \in Live => task[q] \in Live
      BY <2>9, PauseOnlyStops DEF ClosePass
    <3> QED BY <2>9, <3>1 DEF ClosePass
  <2>10. CASE CloseFinish
    BY <2>10 DEF CloseFinish
  <2>11. CASE Crash \/ Exit
    BY <2>11 DEF Crash, Exit, ProcessDies, store
  <2>12. CASE StartUp
    BY <2>12 DEF StartUp, ClearTaskLeases, RaiseStop, LockRecovered, memory
  <2>13. CASE UNCHANGED vars
    BY <2>13 DEF vars
  <2>14. ASSUME NEW i \in Operator, Deregister(i) PROVE ThreadInv'
    BY <2>14 DEF Deregister, memory, process
  <2> QED
    BY <2>1, <2>2, <2>3, <2>4, <2>5, <2>6, <2>7, <2>8, <2>9, <2>10, <2>11,
       <2>12, <2>13, <2>14 DEF Next
<1> QED BY <1>1, <1>2, TypeCorrect, PTL DEF Spec

\* The rows release_task keeps.
LEMMA WithoutKeeps ==
    ASSUME NEW R, NEW s \in Resource, lease[s] \notin R
    PROVE  Without(R)[s] = lease[s]
BY DEF Without

\* No step takes the lease of a task that keeps running, whichever faults may
\* happen: not even a client that deregisters while it submits.
THEOREM LiveLeaseKept == Spec => LiveTaskKeepsLease
<1> DEFINE Keeps == \A s \in Resource :
              lease[s] \in bound /\ task'[lease[s]] \in Live => lease'[s] = lease[s]
<1>1. TypeOK /\ ThreadInv /\ [Next]_vars => [Keeps]_vars
  <2> SUFFICES ASSUME TypeOK, ThreadInv, Next, NEW s \in Resource,
                      lease[s] \in bound, task'[lease[s]] \in Live
               PROVE  lease'[s] = lease[s]
    BY DEF vars
  <2> DEFINE h == lease[s]
  <2>h. h \in Request /\ h \in bound /\ ~Expired(s)
    BY DEF TypeOK, Expired
  <2> HIDE DEF h
  <2>1. ASSUME NEW r \in Request, Admit(r) \/ Worker(r) \/ TransientLapse(r)
        PROVE  lease'[s] = lease[s]
    BY <2>1 DEF Admit, Worker, Finish, EndUncertain, TransientLapse, store
  <2>2. ASSUME NEW r \in Request, Proceed(r) PROVE lease'[s] = lease[s]
    <3>1. CASE Acquire(r)
      BY <3>1, <2>h DEF Acquire, TypeOK, h
    <3>2. CASE SubmitRefused(r) \/ BindFails(r)
      BY <3>2, WithoutKeeps DEF SubmitRefused, BindFails, ReleaseRequest
    <3>3. CASE CheckReviewLock(r) \/ SubmitAccepted(r) \/ BindTask(r) \/ Track(r)
      BY <3>3 DEF CheckReviewLock, SubmitAccepted, BindTask, Track, store
    <3> QED BY <2>2, <3>1, <3>2, <3>3 DEF Proceed
  <2>3. ASSUME NEW i \in Operator, PauseOperator(i) PROVE lease'[s] = lease[s]
    <3>1. PICK R, atOnce :
              /\ PauseTasks(R, atOnce)
              /\ lease' = ReleaseTasks(atOnce \cup {r \in R : task[r] \notin Live})
      BY <2>3 DEF PauseOperator
    <3>2. task[h] \in Live /\ h \notin atOnce
      BY <2>h, <3>1, PauseOnlyStops DEF h
    <3> QED BY <3>1, <3>2, WithoutKeeps DEF ReleaseTasks, h
  <2>4. ASSUME NEW k \in Resource, Unlock(k) PROVE lease'[s] = lease[s]
    BY <2>4, <2>h DEF Unlock
  <2>5. CASE Monitor
    <3>1. CASE MonitorRelease
      <4>1. task'[h] = task[h] /\ h # monitor
        BY <3>1, <2>h DEF MonitorRelease, ThreadInv, h
      <4> QED BY <3>1, <4>1, WithoutKeeps DEF MonitorRelease, ReleaseTasks, h
    <3>2. CASE MonitorCleanup
      BY <3>2, <2>h DEF MonitorCleanup
    <3> QED BY <2>5, <3>1, <3>2 DEF Monitor, MonitorObserve
  <2>6. CASE ClosePass
    <3>1. task[h] \in Live
      BY <2>6, <2>h, PauseOnlyStops DEF ClosePass, h
    <3> QED BY <2>6, <3>1, WithoutKeeps DEF ClosePass, ReleaseTasks, h
  <2>7. CASE CloseFinish
    BY <2>7, WithoutKeeps DEF CloseFinish, ReleaseTasks
  <2>8. CASE StartUp
    <3>1. task' = task
      BY <2>8 DEF StartUp, ClearTaskLeases, RaiseStop, LockRecovered
    <3>2. server \notin {"down", "cleared", "stopped"}
      BY <3>1, <2>h DEF ThreadInv, h
    <3> QED BY <2>8, <3>2 DEF StartUp, ClearTaskLeases, RaiseStop, LockRecovered
  <2>9. CASE ReleaseStop \/ Crash \/ Exit
    BY <2>9 DEF ReleaseStop, Crash, Exit, ProcessDies, store
  <2>10. ASSUME NEW i \in Operator, Deregister(i) PROVE lease'[s] = lease[s]
    BY <2>10, <2>h, WithoutKeeps DEF Deregister, h
  <2> QED
    BY <2>1, <2>2, <2>3, <2>4, <2>5, <2>6, <2>7, <2>8, <2>9, <2>10 DEF Next
<1> QED BY <1>1, TypeCorrect, ThreadInvariant, PTL DEF Spec, LiveTaskKeepsLease
-----------------------------------------------------------------------------
(* Mutual exclusion of tasks by key.                                       *)

\* A request holds its keys from the grant of its lease until its task has
\* ended, and its transient rows do not lapse before they are bound.
LeaseInv ==
    /\ \A r \in Request :
          /\ pc[r] \in {"leased", "accepted", "bound"} \/ task[r] \in Live =>
                \A s \in Needs[r] : lease[s] = r
          /\ pc[r] \in {"bound", "done"} => r \in bound
          /\ pc[r] \in {"idle", "admitted", "reviewed", "leased", "accepted"} =>
                r \notin lapsed \cup bound
          /\ pc[r] # "failed"
    /\ \A s \in Resource :
          lease[s] \in Request => pc[lease[s]] \notin {"idle", "admitted", "reviewed"}

\* A row of a request that is submitting or has an unfinished task is not
\* expired, so no acquire, unlock or cleanup removes it.
LEMMA HeldIsNotExpired ==
    ASSUME TypeOK, ThreadInv, LeaseInv, NEW r \in Request,
           pc[r] \in {"leased", "accepted", "bound"} \/ task[r] \in Live
    PROVE  r \notin lapsed \ bound
BY DEF ThreadInv, LeaseInv

\* Releasing tasks or requests that hold nothing any more leaves LeaseInv true.
LEMMA ReleaseKeeps ==
    ASSUME TypeOK, ThreadInv, LeaseInv, NEW R, lease' = Without(R),
           pc' = pc, bound' = bound, lapsed' = lapsed,
           \A r \in Request : task'[r] \in Live => task[r] \in Live /\ r \notin R,
           \A r \in R : pc[r] \notin {"leased", "accepted", "bound"}
    PROVE  LeaseInv'
BY DEF TypeOK, ThreadInv, LeaseInv, Without

\* No row of a request that is done with its lease guards anything.
LEMMA PruneKeeps ==
    ASSUME TypeOK, ThreadInv, LeaseInv, UNCHANGED <<pc, task, bound, lapsed>>,
           lease' = [s \in Resource |-> IF Expired(s) THEN NoRequest ELSE lease[s]]
    PROVE  LeaseInv'
<1>1. ASSUME NEW r \in Request, NEW s \in Needs[r],
             pc[r] \in {"leased", "accepted", "bound"} \/ task[r] \in Live
      PROVE  lease'[s] = r
  BY <1>1, HeldIsNotExpired DEF TypeOK, LeaseInv, Expired
<1>2. ASSUME NEW s \in Resource, lease'[s] \in Request PROVE lease'[s] = lease[s]
  BY <1>2 DEF TypeOK
<1> QED BY <1>1, <1>2 DEF LeaseInv

\* A submit is accepted, bound and left to run before its lease or its client goes.
Prompt == {"slow_submit", "bind_error", "late_leave"} \cap Faults = {}

\* The invariant behind mutual exclusion and behind the guard of uncertain writes.
LEMMA LeaseInvariant ==
    ASSUME Prompt
    PROVE  Spec => []LeaseInv
<1>0. "slow_submit" \notin Faults /\ "bind_error" \notin Faults /\ "late_leave" \notin Faults
  BY DEF Prompt
<1>1. Init => LeaseInv
  BY DEF Init, LeaseInv, Live
<1>2. TypeOK /\ ThreadInv /\ ThreadInv' /\ LeaseInv /\ [Next]_vars => LeaseInv'
  <2> SUFFICES ASSUME TypeOK, ThreadInv, ThreadInv', LeaseInv, [Next]_vars
               PROVE  LeaseInv'
    OBVIOUS
  <2>1. ASSUME NEW r \in Request, Admit(r) PROVE LeaseInv'
    BY <2>1 DEF Admit, GoTo, store, TypeOK, LeaseInv
  <2>2. ASSUME NEW r \in Request, Proceed(r) PROVE LeaseInv'
    <3> USE DEF TypeOK, GoTo
    <3>1. CASE CheckReviewLock(r)
      BY <3>1 DEF CheckReviewLock, store, LeaseInv, ThreadInv
    <3>2. CASE Acquire(r)
      <4>1. CASE lease' = lease
        BY <3>2, <4>1 DEF Acquire, LeaseInv, ThreadInv
      <4>2. CASE lease' # lease
        <5> DEFINE kept == [s \in Resource |-> IF Expired(s) THEN NoRequest ELSE lease[s]]
        <5>1. /\ \A s \in Needs[r] : kept[s] = NoRequest
              /\ lease' = [s \in Resource |-> IF s \in Needs[r] THEN r ELSE kept[s]]
              /\ pc' = [pc EXCEPT ![r] = "leased"]
              /\ pc[r] = "reviewed"
              /\ UNCHANGED <<task, bound, lapsed>>
          BY <3>2, <4>2 DEF Acquire
        <5>2. ASSUME NEW q \in Request, NEW s \in Needs[q],
                     pc'[q] \in {"leased", "accepted", "bound"} \/ task'[q] \in Live
              PROVE  lease'[s] = q
          <6>1. CASE q = r
            BY <5>1, <6>1
          <6>2. CASE q # r
            <7>1. pc[q] \in {"leased", "accepted", "bound"} \/ task[q] \in Live
              BY <5>1, <5>2, <6>2
            <7>2. lease[s] = q /\ ~Expired(s)
              BY <7>1, HeldIsNotExpired DEF LeaseInv, Expired
            <7>3. s \notin Needs[r]
              BY <5>1, <7>2
            <7> QED BY <5>1, <7>2, <7>3
          <6> QED BY <6>1, <6>2
        <5>3. ASSUME NEW s \in Resource, lease'[s] \in Request
              PROVE  pc'[lease'[s]] \notin {"idle", "admitted", "reviewed"}
          BY <5>1, <5>3 DEF LeaseInv
        <5>4. ASSUME NEW q \in Request
              PROVE  /\ pc'[q] \in {"bound", "done"} => q \in bound'
                     /\ pc'[q] \in {"idle", "admitted", "reviewed", "leased", "accepted"}
                           => q \notin lapsed' \cup bound'
                     /\ pc'[q] # "failed"
          BY <5>1 DEF LeaseInv
        <5> HIDE DEF kept
        <5> QED BY <5>2, <5>3, <5>4 DEF LeaseInv
      <4> QED BY <4>1, <4>2
    <3>3. CASE SubmitAccepted(r)
      BY <3>3 DEF SubmitAccepted, store, LeaseInv, ThreadInv
    <3>4. CASE SubmitRefused(r)
      BY <3>4 DEF SubmitRefused, ReleaseRequest, Without, LeaseInv, ThreadInv
    <3>5. CASE BindTask(r)
      BY <3>5 DEF BindTask, LeaseInv, ThreadInv
    <3>6. CASE BindFails(r)
      BY <1>0, <3>6 DEF BindFails
    <3>7. CASE Track(r)
      BY <3>7 DEF Track, store, LeaseInv, ThreadInv
    <3> QED BY <2>2, <3>1, <3>2, <3>3, <3>4, <3>5, <3>6, <3>7 DEF Proceed
  <2>3. ASSUME NEW r \in Request, Worker(r) PROVE LeaseInv'
    BY <2>3 DEF Worker, Finish, EndUncertain, store, TypeOK, LeaseInv, Live
  <2>4. ASSUME NEW r \in Request, TransientLapse(r) PROVE LeaseInv'
    BY <1>0, <2>4 DEF TransientLapse, LeaseInv, TypeOK
  <2>5. ASSUME NEW i \in Operator, PauseOperator(i) PROVE LeaseInv'
    <3>1. PICK atOnce \in SUBSET {r \in tracked : OwnerOf[r] = i} :
              LET targets == {r \in tracked : OwnerOf[r] = i}
                  over == atOnce \cup {r \in targets : task[r] \notin Live}
              IN PauseTasks(targets, atOnce) /\ lease' = ReleaseTasks(over)
      BY <2>5 DEF PauseOperator
    <3>2. \A r \in Request : task'[r] \in Live => task[r] \in Live /\ r \notin atOnce
      BY <3>1, PauseOnlyStops
    <3>3. \A r \in tracked : pc[r] = "done"
      BY DEF ThreadInv, TypeOK
    <3> DEFINE gone == (atOnce \cup {r \in {q \in tracked : OwnerOf[q] = i} :
                                        task[r] \notin Live}) \cap bound
    <3>4. lease' = Without(gone)
      BY <3>1 DEF ReleaseTasks
    <3>5. \A r \in Request : task'[r] \in Live => task[r] \in Live /\ r \notin gone
      BY <3>2
    <3>6. \A r \in gone : pc[r] \notin {"leased", "accepted", "bound"}
      BY <3>1, <3>3
    <3>7. pc' = pc /\ bound' = bound /\ lapsed' = lapsed
      BY <2>5 DEF PauseOperator
    <3> HIDE DEF gone
    <3> QED BY <3>4, <3>5, <3>6, <3>7, ReleaseKeeps
  <2>6. ASSUME NEW s \in Resource, Unlock(s) PROVE LeaseInv'
    BY <2>6, PruneKeeps DEF Unlock
  <2>7. CASE Monitor
    <3>1. ASSUME NEW r \in Request, MonitorObserve(r) PROVE LeaseInv'
      BY <3>1 DEF MonitorObserve, LeaseInv
    <3>2. CASE MonitorRelease
      BY <3>2, ReleaseKeeps DEF MonitorRelease, ReleaseTasks, ThreadInv, TypeOK
    <3>3. CASE MonitorCleanup
      BY <3>3, PruneKeeps DEF MonitorCleanup
    <3> QED BY <2>7, <3>1, <3>2, <3>3 DEF Monitor
  <2>8. CASE ReleaseStop
    BY <2>8 DEF ReleaseStop, LeaseInv
  <2>9. CASE ClosePass
    <3>1. \A r \in Request : task'[r] \in Live => task[r] \in Live
      BY <2>9, PauseOnlyStops DEF ClosePass
    <3>2. \A r \in tracked : pc[r] = "done"
      BY DEF ThreadInv, TypeOK
    <3> QED BY <2>9, <3>1, <3>2, ReleaseKeeps DEF ClosePass, ReleaseTasks, TypeOK
  <2>10. CASE CloseFinish
    BY <2>10, ReleaseKeeps DEF CloseFinish, ReleaseTasks, ThreadInv, TypeOK
  <2>11. CASE Crash \/ Exit
    BY <2>11 DEF Crash, Exit, ProcessDies, store, LeaseInv, TypeOK, Live, InFlight
  <2>12. CASE StartUp
    <3>1. CASE ClearTaskLeases
      BY <3>1, ReleaseKeeps DEF ClearTaskLeases, ReleaseTasks, ThreadInv, InFlight, TypeOK
    <3>2. CASE RaiseStop \/ (\E r \in Request : LockRecovered(r))
      BY <3>2 DEF RaiseStop, LockRecovered, LeaseInv
    <3> QED BY <2>12, <3>1, <3>2 DEF StartUp
  <2>13. CASE UNCHANGED vars
    BY <2>13 DEF vars, LeaseInv
  <2>14. ASSUME NEW i \in Operator, Deregister(i) PROVE LeaseInv'
    <3> DEFINE gone == {r \in Request : OwnerOf[r] = i} \ bound
    <3>1. \A r \in gone : pc[r] \notin InFlight
      BY <1>0, <2>14 DEF Deregister
    <3>2. \A r \in gone : task[r] \notin Live
      BY <3>1 DEF ThreadInv, LeaseInv, InFlight
    <3>3. lease' = Without(gone) /\ UNCHANGED <<pc, task, bound, lapsed>>
      BY <2>14 DEF Deregister
    <3>4. \A r \in Request : task'[r] \in Live => task[r] \in Live /\ r \notin gone
      BY <3>2, <3>3
    <3> HIDE DEF gone
    <3> QED BY <3>1, <3>3, <3>4, ReleaseKeeps DEF InFlight
  <2> QED
    BY <2>1, <2>2, <2>3, <2>4, <2>5, <2>6, <2>7, <2>8, <2>9, <2>10, <2>11,
       <2>12, <2>13, <2>14 DEF Next
<1> QED BY <1>1, <1>2, TypeCorrect, ThreadInvariant, PTL DEF Spec

\* As long as every submit is bound before its transient lease lapses or its
\* client deregisters, and no bind_task fails, two unfinished tasks never touch
\* the same key: not across clients, pauses, shutdowns, crashes or recoveries.
THEOREM MutualExclusion ==
    ASSUME Prompt
    PROVE  Spec => []OneTaskPerResource
<1>1. LeaseInv => OneTaskPerResource
  BY DEF LeaseInv, OneTaskPerResource
<1> QED BY <1>1, LeaseInvariant, PTL

-----------------------------------------------------------------------------
(* Uncertain writes stay guarded.                                          *)

\* A task whose write is uncertain and which the monitor has yet to see: it has
\* its flag and every one of its rows.
Awaiting(r) ==
    /\ r \in flagged \cap tracked \cap bound
    /\ task[r] = "blocked" /\ monitor # r
    /\ \A s \in Needs[r] : lease[s] = r

\* Where the guard of an unresolved key is before its review lock is set: with
\* the blocked task, in the rows a dead process left, in the rows start-up has
\* read.
GuardInv ==
    /\ server \in {"up", "down", "cleared", "stopped"}
    /\ unresolved \subseteq Lockable
    /\ \A r \in Request : task[r] = "stopping" => r \in tracked
    /\ \A s \in unresolved \ review :
          /\ server = "up" => \E r \in Request : Awaiting(r) /\ s \in Needs[r]
          /\ server = "down" => lease[s] \in bound
          /\ server \in {"cleared", "stopped"} => \E r \in Request : <<r, s>> \in recovered

\* What keeps the rows, the flag and the state of a task that awaits the
\* monitor keeps its keys guarded.
LEMMA StillAwaiting ==
    ASSUME TypeOK, GuardInv, server' = server, unresolved' \subseteq unresolved,
           review \subseteq review' \cup (unresolved \ unresolved'),
           bound \subseteq bound', recovered' = recovered,
           \A s \in Resource : lease[s] \in bound /\ server = "down" => lease'[s] = lease[s],
           \A r \in Request : task'[r] = "stopping" => r \in tracked',
           \A r \in Request : Awaiting(r) /\ server = "up"
                => Awaiting(r)' \/ Lockable \cap Needs[r] \subseteq review'
    PROVE  GuardInv'
<1>1. ASSUME NEW s \in unresolved' \ review', server' = "up"
      PROVE  \E r \in Request : Awaiting(r)' /\ s \in Needs[r]
  <2>1. s \in unresolved \ review /\ server = "up" /\ s \in Lockable
    BY <1>1 DEF GuardInv
  <2>2. PICK r \in Request : Awaiting(r) /\ s \in Needs[r]
    BY <2>1 DEF GuardInv
  <2> QED BY <1>1, <2>1, <2>2
<1>2. ASSUME NEW s \in unresolved' \ review'
      PROVE  /\ server' = "down" => lease'[s] \in bound'
             /\ server' \in {"cleared", "stopped"} => \E r \in Request : <<r, s>> \in recovered'
  BY <1>2 DEF GuardInv
<1> QED BY <1>1, <1>2 DEF GuardInv

\* The usual reason: whatever else a step does, it leaves the rows that carry a
\* task alone, and the flags of tasks that have their rows.
LEMMA RowsKept ==
    ASSUME TypeOK, GuardInv, server' = server, unresolved' \subseteq unresolved,
           review \subseteq review' \cup (unresolved \ unresolved'),
           bound \subseteq bound', recovered' = recovered,
           tracked' = tracked \/ tracked \subseteq tracked', monitor' = monitor,
           \A s \in Resource : lease[s] \in bound => lease'[s] = lease[s],
           \A r \in Request : Awaiting(r) => r \in flagged' /\ task'[r] = "blocked",
           \A r \in Request : task'[r] = "stopping" => task[r] = "stopping"
    PROVE  GuardInv'
<1>1. ASSUME NEW r \in Request, Awaiting(r) PROVE Awaiting(r)'
  <2>1. \A s \in Needs[r] : lease'[s] = r
    BY <1>1 DEF Awaiting
  <2> QED BY <1>1, <2>1 DEF Awaiting
<1>2. \A r \in Request : task'[r] = "stopping" => r \in tracked'
  BY DEF GuardInv
<1> QED BY <1>1, <1>2, StillAwaiting

LEMMA GuardStep ==
    ASSUME Faults = {}, TypeOK, ThreadInv, LeaseInv, GuardInv, [Next]_vars
    PROVE  GuardInv'
<1>1. ASSUME NEW r \in Request, Admit(r) \/ Proceed(r) \/ TransientLapse(r) \/ Finish(r)
      PROVE  GuardInv'
  <2> USE DEF Admit, Proceed, TransientLapse, Finish, CheckReviewLock, Acquire, SubmitAccepted,
              SubmitRefused, BindTask, BindFails, Track, store, memory, process
  <2>1. /\ server' = server /\ unresolved' = unresolved /\ review' = review
        /\ flagged' = flagged /\ monitor' = monitor /\ recovered' = recovered
    BY <1>1
  <2>2. bound \subseteq bound' /\ tracked \subseteq tracked'
    BY <1>1
  <2>3. \/ UNCHANGED task
        \/ ~Awaiting(r) /\ \E v \in {"running", "ended"} : task' = [task EXCEPT ![r] = v]
    <3>1. CASE SubmitAccepted(r)
      BY <3>1 DEF Awaiting, LeaseInv
    <3>2. CASE Finish(r)
      BY <3>2 DEF Live, Awaiting
    <3> QED BY <1>1, <3>1, <3>2
  <2>4. ASSUME NEW s \in Resource, lease[s] \in bound PROVE lease'[s] = lease[s]
    <3>1. CASE Acquire(r)
      <4>1. lease' = lease \/ (~Expired(s) /\ s \notin Needs[r] /\ lease'[s] = lease[s])
        BY <2>4, <3>1 DEF Expired, TypeOK
      <4> QED BY <4>1
    <3>2. CASE SubmitRefused(r) \/ BindFails(r)
      BY <2>4, <3>2 DEF ReleaseRequest, Without
    <3> QED BY <1>1, <3>1, <3>2
  <2> HIDE DEF Admit, Proceed, TransientLapse, Finish, CheckReviewLock, Acquire, SubmitAccepted,
              SubmitRefused, BindTask, BindFails, Track, store, memory, process
  <2>5. \A q \in Request : /\ Awaiting(q) => task'[q] = "blocked"
                           /\ task'[q] = "stopping" => task[q] = "stopping"
    BY <2>3 DEF TypeOK, Awaiting
  <2>6. \A q \in Request : Awaiting(q) => q \in flagged'
    BY <2>1 DEF Awaiting
  <2> QED BY <2>1, <2>2, <2>4, <2>5, <2>6, RowsKept
<1>2. ASSUME NEW r \in Request, EndUncertain(r) PROVE GuardInv'
  <2>1. /\ task[r] = "stopping" /\ task' = [task EXCEPT ![r] = "blocked"]
        /\ flagged' = flagged \cup {r} /\ unresolved' = unresolved \cup ReviewKeys({r})
        /\ UNCHANGED <<lease, bound, review, tracked, monitor, server, recovered>>
        /\ server = "up"
    BY <1>2 DEF EndUncertain, store, process, Serving, GuardInv
  <2>2. r \in tracked /\ monitor # r /\ r \in bound /\ \A s \in Needs[r] : lease[s] = r
    BY <2>1 DEF GuardInv, ThreadInv, LeaseInv, Live
  <2>3. Awaiting(r)'
    BY <2>1, <2>2 DEF Awaiting, TypeOK
  <2>4. ASSUME NEW q \in Request, Awaiting(q) PROVE Awaiting(q)'
    BY <2>1, <2>4 DEF Awaiting, TypeOK
  <2>5. ReviewKeys({r}) \subseteq Needs[r] \cap Lockable
    BY DEF ReviewKeys
  <2>6. ASSUME NEW s \in unresolved' \ review' PROVE \E q \in Request : Awaiting(q)' /\ s \in Needs[q]
    BY <2>1, <2>3, <2>4, <2>5, <2>6 DEF GuardInv
  <2>7. \A q \in Request : task'[q] = "stopping" => q \in tracked'
    BY <2>1 DEF GuardInv, TypeOK
  <2> QED BY <2>1, <2>5, <2>6, <2>7 DEF GuardInv
<1>3. ASSUME NEW i \in Operator, PauseOperator(i) PROVE GuardInv'
  <2> DEFINE mine == {r \in tracked : OwnerOf[r] = i}
  <2>1. PICK atOnce \in SUBSET mine :
            LET over == atOnce \cup {r \in mine : task[r] \notin Live}
            IN /\ PauseTasks(mine, atOnce)
               /\ review' = review \cup ReviewKeys(over \cap flagged)
               /\ lease' = ReleaseTasks(over)
    BY <1>3 DEF PauseOperator
  <2>2. server = "up" /\ UNCHANGED <<bound, server, unresolved, recovered, flagged, tracked, monitor>>
    BY <1>3 DEF PauseOperator, Serving, GuardInv, memory, process
  <2>3. ASSUME NEW r \in Request
        PROVE  /\ task[r] = "blocked" => task'[r] = "blocked"
               /\ task'[r] = "stopping" => r \in tracked'
    BY <2>1, <2>2 DEF PauseTasks, TypeOK, GuardInv
  <2>4. ASSUME NEW r \in Request, Awaiting(r)
        PROVE  Awaiting(r)' \/ Lockable \cap Needs[r] \subseteq review'
    <3>1. CASE r \in mine
      <4>1. r \in {q \in mine : task[q] \notin Live} \cap flagged
        BY <2>4, <3>1 DEF Awaiting, Live
      <4> QED BY <2>1, <4>1 DEF ReviewKeys
    <3>2. CASE r \notin mine
      <4>1. \A s \in Needs[r] : lease'[s] = r
        BY <2>1, <2>4, <3>2 DEF Awaiting, ReleaseTasks, Without
      <4> QED BY <2>2, <2>3, <2>4, <4>1 DEF Awaiting
    <3> QED BY <3>1, <3>2
  <2> HIDE DEF mine
  <2> QED BY <2>1, <2>2, <2>3, <2>4, StillAwaiting
<1>4. ASSUME NEW i \in Operator, Deregister(i) PROVE GuardInv'
  <2>1. UNCHANGED <<bound, review, task, flagged, tracked, monitor, server, recovered, unresolved>>
    BY <1>4 DEF Deregister, memory, process
  <2>2. \A s \in Resource : lease[s] \in bound => lease'[s] = lease[s]
    BY <1>4 DEF Deregister, Without
  <2> QED BY <2>1, <2>2, RowsKept DEF Awaiting
<1>5. ASSUME NEW s \in Resource, Unlock(s) PROVE GuardInv'
  <2>1. /\ lease[s] = NoRequest \/ Expired(s)
        /\ review' = review \ {s} /\ unresolved' = unresolved \ {s}
        /\ flagged' = flagged \ {r \in Request : s \in Needs[r]}
        /\ lease' = [t \in Resource |-> IF Expired(t) THEN NoRequest ELSE lease[t]]
        /\ UNCHANGED <<bound, task, tracked, monitor, server, recovered>>
        /\ server = "up"
    BY <1>5 DEF Unlock, process
  <2>2. \A t \in Resource : lease[t] \in bound => lease'[t] = lease[t]
    BY <2>1 DEF Expired
  <2>3. ASSUME NEW r \in Request, Awaiting(r) PROVE Awaiting(r)'
    <3>1. s \notin Needs[r]
      BY <2>1, <2>3 DEF Awaiting, Expired, TypeOK
    <3>2. r \in flagged'
      BY <2>1, <2>3, <3>1 DEF Awaiting
    <3>3. \A t \in Needs[r] : lease'[t] = r
      BY <2>2, <2>3 DEF Awaiting
    <3> QED BY <2>1, <2>3, <3>2, <3>3 DEF Awaiting
  <2>4. ASSUME NEW t \in unresolved' \ review' PROVE \E r \in Request : Awaiting(r)' /\ t \in Needs[r]
    <3>1. t \in unresolved \ review
      BY <2>1, <2>4
    <3> QED BY <2>1, <2>3, <3>1 DEF GuardInv
  <2>5. \A r \in Request : task'[r] = "stopping" => r \in tracked'
    BY <2>1 DEF GuardInv
  <2> QED BY <2>1, <2>4, <2>5 DEF GuardInv
<1>6. ASSUME NEW r \in Request, MonitorObserve(r) PROVE GuardInv'
  <2>1. /\ monitor' = r /\ review' = review \cup ReviewKeys({r} \cap flagged)
        /\ UNCHANGED <<lease, bound, task, flagged, tracked, server, recovered, unresolved>>
    BY <1>6 DEF MonitorObserve, process
  <2>2. ASSUME NEW q \in Request, Awaiting(q)
        PROVE  Awaiting(q)' \/ Lockable \cap Needs[q] \subseteq review'
    <3>1. CASE q = r
      BY <2>1, <2>2, <3>1 DEF Awaiting, ReviewKeys
    <3>2. CASE q # r
      BY <2>1, <2>2, <3>2 DEF Awaiting
    <3> QED BY <3>1, <3>2
  <2>3. \A q \in Request : task'[q] = "stopping" => q \in tracked'
    BY <2>1 DEF GuardInv
  <2> QED BY <2>1, <2>2, <2>3, StillAwaiting
<1>7. CASE MonitorRelease
  <2>1. /\ monitor # NoRequest /\ lease' = ReleaseTasks({monitor}) /\ tracked' = tracked \ {monitor}
        /\ monitor' = NoRequest /\ server = "up"
        /\ UNCHANGED <<bound, task, flagged, review, server, recovered, unresolved>>
    BY <1>7 DEF MonitorRelease, MonitorRuns, GuardInv, process
  <2>2. ASSUME NEW q \in Request, Awaiting(q) PROVE Awaiting(q)'
    <3>1. q # monitor /\ \A s \in Needs[q] : lease'[s] = q
      BY <2>1, <2>2 DEF Awaiting, ReleaseTasks, Without
    <3> QED BY <2>1, <2>2, <3>1 DEF Awaiting, TypeOK
  <2>3. \A q \in Request : task'[q] = "stopping" => q \in tracked'
    BY <2>1 DEF GuardInv, ThreadInv, Live
  <2> QED BY <2>1, <2>2, <2>3, StillAwaiting
<1>8. CASE MonitorCleanup
  <2>1. UNCHANGED <<bound, review, task, flagged, tracked, monitor, server, recovered, unresolved>>
    BY <1>8 DEF MonitorCleanup, memory, process
  <2>2. \A s \in Resource : lease[s] \in bound => lease'[s] = lease[s]
    BY <1>8 DEF MonitorCleanup, Expired
  <2> QED BY <2>1, <2>2, RowsKept DEF Awaiting
<1>9. CASE ReleaseStop \/ UNCHANGED vars
  <2>1. UNCHANGED <<lease, bound, review, task, flagged, tracked, monitor, server, recovered, unresolved>>
    BY <1>9 DEF ReleaseStop, memory, process, vars
  <2> QED BY <2>1, RowsKept DEF Awaiting
<1>10. ~ClosePass /\ ~CloseFinish /\ ~Exit
  BY DEF ClosePass, CloseFinish, Exit, GuardInv
<1>11. CASE Crash
  <2>1. /\ server = "up" /\ server' = "down" /\ \A r \in Request : pc[r] # "accepted"
        /\ unresolved' = unresolved \cup ReviewKeys(LiveTasks \cap Writes)
        /\ UNCHANGED <<lease, bound, review>>
        /\ task' = [r \in Request |-> IF task[r] \in Live THEN "killed" ELSE task[r]]
    BY <1>11 DEF Crash, ProcessDies, MonitorRuns, GuardInv, store
  <2>2. ASSUME NEW s \in ReviewKeys(LiveTasks \cap Writes)
        PROVE  s \in Lockable /\ lease[s] \in bound
    <3>1. PICK r \in LiveTasks : s \in Needs[r] /\ s \in Lockable
      BY <2>2 DEF ReviewKeys
    <3>2. task[r] \in Live /\ lease[s] = r
      BY <3>1 DEF LiveTasks, LeaseInv
    <3>3. pc[r] \in {"bound", "done"}
      BY <2>1, <3>1, <3>2 DEF LiveTasks, ThreadInv, LeaseInv
    <3> QED BY <3>1, <3>2, <3>3 DEF LiveTasks, LeaseInv
  <2>3. ASSUME NEW s \in unresolved \ review PROVE lease[s] \in bound
    BY <2>1, <2>3 DEF GuardInv, Awaiting
  <2>4. \A r \in Request : task'[r] # "stopping"
    BY <2>1 DEF Live, TypeOK
  <2> QED BY <2>1, <2>2, <2>3, <2>4 DEF GuardInv
<1>12. CASE ClearTaskLeases
  <2>1. /\ server = "down" /\ server' = "cleared"
        /\ recovered' = {row \in bound \X Resource : lease[row[2]] = row[1]}
        /\ UNCHANGED <<task, tracked, unresolved, review>>
    BY <1>12 DEF ClearTaskLeases
  <2>2. ASSUME NEW s \in unresolved \ review PROVE \E r \in Request : <<r, s>> \in recovered'
    <3>1. lease[s] \in bound /\ s \in Resource
      BY <2>1, <2>2 DEF GuardInv, TypeOK
    <3>2. <<lease[s], s>> \in recovered'
      BY <2>1, <3>1
    <3> QED BY <3>1, <3>2 DEF TypeOK
  <2> QED BY <2>1, <2>2 DEF GuardInv
<1>13. CASE RaiseStop
  <2>1. /\ server = "cleared" /\ UNCHANGED <<task, tracked, unresolved, review, recovered>>
        /\ IF recovered = {} THEN server' = "up" ELSE server' = "stopped"
    BY <1>13 DEF RaiseStop, memory
  <2> QED BY <2>1 DEF GuardInv
<1>14. ASSUME NEW q \in Request, LockRecovered(q) PROVE GuardInv'
  <2>1. /\ server = "stopped" /\ server' \in {"up", "stopped"}
        /\ server' = "up" => recovered' = {}
        /\ review' = review \cup {s \in Lockable : <<q, s>> \in recovered}
        /\ recovered' = recovered \ ({q} \X Resource)
        /\ UNCHANGED <<task, tracked, unresolved>>
    BY <1>14 DEF LockRecovered, memory
  <2>2. ASSUME NEW s \in unresolved' \ review' PROVE \E r \in Request : <<r, s>> \in recovered'
    <3>1. PICK r \in Request : <<r, s>> \in recovered
      BY <2>1, <2>2 DEF GuardInv
    <3>2. s \in Lockable
      BY <2>1, <2>2 DEF GuardInv
    <3>3. r # q
      BY <2>1, <2>2, <3>1, <3>2
    <3> QED BY <2>1, <3>1, <3>3
  <2> QED BY <2>1, <2>2 DEF GuardInv
<1> QED BY <1>1, <1>2, <1>3, <1>4, <1>5, <1>6, <1>7, <1>8, <1>9, <1>10, <1>11, <1>12, <1>13, <1>14
        DEF Next, Worker, Monitor, StartUp

\* When none of the rare events happens, a key whose last write is uncertain is
\* kept from other clients until an operator resolves it, through crashes and
\* the recoveries after them.
THEOREM UncertainIsGuarded ==
    ASSUME Faults = {}
    PROVE  Spec => []UnresolvedIsGuarded
<1>1. Init => GuardInv
  BY DEF Init, GuardInv
<1>2. Prompt
  BY DEF Prompt
<1>3. Spec => []LeaseInv
  BY <1>2, LeaseInvariant
<1>4. TypeOK /\ ThreadInv /\ LeaseInv /\ GuardInv /\ [Next]_vars => GuardInv'
  BY GuardStep
<1>5. GuardInv => UnresolvedIsGuarded
  BY DEF GuardInv, UnresolvedIsGuarded, Awaiting
<1> QED BY <1>1, <1>3, <1>4, <1>5, TypeCorrect, ThreadInvariant, PTL DEF Spec
=============================================================================
