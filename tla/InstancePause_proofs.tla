------------------------- MODULE InstancePause_proofs -------------------------
(***************************************************************************)
(* Theorems about InstancePause, for every set of instances and requests   *)
(* and whichever faults may happen.                                        *)
(***************************************************************************)
EXTENDS InstancePause, TLAPS

USE PauseConstants DEF FaultKinds

LEMMA TurnType ==
    ASSUME NEW t \in Thread, NEW place \in StepStates,
           step \in [Thread -> StepStates], Turn(t, place)
    PROVE  step' \in [Thread -> StepStates]
BY DEF Turn

LEMMA ReturnType ==
    ASSUME NEW t \in Thread, TypeOK, Return(t)
    PROVE  pc' \in [Request -> PcStates] /\ step' \in [Thread -> StepStates]
BY DEF Return, Turn, TypeOK, PcStates, StepStates

\* The thread that pauses acts on an instance.
LEMMA SubjectType ==
    ASSUME TypeOK, NEW t \in Thread, t # Monitor
    PROVE  Subject(t) \in Instance
BY DEF Subject, Thread, TypeOK

\* TypeOK is preserved by every step.
THEOREM TypeCorrect == Spec => []TypeOK
<1>1. ASSUME Init PROVE TypeOK
  <2>1. row \in [Instance -> RowStates] /\ targets \in [Instance -> SUBSET Request]
    BY <1>1 DEF Init, RowStates
  <2>2. pc \in [Request -> PcStates] /\ task \in [Request -> TaskStates]
    BY <1>1 DEF Init, PcStates, TaskStates
  <2>3. step \in [Thread -> StepStates]
    BY <1>1 DEF Init, StepStates
  <2>4. losses \in Nat
    BY <1>1 DEF Init
  <2> QED BY <1>1, <2>1, <2>2, <2>3, <2>4 DEF Init, TypeOK
<1>2. TypeOK /\ [Next]_vars => TypeOK'
  <2> SUFFICES ASSUME TypeOK, [Next]_vars PROVE TypeOK'
    OBVIOUS
  <2> USE DEF TypeOK, RowStates, PcStates, TaskStates, StepStates
  <2>1. ASSUME NEW r \in Request, Admit(r) PROVE TypeOK'
    BY <2>1 DEF Admit, GoTo, service, loop
  <2>2. ASSUME NEW r \in Request, Proceed(r) PROVE TypeOK'
    <3>1. r \in Thread
      BY DEF Thread
    <3>2. CASE RecheckGate(r)
      BY <3>2 DEF RecheckGate, GoTo, client, service, loop
    <3>3. CASE Submit(r)
      BY <3>3 DEF Submit, GoTo, client, service, loop
    <3>4. CASE Track(r)
      BY <3>4 DEF Track, GoTo, client, loop
    <3>5. CASE LateCheck(r)
      BY <3>1, <3>5 DEF LateCheck, GoTo, Turn, client, service, loop
    <3> QED BY <2>2, <3>2, <3>3, <3>4, <3>5 DEF Proceed
  <2>3. ASSUME NEW r \in Request, Finish(r) \/ Stop(r) PROVE TypeOK'
    BY <2>3 DEF Finish, Stop, client, service, loop
  <2>4. ASSUME NEW t \in Thread, Pausing(t) PROVE TypeOK'
    <3>1. CASE CloseGate(t)
      BY <3>1 DEF CloseGate, Turn, client, service, loop
    <3>2. CASE StopTasks(t)
      <4>1. task' \in [Request -> TaskStates]
        BY <3>2 DEF StopTasks
      <4>2. targets' \in [Instance -> SUBSET Request]
        BY <3>2 DEF StopTasks, Owned
      <4> QED BY <3>2, <4>1, <4>2 DEF StopTasks, Turn, client, loop
    <3>3. CASE CountTargets(t)
      <4>1. pc' \in [Request -> PcStates] /\ step' \in [Thread -> StepStates]
        BY <3>3, ReturnType DEF CountTargets, Turn
      <4> QED BY <3>3, <4>1 DEF CountTargets, client, service, loop
    <3> QED BY <2>4, <3>1, <3>2, <3>3 DEF Pausing
  <2>5. ASSUME NEW t \in Thread, SettleGate(t) PROVE TypeOK'
    <3>1. pc' \in [Request -> PcStates] /\ step' \in [Thread -> StepStates]
      BY <2>5, ReturnType DEF SettleGate
    <3> QED BY <2>5, <3>1 DEF SettleGate, client, service, loop
  <2>6. ASSUME NEW i \in Instance,
               \/ UserPause(i) \/ AskResume(i) \/ LoseHeartbeat(i) \/ Reconnect(i)
               \/ BeginClose(i) \/ Deregister(i) \/ ReadPause(i) \/ Resume(i)
        PROVE  TypeOK'
    <3>1. i \in Thread /\ Monitor \in Thread
      BY DEF Thread
    <3>2. CASE UserPause(i) \/ AskResume(i) \/ BeginClose(i)
      BY <3>1, <3>2 DEF UserPause, AskResume, BeginClose, Turn, client, service, loop
    <3>3. CASE LoseHeartbeat(i) \/ Reconnect(i) \/ Deregister(i)
      BY <3>3 DEF LoseHeartbeat, Reconnect, Deregister, client, service, loop
    <3>4. CASE ReadPause(i)
      BY <3>1, <3>4 DEF ReadPause, Turn, client, service
    <3>5. CASE Resume(i)
      BY <3>1, <3>5 DEF Resume, Turn, client, loop
    <3> QED BY <2>6, <3>2, <3>3, <3>4, <3>5
  <2>7. CASE VisitTasks
    <3>1. Monitor \in Thread
      BY DEF Thread
    <3>2. CASE BeginIteration
      BY <3>2 DEF BeginIteration, client, service
    <3>3. ASSUME NEW r \in Request, Visit(r) PROVE TypeOK'
      BY <3>1, <3>3 DEF Visit, Turn, client
    <3>4. CASE EndVisit
      BY <3>4 DEF EndVisit, client, service
    <3> QED BY <2>7, <3>2, <3>3, <3>4 DEF VisitTasks
  <2>8. CASE Cleanup
    BY <2>8 DEF Cleanup, service, loop
  <2>9. CASE RefreshPause
    BY <2>9 DEF RefreshPause, Turn, client, service, Thread
  <2>10. CASE UNCHANGED vars
    BY <2>10 DEF vars
  <2> QED
    BY <2>1, <2>2, <2>3, <2>4, <2>5, <2>6, <2>7, <2>8, <2>9, <2>10
    DEF Next, Decide, Step
<1> QED BY <1>1, <1>2, PTL DEF Spec

-----------------------------------------------------------------------------
(* No task runs unwatched.                                                 *)

\* From the moment it is registered until it has ended, a task is owned; an
\* invoke thread pauses only after it has registered its own.
WatchInv ==
    \A r \in Request :
        /\ task[r] \in Live => pc[r] \in {"accepted", "tracked", "ended"}
        /\ task[r] \in Live /\ pc[r] # "accepted" => r \in owned
        /\ step[r] # "off" => pc[r] = "tracked"

LEMMA WatchInvariant == Spec => []WatchInv
<1>1. Init => WatchInv
  BY DEF Init, WatchInv, Live, Thread
<1>2. TypeOK /\ WatchInv /\ [Next]_vars => WatchInv'
  <2> SUFFICES ASSUME TypeOK, WatchInv, [Next]_vars PROVE WatchInv'
    OBVIOUS
  <2> USE DEF TypeOK, WatchInv, Live, PcStates, TaskStates, StepStates
  <2>1. ASSUME NEW r \in Request, Admit(r) PROVE WatchInv'
    BY <2>1 DEF Admit, GoTo, service
  <2>2. ASSUME NEW r \in Request, Proceed(r) PROVE WatchInv'
    <3>1. CASE RecheckGate(r)
      BY <3>1 DEF RecheckGate, GoTo, service
    <3>2. CASE Submit(r)
      BY <3>2 DEF Submit, GoTo, service
    <3>3. CASE Track(r)
      BY <3>3 DEF Track, GoTo
    <3>4. CASE LateCheck(r)
      BY <3>4 DEF LateCheck, GoTo, Turn, Thread, service
    <3> QED BY <2>2, <3>1, <3>2, <3>3, <3>4 DEF Proceed
  <2>3. ASSUME NEW r \in Request, Finish(r) \/ Stop(r) PROVE WatchInv'
    BY <2>3 DEF Finish, Stop, service
  <2>4. ASSUME NEW t \in Thread, Pausing(t) \/ SettleGate(t) PROVE WatchInv'
    <3>1. CASE StopTasks(t)
      BY <3>1 DEF StopTasks, Turn
    <3>2. CASE CloseGate(t) \/ CountTargets(t) \/ SettleGate(t)
      <4>1. task' = task /\ owned' = owned /\ step[t] # "off"
        BY <3>2 DEF CloseGate, CountTargets, SettleGate, service
      <4>2. \/ pc' = pc /\ \E place \in StepStates : Turn(t, place)
            \/ Return(t)
            \/ t \in Request /\ pc' = [pc EXCEPT ![t] = "ended"] /\ Turn(t, "off")
            \/ t \notin Request /\ pc' = pc /\ Turn(t, "off")
        BY <3>2 DEF CloseGate, CountTargets, SettleGate
      <4> QED BY <4>1, <4>2 DEF Return, Turn, Thread
    <3> QED BY <2>4, <3>1, <3>2 DEF Pausing
  <2>5. ASSUME NEW i \in Instance,
               \/ UserPause(i) \/ AskResume(i) \/ LoseHeartbeat(i) \/ Reconnect(i)
               \/ BeginClose(i) \/ Deregister(i) \/ ReadPause(i) \/ Resume(i)
        PROVE  WatchInv'
    BY <2>5 DEF UserPause, AskResume, LoseHeartbeat, Reconnect, BeginClose,
                Deregister, ReadPause, Resume, Turn, Thread, service
  <2>6. CASE VisitTasks
    <3>1. CASE EndVisit
      BY <3>1 DEF EndVisit, service
    <3>2. CASE BeginIteration \/ (\E r \in Request : Visit(r))
      BY <3>2 DEF BeginIteration, Visit, Turn, Thread, service
    <3> QED BY <2>6, <3>1, <3>2 DEF VisitTasks
  <2>7. CASE Cleanup \/ RefreshPause \/ UNCHANGED vars
    BY <2>7 DEF Cleanup, RefreshPause, Turn, Thread, service, vars
  <2> QED
    BY <2>1, <2>2, <2>3, <2>4, <2>5, <2>6, <2>7 DEF Next, Decide, Step
<1> QED BY <1>1, <1>2, TypeCorrect, PTL DEF Spec

\* A task invoke has started stays known to the monitor as long as it runs,
\* whatever pauses, resumes, losses and deregistrations happen meanwhile.
THEOREM NoTaskUnwatched == Spec => []LiveTaskIsTracked
<1>1. WatchInv => LiveTaskIsTracked
  BY DEF WatchInv, LiveTaskIsTracked
<1> QED BY <1>1, WatchInvariant, PTL

-----------------------------------------------------------------------------
(* A settled pause is quiet.                                               *)

\* A thread that has closed its gate and has yet to settle it.
Past == {"gated", "stopped", "busy", "quiet"}

\* Who may stand where, and on which instance the monitor works.
PlaceInv ==
    /\ step[Monitor] # "off" => victim \in Instance
    /\ \A t \in Thread : /\ step[t] \in {"blind", "blindstopped", "refreshing"} => t = Monitor
                         /\ step[t] = "resuming" => t \in Instance

\* An instance with a call under way has not expired.
CallInv ==
    /\ \A r \in Request : pc[r] \in InFlight => OwnerOf[r] \notin expired
    /\ \A i \in Instance : step[i] # "off" => i \notin expired

\* A gate stays closed until it is settled, unless its instance is leaving.
GateInv ==
    \A t \in Thread :
        step[t] \in Past => \/ row[Subject(t)] \in Closed
                            \/ row[Subject(t)] = "none" /\ Subject(t) \in closing

\* The pause of an invoke thread has its own task among its targets.
OwnInv ==
    \A r \in Request :
        step[r] \in Past \ {"gated"} /\ task[r] \in Live => r \in targets[OwnerOf[r]]

\* Behind a closed gate, a task whose call is over is a target of the pause, or
\* some thread is about to make it one.
CoverInv ==
    \A r \in Request :
        row[OwnerOf[r]] \in Closed /\ task[r] \in Live /\ pc[r] = "ended"
            => \/ r \in targets[OwnerOf[r]]
               \/ \E t \in Thread : Subject(t) = OwnerOf[r] /\ step[t] = "gated"

\* A gate that says "paused" over such a task is about to be written again.
RewriteInv ==
    \A r \in Request :
        row[OwnerOf[r]] = "paused" /\ task[r] \in Live /\ pc[r] = "ended"
            => \E t \in Thread : Subject(t) = OwnerOf[r] /\ step[t] \in Past \ {"quiet"}

\* One thread at a time writes what it has just read, and what it read is true.
DecideInv ==
    \A t \in Deciding :
        /\ Deciding = {t}
        /\ step[t] \in {"quiet", "refreshing"} => AllStopped(Subject(t))
        /\ step[t] = "refreshing" => row[victim] \in Closed
        /\ step[t] = "resuming" => Pausers(t) = {t}

PauseInv == PlaceInv /\ CallInv /\ GateInv /\ OwnInv /\ CoverInv /\ RewriteInv /\ DecideInv

LEMMA SubjectStays ==
    ASSUME NEW t \in Thread, victim' = victim \/ t # Monitor
    PROVE  Subject(t)' = Subject(t)
BY DEF Subject, Thread

LEMMA SubjectIsInstance ==
    ASSUME TypeOK, PlaceInv, NEW t \in Thread, step[t] # "off"
    PROVE  Subject(t) \in Instance
BY SubjectType DEF PlaceInv, Subject

\* Steps that neither close nor settle a gate.
LEMMA GatesKept ==
    ASSUME TypeOK, PauseInv, closing \subseteq closing',
           \A u \in Thread : step[u] \in Past \/ step'[u] \in Past
                => step'[u] = step[u] /\ Subject(u)' = Subject(u),
           \A i \in Instance :
                \/ row'[i] = row[i]
                \/ row'[i] \notin Closed /\ \A u \in Thread : Subject(u) = i => step[u] \notin Past
                \/ row'[i] = "none" /\ i \in closing',
           \A r \in Request : task'[r] \in Live /\ step'[r] \in Past
                => task[r] \in Live /\ (r \in targets[OwnerOf[r]] => r \in targets'[OwnerOf[r]]),
           \A r \in Request : task'[r] \in Live /\ row'[OwnerOf[r]] \in Closed /\ pc'[r] = "ended"
                => /\ task[r] \in Live /\ pc[r] = "ended"
                   /\ r \in targets[OwnerOf[r]] => r \in targets'[OwnerOf[r]]
    PROVE  GateInv' /\ OwnInv' /\ CoverInv' /\ RewriteInv'
<1>0. \A r \in Request : r \in Thread /\ OwnerOf[r] \in Instance
  BY DEF Thread
<1>1. GateInv'
  <2> SUFFICES ASSUME NEW t \in Thread, step'[t] \in Past
               PROVE  \/ row'[Subject(t)'] \in Closed
                      \/ row'[Subject(t)'] = "none" /\ Subject(t)' \in closing'
    BY DEF GateInv
  <2>1. step[t] \in Past /\ Subject(t)' = Subject(t)
    OBVIOUS
  <2>2. Subject(t) \in Instance
    BY <2>1, SubjectIsInstance DEF PauseInv, Past
  <2>3. row[Subject(t)] \in Closed \/ (row[Subject(t)] = "none" /\ Subject(t) \in closing)
    BY <2>1 DEF PauseInv, GateInv
  <2> QED BY <2>1, <2>2, <2>3
<1>2. OwnInv'
  <2> SUFFICES ASSUME NEW r \in Request, step'[r] \in Past \ {"gated"}, task'[r] \in Live
               PROVE  r \in targets'[OwnerOf[r]]
    BY DEF OwnInv
  <2> QED BY <1>0 DEF PauseInv, OwnInv
<1>3. ASSUME NEW r \in Request, row'[OwnerOf[r]] \in Closed, task'[r] \in Live, pc'[r] = "ended"
      PROVE  /\ row[OwnerOf[r]] = row'[OwnerOf[r]] /\ task[r] \in Live /\ pc[r] = "ended"
             /\ r \in targets[OwnerOf[r]] => r \in targets'[OwnerOf[r]]
  BY <1>0, <1>3 DEF Closed
<1>4. \A t \in Thread : step[t] \in Past => step'[t] = step[t] /\ Subject(t)' = Subject(t)
  OBVIOUS
<1>5. CoverInv'
  <2> SUFFICES ASSUME NEW r \in Request, row'[OwnerOf[r]] \in Closed, task'[r] \in Live,
                      pc'[r] = "ended", r \notin targets'[OwnerOf[r]]
               PROVE  \E t \in Thread : Subject(t)' = OwnerOf[r] /\ step'[t] = "gated"
    BY DEF CoverInv
  <2>1. PICK t \in Thread : Subject(t) = OwnerOf[r] /\ step[t] = "gated"
    BY <1>3 DEF PauseInv, CoverInv
  <2> QED BY <1>4, <2>1 DEF Past
<1>6. RewriteInv'
  <2> SUFFICES ASSUME NEW r \in Request, row'[OwnerOf[r]] = "paused", task'[r] \in Live,
                      pc'[r] = "ended"
               PROVE  \E t \in Thread : Subject(t)' = OwnerOf[r] /\ step'[t] \in Past \ {"quiet"}
    BY DEF RewriteInv
  <2>1. PICK t \in Thread : Subject(t) = OwnerOf[r] /\ step[t] \in Past \ {"quiet"}
    BY <1>3 DEF PauseInv, RewriteInv, Closed
  <2> QED BY <1>4, <2>1
<1> QED BY <1>1, <1>2, <1>5, <1>6

\* What the steps of a pause have in common.
LEMMA PausingShape ==
    ASSUME TypeOK, NEW t \in Thread, Pausing(t) \/ SettleGate(t)
    PROVE  /\ step[t] \in {"begin", "gated", "blind", "stopped", "blindstopped", "quiet", "busy"}
           /\ \E place \in StepStates \ {"begin", "resuming", "refreshing"} :
                 /\ step' = [step EXCEPT ![t] = place]
                 /\ place = "blind" => t = Monitor
                 /\ place = "blindstopped" => step[t] = "blind"
           /\ \/ pc' = pc
              \/ t \in Request /\ pc' = [pc EXCEPT ![t] = "ended"] /\ step'[t] = "off"
           /\ UNCHANGED <<expired, closing, owned, lost, victim>>
<1>1. CASE CloseGate(t)
  BY <1>1 DEF CloseGate, Turn, client, service, loop, StepStates, TypeOK
<1>2. CASE StopTasks(t)
  <2>1. \/ step[t] = "gated" /\ step' = [step EXCEPT ![t] = "stopped"]
        \/ step[t] = "blind" /\ step' = [step EXCEPT ![t] = "blindstopped"]
    BY <1>2 DEF StopTasks, Turn
  <2>2. UNCHANGED <<pc, expired, closing, owned, lost, victim>>
    BY <1>2 DEF StopTasks, client, loop
  <2> QED BY <2>1, <2>2 DEF StepStates
<1>3. CASE CountTargets(t)
  BY <1>3 DEF CountTargets, Return, Turn, client, service, loop, StepStates, TypeOK
<1>4. CASE SettleGate(t)
  BY <1>4 DEF SettleGate, Return, Turn, client, service, loop, StepStates, TypeOK
<1> QED BY <1>1, <1>2, <1>3, <1>4 DEF Pausing

LEMMA PlaceStep ==
    ASSUME TypeOK, PlaceInv, [Next]_vars
    PROVE  PlaceInv'
<1> USE DEF PlaceInv, TypeOK, StepStates
<1>0. Monitor \in Thread /\ None \notin Thread
  BY DEF Thread
<1>1. ASSUME NEW r \in Request, Admit(r) \/ Proceed(r) \/ Finish(r) \/ Stop(r) PROVE PlaceInv'
  BY <1>1 DEF Admit, Proceed, RecheckGate, Submit, Track, LateCheck, Finish, Stop, Turn, loop, Thread
<1>2. ASSUME NEW t \in Thread, Pausing(t) \/ SettleGate(t) PROVE PlaceInv'
  <2>1. PICK place \in StepStates \ {"begin", "resuming", "refreshing"} :
            /\ step' = [step EXCEPT ![t] = place]
            /\ place = "blind" => t = Monitor
            /\ place = "blindstopped" => step[t] = "blind"
    BY <1>2, PausingShape
  <2>2. victim' = victim /\ step[t] # "off"
    BY <1>2, PausingShape
  <2>3. \A u \in Thread : step'[u] = IF u = t THEN place ELSE step[u]
    BY <2>1
  <2> QED BY <1>0, <2>1, <2>2, <2>3
<1>3. ASSUME NEW i \in Instance,
             \/ UserPause(i) \/ AskResume(i) \/ LoseHeartbeat(i) \/ Reconnect(i)
             \/ BeginClose(i) \/ Deregister(i) \/ ReadPause(i) \/ Resume(i)
      PROVE  PlaceInv'
  BY <1>0, <1>3 DEF UserPause, AskResume, LoseHeartbeat, Reconnect, BeginClose, Deregister,
                    ReadPause, Resume, Turn, loop, Thread
<1>4. CASE VisitTasks \/ Cleanup \/ RefreshPause \/ UNCHANGED vars
  BY <1>0, <1>4 DEF VisitTasks, BeginIteration, Visit, EndVisit, Cleanup, RefreshPause, Turn, Idle,
                    loop, vars
<1> QED BY <1>1, <1>2, <1>3, <1>4 DEF Next, Decide, Step

LEMMA CallStep ==
    ASSUME Faults = {}, TypeOK, WatchInv, PlaceInv, CallInv, [Next]_vars
    PROVE  CallInv'
<1> USE DEF CallInv, TypeOK, InFlight, PcStates
<1>0. \A i \in Instance : i \in Thread /\ i # Monitor /\ i \notin Request
  BY DEF Thread
<1>1. ASSUME NEW r \in Request, Admit(r) \/ Proceed(r) \/ Finish(r) \/ Stop(r) PROVE CallInv'
  <2>1. CASE Admit(r)
    BY <2>1 DEF Admit, GoTo
  <2>2. CASE Proceed(r)
    <3>1. expired' = expired /\ \A q \in Request : pc'[q] \in InFlight => pc[q] \in InFlight
      BY <2>2 DEF Proceed, RecheckGate, Submit, Track, LateCheck, GoTo, client
    <3>2. \A i \in Instance : step'[i] = step[i]
      BY <1>0, <2>2 DEF Proceed, RecheckGate, Submit, Track, LateCheck, Turn
    <3> QED BY <3>1, <3>2
  <2>3. CASE Finish(r) \/ Stop(r)
    BY <2>3 DEF Finish, Stop, client
  <2> QED BY <1>1, <2>1, <2>2, <2>3
<1>2. ASSUME NEW t \in Thread, Pausing(t) \/ SettleGate(t) PROVE CallInv'
  <2>1. expired' = expired /\ step[t] # "off"
    BY <1>2, PausingShape
  <2>2. \A i \in Instance : step'[i] # "off" => step[i] # "off"
    <3>1. PICK place : step' = [step EXCEPT ![t] = place]
      BY <1>2, PausingShape
    <3> QED BY <1>0, <2>1, <3>1
  <2>3. \A r \in Request : pc'[r] \in InFlight => pc[r] \in InFlight
    BY <1>2, PausingShape
  <2> QED BY <2>1, <2>2, <2>3
<1>3. ASSUME NEW i \in Instance,
             \/ UserPause(i) \/ AskResume(i) \/ LoseHeartbeat(i) \/ Reconnect(i)
             \/ BeginClose(i) \/ Deregister(i) \/ ReadPause(i) \/ Resume(i)
      PROVE  CallInv'
  <2>1. CASE UserPause(i) \/ AskResume(i) \/ BeginClose(i)
    BY <1>0, <2>1 DEF UserPause, AskResume, BeginClose, Online, Turn, client
  <2>2. CASE LoseHeartbeat(i)
    BY <2>2 DEF LoseHeartbeat, Calls
  <2>3. CASE Reconnect(i) \/ Deregister(i) \/ ReadPause(i) \/ Resume(i)
    BY <1>0, <2>3 DEF Reconnect, Deregister, ReadPause, Resume, Turn, client
  <2> QED BY <1>3, <2>1, <2>2, <2>3
<1>4. CASE VisitTasks \/ Cleanup \/ RefreshPause \/ UNCHANGED vars
  BY <1>0, <1>4 DEF VisitTasks, BeginIteration, Visit, EndVisit, Cleanup, RefreshPause, Turn, client,
                    vars
<1> QED BY <1>1, <1>2, <1>3, <1>4 DEF Next, Decide, Step

\* A step that leaves nobody deciding, or one thread that has just read.
LEMMA DecideStep ==
    ASSUME Faults = {}, TypeOK, PlaceInv, DecideInv, [Next]_vars
    PROVE  DecideInv'
<1> DEFINE D == {"busy", "quiet", "resuming", "refreshing"}
<1>0. Monitor \in Thread /\ \A i \in Instance : i \in Thread /\ i # Monitor
  BY DEF Thread
<1>1. CASE UNCHANGED vars
  BY <1>1 DEF vars, DecideInv, Deciding, AllStopped, Subject, Pausers
<1>2. CASE Decide
  <2>1. PICK t \in Thread : step[t] \in D /\ step' = [step EXCEPT ![t] = "off"]
    BY <1>0, <1>2 DEF Decide, RefreshPause, Resume, SettleGate, Return, Turn
  <2>2. Deciding = {t}
    BY <2>1 DEF DecideInv, Deciding
  <2>3. Deciding' = {}
    BY <2>1, <2>2 DEF Deciding, TypeOK
  <2> QED BY <2>3 DEF DecideInv
<1>3. CASE Step /\ Deciding = {}
  <2>0. \A u \in Thread : step[u] \notin D
    BY <1>3 DEF Deciding
  <2>1. SUFFICES ASSUME NEW u \in Thread, step'[u] \in D
                 PROVE  /\ \A v \in Thread : step'[v] \in D => v = u
                        /\ step'[u] \in {"quiet", "refreshing"} => AllStopped(Subject(u))'
                        /\ step'[u] = "refreshing" => row'[victim'] \in Closed
                        /\ step'[u] = "resuming" => Pausers(u)' = {u}
    BY DEF DecideInv, Deciding
  <2>2. ASSUME NEW r \in Request, Admit(r) \/ Proceed(r) \/ Finish(r) \/ Stop(r) PROVE FALSE
    <3>1. step' = step \/ step' = [step EXCEPT ![r] = "begin"]
      BY <2>2 DEF Admit, Proceed, RecheckGate, Submit, Track, LateCheck, Finish, Stop, Turn
    <3> QED BY <2>0, <2>1, <3>1 DEF TypeOK
  <2>3. ASSUME NEW t \in Thread, Pausing(t)
        PROVE  /\ \A v \in Thread : step'[v] \in D => v = u
               /\ step'[u] = "quiet" => AllStopped(Subject(u))'
               /\ step'[u] \notin {"refreshing", "resuming"}
    <3>1. CASE CountTargets(t)
      <4>1. \/ step' = [step EXCEPT ![t] = "off"]
            \/ step' = [step EXCEPT ![t] = "quiet"] /\ AllStopped(Subject(t))
            \/ step' = [step EXCEPT ![t] = "busy"]
        BY <3>1 DEF CountTargets, Return, Turn
      <4>2. u = t /\ \A v \in Thread : step'[v] \in D => v = u
        BY <2>0, <2>1, <4>1 DEF TypeOK
      <4>3. AllStopped(Subject(t)) => AllStopped(Subject(t))'
        BY <3>1 DEF CountTargets, AllStopped, Subject, service, loop
      <4> QED BY <4>1, <4>2, <4>3 DEF TypeOK
    <3>2. CASE CloseGate(t) \/ StopTasks(t)
      <4>1. \E place \in {"off", "gated", "blind", "stopped", "blindstopped"} :
               step' = [step EXCEPT ![t] = place]
        BY <3>2 DEF CloseGate, StopTasks, Turn
      <4> QED BY <2>0, <2>1, <4>1 DEF TypeOK
    <3> QED BY <2>3, <3>1, <3>2 DEF Pausing
  <2>4. ASSUME NEW i \in Instance, UserPause(i) \/ LoseHeartbeat(i) \/ Reconnect(i) \/ BeginClose(i)
                                   \/ Deregister(i)
        PROVE  FALSE
    <3>1. step' = step \/ \E place \in {"off", "begin"} : step' = [step EXCEPT ![i] = place]
      BY <2>4 DEF UserPause, LoseHeartbeat, Reconnect, BeginClose, Deregister, Turn
    <3> QED BY <2>0, <2>1, <3>1 DEF TypeOK
  <2>5. ASSUME NEW i \in Instance, AskResume(i)
        PROVE  /\ \A v \in Thread : step'[v] \in D => v = u
               /\ step'[u] = "resuming" /\ Pausers(u)' = {u}
    <3>1. /\ step' = [step EXCEPT ![i] = "resuming"] /\ Pausers(i) = {}
          /\ UNCHANGED <<owned, pc, victim>>
      BY <2>5 DEF AskResume, Turn, service, loop
    <3>2. u = i /\ \A v \in Thread : step'[v] \in D => v = u
      BY <2>0, <2>1, <3>1 DEF TypeOK
    <3>3. \A v \in Thread : Subject(v)' = Subject(v)
      BY <3>1, SubjectStays
    <3>4. Subject(i) = i
      BY DEF Subject
    <3>5. step'[i] = "resuming" /\ \A v \in Thread : v # i => step'[v] = step[v]
      BY <1>0, <3>1 DEF TypeOK
    <3>6. {v \in Thread : Subject(v)' = i /\ step'[v] # "off"} = {i}
      BY <1>0, <3>1, <3>3, <3>4, <3>5 DEF Pausers
    <3>7. {q \in owned' : OwnerOf[q] = i /\ pc'[q] = "tracked"} = {}
      BY <3>1 DEF Pausers
    <3> QED BY <3>2, <3>5, <3>6, <3>7 DEF Pausers
  <2>6. ASSUME NEW i \in Instance, ReadPause(i)
        PROVE  /\ \A v \in Thread : step'[v] \in D => v = u
               /\ u = Monitor /\ step'[u] = "refreshing" /\ victim' = i
               /\ AllStopped(i)' /\ row'[i] \in Closed
    <3>1. /\ step' = [step EXCEPT ![Monitor] = "refreshing"] /\ victim' = i
          /\ row'[i] = "pausing" /\ AllStopped(i)'
      BY <2>6 DEF ReadPause, Turn, AllStopped, service
    <3> QED BY <1>0, <2>0, <2>1, <3>1 DEF TypeOK, Closed
  <2>7. CASE VisitTasks \/ Cleanup
    <3>1. step' = step \/ step' = [step EXCEPT ![Monitor] = "begin"]
      BY <2>7 DEF VisitTasks, BeginIteration, Visit, EndVisit, Cleanup, Turn
    <3> QED BY <2>0, <2>1, <3>1 DEF TypeOK
  <2>8. Subject(Monitor)' = victim'
    BY DEF Subject
  <2> QED BY <1>3, <2>2, <2>3, <2>4, <2>5, <2>6, <2>7, <2>8 DEF Step
<1> QED BY <1>1, <1>2, <1>3 DEF Next

Gates == GateInv /\ OwnInv /\ CoverInv /\ RewriteInv

\* The calls, and what tasks do by themselves.
LEMMA RequestGates ==
    ASSUME TypeOK, WatchInv, PauseInv, NEW r \in Request,
           Admit(r) \/ Proceed(r) \/ Finish(r) \/ Stop(r)
    PROVE  Gates'
<1> USE DEF Proceed
<1>1. closing' = closing /\ row' = row /\ targets' = targets /\ victim' = victim
  BY DEF Admit, RecheckGate, Submit, Track, LateCheck, Finish, Stop, client, service, loop
<1>2. step' = step \/ (step[r] = "off" /\ step' = [step EXCEPT ![r] = "begin"])
  BY DEF Admit, RecheckGate, Submit, Track, LateCheck, Finish, Stop, Turn
<1>3. \A u \in Thread : step[u] \in Past \/ step'[u] \in Past
          => step'[u] = step[u] /\ Subject(u)' = Subject(u)
  BY <1>1, <1>2, SubjectStays DEF TypeOK, Past
<1>4. ASSUME NEW q \in Request, task'[q] \in Live
      PROVE  /\ step'[q] \in Past => task[q] \in Live
             /\ row'[OwnerOf[q]] \in Closed /\ pc'[q] = "ended"
                  => task[q] \in Live /\ pc[q] = "ended"
  <2>1. q \in Thread
    BY DEF Thread
  <2>2. CASE q # r
    BY <1>4, <2>2 DEF Admit, RecheckGate, Submit, Track, LateCheck, Finish, Stop, GoTo, TypeOK
  <2>3. CASE q = r /\ (Admit(r) \/ RecheckGate(r))
    BY <1>4, <2>3 DEF Admit, RecheckGate, WatchInv
  <2>4. CASE q = r /\ Submit(r)
    <3>1. pc[r] = "cleared" /\ step[r] = "off" /\ step' = step
      BY <2>4 DEF Submit, WatchInv
    <3>2. pc'[r] = "ended" => task'[r] = task[r]
      BY <2>4 DEF Submit, GoTo, TypeOK
    <3> QED BY <1>4, <2>4, <3>1, <3>2 DEF WatchInv, Past
  <2>5. CASE q = r /\ (Track(r) \/ LateCheck(r))
    BY <1>1, <1>4, <2>5 DEF Track, LateCheck, GoTo, TypeOK
  <2>6. CASE q = r /\ (Finish(r) \/ Stop(r))
    BY <1>4, <2>6 DEF Finish, Stop, TypeOK, Live
  <2> QED BY <2>2, <2>3, <2>4, <2>5, <2>6
<1> HIDE DEF Proceed
<1> QED BY <1>1, <1>3, <1>4, GatesKept DEF Gates

\* What clients and operators do, and the monitor's refresh.
LEMMA ClientGates ==
    ASSUME TypeOK, WatchInv, PauseInv, NEW i \in Instance,
           \/ UserPause(i) \/ AskResume(i) \/ LoseHeartbeat(i) \/ Reconnect(i)
           \/ BeginClose(i) \/ Deregister(i) \/ ReadPause(i)
    PROVE  Gates'
<1>0. i \in Thread /\ Monitor \in Thread
  BY DEF Thread
<1>1. closing \subseteq closing' /\ UNCHANGED <<targets, task, pc>>
  <2>1. CASE UserPause(i) \/ AskResume(i) \/ ReadPause(i)
    BY <2>1 DEF UserPause, AskResume, ReadPause, client, service
  <2>2. CASE LoseHeartbeat(i) \/ Reconnect(i) \/ BeginClose(i) \/ Deregister(i)
    BY <2>2 DEF LoseHeartbeat, Reconnect, BeginClose, Deregister, service
  <2> QED BY <2>1, <2>2
<1>2. \/ step' = step /\ victim' = victim
      \/ step[i] = "off" /\ victim' = victim
         /\ \E place \in {"off", "begin", "resuming"} : step' = [step EXCEPT ![i] = place]
      \/ step[Monitor] = "off" /\ step' = [step EXCEPT ![Monitor] = "refreshing"]
  BY DEF UserPause, AskResume, LoseHeartbeat, Reconnect, BeginClose, Deregister, ReadPause, Turn,
         Idle, loop
<1>3. \A u \in Thread : step[u] \in Past \/ step'[u] \in Past
          => step'[u] = step[u] /\ Subject(u)' = Subject(u)
  BY <1>0, <1>2, SubjectStays DEF TypeOK, Past
<1>4. ASSUME NEW j \in Instance
      PROVE  \/ row'[j] = row[j]
             \/ row'[j] \notin Closed /\ \A u \in Thread : Subject(u) = j => step[u] \notin Past
             \/ row'[j] = "none" /\ j \in closing'
  <2>1. CASE Reconnect(i)
    <3>1. j # i => row'[j] = row[j]
      BY <2>1 DEF Reconnect, TypeOK
    <3>2. row[i] # "none" => row'[i] = row[i]
      BY <2>1 DEF Reconnect, TypeOK
    <3>3. row[i] = "none" => row'[i] = "active" /\ i \notin closing
      BY <2>1 DEF Reconnect, TypeOK
    <3>4. row[i] = "none" /\ i \notin closing => \A u \in Thread : Subject(u) = i => step[u] \notin Past
      BY DEF PauseInv, GateInv, Closed
    <3> QED BY <3>1, <3>2, <3>3, <3>4 DEF Closed
  <2>2. CASE Deregister(i)
    BY <2>2 DEF Deregister, TypeOK
  <2>3. CASE ~Reconnect(i) /\ ~Deregister(i)
    BY <2>3 DEF UserPause, AskResume, LoseHeartbeat, BeginClose, ReadPause
  <2> QED BY <2>1, <2>2, <2>3
<1> QED BY <1>1, <1>3, <1>4, GatesKept DEF Gates

\* The monitor's iteration.
LEMMA MonitorGates ==
    ASSUME TypeOK, WatchInv, PauseInv, VisitTasks \/ Cleanup
    PROVE  Gates'
<1>0. Monitor \in Thread
  BY DEF Thread
<1>1. closing' = closing /\ UNCHANGED <<task, pc>> /\ step[Monitor] = "off"
  BY DEF VisitTasks, BeginIteration, Visit, EndVisit, Cleanup, Idle, client
<1>2. step' = step \/ step' = [step EXCEPT ![Monitor] = "begin"]
  BY DEF VisitTasks, BeginIteration, Visit, EndVisit, Cleanup, Turn
<1>3. \A u \in Thread : step[u] \in Past \/ step'[u] \in Past
          => step'[u] = step[u] /\ Subject(u)' = Subject(u)
  BY <1>0, <1>1, <1>2, SubjectStays DEF TypeOK, Past
<1>4. ASSUME NEW j \in Instance
      PROVE  \/ row'[j] = row[j]
             \/ row'[j] \notin Closed /\ \A u \in Thread : Subject(u) = j => step[u] \notin Past
  <2>1. CASE VisitTasks
    BY <2>1 DEF VisitTasks, BeginIteration, Visit, EndVisit
  <2>2. CASE Cleanup /\ j \in expired
    <3>1. row'[j] = "none"
      BY <2>2 DEF Cleanup
    <3>2. ASSUME NEW u \in Thread, Subject(u) = j PROVE step[u] = "off"
      <4>1. CASE u \in Instance
        BY <2>2, <3>2, <4>1 DEF Subject, PauseInv, CallInv
      <4>2. CASE u \in Request
        BY <2>2, <3>2, <4>2 DEF Subject, PauseInv, CallInv, WatchInv, InFlight
      <4> QED BY <1>1, <4>1, <4>2 DEF Thread
    <3> QED BY <3>1, <3>2 DEF Closed, Past
  <2>3. CASE Cleanup /\ j \notin expired
    BY <2>3 DEF Cleanup
  <2> QED BY <2>1, <2>2, <2>3
<1>5. ASSUME NEW r \in Request, task'[r] \in Live, step'[r] \in Past \/ pc'[r] = "ended",
             r \in targets[OwnerOf[r]]
      PROVE  r \in targets'[OwnerOf[r]]
  <2>1. CASE EndVisit
    <3>1. r \in owned /\ task[r] \in Live
      BY <1>1, <1>5, <2>1 DEF WatchInv, EndVisit, Past
    <3>2. \/ targets' = targets
          \/ task[visited] \notin Live /\ Owned(OwnerOf[visited]) \subseteq {visited}
             /\ targets' = [targets EXCEPT ![OwnerOf[visited]] = {}]
      BY <2>1 DEF EndVisit, service
    <3>3. OwnerOf[r] = OwnerOf[visited] => r \in Owned(OwnerOf[visited])
      BY <3>1 DEF Owned
    <3>4. OwnerOf[r] \in Instance
      OBVIOUS
    <3> QED BY <1>5, <3>1, <3>2, <3>3, <3>4 DEF TypeOK
  <2>2. CASE ~EndVisit
    BY <1>5, <2>2 DEF VisitTasks, BeginIteration, Visit, Cleanup, service
  <2> QED BY <2>1, <2>2
<1> QED BY <1>1, <1>3, <1>4, <1>5, GatesKept DEF Gates

\* A resume finds nobody else at its instance.
LEMMA ResumeGates ==
    ASSUME TypeOK, WatchInv, PauseInv, NEW i \in Instance, Resume(i)
    PROVE  Gates'
<1>0. i \in Thread /\ step[i] = "resuming"
  BY DEF Thread, Resume
<1>1. Pausers(i) = {i}
  BY <1>0 DEF PauseInv, DecideInv, Deciding
<1>2. \A u \in Thread : Subject(u) = i => step[u] \notin Past
  BY <1>0, <1>1 DEF Pausers, Past
<1>3. closing' = closing /\ victim' = victim /\ UNCHANGED <<task, pc>>
      /\ step' = [step EXCEPT ![i] = "off"]
  BY DEF Resume, Turn, client, loop
<1>4. \A u \in Thread : step[u] \in Past \/ step'[u] \in Past
          => step'[u] = step[u] /\ Subject(u)' = Subject(u)
  BY <1>0, <1>3, SubjectStays DEF TypeOK, Past
<1>5. \A j \in Instance : row'[j] = row[j] \/ (j = i /\ row'[j] = "active")
  BY DEF Resume, TypeOK
<1>6. ASSUME NEW r \in Request, r \in targets[OwnerOf[r]],
             step'[r] \in Past \/ row'[OwnerOf[r]] \in Closed
      PROVE  r \in targets'[OwnerOf[r]]
  <2>1. r \in Thread /\ Subject(r) = OwnerOf[r]
    BY DEF Thread, Subject
  <2>2. OwnerOf[r] = i => row'[i] \in Closed
    BY <1>2, <1>4, <1>6, <2>1
  <2>3. OwnerOf[r] = i => row[i] = "none"
    BY <2>2 DEF Resume, TypeOK, Closed
  <2>4. OwnerOf[r] # i => targets'[OwnerOf[r]] = targets[OwnerOf[r]]
    BY DEF Resume, TypeOK
  <2>5. row[i] = "none" => row'[i] = "none"
    BY DEF Resume, TypeOK
  <2> QED BY <1>6, <2>2, <2>3, <2>4, <2>5 DEF Closed
<1> QED BY <1>2, <1>3, <1>4, <1>5, <1>6, GatesKept DEF Gates, Closed

LEMMA CloseGates ==
    ASSUME TypeOK, WatchInv, PauseInv, NEW t \in Thread, CloseGate(t)
    PROVE  Gates'
<1> DEFINE i == Subject(t)
<1>0. i \in Instance /\ step[t] = "begin"
  BY SubjectIsInstance DEF CloseGate, PauseInv
<1>1. UNCHANGED <<closing, task, targets, victim>> /\ \A u \in Thread : Subject(u)' = Subject(u)
  BY SubjectStays DEF CloseGate, client, service, loop
<1>2. CASE row[i] = "none"
  <2>1. row' = row /\ \E place \in {"blind", "off"} : step' = [step EXCEPT ![t] = place]
    BY <1>2 DEF CloseGate, Turn
  <2>2. \A r \in Request : row[OwnerOf[r]] \in Closed /\ pc'[r] = "ended" => pc[r] = "ended"
    BY <1>2 DEF CloseGate, Subject, Closed, TypeOK
  <2>3. \A u \in Thread : step[u] \in Past \/ step'[u] \in Past => step'[u] = step[u]
    BY <1>0, <2>1 DEF TypeOK, Past
  <2> QED BY <1>1, <2>1, <2>2, <2>3, GatesKept DEF Gates
<1>3. CASE row[i] # "none"
  <2>1. /\ row' = [row EXCEPT ![i] = "pausing"] /\ pc' = pc
        /\ step' = [step EXCEPT ![t] = "gated"]
    BY <1>3 DEF CloseGate, Turn
  <2>2. /\ row'[i] = "pausing" /\ step'[t] = "gated"
        /\ \A j \in Instance : j # i => row'[j] = row[j]
        /\ \A u \in Thread : u # t => step'[u] = step[u]
    BY <1>0, <2>1 DEF TypeOK
  <2> HIDE DEF i
  <2>3. GateInv'
    <3> SUFFICES ASSUME NEW u \in Thread, step'[u] \in Past
                 PROVE  \/ row'[Subject(u)] \in Closed
                        \/ row'[Subject(u)] = "none" /\ Subject(u) \in closing
      BY <1>1 DEF GateInv
    <3>1. u # t => Subject(u) \in Instance
      BY <2>2, SubjectIsInstance DEF PauseInv, Past
    <3> QED BY <2>2, <3>1 DEF PauseInv, GateInv, Closed, i
  <2>4. OwnInv'
    <3> SUFFICES ASSUME NEW r \in Request, step'[r] \in Past \ {"gated"}, task[r] \in Live
                 PROVE  r \in targets[OwnerOf[r]]
      BY <1>1 DEF OwnInv
    <3>1. r \in Thread /\ r # t
      BY <2>2 DEF Thread
    <3> QED BY <2>2, <3>1 DEF PauseInv, OwnInv
  <2>5. CoverInv'
    <3> SUFFICES ASSUME NEW r \in Request, row'[OwnerOf[r]] \in Closed, task[r] \in Live,
                        pc[r] = "ended", r \notin targets[OwnerOf[r]]
                 PROVE  \E u \in Thread : Subject(u) = OwnerOf[r] /\ step'[u] = "gated"
      BY <1>1, <2>1 DEF CoverInv
    <3>1. CASE OwnerOf[r] = i
      BY <2>2, <3>1 DEF i
    <3>2. CASE OwnerOf[r] # i
      <4>1. PICK u \in Thread : Subject(u) = OwnerOf[r] /\ step[u] = "gated"
        BY <2>2, <3>2 DEF PauseInv, CoverInv
      <4> QED BY <1>0, <2>2, <4>1
    <3> QED BY <3>1, <3>2
  <2>6. RewriteInv'
    <3> SUFFICES ASSUME NEW r \in Request, row'[OwnerOf[r]] = "paused", task[r] \in Live,
                        pc[r] = "ended"
                 PROVE  \E u \in Thread : Subject(u) = OwnerOf[r] /\ step'[u] \in Past \ {"quiet"}
      BY <1>1, <2>1 DEF RewriteInv
    <3>1. OwnerOf[r] # i
      BY <2>2
    <3>2. PICK u \in Thread : Subject(u) = OwnerOf[r] /\ step[u] \in Past \ {"quiet"}
      BY <2>2, <3>1 DEF PauseInv, RewriteInv
    <3> QED BY <1>0, <2>2, <3>2 DEF Past
  <2> QED BY <2>3, <2>4, <2>5, <2>6 DEF Gates
<1> QED BY <1>2, <1>3

LEMMA StopGates ==
    ASSUME TypeOK, WatchInv, PauseInv, NEW t \in Thread, StopTasks(t)
    PROVE  Gates'
<1> DEFINE i == Subject(t)
<1>0. i \in Instance
  BY SubjectIsInstance DEF StopTasks, PauseInv
<1>1. UNCHANGED <<closing, pc, row, victim>> /\ \A u \in Thread : Subject(u)' = Subject(u)
  BY SubjectStays DEF StopTasks, client, loop
<1>2. \/ step[t] = "gated" /\ step' = [step EXCEPT ![t] = "stopped"]
      \/ step[t] = "blind" /\ step' = [step EXCEPT ![t] = "blindstopped"]
  BY DEF StopTasks, Turn
<1>3. /\ \/ step[t] = "gated" /\ step'[t] = "stopped"
         \/ step'[t] \notin Past /\ step[t] \notin Past
      /\ \A u \in Thread : u # t => step'[u] = step[u]
  BY <1>2 DEF TypeOK, Past
<1>4. ASSUME NEW r \in Request, task'[r] \in Live PROVE task[r] \in Live
  BY <1>4 DEF StopTasks, Live, TypeOK
<1>5. \A r \in Request : r \in targets[OwnerOf[r]] \/ (r \in owned /\ OwnerOf[r] = i)
          => r \in targets'[OwnerOf[r]]
  BY <1>0 DEF StopTasks, Owned, TypeOK
<1> HIDE DEF i
<1>6. GateInv'
  BY <1>1, <1>3 DEF GateInv, PauseInv, Past
<1>7. OwnInv'
  <2> SUFFICES ASSUME NEW r \in Request, step'[r] \in Past \ {"gated"}, task'[r] \in Live
               PROVE  r \in targets'[OwnerOf[r]]
    BY DEF OwnInv
  <2>1. r \in Thread /\ Subject(r) = OwnerOf[r] /\ task[r] \in Live
    BY <1>4 DEF Thread, Subject
  <2>2. CASE r = t
    BY <1>3, <1>5, <2>1, <2>2 DEF WatchInv, i
  <2>3. CASE r # t
    BY <1>3, <1>5, <2>1, <2>3 DEF PauseInv, OwnInv
  <2> QED BY <2>2, <2>3
<1>8. CoverInv'
  <2> SUFFICES ASSUME NEW r \in Request, row[OwnerOf[r]] \in Closed, task'[r] \in Live,
                      pc[r] = "ended", r \notin targets'[OwnerOf[r]]
               PROVE  \E u \in Thread : Subject(u) = OwnerOf[r] /\ step'[u] = "gated"
    BY <1>1 DEF CoverInv
  <2>1. task[r] \in Live /\ r \notin targets[OwnerOf[r]] /\ OwnerOf[r] # i
    BY <1>4, <1>5 DEF WatchInv
  <2>2. PICK u \in Thread : Subject(u) = OwnerOf[r] /\ step[u] = "gated"
    BY <2>1 DEF PauseInv, CoverInv
  <2> QED BY <1>3, <2>1, <2>2 DEF i
<1>9. RewriteInv'
  <2> SUFFICES ASSUME NEW r \in Request, row[OwnerOf[r]] = "paused", task'[r] \in Live,
                      pc[r] = "ended"
               PROVE  \E u \in Thread : Subject(u) = OwnerOf[r] /\ step'[u] \in Past \ {"quiet"}
    BY <1>1 DEF RewriteInv
  <2>1. PICK u \in Thread : Subject(u) = OwnerOf[r] /\ step[u] \in Past \ {"quiet"}
    BY <1>4 DEF PauseInv, RewriteInv
  <2> QED BY <1>3, <2>1 DEF Past
<1> QED BY <1>6, <1>7, <1>8, <1>9 DEF Gates

LEMMA CountGates ==
    ASSUME TypeOK, WatchInv, PauseInv, NEW t \in Thread, CountTargets(t)
    PROVE  Gates'
<1>1. UNCHANGED <<closing, task, targets, row, victim>> /\ \A u \in Thread : Subject(u)' = Subject(u)
  BY SubjectStays DEF CountTargets, client, service, loop
<1>2. CASE step[t] = "blindstopped"
  <2>1. t \notin Request
    BY <1>2 DEF PauseInv, PlaceInv
  <2>2. pc' = pc /\ step' = [step EXCEPT ![t] = "off"]
    BY <1>2, <2>1 DEF CountTargets, Return, Turn
  <2>3. \A u \in Thread : step[u] \in Past \/ step'[u] \in Past => step'[u] = step[u]
    BY <1>2, <2>2 DEF TypeOK, Past
  <2> QED BY <1>1, <2>2, <2>3, GatesKept DEF Gates
<1>3. CASE step[t] # "blindstopped"
  <2>1. /\ step[t] = "stopped" /\ pc' = pc
        /\ \/ step' = [step EXCEPT ![t] = "quiet"] /\ AllStopped(Subject(t))
           \/ step' = [step EXCEPT ![t] = "busy"]
    BY <1>3 DEF CountTargets, Turn
  <2>2. /\ step'[t] = "busy" \/ (step'[t] = "quiet" /\ AllStopped(Subject(t)))
        /\ \A u \in Thread : u # t => step'[u] = step[u]
    BY <2>1 DEF TypeOK
  <2>3. GateInv' /\ OwnInv'
    BY <1>1, <2>1, <2>2 DEF GateInv, OwnInv, PauseInv, Past, Thread
  <2>4. CoverInv'
    <3> SUFFICES ASSUME NEW r \in Request, row[OwnerOf[r]] \in Closed, task[r] \in Live,
                        pc[r] = "ended", r \notin targets[OwnerOf[r]]
                 PROVE  \E u \in Thread : Subject(u) = OwnerOf[r] /\ step'[u] = "gated"
      BY <1>1, <2>1 DEF CoverInv
    <3>1. PICK u \in Thread : Subject(u) = OwnerOf[r] /\ step[u] = "gated"
      BY DEF PauseInv, CoverInv
    <3> QED BY <2>1, <2>2, <3>1
  <2>5. RewriteInv'
    <3> SUFFICES ASSUME NEW r \in Request, row[OwnerOf[r]] = "paused", task[r] \in Live,
                        pc[r] = "ended"
                 PROVE  \E u \in Thread : Subject(u) = OwnerOf[r] /\ step'[u] \in Past \ {"quiet"}
      BY <1>1, <2>1 DEF RewriteInv
    <3>1. PICK u \in Thread : Subject(u) = OwnerOf[r] /\ step[u] \in Past \ {"quiet"}
      BY DEF PauseInv, RewriteInv
    <3>2. CASE step'[u] \in Past \ {"quiet"}
      BY <3>1, <3>2
    <3>3. CASE step'[u] \notin Past \ {"quiet"}
      <4>1. u = t /\ AllStopped(OwnerOf[r])
        BY <2>2, <3>1, <3>3 DEF Past
      <4>2. r \notin targets[OwnerOf[r]]
        BY <4>1 DEF AllStopped
      <4>3. PICK v \in Thread : Subject(v) = OwnerOf[r] /\ step[v] = "gated"
        BY <4>2 DEF PauseInv, CoverInv, Closed
      <4> QED BY <2>1, <2>2, <4>3 DEF Past
    <3> QED BY <3>2, <3>3
  <2> QED BY <2>3, <2>4, <2>5 DEF Gates
<1> QED BY <1>2, <1>3

LEMMA SettleGates ==
    ASSUME TypeOK, WatchInv, PauseInv, NEW t \in Thread, SettleGate(t)
    PROVE  Gates'
<1> DEFINE i == Subject(t)
<1>0. i \in Instance /\ step[t] \in {"quiet", "busy"}
  BY SubjectIsInstance DEF SettleGate, PauseInv
<1>1. UNCHANGED <<closing, task, targets, victim>> /\ \A u \in Thread : Subject(u)' = Subject(u)
  BY SubjectStays DEF SettleGate, client, service, loop
<1>2. step' = [step EXCEPT ![t] = "off"]
      /\ pc' = IF t \in Request THEN [pc EXCEPT ![t] = "ended"] ELSE pc
  BY DEF SettleGate, Return, Turn
<1>3. step'[t] = "off" /\ \A u \in Thread : u # t => step'[u] = step[u]
  BY <1>2 DEF TypeOK
<1>4. /\ \A j \in Instance : j # i => row'[j] = row[j]
      /\ row[i] = "none" => row'[i] = "none"
      /\ row[i] # "none" => row'[i] \in Closed
      /\ row'[i] = "paused" /\ row[i] # "none" => step[t] = "quiet"
  BY <1>0 DEF SettleGate, TypeOK, Closed
<1>5. row[i] \in Closed \/ (row[i] = "none" /\ i \in closing)
  BY <1>0 DEF PauseInv, GateInv, Past
<1>6. step[t] = "quiet" => AllStopped(i)
  BY <1>0 DEF PauseInv, DecideInv, Deciding
<1> HIDE DEF i
<1>7. GateInv'
  <2> SUFFICES ASSUME NEW u \in Thread, step'[u] \in Past
               PROVE  \/ row'[Subject(u)] \in Closed
                      \/ row'[Subject(u)] = "none" /\ Subject(u) \in closing
    BY <1>1 DEF GateInv
  <2>1. step[u] \in Past /\ Subject(u) \in Instance
    BY <1>3, SubjectIsInstance DEF PauseInv, Past
  <2> QED BY <1>4, <1>5, <2>1 DEF PauseInv, GateInv
<1>8. OwnInv'
  <2> SUFFICES ASSUME NEW r \in Request, step'[r] \in Past \ {"gated"}, task[r] \in Live
               PROVE  r \in targets[OwnerOf[r]]
    BY <1>1 DEF OwnInv
  <2>1. r \in Thread
    BY DEF Thread
  <2> QED BY <1>3, <2>1 DEF PauseInv, OwnInv, Past
<1>9. ASSUME NEW r \in Request, row'[OwnerOf[r]] \in Closed, task[r] \in Live,
             pc'[r] = "ended", r \notin targets[OwnerOf[r]]
      PROVE  \E u \in Thread : Subject(u) = OwnerOf[r] /\ step'[u] = "gated"
  <2>1. row[OwnerOf[r]] \in Closed
    BY <1>4, <1>5, <1>9 DEF Closed
  <2>2. r # t
    BY <1>0, <1>9 DEF PauseInv, OwnInv, Past
  <2>3. pc[r] = "ended"
    BY <1>2, <1>9, <2>2 DEF TypeOK
  <2>4. PICK u \in Thread : Subject(u) = OwnerOf[r] /\ step[u] = "gated"
    BY <1>9, <2>1, <2>3 DEF PauseInv, CoverInv
  <2> QED BY <1>0, <1>3, <2>4
<1>10. CoverInv'
  BY <1>1, <1>9 DEF CoverInv
<1>11. RewriteInv'
  <2> SUFFICES ASSUME NEW r \in Request, row'[OwnerOf[r]] = "paused", task[r] \in Live,
                      pc'[r] = "ended"
               PROVE  \E u \in Thread : Subject(u) = OwnerOf[r] /\ step'[u] \in Past \ {"quiet"}
    BY <1>1 DEF RewriteInv
  <2>1. CASE OwnerOf[r] = i
    <3>1. r \notin targets[OwnerOf[r]]
      BY <1>4, <1>6, <2>1 DEF AllStopped
    <3> QED BY <1>9, <3>1 DEF Closed, Past
  <2>2. CASE OwnerOf[r] # i
    <3>1. r # t /\ row[OwnerOf[r]] = "paused"
      BY <1>4, <2>2 DEF i, Subject
    <3>2. pc[r] = "ended"
      BY <1>2, <3>1 DEF TypeOK
    <3>3. PICK u \in Thread : Subject(u) = OwnerOf[r] /\ step[u] \in Past \ {"quiet"}
      BY <3>1, <3>2 DEF PauseInv, RewriteInv
    <3> QED BY <1>3, <2>2, <3>3 DEF i
  <2> QED BY <2>1, <2>2
<1> QED BY <1>7, <1>8, <1>10, <1>11 DEF Gates

LEMMA RefreshGates ==
    ASSUME TypeOK, WatchInv, PauseInv, RefreshPause
    PROVE  Gates'
<1>0. Monitor \in Thread /\ step[Monitor] = "refreshing" /\ Subject(Monitor) = victim
  BY DEF Thread, RefreshPause, Subject
<1>1. victim \in Instance /\ row[victim] \in Closed /\ AllStopped(victim)
  BY <1>0 DEF PauseInv, PlaceInv, DecideInv, Deciding
<1>2. UNCHANGED <<closing, pc, task, targets>> /\ step' = [step EXCEPT ![Monitor] = "off"]
      /\ row' = [row EXCEPT ![victim] = "paused"]
  BY <1>1 DEF RefreshPause, Turn, client, service, Closed
<1>3. \A u \in Thread : u # Monitor => Subject(u)' = Subject(u) /\ step'[u] = step[u]
  BY <1>2, SubjectStays DEF TypeOK
<1>4. step'[Monitor] = "off" /\ \A j \in Instance : j # victim => row'[j] = row[j]
  BY <1>0, <1>2 DEF TypeOK
<1>5. row'[victim] = "paused"
  BY <1>1, <1>2 DEF TypeOK
<1>6. GateInv'
  <2> SUFFICES ASSUME NEW u \in Thread, step'[u] \in Past
               PROVE  \/ row'[Subject(u)'] \in Closed
                      \/ row'[Subject(u)'] = "none" /\ Subject(u)' \in closing
    BY <1>2 DEF GateInv
  <2>1. u # Monitor
    BY <1>4 DEF Past
  <2>2. step[u] \in Past /\ Subject(u)' = Subject(u) /\ Subject(u) \in Instance
    BY <1>3, <2>1, SubjectIsInstance DEF PauseInv, Past
  <2> QED BY <1>4, <1>5, <2>2 DEF PauseInv, GateInv, Closed
<1>7. OwnInv'
  <2> SUFFICES ASSUME NEW r \in Request, step'[r] \in Past \ {"gated"}, task[r] \in Live
               PROVE  r \in targets[OwnerOf[r]]
    BY <1>2 DEF OwnInv
  <2>1. r \in Thread /\ r # Monitor
    BY DEF Thread
  <2> QED BY <1>3, <2>1 DEF PauseInv, OwnInv
<1>8. ASSUME NEW r \in Request, row'[OwnerOf[r]] \in Closed, task[r] \in Live,
             pc[r] = "ended", r \notin targets[OwnerOf[r]]
      PROVE  \E u \in Thread : Subject(u)' = OwnerOf[r] /\ step'[u] = "gated"
  <2>1. row[OwnerOf[r]] \in Closed
    BY <1>1, <1>4, <1>8
  <2>2. PICK u \in Thread : Subject(u) = OwnerOf[r] /\ step[u] = "gated"
    BY <1>8, <2>1 DEF PauseInv, CoverInv
  <2> QED BY <1>0, <1>3, <2>2
<1>9. CoverInv'
  BY <1>2, <1>8 DEF CoverInv
<1>10. RewriteInv'
  <2> SUFFICES ASSUME NEW r \in Request, row'[OwnerOf[r]] = "paused", task[r] \in Live,
                      pc[r] = "ended"
               PROVE  \E u \in Thread : Subject(u)' = OwnerOf[r] /\ step'[u] \in Past \ {"quiet"}
    BY <1>2 DEF RewriteInv
  <2>1. CASE OwnerOf[r] = victim
    <3>1. r \notin targets[OwnerOf[r]]
      BY <1>1, <2>1 DEF AllStopped
    <3> QED BY <1>8, <3>1 DEF Closed, Past
  <2>2. CASE OwnerOf[r] # victim
    <3>1. PICK u \in Thread : Subject(u) = OwnerOf[r] /\ step[u] \in Past \ {"quiet"}
      BY <1>4, <2>2 DEF PauseInv, RewriteInv
    <3> QED BY <1>0, <1>3, <3>1 DEF Past
  <2> QED BY <2>1, <2>2
<1> QED BY <1>6, <1>7, <1>9, <1>10 DEF Gates

LEMMA PauseStep ==
    ASSUME Faults = {}, TypeOK, WatchInv, PauseInv, [Next]_vars
    PROVE  PauseInv'
<1>1. PlaceInv' /\ CallInv' /\ DecideInv'
  BY PlaceStep, CallStep, DecideStep DEF PauseInv
<1> SUFFICES Gates'
  BY <1>1 DEF PauseInv, Gates
<1>2. CASE UNCHANGED vars
  <2>1. UNCHANGED <<row, closing, pc, task, targets, step, victim>>
    BY <1>2 DEF vars
  <2>2. \A u \in Thread : Subject(u)' = Subject(u)
    BY <2>1, SubjectStays
  <2> QED BY <2>1, <2>2, GatesKept DEF Gates
<1>3. ASSUME NEW t \in Thread, Pausing(t) \/ SettleGate(t) PROVE Gates'
  BY <1>3, CloseGates, StopGates, CountGates, SettleGates DEF Pausing
<1>4. ASSUME NEW r \in Request, Admit(r) \/ Proceed(r) \/ Finish(r) \/ Stop(r) PROVE Gates'
  BY <1>4, RequestGates
<1>5. ASSUME NEW i \in Instance,
             \/ UserPause(i) \/ AskResume(i) \/ LoseHeartbeat(i) \/ Reconnect(i)
             \/ BeginClose(i) \/ Deregister(i) \/ ReadPause(i)
      PROVE  Gates'
  BY <1>5, ClientGates
<1>6. CASE Step
  BY <1>3, <1>4, <1>5, <1>6, MonitorGates DEF Step
<1>7. CASE Decide
  BY <1>3, <1>7, ResumeGates, RefreshGates DEF Decide
<1> QED BY <1>2, <1>6, <1>7 DEF Next

\* When no thread is preempted between its read and its write, no resume
\* overlaps a pause and no call outlives its instance's row, an instance that is
\* reported as paused has no unfinished task left.
THEOREM PausedIsQuiet ==
    ASSUME Faults = {}
    PROVE  Spec => []SettledPauseIsQuiet
<1>1. Init => PauseInv
  <2> SUFFICES ASSUME Init PROVE PauseInv
    OBVIOUS
  <2>1. \A t \in Thread : step[t] = "off"
    BY DEF Init
  <2>2. PlaceInv /\ CallInv /\ GateInv /\ OwnInv /\ CoverInv /\ RewriteInv /\ DecideInv
    BY <2>1 DEF Init, Thread, PlaceInv, CallInv, GateInv, OwnInv, CoverInv, RewriteInv, DecideInv,
                Past, InFlight, Deciding, Live
  <2> QED BY <2>2 DEF PauseInv
<1>2. TypeOK /\ WatchInv /\ PauseInv /\ [Next]_vars => PauseInv'
  BY PauseStep
<1>3. WatchInv /\ PauseInv => SettledPauseIsQuiet
  <2> SUFFICES ASSUME WatchInv, PauseInv, NEW i \in Instance, row[i] = "paused", Pausers(i) = {},
                      NEW r \in Request, OwnerOf[r] = i, task[r] \in Live
               PROVE  pc[r] \in {"accepted", "tracked"}
    BY DEF SettledPauseIsQuiet, Quiet
  <2>1. \A t \in Thread : Subject(t) = i => step[t] = "off"
    BY DEF Pausers
  <2>2. pc[r] # "ended"
    BY <2>1 DEF PauseInv, RewriteInv, Past
  <2> QED BY <2>2 DEF WatchInv
<1> QED BY <1>1, <1>2, <1>3, TypeCorrect, WatchInvariant, PTL DEF Spec
=============================================================================
