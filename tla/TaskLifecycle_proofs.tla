------------------------ MODULE TaskLifecycle_proofs ------------------------
(***************************************************************************)
(* Theorems about TaskLifecycle, for every set of tasks and any number of  *)
(* runs.  Each excludes only the faults that break it: a task retried      *)
(* beside a run of its own, a task blocked after it has begun.             *)
(***************************************************************************)
EXTENDS TaskLifecycle, TLAPS

USE TaskConstants

\* A run that is not over yet, and one that may act outside.
Live(t, k) == pc[t][k] \notin {"none", "done"}
AtWork(t, k) == pc[t][k] \in {"running", "asking", "cleared", "writing"}

\* At most one run of a task is live, and the books name it.
Booked(t) ==
    /\ future[t] # 0 => pc[t][future[t]] # "none"
    /\ \A k \in Run : Live(t, k) => k \in {future[t], abandoned[t]}
    /\ \A k, l \in Run : Live(t, k) /\ Live(t, l) => k = l

\* A fence or a reason to stop belongs to a live run; a fenced task is over and
\* may not write any more.
Fenced(t) ==
    /\ t \in fenced \cup reasons => \E k \in Run : Live(t, k) /\ pc[t][k] # "pending"
    /\ t \in fenced => status[t] \in Ended /\ t \in cancels \cup reasons

\* The status of a live run that waits tells where it waits.
Waiting(t) ==
    /\ status[t] = "waiting" => t \notin reasons
    /\ \A k \in Run :
          /\ Live(t, k) => status[t] # "none"
          /\ Live(t, k) /\ status[t] = "waiting" => pc[t][k] = "asking"
          /\ Live(t, k) /\ status[t] = "queued"
                => pc[t][k] \in {"pending", "picked"} /\ k = future[t] /\ t \notin reasons

\* No task is blocked after it has begun.
Timely == "late_block" \notin Faults
USE DEF Timely

\* Unless its task was blocked under it, the run of a task that is over is
\* fenced while it is at work, and flagged when it is about to write.
Outlived(t) ==
    \A k \in Run :
        /\ AtWork(t, k) => k = future[t] \/ (status[t] \in Ended /\ t \in fenced \cup reasons)
        /\ Timely /\ AtWork(t, k) /\ status[t] \in Ended => t \in fenced
        /\ Timely /\ t \in Writes /\ pc[t][k] \in {"cleared", "writing"} /\ status[t] \in Ended
              => t \in review

\* A result is one of those a runner returns, then one a task ends with.
Judged(t) ==
    \A k \in Run :
        /\ pc[t][k] = "returned" => goal[t][k] \in Results
        /\ pc[t][k] \in {"settling", "storing"} => goal[t][k] \in Ended

Good(t) == Booked(t) /\ Fenced(t) /\ Waiting(t) /\ Outlived(t)

\* A task that is not run again beside a run of its own: one that writes never is.
Sole(t) == t \in Writes \/ "hasty_retry" \notin Faults

AllJudged == \A t \in Task : Judged(t)
AllGood == \A t \in Task : Sole(t) => Good(t)
Inv == TypeOK /\ AllJudged /\ AllGood

-----------------------------------------------------------------------------
(* Types.                                                                  *)

PcType == pc \in [Task -> [Run -> PcStates]]
GoalType == goal \in [Task -> [Run -> Ended \cup Results \cup {"none"}]]

LEMMA GoToFacts ==
    ASSUME PcType, NEW t \in Task, NEW k \in Run, NEW place \in PcStates, GoTo(t, k, place)
    PROVE  /\ PcType' /\ pc'[t][k] = place
           /\ \A g \in Task, l \in Run : g # t \/ l # k => pc'[g][l] = pc[g][l]
BY DEF PcType, GoTo

LEMMA GoalFacts ==
    ASSUME GoalType, NEW t \in Task, NEW k \in Run, NEW v \in Ended \cup Results \cup {"none"},
           goal' = [goal EXCEPT ![t][k] = v]
    PROVE  /\ GoalType' /\ goal'[t][k] = v
           /\ \A g \in Task, l \in Run : g # t \/ l # k => goal'[g][l] = goal[g][l]
<1> DEFINE G == Ended \cup Results \cup {"none"}
<1>1. goal \in [Task -> [Run -> G]] /\ v \in G
  BY DEF GoalType
<1> HIDE DEF G
<1>2. goal' \in [Task -> [Run -> G]]
  BY <1>1
<1>3. goal'[t][k] = v /\ \A g \in Task, l \in Run : g # t \/ l # k => goal'[g][l] = goal[g][l]
  BY <1>1
<1> QED BY <1>2, <1>3 DEF G, GoalType

LEMMA PutFacts ==
    ASSUME status \in [Task -> Statuses], NEW t \in Task, NEW s \in Statuses
    PROVE  /\ Put(t, s) \in [Task -> Statuses]
           /\ Put(t, s)[t] = IF Ignored(t, s, fenced) THEN status[t] ELSE s
           /\ \A g \in Task : g # t => Put(t, s)[g] = status[g]
BY DEF Put

LEMMA CancelledFacts ==
    ASSUME PcType, NEW ts \in SUBSET Task
    PROVE  /\ Cancelled(ts) \in [Task -> [Run -> PcStates]]
           /\ \A g \in Task, l \in Run :
                 Cancelled(ts)[g][l] = IF g \in ts /\ l = future[g] THEN "done" ELSE pc[g][l]
<1>1. ASSUME NEW g \in Task, NEW l \in Run
      PROVE  Cancelled(ts)[g][l] = IF g \in ts /\ l = future[g] THEN "done" ELSE pc[g][l]
  BY DEF Cancelled
<1>2. Cancelled(ts) \in [Task -> [Run -> PcStates]]
  BY DEF Cancelled, PcType, PcStates
<1> QED BY <1>1, <1>2

LEMMA RejectType ==
    ASSUME answer \in [Task -> {"none", "yes", "no"}], NEW ts
    PROVE  Reject(ts) \in [Task -> {"none", "yes", "no"}]
BY DEF Reject

\* The variables that most steps change, and the others.
Records == /\ status \in [Task -> Statuses] /\ PcType /\ GoalType
           /\ future \in [Task -> 0..MaxRuns] /\ abandoned \in [Task -> 0..MaxRuns]
Marks == /\ review \subseteq Task /\ fenced \subseteq Task /\ reasons \subseteq Task
         /\ cancels \subseteq Task /\ grace \subseteq Task
Gates == stop \in BOOLEAN /\ paused \in BOOLEAN /\ closing \in BOOLEAN

LEMMA TypeParts ==
    TypeOK <=> /\ Records /\ Marks /\ Gates /\ runs \in [Task -> 0..MaxRuns]
               /\ answer \in [Task -> {"none", "yes", "no"}]
BY Zenon DEF TypeOK, Records, Marks, Gates, PcType, GoalType

LEMMA TypeNext ==
    /\ Records' /\ Marks' /\ Gates' /\ runs' \in [Task -> 0..MaxRuns]
    /\ answer' \in [Task -> {"none", "yes", "no"}]
    => TypeOK'
BY Zenon DEF TypeOK, Records, Marks, Gates, PcType, GoalType

LEMMA VerdictFacts ==
    ASSUME NEW t \in Task, NEW result
    PROVE  /\ Verdict(t, result) \in {"blocked", "paused", "failed", result}
           /\ result \in Results => Verdict(t, result) \in Ended
<1> DEFINE stopped == t \in reasons \/ (paused /\ result # "raised")
           uncertain == result = "blocked" \/ (result = "raised" /\ t \in Writes)
<1>1. stopped /\ uncertain => Verdict(t, result) = "blocked"
  BY DEF Verdict
<1>2. stopped /\ ~uncertain => Verdict(t, result) = "paused"
  BY DEF Verdict
<1>3. ~stopped /\ result = "raised" => Verdict(t, result) = "failed"
  BY DEF Verdict
<1>4. ~stopped /\ result # "raised" => Verdict(t, result) = result
  BY DEF Verdict
<1> HIDE DEF stopped, uncertain
<1> QED BY <1>1, <1>2, <1>3, <1>4 DEF Results, Ended

LEMMA ThreadType ==
    ASSUME TypeOK, NEW t \in Task, NEW k \in Run, Judged(t), Thread(t, k)
    PROVE  TypeOK'
<1>0. Records /\ Marks /\ Gates /\ runs \in [Task -> 0..MaxRuns]
      /\ answer \in [Task -> {"none", "yes", "no"}]
  BY TypeParts
<1>g. UNCHANGED <<stop, paused, closing>>
  BY DEF Thread, Pick, Begin, Ask, Wake, Guard, Write, Written, Return, Judge, Check, Store,
         Finally, rest, gates
<1>G. Gates'
  BY <1>0, <1>g DEF Gates
<1>1. CASE Pick(t, k) \/ Guard(t, k) \/ Write(t, k) \/ Written(t, k) \/ Check(t, k)
  <2>1. PcType'
    BY <1>0, <1>1, GoToFacts DEF Pick, Guard, Write, Written, Check, Records, PcStates
  <2>2. UNCHANGED <<status, review, goal, runs, future, abandoned, fenced, reasons, cancels,
                    answer, grace>>
    BY <1>1 DEF Pick, Guard, Write, Written, Check, rest, marks
  <2>a. Records' /\ Marks'
    BY <1>0, <2>1, <2>2 DEF Records, Marks, PcType, GoalType
  <2>b. runs' \in [Task -> 0..MaxRuns] /\ answer' \in [Task -> {"none", "yes", "no"}]
    BY <1>0, <2>1, <2>2
  <2> QED BY ONLY <1>G, <2>a, <2>b, TypeNext
<1>2. CASE Begin(t, k) \/ Ask(t, k)
  <2>1. PcType'
    BY <1>0, <1>2, GoToFacts DEF Begin, Ask, Records, PcStates
  <2>2. UNCHANGED <<review, goal, runs, future, abandoned, fenced, reasons, cancels, grace>>
    BY <1>2 DEF Begin, Ask, rest, marks
  <2>3. status' \in [Task -> Statuses]
    BY <1>0, <1>2, PutFacts DEF Begin, Ask, Records, Statuses, Ended
  <2>4. answer' \in [Task -> {"none", "yes", "no"}]
    BY <1>0, <1>2 DEF Begin, Ask
  <2>a. Records' /\ Marks'
    BY <1>0, <2>1, <2>2, <2>3, <2>4 DEF Records, Marks, PcType, GoalType
  <2>b. runs' \in [Task -> 0..MaxRuns] /\ answer' \in [Task -> {"none", "yes", "no"}]
    BY <1>0, <2>1, <2>2, <2>3, <2>4
  <2> QED BY ONLY <1>G, <2>a, <2>b, TypeNext
<1>3. CASE Wake(t, k)
  <2>1. PcType'
    BY <1>0, <1>3, GoToFacts DEF Wake, Records, PcStates
  <2>2. UNCHANGED <<review, runs, future, abandoned, fenced, reasons, cancels, grace>>
    BY <1>3 DEF Wake, marks
  <2>3. status' \in [Task -> Statuses]
    BY <1>0, <1>3, PutFacts DEF Wake, Records, Statuses
  <2>4. answer' \in [Task -> {"none", "yes", "no"}] /\ GoalType'
    BY <1>0, <1>3 DEF Wake, Records, GoalType, Results
  <2>a. Records' /\ Marks'
    BY <1>0, <2>1, <2>2, <2>3, <2>4 DEF Records, Marks, PcType, GoalType
  <2>b. runs' \in [Task -> 0..MaxRuns] /\ answer' \in [Task -> {"none", "yes", "no"}]
    BY <1>0, <2>1, <2>2, <2>3, <2>4
  <2> QED BY ONLY <1>G, <2>a, <2>b, TypeNext
<1>4. CASE Return(t, k)
  <2>1. PcType'
    BY <1>0, <1>4, GoToFacts DEF Return, Records, PcStates
  <2>2. UNCHANGED <<status, review, runs, future, abandoned, fenced, reasons, cancels, answer, grace>>
    BY <1>4 DEF Return, records, marks
  <2>3. GoalType'
    BY <1>0, <1>4 DEF Return, Records, GoalType
  <2>a. Records' /\ Marks'
    BY <1>0, <2>1, <2>2, <2>3 DEF Records, Marks, PcType, GoalType
  <2>b. runs' \in [Task -> 0..MaxRuns] /\ answer' \in [Task -> {"none", "yes", "no"}]
    BY <1>0, <2>1, <2>2, <2>3
  <2> QED BY ONLY <1>G, <2>a, <2>b, TypeNext
<1>5. CASE Judge(t, k)
  <2>1. PcType'
    BY <1>0, <1>5, GoToFacts DEF Judge, Records, PcStates
  <2>2. UNCHANGED <<status, runs, future, abandoned, fenced, reasons, cancels, answer, grace>>
    BY <1>5 DEF Judge, marks
  <2>3. Verdict(t, goal[t][k]) \in Ended \cup Results \cup {"none"}
    BY <1>0, VerdictFacts DEF Records, GoalType, Ended
  <2> DEFINE v == Verdict(t, goal[t][k])
  <2>5. review' \subseteq Task
    BY <1>0, <1>5 DEF Judge, Marks
  <2>6. goal' = goal \/ goal' = [goal EXCEPT ![t][k] = v]
    BY <1>5 DEF Judge
  <2>8. v \in Ended \cup Results \cup {"none"}
    BY <2>3
  <2> HIDE DEF v
  <2>7. GoalType'
    BY <1>0, <2>8, <2>6, GoalFacts DEF Records, GoalType
  <2>4. GoalType' /\ review' \subseteq Task
    BY <2>5, <2>7
  <2>a. Records' /\ Marks'
    BY <1>0, <2>1, <2>2, <2>4 DEF Records, Marks, PcType, GoalType
  <2>b. runs' \in [Task -> 0..MaxRuns] /\ answer' \in [Task -> {"none", "yes", "no"}]
    BY <1>0, <2>1, <2>2, <2>4
  <2> QED BY ONLY <1>G, <2>a, <2>b, TypeNext
<1>6. CASE Store(t, k)
  <2>1. PcType'
    BY <1>0, <1>6, GoToFacts DEF Store, Records, PcStates
  <2>2. UNCHANGED <<review, goal, runs, future, abandoned, fenced, reasons, cancels, answer, grace>>
    BY <1>6 DEF Store, rest, marks
  <2>3. status' \in [Task -> Statuses]
    BY <1>0, <1>6 DEF Store, Judged, Records, Statuses
  <2>a. Records' /\ Marks'
    BY <1>0, <2>1, <2>2, <2>3 DEF Records, Marks, PcType, GoalType
  <2>b. runs' \in [Task -> 0..MaxRuns] /\ answer' \in [Task -> {"none", "yes", "no"}]
    BY <1>0, <2>1, <2>2, <2>3
  <2> QED BY ONLY <1>G, <2>a, <2>b, TypeNext
<1>7. CASE Finally(t, k)
  <2>1. PcType'
    BY <1>0, <1>7, GoToFacts DEF Finally, Records, PcStates
  <2>2. UNCHANGED <<status, review, runs, answer, grace>>
    BY <1>7 DEF Finally, records
  <2>3. /\ GoalType' /\ future' \in [Task -> 0..MaxRuns] /\ abandoned' \in [Task -> 0..MaxRuns]
        /\ fenced' \subseteq Task /\ cancels' \subseteq Task /\ reasons' \subseteq Task
    BY <1>0, <1>7 DEF Finally, Records, GoalType, Marks
  <2>a. Records' /\ Marks'
    BY <1>0, <2>1, <2>2, <2>3 DEF Records, Marks, PcType, GoalType
  <2>b. runs' \in [Task -> 0..MaxRuns] /\ answer' \in [Task -> {"none", "yes", "no"}]
    BY <1>0, <2>1, <2>2, <2>3
  <2> QED BY ONLY <1>G, <2>a, <2>b, TypeNext
<1> QED BY <1>1, <1>2, <1>3, <1>4, <1>5, <1>6, <1>7 DEF Thread

-----------------------------------------------------------------------------
(* One task at a time.                                                     *)

\* What Good says of a task with a live run k, and of one with none.
Named(t) == future[t] # 0 => pc[t][future[t]] # "none"
Alone(t, k) == \A l \in Run : l # k => ~Live(t, l)
Resting(t) == (\A l \in Run : ~Live(t, l)) /\ t \notin fenced \cup reasons

Single(t, k) ==
    /\ Live(t, k) /\ k \in {future[t], abandoned[t]}
    /\ t \in fenced \cup reasons => pc[t][k] # "pending"
    /\ t \in fenced => status[t] \in Ended /\ t \in cancels \cup reasons
    /\ status[t] # "none"
    /\ status[t] = "waiting" => pc[t][k] = "asking" /\ t \notin reasons
    /\ status[t] = "queued"
          => pc[t][k] \in {"pending", "picked"} /\ k = future[t] /\ t \notin reasons
    /\ AtWork(t, k) => k = future[t] \/ (status[t] \in Ended /\ t \in fenced \cup reasons)
    /\ Timely /\ AtWork(t, k) /\ status[t] \in Ended => t \in fenced
    /\ Timely /\ t \in Writes /\ pc[t][k] \in {"cleared", "writing"} /\ status[t] \in Ended
          => t \in review

LEMMA LiveOrNot ==
    ASSUME NEW t \in Task, Good(t)
    PROVE  /\ Named(t)
           /\ Resting(t) \/ \E k \in Run : Live(t, k)
           /\ \A k \in Run : Live(t, k) => Alone(t, k) /\ Single(t, k)
<1>1. Named(t)
  BY DEF Good, Booked, Named
<1>2. Resting(t) \/ \E k \in Run : Live(t, k)
  BY DEF Good, Fenced, Resting
<1>3. ASSUME NEW k \in Run, Live(t, k) PROVE Alone(t, k) /\ Single(t, k)
  <2>1. Alone(t, k)
    BY <1>3 DEF Good, Booked, Alone
  <2>2. t \in fenced \cup reasons => pc[t][k] # "pending"
    BY <1>3 DEF Good, Booked, Fenced
  <2> QED BY <1>3, <2>1, <2>2 DEF Good, Booked, Fenced, Waiting, Outlived, Single
<1> QED BY <1>1, <1>2, <1>3

LEMMA SingleGood ==
    ASSUME NEW t \in Task, NEW k \in Run, Named(t)', Alone(t, k)', Single(t, k)'
    PROVE  Good(t)'
<1>1. \A l \in Run : Live(t, l)' => l = k
  BY DEF Alone
<1>2. \A l \in Run : AtWork(t, l)' \/ pc'[t][l] \in {"cleared", "writing"} => l = k
  BY <1>1 DEF Live, AtWork
<1>3. Booked(t)'
  BY <1>1 DEF Named, Single, Booked
<1>4. Fenced(t)'
  BY DEF Single, Fenced
<1>5. Waiting(t)'
  BY <1>1 DEF Single, Waiting
<1>6. Outlived(t)'
  BY <1>2 DEF Single, Outlived
<1> QED BY <1>3, <1>4, <1>5, <1>6 DEF Good

LEMMA RestingGood ==
    ASSUME NEW t \in Task, Named(t)', Resting(t)'
    PROVE  Good(t)'
BY DEF Named, Resting, Good, Booked, Fenced, Waiting, Outlived, Live, AtWork

\* Nothing that Good speaks of changes for a task.
Same(t) ==
    /\ status'[t] = status[t] /\ future'[t] = future[t] /\ abandoned'[t] = abandoned[t]
    /\ t \in fenced' <=> t \in fenced
    /\ t \in reasons' <=> t \in reasons
    /\ t \in cancels => t \in cancels'
    /\ t \in review => t \in review'
    /\ \A k \in Run : pc'[t][k] = pc[t][k]

LEMMA SameGood ==
    ASSUME TypeOK, NEW t \in Task, Good(t), Same(t)
    PROVE  Good(t)'
<1>0. future[t] \in 0..MaxRuns
  BY DEF TypeOK
<1>1. Named(t)'
  BY <1>0, LiveOrNot DEF Named, Same, Run
<1>2. CASE Resting(t)
  <2>1. Resting(t)'
    BY <1>2 DEF Resting, Same, Live
  <2> QED BY <1>1, <2>1, RestingGood
<1>3. ASSUME NEW k \in Run, Live(t, k) PROVE Good(t)'
  <2>1. Alone(t, k) /\ Single(t, k)
    BY <1>3, LiveOrNot
  <2>2. Alone(t, k)'
    BY <2>1 DEF Alone, Same, Live
  <2>3. Single(t, k)'
    BY <2>1 DEF Single, Same, Live, AtWork
  <2> QED BY <1>1, <2>2, <2>3, SingleGood
<1> QED BY <1>2, <1>3, LiveOrNot

LEMMA GoodNext ==
    ASSUME \A t \in Task : Sole(t) => Good(t)'
    PROVE  AllGood'
BY DEF AllGood, Sole

\* A step that concerns one live run.
LEMMA OneStep ==
    ASSUME TypeOK, AllGood, NEW t \in Task, Sole(t), NEW k \in Run, Live(t, k),
           \A l \in Run : l # k => pc'[t][l] = pc[t][l],
           future'[t] \in {0, future[t]},
           Single(t, k)',
           \A g \in Task : g # t => Same(g)
    PROVE  AllGood'
<1>1. Good(t)'
  <2>1. Good(t) /\ future[t] \in 0..MaxRuns
    BY DEF AllGood, TypeOK
  <2>2. Named(t) /\ Alone(t, k)
    BY <2>1, LiveOrNot
  <2>3. Alone(t, k)'
    BY <2>2 DEF Alone, Live
  <2>4. Named(t)'
    BY <2>1, <2>2 DEF Named, Single, Live, Run
  <2> QED BY <2>3, <2>4, SingleGood
<1>2. ASSUME NEW g \in Task, Sole(g), g # t PROVE Good(g)'
  BY <1>2, SameGood DEF AllGood
<1> QED BY <1>1, <1>2, GoodNext

\* A step after which a task has no live run.
LEMMA ToRest ==
    ASSUME TypeOK, AllGood, NEW t \in Task, Named(t)', Resting(t)',
           \A g \in Task : g # t => Same(g)
    PROVE  AllGood'
BY RestingGood, SameGood, GoodNext DEF AllGood

\* A step of a task that may have several runs leaves the others alone.
LEMMA Aside ==
    ASSUME TypeOK, AllGood, NEW t \in Task, ~Sole(t) \/ Good(t)',
           \A g \in Task : g # t => Same(g)
    PROVE  AllGood'
BY SameGood, GoodNext DEF AllGood

\* What a step of a thread leaves alone.
LEMMA ThreadFrame ==
    ASSUME TypeOK, NEW t \in Task, NEW k \in Run, Thread(t, k)
    PROVE  /\ Live(t, k)
           /\ \A g \in Task, l \in Run : g # t \/ l # k
                 => pc'[g][l] = pc[g][l] /\ goal'[g][l] = goal[g][l]
           /\ \A g \in Task : g # t => Same(g)
           /\ ~Finally(t, k) => UNCHANGED <<future, abandoned, fenced, reasons, cancels>>
<1>0. /\ status \in [Task -> Statuses] /\ PcType /\ GoalType
      /\ future \in [Task -> 0..MaxRuns] /\ abandoned \in [Task -> 0..MaxRuns]
  BY TypeParts DEF Records
<1>1. Live(t, k) /\ review \subseteq review'
  BY DEF Thread, Pick, Begin, Ask, Wake, Guard, Write, Written, Return, Judge, Check, Store, Finally,
         Live, rest, records
<1>2. \E place \in PcStates : GoTo(t, k, place)
  BY DEF Thread, Pick, Begin, Ask, Wake, Guard, Write, Written, Return, Judge, Check, Store, Finally,
         PcStates
<1>3. \A g \in Task, l \in Run : g # t \/ l # k => pc'[g][l] = pc[g][l]
  BY <1>0, <1>2, GoToFacts
<1>4. goal' = goal \/ \E v : goal' = [goal EXCEPT ![t][k] = v]
  BY DEF Thread, Pick, Begin, Ask, Wake, Guard, Write, Written, Return, Judge, Check, Store, Finally,
         rest
<1>5. \A g \in Task, l \in Run : g # t \/ l # k => goal'[g][l] = goal[g][l]
  BY <1>0, <1>4 DEF GoalType
<1>6. \/ status' = status \/ \E s \in Statuses : status' = Put(t, s)
      \/ status' = [status EXCEPT ![t] = goal[t][k]]
  BY DEF Thread, Pick, Begin, Ask, Wake, Guard, Write, Written, Return, Judge, Check, Store, Finally,
         rest, records, Statuses, Ended
<1>7. \A g \in Task : g # t => status'[g] = status[g]
  BY <1>0, <1>6, PutFacts
<1>8. ~Finally(t, k) => UNCHANGED <<future, abandoned, fenced, reasons, cancels>>
  BY DEF Thread, Pick, Begin, Ask, Wake, Guard, Write, Written, Return, Judge, Check, Store, rest,
         marks
<1>9. \A g \in Task : g # t =>
         /\ future'[g] = future[g] /\ abandoned'[g] = abandoned[g]
         /\ g \in fenced' <=> g \in fenced
         /\ g \in reasons' <=> g \in reasons
         /\ g \in cancels' <=> g \in cancels
  <2>1. CASE Finally(t, k)
    BY <1>0, <2>1 DEF Finally
  <2> QED BY <1>8, <2>1
<1> QED BY <1>1, <1>3, <1>5, <1>7, <1>8, <1>9 DEF Same

LEMMA ThreadGood ==
    ASSUME TypeOK, AllJudged, AllGood, NEW t \in Task, NEW k \in Run, Thread(t, k), ~Finally(t, k)
    PROVE  AllGood'
<1>0. /\ status \in [Task -> Statuses] /\ PcType /\ GoalType /\ Live(t, k)
      /\ UNCHANGED <<future, abandoned, fenced, reasons, cancels>>
      /\ \A l \in Run : l # k => pc'[t][l] = pc[t][l]
      /\ \A g \in Task : g # t => Same(g)
  BY TypeParts, ThreadFrame DEF Records
<1> SUFFICES ASSUME Sole(t) PROVE Single(t, k)'
  BY <1>0, Aside, OneStep
<1>1. Single(t, k)
  BY <1>0, LiveOrNot DEF AllGood
<1>2. CASE Pick(t, k) \/ Guard(t, k) \/ Write(t, k) \/ Written(t, k) \/ Check(t, k)
  <2>1. UNCHANGED <<status, review>>
    BY <1>2 DEF Pick, Guard, Write, Written, Check, rest
  <2>2. \/ pc[t][k] = "pending" /\ pc'[t][k] = "picked"
        \/ /\ pc[t][k] = "running" /\ pc'[t][k] = "cleared" /\ t \in Writes
           /\ t \notin cancels \cup reasons
        \/ pc[t][k] = "cleared" /\ pc'[t][k] = "writing"
        \/ pc[t][k] = "writing" /\ pc'[t][k] = "running"
        \/ pc[t][k] = "settling" /\ pc'[t][k] \in {"leaving", "storing"}
    BY <1>0, <1>2, GoToFacts DEF Pick, Guard, Write, Written, Check, PcStates
  <2> QED BY <1>0, <1>1, <2>1, <2>2 DEF Single, Live, AtWork
<1>3. CASE Begin(t, k)
  <2>1. UNCHANGED review
    BY <1>3 DEF Begin, rest
  <2>2. status[t] = "queued" => t \notin fenced \cup reasons
    BY <1>1 DEF Single, Ended
  <2>3. /\ pc[t][k] = "picked"
        /\ \/ status[t] # "queued" /\ GoTo(t, k, "leaving") /\ status' = status
           \/ status[t] = "queued" /\ GoTo(t, k, "leaving") /\ status' = Put(t, "cancelled")
           \/ status[t] = "queued" /\ GoTo(t, k, "running") /\ status' = Put(t, "running")
    BY <1>3 DEF Begin
  <2>4. \/ status[t] # "queued" /\ pc'[t][k] = "leaving" /\ status'[t] = status[t]
        \/ status[t] = "queued" /\ pc'[t][k] = "leaving" /\ status'[t] = "cancelled"
        \/ status[t] = "queued" /\ pc'[t][k] = "running" /\ status'[t] = "running"
    BY <1>0, <2>2, <2>3, GoToFacts, PutFacts DEF PcStates, Statuses, Ended, Ignored
  <2> QED BY <1>0, <1>1, <2>1, <2>3, <2>4 DEF Single, Live, AtWork, Ended
<1>4. CASE Ask(t, k)
  <2>1. UNCHANGED review
    BY <1>4 DEF Ask, rest
  <2>2. /\ pc[t][k] = "running" /\ t \notin reasons /\ GoTo(t, k, "asking")
        /\ \E s \in {"waiting", "running"} : status' = Put(t, s)
    BY <1>4 DEF Ask
  <2>3. /\ pc'[t][k] = "asking"
        /\ status'[t] = status[t] \/ (t \notin fenced /\ status'[t] \in {"waiting", "running"})
    BY <1>0, <2>2, GoToFacts, PutFacts DEF PcStates, Statuses, Ignored
  <2>4. status'[t] # status[t] => k = future[t]
    BY <1>1, <2>2, <2>3 DEF Single, AtWork
  <2> QED BY <1>0, <1>1, <2>1, <2>2, <2>3, <2>4 DEF Single, Live, AtWork, Ended
<1>5. CASE Wake(t, k)
  <2>1. UNCHANGED review
    BY <1>5 DEF Wake
  <2>2. /\ pc[t][k] = "asking"
        /\ status' = IF Over(t) THEN status ELSE Put(t, "running")
        /\ GoTo(t, k, "running") \/ GoTo(t, k, "returned")
    BY <1>5 DEF Wake
  <2>3. pc'[t][k] \in {"running", "returned"}
    BY <1>0, <2>2, GoToFacts DEF PcStates
  <2>4. \/ status'[t] = status[t] /\ (status[t] \in Ended \/ t \in fenced \cup reasons)
        \/ status'[t] = "running" /\ status[t] \notin Ended
    BY <1>0, <1>1, <2>2, PutFacts DEF Statuses, Over, Ignored, Single
  <2> QED BY <1>0, <1>1, <2>1, <2>2, <2>3, <2>4 DEF Single, Live, AtWork, Ended
<1>6. CASE Return(t, k)
  <2>1. UNCHANGED <<status, review>>
    BY <1>6 DEF Return, records
  <2>2. pc[t][k] \in {"running", "writing"} /\ pc'[t][k] = "returned"
    BY <1>0, <1>6, GoToFacts DEF Return, PcStates
  <2> QED BY <1>0, <1>1, <2>1, <2>2 DEF Single, Live, AtWork
<1>7. CASE Judge(t, k)
  <2>1. UNCHANGED status /\ review \subseteq review'
    BY <1>7 DEF Judge
  <2>2. pc[t][k] = "returned" /\ pc'[t][k] \in {"leaving", "settling"}
    BY <1>0, <1>7, GoToFacts DEF Judge, PcStates
  <2> QED BY <1>0, <1>1, <2>1, <2>2 DEF Single, Live, AtWork
<1>8. CASE Store(t, k)
  <2>1. UNCHANGED review
    BY <1>8 DEF Store, rest
  <2>2. pc[t][k] = "storing" /\ pc'[t][k] = "leaving" /\ status'[t] \in Ended
    BY <1>0, <1>8, GoToFacts DEF Store, PcStates, AllJudged, Judged
  <2> QED BY <1>0, <1>1, <2>1, <2>2 DEF Single, Live, AtWork, Ended
<1> QED BY <1>2, <1>3, <1>4, <1>5, <1>6, <1>7, <1>8 DEF Thread

LEMMA FinallyGood ==
    ASSUME TypeOK, AllGood, NEW t \in Task, NEW k \in Run, Finally(t, k)
    PROVE  AllGood'
<1>0. PcType /\ future \in [Task -> 0..MaxRuns] /\ \A g \in Task : g # t => Same(g)
  BY TypeParts, ThreadFrame DEF Records, Thread
<1>1. /\ pc[t][k] = "leaving" /\ GoTo(t, k, "done") /\ future' = [future EXCEPT ![t] = 0]
      /\ fenced' = fenced \ {t} /\ reasons' = reasons \ {t}
  BY DEF Finally
<1> SUFFICES ASSUME Sole(t) PROVE AllGood'
  BY <1>0, Aside
<1>2. Alone(t, k)
  BY <1>1, LiveOrNot DEF AllGood, Live
<1>3. Resting(t)'
  BY <1>0, <1>1, <1>2, GoToFacts DEF Resting, Alone, Live, PcStates
<1>4. Named(t)'
  BY <1>0, <1>1 DEF Named
<1> QED BY <1>0, <1>3, <1>4, ToRest

-----------------------------------------------------------------------------
(* Pausing.                                                                *)

\* What PauseTasks does to each task.
PausedTask(t) ==
    /\ future'[t] = 0 /\ fenced' \cap {t} = fenced \cap {t} /\ status'[t] = "paused"
    /\ abandoned'[t] = abandoned[t] /\ reasons' \cap {t} = reasons \cap {t}
    /\ \A l \in Run : pc'[t][l] = IF Pending(t) /\ l = future[t] THEN "done" ELSE pc[t][l]
GivenUp(t) ==
    /\ future'[t] = 0 /\ abandoned'[t] = future[t] /\ status'[t] = "paused"
    /\ t \in fenced' \cap reasons' \cap cancels'
    /\ \A l \in Run : pc'[t][l] = pc[t][l]
AskedToStop(t) ==
    /\ future'[t] = future[t] /\ abandoned'[t] = abandoned[t]
    /\ status'[t] \in {status[t], "stopping"}
    /\ t \notin fenced => status'[t] = "stopping"
    /\ fenced' \cap {t} = fenced \cap {t} /\ t \in reasons' \cap cancels'
    /\ \A l \in Run : pc'[t][l] = pc[t][l]

LEMMA PauseFacts ==
    ASSUME TypeOK, NEW ts \in SUBSET Task, PauseTasks(ts)
    PROVE  /\ Records' /\ Marks' /\ runs' \in [Task -> 0..MaxRuns]
           /\ answer' \in [Task -> {"none", "yes", "no"}]
           /\ review' = review
           /\ \A t \in Task : cancels \cap {t} \subseteq cancels'
           /\ \A t \in Task :
                 \/ Same(t)
                 \/ ~Over(t) /\ ~InHand(t) /\ PausedTask(t)
                 \/ ~Over(t) /\ InHand(t) /\ (status[t] = "waiting" \/ t \notin Writes) /\ GivenUp(t)
                 \/ ~Over(t) /\ InHand(t) /\ AskedToStop(t)
<1> DEFINE targets == {t \in ts : ~Over(t)}
           idle == {t \in targets : ~InHand(t)}
           held == targets \ idle
           atRest == {t \in held : status[t] = "waiting" \/ t \notin Writes}
           resting == {t \in idle : Pending(t)}
<1>0. /\ status \in [Task -> Statuses] /\ PcType /\ GoalType /\ Marks
      /\ future \in [Task -> 0..MaxRuns] /\ abandoned \in [Task -> 0..MaxRuns]
      /\ runs \in [Task -> 0..MaxRuns] /\ answer \in [Task -> {"none", "yes", "no"}]
  BY TypeParts DEF Records
<1>1. /\ status' = [t \in Task |->
                    CASE t \in idle \cup atRest -> "paused"
                      [] t \in held \ atRest -> IF t \in fenced THEN status[t] ELSE "stopping"
                      [] OTHER -> status[t]]
      /\ pc' = Cancelled(resting)
      /\ future' = [t \in Task |-> IF t \in idle \cup atRest THEN 0 ELSE future[t]]
      /\ abandoned' = [t \in Task |-> IF t \in atRest THEN future[t] ELSE abandoned[t]]
      /\ fenced' = fenced \cup atRest
      /\ reasons' = reasons \cup held
      /\ cancels' = cancels \cup held
      /\ answer' = Reject(held)
      /\ grace' = grace \cup (held \ atRest)
      /\ UNCHANGED <<review, goal, runs>>
  BY DEF PauseTasks
<1>2. /\ resting \in SUBSET Task /\ idle \subseteq Task /\ held \subseteq Task /\ atRest \subseteq held
      /\ idle \cap held = {}
      /\ \A t \in idle : ~Over(t) /\ ~InHand(t) /\ (t \in resting <=> Pending(t))
      /\ \A t \in held : ~Over(t) /\ InHand(t)
      /\ \A t \in atRest : status[t] = "waiting" \/ t \notin Writes
      /\ resting \subseteq idle
  OBVIOUS
<1> HIDE DEF targets, idle, held, atRest, resting
<1>3. /\ PcType' /\ \A t \in Task, l \in Run :
            pc'[t][l] = IF t \in resting /\ l = future[t] THEN "done" ELSE pc[t][l]
  BY <1>0, <1>1, <1>2, CancelledFacts DEF PcType
<1>4. answer' \in [Task -> {"none", "yes", "no"}]
  BY <1>0, <1>1, RejectType
<1>5. ASSUME NEW t \in Task
      PROVE  /\ t \in idle \cup atRest => status'[t] = "paused"
             /\ t \in held \ atRest
                   => status'[t] = IF t \in fenced THEN status[t] ELSE "stopping"
             /\ t \notin idle \cup held => status'[t] = status[t]
             /\ status'[t] \in Statuses
  <2> DEFINE st == CASE t \in idle \cup atRest -> "paused"
                     [] t \in held \ atRest -> IF t \in fenced THEN status[t] ELSE "stopping"
                     [] OTHER -> status[t]
  <2>0. status'[t] = st
    BY <1>1
  <2>1. CASE t \in idle \cup atRest
    <3>1. t \notin held \ atRest
      BY <1>2, <2>1
    <3> QED BY <1>2, <2>0, <2>1, <3>1 DEF Statuses, Ended
  <2>2. CASE t \in held \ atRest
    <3>1. t \notin idle \cup atRest
      BY <1>2, <2>2
    <3> QED BY <1>0, <1>2, <2>0, <2>2, <3>1 DEF Statuses, Ended
  <2>3. CASE t \notin idle \cup held
    <3>1. t \notin idle \cup atRest /\ t \notin held \ atRest
      BY <1>2, <2>3
    <3> QED BY <1>0, <2>0, <2>3, <3>1
  <2> QED BY <1>2, <2>1, <2>2, <2>3
<1>6. status' \in [Task -> Statuses]
  <2>1. DOMAIN status' = Task /\ status' = [t \in Task |-> status'[t]]
    BY <1>1
  <2> QED BY <1>5, <2>1
<1>7. /\ future' \in [Task -> 0..MaxRuns] /\ abandoned' \in [Task -> 0..MaxRuns]
      /\ \A t \in Task : /\ future'[t] = IF t \in idle \cup atRest THEN 0 ELSE future[t]
                         /\ abandoned'[t] = IF t \in atRest THEN future[t] ELSE abandoned[t]
  BY <1>0, <1>1
<1>8. Records' /\ Marks' /\ runs' \in [Task -> 0..MaxRuns]
  BY <1>0, <1>1, <1>2, <1>3, <1>6, <1>7 DEF Records, Marks, GoalType
<1>9. ASSUME NEW t \in Task
      PROVE  \/ Same(t)
             \/ ~Over(t) /\ ~InHand(t) /\ PausedTask(t)
             \/ ~Over(t) /\ InHand(t) /\ (status[t] = "waiting" \/ t \notin Writes) /\ GivenUp(t)
             \/ ~Over(t) /\ InHand(t) /\ AskedToStop(t)
  <2>1. CASE t \in idle
    BY <1>1, <1>2, <1>3, <1>5, <1>7, <2>1 DEF PausedTask
  <2>2. CASE t \in atRest
    BY <1>1, <1>2, <1>3, <1>5, <1>7, <2>2 DEF GivenUp
  <2>3. CASE t \in held \ atRest
    BY <1>1, <1>2, <1>3, <1>5, <1>7, <2>3 DEF AskedToStop
  <2>4. CASE t \notin idle \cup held
    BY <1>1, <1>2, <1>3, <1>5, <1>7, <2>4 DEF Same
  <2> QED BY <1>2, <2>1, <2>2, <2>3, <2>4
<1> QED BY <1>1, <1>4, <1>8, <1>9

\* A live run that is not in hand is not at work, as long as its task is not
\* over.
LEMMA HandFacts ==
    ASSUME TypeOK, AllGood, NEW t \in Task, Sole(t)
    PROVE  /\ Pending(t) => future[t] \in Run /\ Live(t, future[t]) /\ t \notin fenced \cup reasons
           /\ InHand(t) => future[t] \in Run /\ Live(t, future[t]) /\ pc[t][future[t]] # "pending"
           /\ Undone(t) => future[t] \in Run /\ Live(t, future[t])
           /\ ~Over(t) => status[t] \notin Ended /\ t \notin fenced
<1>1. future[t] \in 0..MaxRuns /\ MaxRuns \in Nat /\ Good(t)
  BY DEF TypeOK, AllGood
<1>2. future[t] # 0 => future[t] \in Run
  BY <1>1 DEF Run
<1>3. Undone(t) => future[t] \in Run /\ Live(t, future[t])
  BY <1>1, <1>2 DEF Undone, Good, Booked, Live
<1>4. Pending(t) => Undone(t)
  BY DEF Pending, Undone
<1>5. Pending(t) => t \notin fenced \cup reasons
  BY <1>1, <1>3, <1>4, LiveOrNot DEF Pending, Single
<1>6. ~Over(t) => status[t] \notin Ended /\ t \notin fenced
  BY <1>1 DEF Over, Good, Fenced
<1> QED BY <1>3, <1>4, <1>5, <1>6 DEF InHand, Pending, Undone

LEMMA PauseGood ==
    ASSUME TypeOK, AllGood, NEW ts \in SUBSET Task, PauseTasks(ts)
    PROVE  AllGood'
<1> SUFFICES ASSUME NEW t \in Task, Sole(t) PROVE Good(t)'
  BY GoodNext
<1>0. /\ Good(t) /\ future[t] \in 0..MaxRuns /\ review' = review
      /\ t \in cancels => t \in cancels'
  BY PauseFacts DEF AllGood, TypeOK
<1>1. CASE Same(t)
  BY <1>0, <1>1, SameGood
<1>2. CASE ~Over(t) /\ ~InHand(t) /\ PausedTask(t)
  <2>1. Named(t)'
    BY <1>2 DEF PausedTask, Named
  <2>2. t \in fenced \cup reasons <=> t \in (fenced \cup reasons)'
    BY <1>2 DEF PausedTask
  <2>3. CASE Pending(t)
    <3>1. /\ future[t] \in Run /\ Alone(t, future[t]) /\ t \notin fenced \cup reasons
      BY <1>0, <2>3, HandFacts, LiveOrNot
    <3>2. Resting(t)'
      BY <1>2, <2>2, <2>3, <3>1 DEF PausedTask, Resting, Alone, Live
    <3> QED BY <2>1, <3>2, RestingGood
  <2>4. CASE ~Pending(t) /\ Resting(t)
    <3>1. Resting(t)'
      BY <1>2, <2>2, <2>4 DEF PausedTask, Resting, Live
    <3> QED BY <2>1, <3>1, RestingGood
  <2>5. ASSUME ~Pending(t), NEW k \in Run, Live(t, k) PROVE Good(t)'
    <3>1. Alone(t, k) /\ Single(t, k) /\ pc'[t][k] = pc[t][k]
      BY <1>0, <1>2, <2>5, LiveOrNot DEF PausedTask
    <3>2. Alone(t, k)'
      BY <1>2, <2>5, <3>1 DEF PausedTask, Alone, Live
    <3>3. k # future[t]
      BY <1>2, <2>5 DEF InHand, Undone, Live, Pending, Run
    <3>4. status[t] \notin Ended /\ ~AtWork(t, k)
      BY <1>2, <3>1, <3>3, HandFacts DEF Single
    <3>5. Single(t, k)'
      BY <1>0, <1>2, <2>2, <3>1, <3>3, <3>4, HandFacts DEF Single, PausedTask, Live, AtWork, Ended
    <3> QED BY <2>1, <3>2, <3>5, SingleGood
  <2> QED BY <1>0, <2>3, <2>4, <2>5, LiveOrNot
<1>3. CASE ~Over(t) /\ InHand(t) /\ (status[t] = "waiting" \/ t \notin Writes) /\ GivenUp(t)
  <2>1. PICK k \in Run : /\ k = future[t] /\ Live(t, k) /\ pc[t][k] # "pending"
                         /\ Alone(t, k) /\ Single(t, k)
    BY <1>0, <1>3, HandFacts, LiveOrNot
  <2>2. Named(t)' /\ Alone(t, k)'
    BY <1>3, <2>1 DEF GivenUp, Named, Alone, Live
  <2>3. Single(t, k)'
    <3>1. pc'[t][k] = pc[t][k] /\ abandoned'[t] = k
      BY <1>0, <1>3, <2>1 DEF GivenUp
    <3> QED BY <1>0, <1>3, <2>1, <3>1 DEF GivenUp, Single, Live, AtWork, Ended
  <2> QED BY <2>1, <2>2, <2>3, SingleGood
<1>4. CASE ~Over(t) /\ InHand(t) /\ AskedToStop(t)
  <2>1. PICK k \in Run : /\ k = future[t] /\ Live(t, k) /\ pc[t][k] # "pending"
                         /\ Alone(t, k) /\ Single(t, k)
                         /\ status[t] \notin Ended /\ t \notin fenced
    BY <1>0, <1>4, HandFacts, LiveOrNot
  <2>2. Named(t)' /\ Alone(t, k)'
    BY <1>4, <2>1 DEF AskedToStop, Named, Alone, Live
  <2>3. Single(t, k)'
    <3>1. pc'[t][k] = pc[t][k] /\ future'[t] = k
      BY <1>0, <1>4, <2>1 DEF AskedToStop
    <3>2. status'[t] = "stopping" /\ t \notin fenced' /\ t \in reasons' /\ k = future[t]
      BY <1>4, <2>1 DEF AskedToStop
    <3> QED BY <1>0, <2>1, <3>1, <3>2 DEF Single, Live, AtWork, Ended
  <2> QED BY <2>1, <2>2, <2>3, SingleGood
<1> QED BY <1>1, <1>2, <1>3, <1>4, PauseFacts

-----------------------------------------------------------------------------
(* The other steps.                                                        *)

LEMMA EnqueueGood ==
    ASSUME TypeOK, AllGood, NEW t \in Task, NEW k \in Run, Enqueue(t, k), Sole(t) => Resting(t),
           UNCHANGED <<review, goal, abandoned, fenced, reasons, cancels, answer, grace, stop,
                       paused, closing>>
    PROVE  TypeOK' /\ AllGood'
<1>0. /\ Records /\ Marks /\ Gates /\ runs \in [Task -> 0..MaxRuns]
      /\ answer \in [Task -> {"none", "yes", "no"}] /\ k \in 1..MaxRuns /\ MaxRuns \in Nat
  BY TypeParts DEF Run
<1>1. /\ status' = [status EXCEPT ![t] = "queued"] /\ runs' = [runs EXCEPT ![t] = k]
      /\ GoTo(t, k, "pending") /\ future' = [future EXCEPT ![t] = k]
  BY DEF Enqueue
<1>2. /\ PcType' /\ pc'[t][k] = "pending" /\ \A l \in Run : l # k => pc'[t][l] = pc[t][l]
  BY <1>0, <1>1, GoToFacts DEF PcStates, Records
<1>3. Records' /\ Marks' /\ Gates' /\ runs' \in [Task -> 0..MaxRuns]
  BY <1>0, <1>1, <1>2 DEF Records, Marks, Gates, Statuses, GoalType
<1>4. TypeOK'
  BY <1>0, <1>3, TypeNext
<1>5. \A g \in Task : g # t => Same(g)
  BY <1>0, <1>1 DEF Same, Records, GoTo, PcType
<1>6. Sole(t) => Good(t)'
  <2> SUFFICES ASSUME Resting(t) PROVE Good(t)'
    OBVIOUS
  <2>1. future'[t] = k /\ status'[t] = "queued"
    BY <1>0, <1>1 DEF Records
  <2>2. Named(t)' /\ Alone(t, k)' /\ Single(t, k)'
    BY <1>2, <2>1 DEF Named, Alone, Resting, Single, Live, AtWork, Ended
  <2> QED BY <2>2, SingleGood
<1> QED BY <1>4, <1>5, <1>6, Aside

LEMMA SubmitGood ==
    ASSUME TypeOK, AllGood, NEW t \in Task, Submit(t)
    PROVE  TypeOK' /\ AllGood'
<1>1. /\ status[t] = "none" /\ Enqueue(t, 1) /\ 1 \in Run
      /\ UNCHANGED <<review, goal, abandoned, fenced, reasons, cancels, answer, grace, stop, paused,
                     closing>>
  BY DEF Submit, marks, gates, Run
<1>2. Sole(t) => Resting(t)
  BY <1>1, LiveOrNot DEF AllGood, Single
<1> QED BY <1>1, <1>2, EnqueueGood

\* A task is run again only when no run of it is live, or it only reads.
LEMMA RetryGood ==
    ASSUME TypeOK, AllGood, NEW t \in Task, Retry(t)
    PROVE  TypeOK' /\ AllGood'
<1>1. /\ abandoned[t] = 0 /\ (Sole(t) => ~Undone(t)) /\ Enqueue(t, runs[t] + 1)
      /\ runs[t] < MaxRuns
      /\ UNCHANGED <<review, goal, abandoned, fenced, reasons, cancels, answer, grace, stop, paused,
                     closing>>
  BY DEF Retry, marks, gates, Sole
<1>2. runs[t] + 1 \in Run
  BY <1>1 DEF TypeOK, Run
<1>3. Sole(t) => Resting(t)
  <2> SUFFICES ASSUME Sole(t), NEW k \in Run, Live(t, k) PROVE FALSE
    BY LiveOrNot DEF AllGood
  <2>1. k \in {future[t], abandoned[t]} /\ k # 0
    BY LiveOrNot DEF AllGood, Single, Run
  <2> QED BY <1>1, <2>1 DEF Undone, Live
<1> QED BY <1>1, <1>2, <1>3, EnqueueGood

\* Only the status of one task, its marks and the answers change.
LEMMA MarkGood ==
    ASSUME TypeOK, AllGood, NEW t \in Task, NEW s \in Statuses,
           status' = [status EXCEPT ![t] = s], fenced \subseteq fenced', fenced' \subseteq fenced \cup {t},
           cancels' \in SUBSET Task, cancels \subseteq cancels',
           review' \in SUBSET Task, review \subseteq review' \cup {t},
           answer' \in [Task -> {"none", "yes", "no"}],
           Sole(t) => /\ \A k \in Run : Live(t, k) /\ Single(t, k) => Single(t, k)'
                      /\ Resting(t) => t \notin fenced',
           UNCHANGED <<pc, goal, runs, future, abandoned, reasons, grace, stop, paused, closing>>
    PROVE  TypeOK' /\ AllGood'
<1>0. /\ Records /\ Marks /\ Gates /\ runs \in [Task -> 0..MaxRuns]
  BY TypeParts
<1>1. Records' /\ Marks' /\ Gates' /\ runs' \in [Task -> 0..MaxRuns]
  BY <1>0 DEF Records, Marks, Gates, PcType, GoalType
<1>2. TypeOK'
  BY <1>1, TypeNext
<1>3. \A g \in Task : g # t => Same(g)
  BY <1>0 DEF Same, Records
<1>4. ASSUME Sole(t) PROVE Good(t)'
  <2>1. Named(t)'
    BY <1>4, LiveOrNot DEF AllGood, Named
  <2>2. CASE Resting(t)
    <3>1. Resting(t)'
      BY <1>4, <2>2 DEF Resting, Live
    <3> QED BY <2>1, <3>1, RestingGood
  <2>3. ASSUME NEW k \in Run, Live(t, k) PROVE Good(t)'
    <3>1. Alone(t, k) /\ Single(t, k)
      BY <1>4, <2>3, LiveOrNot DEF AllGood
    <3>2. Alone(t, k)'
      BY <3>1 DEF Alone, Live
    <3> QED BY <1>4, <2>1, <2>3, <3>1, <3>2, SingleGood
  <2> QED BY <1>4, <2>2, <2>3, LiveOrNot DEF AllGood
<1> QED BY <1>2, <1>3, <1>4, Aside

LEMMA CancelTaskGood ==
    ASSUME TypeOK, AllGood, NEW t \in Task, CancelTask(t)
    PROVE  TypeOK' /\ AllGood'
<1>0. /\ Records /\ Marks /\ Gates /\ runs \in [Task -> 0..MaxRuns] /\ PcType
      /\ answer \in [Task -> {"none", "yes", "no"}] /\ status \in [Task -> Statuses]
      /\ cancels \subseteq Task /\ fenced \subseteq Task /\ review \subseteq Task
      /\ "cancelled" \in Statuses
  BY TypeParts DEF Records, Marks, Statuses, Ended
<1>1. UNCHANGED <<review, goal, runs, future, abandoned, reasons, grace, stop, paused, closing>>
  BY DEF CancelTask, gates
<1>2. CASE /\ InHand(t) /\ UNCHANGED pc
           /\ cancels' = cancels \cup {t} /\ answer' = Reject({t})
           /\ IF status[t] = "waiting" \/ t \notin Writes
              THEN status' = Put(t, "cancelled") /\ fenced' = fenced \cup {t}
              ELSE UNCHANGED <<status, fenced>>
  <2>1. answer' \in [Task -> {"none", "yes", "no"}]
    BY <1>0, <1>2, RejectType
  <2>2. Sole(t) => /\ future[t] \in Run /\ Live(t, future[t]) /\ pc[t][future[t]] # "pending"
                   /\ \A k \in Run : Live(t, k) => k = future[t]
                   /\ ~Resting(t) /\ (t \in fenced => status[t] \in Ended)
    BY <1>2, HandFacts DEF AllGood, Good, Booked, Fenced, Resting
  <2>3. CASE status[t] = "waiting" \/ t \notin Writes
    <3>1. PICK s \in Statuses : /\ status' = [status EXCEPT ![t] = s]
                                /\ s = IF t \in fenced THEN status[t] ELSE "cancelled"
      <4>1. CASE t \in fenced
        <5>1. status' = status /\ status[t] \in Statuses
          BY <1>0, <1>2, <2>3, <4>1 DEF Put, Ignored
        <5> QED BY <1>0, <4>1, <5>1
      <4>2. CASE t \notin fenced
        BY <1>0, <1>2, <2>3, <4>2 DEF Put, Ignored, Ended
      <4> QED BY <4>1, <4>2
    <3>2. Sole(t) => s \in Ended
      BY <2>2, <3>1 DEF Ended
    <3>3. ASSUME Sole(t), NEW k \in Run, Live(t, k), Single(t, k) PROVE Single(t, k)'
      <4>1. pc[t][k] # "pending" /\ (status[t] = "waiting" => pc[t][k] = "asking")
        BY <2>2, <3>3 DEF Single
      <4>2. status'[t] = s /\ t \in fenced' /\ t \in cancels'
        BY <1>0, <1>2, <2>3, <3>1
      <4> QED BY <1>1, <1>2, <2>3, <3>2, <3>3, <4>1, <4>2 DEF Single, Live, AtWork, Ended
    <3> QED BY <1>0, <1>1, <1>2, <2>1, <2>2, <2>3, <3>1, <3>3, MarkGood
  <2>4. CASE ~(status[t] = "waiting" \/ t \notin Writes)
    <3>1. UNCHANGED <<status, fenced>>
      BY <1>2, <2>4
    <3>2. status[t] \in Statuses /\ status' = [status EXCEPT ![t] = status[t]]
      BY <1>0, <3>1
    <3>3. ASSUME NEW k \in Run, Live(t, k), Single(t, k) PROVE Single(t, k)'
      BY <1>1, <1>2, <3>1, <3>3 DEF Single, Live, AtWork
    <3> QED BY <1>0, <1>1, <1>2, <2>1, <2>2, <3>1, <3>2, <3>3, MarkGood
  <2> QED BY <2>3, <2>4
<1>3. CASE /\ ~InHand(t) /\ ~Over(t)
           /\ pc' = IF Pending(t) THEN Cancelled({t}) ELSE pc
           /\ status' = [status EXCEPT ![t] = "cancelled"]
           /\ UNCHANGED <<cancels, fenced, answer>>
  <2>0. Sole(t) => status[t] \notin Ended /\ t \notin fenced
    BY <1>3, HandFacts
  <2>1. CASE ~Pending(t)
    <3>1. ASSUME Sole(t), NEW k \in Run, Live(t, k), Single(t, k) PROVE Single(t, k)'
      <4>1. k # future[t]
        BY <1>3, <2>1, <3>1 DEF InHand, Undone, Live, Run
      <4>2. ~AtWork(t, k)
        BY <2>0, <3>1, <4>1 DEF Single
      <4>3. status'[t] = "cancelled"
        BY <1>0, <1>3
      <4> QED BY <1>1, <1>3, <2>0, <2>1, <3>1, <4>1, <4>2, <4>3 DEF Single, Live, AtWork, Ended
    <3> QED BY <1>0, <1>1, <1>3, <2>0, <2>1, <3>1, MarkGood
  <2>2. CASE Pending(t)
    <3>1. /\ PcType' /\ \A g \in Task, l \in Run :
                pc'[g][l] = IF g = t /\ l = future[g] THEN "done" ELSE pc[g][l]
      <4>1. pc' = Cancelled({t}) /\ {t} \in SUBSET Task
        BY <1>3, <2>2
      <4>2. /\ Cancelled({t}) \in [Task -> [Run -> PcStates]]
            /\ \A g \in Task, l \in Run : Cancelled({t})[g][l] =
                  IF g \in {t} /\ l = future[g] THEN "done" ELSE pc[g][l]
        BY <1>0, <4>1, CancelledFacts
      <4> QED BY <4>1, <4>2 DEF PcType
    <3>2. \A g \in Task : g # t => Same(g)
      BY <1>0, <1>1, <1>3, <3>1 DEF Same
    <3>3. ASSUME Sole(t) PROVE Good(t)'
      <4>1. future[t] \in Run /\ Live(t, future[t]) /\ t \notin fenced \cup reasons
        BY <2>2, <3>3, HandFacts
      <4>2. Alone(t, future[t])
        BY <3>3, <4>1, LiveOrNot DEF AllGood
      <4>3. Resting(t)'
        BY <1>1, <1>3, <3>1, <4>1, <4>2 DEF Resting, Alone, Live
      <4>4. Named(t)'
        BY <1>1, <3>1, <4>1 DEF Named
      <4> QED BY <4>3, <4>4, RestingGood
    <3>4. Records' /\ Marks' /\ Gates' /\ runs' \in [Task -> 0..MaxRuns]
      BY <1>0, <1>1, <1>3, <3>1 DEF Records, Marks, Gates, GoalType
    <3>5. answer' \in [Task -> {"none", "yes", "no"}]
      BY <1>0, <1>3
    <3>6. TypeOK'
      BY <3>4, <3>5, TypeNext
    <3> QED BY <3>2, <3>3, <3>6, Aside
  <2> QED BY <2>1, <2>2
<1> QED BY <1>2, <1>3 DEF CancelTask

LEMMA EnforceGood ==
    ASSUME TypeOK, AllGood, NEW t \in Task, Enforce(t)
    PROVE  TypeOK' /\ AllGood'
<1> DEFINE stuck == t \in reasons /\ Undone(t)
           ends == stuck /\ ~Over(t)
<1>0. /\ Records /\ Marks /\ Gates /\ runs \in [Task -> 0..MaxRuns]
      /\ answer \in [Task -> {"none", "yes", "no"}]
      /\ status \in [Task -> Statuses] /\ future \in [Task -> 0..MaxRuns]
      /\ abandoned \in [Task -> 0..MaxRuns] /\ {"blocked", "paused"} \subseteq Statuses
  BY TypeParts DEF Records, Statuses, Ended
<1>1. /\ future' = IF stuck THEN [future EXCEPT ![t] = 0] ELSE future
      /\ abandoned' = IF stuck THEN [abandoned EXCEPT ![t] = future[t]] ELSE abandoned
      /\ fenced' = IF ends THEN fenced \cup {t} ELSE fenced
      /\ review' = IF ends /\ t \in Writes THEN review \cup {t} ELSE review
      /\ status' = IF ends THEN [status EXCEPT ![t] = IF t \in Writes THEN "blocked" ELSE "paused"]
                   ELSE status
      /\ grace' = grace \ {t}
      /\ UNCHANGED <<pc, goal, runs, reasons, cancels, answer, stop, paused, closing>>
  BY DEF Enforce, threads, gates
<1>2. /\ stuck /\ Sole(t) => /\ future[t] \in Run /\ Live(t, future[t]) /\ t \in reasons
                             /\ Alone(t, future[t]) /\ Single(t, future[t])
      /\ ends => stuck /\ ~Over(t)
      /\ stuck /\ ~ends => Over(t)
  BY HandFacts, LiveOrNot DEF AllGood
<1> HIDE DEF stuck, ends
<1>3. TypeOK'
  <2>1. status' \in [Task -> Statuses]
    BY <1>0, <1>1
  <2>2. future' \in [Task -> 0..MaxRuns] /\ abandoned' \in [Task -> 0..MaxRuns]
    BY <1>0, <1>1
  <2>3. Records' /\ Marks' /\ Gates' /\ runs' \in [Task -> 0..MaxRuns]
    BY <1>0, <1>1, <2>1, <2>2 DEF Records, Marks, Gates, PcType, GoalType
  <2> QED BY <1>0, <1>1, <2>3, TypeNext
<1>4. \A g \in Task : g # t => Same(g)
  BY <1>0, <1>1 DEF Same
<1>5. CASE ~stuck
  <2>1. ~ends
    BY <1>2, <1>5
  <2>2. Same(t)
    BY <1>1, <1>5, <2>1 DEF Same
  <2> QED BY <1>3, <1>4, <2>2, SameGood, Aside DEF AllGood
<1>6. ASSUME stuck, Sole(t) PROVE Good(t)'
  <2>1. PICK k \in Run : k = future[t] /\ Live(t, k) /\ Alone(t, k) /\ Single(t, k) /\ t \in reasons
    BY <1>2, <1>6
  <2>2. Named(t)' /\ Alone(t, k)'
    BY <1>0, <1>1, <1>6, <2>1 DEF Named, Alone, Live
  <2>3. future'[t] = 0 /\ abandoned'[t] = k
    BY <1>0, <1>1, <1>6, <2>1
  <2>4. CASE ends
    <3>1. status'[t] \in {"blocked", "paused"} /\ t \in fenced'
          /\ (t \in Writes => t \in review')
      BY <1>0, <1>1, <2>4
    <3>2. Single(t, k)'
      BY <1>1, <2>1, <2>3, <3>1 DEF Single, Live, AtWork, Ended
    <3> QED BY <2>2, <3>2, SingleGood
  <2>5. CASE ~ends
    <3>1. Over(t) /\ status' = status /\ fenced' = fenced /\ review' = review
      BY <1>1, <1>2, <1>6, <2>5
    <3>2. status[t] \in Ended
      BY <2>1, <3>1 DEF Over, Single
    <3>3. Single(t, k)'
      BY <1>1, <2>1, <2>3, <3>1, <3>2 DEF Single, Live, AtWork, Ended
    <3> QED BY <2>2, <3>3, SingleGood
  <2> QED BY <2>4, <2>5
<1> QED BY <1>3, <1>4, <1>5, <1>6, Aside

\* A thread that is blocked late goes on, named by the books.
LEMMA BlockQueuedGood ==
    ASSUME TypeOK, AllGood, NEW t \in Task, BlockQueued(t)
    PROVE  TypeOK' /\ AllGood'
<1>0. /\ status \in [Task -> Statuses] /\ answer \in [Task -> {"none", "yes", "no"}] /\ Marks
      /\ "blocked" \in Statuses
  BY TypeParts DEF Records, Statuses, Ended
<1>1. /\ status[t] = "queued" \/ (status[t] = "running" /\ ~Timely)
      /\ status' = Put(t, "blocked")
      /\ UNCHANGED <<review, pc, goal, runs, future, abandoned, fenced, reasons, cancels, answer,
                     grace, stop, paused, closing>>
  BY DEF BlockQueued, threads, marks, gates
<1>2. status' = [status EXCEPT ![t] = "blocked"]
  BY <1>1 DEF Put, Ignored
<1>3. ASSUME NEW k \in Run, Live(t, k), Single(t, k) PROVE Single(t, k)'
  <2>1. status'[t] = "blocked"
    BY <1>0, <1>2
  <2> QED BY <1>1, <1>3, <2>1 DEF Single, Live, AtWork, Ended
<1>4. review' \in SUBSET Task /\ cancels' \in SUBSET Task
  BY <1>0, <1>1 DEF Marks
<1> QED BY <1>0, <1>1, <1>2, <1>3, <1>4, MarkGood DEF Resting

LEMMA ResolveGood ==
    ASSUME TypeOK, AllGood, NEW t \in Task, Resolve(t)
    PROVE  TypeOK' /\ AllGood'
<1>0. /\ status \in [Task -> Statuses] /\ answer \in [Task -> {"none", "yes", "no"}] /\ Marks
  BY TypeParts DEF Records
<1>1. /\ \A k \in Run : pc[t][k] \notin {"cleared", "writing"}
      /\ review' = review \ {t}
      /\ UNCHANGED <<status, pc, goal, runs, future, abandoned, fenced, reasons, cancels, answer,
                     grace, stop, paused, closing>>
  BY DEF Resolve, threads, marks, gates
<1>2. status[t] \in Statuses /\ status' = [status EXCEPT ![t] = status[t]]
  BY <1>0, <1>1
<1>3. ASSUME NEW k \in Run, Live(t, k), Single(t, k) PROVE Single(t, k)'
  BY <1>1, <1>3 DEF Single, Live, AtWork
<1>4. review' \in SUBSET Task /\ cancels' \in SUBSET Task /\ review \subseteq review' \cup {t}
  BY <1>0, <1>1 DEF Marks
<1> QED BY <1>0, <1>1, <1>2, <1>3, <1>4, MarkGood DEF Resting

LEMMA StopWritesGood ==
    ASSUME TypeOK, AllGood, StopWrites
    PROVE  TypeOK' /\ AllGood'
<1> DEFINE queued == {t \in Writes : Pending(t)}
           running == {t \in Writes : InHand(t)}
<1>0. /\ Records /\ Marks /\ Gates /\ runs \in [Task -> 0..MaxRuns]
      /\ answer \in [Task -> {"none", "yes", "no"}] /\ PcType
      /\ status \in [Task -> Statuses] /\ future \in [Task -> 0..MaxRuns]
      /\ "cancelled" \in Statuses
  BY TypeParts DEF Records, Statuses, Ended
<1>1. /\ stop' = TRUE
      /\ status' = [t \in Task |-> IF t \in queued THEN Put(t, "cancelled")[t] ELSE status[t]]
      /\ pc' = Cancelled(queued)
      /\ future' = [t \in Task |-> IF t \in queued THEN 0 ELSE future[t]]
      /\ cancels' = cancels \cup running
      /\ answer' = Reject(Writes)
      /\ UNCHANGED <<review, goal, runs, abandoned, fenced, reasons, grace, paused, closing>>
  BY DEF StopWrites
<1>2. /\ queued \in SUBSET Task /\ running \subseteq Task
      /\ \A t \in queued : Pending(t)
  OBVIOUS
<1> HIDE DEF queued, running
<1>3. /\ PcType' /\ \A t \in Task, l \in Run :
            pc'[t][l] = IF t \in queued /\ l = future[t] THEN "done" ELSE pc[t][l]
  BY <1>0, <1>1, <1>2, CancelledFacts DEF PcType
<1>4. \A t \in Task : Put(t, "cancelled")[t] \in Statuses
  BY <1>0, PutFacts
<1>5. status' \in [Task -> Statuses] /\ \A t \in Task : t \notin queued => status'[t] = status[t]
  BY <1>0, <1>1, <1>4
<1>6. /\ future' \in [Task -> 0..MaxRuns]
      /\ \A t \in Task : future'[t] = IF t \in queued THEN 0 ELSE future[t]
  BY <1>0, <1>1
<1>7. TypeOK'
  <2>1. Records' /\ Marks' /\ runs' \in [Task -> 0..MaxRuns]
    BY <1>0, <1>1, <1>2, <1>3, <1>5, <1>6 DEF Records, Marks, GoalType
  <2>2. answer' \in [Task -> {"none", "yes", "no"}]
    BY <1>0, <1>1, RejectType
  <2>3. Gates'
    BY <1>0, <1>1 DEF Gates
  <2> QED BY <2>1, <2>2, <2>3, TypeNext
<1>8. ASSUME NEW t \in Task, Sole(t) PROVE Good(t)'
  <2>1. CASE t \notin queued
    <3>1. Same(t)
      BY <1>1, <1>3, <1>5, <1>6, <2>1 DEF Same
    <3> QED BY <1>8, <3>1, SameGood DEF AllGood
  <2>2. CASE t \in queued
    <3>1. future[t] \in Run /\ Live(t, future[t]) /\ t \notin fenced \cup reasons
      BY <1>2, <1>8, <2>2, HandFacts
    <3>2. Alone(t, future[t])
      BY <1>8, <3>1, LiveOrNot DEF AllGood
    <3>3. Resting(t)'
      BY <1>1, <1>3, <2>2, <3>1, <3>2 DEF Resting, Alone, Live
    <3>4. Named(t)'
      BY <1>6, <2>2 DEF Named
    <3> QED BY <3>3, <3>4, RestingGood
  <2> QED BY <2>1, <2>2
<1> QED BY <1>7, <1>8, GoodNext

\* The steps that pause tasks, and those that change none.
LEMMA GateGood ==
    ASSUME TypeOK, AllGood,
           \/ \E t \in Task : PauseSome(t) \/ RespondInteraction(t)
           \/ PauseExecution \/ ResumeExecution \/ ReleaseWrites \/ PrepareClose
    PROVE  TypeOK' /\ AllGood'
<1>0. /\ Records /\ Marks /\ Gates /\ runs \in [Task -> 0..MaxRuns]
      /\ answer \in [Task -> {"none", "yes", "no"}]
  BY TypeParts
<1>1. ASSUME NEW ts \in SUBSET Task, PauseTasks(ts), Gates' PROVE TypeOK' /\ AllGood'
  <2>1. Records' /\ Marks' /\ runs' \in [Task -> 0..MaxRuns]
        /\ answer' \in [Task -> {"none", "yes", "no"}]
    BY <1>1, PauseFacts
  <2>2. TypeOK'
    BY <1>1, <2>1, TypeNext
  <2> QED BY <1>1, <2>2, PauseGood
<1>2. ASSUME NEW t \in Task, PauseSome(t) PROVE TypeOK' /\ AllGood'
  <2>1. PauseTasks({t}) /\ {t} \in SUBSET Task
    BY <1>2 DEF PauseSome
  <2>2. Gates'
    BY <1>0, <1>2 DEF PauseSome, gates, Gates
  <2> QED BY <1>1, <2>1, <2>2
<1>3. CASE PauseExecution
  <2>1. PauseTasks(Task) /\ Task \in SUBSET Task
    BY <1>3 DEF PauseExecution
  <2>2. Gates'
    BY <1>0, <1>3 DEF PauseExecution, Gates
  <2> QED BY <1>1, <2>1, <2>2
<1>4. CASE PrepareClose
  <2>1. PICK ts \in SUBSET Task : PauseTasks(ts)
    BY <1>4 DEF PrepareClose
  <2>2. Gates'
    BY <1>0, <1>4 DEF PrepareClose, Gates
  <2> QED BY <1>1, <2>1, <2>2
<1>5. CASE ResumeExecution \/ ReleaseWrites \/ \E t \in Task : RespondInteraction(t)
  <2>1. UNCHANGED <<status, review, pc, goal, runs, future, abandoned, fenced, reasons, cancels, grace>>
    BY <1>5 DEF ResumeExecution, ReleaseWrites, RespondInteraction, records, threads, marks
  <2>2. Records' /\ Marks' /\ runs' \in [Task -> 0..MaxRuns]
    BY <1>0, <2>1 DEF Records, Marks, PcType, GoalType
  <2>3. answer' \in [Task -> {"none", "yes", "no"}]
    BY <1>0, <1>5 DEF ResumeExecution, ReleaseWrites, RespondInteraction
  <2>4. Gates'
    BY <1>0, <1>5 DEF ResumeExecution, ReleaseWrites, RespondInteraction, gates, Gates
  <2>5. \A t \in Task : Same(t)
    BY <2>1 DEF Same
  <2>6. AllGood'
    BY <2>5, SameGood, GoodNext DEF AllGood
  <2>7. TypeOK'
    BY <2>2, <2>3, <2>4, TypeNext
  <2> QED BY <2>6, <2>7
<1> QED BY <1>2, <1>3, <1>4, <1>5

-----------------------------------------------------------------------------
(* The theorems.                                                           *)

LEMMA InitInv == Init => Inv
<1> SUFFICES ASSUME Init PROVE Inv
  OBVIOUS
<1>1. Records /\ Marks /\ runs \in [Task -> 0..MaxRuns]
  BY DEF Init, Records, Marks, PcType, GoalType, Statuses, PcStates
<1>2. answer \in [Task -> {"none", "yes", "no"}] /\ Gates
  BY DEF Init, Gates
<1>3. TypeOK
  BY <1>1, <1>2, TypeParts
<1>4. ASSUME NEW t \in Task PROVE Good(t) /\ Judged(t)
  BY DEF Init, Good, Booked, Fenced, Waiting, Outlived, Judged, Live, AtWork
<1> QED BY <1>3, <1>4 DEF Inv, AllGood, AllJudged

\* A run has the result its place calls for, in every order of steps.
LEMMA JudgedNext ==
    ASSUME Inv, [Next]_vars
    PROVE  AllJudged'
<1>0. PcType /\ GoalType /\ future \in [Task -> 0..MaxRuns] /\ AllJudged /\ TypeOK
  BY TypeParts DEF Inv, Records
<1>1. ASSUME NEW t \in Task, NEW k \in Run, Thread(t, k) PROVE AllJudged'
  <2>1. \A g \in Task, l \in Run : g # t \/ l # k
            => pc'[g][l] = pc[g][l] /\ goal'[g][l] = goal[g][l]
    BY <1>0, <1>1, ThreadFrame
  <2>2. CASE Pick(t, k) \/ Guard(t, k) \/ Write(t, k) \/ Written(t, k) \/ Begin(t, k) \/ Ask(t, k)
             \/ Store(t, k) \/ Finally(t, k)
    <3>1. pc'[t][k] \in {"picked", "cleared", "writing", "running", "asking", "leaving", "done"}
      BY <1>0, <2>2, GoToFacts
         DEF Pick, Guard, Write, Written, Begin, Ask, Store, Finally, PcStates
    <3> QED BY <1>0, <2>1, <3>1 DEF AllJudged, Judged
  <2>3. CASE Wake(t, k)
    <3>1. \/ GoTo(t, k, "running")
          \/ GoTo(t, k, "returned") /\ goal' = [goal EXCEPT ![t][k] = "cancelled"]
      BY <2>3 DEF Wake
    <3>2. pc'[t][k] = "running" \/ (pc'[t][k] = "returned" /\ goal'[t][k] = "cancelled")
      <4>1. "cancelled" \in Ended \cup Results
        BY DEF Ended
      <4> QED BY <1>0, <3>1, <4>1, GoToFacts, GoalFacts DEF PcStates
    <3> QED BY <1>0, <2>1, <3>2 DEF AllJudged, Judged, Results
  <2>4. CASE Return(t, k)
    <3>1. PICK r \in Results : goal' = [goal EXCEPT ![t][k] = r]
      BY <2>4 DEF Return
    <3>2. pc'[t][k] = "returned" /\ goal'[t][k] = r
      BY <1>0, <2>4, <3>1, GoToFacts DEF Return, PcStates, GoalType
    <3> QED BY <1>0, <2>1, <3>2 DEF AllJudged, Judged
  <2>5. CASE Judge(t, k)
    <3> DEFINE v == Verdict(t, goal[t][k])
    <3>1. \/ GoTo(t, k, "leaving")
          \/ GoTo(t, k, "settling") /\ goal' = [goal EXCEPT ![t][k] = v]
      BY <2>5 DEF Judge
    <3>2. v \in Ended
      BY <1>0, <2>5, VerdictFacts DEF Judge, AllJudged, Judged
    <3> HIDE DEF v
    <3>3. pc'[t][k] = "leaving" \/ (pc'[t][k] = "settling" /\ goal'[t][k] \in Ended)
      BY <1>0, <3>1, <3>2, GoToFacts, GoalFacts DEF PcStates
    <3> QED BY <1>0, <2>1, <3>3 DEF AllJudged, Judged
  <2>6. CASE Check(t, k)
    <3>1. goal' = goal /\ pc[t][k] = "settling" /\ pc'[t][k] \in {"leaving", "storing"}
      BY <1>0, <2>6, GoToFacts DEF Check, PcStates, rest
    <3> QED BY <1>0, <2>1, <3>1 DEF AllJudged, Judged
  <2> QED BY <1>1, <2>2, <2>3, <2>4, <2>5, <2>6 DEF Thread
<1>2. ASSUME goal' = goal,
             \A t \in Task, k \in Run : pc'[t][k] \in {pc[t][k], "pending", "done"}
      PROVE  AllJudged'
  BY <1>0, <1>2 DEF AllJudged, Judged
<1>3. ASSUME NEW ts \in SUBSET Task, pc' = Cancelled(ts), goal' = goal PROVE AllJudged'
  BY <1>0, <1>2, <1>3, CancelledFacts
<1>4. ASSUME NEW ts, PauseTasks(ts), ts \in SUBSET Task PROVE AllJudged'
  <2>1. PICK c \in SUBSET Task : pc' = Cancelled(c) /\ goal' = goal
    BY <1>4 DEF PauseTasks
  <2> QED BY <1>3, <2>1
<1>5. ASSUME NEW t \in Task, Submit(t) \/ Retry(t) PROVE AllJudged'
  <2>1. PICK k : GoTo(t, k, "pending") /\ goal' = goal
    BY <1>5 DEF Submit, Retry, Enqueue
  <2> QED BY <1>0, <1>2, <2>1 DEF GoTo, PcType
<1>6. ASSUME NEW t \in Task, CancelTask(t) PROVE AllJudged'
  <2>1. goal' = goal /\ {t} \in SUBSET Task /\ (pc' = pc \/ pc' = Cancelled({t}))
    BY <1>6 DEF CancelTask
  <2> QED BY <1>2, <1>3, <2>1
<1>7. CASE StopWrites
  <2>1. PICK c \in SUBSET Task : pc' = Cancelled(c) /\ goal' = goal
    BY <1>7 DEF StopWrites
  <2> QED BY <1>3, <2>1
<1>8. CASE \/ \E t \in Task : Enforce(t) \/ BlockQueued(t) \/ Resolve(t) \/ RespondInteraction(t)
           \/ ResumeExecution \/ ReleaseWrites \/ UNCHANGED vars
  <2>1. goal' = goal /\ pc' = pc
    BY <1>8 DEF Enforce, BlockQueued, Resolve, RespondInteraction, ResumeExecution, ReleaseWrites,
                threads, vars
  <2> QED BY <1>2, <2>1
<1>9. CASE (\E t \in Task : PauseSome(t)) \/ PauseExecution \/ PrepareClose
  <2>1. PICK ts \in SUBSET Task : PauseTasks(ts)
    BY <1>9 DEF PauseSome, PauseExecution, PrepareClose
  <2> QED BY <1>4, <2>1
<1> QED BY <1>1, <1>5, <1>6, <1>7, <1>8, <1>9 DEF Next

LEMMA NextInv == Inv /\ [Next]_vars => Inv'
<1> SUFFICES ASSUME Inv, [Next]_vars PROVE Inv'
  OBVIOUS
<1>0. TypeOK /\ AllJudged /\ AllGood
  BY DEF Inv
<1> SUFFICES TypeOK' /\ AllGood'
  BY JudgedNext DEF Inv
<1>1. ASSUME NEW t \in Task, NEW k \in Run, Thread(t, k) PROVE TypeOK' /\ AllGood'
  BY <1>0, <1>1, ThreadType, ThreadGood, FinallyGood DEF AllJudged
<1>2. ASSUME NEW t \in Task, Submit(t) \/ Retry(t) \/ CancelTask(t) \/ Enforce(t) \/ BlockQueued(t)
                             \/ Resolve(t)
      PROVE  TypeOK' /\ AllGood'
  BY <1>0, <1>2, SubmitGood, RetryGood, CancelTaskGood, EnforceGood, BlockQueuedGood, ResolveGood
<1>3. CASE \/ \E t \in Task : PauseSome(t) \/ RespondInteraction(t)
           \/ PauseExecution \/ ResumeExecution \/ ReleaseWrites \/ PrepareClose
  BY <1>0, <1>3, GateGood
<1>4. CASE StopWrites
  BY <1>0, <1>4, StopWritesGood
<1>5. CASE UNCHANGED vars
  <2>1. UNCHANGED <<status, review, pc, goal, runs, future, abandoned, fenced, reasons, cancels,
                    answer, grace, stop, paused, closing>>
    BY <1>5 DEF vars
  <2>2. Records' /\ Marks' /\ Gates' /\ runs' \in [Task -> 0..MaxRuns]
        /\ answer' \in [Task -> {"none", "yes", "no"}]
    BY <1>0, <2>1, TypeParts DEF Records, Marks, Gates, PcType, GoalType
  <2>3. \A t \in Task : Same(t)
    BY <2>1 DEF Same
  <2>4. AllGood'
    BY <1>0, <2>3, SameGood, GoodNext DEF AllGood
  <2> QED BY <2>2, <2>4, TypeNext
<1> QED BY <1>1, <1>2, <1>3, <1>4, <1>5 DEF Next

\* What the books, the fences and the flags say of the runs of each task.
THEOREM Invariance == Spec => []Inv
<1> QED BY InitInv, NextInv, PTL DEF Spec

\* Every variable keeps the values it is declared for.
THEOREM TypeCorrect == Spec => []TypeOK
<1>1. Inv => TypeOK
  BY DEF Inv
<1> QED BY <1>1, Invariance, PTL

\* However a task came to be over, it is flagged for review while its thread
\* has a write outside, unless it was blocked as queued after it had begun.
THEOREM Flagged ==
    ASSUME "late_block" \notin Faults
    PROVE  Spec => []OutstandingIsFlagged
<1>1. Inv => OutstandingIsFlagged
  BY DEF Inv, AllGood, Sole, Good, Outlived, TypeOK, OutstandingIsFlagged
<1> QED BY <1>1, Invariance, PTL

\* No two threads work on one task, though tasks are retried while old threads
\* may hang, as long as no retry overtakes the books.
THEOREM OneThread ==
    ASSUME "hasty_retry" \notin Faults
    PROVE  Spec => []OneThreadPerTask
<1>1. Inv => OneThreadPerTask
  BY DEF Inv, AllGood, Sole, Good, Booked, Live, OneThreadPerTask
<1> QED BY <1>1, Invariance, PTL

\* A thread at work is one the books name, as long as no retry overwrites them.
THEOREM OnTheBooks ==
    ASSUME "hasty_retry" \notin Faults
    PROVE  Spec => []ThreadIsOnTheBooks
<1>1. Inv => ThreadIsOnTheBooks
  BY DEF Inv, AllGood, Sole, Good, Booked, Live, ThreadIsOnTheBooks
<1> QED BY <1>1, Invariance, PTL

\* The faults the next theorem excludes: a retry beside a run of the same task,
\* and a task blocked as queued after it has begun.
Orderly == {"hasty_retry", "late_block"} \cap Faults = {}

\* A task that is over is reopened by no thread, which would be fenced, and by
\* no operator's step but a retry.
Reopens(t) == status[t] \in Ended /\ status'[t] \notin Ended

LEMMA ThreadKeepsOver ==
    ASSUME Orderly, Inv, NEW g \in Task, NEW k \in Run, Thread(g, k), NEW t \in Task
    PROVE  ~Reopens(t)
<1>0. TypeOK /\ Good(g) /\ Judged(g) /\ status \in [Task -> Statuses]
  BY DEF Orderly, Inv, AllGood, AllJudged, Sole, TypeOK
<1>1. CASE Pick(g, k) \/ Guard(g, k) \/ Write(g, k) \/ Written(g, k) \/ Return(g, k)
           \/ Judge(g, k) \/ Check(g, k) \/ Finally(g, k)
  BY <1>1 DEF Pick, Guard, Write, Written, Return, Judge, Check, Finally, records, Reopens
<1>2. CASE Begin(g, k)
  <2>1. UNCHANGED status \/ (status[g] = "queued" /\ \E s \in {"cancelled", "running"} : status' = Put(g, s))
    BY <1>2 DEF Begin
  <2>2. \A s \in Statuses : t # g => Put(g, s)[t] = status[t]
    BY <1>0, PutFacts
  <2> QED BY <2>1, <2>2 DEF Reopens, Ended, Statuses
<1>3. CASE Ask(g, k)
  <2>1. pc[g][k] = "running" /\ \E s \in {"waiting", "running"} : status' = Put(g, s)
    BY <1>3 DEF Ask
  <2>2. status[g] \in Ended => g \in fenced
    BY <1>0, <2>1 DEF Orderly, Good, Outlived, AtWork
  <2>3. ASSUME NEW s \in {"waiting", "running"}
        PROVE  /\ Put(g, s)[g] = IF Ignored(g, s, fenced) THEN status[g] ELSE s
               /\ t # g => Put(g, s)[t] = status[t]
    BY <1>0, PutFacts DEF Statuses
  <2>4. status[g] \in Ended => \A s \in {"waiting", "running"} : Ignored(g, s, fenced)
    BY <2>2 DEF Ignored
  <2> QED BY <2>1, <2>3, <2>4 DEF Reopens
<1>4. CASE Wake(g, k)
  <2>1. UNCHANGED status \/ (status[g] \notin Ended /\ status' = Put(g, "running"))
    BY <1>4 DEF Wake, Over
  <2>2. t # g => Put(g, "running")[t] = status[t]
    BY <1>0, PutFacts DEF Statuses
  <2> QED BY <2>1, <2>2 DEF Reopens
<1>5. CASE Store(g, k)
  BY <1>0, <1>5 DEF Store, Judged, Reopens
<1> QED BY <1>1, <1>2, <1>3, <1>4, <1>5 DEF Thread

LEMMA HandKeepsOver ==
    ASSUME Inv, NEW t \in Task,
           \/ \E g \in Task : \/ Submit(g) \/ RespondInteraction(g) \/ CancelTask(g)
                              \/ PauseSome(g) \/ Enforce(g) \/ BlockQueued(g) \/ Resolve(g)
           \/ PauseExecution \/ ResumeExecution \/ StopWrites \/ ReleaseWrites \/ PrepareClose
    PROVE  ~Reopens(t)
<1>0. status \in [Task -> Statuses]
  BY DEF Inv, TypeOK
<1>1. ASSUME NEW g \in Task, Submit(g) PROVE ~Reopens(t)
  BY <1>0, <1>1 DEF Submit, Enqueue, Reopens, Ended
<1>2. ASSUME NEW g \in Task, RespondInteraction(g) \/ Resolve(g) PROVE ~Reopens(t)
  BY <1>2 DEF RespondInteraction, Resolve, records, Reopens
<1>3. ASSUME NEW s \in Ended, NEW g \in Task PROVE status[t] \in Ended => Put(g, s)[t] \in Ended
  BY <1>0 DEF Put, Statuses
<1>4. ASSUME NEW g \in Task, CancelTask(g) PROVE ~Reopens(t)
  <2>1. \/ UNCHANGED status \/ status' = Put(g, "cancelled")
        \/ status' = [status EXCEPT ![g] = "cancelled"]
    BY <1>4 DEF CancelTask
  <2> QED BY <1>0, <1>3, <2>1 DEF Reopens, Ended
<1>5. ASSUME NEW ts, PauseTasks(ts) PROVE ~Reopens(t)
  BY <1>5 DEF PauseTasks, Over, Reopens
<1>6. ASSUME NEW g \in Task, Enforce(g) PROVE ~Reopens(t)
  <2>1. \/ UNCHANGED status
        \/ \E s \in {"blocked", "paused"} : status' = [status EXCEPT ![g] = s]
    BY <1>6 DEF Enforce
  <2> QED BY <1>0, <2>1 DEF Reopens, Ended
<1>7. ASSUME NEW g \in Task, BlockQueued(g) PROVE ~Reopens(t)
  BY <1>3, <1>7 DEF BlockQueued, Reopens, Ended
<1>8. CASE StopWrites
  <2>1. status'[t] \in {status[t], Put(t, "cancelled")[t]}
    BY <1>8 DEF StopWrites
  <2> QED BY <1>3, <2>1 DEF Reopens, Ended
<1>9. CASE ResumeExecution \/ ReleaseWrites
  BY <1>9 DEF ResumeExecution, ReleaseWrites, records, Reopens
<1> QED BY <1>1, <1>2, <1>4, <1>5, <1>6, <1>7, <1>8, <1>9
        DEF PauseSome, PauseExecution, PrepareClose

\* A task that is over stays over, whatever its thread reports later; a retry
\* opens a run of its own.
THEOREM StaysOver ==
    ASSUME Orderly
    PROVE  Spec => OverIsOver
<1>1. ASSUME Inv, Next, NEW t \in Task
      PROVE  Reopens(t) => status'[t] = "queued" /\ runs'[t] = runs[t] + 1
  <2>1. ASSUME NEW g \in Task, Retry(g)
        PROVE  Reopens(t) => status'[t] = "queued" /\ runs'[t] = runs[t] + 1
    BY <1>1, <2>1 DEF Retry, Enqueue, Reopens, Inv, TypeOK
  <2> QED BY <1>1, <2>1, ThreadKeepsOver, HandKeepsOver DEF Next
<1>2. Inv /\ [Next]_vars => [\A t \in Task :
          status[t] \in Ended /\ status'[t] \notin Ended
              => status'[t] = "queued" /\ runs'[t] = runs[t] + 1]_vars
  BY <1>1 DEF Reopens
<1> QED BY <1>2, Invariance, PTL DEF Spec, OverIsOver
=============================================================================
