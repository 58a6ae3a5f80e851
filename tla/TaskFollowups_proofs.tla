------------------------- MODULE TaskFollowups_proofs -------------------------
(***************************************************************************)
(* Theorems about TaskFollowups, for every finite set of intents and any   *)
(* number of attempts, crashes and syncs of users.                         *)
(***************************************************************************)
EXTENDS TaskFollowups, TLAPS

USE FollowupConstants

Places == {"idle", "registered", "accepted", "bound", "tracked", "over"}
Monitors == [at : {"visit", "due"}, left : SUBSET Intent]
            \cup [at : {"settle"}, task : Task]
            \cup [at : {"mark"}, row : Intent, left : SUBSET Intent]

\* The row is one the monitor has claimed and not come to, or is submitting.
InHand(f) == monitor.at # "settle" /\ f \in monitor.left
Marking(f) == monitor.at = "mark" /\ monitor.row = f

\* A restart, or a lost answer, after which a compensation may run again; a
\* restart, or an error, after which the end of the source is not known.
MayRerun(f) == log[f] \cap {"RECOVERED", "SUBMIT_EXCEPTION"} # {}
Unsure(f) == log[f] \cap {"SOURCE_BIND_RETRY", "RECOVERED"} # {}

\* The row follows invoke until the source is bound.
InStep(f) ==
    /\ pc[f] = "idle" => state[f] = "NONE"
    /\ pc[f] \in {"idle", "registered"} => source[f] = "none"
    /\ pc[f] \in {"registered", "accepted"} => state[f] = "REGISTERING"
    /\ pc[f] \in {"accepted", "bound"} => source[f] \in {"live", "ended", "stopped"}
    /\ <<"source", f>> \in tracked => source[f] \in {"live", "ended", "stopped"}
    /\ monitor.at = "settle" /\ monitor.task = <<"source", f>> => source[f] \in {"ended", "stopped"}

\* A row in the monitor's hand keeps its claim, unless invoke has failed it.
Held(f) ==
    /\ InHand(f) \/ Marking(f)
          => \/ state[f] = "CLAIMED"
             \/ state[f] = "FAILED" /\ "SOURCE_SUBMIT_FAILED" \in log[f]
    /\ Marking(f) => ~InHand(f)

\* Only a row whose compensation was accepted, or that may rerun, counts a run.
Counted(f) ==
    /\ runs[f] > 1 => MayRerun(f)
    /\ \/ state[f] \in {"NONE", "REGISTERING", "WAITING_SOURCE", "PENDING", "CLAIMED"}
       \/ InHand(f)
       => Marking(f) \/ runs[f] = 0 \/ MayRerun(f)

\* A row becomes due by the end of its source.
Due(f) ==
    state[f] \in {"PENDING", "CLAIMED"} \/ InHand(f) \/ Marking(f)
        => source[f] = "ended" \/ Unsure(f)

\* The end of a submitted compensation will be seen, and found to be the row's.
Watched(f) ==
    "settle_error" \notin Faults /\ state[f] = "SUBMITTED" =>
        /\ f \in linked
        /\ \/ <<"comp", f>> \in tracked
           \/ monitor.at = "settle" /\ monitor.task = <<"comp", f>>

Good(f) == InStep(f) /\ Held(f) /\ Counted(f) /\ Due(f) /\ Watched(f)

Inv == TypeOK /\ \A f \in Intent : Good(f)

LEMMA NoteFacts ==
    ASSUME TypeOK, NEW f \in Intent, NEW outcome, Note(f, outcome)
    PROVE  /\ log' \in [Intent -> SUBSET Disturbances]
           /\ \A g \in Intent : log[g] \subseteq log'[g]
           /\ outcome \in Disturbances => outcome \in log'[f]
BY DEF TypeOK, Note

LEMMA PutFacts ==
    ASSUME TypeOK, NEW f \in Intent, NEW to \in RowStates, NEW outcome, Put(f, to, outcome)
    PROVE  /\ state' = [state EXCEPT ![f] = to] /\ state' \in [Intent -> RowStates]
           /\ ready' \subseteq Intent /\ attempts' = attempts
           /\ log' \in [Intent -> SUBSET Disturbances]
           /\ \A g \in Intent : log[g] \subseteq log'[g]
           /\ outcome \in Disturbances => outcome \in log'[f]
<1>1. Note(f, outcome)
  BY DEF Put
<1> QED BY <1>1, NoteFacts DEF Put, TypeOK

LEMMA RetryFacts ==
    ASSUME TypeOK, NEW f \in Intent, NEW outcome, Retry(f, outcome)
    PROVE  /\ state' = [state EXCEPT ![f] = "PENDING"] /\ state' \in [Intent -> RowStates]
           /\ ready' \subseteq Intent /\ attempts' \in [Intent -> 0..MaxAttempts]
           /\ log' \in [Intent -> SUBSET Disturbances]
           /\ \A g \in Intent : log[g] \subseteq log'[g]
           /\ outcome \in Disturbances => outcome \in log'[f]
<1>1. Note(f, outcome)
  BY DEF Retry
<1>2. state' \in [Intent -> RowStates]
  BY DEF Retry, TypeOK, RowStates
<1> QED BY <1>1, <1>2, NoteFacts DEF Retry, TypeOK

LEMMA GoOnFacts ==
    ASSUME NEW left \in SUBSET Intent, GoOn(left)
    PROVE  monitor' \in Monitors /\ monitor'.at \in {"visit", "due"} /\ monitor'.left = left
BY DEF GoOn, Visiting, Monitors

LEMMA TaskPairs ==
    \A f, g \in Intent : /\ <<"source", f>> # <<"comp", g>>
                         /\ (<<"source", f>> = <<"source", g>>) = (f = g)
                         /\ (<<"comp", f>> = <<"comp", g>>) = (f = g)
OBVIOUS

\* One lemma for each action.
LEMMA RegisterStep ==
    ASSUME Inv, NEW f \in Intent, Register(f)
    PROVE  Inv'
<1>0. TypeOK
  BY DEF Inv
<1>p. /\ pc \in [Intent -> Places] /\ source \in [Intent -> TaskStates]
      /\ state \in [Intent -> RowStates]
  BY <1>0 DEF TypeOK, Places
<1>1. /\ pc[f] = "idle"
      /\ pc' = [pc EXCEPT ![f] = "registered"]
      /\ state' = [state EXCEPT ![f] = "REGISTERING"]
      /\ UNCHANGED <<ready, attempts, log, source, comp, linked, runs, tracked, monitor,
                    syncing, crashes, syncs>>
  BY <1>0 DEF Register, GoTo, tasks, bounds
<1>2. TypeOK'
  BY <1>0, <1>1, <1>p DEF TypeOK, RowStates
<1>3. ASSUME NEW g \in Intent PROVE Good(g)'
  <2>0. Good(g)
    BY DEF Inv
  <2>1. InStep(g)'
    BY <1>0, <1>1, <1>p, <2>0, TaskPairs DEF Good, InStep, Held, InHand, Marking
  <2>2. Held(g)'
    BY <1>0, <1>1, <1>p, <2>0, TaskPairs DEF Good, InStep, Held, InHand, Marking
  <2>3. Counted(g)'
    BY <1>0, <1>1, <1>p, <2>0, TaskPairs DEF Good, InStep, Held, Counted, InHand, Marking, MayRerun
  <2>4. Due(g)'
    BY <1>0, <1>1, <1>p, <2>0, TaskPairs DEF Good, InStep, Held, Due, InHand, Marking, Unsure
  <2>5. Watched(g)'
    BY <1>0, <1>1, <1>p, <2>0, TaskPairs DEF Good, InStep, Held, Watched, InHand, Marking
  <2> QED BY <2>1, <2>2, <2>3, <2>4, <2>5 DEF Good
<1> QED BY <1>2, <1>3 DEF Inv

LEMMA SourceAcceptedStep ==
    ASSUME Inv, NEW f \in Intent, SourceAccepted(f)
    PROVE  Inv'
<1>0. TypeOK
  BY DEF Inv
<1>p. /\ pc \in [Intent -> Places] /\ source \in [Intent -> TaskStates]
      /\ state \in [Intent -> RowStates]
  BY <1>0 DEF TypeOK, Places
<1>1. /\ pc[f] = "registered"
      /\ pc' = [pc EXCEPT ![f] = "accepted"]
      /\ source' = [source EXCEPT ![f] = "live"]
      /\ UNCHANGED <<state, ready, attempts, log, comp, linked, runs, tracked, monitor, syncing,
                    crashes, syncs>>
  BY <1>0 DEF SourceAccepted, GoTo, rows, bounds
<1>2. TypeOK'
  BY <1>0, <1>1, <1>p DEF TypeOK, TaskStates
<1>3. ASSUME NEW g \in Intent PROVE Good(g)'
  <2>0. Good(g)
    BY DEF Inv
  <2>1. InStep(g)'
    BY <1>0, <1>1, <1>p, <2>0, TaskPairs DEF Good, InStep, Held, InHand, Marking
  <2>2. Held(g)'
    BY <1>0, <1>1, <1>p, <2>0, TaskPairs DEF Good, InStep, Held, InHand, Marking
  <2>3. Counted(g)'
    BY <1>0, <1>1, <1>p, <2>0, TaskPairs DEF Good, InStep, Held, Counted, InHand, Marking, MayRerun
  <2>4. Due(g)'
    BY <1>0, <1>1, <1>p, <2>0, TaskPairs DEF Good, InStep, Held, Due, InHand, Marking, Unsure
  <2>5. Watched(g)'
    BY <1>0, <1>1, <1>p, <2>0, TaskPairs DEF Good, InStep, Held, Watched, InHand, Marking
  <2> QED BY <2>1, <2>2, <2>3, <2>4, <2>5 DEF Good
<1> QED BY <1>2, <1>3 DEF Inv

LEMMA SourceRefusedStep ==
    ASSUME Inv, NEW f \in Intent, SourceRefused(f)
    PROVE  Inv'
<1>0. TypeOK
  BY DEF Inv
<1>p. /\ pc \in [Intent -> Places] /\ source \in [Intent -> TaskStates]
      /\ state \in [Intent -> RowStates]
  BY <1>0 DEF TypeOK, Places
<1>q. state[f] = "REGISTERING"
  BY DEF SourceRefused, Inv, Good, InStep
<1>r. Put(f, "CANCELLED", "SOURCE_REJECTED")
  BY <1>q DEF SourceRefused
<1>1. /\ pc[f] = "registered"
      /\ pc' = [pc EXCEPT ![f] = "over"]
      /\ state' = [state EXCEPT ![f] = "CANCELLED"]
      /\ ready' \subseteq Intent
      /\ log' \in [Intent -> SUBSET Disturbances]
      /\ \A g \in Intent : log[g] \subseteq log'[g]
      /\ "SOURCE_REJECTED" \in Disturbances => "SOURCE_REJECTED" \in log'[f]
      /\ UNCHANGED <<attempts, source, comp, linked, runs, tracked, monitor, syncing, crashes,
                    syncs>>
  BY <1>0, <1>r, PutFacts DEF SourceRefused, GoTo, tasks, bounds, RowStates, Final
<1>2. TypeOK'
  BY <1>0, <1>1, <1>p DEF TypeOK, RowStates, Final
<1>3. ASSUME NEW g \in Intent PROVE Good(g)'
  <2>0. Good(g)
    BY DEF Inv
  <2>1. InStep(g)'
    BY <1>0, <1>1, <1>p, <2>0, TaskPairs DEF Good, InStep, Held, InHand, Marking
  <2>2. Held(g)'
    BY <1>0, <1>1, <1>p, <2>0, TaskPairs DEF Good, InStep, Held, InHand, Marking
  <2>3. Counted(g)'
    BY <1>0, <1>1, <1>p, <2>0, TaskPairs DEF Good, InStep, Held, Counted, InHand, Marking, MayRerun
  <2>4. Due(g)'
    BY <1>0, <1>1, <1>p, <2>0, TaskPairs DEF Good, InStep, Held, Due, InHand, Marking, Unsure
  <2>5. Watched(g)'
    BY <1>0, <1>1, <1>p, <2>0, TaskPairs DEF Good, InStep, Held, Watched, InHand, Marking
  <2> QED BY <2>1, <2>2, <2>3, <2>4, <2>5 DEF Good
<1> QED BY <1>2, <1>3 DEF Inv

LEMMA SourceRaisesStep ==
    ASSUME Inv, NEW f \in Intent, SourceRaises(f)
    PROVE  Inv'
<1>0. TypeOK
  BY DEF Inv
<1>p. /\ pc \in [Intent -> Places] /\ source \in [Intent -> TaskStates]
      /\ state \in [Intent -> RowStates]
  BY <1>0 DEF TypeOK, Places
<1>1. /\ pc[f] = "registered"
      /\ pc' = [pc EXCEPT ![f] = "over"]
      /\ state' = [state EXCEPT ![f] = "FAILED"]
      /\ ready' \subseteq Intent
      /\ log' \in [Intent -> SUBSET Disturbances]
      /\ \A g \in Intent : log[g] \subseteq log'[g]
      /\ "SOURCE_SUBMIT_FAILED" \in log'[f]
      /\ UNCHANGED <<attempts, source, comp, linked, runs, tracked, monitor, syncing, crashes,
                    syncs>>
  BY <1>0, PutFacts DEF SourceRaises, GoTo, tasks, bounds, RowStates, Final, Disturbances
<1>2. TypeOK'
  BY <1>0, <1>1, <1>p DEF TypeOK, RowStates, Final
<1>3. ASSUME NEW g \in Intent PROVE Good(g)'
  <2>0. Good(g)
    BY DEF Inv
  <2>1. InStep(g)'
    BY <1>0, <1>1, <1>p, <2>0, TaskPairs DEF Good, InStep, Held, InHand, Marking
  <2>2. Held(g)'
    BY <1>0, <1>1, <1>p, <2>0, TaskPairs DEF Good, InStep, Held, InHand, Marking
  <2>3. Counted(g)'
    BY <1>0, <1>1, <1>p, <2>0, TaskPairs DEF Good, InStep, Held, Counted, InHand, Marking, MayRerun
  <2>4. Due(g)'
    BY <1>0, <1>1, <1>p, <2>0, TaskPairs DEF Good, InStep, Held, Due, InHand, Marking, Unsure
  <2>5. Watched(g)'
    BY <1>0, <1>1, <1>p, <2>0, TaskPairs DEF Good, InStep, Held, Watched, InHand, Marking
  <2> QED BY <2>1, <2>2, <2>3, <2>4, <2>5 DEF Good
<1> QED BY <1>2, <1>3 DEF Inv

LEMMA LateErrorStep ==
    ASSUME Inv, NEW f \in Intent, LateError(f)
    PROVE  Inv'
<1>0. TypeOK
  BY DEF Inv
<1>p. /\ pc \in [Intent -> Places] /\ source \in [Intent -> TaskStates]
      /\ state \in [Intent -> RowStates]
  BY <1>0 DEF TypeOK, Places
<1>1. /\ pc[f] \in {"bound", "tracked"}
      /\ pc' = [pc EXCEPT ![f] = "over"]
      /\ state' = [state EXCEPT ![f] = "FAILED"]
      /\ ready' \subseteq Intent
      /\ log' \in [Intent -> SUBSET Disturbances]
      /\ \A g \in Intent : log[g] \subseteq log'[g]
      /\ "SOURCE_SUBMIT_FAILED" \in log'[f]
      /\ UNCHANGED <<attempts, source, comp, linked, runs, tracked, monitor, syncing, crashes,
                    syncs>>
  BY <1>0, PutFacts DEF LateError, GoTo, tasks, bounds, RowStates, Final, Disturbances
<1>2. TypeOK'
  BY <1>0, <1>1, <1>p DEF TypeOK, RowStates, Final, Disturbances
<1>3. ASSUME NEW g \in Intent PROVE Good(g)'
  <2>0. Good(g)
    BY DEF Inv
  <2>1. InStep(g)'
    BY <1>0, <1>1, <1>p, <2>0, TaskPairs DEF Good, InStep, Held, InHand, Marking
  <2>2. Held(g)'
    BY <1>0, <1>1, <1>p, <2>0, TaskPairs DEF Good, InStep, Held, InHand, Marking
  <2>3. Counted(g)'
    BY <1>0, <1>1, <1>p, <2>0, TaskPairs DEF Good, InStep, Held, Counted, InHand, Marking, MayRerun
  <2>4. Due(g)'
    BY <1>0, <1>1, <1>p, <2>0, TaskPairs DEF Good, InStep, Held, Due, InHand, Marking, Unsure
  <2>5. Watched(g)'
    BY <1>0, <1>1, <1>p, <2>0, TaskPairs DEF Good, InStep, Held, Watched, InHand, Marking
  <2> QED BY <2>1, <2>2, <2>3, <2>4, <2>5 DEF Good
<1> QED BY <1>2, <1>3 DEF Inv

LEMMA BindSourceStep ==
    ASSUME Inv, NEW f \in Intent, BindSource(f)
    PROVE  Inv'
<1>0. TypeOK
  BY DEF Inv
<1>p. /\ pc \in [Intent -> Places] /\ source \in [Intent -> TaskStates]
      /\ state \in [Intent -> RowStates]
  BY <1>0 DEF TypeOK, Places
<1>1. /\ pc[f] = "accepted"
      /\ pc' = [pc EXCEPT ![f] = "bound"]
      /\ \/ state' = [state EXCEPT ![f] = "WAITING_SOURCE"]
         \/ state' = [state EXCEPT ![f] = "PENDING"] /\ "SOURCE_BIND_RETRY" \in log'[f]
      /\ attempts' \in [Intent -> 0..MaxAttempts]
      /\ ready' \subseteq Intent
      /\ log' \in [Intent -> SUBSET Disturbances]
      /\ \A g \in Intent : log[g] \subseteq log'[g]
      /\ UNCHANGED <<source, comp, linked, runs, tracked, monitor, syncing, crashes, syncs>>
  BY <1>0, RetryFacts DEF BindSource, GoTo, tasks, bounds, Disturbances, TypeOK
<1>2. TypeOK'
  BY <1>0, <1>1, <1>p DEF TypeOK, RowStates
<1>3. ASSUME NEW g \in Intent PROVE Good(g)'
  <2>0. Good(g)
    BY DEF Inv
  <2>1. InStep(g)'
    BY <1>0, <1>1, <1>p, <2>0, TaskPairs DEF Good, InStep, Held, InHand, Marking
  <2>2. Held(g)'
    BY <1>0, <1>1, <1>p, <2>0, TaskPairs DEF Good, InStep, Held, InHand, Marking
  <2>3. Counted(g)'
    BY <1>0, <1>1, <1>p, <2>0, TaskPairs DEF Good, InStep, Held, Counted, InHand, Marking, MayRerun
  <2>4. Due(g)'
    BY <1>0, <1>1, <1>p, <2>0, TaskPairs DEF Good, InStep, Held, Due, InHand, Marking, Unsure
  <2>5. Watched(g)'
    BY <1>0, <1>1, <1>p, <2>0, TaskPairs DEF Good, InStep, Held, Watched, InHand, Marking
  <2> QED BY <2>1, <2>2, <2>3, <2>4, <2>5 DEF Good
<1> QED BY <1>2, <1>3 DEF Inv

LEMMA TrackStep ==
    ASSUME Inv, NEW f \in Intent, Track(f)
    PROVE  Inv'
<1>0. TypeOK
  BY DEF Inv
<1>p. /\ pc \in [Intent -> Places] /\ source \in [Intent -> TaskStates]
      /\ state \in [Intent -> RowStates]
  BY <1>0 DEF TypeOK, Places
<1>1. /\ pc[f] = "bound"
      /\ pc' = [pc EXCEPT ![f] = "tracked"]
      /\ tracked' = tracked \cup {<<"source", f>>}
      /\ UNCHANGED <<state, ready, attempts, log, source, comp, linked, runs, monitor, syncing,
                    crashes, syncs>>
  BY <1>0 DEF Track, GoTo, rows, tasks, bounds
<1>2. TypeOK'
  BY <1>0, <1>1, <1>p DEF TypeOK, Task
<1>3. ASSUME NEW g \in Intent PROVE Good(g)'
  <2>0. Good(g)
    BY DEF Inv
  <2>1. InStep(g)'
    BY <1>0, <1>1, <1>p, <2>0, TaskPairs DEF Good, InStep, Held, InHand, Marking
  <2>2. Held(g)'
    BY <1>0, <1>1, <1>p, <2>0, TaskPairs DEF Good, InStep, Held, InHand, Marking
  <2>3. Counted(g)'
    BY <1>0, <1>1, <1>p, <2>0, TaskPairs DEF Good, InStep, Held, Counted, InHand, Marking, MayRerun
  <2>4. Due(g)'
    BY <1>0, <1>1, <1>p, <2>0, TaskPairs DEF Good, InStep, Held, Due, InHand, Marking, Unsure
  <2>5. Watched(g)'
    BY <1>0, <1>1, <1>p, <2>0, TaskPairs DEF Good, InStep, Held, Watched, InHand, Marking
  <2> QED BY <2>1, <2>2, <2>3, <2>4, <2>5 DEF Good
<1> QED BY <1>2, <1>3 DEF Inv

LEMMA ReturnStep ==
    ASSUME Inv, NEW f \in Intent, Return(f)
    PROVE  Inv'
<1>0. TypeOK
  BY DEF Inv
<1>p. /\ pc \in [Intent -> Places] /\ source \in [Intent -> TaskStates]
      /\ state \in [Intent -> RowStates]
  BY <1>0 DEF TypeOK, Places
<1>1. /\ pc[f] = "tracked"
      /\ pc' = [pc EXCEPT ![f] = "over"]
      /\ UNCHANGED <<state, ready, attempts, log, source, comp, linked, runs, tracked, monitor,
                    syncing, crashes, syncs>>
  BY <1>0 DEF Return, GoTo, rows, tasks, bounds
<1>2. TypeOK'
  BY <1>0, <1>1, <1>p DEF TypeOK
<1>3. ASSUME NEW g \in Intent PROVE Good(g)'
  <2>0. Good(g)
    BY DEF Inv
  <2>1. InStep(g)'
    BY <1>0, <1>1, <1>p, <2>0, TaskPairs DEF Good, InStep, Held, InHand, Marking
  <2>2. Held(g)'
    BY <1>0, <1>1, <1>p, <2>0, TaskPairs DEF Good, InStep, Held, InHand, Marking
  <2>3. Counted(g)'
    BY <1>0, <1>1, <1>p, <2>0, TaskPairs DEF Good, InStep, Held, Counted, InHand, Marking, MayRerun
  <2>4. Due(g)'
    BY <1>0, <1>1, <1>p, <2>0, TaskPairs DEF Good, InStep, Held, Due, InHand, Marking, Unsure
  <2>5. Watched(g)'
    BY <1>0, <1>1, <1>p, <2>0, TaskPairs DEF Good, InStep, Held, Watched, InHand, Marking
  <2> QED BY <2>1, <2>2, <2>3, <2>4, <2>5 DEF Good
<1> QED BY <1>2, <1>3 DEF Inv

LEMMA SourceEndsStep ==
    ASSUME Inv, NEW f \in Intent, SourceEnds(f)
    PROVE  Inv'
<1>0. TypeOK
  BY DEF Inv
<1>p. /\ pc \in [Intent -> Places] /\ source \in [Intent -> TaskStates]
      /\ state \in [Intent -> RowStates]
  BY <1>0 DEF TypeOK, Places
<1>1. /\ source[f] = "live"
      /\ \E end \in {"ended", "stopped"} : source' = [source EXCEPT ![f] = end]
      /\ UNCHANGED <<state, ready, attempts, log, pc, comp, linked, runs, tracked, monitor,
                    syncing, crashes, syncs>>
  BY <1>0 DEF SourceEnds, rows, bounds
<1>2. TypeOK'
  BY <1>0, <1>1, <1>p DEF TypeOK, TaskStates
<1>3. ASSUME NEW g \in Intent PROVE Good(g)'
  <2>0. Good(g)
    BY DEF Inv
  <2>1. InStep(g)'
    BY <1>0, <1>1, <1>p, <2>0, TaskPairs DEF Good, InStep, Held, InHand, Marking
  <2>2. Held(g)'
    BY <1>0, <1>1, <1>p, <2>0, TaskPairs DEF Good, InStep, Held, InHand, Marking
  <2>3. Counted(g)'
    BY <1>0, <1>1, <1>p, <2>0, TaskPairs DEF Good, InStep, Held, Counted, InHand, Marking, MayRerun
  <2>4. Due(g)'
    BY <1>0, <1>1, <1>p, <2>0, TaskPairs DEF Good, InStep, Held, Due, InHand, Marking, Unsure
  <2>5. Watched(g)'
    BY <1>0, <1>1, <1>p, <2>0, TaskPairs DEF Good, InStep, Held, Watched, InHand, Marking
  <2> QED BY <2>1, <2>2, <2>3, <2>4, <2>5 DEF Good
<1> QED BY <1>2, <1>3 DEF Inv

LEMMA CompensationEndsStep ==
    ASSUME Inv, NEW f \in Intent, CompensationEnds(f)
    PROVE  Inv'
<1>0. TypeOK
  BY DEF Inv
<1>1. /\ \E end \in {"ended", "failed"} : comp' = [comp EXCEPT ![f] = end]
      /\ UNCHANGED <<state, ready, attempts, log, pc, source, linked, runs, tracked, monitor,
                    syncing, crashes, syncs>>
  BY <1>0 DEF CompensationEnds, rows, bounds
<1>2. TypeOK'
  BY <1>0, <1>1 DEF TypeOK, TaskStates
<1>3. ASSUME NEW g \in Intent PROVE Good(g)'
  <2>0. Good(g)
    BY DEF Inv
  <2>1. InStep(g)'
    BY <1>0, <1>1, <2>0, TaskPairs DEF Good, InStep, Held, InHand, Marking
  <2>2. Held(g)'
    BY <1>0, <1>1, <2>0, TaskPairs DEF Good, InStep, Held, InHand, Marking
  <2>3. Counted(g)'
    BY <1>0, <1>1, <2>0, TaskPairs DEF Good, InStep, Held, Counted, InHand, Marking, MayRerun
  <2>4. Due(g)'
    BY <1>0, <1>1, <2>0, TaskPairs DEF Good, InStep, Held, Due, InHand, Marking, Unsure
  <2>5. Watched(g)'
    BY <1>0, <1>1, <2>0, TaskPairs DEF Good, InStep, Held, Watched, InHand, Marking
  <2> QED BY <2>1, <2>2, <2>3, <2>4, <2>5 DEF Good
<1> QED BY <1>2, <1>3 DEF Inv

LEMMA SyncStep ==
    ASSUME Inv, UserSync \/ UserSyncEnds
    PROVE  Inv'
<1>0. TypeOK
  BY DEF Inv
<1>s. syncs' \in 0..MaxSyncs
  <2>1. syncs \in 0..MaxSyncs /\ MaxSyncs \in Nat
    BY <1>0 DEF TypeOK
  <2> QED BY <2>1 DEF UserSync, UserSyncEnds, bounds
<1>b. syncing' \in BOOLEAN
  BY DEF UserSync, UserSyncEnds
<1>1. /\ syncing' \in BOOLEAN
      /\ syncs' \in 0..MaxSyncs
      /\ UNCHANGED <<state, ready, attempts, log, pc, source, comp, linked, runs, tracked,
                    monitor, crashes>>
  <2>1. UNCHANGED <<state, ready, attempts, log, pc, source, comp, linked, runs, tracked,
                    monitor, crashes>>
    BY DEF UserSync, UserSyncEnds, rows, tasks, bounds
  <2> QED BY ONLY <2>1, <1>s, <1>b
<1>2. TypeOK'
  <2>1. ready' \subseteq Intent /\ linked' \subseteq Intent /\ tracked' \subseteq Task
    BY <1>0, <1>1 DEF TypeOK
  <2>2. /\ state' \in [Intent -> RowStates] /\ attempts' \in [Intent -> 0..MaxAttempts]
        /\ log' \in [Intent -> SUBSET Disturbances] /\ pc' \in [Intent -> Places]
        /\ source' \in [Intent -> TaskStates] /\ comp' \in [Intent -> TaskStates]
        /\ runs' \in [Intent -> 0..2]
    BY <1>0, <1>1 DEF TypeOK, Places
  <2>3. monitor' \in Monitors
    BY <1>0, <1>1 DEF TypeOK, Monitors
  <2>4. syncing' \in BOOLEAN /\ crashes' \in 0..MaxCrashes /\ syncs' \in 0..MaxSyncs
    BY <1>0, <1>1 DEF TypeOK
  <2> QED BY ONLY <2>1, <2>2, <2>3, <2>4 DEF TypeOK, Places, Monitors
<1>3. ASSUME NEW g \in Intent PROVE Good(g)'
  <2>0. Good(g)
    BY DEF Inv
  <2>1. InStep(g)'
    BY <1>0, <1>1, <2>0, TaskPairs DEF Good, InStep, Held, InHand, Marking
  <2>2. Held(g)'
    BY <1>0, <1>1, <2>0, TaskPairs DEF Good, InStep, Held, InHand, Marking
  <2>3. Counted(g)'
    BY <1>0, <1>1, <2>0, TaskPairs DEF Good, InStep, Held, Counted, InHand, Marking, MayRerun
  <2>4. Due(g)'
    BY <1>0, <1>1, <2>0, TaskPairs DEF Good, InStep, Held, Due, InHand, Marking, Unsure
  <2>5. Watched(g)'
    BY <1>0, <1>1, <2>0, TaskPairs DEF Good, InStep, Held, Watched, InHand, Marking
  <2> QED BY <2>1, <2>2, <2>3, <2>4, <2>5 DEF Good
<1> QED BY <1>2, <1>3 DEF Inv

LEMMA LapseStep ==
    ASSUME Inv, NEW f \in Intent, Lapse(f)
    PROVE  Inv'
<1>0. TypeOK
  BY DEF Inv
<1>1. /\ ready' = ready \cup {f}
      /\ UNCHANGED <<state, attempts, log, pc, source, comp, linked, runs, tracked, monitor,
                    syncing, crashes, syncs>>
  BY <1>0 DEF Lapse, tasks, bounds
<1>2. TypeOK'
  BY <1>0, <1>1 DEF TypeOK
<1>3. ASSUME NEW g \in Intent PROVE Good(g)'
  <2>0. Good(g)
    BY DEF Inv
  <2>1. InStep(g)'
    BY <1>0, <1>1, <2>0, TaskPairs DEF Good, InStep, Held, InHand, Marking
  <2>2. Held(g)'
    BY <1>0, <1>1, <2>0, TaskPairs DEF Good, InStep, Held, InHand, Marking
  <2>3. Counted(g)'
    BY <1>0, <1>1, <2>0, TaskPairs DEF Good, InStep, Held, Counted, InHand, Marking, MayRerun
  <2>4. Due(g)'
    BY <1>0, <1>1, <2>0, TaskPairs DEF Good, InStep, Held, Due, InHand, Marking, Unsure
  <2>5. Watched(g)'
    BY <1>0, <1>1, <2>0, TaskPairs DEF Good, InStep, Held, Watched, InHand, Marking
  <2> QED BY <2>1, <2>2, <2>3, <2>4, <2>5 DEF Good
<1> QED BY <1>2, <1>3 DEF Inv

LEMMA ObserveStep ==
    ASSUME Inv, NEW k \in Task, Observe(k)
    PROVE  Inv'
<1>0. TypeOK
  BY DEF Inv
<1>k. k = <<k[1], k[2]>> /\ k[1] \in {"source", "comp"} /\ k[2] \in Intent
  BY DEF Task
<1>1. /\ monitor = Visiting
      /\ k \in tracked
      /\ k[1] = "source" => source[k[2]] # "live"
      /\ tracked' = tracked \ {k}
      /\ monitor' = [at |-> "settle", task |-> k]
      /\ UNCHANGED <<state, ready, attempts, log, pc, source, comp, linked, runs, syncing,
                    crashes, syncs>>
  BY <1>0 DEF Observe, StatusOf, rows, tasks, bounds
<1>2. TypeOK'
  BY <1>0, <1>1, <1>k DEF TypeOK
<1>3. ASSUME NEW g \in Intent PROVE Good(g)'
  <2>0. Good(g)
    BY DEF Inv
  <2> DEFINE done == <<"source", g>>
             watched == <<"comp", g>>
  <2>a. /\ k = done => source[g] # "live"
        /\ done \in tracked' => done \in tracked
        /\ monitor'.at = "settle" /\ monitor'.task = k
        /\ watched \in tracked => watched \in tracked' \/ k = watched
        /\ k \in tracked
    BY <1>1
  <2> HIDE DEF done, watched
  <2>b. UNCHANGED <<state, log, pc, source, linked, runs>>
    BY <1>1
  <2>c. monitor.at = "visit"
    BY <1>1 DEF Visiting
  <2>1. InStep(g)'
    <3> USE DEF done
    <3>1. InStep(g)
      BY <2>0 DEF Good
    <3> QED BY ONLY <2>a, <2>b, <3>1 DEF InStep, done
  <2>2. Held(g)'
    BY <2>a DEF Held, InHand, Marking
  <2>3. Counted(g)'
    BY <2>a, <2>b, <2>c, <2>0 DEF Good, Counted, InHand, Marking, MayRerun
  <2>4. Due(g)'
    BY <2>a, <2>b, <2>0 DEF Good, Due, InHand, Marking, Unsure
  <2>5. Watched(g)'
    BY <2>a, <2>b, <2>c, <2>0 DEF Good, Watched, watched
  <2> QED BY <2>1, <2>2, <2>3, <2>4, <2>5 DEF Good
<1> QED BY <1>2, <1>3 DEF Inv

\* The monitor has done with a row that it leaves due again, or failed.
LEMMA Processed ==
    ASSUME Inv, NEW f \in Intent, NEW to \in {"PENDING", "FAILED"},
           (monitor.at = "due" /\ InHand(f)) \/ Marking(f), GoOn(monitor.left \ {f}),
           state' = [state EXCEPT ![f] = to], ready' \subseteq Intent,
           attempts' \in [Intent -> 0..MaxAttempts], log' \in [Intent -> SUBSET Disturbances],
           \A g \in Intent : log[g] \subseteq log'[g],
           to = "PENDING" => ~Marking(f) \/ "SUBMIT_EXCEPTION" \in log'[f],
           UNCHANGED <<pc, source, comp, linked, runs, tracked, syncing, crashes, syncs>>
    PROVE  Inv'
<1>0. TypeOK
  BY DEF Inv
<1>a. monitor.at \in {"due", "mark"}
  BY DEF Marking
<1>1. monitor.left \in SUBSET Intent
  BY <1>0, <1>a DEF TypeOK
<1>2. /\ monitor' \in Monitors /\ monitor'.at \in {"visit", "due"}
      /\ monitor'.left = monitor.left \ {f}
  BY <1>1, GoOnFacts
<1>3. TypeOK'
  <2>1. state' \in [Intent -> RowStates]
    BY <1>0 DEF TypeOK, RowStates, Final
  <2> QED BY <1>0, <1>2, <2>1 DEF TypeOK, Monitors
<1>4. ASSUME NEW g \in Intent PROVE Good(g)'
  <2>0. Good(g) /\ state \in [Intent -> RowStates]
    BY <1>0 DEF Inv, TypeOK
  <2>1. InStep(g)'
    BY <1>2, <2>0 DEF Good, InStep, Held
  <2>2. Held(g)'
    <3> DEFINE kept == state[g] = "FAILED" /\ "SOURCE_SUBMIT_FAILED" \in log[g]
    <3>1. /\ g # f => state'[g] = state[g]
          /\ state[g] = "FAILED" /\ g # f /\ kept => kept'
      BY <2>0
    <3>2. InHand(g) => state[g] = "CLAIMED" \/ kept
      BY <2>0 DEF Good, Held
    <3>3. InHand(g) /\ g # f => state'[g] = "CLAIMED" \/ kept'
      BY <3>1, <3>2
    <3> HIDE DEF kept
    <3>4. (InHand(g) \/ Marking(g))' => InHand(g) /\ g # f
      BY <1>2 DEF InHand, Marking
    <3>5. ~Marking(g)'
      BY <1>2 DEF Marking
    <3> QED BY <3>3, <3>4, <3>5 DEF Held, kept
  <2>3. Counted(g)'
    <3>1. MayRerun(g) => MayRerun(g)'
      BY DEF MayRerun
    <3>2. /\ runs'[g] = runs[g]
          /\ g # f => state'[g] = state[g]
          /\ g = f => state'[g] = to
      BY <2>0
    <3>3. InHand(g)' => InHand(g) /\ g # f
      BY <1>2, <1>a DEF InHand
    <3>4. Marking(g) => g = f
      BY DEF Marking
    <3>5. g = f /\ to = "PENDING" => runs[g] = 0 \/ MayRerun(g) \/ MayRerun(g)'
      BY <2>0 DEF Good, Counted, MayRerun
    <3>6. Counted(g)
      BY <2>0 DEF Good
    <3> HIDE DEF MayRerun, Marking
    <3>7. ~Marking(g)'
      BY <1>2 DEF Marking
    <3> QED BY <3>1, <3>2, <3>3, <3>4, <3>5, <3>6, <3>7 DEF Counted
  <2>4. Due(g)'
    BY <1>2, <2>0 DEF Good, Held, Due, InHand, Marking, Unsure
  <2>5. Watched(g)'
    BY <1>2, <1>a, <2>0 DEF Good, Watched
  <2> QED BY <2>1, <2>2, <2>3, <2>4, <2>5 DEF Good
<1> QED BY <1>3, <1>4 DEF Inv

LEMMA ConflictStep ==
    ASSUME Inv, NEW f \in Intent, Conflict(f)
    PROVE  Inv'
<1>0. TypeOK
  BY DEF Inv
<1>1. /\ monitor.at = "due" /\ InHand(f) /\ ~Marking(f) /\ GoOn(monitor.left \ {f})
      /\ Retry(f, "CONFLICT")
      /\ UNCHANGED <<pc, source, comp, linked, runs, tracked, syncing, crashes, syncs>>
  BY DEF Conflict, At, InHand, Marking, tasks, bounds
<1> QED BY <1>0, <1>1, RetryFacts, Processed

LEMMA RefusedStep ==
    ASSUME Inv, NEW f \in Intent, Refused(f)
    PROVE  Inv'
<1>0. TypeOK
  BY DEF Inv
<1>1. /\ monitor.at = "due" /\ InHand(f) /\ GoOn(monitor.left \ {f})
      /\ Put(f, "FAILED", "TASK_REJECTED")
      /\ UNCHANGED <<pc, source, comp, linked, runs, tracked, syncing, crashes, syncs>>
  BY DEF Refused, At, InHand, tasks, bounds
<1>2. attempts' \in [Intent -> 0..MaxAttempts] /\ "FAILED" \in RowStates
  BY <1>0, <1>1 DEF Put, TypeOK, RowStates, Final
<1> QED BY <1>0, <1>1, <1>2, PutFacts, Processed

LEMMA RetryOrFailFacts ==
    ASSUME TypeOK, NEW f \in Intent, RetryOrFail(f)
    PROVE  /\ \E to \in {"PENDING", "FAILED"} : state' = [state EXCEPT ![f] = to]
           /\ ready' \subseteq Intent /\ attempts' \in [Intent -> 0..MaxAttempts]
           /\ log' \in [Intent -> SUBSET Disturbances]
           /\ \A g \in Intent : log[g] \subseteq log'[g]
           /\ "SUBMIT_EXCEPTION" \in log'[f]
<1>1. "SUBMIT_EXCEPTION" \in Disturbances /\ "FAILED" \in RowStates
  BY DEF Disturbances, RowStates, Final
<1>2. CASE Put(f, "FAILED", "SUBMIT_EXCEPTION")
  <2>1. attempts' \in [Intent -> 0..MaxAttempts]
    BY <1>2 DEF Put, TypeOK
  <2> QED BY <1>1, <1>2, <2>1, PutFacts
<1>3. CASE Retry(f, "SUBMIT_EXCEPTION")
  BY <1>1, <1>3, RetryFacts
<1> QED BY <1>2, <1>3 DEF RetryOrFail

LEMMA SubmitRaisesStep ==
    ASSUME Inv, NEW f \in Intent, SubmitRaises(f)
    PROVE  Inv'
<1>0. TypeOK
  BY DEF Inv
<1>1. /\ monitor.at = "due" /\ InHand(f) /\ GoOn(monitor.left \ {f}) /\ RetryOrFail(f)
      /\ UNCHANGED <<pc, source, comp, linked, runs, tracked, syncing, crashes, syncs>>
  BY DEF SubmitRaises, At, InHand, tasks, bounds
<1> QED BY <1>0, <1>1, RetryOrFailFacts, Processed

LEMMA MarkRaisesStep ==
    ASSUME Inv, MarkRaises
    PROVE  Inv'
<1>0. TypeOK
  BY DEF Inv
<1> DEFINE f == monitor.row
<1>1. /\ monitor.at = "mark" /\ GoOn(monitor.left) /\ RetryOrFail(f)
      /\ UNCHANGED <<pc, source, comp, linked, runs, tracked, syncing, crashes, syncs>>
  BY DEF MarkRaises, tasks, bounds
<1>2. f \in Intent /\ monitor.left \in SUBSET Intent
  BY <1>0, <1>1 DEF TypeOK
<1>3. Marking(f)
  BY <1>1 DEF Marking
<1>4. f \notin monitor.left
  BY <1>1, <1>2, <1>3 DEF Inv, Good, Held, InHand
<1>5. monitor.left \ {f} = monitor.left
  BY <1>4
<1> HIDE DEF f
<1> QED BY <1>0, <1>1, <1>2, <1>3, <1>5, RetryOrFailFacts, Processed

LEMMA MarkStep ==
    ASSUME Inv, Mark
    PROVE  Inv'
<1>0. TypeOK
  BY DEF Inv
<1> DEFINE f == monitor.row
<1>1. /\ monitor.at = "mark" /\ GoOn(monitor.left) /\ Put(f, "SUBMITTED", "SUBMITTED")
      /\ linked' = linked \cup {f} /\ tracked' = tracked \cup {<<"comp", f>>}
      /\ UNCHANGED <<pc, source, comp, runs, syncing, crashes, syncs>>
  BY DEF Mark, bounds
<1>2. f \in Intent /\ monitor.left \in SUBSET Intent
  BY <1>0, <1>1 DEF TypeOK
<1>3. Marking(f)
  BY <1>1 DEF Marking
<1> HIDE DEF f
<1>4. /\ state' = [state EXCEPT ![f] = "SUBMITTED"] /\ state' \in [Intent -> RowStates]
      /\ ready' \subseteq Intent /\ attempts' = attempts
      /\ log' \in [Intent -> SUBSET Disturbances]
      /\ \A g \in Intent : log[g] \subseteq log'[g]
  BY <1>0, <1>1, <1>2, PutFacts DEF RowStates
<1>5. /\ monitor' \in Monitors /\ monitor'.at \in {"visit", "due"}
      /\ monitor'.left = monitor.left
  BY <1>1, <1>2, GoOnFacts
<1>6. TypeOK'
  BY <1>0, <1>1, <1>2, <1>4, <1>5 DEF TypeOK, Monitors, Task
<1>7. ASSUME NEW g \in Intent PROVE Good(g)'
  <2>0. Good(g) /\ state \in [Intent -> RowStates]
    BY <1>0 DEF Inv, TypeOK
  <2> DEFINE done == <<"source", g>>
             watched == <<"comp", g>>
  <2>a. /\ done \in tracked' => done \in tracked
        /\ watched \in tracked => watched \in tracked'
        /\ f = g => watched \in tracked'
    BY <1>1
  <2> HIDE DEF done, watched
  <2>1. InStep(g)'
    BY <1>1, <1>3, <1>4, <1>5, <2>0, <2>a DEF Good, InStep, Held, Marking, done
  <2>2. Held(g)'
    BY <1>1, <1>3, <1>4, <1>5, <2>0 DEF Good, Held, InHand, Marking
  <2>3. Counted(g)'
    BY <1>1, <1>3, <1>4, <1>5, <2>0 DEF Good, Held, Counted, InHand, Marking, MayRerun
  <2>4. Due(g)'
    BY <1>1, <1>3, <1>4, <1>5, <2>0 DEF Good, Held, Due, InHand, Marking, Unsure
  <2>5. Watched(g)'
    BY <1>1, <1>3, <1>4, <1>5, <2>0, <2>a DEF Good, Watched, watched
  <2> QED BY <2>1, <2>2, <2>3, <2>4, <2>5 DEF Good
<1> QED BY <1>6, <1>7 DEF Inv

LEMMA AcceptedStep ==
    ASSUME Inv, NEW f \in Intent, Accepted(f)
    PROVE  Inv'
<1>0. TypeOK
  BY DEF Inv
<1>1. /\ monitor.at = "due" /\ f \in monitor.left
      /\ comp' = [comp EXCEPT ![f] = "live"] /\ linked' = linked \ {f}
      /\ runs' = [runs EXCEPT ![f] = IF @ < 2 THEN @ + 1 ELSE @]
      /\ monitor' = [at |-> "mark", row |-> f, left |-> monitor.left \ {f}]
      /\ UNCHANGED <<state, ready, attempts, log, pc, source, tracked, syncing, crashes, syncs>>
  BY DEF Accepted, At, rows, bounds
<1>2. monitor.left \in SUBSET Intent /\ runs \in [Intent -> 0..2]
  BY <1>0, <1>1 DEF TypeOK
<1>3. /\ monitor' \in Monitors /\ monitor'.at = "mark" /\ monitor'.row = f
      /\ monitor'.left = monitor.left \ {f}
  BY <1>1, <1>2 DEF Monitors
<1>4. runs' \in [Intent -> 0..2]
  BY <1>1, <1>2
<1>5. TypeOK'
  BY <1>0, <1>1, <1>3, <1>4 DEF TypeOK, Monitors, TaskStates
<1>6. ASSUME NEW g \in Intent PROVE Good(g)'
  <2>0. Good(g)
    BY DEF Inv
  <2>a. /\ runs'[g] = runs[g] \/ f = g
        /\ runs[g] = 0 => runs'[g] \in {0, 1}
    BY <1>1, <1>2
  <2>b. UNCHANGED <<state, log, pc, source, tracked>> /\ monitor.at = "due" /\ f \in monitor.left
    BY <1>1
  <2>1. InStep(g)'
    BY <1>3, <2>0, <2>b DEF Good, InStep
  <2>2. Held(g)'
    BY <1>3, <2>0, <2>b DEF Good, Held, InHand, Marking
  <2>3. Counted(g)'
    <3>1. runs'[g] > 1 => MayRerun(g)
      BY <2>0, <2>a, <2>b, <1>2 DEF Good, Counted, InHand, Marking
    <3> QED BY <1>3, <2>0, <2>a, <2>b, <3>1 DEF Good, Counted, InHand, Marking, MayRerun
  <2>4. Due(g)'
    BY <1>3, <2>0, <2>b DEF Good, Due, InHand, Marking, Unsure
  <2>5. Watched(g)'
    BY <1>1, <1>3, <2>0, <2>b DEF Good, Held, InHand, Watched
  <2> QED BY <2>1, <2>2, <2>3, <2>4, <2>5 DEF Good
<1> QED BY <1>5, <1>6 DEF Inv

LEMMA ClaimDueStep ==
    ASSUME Inv, ClaimDue
    PROVE  Inv'
<1>0. TypeOK
  BY DEF Inv
<1> DEFINE due == {f \in ready : state[f] \in {"PENDING", "CLAIMED"}}
<1>1. /\ monitor = Visiting /\ due \subseteq Intent /\ ready' = ready \ due
      /\ state' = [f \in Intent |-> IF f \in due THEN "CLAIMED" ELSE state[f]]
      /\ monitor' = [at |-> "due", left |-> due]
      /\ \A f \in due : state[f] \in {"PENDING", "CLAIMED"}
      /\ UNCHANGED <<attempts, log, pc, source, comp, linked, runs, tracked, syncing, crashes, syncs>>
  BY <1>0 DEF ClaimDue, tasks, bounds, TypeOK
<1> HIDE DEF due
<1>2. /\ monitor' \in Monitors /\ monitor'.at = "due" /\ monitor'.left = due
      /\ monitor.at = "visit" /\ monitor.left = {}
  BY <1>1 DEF Monitors, Visiting
<1>3. state' \in [Intent -> RowStates]
  BY <1>0, <1>1 DEF TypeOK, RowStates
<1>4. TypeOK'
  BY <1>0, <1>1, <1>2, <1>3 DEF TypeOK, Monitors
<1>5. ASSUME NEW g \in Intent PROVE Good(g)'
  <2>0. Good(g)
    BY DEF Inv
  <2>a. UNCHANGED <<log, pc, source, linked, runs, tracked>>
    BY <1>1
  <2>b. /\ g \in due => state[g] \in {"PENDING", "CLAIMED"} /\ state'[g] = "CLAIMED"
        /\ g \notin due => state'[g] = state[g]
    BY <1>1
  <2>1. InStep(g)'
    BY <1>2, <2>0, <2>a, <2>b DEF Good, InStep
  <2>2. Held(g)'
    <3>1. ~Marking(g)' /\ (InHand(g)' => g \in due)
      BY <1>2 DEF InHand, Marking
    <3> QED BY <2>b, <3>1 DEF Held
  <2>3. Counted(g)'
    BY <1>2, <2>0, <2>a, <2>b DEF Good, Counted, InHand, Marking, MayRerun
  <2>4. Due(g)'
    BY <1>2, <2>0, <2>a, <2>b DEF Good, Due, InHand, Marking, Unsure
  <2>5. Watched(g)'
    BY <1>2, <2>0, <2>a, <2>b DEF Good, Watched
  <2> QED BY <2>1, <2>2, <2>3, <2>4, <2>5 DEF Good
<1> QED BY <1>4, <1>5 DEF Inv

LEMMA MonitorFailsStep ==
    ASSUME Inv, MonitorFails
    PROVE  Inv'
<1>0. TypeOK
  BY DEF Inv
<1>1. /\ monitor.at = "due" \/ ("settle_error" \in Faults /\ monitor.at = "settle")
      /\ monitor' = Visiting
      /\ UNCHANGED <<state, ready, attempts, log, pc, source, comp, linked, runs, tracked, syncing,
                    crashes, syncs>>
  <2>1. monitor.at = "due" \/ ("settle_error" \in Faults /\ monitor.at = "settle")
    BY DEF MonitorFails
  <2> QED BY <2>1 DEF MonitorFails, rows, tasks, bounds
<1>2. monitor' \in Monitors /\ monitor'.at = "visit" /\ monitor'.left = {}
  BY <1>1 DEF Monitors, Visiting
<1>3. TypeOK'
  BY <1>0, <1>1, <1>2 DEF TypeOK, Monitors
<1>4. ASSUME NEW g \in Intent PROVE Good(g)'
  <2>0. Good(g)
    BY DEF Inv
  <2>1. InStep(g)'
    BY <1>1, <1>2, <2>0 DEF Good, InStep
  <2>2. Held(g)'
    BY <1>1, <1>2, <2>0 DEF Good, Held, InHand, Marking
  <2>3. Counted(g)'
    BY <1>1, <1>2, <2>0 DEF Good, Counted, InHand, Marking, MayRerun
  <2>4. Due(g)'
    BY <1>1, <1>2, <2>0 DEF Good, Due, InHand, Marking, Unsure
  <2>5. Watched(g)'
    BY <1>1, <1>2, <2>0 DEF Good, Watched
  <2> QED BY <2>1, <2>2, <2>3, <2>4, <2>5 DEF Good
<1> QED BY <1>3, <1>4 DEF Inv

LEMMA SettleStep ==
    ASSUME Inv, Settle
    PROVE  Inv'
<1>0. TypeOK
  BY DEF Inv
<1> DEFINE f == monitor.task[2]
           waits == monitor.task[1] = "source" /\ state[f] = "WAITING_SOURCE"
           submitted == monitor.task[1] = "comp" /\ state[f] = "SUBMITTED" /\ f \in linked
<1>1. /\ monitor.at = "settle" /\ monitor' = Visiting
      /\ UNCHANGED <<pc, source, comp, linked, runs, tracked, syncing, crashes, syncs>>
      /\ \/ /\ waits
            /\ state' = [state EXCEPT ![f] = IF source[f] = "stopped" THEN "CANCELLED"
                                             ELSE "PENDING"]
            /\ ready' = IF source[f] = "stopped" THEN ready \ {f} ELSE ready \cup {f}
            /\ UNCHANGED <<attempts, log>>
         \/ /\ submitted
            /\ Put(f, "COMPLETED", "COMPLETED") \/ Put(f, "FAILED", "TASK_FAILED")
         \/ ~waits /\ ~submitted /\ UNCHANGED <<state, ready, attempts, log>>
  BY DEF Settle, rows, tasks, bounds
<1>2. monitor.task \in Task /\ f \in Intent
  BY <1>0, <1>1 DEF TypeOK, Task
<1>3. monitor.task[1] = "source" => monitor.task = <<"source", f>>
  BY <1>2 DEF Task
<1>4. \A g \in Intent : monitor.task = <<"comp", g>> => monitor.task[1] = "comp" /\ f = g
  OBVIOUS
<1>5. waits => source[f] \in {"ended", "stopped"}
  BY <1>1, <1>2, <1>3 DEF Inv, Good, InStep
<1>6. /\ monitor' \in Monitors /\ monitor'.at = "visit" /\ monitor'.left = {}
  BY <1>1 DEF Monitors, Visiting
<1>7. state \in [Intent -> RowStates] /\ ready \subseteq Intent
  BY <1>0 DEF TypeOK
<1>8. /\ \/ /\ waits
            /\ \/ state' = [state EXCEPT ![f] = "CANCELLED"]
               \/ state' = [state EXCEPT ![f] = "PENDING"] /\ source[f] = "ended"
         \/ /\ submitted
            /\ \/ state' = [state EXCEPT ![f] = "COMPLETED"]
               \/ state' = [state EXCEPT ![f] = "FAILED"]
         \/ ~submitted /\ state' = state
      /\ state' \in [Intent -> RowStates] /\ ready' \subseteq Intent
      /\ attempts' = attempts /\ log' \in [Intent -> SUBSET Disturbances]
      /\ \A g \in Intent : log[g] \subseteq log'[g]
  <2>0. /\ {"COMPLETED", "FAILED", "CANCELLED", "PENDING"} \subseteq RowStates
        /\ log \in [Intent -> SUBSET Disturbances]
    BY <1>0 DEF RowStates, Final, TypeOK
  <2>1. CASE waits /\ UNCHANGED <<attempts, log>>
             /\ state' = [state EXCEPT ![f] = IF source[f] = "stopped" THEN "CANCELLED"
                                              ELSE "PENDING"]
             /\ ready' = IF source[f] = "stopped" THEN ready \ {f} ELSE ready \cup {f}
    BY <1>2, <1>5, <1>7, <2>0, <2>1
  <2>2. CASE submitted /\ Put(f, "COMPLETED", "COMPLETED")
    <3> HIDE DEF f, submitted
    <3> QED BY <1>0, <1>2, <2>0, <2>2, PutFacts
  <2>3. CASE submitted /\ Put(f, "FAILED", "TASK_FAILED")
    <3> HIDE DEF f, submitted
    <3> QED BY <1>0, <1>2, <2>0, <2>3, PutFacts
  <2>4. CASE ~waits /\ ~submitted /\ UNCHANGED <<state, ready, attempts, log>>
    BY <1>7, <2>0, <2>4
  <2> HIDE DEF f, waits, submitted
  <2> QED BY <1>1, <2>1, <2>2, <2>3, <2>4
<1>9. TypeOK'
  BY <1>0, <1>1, <1>6, <1>8 DEF TypeOK, Monitors
<1>10. ASSUME NEW g \in Intent PROVE Good(g)'
  <2>0. Good(g)
    BY DEF Inv
  <2> DEFINE watched == <<"comp", g>>
  <2>a. monitor.task = watched /\ state[g] = "SUBMITTED" /\ g \in linked => submitted /\ f = g
    BY <1>4
  <2>b. UNCHANGED <<pc, source, linked, runs, tracked>> /\ monitor.at = "settle"
    BY <1>1
  <2>c. f # g => state'[g] = state[g]
    BY <1>7, <1>8
  <2>d. f = g => \/ waits /\ state'[g] = "CANCELLED"
                 \/ waits /\ state'[g] = "PENDING" /\ source[g] = "ended"
                 \/ submitted /\ state'[g] \in {"COMPLETED", "FAILED"}
                 \/ ~submitted /\ state'[g] = state[g]
    BY <1>2, <1>7, <1>8
  <2>e. /\ f = g /\ waits => state[g] = "WAITING_SOURCE"
        /\ f = g /\ submitted => state[g] = "SUBMITTED"
    OBVIOUS
  <2>f. log[g] \subseteq log'[g]
    BY <1>8
  <2> HIDE DEF f, waits, submitted, watched
  <2>1. InStep(g)'
    BY <1>6, <2>0, <2>b, <2>c, <2>d, <2>e DEF Good, InStep
  <2>2. Held(g)'
    BY <1>6 DEF Held, InHand, Marking
  <2>3. Counted(g)'
    BY <1>6, <2>0, <2>b, <2>c, <2>d, <2>e, <2>f DEF Good, Counted, InHand, Marking, MayRerun
  <2>4. Due(g)'
    BY <1>6, <2>0, <2>b, <2>c, <2>d, <2>e, <2>f DEF Good, Due, InHand, Marking, Unsure
  <2>5. Watched(g)'
    BY <1>6, <2>0, <2>a, <2>b, <2>c, <2>d, <2>e DEF Good, Watched, watched
  <2> QED BY <2>1, <2>2, <2>3, <2>4, <2>5 DEF Good
<1> QED BY <1>9, <1>10 DEF Inv

LEMMA CrashStep ==
    ASSUME Inv, Crash
    PROVE  Inv'
<1>0. TypeOK
  BY DEF Inv
<1> DEFINE open == {f \in Intent : Recovers(f)}
           dies(s) == IF s = "live" THEN "killed" ELSE s
<1>1. /\ state' = [f \in Intent |-> IF f \in open THEN "PENDING" ELSE state[f]]
      /\ ready' = ready \cup open
      /\ log' = [f \in Intent |-> IF f \in open THEN log[f] \cup {"RECOVERED"} ELSE log[f]]
      /\ linked' = linked \ open
      /\ source' = [f \in Intent |-> dies(source[f])]
      /\ comp' = [f \in Intent |-> dies(comp[f])]
      /\ pc' = [f \in Intent |-> IF pc[f] = "idle" THEN "idle" ELSE "over"]
      /\ tracked' = {} /\ monitor' = Visiting /\ syncing' = FALSE
      /\ UNCHANGED <<attempts, runs, syncs>>
  BY DEF Crash
<1>2. monitor' \in Monitors /\ monitor'.at = "visit" /\ monitor'.left = {}
  BY <1>1 DEF Monitors, Visiting
<1>3. TypeOK'
  <2>1. state' \in [Intent -> RowStates]
    BY <1>0, <1>1 DEF TypeOK, RowStates
  <2>2. log' \in [Intent -> SUBSET Disturbances]
    BY <1>0, <1>1 DEF TypeOK, Disturbances
  <2>3. source' \in [Intent -> TaskStates] /\ comp' \in [Intent -> TaskStates]
    BY <1>0, <1>1 DEF TypeOK, TaskStates
  <2>4. pc' \in [Intent -> Places]
    BY <1>0, <1>1 DEF TypeOK, Places
  <2>5. crashes' \in 0..MaxCrashes
    BY <1>0 DEF TypeOK, Crash
  <2>6. /\ ready' \subseteq Intent /\ linked' \subseteq Intent /\ tracked' \subseteq Task
        /\ runs' \in [Intent -> 0..2] /\ attempts' \in [Intent -> 0..MaxAttempts]
        /\ syncs' \in 0..MaxSyncs
    BY <1>0, <1>1 DEF TypeOK
  <2>7. syncing' \in BOOLEAN
    BY <1>1
  <2> QED BY ONLY <1>2, <2>1, <2>2, <2>3, <2>4, <2>5, <2>6, <2>7 DEF TypeOK, Monitors, Places
<1>4. ASSUME NEW g \in Intent PROVE Good(g)'
  <2>0. Good(g)
    BY DEF Inv
  <2>a. /\ g \in open => state'[g] = "PENDING" /\ "RECOVERED" \in log'[g]
        /\ g \notin open => state'[g] = state[g] /\ log'[g] = log[g] /\ (g \in linked => g \in linked')
        /\ pc'[g] = IF pc[g] = "idle" THEN "idle" ELSE "over"
        /\ source[g] # "live" => source'[g] = source[g]
        /\ runs'[g] = runs[g] /\ tracked' = {}
    BY <1>1
  <2>b. /\ state[g] \in {"REGISTERING", "WAITING_SOURCE", "CLAIMED", "SUBMITTED"} <=> g \in open
    BY DEF Recovers
  <2> HIDE DEF open, dies
  <2>1. InStep(g)'
    BY <1>2, <2>0, <2>a, <2>b DEF Good, InStep
  <2>2. Held(g)'
    BY <1>2 DEF Held, InHand, Marking
  <2>3. Counted(g)'
    BY <1>2, <2>0, <2>a, <2>b DEF Good, Held, Counted, InHand, Marking, MayRerun
  <2>4. Due(g)'
    BY <1>2, <2>0, <2>a, <2>b DEF Good, Due, InHand, Marking, Unsure
  <2>5. Watched(g)'
    BY <2>a, <2>b DEF Watched
  <2> QED BY <2>1, <2>2, <2>3, <2>4, <2>5 DEF Good
<1> QED BY <1>3, <1>4 DEF Inv

-----------------------------------------------------------------------------
(* The theorems.                                                           *)

LEMMA InitGood ==
    Init => Inv
<1> SUFFICES ASSUME Init PROVE Inv
  OBVIOUS
<1>1. TypeOK
  <2>1. monitor \in Monitors
    BY DEF Init, Visiting, Monitors
  <2>2. /\ state \in [Intent -> RowStates] /\ log \in [Intent -> SUBSET Disturbances]
        /\ pc \in [Intent -> Places] /\ source \in [Intent -> TaskStates]
        /\ comp \in [Intent -> TaskStates]
    BY DEF Init, RowStates, TaskStates, Places
  <2>3. /\ ready \subseteq Intent /\ linked \subseteq Intent /\ tracked \subseteq Task
        /\ attempts \in [Intent -> 0..MaxAttempts] /\ runs \in [Intent -> 0..2]
        /\ crashes \in 0..MaxCrashes /\ syncs \in 0..MaxSyncs
    BY DEF Init
  <2>4. syncing \in BOOLEAN
    BY DEF Init
  <2> QED BY ONLY <2>1, <2>2, <2>3, <2>4 DEF TypeOK, Monitors, Places
<1>2. ASSUME NEW g \in Intent PROVE Good(g)
  BY DEF Init, Good, InStep, Held, Counted, Due, Watched, InHand, Marking, Visiting
<1> QED BY <1>1, <1>2 DEF Inv

\* Every step keeps the invariant.
LEMMA NextGood ==
    Inv /\ [Next]_vars => Inv'
<1> SUFFICES ASSUME Inv, [Next]_vars PROVE Inv'
  OBVIOUS
<1>1. ASSUME NEW f \in Intent, Register(f) \/ Proceed(f) PROVE Inv'
  BY <1>1, RegisterStep, SourceAcceptedStep, SourceRefusedStep, SourceRaisesStep, BindSourceStep,
     TrackStep, ReturnStep, LateErrorStep DEF Proceed
<1>2. ASSUME NEW f \in Intent, Lapse(f) \/ SourceEnds(f) \/ CompensationEnds(f) PROVE Inv'
  BY <1>2, LapseStep, SourceEndsStep, CompensationEndsStep
<1>3. ASSUME NEW f \in Intent, Process(f) PROVE Inv'
  BY <1>3, ConflictStep, AcceptedStep, RefusedStep, SubmitRaisesStep DEF Process
<1>4. CASE Monitor
  BY <1>3, <1>4, ObserveStep, SettleStep, ClaimDueStep, MarkStep, MarkRaisesStep, MonitorFailsStep
     DEF Monitor
<1>5. CASE UNCHANGED vars
  <2>1. UNCHANGED <<state, ready, attempts, log, pc, source, comp, linked, tracked, monitor,
                    syncing, runs, crashes, syncs>>
    BY <1>5 DEF vars
  <2> QED BY <2>1 DEF Inv, TypeOK, Good, InStep, Held, Counted, Due, Watched, InHand, Marking,
                      MayRerun, Unsure
<1> QED BY <1>1, <1>2, <1>4, <1>5, SyncStep, CrashStep DEF Next

\* The invariant the other theorems rest on: what the row, invoke, the monitor
\* and the controller's tasks know of one intent.
THEOREM Invariance == Spec => []Inv
<1> QED BY InitGood, NextGood, PTL DEF Spec

\* Every variable keeps the values it is declared for.
THEOREM TypeCorrect == Spec => []TypeOK
<1>1. Inv => TypeOK
  BY DEF Inv
<1> QED BY <1>1, Invariance, PTL

\* One intent is compensated once, whatever fails, unless a restart or a
\* failed submission hid the accepted task.
THEOREM Once == Spec => []CompensatedOnce
<1>1. Inv => CompensatedOnce
  BY DEF Inv, Good, Counted, MayRerun, CompensatedOnce
<1> QED BY <1>1, Invariance, PTL

\* A submitted compensation is watched to its end, as long as activating and
\* completing rows never fails.
THEOREM IsWatched ==
    ASSUME "settle_error" \notin Faults
    PROVE  Spec => []SubmittedIsWatched
<1>1. Inv => SubmittedIsWatched
  BY DEF Inv, Good, Watched, SubmittedIsWatched
<1> QED BY <1>1, Invariance, PTL

\* No step forgets how a row was disturbed.
LEMMA LogGrows ==
    ASSUME Inv, Next, NEW f \in Intent
    PROVE  log[f] \subseteq log'[f]
<1>0. TypeOK /\ {"FAILED", "CANCELLED", "SUBMITTED", "COMPLETED"} \subseteq RowStates
  BY DEF Inv, RowStates, Final
<1>1. ASSUME NEW g \in Intent, NEW outcome, Note(g, outcome) PROVE log[f] \subseteq log'[f]
  BY <1>0, <1>1, NoteFacts
<1>2. CASE UNCHANGED log
  BY <1>2
<1>3. ASSUME NEW g \in Intent,
             Register(g) \/ Proceed(g) \/ Lapse(g) \/ SourceEnds(g) \/ CompensationEnds(g)
      PROVE  log[f] \subseteq log'[f]
  BY <1>1, <1>2, <1>3
     DEF Register, Proceed, SourceAccepted, SourceRefused, SourceRaises, BindSource, Track, Return,
         LateError, Lapse, SourceEnds, CompensationEnds, Put, Retry, rows
<1>4. ASSUME NEW g \in Intent, Process(g) PROVE log[f] \subseteq log'[f]
  BY <1>1, <1>2, <1>4
     DEF Process, Conflict, Accepted, Refused, SubmitRaises, RetryOrFail, Put, Retry, rows
<1>5. CASE Mark \/ MarkRaises
  <2>1. monitor.row \in Intent
    BY <1>0, <1>5 DEF Mark, MarkRaises, TypeOK
  <2> QED BY <1>1, <1>5, <2>1 DEF Mark, MarkRaises, RetryOrFail, Put, Retry
<1>6. CASE Settle
  <2>1. monitor.task[2] \in Intent
    BY <1>0, <1>6 DEF Settle, TypeOK, Task
  <2> QED BY <1>1, <1>2, <1>6, <2>1 DEF Settle, Put, rows
<1>7. CASE ClaimDue \/ MonitorFails \/ (\E k \in Task : Observe(k)) \/ UserSync \/ UserSyncEnds
  BY <1>2, <1>7 DEF ClaimDue, MonitorFails, Observe, UserSync, UserSyncEnds, rows
<1>8. CASE Crash
  BY <1>8 DEF Crash
<1> QED BY <1>3, <1>4, <1>5, <1>6, <1>7, <1>8 DEF Next, Monitor

\* Where a compensation starts, or a row that is final changes.
LEMMA StepTells ==
    ASSUME Inv, Next, NEW f \in Intent
    PROVE  /\ comp'[f] = "live" /\ comp[f] # "live" => source[f] = "ended" \/ Unsure(f)
           /\ state[f] \in Final /\ state'[f] # state[f] => "SOURCE_SUBMIT_FAILED" \in log'[f]
<1> DEFINE Starts == comp'[f] = "live" /\ comp[f] # "live"
           Changes == state[f] \in Final /\ state'[f] # state[f]
           Failed == "SOURCE_SUBMIT_FAILED" \in log'[f]
<1>0. /\ TypeOK /\ Good(f) /\ comp \in [Intent -> TaskStates] /\ state \in [Intent -> RowStates]
      /\ log \in [Intent -> SUBSET Disturbances]
  BY DEF Inv, TypeOK
<1>f. "SOURCE_SUBMIT_FAILED" \in Disturbances /\ Final \subseteq RowStates
  BY DEF Disturbances, RowStates
<1>1. ASSUME NEW g \in Intent, Register(g) \/ Proceed(g) PROVE ~Starts /\ (Changes => Failed)
  <2>1. UNCHANGED comp
    BY <1>1 DEF Register, Proceed, SourceAccepted, SourceRefused, SourceRaises, BindSource, Track,
                Return, LateError, tasks
  <2>2. CASE Register(g) \/ SourceAccepted(g) \/ Track(g) \/ Return(g)
    <3>1. CASE Register(g)
      <4>1. state[g] = "NONE"
        BY <3>1 DEF Register, Inv, Good, InStep
      <4> QED BY <1>0, <2>1, <3>1, <4>1 DEF Register, Final
    <3>2. CASE ~Register(g)
      BY <2>1, <2>2, <3>2 DEF SourceAccepted, Track, Return, rows
    <3> QED BY <3>1, <3>2
  <2>3. CASE SourceRefused(g)
    <3>1. state[g] = "REGISTERING"
      BY <2>3 DEF SourceRefused, Inv, Good, InStep
    <3>2. g # f => state'[f] = state[f]
      BY <1>0, <2>3 DEF SourceRefused, Put
    <3> QED BY <2>1, <3>1, <3>2 DEF Final
  <2>4. CASE SourceRaises(g) \/ LateError(g)
    <3>1. Put(g, "FAILED", "SOURCE_SUBMIT_FAILED")
      BY <2>4 DEF SourceRaises, LateError
    <3>2. g = f => Failed
      BY <1>0, <1>f, <3>1, PutFacts DEF Final
    <3>3. g # f => state'[f] = state[f]
      BY <1>0, <3>1 DEF Put
    <3> QED BY <2>1, <3>2, <3>3
  <2>5. CASE BindSource(g)
    <3>1. state[g] = "REGISTERING"
      BY <2>5 DEF BindSource, Inv, Good, InStep
    <3>2. g # f => state'[f] = state[f]
      BY <1>0, <2>5 DEF BindSource, Retry
    <3> QED BY <2>1, <3>1, <3>2 DEF Final
  <2> QED BY <1>1, <2>2, <2>3, <2>4, <2>5, <2>1 DEF Proceed
<1>2. ASSUME NEW g \in Intent, Lapse(g) \/ SourceEnds(g) \/ CompensationEnds(g)
      PROVE  ~Starts /\ ~Changes
  <2>1. UNCHANGED state
    BY <1>2 DEF Lapse, SourceEnds, CompensationEnds, rows
  <2>2. CASE Lapse(g) \/ SourceEnds(g)
    BY <2>1, <2>2 DEF Lapse, SourceEnds, tasks
  <2>3. CASE CompensationEnds(g)
    BY <1>0, <2>1, <2>3 DEF CompensationEnds
  <2> QED BY <1>2, <2>2, <2>3
\* What the monitor does with a row in its hand.
<1>h. ASSUME InHand(f) \/ Marking(f) PROVE Changes => Failed
  <2>1. state[f] \in Final => "SOURCE_SUBMIT_FAILED" \in log[f]
    BY <1>0, <1>h DEF Good, Held, Final
  <2>2. log[f] \subseteq log'[f]
    BY LogGrows
  <2> QED BY <2>1, <2>2
<1>3. ASSUME NEW g \in Intent, Process(g)
      PROVE  (Starts => source[f] = "ended" \/ Unsure(f)) /\ (Changes => Failed)
  <2>1. InHand(g)
    BY <1>3 DEF Process, Conflict, Accepted, Refused, SubmitRaises, At, InHand
  <2>2. g # f => ~Changes
    BY <1>0, <1>3 DEF Process, Conflict, Accepted, Refused, SubmitRaises, RetryOrFail, Put, Retry, rows
  <2>3. g # f => ~Starts
    BY <1>0, <1>3 DEF Process, Conflict, Accepted, Refused, SubmitRaises, tasks
  <2>4. g = f => source[f] = "ended" \/ Unsure(f)
    BY <1>0, <2>1 DEF Good, Due
  <2> QED BY <1>h, <2>1, <2>2, <2>3, <2>4
<1>4. CASE Monitor
  <2>1. CASE Mark \/ MarkRaises
    <3> DEFINE g == monitor.row
    <3>0. g \in Intent /\ Marking(g)
      BY <1>0, <2>1 DEF Mark, MarkRaises, TypeOK, Marking
    <3>1. UNCHANGED comp
      BY <2>1 DEF Mark, MarkRaises, tasks
    <3>2. g # f => ~Changes
      BY <1>0, <2>1 DEF Mark, MarkRaises, RetryOrFail, Put, Retry
    <3> HIDE DEF g
    <3> QED BY <1>h, <3>0, <3>1, <3>2
  <2>2. CASE MonitorFails \/ (\E k \in Task : Observe(k))
    BY <2>2 DEF MonitorFails, Observe, rows, tasks
  <2>3. CASE ClaimDue
    BY <2>3 DEF ClaimDue, tasks, Final
  <2>4. CASE Settle
    <3> DEFINE g == monitor.task[2]
    <3>1. UNCHANGED comp
      BY <2>4 DEF Settle, tasks
    <3>2. g # f => ~Changes
      BY <1>0, <2>4 DEF Settle, Put, rows
    <3>3. state[g] \in Final => UNCHANGED state
      BY <2>4 DEF Settle, Final, rows
    <3> HIDE DEF g
    <3> QED BY <3>1, <3>2, <3>3
  <2> QED BY <1>3, <1>4, <2>1, <2>2, <2>3, <2>4 DEF Monitor
<1>5. CASE UserSync \/ UserSyncEnds
  BY <1>5 DEF UserSync, UserSyncEnds, rows, tasks
<1>6. CASE Crash
  BY <1>0, <1>6 DEF Crash, Recovers, Final
<1> QED
  <2>1. Starts => source[f] = "ended" \/ Unsure(f)
    BY <1>1, <1>2, <1>3, <1>4, <1>5, <1>6 DEF Next
  <2>2. Changes => Failed
    BY <1>1, <1>2, <1>3, <1>4, <1>5, <1>6 DEF Next
  <2> QED BY <2>1, <2>2

\* A compensation starts only after a scan that ended by itself, whatever
\* fails, unless the row lost its source to an error or a restart.
THEOREM Ended == Spec => CompensatesEndedSource
<1>1. Inv /\ [Next]_vars => [\A f \in Intent :
          comp'[f] = "live" /\ comp[f] # "live"
              => \/ source[f] = "ended"
                 \/ log[f] \cap {"SOURCE_BIND_RETRY", "RECOVERED"} # {}]_vars
  BY StepTells DEF Unsure
<1> QED BY <1>1, Invariance, PTL DEF Spec, CompensatesEndedSource

\* A final row changes only by invoke's own late failure, whatever else fails.
THEOREM Stands == Spec => OutcomeStands
<1>1. Inv /\ [Next]_vars => [\A f \in Intent :
          state[f] \in Final /\ state'[f] # state[f]
              => "SOURCE_SUBMIT_FAILED" \in log'[f]]_vars
  BY StepTells
<1> QED BY <1>1, Invariance, PTL DEF Spec, OutcomeStands
===============================================================================
