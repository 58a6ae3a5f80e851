---------------------------- MODULE ErpMark_proofs ----------------------------
(***************************************************************************)
(* Theorems about ErpMark, for every set of workers and any number of       *)
(* deaths and lapses.  All but the last hold whichever faults may happen;   *)
(* that no request is made twice needs that none of the four does.          *)
(***************************************************************************)
EXTENDS ErpMark, TLAPS

USE WorkersAssumption, MishapsAssumption DEF Steps, Unrepeatable, Ranks

\* A worker asks for a step only while one is left, and a job whose last step is
\* recorded is over and nobody's.
Bounded ==
  /\ \A w \in Workers : rank(w) <= 3
  /\ checkpoint = 4 => state = "DONE"
  /\ state = "DONE" => holder = None

\* What a worker knows of the order is true of it.
Known ==
  /\ \A w \in Workers : rank(w) <= real /\ at[w].note <= real
  /\ \A s \in Steps : net[s] = "done" => s <= real
  /\ \A s \in Unrepeatable : net[s] = "sent" => sent[s] >= 1

\* The holder of the job knows the checkpoint on record and means to raise it.
Current ==
  /\ \A w \in Workers : holder = w => checkpoint = rank(w)
  /\ \A w \in Workers : pc(w) = "record" => at[w].note >= rank(w)
  /\ \A w \in Workers : pc(w) = "readback" => rank(w) = 1

Inv == TypeOK /\ Bounded /\ Known /\ CheckpointIsEarned /\ Current

LEMMA LargestBounds ==
    ASSUME NEW a \in Nat, NEW b \in Nat
    PROVE  Largest(a, b) \in {a, b} /\ Largest(a, b) >= a /\ Largest(a, b) >= b
BY DEF Largest

\* An attempt that notes the step it asked for.
LEMMA NotedType ==
    ASSUME NEW w, at[w] \in Attempts, Step(w) \in Ranks, NEW p \in {"record", "poll"}, NEW b,
           b = [at[w] EXCEPT !.note = Step(w), !.pc = p]
    PROVE  b \in Attempts /\ b.rank = rank(w) /\ b.note = Step(w) /\ b.pc = p
BY DEF Attempts, PcStates, rank

LEMMA IdleType == Idle \in Attempts /\ Idle.rank = 0 /\ Idle.note = 0 /\ Idle.pc = "idle"
BY DEF Idle, Attempts, PcStates

\* Ending an attempt, whoever the job belongs to by now.
LEMMA FinishType ==
    ASSUME Inv, NEW w \in Workers, NEW result \in {"PENDING", "RETRYABLE", "BLOCKED"},
           Finish(w, result),
           UNCHANGED <<checkpoint, source, erp, mishaps>>, intent' \in BOOLEAN
    PROVE  Inv'
<1> USE DEF Inv, TypeOK
<1>1. at' = [at EXCEPT ![w] = Idle] /\ Idle \in Attempts
  BY DEF Finish, Idle, Attempts, PcStates
<1>2. TypeOK'
  BY <1>1 DEF Finish, Bounded, ErpStates, erp
<1>3. Bounded'
  BY <1>1 DEF Finish, Bounded, rank, Idle, erp
<1>4. Known' /\ CheckpointIsEarned'
  BY <1>1 DEF Known, CheckpointIsEarned, rank, Idle, erp
<1>5. Current'
  BY <1>1 DEF Finish, Current, rank, pc, Idle, erp
<1> QED BY <1>2, <1>3, <1>4, <1>5

\* An attempt that moves on without a new lease, a new checkpoint or a step of
\* the ERP.
LEMMA MoveType ==
    ASSUME Inv, NEW w \in Workers, NEW next \in Attempts,
           at' = [at EXCEPT ![w] = next],
           next.rank = rank(w), next.note <= real,
           next.pc = "record" => next.note >= next.rank,
           next.pc = "readback" => next.rank = 1,
           UNCHANGED <<state, checkpoint, source, holder, real, shown, mishaps>>,
           lapsed' \in BOOLEAN, lapsed' => holder # None, intent' \in BOOLEAN,
           net' \in [Steps -> {"none", "sent", "done", "refused"}],
           \A s \in Steps : net'[s] = "done" => s <= real,
           sent' \in [Unrepeatable -> 0..2],
           \A s \in Unrepeatable : net'[s] = "sent" => sent'[s] >= 1
    PROVE  Inv'
<1> USE DEF Inv, TypeOK
<1>1. TypeOK'
  OBVIOUS
<1>2. Bounded'
  BY DEF Bounded, rank
<1>3. Known' /\ CheckpointIsEarned'
  BY DEF Known, CheckpointIsEarned, rank
<1>4. Current'
  BY DEF Current, rank, pc
<1> QED BY <1>1, <1>2, <1>3, <1>4

\* An operator's or the ERP's step, which leaves the attempts alone.
LEMMA StandStill ==
    ASSUME Inv, UNCHANGED <<checkpoint, source, at>>,
           \/ state' = state /\ holder' = holder
           \/ state # "DONE" /\ state' = "RETRYABLE" /\ holder' = None,
           lapsed' \in BOOLEAN, lapsed' => holder' # None, intent' \in BOOLEAN,
           real' \in Ranks, real' >= real, shown' \in 0..real',
           net' \in [Steps -> {"none", "sent", "done", "refused"}],
           \A s \in Steps : net'[s] = "done" => s <= real',
           sent' \in [Unrepeatable -> 0..2],
           \A s \in Unrepeatable : net'[s] = "sent" => sent'[s] >= 1,
           mishaps' \in 0..MaxMishaps
    PROVE  Inv'
<1> USE DEF Inv, TypeOK
<1>1. TypeOK'
  BY DEF ErpStates
<1>2. Bounded' /\ Current'
  BY DEF Bounded, Current, rank, pc
<1>3. Known' /\ CheckpointIsEarned'
  BY DEF Known, CheckpointIsEarned, rank, Attempts
<1> QED BY <1>1, <1>2, <1>3

\* What every attempt satisfies.
LEMMA AttemptFacts ==
    ASSUME Inv, NEW w \in Workers
    PROVE  /\ at[w] \in Attempts /\ rank(w) \in 0..3 /\ rank(w) <= real
           /\ at[w].note \in Ranks /\ at[w].note <= real
           /\ pc(w) = "record" => at[w].note >= rank(w)
           /\ pc(w) = "readback" => rank(w) = 1
           /\ holder = w => checkpoint = rank(w)
           /\ \A s \in Steps : net[s] = "done" => s <= real
BY DEF Inv, TypeOK, Bounded, Known, Current, rank, Attempts

\* A worker's step that touches its attempt only.
LEMMA MoveOn ==
    ASSUME Inv, NEW w \in Workers, NEW next \in Attempts,
           at' = [at EXCEPT ![w] = next],
           next.rank = rank(w), next.note <= real,
           next.pc = "record" => next.note >= next.rank,
           next.pc = "readback" => next.rank = 1,
           UNCHANGED <<queue, erp, mishaps>>
    PROVE  Inv'
<1>1. /\ lapsed' \in BOOLEAN /\ (lapsed' => holder # None) /\ intent' \in BOOLEAN
      /\ net' \in [Steps -> {"none", "sent", "done", "refused"}]
      /\ \A s \in Steps : net'[s] = "done" => s <= real
      /\ sent' \in [Unrepeatable -> 0..2]
      /\ \A s \in Unrepeatable : net'[s] = "sent" => sent'[s] >= 1
  BY DEF queue, erp, Inv, TypeOK, Known
<1>2. UNCHANGED <<state, checkpoint, source, holder, real, shown, mishaps>>
  BY DEF queue, erp
<1> QED BY <1>1, <1>2, MoveType

\* An attempt goes on to another place of its own.
LEMMA GoToType ==
    ASSUME Inv, NEW w \in Workers, NEW where \in PcStates \ {"record", "readback"},
           GoTo(w, where), UNCHANGED <<queue, erp, mishaps>>
    PROVE  Inv'
<1> DEFINE next == [at[w] EXCEPT !.pc = where]
<1>1. next \in Attempts /\ next.rank = rank(w) /\ next.note = at[w].note /\ next.pc = where
  BY AttemptFacts DEF Attempts, rank
<1>2. at' = [at EXCEPT ![w] = next]
  BY DEF GoTo
<1> HIDE DEF next
<1> QED BY <1>1, <1>2, MoveOn, AttemptFacts

\* An attempt means to record a step that has happened.
LEMMA GoRecordType ==
    ASSUME Inv, NEW w \in Workers, NEW r \in Ranks, r <= real, r >= rank(w),
           GoRecord(w, r), UNCHANGED <<queue, erp, mishaps>>
    PROVE  Inv'
<1> DEFINE next == [at[w] EXCEPT !.pc = "record", !.note = r]
<1>1. next \in Attempts /\ next.rank = rank(w) /\ next.note = r /\ next.pc = "record"
  BY AttemptFacts DEF Attempts, rank, PcStates
<1>2. at' = [at EXCEPT ![w] = next]
  BY DEF GoRecord
<1> HIDE DEF next
<1> QED BY <1>1, <1>2, MoveOn, AttemptFacts

LEMMA GiveUpType ==
    ASSUME Inv, NEW w \in Workers, NEW result \in {"PENDING", "RETRYABLE", "BLOCKED"},
           GiveUp(w, result)
    PROVE  Inv'
BY FinishType DEF GiveUp, Inv, TypeOK

\* The steps of one worker.
LEMMA WorkerStep ==
    ASSUME Inv, NEW w \in Workers, Worker(w)
    PROVE  Inv'
<1> USE DEF TypeOK
<1>0. TypeOK
  BY DEF Inv
<1>1. CASE Claim(w)
  <2> DEFINE next == [Idle EXCEPT !.pc = "claimed", !.rank = checkpoint]
  <2>1. state # "DONE" /\ checkpoint \in 0..3
    BY <1>1, <1>0 DEF Claim, Claimable, Inv, Bounded
  <2>2. next \in Attempts /\ next.rank = checkpoint /\ next.note = 0 /\ next.pc = "claimed"
    <3> DEFINE mid == [Idle EXCEPT !.pc = "claimed"]
    <3>1. mid \in Attempts /\ mid.note = 0 /\ mid.pc = "claimed"
      BY IdleType DEF Attempts, PcStates
    <3>2. next = [mid EXCEPT !.rank = checkpoint]
      OBVIOUS
    <3> HIDE DEF mid, next
    <3> QED BY <2>1, <3>1, <3>2 DEF Attempts
  <2>3. at' = [at EXCEPT ![w] = next] /\ holder' = w /\ lapsed' = FALSE
        /\ UNCHANGED <<state, checkpoint, source, intent, real, shown, net, sent, mishaps>>
    BY <1>1 DEF Claim, erp
  <2> HIDE DEF next
  <2>4. TypeOK'
    BY <1>0, <2>2, <2>3
  <2>5. Bounded'
    BY <1>0, <2>1, <2>2, <2>3 DEF Inv, Bounded, rank
  <2>6. Known' /\ CheckpointIsEarned'
    BY <1>0, <2>1, <2>2, <2>3 DEF Inv, Known, CheckpointIsEarned, rank
  <2>7. Current'
    BY <1>0, <2>1, <2>2, <2>3 DEF Inv, Current, rank, pc
  <2> QED BY <2>4, <2>5, <2>6, <2>7 DEF Inv
<1>2. CASE TakeUp(w)
  <2> DEFINE found == intent /\ checkpoint < 2
  <2> DEFINE next == [at[w] EXCEPT !.pc = "preflight", !.seen = found]
  <2>a. found \in BOOLEAN
    BY <1>0
  <2> HIDE DEF found
  <2>1. next \in Attempts /\ next.rank = rank(w) /\ next.note = at[w].note
        /\ next.pc = "preflight"
    BY <2>a, AttemptFacts DEF Attempts, rank, PcStates
  <2>2. at' = [at EXCEPT ![w] = next] /\ UNCHANGED <<queue, erp, mishaps>>
    BY <1>2 DEF TakeUp, found
  <2> HIDE DEF next
  <2> QED BY <1>0, <2>1, <2>2, MoveOn, AttemptFacts
<1>3. CASE Preflight(w)
  <2>1. CASE \E result \in {"RETRYABLE", "BLOCKED"} : GiveUp(w, result)
    BY <2>1, GiveUpType
  <2>2. CASE /\ shown >= 2 /\ shown > rank(w) /\ GoRecord(w, shown)
             /\ UNCHANGED <<queue, erp, mishaps>>
    BY <1>0, <2>2, AttemptFacts, GoRecordType
  <2>3. CASE /\ ~(shown >= 2 /\ shown > rank(w)) /\ GoTo(w, FirstStep(w))
             /\ UNCHANGED <<queue, erp, mishaps>>
    <3>1. CASE rank(w) = 1 /\ FirstStep(w) = "readback"
      <4> DEFINE next == [at[w] EXCEPT !.pc = "readback"]
      <4>1. next \in Attempts /\ next.rank = rank(w) /\ next.note = at[w].note
            /\ next.pc = "readback"
        BY AttemptFacts DEF Attempts, rank, PcStates
      <4>2. at' = [at EXCEPT ![w] = next] /\ UNCHANGED <<queue, erp, mishaps>>
        BY <2>3, <3>1 DEF GoTo
      <4> HIDE DEF next
      <4> QED BY <3>1, <4>1, <4>2, MoveOn, AttemptFacts
    <3>2. CASE FirstStep(w) \in {"poll", "ask"}
      BY <2>3, <3>2, GoToType DEF PcStates
    <3> QED BY <3>1, <3>2, AttemptFacts DEF FirstStep
  <2> QED BY <1>3, <2>1, <2>2, <2>3 DEF Preflight
<1>4. CASE Record(w)
  <2>1. CASE holder # w
    BY <1>0, <1>4, <2>1, FinishType DEF Record
  <2>2. CASE holder = w
    <3> DEFINE s == at[w].note
               next == After(w, s)
    <3>1. s \in Ranks /\ s <= real /\ s >= rank(w) /\ s >= checkpoint /\ rank(w) \in 0..3
      BY <1>4, <2>2, AttemptFacts DEF Record
    <3>2. /\ next \in Attempts /\ next.rank <= 3 /\ next.rank <= real /\ next.note <= real
          /\ next.pc \notin {"record", "readback"} /\ (s # 4 => next.rank = s)
      <4>1. CASE s = 4
        BY <1>0, <4>1 DEF After, Attempts, PcStates, Idle
      <4>2. CASE s # 4
        <5> DEFINE where == IF s >= 2 /\ at[w].via = "api" THEN "poll" ELSE "ask"
        <5>1. where \in {"poll", "ask"}
          OBVIOUS
        <5>2. next = [at[w] EXCEPT !.rank = s, !.note = s, !.pc = where]
          BY <4>2 DEF After
        <5> HIDE DEF where, s, next
        <5>3. s \in 0..3 /\ s <= real
          BY <3>1, <4>2
        <5>4. at[w] \in Attempts
          BY AttemptFacts
        <5> DEFINE mid == [at[w] EXCEPT !.rank = s]
        <5>5. mid \in Attempts /\ mid.rank = s
          BY <5>3, <5>4 DEF Attempts
        <5>6. next = [mid EXCEPT !.note = s, !.pc = where]
          BY <5>2
        <5> HIDE DEF mid
        <5>7. next \in Attempts /\ next.rank = s /\ next.note = s /\ next.pc = where
          BY <5>1, <5>3, <5>5, <5>6 DEF Attempts, PcStates
        <5> QED BY <5>1, <5>3, <5>7, <4>2
      <4> QED BY <4>1, <4>2
    <3>3. /\ checkpoint' = s /\ at' = [at EXCEPT ![w] = next]
          /\ UNCHANGED <<intent, real, shown, net, sent, mishaps>>
          /\ \/ s = 4 /\ state' = "DONE" /\ source' = "automation"
                /\ holder' = None /\ lapsed' = FALSE
             \/ s # 4 /\ state' = "RUNNING" /\ UNCHANGED <<source, holder, lapsed>>
      BY <1>4, <2>2 DEF Record, erp
    <3> HIDE DEF s, next
    <3>4. state # "DONE"
      BY <2>2 DEF Inv, Bounded
    <3>5. TypeOK'
      BY <1>0, <3>1, <3>2, <3>3, <3>4 DEF ErpStates
    <3>6. Bounded'
      BY <1>0, <3>1, <3>2, <3>3, <3>4 DEF Inv, Bounded, rank
    <3>7. Known' /\ CheckpointIsEarned'
      BY <1>0, <3>1, <3>2, <3>3 DEF Inv, Known, CheckpointIsEarned, rank
    <3>8. Current'
      BY <1>0, <2>2, <3>1, <3>2, <3>3 DEF Inv, Current, rank, pc
    <3> QED BY <3>5, <3>6, <3>7, <3>8 DEF Inv
  <2> QED BY <2>1, <2>2
<1>5. CASE Ask(w)
  <2> DEFINE next == [at[w] EXCEPT !.pc = "waiting"]
  <2>1. next \in Attempts /\ next.rank = rank(w) /\ next.note = at[w].note
        /\ next.pc = "waiting"
    BY AttemptFacts DEF Attempts, rank, PcStates
  <2>2. /\ at' = [at EXCEPT ![w] = next] /\ lapsed' = (lapsed /\ holder # w)
        /\ UNCHANGED <<state, checkpoint, source, holder, intent, real, shown, net, sent, mishaps>>
    BY <1>5 DEF Ask, GoTo, Renew, erp
  <2> HIDE DEF next
  <2>3. /\ lapsed' \in BOOLEAN /\ (lapsed' => holder # None) /\ intent' \in BOOLEAN
        /\ net' \in [Steps -> {"none", "sent", "done", "refused"}]
        /\ \A s \in Steps : net'[s] = "done" => s <= real
        /\ sent' \in [Unrepeatable -> 0..2]
        /\ \A s \in Unrepeatable : net'[s] = "sent" => sent'[s] >= 1
    BY <1>0, <2>2 DEF Inv, Known
  <2> QED BY <2>1, <2>2, <2>3, MoveType, AttemptFacts
<1>6. CASE Agree(w)
  <2>1. CASE holder # w
    BY <1>0, <1>6, <2>1, FinishType DEF Agree
  <2>2. CASE holder = w
    <3> DEFINE next == Agreed(w)
    <3>1. next \in Attempts /\ next.rank = rank(w) /\ next.note = at[w].note
          /\ next.pc \notin {"record", "readback"}
      BY AttemptFacts DEF Agreed, Attempts, rank, PcStates
    <3>2. /\ at' = [at EXCEPT ![w] = next] /\ lapsed' = FALSE
          /\ UNCHANGED <<state, checkpoint, source, holder, intent, real, shown, net, sent, mishaps>>
      BY <1>6, <2>2 DEF Agree, erp
    <3> HIDE DEF next
    <3>3. /\ lapsed' \in BOOLEAN /\ (lapsed' => holder # None) /\ intent' \in BOOLEAN
          /\ net' \in [Steps -> {"none", "sent", "done", "refused"}]
          /\ \A s \in Steps : net'[s] = "done" => s <= real
          /\ sent' \in [Unrepeatable -> 0..2]
          /\ \A s \in Unrepeatable : net'[s] = "sent" => sent'[s] >= 1
      BY <1>0, <3>2 DEF Inv, Known
    <3> QED BY <3>1, <3>2, <3>3, MoveType, AttemptFacts
  <2> QED BY <2>1, <2>2
<1>7. CASE Decline(w)
  BY <1>7, GiveUpType DEF Decline
<1>8. CASE RecordIntent(w)
  <2>1. CASE holder # w
    BY <1>0, <1>8, <2>1, FinishType DEF RecordIntent
  <2>2. CASE holder = w
    <3> DEFINE next == [at[w] EXCEPT !.pc = "send"]
    <3>1. next \in Attempts /\ next.rank = rank(w) /\ next.note = at[w].note /\ next.pc = "send"
      BY AttemptFacts DEF Attempts, rank, PcStates
    <3>2. /\ at' = [at EXCEPT ![w] = next] /\ lapsed' = FALSE /\ intent' = TRUE
          /\ UNCHANGED <<state, checkpoint, source, holder, real, shown, net, sent, mishaps>>
      BY <1>8, <2>2 DEF RecordIntent, GoTo, erp
    <3> HIDE DEF next
    <3>3. /\ lapsed' \in BOOLEAN /\ (lapsed' => holder # None) /\ intent' \in BOOLEAN
          /\ net' \in [Steps -> {"none", "sent", "done", "refused"}]
          /\ \A s \in Steps : net'[s] = "done" => s <= real
          /\ sent' \in [Unrepeatable -> 0..2]
          /\ \A s \in Unrepeatable : net'[s] = "sent" => sent'[s] >= 1
      BY <1>0, <3>2 DEF Inv, Known
    <3> QED BY <3>1, <3>2, <3>3, MoveType, AttemptFacts
  <2> QED BY <2>1, <2>2
<1>9. CASE Send(w)
  <2> DEFINE next == [at[w] EXCEPT !.pc = "await"]
  <2>1. next \in Attempts /\ next.rank = rank(w) /\ next.note = at[w].note /\ next.pc = "await"
    BY AttemptFacts DEF Attempts, rank, PcStates
  <2>2. /\ at' = [at EXCEPT ![w] = next] /\ net' = [net EXCEPT ![Step(w)] = "sent"]
        /\ sent' = Counted(Step(w))
        /\ UNCHANGED <<queue, real, shown, mishaps>>
    BY <1>9 DEF Send, GoTo
  <2> HIDE DEF next
  <2>3. Step(w) \in Steps
    BY AttemptFacts DEF Step
  <2>4. /\ lapsed' \in BOOLEAN /\ (lapsed' => holder # None) /\ intent' \in BOOLEAN
        /\ net' \in [Steps -> {"none", "sent", "done", "refused"}]
        /\ \A s \in Steps : net'[s] = "done" => s <= real
        /\ sent' \in [Unrepeatable -> 0..2]
        /\ \A s \in Unrepeatable : net'[s] = "sent" => sent'[s] >= 1
    BY <1>0, <2>2, <2>3 DEF Inv, Known, Counted, queue
  <2>5. UNCHANGED <<state, checkpoint, source, holder, real, shown, mishaps>>
    BY <2>2 DEF queue
  <2> QED BY <2>1, <2>2, <2>4, <2>5, MoveType, AttemptFacts
<1>10. CASE Click(w)
  <2>1. CASE \E result \in {"RETRYABLE", "BLOCKED"} : GiveUp(w, result)
    BY <2>1, GiveUpType
  <2>2. CASE /\ real = rank(w) /\ real' = Step(w) /\ sent' = Counted(Step(w))
             /\ Finish(w, "RETRYABLE")
             /\ UNCHANGED <<checkpoint, source, intent, shown, net, mishaps>>
    <3>1. at' = [at EXCEPT ![w] = Idle] /\ Step(w) \in Steps /\ Step(w) = real + 1
      BY <2>2, AttemptFacts DEF Finish, Step
    <3>a. sent' \in [Unrepeatable -> 0..2]
      BY <1>0, <2>2, <3>1 DEF Counted
    <3>b. /\ state' \in ErpStates /\ (state' = "DONE") = (source # "none")
          /\ (state' = "DONE" => checkpoint = 4)
          /\ holder' \in Workers \cup {Dead, None}
          /\ lapsed' \in BOOLEAN /\ (lapsed' => holder' # None)
      BY <1>0, <2>2 DEF Inv, Bounded, Finish, ErpStates
    <3>2. TypeOK'
      BY <1>0, <2>2, <3>1, <3>a, <3>b, IdleType
    <3>3. Bounded'
      BY <1>0, <2>2, <3>1, IdleType DEF Inv, Bounded, Finish, rank
    <3>c. /\ \A s \in Steps : net'[s] = "done" => s <= real'
          /\ \A s \in Unrepeatable : net'[s] = "sent" => sent'[s] >= 1
      BY <1>0, <2>2, <3>1 DEF Inv, Known, Counted
    <3>d. \A v \in Workers : rank(v)' <= real' /\ at'[v].note <= real'
      BY <1>0, <2>2, <3>1, IdleType DEF Inv, Known, rank, Attempts
    <3>4. Known' /\ CheckpointIsEarned'
      BY <1>0, <2>2, <3>1, <3>c, <3>d DEF Inv, Known, CheckpointIsEarned
    <3>5. Current'
      BY <1>0, <2>2, <3>1, IdleType DEF Inv, Current, Finish, rank, pc
    <3> QED BY <3>2, <3>3, <3>4, <3>5 DEF Inv
  <2>3. CASE /\ real = rank(w) /\ real' = Step(w) /\ sent' = Counted(Step(w))
             /\ GoRecord(w, Step(w)) /\ UNCHANGED <<state, holder, lapsed>>
             /\ UNCHANGED <<checkpoint, source, intent, shown, net, mishaps>>
    <3> DEFINE next == [at[w] EXCEPT !.note = Step(w), !.pc = "record"]
    <3>0. at[w] \in Attempts
      BY AttemptFacts
    <3>1. Step(w) \in Ranks /\ Step(w) = rank(w) + 1 /\ Step(w) = real + 1
      BY <2>3, AttemptFacts DEF Step
    <3>3. at' = [at EXCEPT ![w] = next]
      BY <2>3, AttemptFacts DEF GoRecord, Attempts
    <3>n. next = [at[w] EXCEPT !.note = Step(w), !.pc = "record"]
      OBVIOUS
    <3> HIDE DEF next
    <3>2. next \in Attempts /\ next.rank = rank(w) /\ next.note = Step(w) /\ next.pc = "record"
      BY ONLY <3>0, <3>1, <3>n, NotedType
    <3>4. TypeOK'
      BY <1>0, <2>3, <3>1, <3>2, <3>3 DEF Inv, Counted
    <3>5. Bounded'
      BY <1>0, <2>3, <3>1, <3>2, <3>3 DEF Inv, Bounded, rank
    <3>c. /\ \A s \in Steps : net'[s] = "done" => s <= real'
          /\ \A s \in Unrepeatable : net'[s] = "sent" => sent'[s] >= 1
      BY <1>0, <2>3, <3>1 DEF Inv, Known, Counted
    <3>d. \A v \in Workers : rank(v)' <= real' /\ at'[v].note <= real'
      BY <1>0, <2>3, <3>1, <3>2, <3>3 DEF Inv, Known, rank, Attempts
    <3>6. Known' /\ CheckpointIsEarned'
      BY <1>0, <2>3, <3>1, <3>c, <3>d DEF Inv, Known, CheckpointIsEarned
    <3>7. Current'
      BY <1>0, <2>3, <3>1, <3>2, <3>3, AttemptFacts DEF Inv, Current, rank, pc
    <3> QED BY <3>4, <3>5, <3>6, <3>7 DEF Inv
  <2> QED BY <1>10, <2>1, <2>2, <2>3 DEF Click
<1>11. CASE Acknowledged(w)
  <2> DEFINE where == IF Step(w) <= 2 THEN "record" ELSE "poll"
             next == [at[w] EXCEPT !.note = Step(w), !.pc = where]
  <2>1. Step(w) \in Steps /\ Step(w) = rank(w) + 1 /\ Step(w) <= real
    BY <1>11, AttemptFacts DEF Acknowledged, Answered, Step
  <2>2. where \in {"record", "poll"}
    OBVIOUS
  <2>3. at' = [at EXCEPT ![w] = next] /\ net' = [net EXCEPT ![Step(w)] = "none"]
        /\ UNCHANGED <<queue, real, shown, sent, mishaps>>
    BY <1>11, AttemptFacts DEF Acknowledged, Answered, Attempts
  <2> HIDE DEF where
  <2>0. at[w] \in Attempts /\ Step(w) \in Ranks
    BY <2>1, AttemptFacts
  <2>n. next = [at[w] EXCEPT !.note = Step(w), !.pc = where]
    OBVIOUS
  <2> HIDE DEF next
  <2>4. next \in Attempts /\ next.rank = rank(w) /\ next.note = Step(w) /\ next.pc = where
    BY ONLY <2>0, <2>2, <2>n, NotedType
  <2>5. /\ lapsed' \in BOOLEAN /\ (lapsed' => holder # None) /\ intent' \in BOOLEAN
        /\ net' \in [Steps -> {"none", "sent", "done", "refused"}]
        /\ \A s \in Steps : net'[s] = "done" => s <= real
        /\ sent' \in [Unrepeatable -> 0..2]
        /\ \A s \in Unrepeatable : net'[s] = "sent" => sent'[s] >= 1
    BY <1>0, <2>1, <2>3 DEF Inv, Known, queue
  <2>6. UNCHANGED <<state, checkpoint, source, holder, real, shown, mishaps>>
    BY <2>3 DEF queue
  <2>7. next.note <= real /\ (next.pc = "record" => next.note >= next.rank)
        /\ next.pc # "readback"
    BY <2>1, <2>2, <2>4, AttemptFacts
  <2> QED BY <2>3, <2>4, <2>5, <2>6, <2>7, MoveType
<1>12. CASE Ambiguous(w)
  <2>1. CASE GiveUp(w, "BLOCKED")
    BY <2>1, GiveUpType
  <2>2. CASE Step(w) = 2 /\ GoTo(w, "readback") /\ UNCHANGED <<queue, erp, mishaps>>
    <3> DEFINE next == [at[w] EXCEPT !.pc = "readback"]
    <3>1. next \in Attempts /\ next.rank = rank(w) /\ next.note = at[w].note
          /\ next.pc = "readback"
      BY AttemptFacts DEF Attempts, rank, PcStates
    <3>2. at' = [at EXCEPT ![w] = next] /\ rank(w) = 1
      BY <2>2, AttemptFacts DEF GoTo, Step
    <3> HIDE DEF next
    <3> QED BY <2>2, <3>1, <3>2, MoveOn, AttemptFacts
  <2> QED BY <1>12, <2>1, <2>2 DEF Ambiguous
<1>13. CASE Refused(w)
  <2> DEFINE next == [at[w] EXCEPT !.pc = "ask", !.via = "offered"]
  <2>1. next \in Attempts /\ next.rank = rank(w) /\ next.note = at[w].note /\ next.pc = "ask"
    BY AttemptFacts DEF Attempts, rank, PcStates
  <2>2. /\ at' = [at EXCEPT ![w] = next] /\ net' = [net EXCEPT ![Step(w)] = "none"]
        /\ intent' \in {intent, FALSE}
        /\ UNCHANGED <<state, checkpoint, source, holder, lapsed, real, shown, sent, mishaps>>
    BY <1>13 DEF Refused, Answered
  <2> HIDE DEF next
  <2>3. Step(w) \in Steps
    BY AttemptFacts DEF Step
  <2>4. lapsed' \in BOOLEAN /\ (lapsed' => holder # None) /\ intent' \in BOOLEAN
    BY <1>0, <2>2
  <2>5. /\ net' \in [Steps -> {"none", "sent", "done", "refused"}]
        /\ \A s \in Steps : net'[s] = "done" => s <= real
        /\ sent' \in [Unrepeatable -> 0..2]
        /\ \A s \in Unrepeatable : net'[s] = "sent" => sent'[s] >= 1
    BY <1>0, <2>2, <2>3 DEF Inv, Known
  <2> QED BY <2>1, <2>2, <2>4, <2>5, MoveType, AttemptFacts
<1>14. CASE ReadBack(w)
  <2>1. CASE GiveUp(w, "BLOCKED")
    BY <2>1, GiveUpType
  <2>2. CASE pc(w) = "readback" /\ shown >= 2 /\ GoRecord(w, 2)
             /\ UNCHANGED <<queue, erp, mishaps>>
    <3>1. 2 <= real /\ 2 >= rank(w)
      BY <1>0, <2>2, AttemptFacts
    <3> QED BY <2>2, <3>1, GoRecordType
  <2> QED BY <1>14, <2>1, <2>2 DEF ReadBack
<1>15. CASE Poll(w)
  <2>1. CASE GiveUp(w, "BLOCKED")
    BY <2>1, GiveUpType
  <2>2. CASE shown > rank(w) /\ GoRecord(w, shown) /\ UNCHANGED <<queue, erp, mishaps>>
    BY <1>0, <2>2, AttemptFacts, GoRecordType
  <2>3. CASE GoTo(w, "ask") /\ UNCHANGED <<queue, erp, mishaps>>
    BY <2>3, GoToType DEF PcStates
  <2> QED BY <1>15, <2>1, <2>2, <2>3 DEF Poll
<1> QED BY <1>1, <1>2, <1>3, <1>4, <1>5, <1>6, <1>7, <1>8, <1>9, <1>10, <1>11, <1>12,
           <1>13, <1>14, <1>15 DEF Worker

LEMMA NextStep == Inv /\ [Next]_vars => Inv'
<1> SUFFICES ASSUME Inv, [Next]_vars PROVE Inv'
  OBVIOUS
<1>0. TypeOK
  BY DEF Inv
<1>00. /\ \A s \in Steps : net[s] = "done" => s <= real
       /\ \A s \in Unrepeatable : net[s] = "sent" => sent[s] >= 1
  BY DEF Inv, Known
<1>000. /\ lapsed \in BOOLEAN /\ (lapsed => holder # None) /\ intent \in BOOLEAN
        /\ real \in Ranks /\ real >= real /\ shown \in 0..real
        /\ net \in [Steps -> {"none", "sent", "done", "refused"}]
        /\ sent \in [Unrepeatable -> 0..2] /\ mishaps \in 0..MaxMishaps
  BY <1>0 DEF TypeOK
<1> USE DEF TypeOK
<1>1. ASSUME NEW w \in Workers, Worker(w) PROVE Inv'
  BY <1>1, WorkerStep
<1>2. ASSUME NEW w \in Workers, Crash(w) PROVE Inv'
  <2>1. /\ at' = [at EXCEPT ![w] = Idle] /\ mishaps' \in 0..MaxMishaps
        /\ holder' \in {holder, Dead} /\ holder' # w /\ (holder = None => holder' = None)
        /\ (holder # None => holder' # None)
        /\ UNCHANGED <<state, checkpoint, source, lapsed, intent, real, shown, net, sent>>
    BY <1>0, <1>2 DEF Crash, erp
  <2>2. TypeOK'
    BY <1>0, <2>1, IdleType
  <2>3. Bounded'
    BY <1>0, <2>1, IdleType DEF Inv, Bounded, rank
  <2>4. Known' /\ CheckpointIsEarned'
    BY <1>0, <2>1, IdleType DEF Inv, Known, CheckpointIsEarned, rank
  <2>5. Current'
    BY <1>0, <2>1, IdleType DEF Inv, Current, rank, pc
  <2> QED BY <2>2, <2>3, <2>4, <2>5 DEF Inv
<1>3. ASSUME NEW s \in Steps, Execute(s) PROVE Inv'
  <2>1. real' \in Ranks /\ real' >= real /\ real' >= s /\ shown' \in 0..real'
    BY <1>0, <1>3 DEF Execute, Largest
  <2>2. /\ net' \in [Steps -> {"none", "sent", "done", "refused"}]
        /\ \A r \in Steps : net'[r] = "done" => r <= real'
        /\ sent' \in [Unrepeatable -> 0..2]
        /\ \A r \in Unrepeatable : net'[r] = "sent" => sent'[r] >= 1
    BY <1>0, <1>00, <1>3, <2>1 DEF Execute
  <2>3. UNCHANGED <<state, checkpoint, source, holder, lapsed, intent, at, mishaps>>
    BY <1>3 DEF Execute, queue
  <2> QED BY <1>000, <2>1, <2>2, <2>3, StandStill
<1>4. ASSUME NEW s \in Steps, NEW answer \in {"none", "refused"}, Fails(s, answer) PROVE Inv'
  <2>1. /\ net' \in [Steps -> {"none", "sent", "done", "refused"}]
        /\ \A r \in Steps : net'[r] = "done" => r <= real
    BY <1>0, <1>00, <1>4 DEF Fails
  <2>2. /\ sent' \in [Unrepeatable -> 0..2]
        /\ \A r \in Unrepeatable : net'[r] = "sent" => sent'[r] >= 1
    BY <1>0, <1>00, <1>4 DEF Fails
  <2>3. UNCHANGED <<state, checkpoint, source, holder, lapsed, intent, real, shown, at, mishaps>>
    BY <1>4 DEF Fails, queue
  <2> QED BY <1>000, <2>1, <2>2, <2>3, StandStill
<1>5. ASSUME Show PROVE Inv'
  <2>1. /\ shown' \in 0..real
        /\ UNCHANGED <<state, checkpoint, source, holder, lapsed, intent, real, net, sent, at, mishaps>>
    BY <1>0, <1>5 DEF Show, queue
  <2> QED BY <1>00, <1>000, <2>1, StandStill
<1>6. ASSUME Lapse PROVE Inv'
  <2>1. mishaps' \in 0..MaxMishaps /\ lapsed' = TRUE /\ holder # None
        /\ UNCHANGED <<state, checkpoint, source, holder, intent, real, shown, net, sent, at>>
    BY <1>0, <1>6 DEF Lapse, erp
  <2> QED BY <1>00, <1>000, <2>1, StandStill
<1>7. ASSUME Retry PROVE Inv'
  <2>1. /\ state # "DONE" /\ state' = "RETRYABLE" /\ holder' = None /\ lapsed' = FALSE
        /\ UNCHANGED <<checkpoint, source, intent, real, shown, net, sent, at, mishaps>>
    BY <1>7 DEF Retry, erp
  <2> QED BY <1>00, <1>000, <2>1, StandStill
<1>8. ASSUME ByHand PROVE Inv'
  <2>1. /\ real' \in Ranks /\ real' >= real /\ shown \in 0..real'
        /\ \A s \in Steps : net[s] = "done" => s <= real'
        /\ UNCHANGED <<state, checkpoint, source, holder, lapsed, intent, shown, net, sent, at, mishaps>>
    BY <1>0, <1>00, <1>8 DEF ByHand, queue
  <2> QED BY <1>00, <1>000, <2>1, StandStill
<1>9. ASSUME MarkManuallyCompleted PROVE Inv'
  <2>1. /\ state # "DONE" /\ holder \notin Workers /\ real = 4
        /\ state' = "DONE" /\ checkpoint' = 4 /\ source' = "manual"
        /\ holder' = None /\ lapsed' = FALSE
        /\ UNCHANGED <<intent, real, shown, net, sent, at, mishaps>>
    BY <1>9 DEF MarkManuallyCompleted, erp
  <2>2. TypeOK'
    BY <1>0, <2>1 DEF ErpStates
  <2>3. Bounded' /\ Known' /\ CheckpointIsEarned' /\ Current'
    BY <1>0, <2>1 DEF Inv, Bounded, Known, CheckpointIsEarned, Current, rank, pc
  <2> QED BY <2>2, <2>3 DEF Inv
<1>10. ASSUME UNCHANGED vars PROVE Inv'
  <2>1. UNCHANGED <<state, checkpoint, source, holder, lapsed, intent, real, shown, net, sent, at, mishaps>>
    BY <1>10 DEF vars, queue, erp
  <2> QED BY <1>00, <1>000, <2>1, StandStill
<1> QED BY <1>1, <1>2, <1>3, <1>4, <1>5, <1>6, <1>7, <1>8, <1>9, <1>10 DEF Next, Outcome

LEMMA InitStep == Init => Inv
<1> SUFFICES ASSUME Init PROVE Inv
  OBVIOUS
<1>1. TypeOK
  <2>1. at \in [Workers -> Attempts]
    BY IdleType DEF Init
  <2>2. /\ net \in [Steps -> {"none", "sent", "done", "refused"}]
        /\ sent \in [Unrepeatable -> 0..2]
    BY DEF Init
  <2>3. /\ state \in ErpStates /\ state # "DONE" /\ source = "none" /\ lapsed = FALSE
        /\ checkpoint = 0 /\ holder = None /\ intent = FALSE /\ real = 0 /\ shown = 0
        /\ mishaps = 0
    BY DEF Init, ErpStates
  <2>4. real \in Ranks /\ checkpoint \in Ranks /\ shown \in 0..real /\ mishaps \in 0..MaxMishaps
    BY <2>3
  <2>5. (state = "DONE") = (source # "none")
    BY <2>3
  <2> QED BY <2>1, <2>2, <2>3, <2>4, <2>5 DEF TypeOK
<1>2. Bounded /\ Known /\ CheckpointIsEarned /\ Current
  BY IdleType DEF Init, Bounded, Known, CheckpointIsEarned, Current, rank, pc
<1> QED BY <1>1, <1>2 DEF Inv

\* The invariant that the three theorems below rest on.
THEOREM Invariance == Spec => []Inv
BY InitStep, NextStep, PTL DEF Spec

\* The queue's row, the ERP and the attempts keep their types: the lease of a job
\* that is done is free, and its checkpoint is the last one.
THEOREM TypeCorrect == Spec => []TypeOK
<1>1. Inv => TypeOK
  BY DEF Inv
<1> QED BY <1>1, Invariance, PTL

\* The queue never says that the order has gone through a step it has not: for
\* any number of workers, deaths and lapses, and with every one of the faults.
THEOREM Earned == Spec => []CheckpointIsEarned
<1>1. Inv => CheckpointIsEarned
  BY DEF Inv
<1> QED BY <1>1, Invariance, PTL

\* Whoever writes the checkpoint holds the job's lease and knows the checkpoint on
\* record, so that no step takes recorded progress back.
THEOREM NeverFalls == Spec => CheckpointNeverFalls
<1>1. Inv /\ [Next]_vars => [checkpoint' >= checkpoint]_vars
  <2> SUFFICES ASSUME Inv, Next PROVE checkpoint' >= checkpoint
    BY DEF vars
  <2>1. checkpoint \in Ranks
    BY DEF Inv, TypeOK
  <2>2. ASSUME NEW w \in Workers, Worker(w) PROVE checkpoint' >= checkpoint
    <3>1. CASE Record(w)
      BY <2>1, <3>1, AttemptFacts DEF Record
    <3>2. CASE ~Record(w)
      <4>1. ASSUME NEW result, GiveUp(w, result) PROVE checkpoint' = checkpoint
        BY <4>1 DEF GiveUp
      <4>2. UNCHANGED queue => checkpoint' = checkpoint
        BY DEF queue
      <4>3. CASE Claim(w) \/ TakeUp(w) \/ Preflight(w) \/ Ask(w) \/ Agree(w) \/ Decline(w)
        BY <4>1, <4>2, <4>3, <2>1 DEF Claim, TakeUp, Preflight, Ask, Agree, Decline
      <4>4. CASE RecordIntent(w) \/ Send(w) \/ Acknowledged(w) \/ Refused(w)
        <5>1. CASE RecordIntent(w)
          BY <5>1, <2>1 DEF RecordIntent
        <5>2. CASE Send(w) \/ Acknowledged(w)
          BY <5>2, <2>1 DEF Send, Acknowledged, queue
        <5>3. CASE Refused(w)
          BY <5>3, <2>1 DEF Refused
        <5> QED BY <4>4, <5>1, <5>2, <5>3
      <4>5. CASE Click(w)
        BY <4>1, <4>5, <2>1 DEF Click
      <4>6. CASE Ambiguous(w) \/ ReadBack(w) \/ Poll(w)
        <5>1. GiveUp(w, "BLOCKED") \/ UNCHANGED queue
          BY <4>6 DEF Ambiguous, ReadBack, Poll
        <5> QED BY <4>1, <4>2, <5>1, <2>1
      <4> QED BY <2>2, <3>2, <4>3, <4>4, <4>5, <4>6 DEF Worker
    <3> QED BY <3>1, <3>2
  <2>3. CASE MarkManuallyCompleted
    BY <2>1, <2>3 DEF MarkManuallyCompleted
  <2>4. ASSUME \/ \E w \in Workers : Crash(w)
               \/ Outcome \/ Show \/ Lapse \/ Retry \/ ByHand
        PROVE  checkpoint' >= checkpoint
    BY <2>1, <2>4 DEF Crash, Outcome, Execute, Fails, Show, Lapse, Retry, ByHand, queue
  <2> QED BY <2>2, <2>3, <2>4 DEF Next
<1> QED BY <1>1, Invariance, PTL DEF Spec, CheckpointNeverFalls

------------------------------------------------------------------------------
(* No review and no sending-out is asked for twice.                        *)

\* Where an attempt can stand on the page and at the intent, and what it has
\* noted there.
Side(w) ==
  /\ at[w].via # "api" => pc(w) \in {"ask", "waiting", "send", "record"}
  /\ at[w].via = "offered" => pc(w) \in {"ask", "waiting"}
  /\ pc(w) \in {"claimed", "preflight"} => at[w].note = 0
  /\ pc(w) = "intent" => rank(w) = 1 /\ at[w].via = "api"
  /\ pc(w) = "poll" => rank(w) >= 2
  /\ pc(w) = "record" => at[w].note > rank(w)

\* From its agreement to its record, a worker that writes has the lease.
Firm(w) ==
  \/ pc(w) \in {"intent", "send", "await"}
  \/ pc(w) = "record" /\ at[w].via = "web"
  \/ pc(w) = "poll" /\ at[w].note = 4

\* No review was asked for that took, or may still take, effect.
Unasked == sent[2] = 0 /\ net[2] = "none"

\* The page has reviewed the order and the holder is about to record it.
Clicked ==
  /\ holder \in Workers
  /\ pc(holder) = "record" /\ at[holder].via = "web" /\ at[holder].note = 2

\* What became of the last request to send the order out shows in the list.
Settled == net[4] # "sent" /\ (sent[4] = 0 \/ shown = 4)

\* What an attempt on the way to a request may rely on.
Entitled(w) ==
  /\ Firm(w) => holder = w /\ ~lapsed
  /\ rank(w) = 1 /\ holder = w /\ (pc(w) \in {"ask", "waiting", "intent", "send"}
                                     \/ (pc(w) = "preflight" /\ ~at[w].seen)) => Unasked
  /\ rank(w) = 1 /\ pc(w) = "await" /\ net[2] \in {"none", "refused"} => sent[2] = 0
  /\ rank(w) = 1 /\ pc(w) \in {"send", "await"} /\ at[w].via = "api" => intent
  /\ holder = w /\ pc(w) \in {"ask", "waiting", "intent", "send"} => sent[4] = 0 /\ net[4] # "sent"
  /\ rank(w) = 3 /\ pc(w) = "await" /\ net[4] \in {"none", "refused"} => sent[4] = 0
  /\ holder = w /\ ~Settled =>
       pc(w) \in {"await", "record"} \/ (pc(w) = "poll" /\ at[w].note = 4)

\* What the job's row tells of the requests: a review without an intent was not
\* asked for, and the job is not due before its sending-out has settled.
Told ==
  /\ checkpoint = 0 => ~intent
  /\ checkpoint <= 1 /\ ~intent => Unasked \/ Clicked
  /\ sent[4] >= 1 => net[4] = "sent" \/ real = 4
  /\ checkpoint < 3 => sent[4] = 0 /\ net[4] = "none"
  /\ ~Settled => ~lapsed /\ (holder = None => state \in {"BLOCKED", "DONE"})

Ledger == Told /\ SentOnce /\ \A w \in Workers : Side(w) /\ Entitled(w)

\* A worker that is not the holder and has no request under way is not touched
\* by what becomes of the job.
LEMMA Bystander ==
    ASSUME NEW v \in Workers, Side(v), ~Firm(v), at'[v] = at[v], holder' # v
    PROVE  Side(v)' /\ Entitled(v)'
<1>1. Side(v)'
  BY DEF Side, pc, rank
<1>2. Entitled(v)'
  BY DEF Entitled, Firm, pc, rank
<1> QED BY <1>1, <1>2

\* The step of a worker leaves the other attempts what they were.
LEMMA Others ==
    ASSUME TypeOK, Ledger, NEW w \in Workers, NEW next,
           at' = [at EXCEPT ![w] = next],
           \/ holder = w /\ holder' \in {w, None, Dead}
           \/ UNCHANGED <<holder, lapsed, intent, shown, net, sent>>
    PROVE  \A v \in Workers \ {w} : Side(v)' /\ Entitled(v)'
<1> SUFFICES ASSUME NEW v \in Workers \ {w} PROVE Side(v)' /\ Entitled(v)'
  OBVIOUS
<1>1. at'[v] = at[v] /\ Side(v) /\ Entitled(v)
  BY DEF TypeOK, Ledger
<1>2. CASE holder = w /\ holder' \in {w, None, Dead}
  <2>1. ~Firm(v) /\ holder' # v
    BY <1>1, <1>2 DEF Entitled
  <2> QED BY <1>1, <2>1, Bystander
<1>3. CASE UNCHANGED <<holder, lapsed, intent, shown, net, sent>>
  <2>1. Side(v)'
    BY <1>1 DEF Side, pc, rank
  <2>2. Entitled(v)'
    BY <1>1, <1>3 DEF Entitled, Firm, Unasked, Settled, pc, rank
  <2> QED BY <2>1, <2>2
<1> QED BY <1>2, <1>3

\* An attempt that ends: the job is due again only if its requests have settled.
LEMMA FinishLedger ==
    ASSUME Inv, Ledger, NEW w \in Workers, NEW result,
           Finish(w, result),
           holder = w /\ ~Settled => result = "BLOCKED",
           ~(pc(w) = "record" /\ at[w].via = "web"),
           UNCHANGED <<checkpoint, source, intent, real, shown, net, sent, mishaps>>
    PROVE  Ledger'
<1>0. TypeOK
  BY DEF Inv
<1>1. at' = [at EXCEPT ![w] = Idle] /\ at'[w] = Idle
  BY <1>0 DEF Finish, TypeOK
<1>2. Side(w)' /\ Entitled(w)'
  <2>1. Side(w)'
    BY <1>1 DEF Side, pc, rank, Idle
  <2>2. holder' # w
    BY DEF Finish
  <2>3. Entitled(w)'
    BY <1>1, <2>2 DEF Entitled, Firm, pc, rank, Idle
  <2> QED BY <2>1, <2>3
<1>3. \A v \in Workers \ {w} : Side(v)' /\ Entitled(v)'
  BY <1>0, <1>1, Others DEF Finish
<1>4. SentOnce'
  BY DEF Ledger, SentOnce
<1>5. Told'
  <2>1. Clicked => holder # w
    BY DEF Clicked
  <2>2. Clicked => Clicked'
    BY <1>0, <1>1, <2>1 DEF Clicked, Finish, pc, TypeOK
  <2> QED BY <2>2 DEF Told, Ledger, Unasked, Settled, Finish
<1> QED BY <1>2, <1>3, <1>4, <1>5 DEF Ledger

\* The same of an attempt that ends without a trace in the ERP.
LEMMA GiveUpLedger ==
    ASSUME Inv, Ledger, NEW w \in Workers, NEW result, GiveUp(w, result),
           holder = w /\ ~Settled => result = "BLOCKED",
           ~(pc(w) = "record" /\ at[w].via = "web")
    PROVE  Ledger'
BY FinishLedger DEF GiveUp, erp

\* A step of an attempt that leaves the row but for the life of the lease, and
\* the ERP, as they are.
LEMMA StepLedger ==
    ASSUME Inv, Ledger, NEW w \in Workers, NEW next,
           at' = [at EXCEPT ![w] = next],
           \/ lapsed' = lapsed
           \/ holder = w /\ lapsed' = FALSE,
           UNCHANGED <<state, checkpoint, holder, intent, real, shown, net, sent>>,
           ~(pc(w) = "record" /\ at[w].via = "web"),
           Side(w)', Entitled(w)'
    PROVE  Ledger'
<1>0. TypeOK
  BY DEF Inv
<1>1. \A v \in Workers \ {w} : Side(v)' /\ Entitled(v)'
  BY <1>0, Others
<1>2. SentOnce'
  BY DEF Ledger, SentOnce
<1>3. Told'
  <2>1. Clicked => holder # w
    BY DEF Clicked
  <2>2. Clicked => Clicked'
    BY <1>0, <2>1 DEF Clicked, pc, TypeOK
  <2> QED BY <1>0, <2>2 DEF Told, Ledger, Unasked, Settled, TypeOK
<1> QED BY <1>1, <1>2, <1>3 DEF Ledger


\* The steps of one worker that send nothing and take no answer.
LEMMA QuietLedger ==
    ASSUME Inv, Ledger, NEW w \in Workers, NEW next \in Attempts,
           at' = [at EXCEPT ![w] = next],
           next.rank = rank(w),
           UNCHANGED <<queue, erp, mishaps>>,
           pc(w) \in {"claimed", "preflight", "readback", "poll"},
           Side(w)',
           next.pc \notin {"intent", "send", "await", "poll"}
             \/ (next.pc = "poll" /\ next.note = 0),
           next.via = "api",
           ~Settled /\ holder = w => pc(w) = "poll" /\ next.pc = "record",
           holder = w /\ next.pc \in {"ask", "waiting"} => sent[4] = 0 /\ net[4] # "sent",
           rank(w) = 1 /\ holder = w /\ (next.pc \in {"ask", "waiting"}
                                            \/ (next.pc = "preflight" /\ ~next.seen)) => Unasked
    PROVE  Ledger'
<1>0. TypeOK /\ at'[w] = next
  BY DEF Inv, TypeOK
<1>1. UNCHANGED <<state, checkpoint, source, holder, lapsed, intent, real, shown, net, sent>>
  BY DEF queue, erp
<1>2. Entitled(w)'
  <2>1. ~Firm(w)'
    BY <1>0 DEF Firm, pc
  <2>2. rank(w)' = rank(w) /\ pc(w)' = next.pc /\ at'[w].seen = next.seen
    BY <1>0 DEF rank, pc
  <2>3. next.pc \notin {"intent", "send", "await"}
    OBVIOUS
  <2>4. Unasked' = Unasked /\ Settled' = Settled
    BY <1>1 DEF Unasked, Settled
  <2> QED BY <1>0, <1>1, <2>1, <2>2, <2>3, <2>4 DEF Entitled
<1> QED BY <1>0, <1>1, <1>2, StepLedger

\* An attempt that means to record what the outbound row shows.
LEMMA Marked ==
    ASSUME NEW w \in Workers, at \in [Workers -> Attempts], NEW r \in Ranks, GoRecord(w, r)
    PROVE  \E b \in Attempts :
             /\ at' = [at EXCEPT ![w] = b] /\ at'[w] = b
             /\ b.rank = rank(w) /\ b.note = r /\ b.pc = "record" /\ b.via = at[w].via
<1> DEFINE a == [at[w] EXCEPT !.pc = "record"]
           b == [a EXCEPT !.note = r]
<1>0. at[w] \in Attempts
  OBVIOUS
<1>1. a \in Attempts /\ a.rank = rank(w) /\ a.pc = "record" /\ a.via = at[w].via
  BY <1>0 DEF Attempts, PcStates, rank
<1>2. at' = [at EXCEPT ![w] = b] /\ at'[w] = b
  BY DEF GoRecord
<1>n. b = [a EXCEPT !.note = r]
  OBVIOUS
<1> HIDE DEF a, b
<1>3. b \in Attempts /\ b.rank = a.rank /\ b.note = r /\ b.pc = a.pc /\ b.via = a.via
  BY <1>1, <1>n DEF Attempts
<1> QED BY <1>1, <1>2, <1>3

\* The steps of one worker.
LEMMA WorkerLedger ==
    ASSUME Inv, Ledger, Faults = {}, NEW w \in Workers, Worker(w)
    PROVE  Ledger'
<1>0. TypeOK /\ Told /\ SentOnce /\ Side(w) /\ Entitled(w) /\ Current
  BY DEF Inv, Ledger
<1>f. /\ at[w] \in Attempts /\ rank(w) \in 0..3 /\ rank(w) <= real
      /\ at[w].note \in Ranks /\ at[w].note <= real
      /\ holder = w => checkpoint = rank(w)
      /\ lapsed \in BOOLEAN /\ intent \in BOOLEAN /\ checkpoint \in Ranks
      /\ real \in Ranks /\ shown \in 0..real /\ at[w].via \in {"api", "offered", "web"}
      /\ net \in [Steps -> {"none", "sent", "done", "refused"}]
      /\ sent \in [Unrepeatable -> 0..2] /\ sent[2] \in 0..1 /\ sent[4] \in 0..1
  BY <1>0, AttemptFacts DEF TypeOK, Attempts, SentOnce
<1>s. holder = w /\ checkpoint < 3 => Settled
  BY <1>0 DEF Told, Settled
<1>1. CASE Claim(w)
  <2> DEFINE next == [Idle EXCEPT !.pc = "claimed", !.rank = checkpoint]
  <2>1. next.note = 0 /\ next.pc = "claimed" /\ next.via = "api"
    BY DEF Idle
  <2>2. at' = [at EXCEPT ![w] = next] /\ holder' = w /\ lapsed' = FALSE
        /\ UNCHANGED <<state, checkpoint, source, intent, real, shown, net, sent, mishaps>>
    BY <1>1 DEF Claim, erp
  <2> HIDE DEF next
  <2>3. at'[w] = next
    BY <1>0, <2>2 DEF TypeOK
  <2>4. Settled /\ (holder = None \/ lapsed)
    BY <1>0, <1>1 DEF Claim, Claimable, Told
  <2>5. Side(w)' /\ Entitled(w)'
    <3>1. Side(w)'
      BY <2>1, <2>3 DEF Side, pc, rank
    <3>2. Entitled(w)'
      BY <2>1, <2>2, <2>3, <2>4 DEF Entitled, Firm, pc, rank, Settled
    <3> QED BY <3>1, <3>2
  <2>6. ASSUME NEW v \in Workers \ {w} PROVE Side(v)' /\ Entitled(v)'
    <3>1. Side(v) /\ Entitled(v) /\ at'[v] = at[v] /\ holder' # v
      BY <1>0, <2>2 DEF Ledger, TypeOK
    <3>2. ~Firm(v)
      BY <2>4, <3>1 DEF Entitled
    <3> QED BY <3>1, <3>2, Bystander
  <2>7. Told'
    <3>1. ~Clicked
      <4>1. Clicked => Firm(holder) /\ Entitled(holder)
        BY DEF Clicked, Firm, Ledger
      <4> QED BY <2>4, <4>1 DEF Entitled, Clicked
    <3> QED BY <1>0, <2>2, <2>4, <3>1 DEF Told, Unasked, Settled
  <2> QED BY <1>0, <2>2, <2>5, <2>6, <2>7 DEF Ledger, SentOnce
<1>2. CASE TakeUp(w)
  <2> DEFINE found == intent /\ checkpoint < 2
  <2> DEFINE next == [at[w] EXCEPT !.pc = "preflight", !.seen = found]
  <2>a. found \in BOOLEAN
    BY <1>f
  <2>b. ~found => ~intent \/ checkpoint >= 2
    BY <1>f
  <2> HIDE DEF found
  <2>1. next \in Attempts /\ next.rank = rank(w) /\ next.note = at[w].note
        /\ next.pc = "preflight" /\ next.seen = found /\ next.via = at[w].via
    BY <2>a, <1>f DEF Attempts, rank, PcStates
  <2>2. at' = [at EXCEPT ![w] = next] /\ pc(w) = "claimed" /\ UNCHANGED <<queue, erp, mishaps>>
    BY <1>2 DEF TakeUp, found
  <2> HIDE DEF next
  <2>3. at'[w] = next /\ at[w].via = "api" /\ at[w].note = 0
    BY <1>0, <1>f, <2>2 DEF TypeOK, Side
  <2>4. Side(w)'
    BY <2>1, <2>3 DEF Side, pc, rank
  <2>5. ~Settled /\ holder = w => FALSE
    BY <1>0, <2>2 DEF Entitled
  <2>6. rank(w) = 1 /\ holder = w /\ ~found => Unasked
    <3>1. ~(holder = w /\ Clicked)
      BY <2>2 DEF Clicked
    <3>2. ASSUME rank(w) = 1, holder = w, ~found PROVE checkpoint <= 1 /\ ~intent
      BY <1>f, <2>b, <3>2
    <3> QED BY <1>0, <3>1, <3>2 DEF Told
  <2> QED BY <2>1, <2>2, <2>3, <2>4, <2>5, <2>6, QuietLedger
<1>3. CASE Preflight(w)
  <2>0. pc(w) = "preflight" /\ at[w].via = "api" /\ at[w].note = 0 /\ (holder = w => Settled)
    BY <1>0, <1>3, <1>f DEF Preflight, Side, Entitled
  <2>1. CASE \E result \in {"RETRYABLE", "BLOCKED"} : GiveUp(w, result)
    BY <2>0, <2>1, GiveUpLedger
  <2>2. CASE /\ shown >= 2 /\ shown > rank(w) /\ GoRecord(w, shown)
             /\ UNCHANGED <<queue, erp, mishaps>>
    <3>0. shown \in Ranks
      BY <1>f
    <3>1. PICK next \in Attempts :
            /\ at' = [at EXCEPT ![w] = next] /\ at'[w] = next
            /\ next.rank = rank(w) /\ next.note = shown /\ next.pc = "record"
            /\ next.via = at[w].via
      BY <1>0, <2>2, <3>0, Marked DEF TypeOK
    <3>3. Side(w)'
      BY <2>0, <2>2, <3>1 DEF Side, pc, rank
    <3> QED BY <2>0, <2>2, <3>1, <3>3, QuietLedger
  <2>3. CASE GoTo(w, FirstStep(w)) /\ UNCHANGED <<queue, erp, mishaps>>
    <3> DEFINE where == FirstStep(w)
               next == [at[w] EXCEPT !.pc = where]
    <3>0. /\ where \in {"poll", "readback", "ask"}
          /\ where = "poll" => rank(w) >= 2
          /\ where = "ask" => rank(w) <= 1 /\ (rank(w) = 1 => ~at[w].seen)
      BY <1>f DEF FirstStep
    <3> HIDE DEF where
    <3>1. next \in Attempts /\ next.rank = rank(w) /\ next.note = at[w].note
          /\ next.pc = where /\ next.via = at[w].via
      BY <1>f, <3>0 DEF Attempts, rank, PcStates
    <3>2. at' = [at EXCEPT ![w] = next] /\ at'[w] = next
      BY <1>0, <2>3 DEF GoTo, TypeOK, where
    <3> HIDE DEF next
    <3>3. Side(w)'
      BY <2>0, <3>0, <3>1, <3>2 DEF Side, pc, rank
    <3>4. holder = w /\ where = "ask" => sent[4] = 0 /\ net[4] # "sent"
      BY <1>0, <1>f, <3>0 DEF Told
    <3>5. rank(w) = 1 /\ holder = w /\ where = "ask" => Unasked
      BY <1>0, <2>0, <3>0 DEF Entitled
    <3> QED BY <2>0, <2>3, <3>0, <3>1, <3>2, <3>3, <3>4, <3>5, QuietLedger
  <2> QED BY <1>3, <2>1, <2>2, <2>3 DEF Preflight
<1>4. CASE Record(w)
  <2>1. CASE holder # w
    <3>1. ~(pc(w) = "record" /\ at[w].via = "web")
      BY <1>0, <2>1 DEF Entitled, Firm
    <3> QED BY <1>4, <2>1, <3>1, FinishLedger DEF Record, erp
  <2>2. CASE holder = w
    <3> DEFINE s == at[w].note
               next == After(w, s)
    <3>1. s \in Ranks /\ s > checkpoint /\ checkpoint = rank(w) /\ pc(w) = "record"
          /\ at[w].via \in {"api", "web"}
      BY <1>0, <1>4, <1>f, <2>2 DEF Record, Side
    <3>2. s # 4 => next.rank = s /\ next.note = s /\ next.via = at[w].via
                   /\ next.pc = IF s >= 2 /\ at[w].via = "api" THEN "poll" ELSE "ask"
      BY <1>f DEF After, Attempts
    <3>3. s = 4 => next = Idle
      BY DEF After
    <3>4. /\ checkpoint' = s /\ at' = [at EXCEPT ![w] = next]
          /\ UNCHANGED <<intent, real, shown, net, sent, mishaps>>
          /\ \/ s = 4 /\ state' = "DONE" /\ holder' = None /\ lapsed' = FALSE
             \/ s # 4 /\ state' = "RUNNING" /\ UNCHANGED <<holder, lapsed>>
      BY <1>4, <2>2 DEF Record, erp
    <3>n. s = at[w].note
      OBVIOUS
    <3> HIDE DEF s, next
    <3>5. at'[w] = next
      BY <1>0, <3>4 DEF TypeOK
    <3>6. \A v \in Workers \ {w} : Side(v)' /\ Entitled(v)'
      BY <1>0, <2>2, <3>4, Others
    <3>7. s # 4 => Settled /\ sent[4] = 0
      <4>1. s # 4 => checkpoint < 3
        BY <1>f, <3>1
      <4> QED BY <1>0, <4>1 DEF Told, Settled
    <3>8. s = 1 => Unasked
      <4>1. s = 1 => ~Clicked
        BY <2>2, <3>n DEF Clicked
      <4> QED BY <1>0, <1>f, <3>1, <4>1 DEF Told
    <3>9. Side(w)'
      BY <3>1, <3>2, <3>3, <3>5 DEF Side, pc, rank, Idle
    <3>10. Entitled(w)'
      <4>1. CASE s = 4
        BY <3>3, <3>4, <3>5, <4>1 DEF Entitled, Firm, pc, rank, Idle
      <4>2. CASE s # 4
        <5>1. ~Firm(w)'
          BY <3>2, <3>5, <4>2 DEF Firm, pc
        <5>2. Settled' /\ sent'[4] = 0 /\ net'[4] # "sent"
          BY <3>4, <3>7, <4>2 DEF Settled
        <5>3. rank(w)' = 1 => Unasked'
          BY <3>2, <3>4, <3>5, <3>8, <4>2 DEF rank, Unasked
        <5>4. pc(w)' \in {"poll", "ask"}
          BY <3>2, <3>5, <4>2 DEF pc
        <5> QED BY <5>1, <5>2, <5>3, <5>4 DEF Entitled
      <4> QED BY <4>1, <4>2
    <3>11. Told'
      <4>1. checkpoint' # 0
        BY <1>f, <3>1, <3>4
      <4>2. checkpoint' <= 1 => Unasked'
        BY <1>f, <3>1, <3>4, <3>8 DEF Unasked
      <4>3. checkpoint' < 3 => sent'[4] = 0 /\ net'[4] = "none"
        BY <1>0, <1>f, <3>1, <3>4 DEF Told
      <4>4. ~Settled' => ~lapsed' /\ (holder' = None => state' \in {"BLOCKED", "DONE"})
        BY <3>4, <3>7 DEF Settled
      <4> QED BY <1>0, <3>4, <4>1, <4>2, <4>3, <4>4 DEF Told
    <3> QED BY <1>0, <3>4, <3>6, <3>9, <3>10, <3>11 DEF Ledger, SentOnce
  <2> QED BY <2>1, <2>2
<1>5. CASE Ask(w)
  <2> DEFINE next == [at[w] EXCEPT !.pc = "waiting"]
  <2>1. next.rank = rank(w) /\ next.note = at[w].note /\ next.pc = "waiting"
        /\ next.via = at[w].via
    BY <1>f DEF Attempts, rank
  <2>2. /\ at' = [at EXCEPT ![w] = next] /\ lapsed' = (lapsed /\ holder # w)
        /\ UNCHANGED <<state, checkpoint, holder, intent, real, shown, net, sent>>
        /\ pc(w) = "ask"
    BY <1>5 DEF Ask, GoTo, Renew, erp
  <2> HIDE DEF next
  <2>3. at'[w] = next
    BY <1>0, <2>2 DEF TypeOK
  <2>4. Side(w)'
    BY <1>0, <2>1, <2>2, <2>3 DEF Side, pc, rank
  <2>5. Entitled(w)'
    <3>1. ~Firm(w)'
      BY <2>1, <2>3 DEF Firm, pc
    <3>2. rank(w)' = rank(w) /\ pc(w)' = "waiting" /\ Unasked' = Unasked /\ Settled' = Settled
      BY <2>1, <2>2, <2>3 DEF rank, pc, Unasked, Settled
    <3> QED BY <1>0, <2>2, <3>1, <3>2 DEF Entitled
  <2>6. lapsed' = lapsed \/ (holder = w /\ lapsed' = FALSE)
    <3>1. CASE holder = w
      BY <2>2, <3>1
    <3>2. CASE holder # w
      BY <1>f, <2>2, <3>2
    <3> QED BY <3>1, <3>2
  <2> QED BY <2>2, <2>4, <2>5, <2>6, StepLedger
<1>6. CASE Agree(w)
  <2>1. CASE holder # w
    BY <1>6, <2>1, FinishLedger DEF Agree, erp
  <2>2. CASE holder = w
    <3> DEFINE next == Agreed(w)
    <3>1. /\ next.rank = rank(w) /\ next.note = at[w].note /\ next.pc \in {"ask", "intent", "send"}
          /\ at[w].via = "offered" => next.via = "web" /\ next.pc = "ask"
          /\ at[w].via # "offered" => next.via = at[w].via
          /\ next.pc = "intent" => rank(w) = 1 /\ at[w].via = "api"
          /\ next.pc = "send" => ~(rank(w) = 1 /\ next.via = "api")
      BY <1>f DEF Agreed, Attempts, rank
    <3>2. /\ at' = [at EXCEPT ![w] = next] /\ lapsed' = FALSE /\ pc(w) = "waiting"
          /\ UNCHANGED <<state, checkpoint, holder, intent, real, shown, net, sent>>
      BY <1>6, <2>2 DEF Agree, erp
    <3> HIDE DEF next
    <3>3. at'[w] = next
      BY <1>0, <3>2 DEF TypeOK
    <3>4. Side(w)'
      BY <3>1, <3>3, <1>f DEF Side, pc, rank
    <3>5. Entitled(w)'
      <4>1. rank(w)' = rank(w) /\ pc(w)' \in {"ask", "intent", "send"}
            /\ Unasked' = Unasked /\ Settled' = Settled
        BY <3>1, <3>2, <3>3 DEF rank, pc, Unasked, Settled
      <4>2. ~(rank(w)' = 1 /\ pc(w)' = "send" /\ at'[w].via = "api")
        BY <3>1, <3>3 DEF rank, pc
      <4> QED BY <1>0, <2>2, <3>2, <4>1, <4>2 DEF Entitled
    <3> QED BY <2>2, <3>2, <3>4, <3>5, StepLedger
  <2> QED BY <2>1, <2>2
<1>7. CASE Decline(w)
  BY <1>0, <1>7, GiveUpLedger DEF Decline, Entitled
<1>8. CASE RecordIntent(w)
  <2>0. pc(w) = "intent" /\ holder = w /\ ~lapsed /\ rank(w) = 1 /\ at[w].via = "api"
    BY <1>0, <1>8 DEF RecordIntent, Entitled, Firm, Side
  <2> DEFINE next == [at[w] EXCEPT !.pc = "send"]
  <2>1. next.rank = rank(w) /\ next.note = at[w].note /\ next.pc = "send" /\ next.via = at[w].via
    BY <1>f DEF Attempts, rank
  <2>2. /\ at' = [at EXCEPT ![w] = next] /\ lapsed' = FALSE /\ intent' = TRUE
        /\ UNCHANGED <<state, checkpoint, source, holder, real, shown, net, sent, mishaps>>
    BY <1>8, <2>0 DEF RecordIntent, GoTo, erp
  <2> HIDE DEF next
  <2>3. at'[w] = next
    BY <1>0, <2>2 DEF TypeOK
  <2>4. Side(w)'
    BY <2>0, <2>1, <2>3 DEF Side, pc, rank
  <2>5. Entitled(w)'
    <3>1. rank(w)' = 1 /\ pc(w)' = "send" /\ Unasked' = Unasked /\ Settled' = Settled
      BY <2>0, <2>1, <2>2, <2>3 DEF rank, pc, Unasked, Settled
    <3> QED BY <1>0, <2>0, <2>2, <3>1 DEF Entitled
  <2>6. \A v \in Workers \ {w} : Side(v)' /\ Entitled(v)'
    BY <1>0, <2>0, <2>2, Others
  <2>7. Told'
    BY <1>0, <1>f, <2>0, <2>2 DEF Told, Settled
  <2> QED BY <1>0, <2>2, <2>4, <2>5, <2>6, <2>7 DEF Ledger, SentOnce
<1>9. CASE Send(w)
  <2>0. pc(w) = "send" /\ holder = w /\ ~lapsed /\ at[w].via = "api" /\ checkpoint = rank(w)
    BY <1>0, <1>9, <1>f DEF Send, Entitled, Firm
  <2> DEFINE next == [at[w] EXCEPT !.pc = "await"]
             s == Step(w)
  <2>1. next.rank = rank(w) /\ next.note = at[w].note /\ next.pc = "await" /\ next.via = at[w].via
    BY <1>f DEF Attempts, rank
  <2>2. /\ at' = [at EXCEPT ![w] = next]
        /\ net' = [net EXCEPT ![s] = "sent"] /\ sent' = Counted(s)
        /\ UNCHANGED <<state, checkpoint, source, holder, lapsed, intent, real, shown, mishaps>>
    BY <1>9 DEF Send, GoTo, queue
  <2>3. s \in Steps /\ s = rank(w) + 1
    BY <1>f DEF Step
  <2> HIDE DEF next, s
  <2>4. at'[w] = next
    BY <1>0, <2>2 DEF TypeOK
  <2>5. /\ sent[4] = 0 /\ net[4] # "sent" /\ (rank(w) = 1 => Unasked /\ intent)
    BY <1>0, <2>0 DEF Entitled
  <2>6. /\ \A r \in Steps : net'[r] = IF r = s THEN "sent" ELSE net[r]
        /\ \A r \in Unrepeatable : sent'[r] = IF r = s THEN 1 ELSE sent[r]
    BY <1>f, <2>2, <2>3, <2>5 DEF Counted, Unasked
  <2>7. Side(w)'
    BY <2>0, <2>1, <2>4 DEF Side, pc, rank
  <2>8. Entitled(w)'
    <3>1. rank(w)' = rank(w) /\ pc(w)' = "await" /\ holder' = w /\ ~lapsed' /\ intent' = intent
      BY <2>0, <2>1, <2>2, <2>4 DEF rank, pc
    <3>2. (rank(w) = 1 => net'[2] = "sent") /\ (rank(w) = 3 => net'[4] = "sent")
      BY <1>f, <2>3, <2>6
    <3> QED BY <2>5, <3>1, <3>2 DEF Entitled
  <2>9. \A v \in Workers \ {w} : Side(v)' /\ Entitled(v)'
    BY <1>0, <2>0, <2>2, Others
  <2>10. Told'
    <3>1. checkpoint <= 1 /\ ~intent => Unasked'
      <4>1. ~Clicked
        BY <2>0 DEF Clicked
      <4>2. checkpoint <= 1 /\ ~intent => s = 1 /\ Unasked
        BY <1>0, <1>f, <2>0, <2>3, <2>5, <4>1 DEF Told
      <4> QED BY <2>6, <4>2 DEF Unasked
    <3>2. checkpoint < 3 => sent'[4] = 0 /\ net'[4] = "none"
      BY <1>0, <1>f, <2>0, <2>3, <2>6 DEF Told
    <3>3. sent'[4] >= 1 => net'[4] = "sent"
      BY <2>5, <2>6
    <3> QED BY <1>0, <2>0, <2>2, <3>1, <3>2, <3>3 DEF Told
  <2>11. SentOnce'
    BY <1>f, <2>6 DEF SentOnce
  <2> QED BY <2>7, <2>8, <2>9, <2>10, <2>11 DEF Ledger
<1>10. CASE Click(w)
  <2>0. pc(w) = "send" /\ holder = w /\ ~lapsed /\ at[w].via = "web" /\ checkpoint = rank(w)
        /\ Settled
    BY <1>0, <1>10, <1>f DEF Click, Entitled, Firm
  <2>1. CASE \E result \in {"RETRYABLE", "BLOCKED"} : GiveUp(w, result)
    BY <2>0, <2>1, GiveUpLedger
  <2>2. CASE ~\E result \in {"RETRYABLE", "BLOCKED"} : GiveUp(w, result)
    <3> DEFINE s == Step(w)
    <3>1. s \in Steps /\ s = rank(w) + 1 /\ s \in Ranks
      BY <1>f DEF Step
    <3>2. /\ real = rank(w) /\ real' = s /\ sent' = Counted(s) /\ GoRecord(w, s)
          /\ UNCHANGED <<state, checkpoint, source, holder, lapsed, intent, shown, net, mishaps>>
      <4>1. ~GiveUp(w, IF real = rank(w) THEN "RETRYABLE" ELSE "BLOCKED")
        BY <2>2
      <4> QED BY <1>10, <4>1 DEF Click
    <3> HIDE DEF s
    <3>3. PICK next \in Attempts :
            /\ at' = [at EXCEPT ![w] = next] /\ at'[w] = next
            /\ next.rank = rank(w) /\ next.note = s /\ next.pc = "record"
            /\ next.via = at[w].via
      BY <1>0, <3>1, <3>2, Marked DEF TypeOK
    <3>5. sent[4] = 0 /\ net[4] # "sent" /\ (rank(w) = 1 => Unasked)
      BY <1>0, <2>0 DEF Entitled
    <3>6. \A r \in Unrepeatable : sent'[r] = IF r = s THEN 1 ELSE sent[r]
      BY <1>f, <3>1, <3>2, <3>5 DEF Counted, Unasked
    <3>7. Side(w)'
      BY <1>f, <2>0, <3>1, <3>3 DEF Side, pc, rank
    <3>8. Entitled(w)'
      BY <2>0, <3>2, <3>3 DEF Entitled, Firm, pc, rank
    <3>9. \A v \in Workers \ {w} : Side(v)' /\ Entitled(v)'
      BY <1>0, <2>0, <3>2, <3>3, Others
    <3>10. Told'
      <4>1. checkpoint <= 1 /\ ~intent => Unasked' \/ Clicked'
        <5>1. CASE rank(w) = 0
          <6>1. ~Clicked
            BY <2>0 DEF Clicked
          <6>2. checkpoint <= 1 /\ ~intent => Unasked
            BY <1>0, <6>1 DEF Told
          <6> QED BY <3>1, <3>2, <3>6, <5>1, <6>2 DEF Unasked
        <5>2. CASE rank(w) = 1
          BY <2>0, <3>1, <3>2, <3>3, <5>2 DEF Clicked, pc
        <5> QED BY <1>f, <2>0, <5>1, <5>2
      <4>2. checkpoint < 3 => sent'[4] = 0 /\ net'[4] = "none"
        BY <1>0, <1>f, <2>0, <3>1, <3>2, <3>6 DEF Told
      <4>3. sent'[4] >= 1 => real' = 4
        BY <3>2, <3>5, <3>6
      <4> QED BY <1>0, <2>0, <3>2, <4>1, <4>2, <4>3 DEF Told
    <3>11. SentOnce'
      BY <1>f, <3>6 DEF SentOnce
    <3> QED BY <3>7, <3>8, <3>9, <3>10, <3>11 DEF Ledger
  <2> QED BY <2>1, <2>2
<1>11. CASE Acknowledged(w)
  <2> DEFINE s == Step(w)
             where == IF s <= 2 THEN "record" ELSE "poll"
             next == [at[w] EXCEPT !.note = s, !.pc = where]
  <2>1. s \in Steps /\ s = rank(w) + 1 /\ s \in Ranks
    BY <1>f DEF Step
  <2>2. where \in {"record", "poll"} /\ (s <= 2 => where = "record") /\ (s > 2 => where = "poll")
    BY <2>1
  <2>a. at' = [at EXCEPT ![w] = next]
    BY <1>11, AttemptFacts DEF Acknowledged, Answered, Attempts
  <2>3. /\ net[s] = "done" /\ net' = [net EXCEPT ![s] = "none"] /\ pc(w) = "await"
        /\ at' = [at EXCEPT ![w] = next]
        /\ UNCHANGED <<state, checkpoint, source, holder, lapsed, intent, real, shown, sent, mishaps>>
    BY <1>11, <2>a DEF Acknowledged, Answered, queue
  <2> HIDE DEF where
  <2>n. next = [at[w] EXCEPT !.note = Step(w), !.pc = where] /\ s = Step(w)
    OBVIOUS
  <2>v. next.via = at[w].via
    <3> DEFINE mid == [at[w] EXCEPT !.note = s]
    <3>1. mid \in Attempts /\ mid.via = at[w].via
      BY <1>f, <2>1 DEF Attempts
    <3>2. next = [mid EXCEPT !.pc = where]
      BY <2>n
    <3> HIDE DEF mid, next
    <3> QED BY <3>1, <3>2 DEF Attempts
  <2> HIDE DEF next, s
  <2>4. next.rank = rank(w) /\ next.note = s /\ next.pc = where
    BY <1>f, <2>1, <2>2, <2>n, NotedType
  <2>0. holder = w /\ ~lapsed /\ at[w].via = "api" /\ checkpoint = rank(w)
        /\ (rank(w) = 1 => intent)
    BY <1>0, <1>f, <2>3 DEF Entitled, Firm, Side
  <2>5. at'[w] = next /\ \A r \in Steps : net'[r] = IF r = s THEN "none" ELSE net[r]
    BY <1>0, <1>f, <2>1, <2>3 DEF TypeOK
  <2>6. Side(w)'
    BY <1>f, <2>0, <2>1, <2>2, <2>4, <2>5, <2>v DEF Side, pc, rank
  <2>7. Entitled(w)'
    <3>1. ~Settled' => s = 4
      <4>1. s # 4 => checkpoint < 3 /\ net'[4] = net[4]
        BY <1>f, <2>0, <2>1, <2>5
      <4> QED BY <1>0, <2>3, <4>1 DEF Told, Settled
    <3>2. rank(w)' = rank(w) /\ pc(w)' = where /\ at'[w].note = s /\ at'[w].via = "api"
          /\ holder' = w /\ ~lapsed'
      BY <2>0, <2>3, <2>4, <2>5, <2>v DEF rank, pc
    <3> QED BY <2>1, <2>2, <3>1, <3>2 DEF Entitled, Firm
  <2>8. \A v \in Workers \ {w} : Side(v)' /\ Entitled(v)'
    BY <1>0, <2>0, <2>3, Others
  <2>9. Told'
    <3>1. checkpoint <= 1 /\ ~intent => Unasked'
      <4>1. ~Clicked
        BY <2>0, <2>3 DEF Clicked
      <4> QED BY <1>0, <1>f, <2>0, <2>1, <2>3, <2>5, <4>1 DEF Told, Unasked
    <3>2. checkpoint < 3 => sent'[4] = 0 /\ net'[4] = "none"
      BY <1>0, <2>3, <2>5 DEF Told
    <3>3. sent'[4] >= 1 => net'[4] = "sent" \/ real' = 4
      <4>1. s = 4 => real = 4
        BY <1>f, <2>1, <2>3, AttemptFacts
      <4> QED BY <1>0, <2>3, <2>5, <4>1 DEF Told
    <3> QED BY <1>0, <2>0, <2>3, <3>1, <3>2, <3>3 DEF Told
  <2> QED BY <1>0, <2>3, <2>6, <2>7, <2>8, <2>9 DEF Ledger, SentOnce
<1>12. CASE Ambiguous(w)
  <2>0. pc(w) = "await" /\ holder = w /\ ~lapsed /\ at[w].via = "api" /\ checkpoint = rank(w)
    BY <1>0, <1>12, <1>f DEF Ambiguous, Entitled, Firm, Side
  <2>1. CASE GiveUp(w, "BLOCKED")
    BY <2>0, <2>1, GiveUpLedger
  <2>2. CASE Step(w) = 2 /\ GoTo(w, "readback") /\ UNCHANGED <<queue, erp, mishaps>>
    <3> DEFINE next == [at[w] EXCEPT !.pc = "readback"]
    <3>1. next.rank = rank(w) /\ next.note = at[w].note /\ next.pc = "readback"
          /\ next.via = at[w].via
      BY <1>f DEF Attempts, rank
    <3>2. at' = [at EXCEPT ![w] = next] /\ rank(w) = 1
          /\ UNCHANGED <<state, checkpoint, holder, lapsed, intent, real, shown, net, sent>>
      BY <1>f, <2>2 DEF GoTo, Step, queue, erp
    <3> HIDE DEF next
    <3>3. at'[w] = next
      BY <1>0, <3>2 DEF TypeOK
    <3>4. Side(w)'
      BY <2>0, <3>1, <3>3 DEF Side, pc, rank
    <3>5. Settled'
      BY <1>s, <2>0, <3>2 DEF Settled
    <3>6. Entitled(w)'
      BY <3>1, <3>3, <3>5 DEF Entitled, Firm, pc, rank
    <3> QED BY <2>0, <3>2, <3>4, <3>6, StepLedger
  <2> QED BY <1>12, <2>1, <2>2 DEF Ambiguous
<1>13. CASE Refused(w)
  <2> DEFINE s == Step(w)
             next == [at[w] EXCEPT !.pc = "ask", !.via = "offered"]
  <2>1. next.rank = rank(w) /\ next.note = at[w].note /\ next.pc = "ask" /\ next.via = "offered"
    BY <1>f DEF Attempts, rank
  <2>2. s \in Steps /\ s = rank(w) + 1
    BY <1>f DEF Step
  <2>3. /\ at' = [at EXCEPT ![w] = next] /\ net[s] = "refused" /\ pc(w) = "await"
        /\ net' = [net EXCEPT ![s] = "none"]
        /\ intent' \in {intent, FALSE} /\ (s # 2 => intent' = intent)
        /\ UNCHANGED <<state, checkpoint, source, holder, lapsed, real, shown, sent, mishaps>>
    BY <1>13 DEF Refused, Answered
  <2> HIDE DEF next, s
  <2>0. holder = w /\ ~lapsed /\ checkpoint = rank(w)
    BY <1>0, <1>f, <2>3 DEF Entitled, Firm
  <2>4. at'[w] = next /\ \A r \in Steps : net'[r] = IF r = s THEN "none" ELSE net[r]
    BY <1>0, <1>f, <2>2, <2>3 DEF TypeOK
  <2>5. sent'[4] = 0 /\ net'[4] = "none"
    <3>1. CASE rank(w) = 3
      BY <1>0, <2>2, <2>3, <2>4, <3>1 DEF Entitled
    <3>2. CASE rank(w) # 3
      BY <1>0, <1>f, <2>0, <2>2, <2>3, <2>4, <3>2 DEF Told
    <3> QED BY <3>1, <3>2
  <2>6. rank(w) = 1 => Unasked'
    BY <1>0, <2>2, <2>3, <2>4 DEF Entitled, Unasked
  <2>7. Side(w)'
    BY <2>1, <2>4 DEF Side, pc, rank
  <2>8. Entitled(w)'
    <3>1. rank(w)' = rank(w) /\ pc(w)' = "ask" /\ Settled'
      BY <2>1, <2>4, <2>5 DEF rank, pc, Settled
    <3> QED BY <2>5, <2>6, <3>1 DEF Entitled, Firm
  <2>9. \A v \in Workers \ {w} : Side(v)' /\ Entitled(v)'
    BY <1>0, <2>0, <2>3, Others
  <2>10. Told'
    <3>1. checkpoint' <= 1 => (rank(w) = 0 /\ intent' = intent) \/ rank(w) = 1
      BY <1>f, <2>0, <2>2, <2>3
    <3>2. rank(w) = 0 /\ checkpoint <= 1 /\ ~intent => Unasked'
      <4>1. ~Clicked
        BY <2>0, <2>3 DEF Clicked
      <4> QED BY <1>0, <2>2, <2>3, <2>4, <4>1 DEF Told, Unasked
    <3>3. checkpoint' <= 1 /\ ~intent' => Unasked'
      BY <2>3, <2>6, <3>1, <3>2
    <3>4. checkpoint' = 0 => ~intent'
      BY <1>0, <2>0, <2>3 DEF Told
    <3> QED BY <2>5, <3>3, <3>4 DEF Told, Settled
  <2> QED BY <1>0, <2>3, <2>7, <2>8, <2>9, <2>10 DEF Ledger, SentOnce
<1>14. CASE ReadBack(w)
  <2>0. pc(w) = "readback" /\ at[w].via = "api" /\ (holder = w => Settled) /\ rank(w) = 1
    BY <1>0, <1>14, <1>f, AttemptFacts DEF ReadBack, Side, Entitled, GiveUp
  <2>1. CASE GiveUp(w, "BLOCKED")
    BY <2>0, <2>1, GiveUpLedger
  <2>2. CASE GoRecord(w, 2) /\ UNCHANGED <<queue, erp, mishaps>>
    <3>1. PICK next \in Attempts :
            /\ at' = [at EXCEPT ![w] = next] /\ at'[w] = next
            /\ next.rank = rank(w) /\ next.note = 2 /\ next.pc = "record"
            /\ next.via = at[w].via
      BY <1>0, <2>2, Marked DEF TypeOK
    <3>3. Side(w)'
      BY <2>0, <3>1 DEF Side, pc, rank
    <3> QED BY <2>0, <2>2, <3>1, <3>3, QuietLedger
  <2> QED BY <1>14, <2>1, <2>2 DEF ReadBack
<1>15. CASE Poll(w)
  <2>0. pc(w) = "poll" /\ at[w].via = "api" /\ rank(w) >= 2
    BY <1>0, <1>15, <1>f DEF Poll, Side
  <2>1. CASE GiveUp(w, "BLOCKED")
    BY <2>0, <2>1, GiveUpLedger
  <2>2. CASE shown > rank(w) /\ GoRecord(w, shown) /\ UNCHANGED <<queue, erp, mishaps>>
    <3>0. shown \in Ranks
      BY <1>f
    <3>1. PICK next \in Attempts :
            /\ at' = [at EXCEPT ![w] = next] /\ at'[w] = next
            /\ next.rank = rank(w) /\ next.note = shown /\ next.pc = "record"
            /\ next.via = at[w].via
      BY <1>0, <2>2, <3>0, Marked DEF TypeOK
    <3>3. Side(w)'
      BY <2>0, <2>2, <3>1 DEF Side, pc, rank
    <3> QED BY <2>0, <2>2, <3>1, <3>3, QuietLedger
  <2>3. CASE /\ shown >= Wanted(w) /\ ~(shown > rank(w)) /\ GoTo(w, "ask")
             /\ UNCHANGED <<queue, erp, mishaps>>
    <3> DEFINE next == [at[w] EXCEPT !.pc = "ask"]
    <3>1. next \in Attempts /\ next.rank = rank(w) /\ next.note = at[w].note
          /\ next.pc = "ask" /\ next.via = at[w].via
      BY <1>f DEF Attempts, rank, PcStates
    <3>2. at' = [at EXCEPT ![w] = next] /\ at'[w] = next
      BY <1>0, <2>3 DEF GoTo, TypeOK
    <3> HIDE DEF next
    <3>3. Side(w)'
      BY <2>0, <3>1, <3>2 DEF Side, pc, rank
    <3>4. at[w].note # 4 /\ shown <= 3
      BY <1>f, <2>3 DEF Wanted, Largest
    <3>5. holder = w => Settled
      BY <1>0, <2>0, <3>4 DEF Entitled
    <3>6. holder = w => sent[4] = 0 /\ net[4] # "sent"
      BY <1>f, <3>4, <3>5 DEF Settled
    <3>7. rank(w) # 1 /\ next.via = "api"
      BY <1>f, <2>0, <3>1
    <3> QED BY <2>0, <2>3, <3>1, <3>2, <3>3, <3>5, <3>6, <3>7, QuietLedger
  <2> QED BY <1>15, <2>1, <2>2, <2>3 DEF Poll
<1> QED BY <1>1, <1>2, <1>3, <1>4, <1>5, <1>6, <1>7, <1>8, <1>9, <1>10, <1>11, <1>12,
           <1>13, <1>14, <1>15 DEF Worker

\* Deaths, time, the ERP and the operator.
LEMMA LedgerStep ==
    ASSUME Inv, Ledger, Faults = {}, [Next]_vars
    PROVE  Ledger'
<1>0. TypeOK /\ Told /\ SentOnce
  BY DEF Inv, Ledger
<1>f. /\ lapsed \in BOOLEAN /\ intent \in BOOLEAN /\ checkpoint \in Ranks
      /\ real \in Ranks /\ shown \in 0..real /\ at \in [Workers -> Attempts]
      /\ net \in [Steps -> {"none", "sent", "done", "refused"}]
      /\ sent \in [Unrepeatable -> 0..2] /\ sent[2] \in 0..1 /\ sent[4] \in 0..1
  BY <1>0 DEF TypeOK, SentOnce
<1>w. ASSUME NEW v \in Workers PROVE Side(v) /\ Entitled(v)
  BY DEF Ledger
<1>a. ASSUME at' = at PROVE \A v \in Workers : Side(v)'
  BY <1>a, <1>w DEF Side, pc, rank
<1>1. ASSUME NEW w \in Workers, Worker(w) PROVE Ledger'
  BY <1>1, WorkerLedger
<1>2. ASSUME NEW w \in Workers, Crash(w) PROVE Ledger'
  <2>1. /\ at' = [at EXCEPT ![w] = Idle] /\ at'[w] = Idle
        /\ holder' = IF holder = w THEN Dead ELSE holder
        /\ ~(at[w].via = "web" /\ pc(w) = "record")
        /\ UNCHANGED <<state, checkpoint, source, lapsed, intent, real, shown, net, sent>>
    BY <1>f, <1>2 DEF Crash, erp
  <2>2. Side(w)' /\ Entitled(w)'
    <3>1. Side(w)'
      BY <2>1 DEF Side, pc, rank, Idle
    <3>2. holder' # w
      BY <2>1
    <3>3. Entitled(w)'
      BY <2>1, <3>2 DEF Entitled, Firm, pc, rank, Idle
    <3> QED BY <3>1, <3>3
  <2>3. \A v \in Workers \ {w} : Side(v)' /\ Entitled(v)'
    BY <1>0, <2>1, Others
  <2>4. Clicked => Clicked'
    <3>1. Clicked => holder # w
      BY <2>1 DEF Clicked
    <3> QED BY <1>f, <2>1, <3>1 DEF Clicked, pc
  <2>5. Told'
    BY <1>0, <2>1, <2>4 DEF Told, Unasked, Settled
  <2> QED BY <1>0, <2>1, <2>2, <2>3, <2>5 DEF Ledger, SentOnce
<1>3. ASSUME NEW s \in Steps, Execute(s) PROVE Ledger'
  <2>1. /\ net[s] = "sent" /\ real' >= real /\ real' >= s /\ real' \in Ranks
        /\ \A r \in Steps : net'[r] = IF r = s THEN "done" ELSE net[r]
        /\ UNCHANGED <<state, checkpoint, source, holder, lapsed, intent, shown, sent, at>>
    BY <1>f, <1>3 DEF Execute, Largest, queue
  <2>2. (Unasked => Unasked') /\ (~Settled' => ~Settled) /\ (Clicked => Clicked')
    BY <1>f, <2>1 DEF Unasked, Settled, Clicked, pc
  <2>3. ASSUME NEW v \in Workers PROVE Entitled(v)'
    <3>1. rank(v)' = rank(v) /\ pc(v)' = pc(v) /\ (Firm(v)' => Firm(v))
      BY <2>1 DEF rank, pc, Firm
    <3>2. net'[2] \in {"none", "refused"} => net[2] \in {"none", "refused"}
      BY <2>1
    <3>3. (net'[4] \in {"none", "refused"} => net[4] \in {"none", "refused"})
          /\ (net[4] # "sent" => net'[4] # "sent")
      BY <2>1
    <3> QED BY <1>w, <2>1, <2>2, <3>1, <3>2, <3>3 DEF Entitled
  <2>4. Told'
    <3>1. checkpoint < 3 => net'[4] = "none" /\ sent'[4] = 0
      BY <1>0, <2>1 DEF Told
    <3>2. sent'[4] >= 1 => net'[4] = "sent" \/ real' = 4
      BY <1>0, <1>f, <2>1 DEF Told
    <3> QED BY <1>0, <2>1, <2>2, <3>1, <3>2 DEF Told
  <2> QED BY <1>0, <1>a, <2>1, <2>3, <2>4 DEF Ledger, SentOnce
<1>4. ASSUME NEW s \in Steps, NEW answer \in {"none", "refused"}, Fails(s, answer) PROVE Ledger'
  <2>1. /\ net[s] = "sent"
        /\ \A r \in Steps : net'[r] = IF r = s THEN answer ELSE net[r]
        /\ \A r \in Unrepeatable : sent'[r] = IF r = s THEN 0 ELSE sent[r]
        /\ UNCHANGED <<state, checkpoint, source, holder, lapsed, intent, real, shown, at>>
    <3>1. \A r \in Unrepeatable : net[r] = "sent" => sent[r] = 1
      BY <1>f DEF Inv, Known
    <3> QED BY <1>f, <1>4, <3>1 DEF Fails, queue
  <2>2. (Unasked => Unasked') /\ (~Settled' => ~Settled) /\ (Clicked => Clicked')
    BY <1>f, <2>1 DEF Unasked, Settled, Clicked, pc
  <2>3. ASSUME NEW v \in Workers PROVE Entitled(v)'
    <3>1. rank(v)' = rank(v) /\ pc(v)' = pc(v) /\ (Firm(v)' => Firm(v))
      BY <2>1 DEF rank, pc, Firm
    <3>2. net'[2] \in {"none", "refused"} => net[2] \in {"none", "refused"} \/ sent'[2] = 0
      BY <2>1
    <3>3. net'[4] \in {"none", "refused"} => net[4] \in {"none", "refused"} \/ sent'[4] = 0
      BY <2>1
    <3>4. /\ net[4] # "sent" => net'[4] # "sent"
          /\ sent[2] = 0 => sent'[2] = 0
          /\ sent[4] = 0 => sent'[4] = 0
      BY <2>1
    <3> QED BY <1>w, <2>1, <2>2, <3>1, <3>2, <3>3, <3>4 DEF Entitled
  <2>4. Told'
    <3>1. checkpoint < 3 => net'[4] = "none" /\ sent'[4] = 0
      BY <1>0, <2>1 DEF Told
    <3>2. sent'[4] >= 1 => net'[4] = "sent" \/ real' = 4
      BY <1>0, <1>f, <2>1 DEF Told
    <3> QED BY <1>0, <2>1, <2>2, <3>1, <3>2 DEF Told
  <2>5. SentOnce'
    BY <1>f, <2>1 DEF SentOnce
  <2> QED BY <1>a, <2>1, <2>3, <2>4, <2>5 DEF Ledger
<1>5. CASE Show
  <2>1. /\ shown < real /\ shown' = real
        /\ UNCHANGED <<state, checkpoint, source, holder, lapsed, intent, real, net, sent, at>>
    BY <1>5 DEF Show, queue
  <2>2. (Unasked' = Unasked) /\ (~Settled' => ~Settled) /\ (Clicked => Clicked')
    BY <1>f, <2>1 DEF Unasked, Settled, Clicked, pc
  <2>3. ASSUME NEW v \in Workers PROVE Entitled(v)'
    <3>1. rank(v)' = rank(v) /\ pc(v)' = pc(v) /\ (Firm(v)' => Firm(v))
      BY <2>1 DEF rank, pc, Firm
    <3> QED BY <1>w, <2>1, <2>2, <3>1 DEF Entitled
  <2>4. Told'
    BY <1>0, <2>1, <2>2 DEF Told
  <2> QED BY <1>0, <1>a, <2>1, <2>3, <2>4 DEF Ledger, SentOnce
<1>c. ListIsCurrent => Settled
  BY <1>0, <1>f DEF ListIsCurrent, Settled, Told
<1>6. CASE Lapse
  <2>1. /\ holder # None /\ lapsed' = TRUE
        /\ UNCHANGED <<state, checkpoint, source, holder, intent, real, shown, net, sent, at>>
        /\ (holder = Dead /\ ListIsCurrent)
             \/ (holder \in Workers /\ pc(holder) \in {"claimed", "waiting"})
    BY <1>6 DEF Lapse, erp
  <2>2. Settled
    <3>1. CASE holder = Dead /\ ListIsCurrent
      BY <1>c, <3>1
    <3>2. CASE holder \in Workers /\ pc(holder) \in {"claimed", "waiting"}
      BY <1>w, <3>2 DEF Entitled
    <3> QED BY <2>1, <3>1, <3>2
  <2>3. (Unasked' = Unasked) /\ Settled' /\ (Clicked => Clicked')
    BY <2>1, <2>2 DEF Unasked, Settled, Clicked, pc
  <2>4. ASSUME NEW v \in Workers PROVE Entitled(v)'
    <3>1. rank(v)' = rank(v) /\ pc(v)' = pc(v) /\ (Firm(v)' => Firm(v))
      BY <2>1 DEF rank, pc, Firm
    <3>2. ~Firm(v)
      <4>1. Firm(v) => holder = v
        BY <1>w DEF Entitled
      <4>2. holder = v => pc(v) \in {"claimed", "waiting"}
        BY <2>1
      <4> QED BY <4>1, <4>2 DEF Firm
    <3> QED BY <1>w, <2>1, <2>3, <3>1, <3>2 DEF Entitled
  <2>5. Told'
    BY <1>0, <2>1, <2>3 DEF Told
  <2> QED BY <1>0, <1>a, <2>1, <2>4, <2>5 DEF Ledger, SentOnce
<1>7. CASE Retry \/ MarkManuallyCompleted
  <2>1. /\ holder \notin Workers /\ holder' = None /\ lapsed' = FALSE
        /\ UNCHANGED <<intent, real, shown, net, sent, at>>
        /\ \/ ListIsCurrent /\ checkpoint' = checkpoint
           \/ state' = "DONE" /\ checkpoint' = 4
    BY <1>7 DEF Retry, MarkManuallyCompleted, erp
  <2>2. ASSUME NEW v \in Workers PROVE Entitled(v)'
    <3>1. Side(v) /\ ~Firm(v)
      BY <1>w, <2>1 DEF Entitled
    <3>2. at'[v] = at[v] /\ holder' # v
      BY <2>1
    <3> QED BY <3>1, <3>2, Bystander
  <2>3. Told'
    <3>1. ~Clicked
      BY <2>1 DEF Clicked
    <3>2. ~Settled' => state' = "DONE"
      BY <1>c, <2>1 DEF Settled
    <3> QED BY <1>0, <2>1, <3>1, <3>2 DEF Told, Unasked
  <2> QED BY <1>0, <1>a, <2>1, <2>2, <2>3 DEF Ledger, SentOnce
<1>8. CASE ByHand \/ UNCHANGED vars
  <2>1. /\ UNCHANGED <<state, checkpoint, source, holder, lapsed, intent, shown, net, sent, at>>
        /\ real' = 4 \/ real' = real
    BY <1>8 DEF ByHand, vars, queue, erp
  <2>2. Unasked' = Unasked /\ Settled' = Settled /\ (Clicked => Clicked')
    BY <2>1 DEF Unasked, Settled, Clicked, pc
  <2>3. ASSUME NEW v \in Workers PROVE Entitled(v)'
    <3>1. rank(v)' = rank(v) /\ pc(v)' = pc(v) /\ (Firm(v)' => Firm(v))
      BY <2>1 DEF rank, pc, Firm
    <3> QED BY <1>w, <2>1, <2>2, <3>1 DEF Entitled
  <2>4. Told'
    BY <1>0, <2>1, <2>2 DEF Told
  <2> QED BY <1>0, <1>a, <2>1, <2>3, <2>4 DEF Ledger, SentOnce
<1> QED BY <1>1, <1>2, <1>3, <1>4, <1>5, <1>6, <1>7, <1>8 DEF Next, Outcome

\* Across takeovers, deaths and retries the order is asked to be reviewed, and to
\* be sent out, at most once by a request that takes effect: for any number of
\* workers, deaths and lapses, where none of the four faults happens.
THEOREM SentAtMostOnce == ASSUME Faults = {} PROVE Spec => []SentOnce
<1>1. Init => Ledger
  <2> SUFFICES ASSUME Init PROVE Ledger
    OBVIOUS
  <2>1. ASSUME NEW w \in Workers PROVE Side(w) /\ Entitled(w)
    BY DEF Init, Side, Entitled, Firm, pc, rank, Idle
  <2>2. Told /\ SentOnce
    BY DEF Init, Told, SentOnce, Unasked, Settled
  <2> QED BY <2>1, <2>2 DEF Ledger
<1>2. Inv /\ Ledger /\ [Next]_vars => Ledger'
  BY LedgerStep
<1>3. Ledger => SentOnce
  BY DEF Ledger
<1> QED BY <1>1, <1>2, <1>3, Invariance, PTL DEF Spec
===============================================================================
