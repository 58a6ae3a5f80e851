------------------------ MODULE RequestJournal_proofs ------------------------
(***************************************************************************)
(* What the request journal guarantees for any number of calls, commands,  *)
(* batch sizes, faults and restarts: no part of a call takes effect twice, *)
(* what was saved or failed stays so, and a success is a success in full.  *)
(***************************************************************************)
EXTENDS RequestJournal, TLAPS

\* A handler that is at a part is at one of the call's parts.
LEMMA AtInPart ==
    ASSUME TypeOK, NEW c \in Call, AtPart(c)
    PROVE  at[c] \in Part /\ at[c] \in 1..Parts[c] /\ Parts[c] \in 1..MaxParts /\ MaxParts \in Nat
BY JournalConstants DEF TypeOK, Index, Part

\* Moving on within a part, or leaving the parts, keeps the handler at a part
\* the call has.
LEMMA MoveKeepsPart ==
    ASSUME TypeOK, NEW c \in Call, at' = at, NEW place, GoTo(c, place),
           AtPart(c) \/ place \notin {"next", "run", "accepted", "save"}
    PROVE  \A d \in Call : AtPart(d)' => at'[d] \in Index(d)
BY DEF TypeOK, GoTo, AtPart, Index

\* An answer is a reply, and the handler that gave it has a place.
LEMMA AnswerType ==
    ASSUME TypeOK, NEW c \in Call, NEW reply \in Replies, Answer(c, reply)
    PROVE  wire' \in [Call -> Replies] /\ pc' \in [Call -> PcStates]
BY DEF TypeOK, Answer, GoTo, PcStates

\* Going to a place is being at one.
LEMMA GoToType ==
    ASSUME TypeOK, NEW c \in Call, NEW place \in PcStates, GoTo(c, place)
    PROVE  pc' \in [Call -> PcStates]
BY DEF TypeOK, GoTo

\* A handler that has answered is at no part.
LEMMA AnswerKeepsPart ==
    ASSUME TypeOK, NEW c \in Call, at' = at, NEW reply, Answer(c, reply)
    PROVE  \A d \in Call : AtPart(d)' => at'[d] \in Index(d)
BY DEF TypeOK, GoTo, AtPart, Index, Answer

\* The journal and its handlers keep their shape, and no handler works on a
\* part its call does not have.
THEOREM TypeCorrect == Spec => []TypeOK
<1>1. Init => TypeOK
  BY DEF Init, TypeOK, AtPart, Part, RowStates, PcStates, Replies, ClientStates
<1>2. TypeOK /\ [Next]_vars => TypeOK'
  <2> SUFFICES ASSUME TypeOK, [Next]_vars PROVE TypeOK'
    OBVIOUS
  <2>1. ASSUME NEW c \in Call, Begin(c) PROVE TypeOK'
    <3>1. CASE registered /\ journal[c] = "none" /\ Start(c)
      <4>1. \A d \in Call : AtPart(d)' => at'[d] \in Index(d)
        <5>1. at' = [at EXCEPT ![c] = 1] /\ 1 \in Index(c)
          BY <3>1, JournalConstants DEF Start, Index
        <5>2. \A d \in Call \ {c} : pc'[d] = pc[d] /\ at'[d] = at[d]
          BY <3>1, <5>1 DEF Start, GoTo, TypeOK
        <5> QED BY <5>1, <5>2 DEF TypeOK, AtPart
      <4>2. pc' \in [Call -> PcStates]
        BY <3>1 DEF Start, GoTo, TypeOK, PcStates
      <4>3. journal' \in [Call -> RowStates] /\ at' \in [Call -> Nat]
        BY <3>1 DEF Start, TypeOK, RowStates
      <4> QED BY <2>1, <3>1, <4>1, <4>2, <4>3 DEF Begin, Start, TypeOK, desktop
    <3>2. ASSUME NEW reply \in {"409", "ok", "suppressed"}, Answer(c, reply),
                 UNCHANGED <<journal, at>>
          PROVE  TypeOK'
      <4>1. wire' \in [Call -> Replies] /\ pc' \in [Call -> PcStates]
        BY <3>2, AnswerType DEF Replies
      <4>2. \A d \in Call : AtPart(d)' => at'[d] \in Index(d)
        BY <3>2, AnswerKeepsPart
      <4> QED BY <2>1, <3>2, <4>1, <4>2 DEF Begin, TypeOK, desktop
    <3> QED BY <2>1, <3>1, <3>2 DEF Begin
  <2>2. ASSUME NEW c \in Call, BeginPart(c) PROVE TypeOK'
    <3>0. AtPart(c)
      BY <2>2 DEF BeginPart, AtPart
    <3>1. CASE registered
      <4>1. child' \in [Call -> [Part -> RowStates]]
        <5>1. child' = [child EXCEPT ![c][at[c]] = "RUNNING"]
          BY <2>2, <3>1 DEF BeginPart
        <5> QED BY <3>0, <5>1, AtInPart DEF TypeOK, RowStates
      <4>2. pc' \in [Call -> PcStates]
        <5>1. GoTo(c, "run") /\ "run" \in PcStates
          BY <2>2, <3>1 DEF BeginPart, PcStates
        <5> QED BY <5>1, GoToType
      <4>3. \A d \in Call : AtPart(d)' => at'[d] \in Index(d)
        BY <2>2, <3>0, <3>1, MoveKeepsPart DEF BeginPart
      <4> QED BY <2>2, <3>1, <4>1, <4>2, <4>3 DEF BeginPart, TypeOK, desktop
    <3>2. CASE ~registered
      <4>1. wire' \in [Call -> Replies] /\ pc' \in [Call -> PcStates]
        BY <2>2, <3>2, AnswerType DEF BeginPart, Replies
      <4>2. \A d \in Call : AtPart(d)' => at'[d] \in Index(d)
        BY <2>2, <3>2, AnswerKeepsPart DEF BeginPart
      <4> QED BY <2>2, <3>2, <4>1, <4>2 DEF BeginPart, TypeOK, desktop
    <3> QED BY <3>1, <3>2
  <2>3. ASSUME NEW c \in Call, RunPart(c) PROVE TypeOK'
    <3>0. AtPart(c)
      BY <2>3 DEF RunPart, AtPart
    <3>1. effects' \in [Call -> [Part -> Nat]]
      <4>1. at[c] \in Part
        BY <3>0, AtInPart
      <4>2. effects[c] \in [Part -> Nat] /\ effects[c][at[c]] \in Nat
        BY <4>1 DEF TypeOK
      <4>3. effects' = effects \/ effects' = [effects EXCEPT ![c][at[c]] = @ + 1]
        BY <2>3 DEF RunPart
      <4>4. CASE effects' = effects
        BY <4>4 DEF TypeOK
      <4>5. CASE effects' = [effects EXCEPT ![c][at[c]] = @ + 1]
        <5>1. [effects[c] EXCEPT ![at[c]] = @ + 1] \in [Part -> Nat]
          BY <4>1, <4>2
        <5> QED BY <4>5, <5>1 DEF TypeOK
      <4> QED BY <4>3, <4>4, <4>5
    <3>2. PICK place \in {"accepted", "save", "badrequest"} : GoTo(c, place)
      BY <2>3 DEF RunPart
    <3>3. pc' \in [Call -> PcStates]
      BY <3>2, GoToType DEF PcStates
    <3>4. \A d \in Call : AtPart(d)' => at'[d] \in Index(d)
      BY <2>3, <3>0, <3>2, MoveKeepsPart DEF RunPart
    <3> QED BY <2>3, <3>1, <3>3, <3>4 DEF RunPart, TypeOK, desktop
  <2>4. ASSUME NEW c \in Call, BindPart(c) PROVE TypeOK'
    <3>0. AtPart(c)
      BY <2>4 DEF BindPart, AtPart
    <3>1. PICK place \in {"error", "save", "badrequest"} : GoTo(c, place)
      BY <2>4 DEF BindPart
    <3>2. pc' \in [Call -> PcStates]
      BY <3>1, GoToType DEF PcStates
    <3>3. \A d \in Call : AtPart(d)' => at'[d] \in Index(d)
      BY <2>4, <3>0, <3>1, MoveKeepsPart DEF BindPart
    <3> QED BY <2>4, <3>2, <3>3 DEF BindPart, TypeOK, server, desktop
  <2>5. ASSUME NEW c \in Call, SavePart(c) PROVE TypeOK'
    <3>0. AtPart(c)
      BY <2>5 DEF SavePart, AtPart
    <3>1. CASE /\ c \in Batch
               /\ child' = [child EXCEPT ![c][at[c]] = "SUCCEEDED"]
               /\ at' = [at EXCEPT ![c] = @ + 1]
               /\ GoTo(c, IF at[c] = Parts[c] THEN "saveall" ELSE "next")
               /\ UNCHANGED <<journal, wire>>
      <4>1. child' \in [Call -> [Part -> RowStates]]
        BY <3>0, <3>1, AtInPart DEF TypeOK, RowStates
      <4>2. at' \in [Call -> Nat] /\ at'[c] = at[c] + 1
        BY <3>1 DEF TypeOK
      <4>3. pc' \in [Call -> PcStates]
        BY <3>1, GoToType DEF PcStates
      <4>4. AtPart(c)' => at'[c] \in Index(c)
        <5>1. at[c] \in 1..Parts[c] /\ Parts[c] \in Nat
          BY <3>0, AtInPart
        <5>2. AtPart(c)' => at[c] # Parts[c]
          BY <3>1 DEF TypeOK, GoTo, AtPart
        <5> QED BY <4>2, <5>1, <5>2 DEF Index
      <4>5. \A d \in Call \ {c} : AtPart(d)' => at'[d] \in Index(d)
        BY <3>1 DEF TypeOK, GoTo, AtPart, Index
      <4> QED BY <2>5, <3>1, <4>1, <4>2, <4>3, <4>4, <4>5 DEF SavePart, TypeOK, desktop
    <3>2. CASE /\ journal' = [journal EXCEPT ![c] = "SUCCEEDED"]
               /\ Answer(c, "ok")
               /\ UNCHANGED <<child, at>>
      <4>1. wire' \in [Call -> Replies] /\ pc' \in [Call -> PcStates]
        BY <3>2, AnswerType DEF Replies
      <4>2. \A d \in Call : AtPart(d)' => at'[d] \in Index(d)
        BY <3>2, AnswerKeepsPart
      <4>3. journal' \in [Call -> RowStates]
        BY <3>2 DEF TypeOK, RowStates
      <4> QED BY <2>5, <3>2, <4>1, <4>2, <4>3 DEF SavePart, TypeOK, desktop
    <3>3. CASE GoTo(c, "error") /\ UNCHANGED <<journal, child, at, wire>>
      <4>1. pc' \in [Call -> PcStates]
        BY <3>3, GoToType DEF PcStates
      <4>2. \A d \in Call : AtPart(d)' => at'[d] \in Index(d)
        BY <3>0, <3>3, MoveKeepsPart
      <4> QED BY <2>5, <3>3, <4>1, <4>2 DEF SavePart, TypeOK, desktop
    <3> QED BY <2>5, <3>1, <3>2, <3>3 DEF SavePart
  <2>6. ASSUME NEW c \in Call, SaveBatch(c) PROVE TypeOK'
    <3>1. CASE /\ journal' = [journal EXCEPT ![c] = "SUCCEEDED"]
               /\ Answer(c, "ok")
      <4>1. wire' \in [Call -> Replies] /\ pc' \in [Call -> PcStates]
        BY <3>1, AnswerType DEF Replies
      <4>2. \A d \in Call : AtPart(d)' => at'[d] \in Index(d)
        BY <2>6, <3>1, AnswerKeepsPart DEF SaveBatch
      <4>3. journal' \in [Call -> RowStates]
        BY <3>1 DEF TypeOK, RowStates
      <4> QED BY <2>6, <3>1, <4>1, <4>2, <4>3 DEF SaveBatch, TypeOK, desktop
    <3>2. CASE GoTo(c, "error") /\ UNCHANGED <<journal, wire>>
      <4>1. pc' \in [Call -> PcStates]
        BY <3>2, GoToType DEF PcStates
      <4>2. \A d \in Call : AtPart(d)' => at'[d] \in Index(d)
        BY <2>6, <3>2, MoveKeepsPart DEF SaveBatch
      <4> QED BY <2>6, <3>2, <4>1, <4>2 DEF SaveBatch, TypeOK, desktop
    <3> QED BY <2>6, <3>1, <3>2 DEF SaveBatch
  <2>7. ASSUME NEW c \in Call, Fail(c) PROVE TypeOK'
    <3>1. PICK reply \in {"400", "500"} : Answer(c, reply)
      BY <2>7 DEF Fail
    <3>2. wire' \in [Call -> Replies] /\ pc' \in [Call -> PcStates]
      BY <3>1, AnswerType DEF Replies
    <3>3. \A d \in Call : AtPart(d)' => at'[d] \in Index(d)
      BY <2>7, <3>1, AnswerKeepsPart DEF Fail
    <3>4. journal' \in [Call -> RowStates]
      BY <2>7 DEF Fail, TypeOK, RowStates
    <3>5. child' \in [Call -> [Part -> RowStates]]
      BY <2>7 DEF Fail, TypeOK, RowStates
    <3> QED BY <2>7, <3>2, <3>3, <3>4, <3>5 DEF Fail, TypeOK, desktop
  <2>8. ASSUME NEW c \in Call, Click(c) PROVE TypeOK'
    BY <2>8 DEF Click, TypeOK, ClientStates, AtPart, server, handler
  <2>9. ASSUME NEW c \in Call, Send(c) PROVE TypeOK'
    <3>1. pc' \in [Call -> PcStates]
      BY <2>9, GoToType DEF Send, PcStates
    <3>2. \A d \in Call : AtPart(d)' => at'[d] \in Index(d)
      BY <2>9, MoveKeepsPart DEF Send
    <3>3. client' \in [Call -> ClientStates]
      BY <2>9 DEF Send, TypeOK, ClientStates
    <3> QED BY <2>9, <3>1, <3>2, <3>3 DEF Send, TypeOK, server
  <2>10. ASSUME NEW c \in Call, TimeOut(c) PROVE TypeOK'
    BY <2>10 DEF TimeOut, Reconcile, TypeOK, ClientStates, AtPart, server, handler
  <2>11. ASSUME NEW c \in Call, Receive(c) PROVE TypeOK'
    <3>1. wire' \in [Call -> Replies]
      BY <2>11 DEF Receive, TypeOK, Replies
    <3>2. client' \in [Call -> ClientStates]
      BY <2>11 DEF Receive, Reconcile, TypeOK, ClientStates
    <3>3. guard' \in [Command -> Call \cup {NoCall}]
      BY <2>11, JournalConstants DEF Receive, Reconcile, TypeOK
    <3>4. at' = at /\ (pc' = pc \/ GoTo(c, "arrived"))
      BY <2>11 DEF Receive
    <3>5. pc' \in [Call -> PcStates]
      BY <3>4, GoToType DEF PcStates, TypeOK
    <3>6. \A d \in Call : AtPart(d)' => at'[d] \in Index(d)
      BY <3>4, MoveKeepsPart DEF TypeOK, AtPart
    <3>7. resent' \subseteq Call /\ registered' \in BOOLEAN
      BY <2>11 DEF Receive, TypeOK
    <3> QED BY <2>11, <3>1, <3>2, <3>3, <3>5, <3>6, <3>7 DEF Receive, TypeOK, server
  <2>12. ASSUME NEW c \in Call, Poll(c) PROVE TypeOK'
    BY <2>12 DEF Poll, TypeOK, ClientStates, AtPart, server, handler
  <2>13. CASE LoseRow \/ Register
    BY <2>13 DEF TypeOK, LoseRow, Register, server, handler, desktop, AtPart
  <2>14. CASE Restart
    <3>1. \A d \in Call : ~AtPart(d)'
      BY <2>14 DEF Restart, AtPart
    <3>2. pc' \in [Call -> PcStates]
      BY <2>14 DEF Restart, PcStates
    <3>3. journal' \in [Call -> RowStates]
      BY <2>14 DEF Restart, TypeOK, RowStates
    <3>4. child' \in [Call -> [Part -> RowStates]]
      BY <2>14 DEF Restart, TypeOK, RowStates
    <3>5. restarts' \in Nat
      BY <2>14 DEF Restart, TypeOK
    <3> QED BY <2>14, <3>1, <3>2, <3>3, <3>4, <3>5 DEF Restart, TypeOK, desktop
  <2>15. CASE UNCHANGED vars
    BY <2>15 DEF TypeOK, vars, AtPart
  <2> QED
    BY <2>1, <2>2, <2>3, <2>4, <2>5, <2>6, <2>7, <2>8, <2>9, <2>10, <2>11, <2>12,
       <2>13, <2>14, <2>15
       DEF Next, Serve
<1> QED
  BY <1>1, <1>2, PTL DEF Spec

-----------------------------------------------------------------------------
(* The inductive invariant.                                                *)

\* The handler of a call has begun and has not answered.
Working(c) == pc[c] \notin {"off", "arrived"}

\* A step of one call leaves the others alone.
LEMMA OthersKeep ==
    ASSUME TypeOK, NEW c \in Call,
           Serve(c) \/ Click(c) \/ Send(c) \/ TimeOut(c) \/ Receive(c) \/ Poll(c)
    PROVE  \A d \in Call \ {c} :
              /\ journal'[d] = journal[d] /\ child'[d] = child[d]
              /\ effects'[d] = effects[d] /\ at'[d] = at[d] /\ pc'[d] = pc[d]
              /\ wire'[d] = wire[d] /\ client'[d] = client[d]
<1> USE DEF TypeOK, GoTo, Answer
<1>1. CASE Begin(c)
  BY <1>1 DEF Begin, Start, desktop
<1>2. CASE BeginPart(c)
  BY <1>2 DEF BeginPart, desktop
<1>3. CASE RunPart(c)
  BY <1>3 DEF RunPart, desktop
<1>4. CASE BindPart(c)
  BY <1>4 DEF BindPart, server, desktop
<1>5. CASE SavePart(c)
  BY <1>5 DEF SavePart, desktop
<1>6. CASE SaveBatch(c)
  BY <1>6 DEF SaveBatch, desktop
<1>7. CASE Fail(c)
  BY <1>7 DEF Fail, desktop
<1>8. CASE Click(c)
  BY <1>8 DEF Click, server, handler
<1>9. CASE Send(c)
  BY <1>9 DEF Send, server
<1>10. CASE TimeOut(c)
  BY <1>10 DEF TimeOut, Reconcile, server, handler
<1>11. CASE Receive(c)
  BY <1>11 DEF Receive, Reconcile, server
<1>12. CASE Poll(c)
  BY <1>12 DEF Poll, server, handler
<1> QED
  BY <1>1, <1>2, <1>3, <1>4, <1>5, <1>6, <1>7, <1>8, <1>9, <1>10, <1>11, <1>12 DEF Serve
\* A working handler owns a RUNNING row.
RowRuns(c) == Working(c) => journal[c] = "RUNNING"

\* Nothing has happened for a call without a row, and a working handler has
\* run no part after the one it is at, nor that one before it is past its run.
PartsInOrder(c) ==
    /\ journal[c] = "none" => \A i \in Index(c) : effects[c][i] = 0
    /\ Working(c) => \A i \in Index(c) :
          i > at[c] \/ (i = at[c] /\ pc[c] \in {"next", "run"}) => effects[c][i] = 0

CallOnce(c) ==
    RowRuns(c) /\ PartsInOrder(c) /\ \A i \in Index(c) : effects[c][i] <= 1

OnceInv == TypeOK /\ \A c \in Call : CallOnce(c)

\* A step of the handler of a call keeps the call's part of the invariant.
LEMMA ServeOnce ==
    ASSUME TypeOK, NEW c \in Call, CallOnce(c), Serve(c)
    PROVE  CallOnce(c)'
<1> USE DEF TypeOK, CallOnce, RowRuns, PartsInOrder, Working, GoTo, Answer
<1>0. AtPart(c) => at[c] \in Part /\ at[c] \in Nat
  BY AtInPart
<1>1. CASE Begin(c)
  <2>1. CASE registered /\ journal[c] = "none" /\ Start(c)
    BY <1>1, <2>1 DEF Begin, Start
  <2>2. CASE UNCHANGED <<journal, at>> /\ pc'[c] = "off"
    BY <1>1, <2>2 DEF Begin, Start
  <2> QED BY <1>1, <2>1, <2>2 DEF Begin
<1>2. CASE BeginPart(c)
  BY <1>2 DEF BeginPart
<1>3. CASE RunPart(c)
  <2>1. \A i \in Index(c) : effects[c][i] \in Nat /\ i \in Part /\ i \in Nat
    BY JournalConstants DEF Index, Part
  <2>2. effects[c][at[c]] = 0 /\ at[c] \in Index(c)
    BY <1>3, <2>1 DEF RunPart, AtPart
  <2>3. \A i \in Index(c) : i # at[c] => effects'[c][i] = effects[c][i]
    BY <1>3, <2>1 DEF RunPart
  <2>4. effects'[c][at[c]] <= 1
    BY <1>0, <1>3, <2>2 DEF RunPart, AtPart
  <2>5. journal'[c] = "RUNNING" /\ at' = at /\ pc'[c] \notin {"next", "run"}
    BY <1>3 DEF RunPart
  <2> QED BY <1>0, <1>3, <2>1, <2>2, <2>3, <2>4, <2>5 DEF RunPart, AtPart
<1>4. CASE BindPart(c)
  BY <1>4 DEF BindPart, server
<1>5. CASE SavePart(c)
  <2>1. \A i \in Index(c) : i \in Nat
    BY DEF Index
  <2>2. effects' = effects
    BY <1>5 DEF SavePart
  <2>3. at[c] \in Nat /\ (at'[c] = at[c] \/ at'[c] = at[c] + 1)
    BY <1>5 DEF SavePart
  <2>4. pc'[c] = "off" \/ (pc'[c] = "error" /\ at'[c] = at[c]) \/ at'[c] = at[c] + 1
    BY <1>5 DEF SavePart
  <2>5. journal'[c] = "RUNNING" \/ (pc'[c] = "off" /\ journal'[c] = "SUCCEEDED")
    BY <1>5 DEF SavePart
  <2> QED BY <1>5, <2>1, <2>2, <2>3, <2>4, <2>5 DEF SavePart
<1>6. CASE SaveBatch(c)
  BY <1>6 DEF SaveBatch
<1>7. CASE Fail(c)
  BY <1>7 DEF Fail
<1> QED
  BY <1>1, <1>2, <1>3, <1>4, <1>5, <1>6, <1>7 DEF Serve

\* The invariant behind ExecutedOnce and FinalOutcome.
LEMMA OnceInvariant == Spec => []OnceInv
<1>1. Init => OnceInv
  BY TypeCorrect, JournalConstants DEF Init, OnceInv, CallOnce, RowRuns, PartsInOrder, Working, TypeOK,
     Index, Part, AtPart, RowStates, PcStates, Replies, ClientStates
<1>2. OnceInv /\ TypeOK' /\ [Next]_vars => OnceInv'
  <2> SUFFICES ASSUME OnceInv, TypeOK', [Next]_vars, NEW d \in Call PROVE CallOnce(d)'
    BY DEF OnceInv
  <2>1. TypeOK /\ CallOnce(d)
    BY DEF OnceInv
  <2> USE DEF CallOnce, RowRuns, PartsInOrder, Working
  <2>2. ASSUME NEW c \in Call, c # d,
               Serve(c) \/ Click(c) \/ Send(c) \/ TimeOut(c) \/ Receive(c) \/ Poll(c)
        PROVE  CallOnce(d)'
    BY <2>1, <2>2, OthersKeep
  <2>3. CASE Serve(d)
    BY <2>1, <2>3, ServeOnce
  <2>4. CASE Click(d) \/ TimeOut(d) \/ Poll(d)
    BY <2>1, <2>4 DEF Click, TimeOut, Poll, server, handler
  <2>5. CASE Send(d) \/ Receive(d)
    BY <2>1, <2>5 DEF Send, Receive, Reconcile, GoTo, TypeOK, server
  <2>6. CASE LoseRow \/ Register
    BY <2>1, <2>6 DEF LoseRow, Register, server, handler
  <2>7. CASE Restart
    BY <2>1, <2>7 DEF Restart, TypeOK
  <2>8. CASE UNCHANGED vars
    BY <2>1, <2>8 DEF vars
  <2> QED BY <2>2, <2>3, <2>4, <2>5, <2>6, <2>7, <2>8 DEF Next
<1> QED
  BY <1>1, <1>2, TypeCorrect, PTL DEF Spec

\* No part of a call takes effect twice, for any number of resends, faults and
\* restarts.
THEOREM ExecutedOnce == Spec => []AtMostOnce
<1>1. OnceInv => AtMostOnce
  BY DEF OnceInv, CallOnce, AtMostOnce
<1> QED
  BY <1>1, OnceInvariant, PTL

-----------------------------------------------------------------------------
\* What the client and the wire report as done is journaled as done, and each
\* child of a batch is saved before the next one begins.
CallDone(c) ==
    /\ RowRuns(c)
    /\ client[c] = "succeeded" \/ wire[c] = "ok" => journal[c] = "SUCCEEDED"
    /\ c \in Batch /\ Working(c) => \A i \in Index(c) :
          i < at[c] \/ pc[c] = "saveall" => child[c][i] = "SUCCEEDED"
    /\ c \in Batch /\ journal[c] = "SUCCEEDED" => \A i \in Index(c) :
          child[c][i] = "SUCCEEDED"

DoneInv == TypeOK /\ \A c \in Call : CallDone(c)

\* A step of the handler of a call keeps the call's part of the invariant.
LEMMA ServeDone ==
    ASSUME TypeOK, NEW c \in Call, CallDone(c), Serve(c)
    PROVE  CallDone(c)'
<1> USE DEF TypeOK, CallDone, RowRuns, Working, GoTo, Answer
<1>0. \A i \in Index(c) : i \in Part /\ i \in Nat
  BY JournalConstants DEF Index, Part
<1>1. CASE Begin(c)
  <2>1. CASE registered /\ journal[c] = "none" /\ Start(c)
    BY <1>0, <1>1, <2>1 DEF Begin, Start, desktop, Index
  <2>2. CASE UNCHANGED <<journal, at>> /\ pc'[c] = "off"
    BY <1>1, <2>2 DEF Begin, Start, desktop
  <2> QED BY <1>1, <2>1, <2>2 DEF Begin
<1>2. CASE BeginPart(c)
  <2>1. at[c] \in Nat /\ journal[c] = "RUNNING"
    BY <1>2 DEF BeginPart
  <2>2. \A i \in Index(c) : i < at[c] => child'[c][i] = child[c][i]
    BY <1>0, <1>2, <2>1 DEF BeginPart
  <2> QED BY <1>2, <2>1, <2>2 DEF BeginPart, desktop
<1>3. CASE RunPart(c)
  BY <1>3 DEF RunPart, desktop
<1>4. CASE BindPart(c)
  BY <1>4 DEF BindPart, server, desktop
<1>5. CASE SavePart(c)
  <2>1. at[c] \in Nat /\ at[c] \in Index(c) /\ journal[c] = "RUNNING"
    BY <1>5 DEF SavePart, AtPart
  <2>2. CASE /\ c \in Batch
             /\ child' = [child EXCEPT ![c][at[c]] = "SUCCEEDED"]
             /\ at' = [at EXCEPT ![c] = @ + 1]
             /\ GoTo(c, IF at[c] = Parts[c] THEN "saveall" ELSE "next")
             /\ UNCHANGED <<journal, wire>>
    <3>1. \A i \in Index(c) : i <= at[c] => child'[c][i] = "SUCCEEDED"
      <4>1. \A i \in Index(c) : child'[c][i] = IF i = at[c] THEN "SUCCEEDED" ELSE child[c][i]
        BY <1>0, <2>2
      <4>2. \A i \in Index(c) : i < at[c] => child[c][i] = "SUCCEEDED"
        BY <1>5, <2>2 DEF SavePart
      <4> SUFFICES ASSUME NEW i \in Index(c), i <= at[c] PROVE child'[c][i] = "SUCCEEDED"
        OBVIOUS
      <4>3. i = at[c] \/ i < at[c]
        <5> HIDE DEF TypeOK, CallDone, RowRuns, Working, GoTo, Answer
        <5>1. i \in Nat /\ at[c] \in Nat
          BY <1>0, <2>1
        <5> QED BY <5>1
      <4> QED BY <4>1, <4>2, <4>3
    <3>2. at'[c] = at[c] + 1 /\ (pc'[c] = "saveall" => at[c] = Parts[c])
      BY <2>2
    <3>3. \A i \in Index(c) : i < at'[c] \/ pc'[c] = "saveall" => i <= at[c]
      BY <1>0, <2>1, <3>2, JournalConstants DEF Index
    <3> QED BY <1>5, <2>1, <2>2, <3>1, <3>3 DEF SavePart, desktop
  <2>3. CASE c \notin Batch /\ journal' = [journal EXCEPT ![c] = "SUCCEEDED"]
    BY <1>5, <2>3 DEF SavePart, desktop
  <2>4. CASE GoTo(c, "error") /\ UNCHANGED <<journal, child, at, wire>>
    BY <1>5, <2>4 DEF SavePart, desktop
  <2> QED BY <1>5, <2>2, <2>3, <2>4 DEF SavePart
<1>6. CASE SaveBatch(c)
  BY <1>6 DEF SaveBatch, desktop
<1>7. CASE Fail(c)
  <2>1. journal'[c] = "FAILED" /\ pc'[c] = "off" /\ client' = client
    BY <1>7 DEF Fail, desktop
  <2>2. wire'[c] # "ok"
    BY <1>7 DEF Fail
  <2>3. client[c] # "succeeded"
    BY <1>7 DEF Fail
  <2> QED BY <2>1, <2>2, <2>3
<1> QED
  BY <1>1, <1>2, <1>3, <1>4, <1>5, <1>6, <1>7 DEF Serve

\* The invariant behind DoneInFull and PromiseKept.
LEMMA DoneInvariant == Spec => []DoneInv
<1>1. Init => DoneInv
  BY TypeCorrect, JournalConstants DEF Init, DoneInv, CallDone, RowRuns, Working, TypeOK,
     Index, Part, AtPart, RowStates, PcStates, Replies, ClientStates
<1>2. DoneInv /\ TypeOK' /\ [Next]_vars => DoneInv'
  <2> SUFFICES ASSUME DoneInv, TypeOK', [Next]_vars, NEW d \in Call PROVE CallDone(d)'
    BY DEF DoneInv
  <2>1. TypeOK /\ CallDone(d)
    BY DEF DoneInv
  <2> USE DEF CallDone, RowRuns, Working
  <2>2. ASSUME NEW c \in Call, c # d,
               Serve(c) \/ Click(c) \/ Send(c) \/ TimeOut(c) \/ Receive(c) \/ Poll(c)
        PROVE  CallDone(d)'
    BY <2>1, <2>2, OthersKeep
  <2>3. CASE Serve(d)
    BY <2>1, <2>3, ServeDone
  <2>4. CASE Click(d) \/ TimeOut(d) \/ Poll(d)
    BY <2>1, <2>4 DEF Click, TimeOut, Poll, Reconcile, TypeOK, server, handler
  <2>5. CASE Send(d)
    BY <2>1, <2>5 DEF Send, GoTo, TypeOK, server
  <2>6. CASE Receive(d)
    BY <2>1, <2>6 DEF Receive, Reconcile, GoTo, TypeOK, server
  <2>7. CASE LoseRow \/ Register
    BY <2>1, <2>7 DEF LoseRow, Register, server, handler, desktop
  <2>8. CASE Restart
    <3>1. \A i \in Index(d) : i \in Part
      BY JournalConstants DEF Index, Part
    <3> QED BY <2>1, <2>8, <3>1 DEF Restart, TypeOK, desktop
  <2>9. CASE UNCHANGED vars
    BY <2>1, <2>9 DEF vars
  <2> QED BY <2>2, <2>3, <2>4, <2>5, <2>6, <2>7, <2>8, <2>9 DEF Next
<1> QED
  BY <1>1, <1>2, TypeCorrect, PTL DEF Spec

\* What is reported as done was saved as done, down to every child of a batch.
THEOREM DoneInFull == Spec => []SuccessIsComplete
<1>1. DoneInv => SuccessIsComplete
  BY DEF DoneInv, CallDone, SuccessIsComplete
<1> QED
  BY <1>1, DoneInvariant, PTL

-----------------------------------------------------------------------------
\* What a poll learns is final: a row that has succeeded or failed stays so, and
\* the call has no effect any more.
THEOREM FinalOutcome == Spec => OutcomeIsFinal
<1> DEFINE RunsInv == TypeOK /\ \A c \in Call : RowRuns(c)
           Final(c) == journal[c] \in {"SUCCEEDED", "FAILED"} =>
                          journal'[c] = journal[c] /\ effects'[c] = effects[c]
<1>1. RunsInv /\ [Next]_vars => \A c \in Call : Final(c)
  <2> SUFFICES ASSUME RunsInv, [Next]_vars, NEW d \in Call PROVE Final(d)
    OBVIOUS
  <2>1. TypeOK /\ RowRuns(d)
    OBVIOUS
  <2> USE DEF RowRuns, Working
  <2>2. ASSUME NEW c \in Call, c # d,
               Serve(c) \/ Click(c) \/ Send(c) \/ TimeOut(c) \/ Receive(c) \/ Poll(c)
        PROVE  Final(d)
    BY <2>1, <2>2, OthersKeep
  <2>3. CASE Begin(d)
    BY <2>1, <2>3 DEF Begin, Start, TypeOK
  <2>4. CASE BeginPart(d) \/ RunPart(d) \/ BindPart(d) \/ SavePart(d) \/ SaveBatch(d) \/ Fail(d)
    BY <2>1, <2>4 DEF BeginPart, RunPart, BindPart, SavePart, SaveBatch, Fail
  <2>5. CASE Click(d) \/ Send(d) \/ TimeOut(d) \/ Receive(d) \/ Poll(d)
    BY <2>5 DEF Click, Send, TimeOut, Receive, Poll, server
  <2>6. CASE LoseRow \/ Register
    BY <2>6 DEF LoseRow, Register, server
  <2>7. CASE Restart
    BY <2>1, <2>7 DEF Restart, TypeOK
  <2>8. CASE UNCHANGED vars
    BY <2>8 DEF vars
  <2> QED BY <2>2, <2>3, <2>4, <2>5, <2>6, <2>7, <2>8 DEF Next, Serve
<1>2. OnceInv => RunsInv
  BY DEF OnceInv, CallOnce
<1>3. RunsInv /\ [Next]_vars =>
         [\A c \in Call : Final(c)]_vars
  BY <1>1
<1> QED
  BY <1>2, <1>3, OnceInvariant, PTL DEF Spec, OutcomeIsFinal

-----------------------------------------------------------------------------
\* The journal implements the promise it makes: every step of the server, the
\* client and the restart is a step of RequestPromise or changes nothing of it.
THEOREM PromiseKept == Spec => KeepsPromise
<1>1. Init => Promise!Init
  BY DEF Init, Promise!Init, Outcome, Told
<1> DEFINE Same == UNCHANGED <<Outcome, effects, Told>>
<1>2. OnceInv /\ DoneInv /\ [Next]_vars => Promise!Next \/ Same
  <2> SUFFICES ASSUME OnceInv, DoneInv, [Next]_vars PROVE Promise!Next \/ Same
    OBVIOUS
  <2>0. TypeOK
    BY DEF OnceInv
  <2>1. ASSUME journal' = journal, client' = client, effects' = effects PROVE Same
    BY <2>1 DEF Outcome, Told
  <2>2. ASSUME NEW c \in Call, Begin(c) \/ BeginPart(c) \/ BindPart(c) PROVE Same
    <3>1. effects' = effects /\ client' = client
      BY <2>2 DEF Begin, BeginPart, BindPart, server, desktop
    <3>2. journal' = journal \/ (journal[c] = "none" /\ journal' = [journal EXCEPT ![c] = "RUNNING"])
      BY <2>2 DEF Begin, Start, BeginPart, BindPart, server
    <3> QED BY <2>0, <3>1, <3>2 DEF TypeOK, Outcome, Told
  <2>3. ASSUME NEW c \in Call, RunPart(c) PROVE Promise!Next \/ Same
    <3>1. journal' = journal /\ client' = client
      BY <2>3 DEF RunPart, desktop
    <3>2. Outcome' = Outcome /\ Told' = Told
      BY <3>1 DEF Outcome, Told
    <3>3. CASE effects' = effects
      BY <3>2, <3>3
    <3>4. CASE effects' = [effects EXCEPT ![c][at[c]] = @ + 1]
      <4>1. AtPart(c) /\ Working(c) /\ pc[c] = "run"
        BY <2>3 DEF RunPart, AtPart, Working
      <4>2. at[c] \in Part /\ at[c] \in Index(c)
        BY <2>0, <4>1, AtInPart DEF Index
      <4>3. effects[c][at[c]] = 0 /\ journal[c] = "RUNNING"
        BY <4>1, <4>2 DEF OnceInv, CallOnce, RowRuns, PartsInOrder
      <4>4. effects' = [effects EXCEPT ![c][at[c]] = 1]
        BY <2>0, <3>4, <4>2, <4>3 DEF TypeOK
      <4>5. Outcome[c] = "open"
        BY <4>3 DEF Outcome
      <4>6. Promise!TakeEffect(c, at[c])
        BY <3>2, <4>3, <4>4, <4>5 DEF Promise!TakeEffect
      <4> QED BY <4>2, <4>6 DEF Promise!Next
    <3> QED BY <2>3, <3>3, <3>4 DEF RunPart
  <2>4. ASSUME NEW c \in Call, SavePart(c) \/ SaveBatch(c) PROVE Promise!Next \/ Same
    <3>1. effects' = effects /\ client' = client /\ Working(c)
      BY <2>4 DEF SavePart, SaveBatch, desktop, Working
    <3>2. journal' = journal \/ journal' = [journal EXCEPT ![c] = "SUCCEEDED"]
      BY <2>4 DEF SavePart, SaveBatch
    <3>3. CASE journal' = [journal EXCEPT ![c] = "SUCCEEDED"]
      <4>1. journal[c] = "RUNNING"
        BY <3>1 DEF OnceInv, CallOnce, RowRuns
      <4>2. Outcome[c] = "open" /\ Outcome' = [Outcome EXCEPT ![c] = "done"] /\ Told' = Told
        BY <2>0, <3>1, <3>3, <4>1 DEF TypeOK, Outcome, Told
      <4> QED BY <3>1, <4>2 DEF Promise!Next, Promise!Succeed
    <3> QED BY <2>1, <3>1, <3>2, <3>3
  <2>5. ASSUME NEW c \in Call, Fail(c) PROVE Promise!Next \/ Same
    <3>1. Working(c) /\ effects' = effects /\ client' = client
      BY <2>5 DEF Fail, Working, desktop
    <3>2. journal[c] = "RUNNING" /\ journal' = [journal EXCEPT ![c] = "FAILED"]
      BY <2>5, <3>1 DEF OnceInv, CallOnce, RowRuns, Fail
    <3>3. Outcome[c] = "open" /\ Told' = Told
      BY <3>1, <3>2 DEF Outcome, Told
    <3>4. Outcome' = [d \in Call |-> IF d \in {c} THEN "failed" ELSE Outcome[d]]
      BY <2>0, <3>2 DEF TypeOK, Outcome
    <3>5. Promise!GiveUp({c})
      BY <3>1, <3>3, <3>4 DEF Promise!GiveUp
    <3> QED BY <3>5 DEF Promise!Next
  <2>6. ASSUME NEW c \in Call, Click(c) \/ Send(c) \/ TimeOut(c) PROVE Same
    <3>1. journal' = journal /\ effects' = effects
      BY <2>6 DEF Click, Send, TimeOut, server
    <3>2. \E place \in {"cleared", "held", "waiting", "unknown"} :
             client' = [client EXCEPT ![c] = place]
      BY <2>6 DEF Click, Send, TimeOut, Reconcile
    <3>3. client[c] \notin {"succeeded", "failed"}
      BY <2>6 DEF Click, Send, TimeOut
    <3> QED BY <2>0, <3>1, <3>2, <3>3 DEF TypeOK, Outcome, Told
  <2>7. ASSUME NEW c \in Call, Receive(c) \/ Poll(c) PROVE Promise!Next \/ Same
    <3>1. journal' = journal /\ effects' = effects /\ Outcome' = Outcome
      BY <2>7 DEF Receive, Poll, server, Outcome
    <3>2. client[c] \in {"waiting", "unknown"} /\ Told[c] = "nothing"
      BY <2>7 DEF Receive, Poll, Told
    <3>3. CASE client' = client
      BY <2>1, <3>1, <3>3
    <3>4. CASE client' = [client EXCEPT ![c] = "unknown"]
      BY <2>0, <3>1, <3>2, <3>4 DEF TypeOK, Told
    <3>5. CASE client' = [client EXCEPT ![c] = "failed"]
      <4>1. Told' = [Told EXCEPT ![c] = "failed"]
        BY <2>0, <3>5 DEF TypeOK, Told
      <4> QED BY <3>1, <3>2, <4>1 DEF Promise!Next, Promise!Tell
    <3>6. CASE client' = [client EXCEPT ![c] = "succeeded"] /\ (wire[c] = "ok" \/ journal[c] = "SUCCEEDED")
      <4>1. Outcome[c] = "done"
        BY <3>6 DEF DoneInv, CallDone, Outcome
      <4>2. Told' = [Told EXCEPT ![c] = "done"]
        BY <2>0, <3>6 DEF TypeOK, Told
      <4> QED BY <3>1, <3>2, <4>1, <4>2 DEF Promise!Next, Promise!Tell
    <3> QED BY <2>7, <3>3, <3>4, <3>5, <3>6 DEF Receive, Poll, Reconcile
  <2>8. CASE LoseRow \/ Register \/ UNCHANGED vars
    BY <2>1, <2>8 DEF LoseRow, Register, vars, server, desktop
  <2>9. CASE Restart
    <3> DEFINE Open == {c \in Call : journal[c] = "RUNNING"}
    <3>1. effects' = effects /\ Told' = Told
      BY <2>9 DEF Restart, desktop, Told
    <3>2. Outcome' = [c \in Call |-> IF c \in Open THEN "failed" ELSE Outcome[c]]
      BY <2>9 DEF Restart, Outcome
    <3>3. CASE Open = {}
      BY <3>1, <3>2, <3>3 DEF Outcome
    <3>4. CASE Open # {}
      <4>1. \A c \in Open : Outcome[c] = "open"
        BY DEF Outcome
      <4>2. Promise!GiveUp(Open)
        BY <3>1, <3>2, <3>4, <4>1 DEF Promise!GiveUp
      <4> QED BY <4>2 DEF Promise!Next
    <3> QED BY <3>3, <3>4
  <2> QED
    BY <2>2, <2>3, <2>4, <2>5, <2>6, <2>7, <2>8, <2>9 DEF Next, Serve
<1> QED
  BY <1>1, <1>2, OnceInvariant, DoneInvariant, PTL DEF Spec, KeepsPromise, Promise!Spec
=============================================================================
