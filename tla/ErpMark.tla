------------------------------- MODULE ErpMark -------------------------------
(***************************************************************************)
(* Marking one queued shipment as sent in the ERP: the job's row in the     *)
(* shipment queue (shipment_automation/queue_store.py), the workers that     *)
(* claim it (erp_mark_ship.py, process_erp_mark_items_once), the staged API  *)
(* adapter (application/api_erp_mark.py) and the order in the ERP.           *)
(*                                                                         *)
(* The order goes through four steps: 1 its channel is set, 2 it is          *)
(* reviewed, 3 its tracking number is saved, 4 it is sent out.  The queue    *)
(* keeps the last step recorded ("checkpoint"); the ERP keeps the last step  *)
(* that happened ("real") and shows it in its list of sales outbound orders  *)
(* only some time later ("shown").  A request whose answer is lost may have  *)
(* been executed, may still be, or may never be.                             *)
(*                                                                         *)
(* A worker's owner id is a fresh uuid of one claim, so the job's version    *)
(* agrees with a worker's exactly while the lease is still its own: holder   *)
(* stands for lease_owner, lease_stage and version together.                 *)
(***************************************************************************)
EXTENDS Integers, FiniteSets

CONSTANTS Workers,      \* worker runs that may claim the job
          Dead,         \* the owner id of a run that died
          None,         \* no owner
          MaxMishaps,   \* bound on deaths of workers and on leases that pass under live ones
          Faults        \* the rare events this instance allows

ASSUME WorkersAssumption == Dead \notin Workers /\ None \notin Workers /\ Dead # None
ASSUME MishapsAssumption == MaxMishaps \in Nat

\* suspended: a worker sleeps past its lease between its confirmation and its
\* request; slow_list: the outbound list still lacks a step of a dead attempt
\* when the job is claimed again; retry_beside: the operator retries a stage
\* under a running worker; web_lost: the page's click happened, its end did not.
FaultKinds == {"suspended", "slow_list", "retry_beside", "web_lost"}

ASSUME FaultsAssumption == Faults \subseteq FaultKinds

VARIABLES
  state,        \* shipment_erp.state
  checkpoint,   \* shipment_erp.checkpoint, as its rank
  source,       \* shipment_erp.completion_source
  holder,       \* who holds the job's lease
  lapsed,       \* lease_until has passed
  intent,       \* a review intent is on record that nothing has closed
  real,         \* the last step the ERP has executed
  shown,        \* the last step the ERP's list of outbound orders shows
  net,          \* [Steps -> what became of the last request for the step]
  sent,         \* [Unrepeatable -> requests executed or on their way], up to 2
  at,           \* [Workers -> the worker's attempt]
  mishaps

queue == <<state, checkpoint, source, holder, lapsed, intent>>
erp == <<real, shown, net, sent>>
vars == <<queue, erp, at, mishaps>>

Steps == 1..4
Unrepeatable == {2, 4}
Ranks == 0..4
Largest(a, b) == IF a > b THEN a ELSE b

ErpStates == {"PENDING", "RUNNING", "RETRYABLE", "BLOCKED", "DONE"}
PcStates == {"idle", "claimed", "preflight", "record", "ask", "waiting",
             "intent", "send", "await", "readback", "poll"}

\* An attempt: where it stands, the last step it knows recorded, the step it
\* means to record, whether it found a review intent, and API or web page.
Attempts == [pc : PcStates, rank : Ranks, note : Ranks, seen : BOOLEAN,
             via : {"api", "offered", "web"}]

Idle == [pc |-> "idle", rank |-> 0, note |-> 0, seen |-> FALSE, via |-> "api"]

Init ==
  /\ state = "PENDING" /\ checkpoint = 0 /\ source = "none"
  /\ holder = None /\ lapsed = FALSE /\ intent = FALSE
  /\ real = 0 /\ shown = 0
  /\ net = [s \in Steps |-> "none"] /\ sent = [s \in Unrepeatable |-> 0]
  /\ at = [w \in Workers |-> Idle]
  /\ mishaps = 0

------------------------------------------------------------------------------
(* The queue. *)

pc(w) == at[w].pc
rank(w) == at[w].rank
GoTo(w, where) == at' = [at EXCEPT ![w].pc = where]
GoRecord(w, s) == at' = [at EXCEPT ![w].pc = "record", ![w].note = s]

\* Mutant: a job that an attempt left in the middle is not due again.
ClaimableAfresh ==
  /\ state \in {"PENDING", "RETRYABLE"}
  /\ holder = None \/ lapsed

Claimable ==
  /\ state \in {"PENDING", "RETRYABLE", "RUNNING"}
  /\ holder = None \/ lapsed

\* The lease goes to the new owner; the row is read back with its checkpoint.
Claim(w) ==
  /\ pc(w) = "idle" /\ Claimable
  /\ holder' = w /\ lapsed' = FALSE
  /\ at' = [at EXCEPT ![w] = [Idle EXCEPT !.pc = "claimed", !.rank = checkpoint]]
  /\ UNCHANGED <<state, checkpoint, source, intent, erp, mishaps>>

\* renew_lease looks at the owner only: it revives a lapsed lease nobody took.
Renew(w) == lapsed' = (lapsed /\ holder # w)

\* finish_erp_attempt changes the row only for the lease's owner.
Finish(w, result) ==
  /\ IF holder = w
       THEN state' = result /\ holder' = None /\ lapsed' = FALSE
       ELSE UNCHANGED <<state, holder, lapsed>>
  /\ at' = [at EXCEPT ![w] = Idle]

GiveUp(w, result) ==
  Finish(w, result) /\ UNCHANGED <<checkpoint, source, intent, erp, mishaps>>

\* After step s the next one is asked for; past the review the API adapter
\* reads the order's outbound row first, the page does not.
After(w, s) ==
  IF s = 4 THEN Idle
  ELSE [at[w] EXCEPT !.rank = s, !.note = s,
                     !.pc = IF s >= 2 /\ at[w].via = "api" THEN "poll" ELSE "ask"]

\* Mutant: a checkpoint is recorded without asking whose the lease is.
RecordUnowned(w) ==
  /\ pc(w) = "record"
  /\ LET s == at[w].note IN
       /\ checkpoint' = s
       /\ at' = [at EXCEPT ![w] = After(w, s)]
       /\ IF s = 4
            THEN state' = "DONE" /\ source' = "automation" /\ holder' = None /\ lapsed' = FALSE
            ELSE state' = "RUNNING" /\ UNCHANGED <<source, holder, lapsed>>
  /\ UNCHANGED <<intent, erp, mishaps>>

\* record_erp_checkpoint: for the lease's owner only; the last step ends the job.
Record(w) ==
  /\ pc(w) = "record"
  /\ LET s == at[w].note IN
       IF holder = w
         THEN /\ checkpoint' = s
              /\ at' = [at EXCEPT ![w] = After(w, s)]
              /\ IF s = 4
                   THEN state' = "DONE" /\ source' = "automation"
                        /\ holder' = None /\ lapsed' = FALSE
                   ELSE state' = "RUNNING" /\ UNCHANGED <<source, holder, lapsed>>
         ELSE Finish(w, "RETRYABLE") /\ UNCHANGED <<checkpoint, source>>
  /\ UNCHANGED <<intent, erp, mishaps>>

------------------------------------------------------------------------------
(* The attempt. *)

\* Mutant: the item is taken up without looking for a review intent.
TakeUpBlind(w) ==
  /\ pc(w) = "claimed"
  /\ at' = [at EXCEPT ![w].pc = "preflight", ![w].seen = FALSE]
  /\ UNCHANGED <<queue, erp, mishaps>>

\* process_erp_mark_items_once takes up the item: is a review intent on record?
TakeUp(w) ==
  /\ pc(w) = "claimed"
  /\ at' = [at EXCEPT ![w].pc = "preflight", ![w].seen = intent /\ checkpoint < 2]
  /\ UNCHANGED <<queue, erp, mishaps>>

\* Where the steps begin: a review on record is read back, never sent again.
FirstStep(w) ==
  IF rank(w) >= 2 THEN "poll" ELSE IF rank(w) = 1 /\ at[w].seen THEN "readback" ELSE "ask"

\* The read before any write: a visible outbound row proves the steps before it.
Preflight(w) ==
  /\ pc(w) = "preflight"
  /\ \/ /\ IF shown >= 2 /\ shown > rank(w) THEN GoRecord(w, shown) ELSE GoTo(w, FirstStep(w))
        /\ UNCHANGED <<queue, erp, mishaps>>
     \/ \E result \in {"RETRYABLE", "BLOCKED"} : GiveUp(w, result)

\* leased_confirm renews the lease and asks for the next step.
Ask(w) ==
  /\ pc(w) = "ask"
  /\ Renew(w) /\ GoTo(w, "waiting")
  /\ UNCHANGED <<state, checkpoint, source, holder, intent, erp, mishaps>>

\* The operator agrees.  The agreement is recorded under the lease: a worker
\* that lost it while it waited stops here.  Agreeing to the web fallback asks
\* for the same step again, on the page.
Agreed(w) ==
  IF at[w].via = "offered" THEN [at[w] EXCEPT !.pc = "ask", !.via = "web"]
  ELSE [at[w] EXCEPT !.pc = IF rank(w) = 1 /\ at[w].via = "api" THEN "intent" ELSE "send"]

Agree(w) ==
  /\ pc(w) = "waiting"
  /\ IF holder = w
       THEN lapsed' = FALSE /\ at' = [at EXCEPT ![w] = Agreed(w)] /\ UNCHANGED <<state, holder>>
       ELSE Finish(w, "RETRYABLE")
  /\ UNCHANGED <<checkpoint, source, intent, erp, mishaps>>

\* The operator declines, or the write guard stops the attempt before a request.
Decline(w) == pc(w) \in {"ask", "waiting", "send"} /\ GiveUp(w, "PENDING")

\* The intent of a review is on record before the review is sent.
RecordIntent(w) ==
  /\ pc(w) = "intent"
  /\ IF holder = w
       THEN intent' = TRUE /\ lapsed' = FALSE /\ GoTo(w, "send") /\ UNCHANGED <<state, holder>>
       ELSE Finish(w, "RETRYABLE") /\ UNCHANGED intent
  /\ UNCHANGED <<checkpoint, source, erp, mishaps>>

Step(w) == rank(w) + 1
Counted(s) == IF s \in Unrepeatable THEN [sent EXCEPT ![s] = IF @ < 2 THEN @ + 1 ELSE @] ELSE sent

\* The request of the API for the next step.
Send(w) ==
  /\ pc(w) = "send" /\ at[w].via = "api"
  /\ net' = [net EXCEPT ![Step(w)] = "sent"]
  /\ sent' = Counted(Step(w))
  /\ GoTo(w, "await")
  /\ UNCHANGED <<queue, real, shown, mishaps>>

\* A click on the page: it needs the order in the tab of the step before, and
\* its checkpoint follows without a read-back.
Click(w) ==
  /\ pc(w) = "send" /\ at[w].via = "web"
  /\ \/ /\ real = rank(w)
        /\ real' = Step(w) /\ sent' = Counted(Step(w))
        /\ \/ GoRecord(w, Step(w)) /\ UNCHANGED <<state, holder, lapsed>>
           \/ "web_lost" \in Faults /\ Finish(w, "RETRYABLE")
        /\ UNCHANGED <<checkpoint, source, intent, shown, net, mishaps>>
     \/ GiveUp(w, IF real = rank(w) THEN "RETRYABLE" ELSE "BLOCKED")

Answered(w, what) ==
  /\ pc(w) = "await" /\ net[Step(w)] = what
  /\ net' = [net EXCEPT ![Step(w)] = "none"]

\* Mutant: an answer that proves nothing passes for a confirmed one.
AcknowledgedEarly(w) ==
  /\ Answered(w, "done") \/ Answered(w, "sent")
  /\ at' = [at EXCEPT ![w].note = Step(w), ![w].pc = IF Step(w) <= 2 THEN "record" ELSE "poll"]
  /\ UNCHANGED <<queue, real, shown, sent, mishaps>>

\* A confirmed answer: the first two steps are recorded at once, the last two
\* only when the outbound row shows them.
Acknowledged(w) ==
  /\ Answered(w, "done")
  /\ at' = [at EXCEPT ![w].note = Step(w), ![w].pc = IF Step(w) <= 2 THEN "record" ELSE "poll"]
  /\ UNCHANGED <<queue, real, shown, sent, mishaps>>

\* No answer, or one that proves nothing: a review is read back, any other
\* step is left to a person.
Ambiguous(w) ==
  /\ pc(w) = "await"
  /\ IF Step(w) = 2
       THEN GoTo(w, "readback") /\ UNCHANGED <<queue, erp, mishaps>>
       ELSE GiveUp(w, "BLOCKED")

\* A refusal proves the step did not happen and offers the page instead.  A
\* review refused for its order closes its intent; one refused as a call does
\* not.
Refused(w) ==
  /\ Answered(w, "refused")
  /\ IF Step(w) = 2 /\ holder = w THEN intent' \in {intent, FALSE} ELSE UNCHANGED intent
  /\ at' = [at EXCEPT ![w].pc = "ask", ![w].via = "offered"]
  /\ UNCHANGED <<state, checkpoint, source, holder, lapsed, real, shown, sent, mishaps>>

\* _complete_ambiguous_review_readback: only the outbound row proves a review.
ReadBack(w) ==
  /\ pc(w) = "readback"
  /\ \/ shown >= 2 /\ GoRecord(w, 2) /\ UNCHANGED <<queue, erp, mishaps>>
     \/ GiveUp(w, "BLOCKED")

\* The step the outbound row must show before the attempt goes on.
Wanted(w) == Largest(2, Largest(rank(w), at[w].note))

\* _poll_wms_row: what the row shows beyond the recorded step is recorded.
Poll(w) ==
  /\ pc(w) = "poll"
  /\ \/ /\ shown >= Wanted(w)
        /\ IF shown > rank(w) THEN GoRecord(w, shown) ELSE GoTo(w, "ask")
        /\ UNCHANGED <<queue, erp, mishaps>>
     \/ GiveUp(w, "BLOCKED")

------------------------------------------------------------------------------
(* The ERP. *)

\* A request is carried out once the step before it has happened.
Execute(s) ==
  /\ net[s] = "sent" /\ real >= s - 1
  /\ net' = [net EXCEPT ![s] = "done"]
  /\ real' = Largest(real, s)
  /\ UNCHANGED <<queue, shown, sent, at, mishaps>>

\* A request that never takes effect: refused, or lost on its way.
Fails(s, answer) ==
  /\ net[s] = "sent"
  /\ net' = [net EXCEPT ![s] = answer]
  /\ sent' = IF s \in Unrepeatable THEN [sent EXCEPT ![s] = @ - 1] ELSE sent
  /\ UNCHANGED <<queue, real, shown, at, mishaps>>

Outcome == \E s \in Steps : Execute(s) \/ Fails(s, "refused") \/ Fails(s, "none")

Show ==
  /\ shown < real /\ shown' = real
  /\ UNCHANGED <<queue, real, net, sent, at, mishaps>>

\* The long wait before a dead attempt's job is claimed again has brought the
\* outbound list up to date with a sending-out.
ListIsCurrent ==
  \/ "slow_list" \in Faults
  \/ net[4] # "sent" /\ (real = 4 => shown = 4)

------------------------------------------------------------------------------
(* Time, deaths and the operator. *)

\* The lease passes while its holder waits its turn or for an answer, or is dead.
Lapse ==
  /\ holder # None /\ ~lapsed
  /\ \/ holder = Dead /\ ListIsCurrent
     \/ /\ holder \in Workers /\ mishaps < MaxMishaps
        /\ pc(holder) \in {"claimed", "waiting"} \/ "suspended" \in Faults
  /\ lapsed' = TRUE
  /\ mishaps' = IF holder = Dead THEN mishaps ELSE mishaps + 1
  /\ UNCHANGED <<state, checkpoint, source, holder, intent, erp, at>>

Crash(w) ==
  /\ mishaps < MaxMishaps /\ pc(w) # "idle"
  /\ at[w].via = "web" /\ pc(w) = "record" => "web_lost" \in Faults
  /\ mishaps' = mishaps + 1
  /\ at' = [at EXCEPT ![w] = Idle]
  /\ holder' = IF holder = w THEN Dead ELSE holder
  /\ UNCHANGED <<state, checkpoint, source, lapsed, intent, erp>>

\* retry_stage("erp") takes the lease away; the coordinator keeps it from a job
\* whose task still runs.
Retry ==
  /\ state # "DONE"
  /\ holder \notin Workers \/ "retry_beside" \in Faults
  /\ ListIsCurrent
  /\ state' = "RETRYABLE" /\ holder' = None /\ lapsed' = FALSE
  /\ UNCHANGED <<checkpoint, source, intent, erp, at, mishaps>>

\* A person finishes the order in the ERP and marks it completed.
ByHand ==
  /\ state = "BLOCKED" /\ real < 4
  /\ real' = 4
  /\ UNCHANGED <<queue, shown, net, sent, at, mishaps>>

MarkManuallyCompleted ==
  /\ state # "DONE" /\ holder \notin Workers /\ real = 4
  /\ state' = "DONE" /\ checkpoint' = 4 /\ source' = "manual"
  /\ holder' = None /\ lapsed' = FALSE
  /\ UNCHANGED <<intent, erp, at, mishaps>>

Worker(w) ==
  \/ Claim(w) \/ TakeUp(w) \/ Preflight(w) \/ Record(w)
  \/ Ask(w) \/ Agree(w) \/ Decline(w) \/ RecordIntent(w) \/ Send(w) \/ Click(w)
  \/ Acknowledged(w) \/ Ambiguous(w) \/ Refused(w) \/ ReadBack(w) \/ Poll(w)

Next ==
  \/ \E w \in Workers : Worker(w) \/ Crash(w)
  \/ Outcome
  \/ Show \/ Lapse \/ Retry \/ ByHand \/ MarkManuallyCompleted

Spec == Init /\ [][Next]_vars

\* The loops of a running worker go on, a question is answered in the end, a
\* lease passes, a scheduled run claims what is due and a request does not stay
\* on its way for ever.  Nothing is owed by the operator's repairs.
FairSpec ==
  /\ Spec
  /\ \A w \in Workers : WF_vars(Worker(w))
  /\ WF_vars(Outcome) /\ WF_vars(Show) /\ WF_vars(Lapse)

------------------------------------------------------------------------------
TypeOK ==
  /\ state \in ErpStates /\ checkpoint \in Ranks
  /\ source \in {"none", "automation", "manual"}
  /\ (state = "DONE") = (source # "none") /\ (state = "DONE" => checkpoint = 4)
  /\ holder \in Workers \cup {Dead, None}
  /\ lapsed \in BOOLEAN /\ (lapsed => holder # None)
  /\ intent \in BOOLEAN
  /\ real \in Ranks /\ shown \in 0..real
  /\ net \in [Steps -> {"none", "sent", "done", "refused"}] /\ sent \in [Unrepeatable -> 0..2]
  /\ at \in [Workers -> Attempts]
  /\ mishaps \in 0..MaxMishaps

\* The queue never says more than the ERP did: whoever records a step, after
\* whatever was lost, the order has really gone through it.
CheckpointIsEarned == checkpoint <= real

\* Across takeovers, deaths and retries, an order is asked to be reviewed and
\* asked to be sent out at most once by a request that took, or may still take,
\* effect: what may have been executed is read back instead of sent again.
SentOnce == \A s \in Unrepeatable : sent[s] <= 1

\* A worker that has lost the job never takes its recorded progress back.
CheckpointNeverFalls == [][checkpoint' >= checkpoint]_vars

\* A job left in the middle is taken up again until it is done or put down.
RunningIsFinished == state = "RUNNING" ~> state # "RUNNING"
==============================================================================
