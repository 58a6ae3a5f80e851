---------------------------- MODULE Notifications ----------------------------
(***************************************************************************)
(* Telling a customer that an order has been sent: the revisions of one      *)
(* order's notification (shipment_automation/notification_store.py), the     *)
(* service that hands them to the mail and SMS providers                     *)
(* (notification_service.py), the checks of their receipts, the operator's   *)
(* decisions, and the automatic mode that sends a draft without being asked  *)
(* (persistence/automatic_dispatch.py, ui/persistent_controller.py).         *)
(*                                                                         *)
(* A scan drafts a revision from the order's packages; a revision is claimed *)
(* (SENDING), posted, and its answer recorded.  An accepted message is later *)
(* delivered or bounced, which receipts tell.  A lost answer, or the end of  *)
(* the process, leaves open whether the customer was told.                   *)
(*                                                                         *)
(* A draft that cannot be sent as it stands (BLOCKED, WAITING_CONTACT,       *)
(* MANUAL_EMAIL_REQUIRED) is "HELD" here.                                     *)
(***************************************************************************)
EXTENDS Integers, Sequences, FiniteSets

CONSTANTS Background,   \* the coordinator's receipt monitor
          Desk,         \* an operator who refreshes receipts
          Nobody,       \* no owner of a receipt check
          MaxPackages,  \* packages of the order
          MaxPosts,     \* bound on messages the provider accepts
          MaxTurns,     \* bound on edits of the order, decisions and restarts
          Faults        \* the rare events this instance allows

ASSUME OwnersAssumption == Background # Desk /\ Nobody \notin {Background, Desk}
ASSUME BoundsAssumption ==
  /\ MaxPackages \in Nat \ {0}
  /\ MaxPosts \in Nat /\ MaxTurns \in Nat

\* slow_receipt: a receipt check outlives its lease of 120 seconds;
\* name_conflict: a scan finds two recipient names nobody chose between.
FaultKinds == {"slow_receipt", "name_conflict"}

ASSUME FaultsAssumption == Faults \subseteq FaultKinds

VARIABLES
  content,    \* what a draft made now would say: packages, other text, sendable
  rows,       \* the order's revisions
  calls,      \* [revision -> its send in this process]
  posts,      \* the messages the provider accepted
  checks,     \* [owner -> the receipt check it is at]
  queued,     \* revisions an automatic task waits to send
  dispatched, \* automatic_dispatches: revisions submitted automatically
  turns       \* edits, decisions and restarts so far

vars == <<content, rows, calls, posts, checks, queued, dispatched, turns>>

Owners == {Background, Desk}
Sendable == {"yes", "no"} \cup (IF "name_conflict" \in Faults THEN {"conflict"} ELSE {})
Contents == [packages : 1..MaxPackages, text : 0..MaxTurns, sendable : Sendable]

\* A revision for each content the order had and for each wish, and one that a
\* conflict of names adds to each of them.
MaxRows == MaxPackages + 2 * MaxTurns
Revisions == 1..MaxRows

Decided == {"CANCELLED", "MANUALLY_COMPLETED"}
Undelivered == {"ACCEPTED", "DELIVERY_UNCONFIRMED"}
States == Decided \cup Undelivered \cup
          {"AWAITING_REVIEW", "HELD", "SENDING", "DELIVERED", "RETRYABLE", "FAILED", "REJECTED"}
CheckStates == {"none", "asked", "finish"}

Row == [state : States, content : Contents, tried : BOOLEAN, err : BOOLEAN, sent : BOOLEAN,
        msg : 0..MaxPosts, owner : Owners \cup {Nobody}, reopened : BOOLEAN]
Message == [packages : 1..MaxPackages, by : {"hand", "auto"},
            fate : {"open", "delivered", "failed"}]

NoCall == [by |-> "none", msg |-> 0]
NoCheck == [pc |-> "none", row |-> 0, msg |-> 0]

Init ==
  /\ content = [packages |-> 1, text |-> 0, sendable |-> "yes"]
  /\ rows = <<>> /\ posts = <<>>
  /\ calls = [r \in Revisions |-> NoCall]
  /\ checks = [o \in Owners |-> NoCheck]
  /\ queued = {} /\ dispatched = {}
  /\ turns = 0

Last == Len(rows)
State(r) == rows[r].state
Latest(r) == r = Last /\ r > 0

------------------------------------------------------------------------------
(* Drafting. *)

Draft(state, text, reopened) ==
  [state |-> state, content |-> text, tried |-> FALSE, err |-> FALSE, sent |-> FALSE,
   msg |-> 0, owner |-> Nobody, reopened |-> reopened]

\* Handed over once: the row's state, its message id or its time of sending.
AlreadySent(row) == row.state \in {"ACCEPTED", "DELIVERED", "MANUALLY_COMPLETED"} \/ row.sent

\* The open drafts a new revision closes.
Superseded(old, open) ==
  IF old # <<>> /\ old[Len(old)].state \in open
    THEN [old EXCEPT ![Len(old)].state = "REJECTED"] ELSE old

DraftState == IF content.sendable = "yes" THEN "AWAITING_REVIEW" ELSE "HELD"

\* Mutant: what has been handed over is never followed by a supplement.
KeepsSent(conflict) ==
  /\ rows # <<>>
  /\ \/ rows[Last].state = "CANCELLED" \/ AlreadySent(rows[Last])
     \/ rows[Last].content = content

\* No draft is made over a cancelled notification, over one handed over unless
\* a package has been completed since, or when nothing has changed.  A conflict
\* of names is drafted over whatever the latest revision is.
Keeps(conflict) ==
  /\ rows # <<>>
  /\ LET last == rows[Last]
     IN  IF conflict
           THEN last.state = "HELD" /\ last.content = content
           ELSE \/ last.state = "CANCELLED"
                \/ AlreadySent(last) /\ content.packages <= last.content.packages
                \/ last.content = content

\* prepare_notification: an unsent draft that gained a package is refreshed in
\* place; any other change makes a new revision.
Prepared(conflict) ==
  IF Keeps(conflict) THEN rows
  ELSE IF /\ rows # <<>> /\ State(Last) = "AWAITING_REVIEW"
          /\ content.packages > rows[Last].content.packages
    THEN [rows EXCEPT ![Last] = Draft(DraftState, content, @.reopened)]
    ELSE Append(Superseded(rows, {"AWAITING_REVIEW", "HELD", "RETRYABLE"}),
                Draft(DraftState, content, FALSE))

Scan ==
  /\ rows' = Prepared(content.sendable = "conflict") /\ rows' # rows
  /\ UNCHANGED <<content, calls, posts, checks, queued, dispatched, turns>>

\* The order changes: a package is completed, or other data of it.
NewPackage ==
  /\ content.packages < MaxPackages
  /\ content' = [content EXCEPT !.packages = @ + 1]
  /\ UNCHANGED <<rows, calls, posts, checks, queued, dispatched, turns>>

Edit ==
  /\ turns < MaxTurns
  /\ turns' = turns + 1
  /\ \E s \in Sendable : content' = [content EXCEPT !.text = @ + 1, !.sendable = s]
  /\ UNCHANGED <<rows, calls, posts, checks, queued, dispatched>>

------------------------------------------------------------------------------
(* Sending. *)

InFlight(r) == \E q \in DOMAIN rows : q # r /\ State(q) = "SENDING"

\* Mutant: another revision's request that has not ended is not looked for.
ClaimableBeside(r, state) == Latest(r) /\ State(r) = state

Claimable(r, state) ==
  Latest(r) /\ ~InFlight(r) /\ State(r) = state

\* record_unsent_send_failure: why nothing was sent, on the draft that waits.
Noted(rs) ==
  LET n == Len(rs)
  IN  IF n > 0 /\ rs[n].state = "AWAITING_REVIEW"
        THEN [rs EXCEPT ![n].err = TRUE] ELSE rs

\* _claim of the latest revision: one whose content is no longer current is
\* drafted again instead, and the reason is noted on the draft that waits.
ClaimOf(r, state, by) ==
  IF ~Claimable(r, state)
    THEN rows' = Noted(rows) /\ calls' = calls
  ELSE IF rows[r].content # content
    THEN rows' = Noted(Prepared(FALSE)) /\ calls' = calls
  ELSE IF content.sendable # "yes"
    THEN /\ \/ rows' = Noted(rows)
            \/ rows' = [rows EXCEPT ![r].state = "HELD"]
         /\ calls' = calls
  ELSE /\ rows' = [rows EXCEPT ![r].state = "SENDING", ![r].tried = TRUE]
       /\ calls' = [calls EXCEPT ![r] = [NoCall EXCEPT !.by = by]]

\* An operator sends a draft, or retries the approved content.
Approve(r) ==
  /\ r \in DOMAIN rows /\ calls[r] = NoCall
  /\ State(r) \in {"AWAITING_REVIEW", "RETRYABLE"}
  /\ ClaimOf(r, State(r), "hand")
  /\ UNCHANGED <<content, posts, checks, queued, dispatched, turns>>

\* Mutant: revisions whose fate is open do not hold back an automatic one.
CandidateBeside(r) ==
  /\ Latest(r) /\ State(r) = "AWAITING_REVIEW" /\ ~rows[r].err
  /\ \A q \in DOMAIN rows \ {r} :
       State(q) \in {"ACCEPTED", "DELIVERED", "MANUALLY_COMPLETED"} =>
         rows[q].content.packages < rows[r].content.packages

\* candidates("notification"): a draft nobody tried, while no other revision
\* may have reached the customer in a way the queue is unsure of, that tells of
\* a package no revision handed over has told of.
Candidate(r) ==
  /\ Latest(r) /\ State(r) = "AWAITING_REVIEW" /\ ~rows[r].err
  /\ \A q \in DOMAIN rows \ {r} :
       /\ State(q) \notin {"SENDING", "DELIVERY_UNCONFIRMED", "RETRYABLE", "FAILED"}
       /\ IF State(q) \in {"ACCEPTED", "DELIVERED", "MANUALLY_COMPLETED"}
            THEN rows[q].content.packages < rows[r].content.packages
            ELSE ~rows[q].tried /\ ~rows[q].sent /\ rows[q].msg = 0

\* submit_task keeps the dispatch of an automatic task on record.
Admit(r) ==
  /\ r \notin dispatched /\ Candidate(r)
  /\ dispatched' = dispatched \cup {r}
  /\ queued' = queued \cup {r}
  /\ UNCHANGED <<content, rows, calls, posts, checks, turns>>

\* _automatic_gate of the task that starts gives back one that is no candidate
\* any more.  Another may have stopped being one since that gate.
Withdraw(r) ==
  /\ r \in queued /\ ~Candidate(r)
  /\ queued' = queued \ {r} /\ dispatched' = dispatched \ {r}
  /\ UNCHANGED <<content, rows, calls, posts, checks, turns>>

AutoSend(r) ==
  /\ r \in queued /\ calls[r] = NoCall
  /\ queued' = queued \ {r}
  /\ ClaimOf(r, "AWAITING_REVIEW", "auto")
  /\ UNCHANGED <<content, posts, checks, dispatched, turns>>

\* finalize_send, and the note of a failure on a draft made meanwhile.
Accepted(r, m) ==
  [rows EXCEPT ![r].state = "ACCEPTED", ![r].sent = TRUE, ![r].msg = m, ![r].owner = Nobody]

Failed(r, state) == Noted([rows EXCEPT ![r].state = state, ![r].msg = 0, ![r].owner = Nobody])

\* The provider takes the message; its answer is on its way back, or lost.
Post(r) ==
  /\ calls[r].by # "none" /\ calls[r].msg = 0 /\ Len(posts) < MaxPosts
  /\ posts' = Append(posts, [packages |-> rows[r].content.packages,
                             by |-> calls[r].by, fate |-> "open"])
  /\ \/ calls' = [calls EXCEPT ![r].msg = Len(posts')] /\ rows' = rows
     \/ calls' = [calls EXCEPT ![r] = NoCall] /\ rows' = Failed(r, "RETRYABLE")
  /\ UNCHANGED <<content, checks, queued, dispatched, turns>>

\* The provider refuses the message, or is not reached.
PostFails(r) ==
  /\ calls[r].by # "none" /\ calls[r].msg = 0
  /\ calls' = [calls EXCEPT ![r] = NoCall]
  /\ \E state \in {"FAILED", "RETRYABLE"} : rows' = Failed(r, state)
  /\ UNCHANGED <<content, posts, checks, queued, dispatched, turns>>

Finalize(r) ==
  /\ calls[r].msg # 0
  /\ calls' = [calls EXCEPT ![r] = NoCall] /\ rows' = Accepted(r, calls[r].msg)
  /\ UNCHANGED <<content, posts, checks, queued, dispatched, turns>>

------------------------------------------------------------------------------
(* Receipts. *)

CheckAt(o, r, where) == checks[o].pc = where /\ checks[o].row = r

\* Mutant: a lookup does not ask whether another one is under way.
CheckFreeAlways(o, r) == TRUE

\* The lease of a check that ended with its process passes.
CheckFree(o, r) ==
  rows[r].owner \in Owners \ {o} =>
    "slow_receipt" \in Faults \/ checks[rows[r].owner].row # r

\* claim_receipt_check, and the read of the revision that is asked about; the
\* monitor lists accepted revisions only.
Ask(o, r) ==
  /\ r \in DOMAIN rows /\ checks[o] = NoCheck
  /\ State(r) \in (IF o = Background THEN {"ACCEPTED"} ELSE Undelivered)
  /\ rows[r].msg # 0 /\ CheckFree(o, r)
  /\ rows' = [rows EXCEPT ![r].owner = o]
  /\ checks' = [checks EXCEPT ![o] = [pc |-> "asked", row |-> r, msg |-> rows[r].msg]]
  /\ UNCHANGED <<content, calls, posts, queued, dispatched, turns>>

Settled(r, from, to) ==
  IF State(r) \in from THEN [rows EXCEPT ![r].state = to, ![r].owner = Nobody] ELSE rows

\* The answer tells what has become of the message: mark_delivered and
\* mark_delivery_failed each change a row in their states only.  Or the message
\* is still under way, or there is no answer.
Answer(o, r) ==
  /\ CheckAt(o, r, "asked")
  /\ checks' = [checks EXCEPT ![o] = [pc |-> "finish", row |-> r, msg |-> 0]]
  /\ LET m == checks[o].msg
     IN  \/ /\ posts[m].fate # "failed"
            /\ posts' = [posts EXCEPT ![m].fate = "delivered"]
            /\ rows' = Settled(r, Undelivered \cup {"DELIVERED", "FAILED", "RETRYABLE"}, "DELIVERED")
         \/ /\ posts[m].fate # "delivered"
            /\ posts' = [posts EXCEPT ![m].fate = "failed"]
            /\ rows' = Settled(r, Undelivered \cup {"FAILED"}, "RETRYABLE")
         \/ UNCHANGED <<posts, rows>>
  /\ UNCHANGED <<content, calls, queued, dispatched, turns>>

\* Mutant: a check that ends does not ask whose the lease is.
MayFinishAnyway(o, r) == TRUE

MayFinish(o, r) == rows[r].owner = o

\* finish_receipt_check; 24 hours after the sending the waiting ends.
FinishCheck(o, r, late) ==
  /\ CheckAt(o, r, "finish")
  /\ rows' = IF ~MayFinish(o, r) THEN rows
             ELSE [rows EXCEPT ![r].owner = Nobody,
                     ![r].state = IF late /\ @ \notin {"DELIVERED", "RETRYABLE"}
                                    THEN "DELIVERY_UNCONFIRMED" ELSE @]
  /\ checks' = [checks EXCEPT ![o] = NoCheck]
  /\ UNCHANGED <<content, calls, posts, queued, dispatched, turns>>

------------------------------------------------------------------------------
(* The operator's decisions, and the end of the process. *)

Wish ==
  /\ turns < MaxTurns /\ turns' = turns + 1
  /\ UNCHANGED <<content, calls, posts, checks, queued, dispatched>>

\* Mutant: a decision closes the revision whose answer is still awaited.
DecideInPlace(d) ==
  /\ Last > 0 /\ Wish
  /\ rows' = [rows EXCEPT ![Last].state = d, ![Last].owner = Nobody, ![Last].err = FALSE]

\* _set_manual_notification_state: a revision being sent keeps its row for its
\* answer, and the decision goes to a copy.
Decide(d) ==
  /\ Last > 0 /\ Wish
  /\ rows' = IF State(Last) = "SENDING"
               THEN Append(rows, Draft(d, rows[Last].content, FALSE))
               ELSE [rows EXCEPT ![Last].state = d, ![Last].owner = Nobody,
                                 ![Last].err = FALSE]

\* reopen_for_review: a draft whatever happened before.
Reopen ==
  /\ Last > 0 /\ Wish
  /\ rows' = Append(Superseded(rows, {"AWAITING_REVIEW", "RETRYABLE"}),
                    Draft("AWAITING_REVIEW", content, TRUE))

Reject(r) ==
  /\ r \in DOMAIN rows /\ State(r) \in {"AWAITING_REVIEW", "HELD"} /\ Wish
  /\ rows' = [rows EXCEPT ![r].state = "REJECTED"]

Crash ==
  /\ turns < MaxTurns /\ turns' = turns + 1
  /\ calls' = [r \in Revisions |-> NoCall]
  /\ checks' = [o \in Owners |-> NoCheck]
  /\ queued' = {}
  /\ UNCHANGED <<content, rows, posts, dispatched>>

Check(o, r) ==
  Ask(o, r) \/ Answer(o, r) \/ \E late \in BOOLEAN : FinishCheck(o, r, late)

Next ==
  \/ Scan \/ NewPackage \/ Edit \/ Reopen \/ Crash
  \/ \E d \in Decided : Decide(d)
  \/ \E r \in Revisions : Approve(r) \/ Admit(r) \/ Withdraw(r) \/ AutoSend(r) \/ Post(r)
                          \/ PostFails(r) \/ Finalize(r) \/ Reject(r)
  \/ \E o \in Owners, r \in Revisions : Check(o, r)

Spec == Init /\ [][Next]_vars

\* Scans are periodic; nothing is asked of the operator, the provider or the
\* automatic mode.
FairSpec == Spec /\ WF_vars(Scan)

------------------------------------------------------------------------------
(* Properties. *)

\* The state's variables have the values the code gives them.
TypeOK ==
  /\ content \in Contents
  /\ rows \in Seq(Row) /\ Len(rows) <= MaxRows
  /\ calls \in [Revisions -> [by : {"none", "hand", "auto"}, msg : 0..MaxPosts]]
  /\ \A r \in Revisions : calls[r] # NoCall => r \in DOMAIN rows /\ State(r) = "SENDING"
  /\ posts \in Seq(Message) /\ Len(posts) <= MaxPosts
  /\ checks \in [Owners -> [pc : CheckStates, row : 0..MaxRows, msg : 0..MaxPosts]]
  /\ queued \subseteq dispatched /\ dispatched \subseteq Revisions
  /\ turns \in 0..MaxTurns

\* One order's customer is written to by one request at a time: while a
\* revision is being sent, or was when the process ended, no other one is.
OneSendAtATime == \A q, r \in DOMAIN rows : State(q) = "SENDING" /\ State(r) = "SENDING" => q = r

\* The automatic mode never tells a customer of a package again: what it posts
\* names a package that no earlier message has named, whatever became of that
\* message, and whether its answer was learned or lost.
AutomaticIsNew ==
  \A m, n \in DOMAIN posts :
    m < n /\ posts[n].by = "auto" => posts[m].packages < posts[n].packages

\* What the queue shows of a message is what became of it: DELIVERED one that
\* was, and a failed delivery that may be retried one that failed.
ReceiptIsTrue ==
  \A r \in DOMAIN rows :
    /\ State(r) = "DELIVERED" => rows[r].msg # 0 /\ posts[rows[r].msg].fate = "delivered"
    /\ State(r) = "RETRYABLE" /\ rows[r].msg # 0 => posts[rows[r].msg].fate = "failed"

\* The operator's decision stands against answers, receipts and scans that come
\* after it: nobody but the operator takes it back, and no scan drafts over a
\* cancelled notification.
DecisionStands ==
  [][/\ \A r \in DOMAIN rows : State(r) \in Decided => rows'[r].state \in Decided
     /\ Last > 0 /\ State(Last) = "CANCELLED" /\ Len(rows') > Last => rows'[Len(rows')].reopened]_vars

\* A package completed after a notice went out is not forgotten: whatever the
\* revisions have been through, the next scan drafts it, unless the operator has
\* cancelled the order's notification.  (Scans are periodic.)
PackageIsOffered ==
  LET tells(rs) == /\ rs # <<>>
                   /\ \/ rs[Len(rs)].content.packages >= content.packages
                      \/ rs[Len(rs)].state = "CANCELLED"
  IN  tells(rows) \/ tells(Prepared(content.sendable = "conflict"))
==============================================================================
