---------------------------- MODULE RequestJournal ----------------------------
(***************************************************************************)
(* One desktop's task submissions and the request journal that makes them  *)
(* answerable after a lost reply: begin_request before any effect, the     *)
(* outcome saved or failed after it, the children of a batch, the client   *)
(* that times out, polls the journal by request id and holds equal         *)
(* submissions back, re-registration, and the server's restart.            *)
(*                                                                         *)
(* A Call is one click: one _rpc call with a request id of its own.  Its   *)
(* parts are the commands it submits: one for submit_task, several for     *)
(* submit_tasks, each then a child request "<id>:task:<index>".            *)
(***************************************************************************)
EXTENDS Naturals

CONSTANTS
    Call,         \* clicks
    Command,      \* what is submitted: _mutation_fingerprint
    CommandOf,    \* the command of a click
    Batch,        \* the clicks that use submit_tasks
    Parts,        \* how many commands a click submits
    MaxParts,     \* bound on that
    NoCall,
    Faults,       \* which of the rare events below may happen
    MaxRestarts   \* bound on server restarts

FaultKinds == {"row_lost",      \* the desktop's row goes while a call is served
               "store_error"}   \* a store transaction after the effect raises

ASSUME JournalConstants ==
    /\ CommandOf \in [Call -> Command]
    /\ Batch \subseteq Call
    /\ MaxParts \in Nat
    /\ Parts \in [Call -> 1..MaxParts]
    /\ \A c \in Call \ Batch : Parts[c] = 1
    /\ NoCall \notin Call
    /\ Faults \subseteq FaultKinds
    /\ MaxRestarts \in Nat

VARIABLES
    journal,     \* coordination_requests: the state of a call's row
    child,       \* ... and of its children's rows
    effects,     \* history: how often the controller accepted a part
    pc,          \* the handler thread that serves a call
    at,          \* the part it is at
    wire,        \* the reply on its way to the client
    client,      \* what the client makes of a call
    resent,      \* calls sent again after a 409
    guard,       \* _pending_mutation_fingerprints
    registered,  \* the desktop has a row in coordination_instances
    restarts     \* server restarts so far

server == <<journal, child, effects>>
handler == <<pc, at, wire>>
desktop == <<client, resent, guard>>
vars == <<journal, child, effects, pc, at, wire, client, resent, guard,
          registered, restarts>>

Part == 1..MaxParts
Index(c) == 1..Parts[c]
RowStates == {"none", "RUNNING", "SUCCEEDED", "FAILED"}
PcStates == {"off", "arrived", "next", "run", "accepted", "save", "saveall",
             "badrequest", "error"}
Replies == {"none", "ok", "suppressed", "400", "409", "500"}
ClientStates == {"idle", "cleared", "waiting", "unknown", "succeeded", "failed",
                 "held"}

\* The handler is at a part of the call.
AtPart(c) == pc[c] \in {"next", "run", "accepted", "save"}

TypeOK ==
    /\ journal \in [Call -> RowStates]
    /\ child \in [Call -> [Part -> RowStates]]
    /\ effects \in [Call -> [Part -> Nat]]
    /\ pc \in [Call -> PcStates]
    /\ at \in [Call -> Nat]
    /\ \A c \in Call : AtPart(c) => at[c] \in Index(c)
    /\ wire \in [Call -> Replies]
    /\ client \in [Call -> ClientStates]
    /\ resent \subseteq Call
    /\ guard \in [Command -> Call \cup {NoCall}]
    /\ registered \in BOOLEAN
    /\ restarts \in Nat

-----------------------------------------------------------------------------
Init ==
    /\ journal = [c \in Call |-> "none"]
    /\ child = [c \in Call |-> [i \in Part |-> "none"]]
    /\ effects = [c \in Call |-> [i \in Part |-> 0]]
    /\ pc = [c \in Call |-> "off"]
    /\ at = [c \in Call |-> 0]
    /\ wire = [c \in Call |-> "none"]
    /\ client = [c \in Call |-> "idle"]
    /\ resent = {}
    /\ guard = [f \in Command |-> NoCall]
    /\ registered = TRUE
    /\ restarts = 0

GoTo(c, place) == pc' = [pc EXCEPT ![c] = place]

\* The handler ends; a client that gave up waiting does not get the reply.
Answer(c, reply) ==
    /\ GoTo(c, "off")
    /\ wire' = IF client[c] = "waiting" THEN [wire EXCEPT ![c] = reply] ELSE wire

-----------------------------------------------------------------------------
(* The handler thread: http_server's do_POST around service.invoke.        *)

\* The row is inserted and the call runs.
Start(c) ==
    /\ journal' = [journal EXCEPT ![c] = "RUNNING"]
    /\ at' = [at EXCEPT ![c] = 1]
    /\ GoTo(c, IF c \in Batch THEN "next" ELSE "run")
    /\ UNCHANGED wire

\* Mutants of Begin.  Only a finished row keeps a call from running again;
\* a failed call may be tried again; any row counts as a response.
BeginUnfinished(c) ==
    /\ pc[c] = "arrived" /\ registered
    /\ journal[c] \in {"none", "RUNNING"} /\ Start(c)
    /\ UNCHANGED <<child, effects, desktop, registered, restarts>>

BeginAfterFailure(c) ==
    /\ pc[c] = "arrived" /\ registered
    /\ journal[c] \in {"none", "FAILED"} /\ Start(c)
    /\ UNCHANGED <<child, effects, desktop, registered, restarts>>

BeginAnswersAny(c) ==
    /\ pc[c] = "arrived" /\ registered
    /\ \/ journal[c] = "none" /\ Start(c)
       \/ journal[c] # "none" /\ Answer(c, "ok") /\ UNCHANGED <<journal, at>>
    /\ UNCHANGED <<child, effects, desktop, registered, restarts>>

\* Heartbeat, then begin_request: only the insertion of the row lets a call
\* run; a call that is already journaled is answered from its row.
Begin(c) ==
    /\ pc[c] = "arrived"
    /\ \/ /\ ~registered
          /\ Answer(c, "409")
          /\ UNCHANGED <<journal, at>>
       \/ registered /\ journal[c] = "none" /\ Start(c)
       \/ /\ registered /\ journal[c] # "none"
          /\ Answer(c, IF journal[c] = "SUCCEEDED" THEN "ok" ELSE "suppressed")
          /\ UNCHANGED <<journal, at>>
    /\ UNCHANGED <<child, effects, desktop, registered, restarts>>

\* The child's own heartbeat and begin_request.  A lost row raises out of the
\* batch, and the 409 leaves the parent's row as it is.
BeginPart(c) ==
    /\ pc[c] = "next"
    /\ \/ ~registered /\ Answer(c, "409") /\ UNCHANGED child
       \/ /\ registered
          /\ child' = [child EXCEPT ![c][at[c]] = "RUNNING"]
          /\ GoTo(c, "run")
          /\ UNCHANGED wire
    /\ UNCHANGED <<journal, effects, at, desktop, registered, restarts>>

\* The controller accepts the command or refuses it; the pause gate before it
\* raises without a row.
RunPart(c) ==
    /\ pc[c] = "run"
    /\ \/ /\ registered
          /\ effects' = [effects EXCEPT ![c][at[c]] = @ + 1]
          /\ GoTo(c, "accepted")
       \/ /\ registered
          /\ GoTo(c, "save")
          /\ UNCHANGED effects
       \/ /\ ~registered
          /\ GoTo(c, "badrequest")
          /\ UNCHANGED effects
    /\ UNCHANGED <<journal, child, at, wire, desktop, registered, restarts>>

\* bind_task and the pause gate's last look, the task running already.
BindPart(c) ==
    /\ pc[c] = "accepted"
    /\ \/ ~registered /\ GoTo(c, "badrequest")
       \/ registered /\ GoTo(c, "save")
       \/ "store_error" \in Faults /\ GoTo(c, "error")
    /\ UNCHANGED <<server, at, wire, desktop, registered, restarts>>

\* save_response of the call, or of the child before the next one.
SavePart(c) ==
    /\ pc[c] = "save"
    /\ \/ /\ c \in Batch
          /\ child' = [child EXCEPT ![c][at[c]] = "SUCCEEDED"]
          /\ at' = [at EXCEPT ![c] = @ + 1]
          /\ GoTo(c, IF at[c] = Parts[c] THEN "saveall" ELSE "next")
          /\ UNCHANGED <<journal, wire>>
       \/ /\ c \notin Batch
          /\ journal' = [journal EXCEPT ![c] = "SUCCEEDED"]
          /\ Answer(c, "ok")
          /\ UNCHANGED <<child, at>>
       \/ /\ "store_error" \in Faults
          /\ GoTo(c, "error")
          /\ UNCHANGED <<journal, child, at, wire>>
    /\ UNCHANGED <<effects, desktop, registered, restarts>>

SaveBatch(c) ==
    /\ pc[c] = "saveall"
    /\ \/ /\ journal' = [journal EXCEPT ![c] = "SUCCEEDED"]
          /\ Answer(c, "ok")
       \/ /\ "store_error" \in Faults
          /\ GoTo(c, "error")
          /\ UNCHANGED <<journal, wire>>
    /\ UNCHANGED <<child, effects, at, desktop, registered, restarts>>

\* An exception: fail_request for the child and for the call, unless the row
\* has succeeded; KeyError and ValueError are a 400, anything else a 500.
Fail(c) ==
    /\ pc[c] \in {"badrequest", "error"}
    /\ journal' = [journal EXCEPT ![c] = IF @ = "SUCCEEDED" THEN @ ELSE "FAILED"]
    /\ child' = [child EXCEPT ![c] = [i \in Part |->
                    IF i = at[c] /\ @[i] = "RUNNING" THEN "FAILED" ELSE @[i]]]
    /\ Answer(c, IF pc[c] = "badrequest" THEN "400" ELSE "500")
    /\ UNCHANGED <<effects, at, desktop, registered, restarts>>

Serve(c) ==
    \/ Begin(c) \/ BeginPart(c) \/ RunPart(c) \/ BindPart(c)
    \/ SavePart(c) \/ SaveBatch(c) \/ Fail(c)

-----------------------------------------------------------------------------
(* The client.                                                             *)

\* _rpc looks for an equal submission that is still being reconciled.
Click(c) ==
    /\ client[c] = "idle"
    /\ client' = [client EXCEPT ![c] =
                    IF guard[CommandOf[c]] = NoCall THEN "cleared" ELSE "held"]
    /\ UNCHANGED <<server, handler, resent, guard, registered, restarts>>

\* Browser preparation lies between the look and the POST.
Send(c) ==
    /\ client[c] = "cleared"
    /\ client' = [client EXCEPT ![c] = "waiting"]
    /\ GoTo(c, "arrived")
    /\ UNCHANGED <<server, at, wire, resent, guard, registered, restarts>>

\* _schedule_request_reconciliation.
Reconcile(c) ==
    /\ client' = [client EXCEPT ![c] = "unknown"]
    /\ guard' = [guard EXCEPT ![CommandOf[c]] = c]

\* Mutant of TimeOut: no answer is taken for a failure.
TimeOutFails(c) ==
    /\ client[c] = "waiting" /\ wire[c] = "none"
    /\ client' = [client EXCEPT ![c] = "failed"]
    /\ UNCHANGED <<server, handler, resent, guard, registered, restarts>>

\* ReadTimeout, or the connection breaks.
TimeOut(c) ==
    /\ client[c] = "waiting" /\ wire[c] = "none"
    /\ Reconcile(c)
    /\ UNCHANGED <<server, handler, resent, registered, restarts>>

\* A reply; a 409 re-registers the desktop and sends the call once more.
Receive(c) ==
    /\ client[c] = "waiting" /\ wire[c] # "none"
    /\ wire' = [wire EXCEPT ![c] = "none"]
    /\ \/ /\ wire[c] = "ok"
          /\ client' = [client EXCEPT ![c] = "succeeded"]
          /\ UNCHANGED <<guard, pc, resent, registered>>
       \/ /\ wire[c] \in {"suppressed", "500"}
          /\ Reconcile(c)
          /\ UNCHANGED <<pc, resent, registered>>
       \/ /\ wire[c] = "400" \/ (wire[c] = "409" /\ c \in resent)
          /\ client' = [client EXCEPT ![c] = "failed"]
          /\ UNCHANGED <<guard, pc, resent, registered>>
       \/ /\ wire[c] = "409" /\ c \notin resent
          /\ resent' = resent \cup {c}
          /\ registered' = TRUE
          /\ GoTo(c, "arrived")
          /\ UNCHANGED <<client, guard>>
    /\ UNCHANGED <<server, at, restarts>>

\* A poll of request_status finds the saved response.  A FAILED, RUNNING or
\* missing row resolves nothing: "a failed RPC journal is not proof that no
\* task entered the queue", so the guard stays.
Poll(c) ==
    /\ client[c] = "unknown"
    /\ journal[c] = "SUCCEEDED"
    /\ client' = [client EXCEPT ![c] = "succeeded"]
    /\ guard' = [guard EXCEPT ![CommandOf[c]] = IF @ = c THEN NoCall ELSE @]
    /\ UNCHANGED <<server, handler, resent, registered, restarts>>

-----------------------------------------------------------------------------
(* The desktop's row and the process.                                      *)

LoseRow ==
    /\ "row_lost" \in Faults
    /\ registered
    /\ registered' = FALSE
    /\ UNCHANGED <<server, handler, desktop, restarts>>

\* The next heartbeat's 409.
Register ==
    /\ ~registered
    /\ registered' = TRUE
    /\ UNCHANGED <<server, handler, desktop, restarts>>

\* Handlers die with the process, and their clients' connections break; the
\* store turns what was RUNNING into FAILED before anything else is served.
Restart ==
    /\ restarts < MaxRestarts
    /\ restarts' = restarts + 1
    /\ pc' = [c \in Call |-> "off"]
    /\ journal' = [c \in Call |->
                    IF journal[c] = "RUNNING" THEN "FAILED" ELSE journal[c]]
    /\ child' = [c \in Call |-> [i \in Part |->
                    IF child[c][i] = "RUNNING" THEN "FAILED" ELSE child[c][i]]]
    /\ UNCHANGED <<effects, at, wire, desktop, registered>>

Next ==
    \/ \E c \in Call : Serve(c) \/ Click(c) \/ Send(c) \/ TimeOut(c) \/ Receive(c) \/ Poll(c)
    \/ LoseRow \/ Register \/ Restart

Spec == Init /\ [][Next]_vars

\* Handlers run, replies or timeouts arrive, the client keeps polling.
Fairness ==
    \A c \in Call :
        WF_vars(Serve(c)) /\ WF_vars(TimeOut(c) \/ Receive(c)) /\ WF_vars(Poll(c))

FairSpec == Spec /\ Fairness

-----------------------------------------------------------------------------
(* Properties.                                                             *)

\* No part of a call takes effect twice, however often the call is sent.
AtMostOnce == \A c \in Call : \A i \in Index(c) : effects[c][i] <= 1

\* What the journal and the client report as done is done in full: every part
\* of the batch has its own saved outcome.
SuccessIsComplete ==
    \A c \in Call :
        /\ client[c] = "succeeded" \/ wire[c] = "ok" => journal[c] = "SUCCEEDED"
        /\ journal[c] = "SUCCEEDED" /\ c \in Batch =>
              \A i \in Index(c) : child[c][i] = "SUCCEEDED"

\* A row that reads FAILED or SUCCEEDED keeps doing so, and no effect of the
\* call is still to come: what a poll learns is final.
OutcomeIsFinal ==
    [][\A c \in Call : journal[c] \in {"SUCCEEDED", "FAILED"} =>
          journal'[c] = journal[c] /\ effects'[c] = effects[c]]_vars

\* A submission whose outcome was saved is reported as done in the end, even
\* if its reply was lost.
SavedIsLearned ==
    \A c \in Call : journal[c] = "SUCCEEDED" ~> client[c] = "succeeded"

\* The journal keeps its promise: a call's parts take effect at most once and
\* only while it is open, its outcome is settled once, and the client hears of a
\* success only when the journal has one.
Outcome == [c \in Call |-> IF journal[c] = "SUCCEEDED" THEN "done"
                          ELSE IF journal[c] = "FAILED" THEN "failed" ELSE "open"]
Told == [c \in Call |-> IF client[c] = "succeeded" THEN "done"
                       ELSE IF client[c] = "failed" THEN "failed" ELSE "nothing"]

Promise == INSTANCE RequestPromise WITH outcome <- Outcome, told <- Told

KeepsPromise == Promise!Spec
=============================================================================
