-------------------------- MODULE WorkspaceControl --------------------------
(***************************************************************************)
(* Starting and stopping workspaces: the handlers of apps/api              *)
(* workspaces.py, the Runtime bind coordinator (waw_binding.py) and the    *)
(* startup of the API (waw_application.py) over WorkspaceSessions.         *)
(*                                                                         *)
(* The API is one event loop, so a handler runs from one await to the next *)
(* in one step.  Its awaits are the coordinator's RPCs, serialised by an   *)
(* asyncio.Lock, which is fair: queue holds the waiting requests and its   *)
(* head owns the lock.  The Runtime is external: a reply is any answer     *)
(* that the handler accepts, and a failure is any error, refusal or answer *)
(* that it does not.  Transactions of the database do not fail, short of a *)
(* crash.  Authentication and response bodies are left out.                *)
(***************************************************************************)
EXTENDS WorkspaceSessions, Sequences, FiniteSets

CONSTANTS
    Agents,      \* the agent types, one workspace each
    Requests,    \* requests in flight at once
    Digests,     \* binding digests the Runtime may attest
    NoRow, NoAgent,
    MaxGen,      \* bound on the generations of a workspace
    MaxEpoch,    \* bound on the Runtime's epochs
    MaxFaults,   \* bound on failed RPCs
    MaxCrashes   \* bound on crashes of the API

ASSUME ControlAssumption ==
    /\ NoDigest \notin Digests
    /\ NoAgent \notin Agents
    /\ {MaxGen, MaxEpoch} \subseteq Nat \ {0}
    /\ {MaxFaults, MaxCrashes} \subseteq Nat

VARIABLES
    row,        \* AgentWorkspaceSessionRecord of each agent, or NoRow
    stops,      \* result of the WorkspaceStopOperationRecord of each generation
    binding,    \* ProjectBindingRecord
    hostEpoch,  \* last_runtime_epoch of the host row, 0 for NULL
    rtEpoch,    \* external: epoch of the running Runtime
    bound,      \* epoch of _bound_response, 0 for None
    api,        \* phase of the API's startup and the epoch it began with
    queue,      \* requests at the coordinator's lock
    sent,       \* the head of queue has bound and sent its RPC
    req,        \* the handlers' local state
    faults, crashes

store == <<row, stops, binding, hostEpoch>>
vars == <<store, rtEpoch, bound, api, queue, sent, req, faults, crashes>>

Generations == 1..MaxGen
StopResults == {"PENDING", "STOPPED", "TIMEOUT", "RECONCILIATION_REQUIRED"}

(* pc names the RPC awaited: register, start, evidence, stop, status, or    *)
(* the stop of _compensate_started_workspace_binding_drift.  snap is the    *)
(* row and digest the binding digest that the handler holds across the      *)
(* await.  raised: the last answer was the 500 of an exception that the     *)
(* handler does not catch (WAWDomainError, IntegrityError).                 *)
Idle == [pc |-> "idle", agent |-> NoAgent, snap |-> NoRow, digest |-> NoDigest,
         epoch |-> 0, state |-> "none", raised |-> FALSE]

(* attestation: _bound_response while its peer is the running Runtime.      *)
Attested == bound # 0 /\ bound = rtEpoch

Init ==
    /\ row = [a \in Agents |-> NoRow]
    /\ stops = [a \in Agents |-> [g \in Generations |-> "none"]]
    /\ binding = NoBinding
    /\ hostEpoch = 0 /\ rtEpoch = 1 /\ bound = 0
    /\ api = [phase |-> "down", epoch |-> 0]
    /\ queue = <<>> /\ sent = FALSE
    /\ req = [r \in Requests |-> Idle]
    /\ faults = 0 /\ crashes = 0

-----------------------------------------------------------------------------
(* Pieces of handlers.                                                      *)
(* The lock is given back by r, if r has it.                                *)
Others(r) == IF queue # <<>> /\ Head(queue) = r THEN Tail(queue) ELSE queue

Await(r, local) == req' = [req EXCEPT ![r] = local] /\ queue' = Append(Others(r), r)

(* Mutant: the coordinator's lock is kept by a request that has ended.      *)
Ended_KeepsLock(r, raised) ==
    req' = [req EXCEPT ![r] = [Idle EXCEPT !.raised = raised]] /\ queue' = queue

Ended(r, raised) ==
    req' = [req EXCEPT ![r] = [Idle EXCEPT !.raised = raised]] /\ queue' = Others(r)

Answer(r) == Ended(r, FALSE)
Raise(r) == Ended(r, TRUE)

Put(a, w) == row' = [row EXCEPT ![a] = w]

SameTuple(w, snap) == w.gen = snap.gen /\ w.digest = snap.digest

(* _require_workspace_current_binding, given the binding b.                 *)
BindingCurrent(w, b) == b.status = "CURRENT" /\ b.digest = w.digest

(* _require_binding_reconciliation                                          *)
RequireReconciliation(digest) ==
    /\ binding' = Reconciled(binding, digest)
    /\ row' = IF binding.digest = digest /\ digest # NoDigest
              THEN [a \in Agents |->
                      IF row[a] = NoRow THEN NoRow ELSE BindingFenced(row[a], digest)]
              ELSE row
    /\ UNCHANGED stops

(* _fence_ambiguous_workspace_start                                         *)
FencedStart(w, snap, drift) ==
    IF /\ SameTuple(w, snap)
       /\ \/ w.state = "STARTING" /\ w.rev = snap.rev
          \/ w.state \in Live /\ drift
    THEN Unknown(w, drift) ELSE w

(* Mutant: a restart of the Runtime leaves the stop records as they are.    *)
Classify_KeepsStops ==
    /\ hostEpoch' = rtEpoch
    /\ row' = [a \in Agents |->
                 IF hostEpoch # 0 /\ rtEpoch > hostEpoch /\ row[a] # NoRow THEN EpochFenced(row[a])
                 ELSE row[a]]
    /\ UNCHANGED stops

(* classify_runtime_epoch of the epoch just attested by a bind.  The epochs *)
(* of the Runtime only grow, so an older one is never there to be refused.  *)
Classify ==
    LET restarted == hostEpoch # 0 /\ rtEpoch > hostEpoch IN
    /\ hostEpoch' = rtEpoch
    /\ row' = [a \in Agents |-> IF restarted /\ row[a] # NoRow THEN EpochFenced(row[a])
                                ELSE row[a]]
    /\ stops' = [a \in Agents |-> [g \in Generations |->
                   IF restarted /\ stops[a][g] = "PENDING" THEN "RECONCILIATION_REQUIRED"
                   ELSE stops[a][g]]]

(* begin_stop on the row value w.  A row that may not move to STOPPING      *)
(* raises WAWDomainError, a generation that has a stop record already the   *)
(* IntegrityError of uq_waw_stops_generation.                               *)
BeginStop(r, a, w, pc) ==
    \/ /\ CanMove(w.state, "STOPPING")
       /\ stops[a][w.gen] = "none"
       /\ Put(a, Stopping(w))
       /\ stops' = [stops EXCEPT ![a][w.gen] = "PENDING"]
       /\ Await(r, [Idle EXCEPT !.pc = pc, !.agent = a, !.snap = w])
    \/ /\ ~CanMove(w.state, "STOPPING") \/ stops[a][w.gen] # "none"
       /\ Put(a, w)
       /\ Raise(r)
       /\ UNCHANGED stops

(* Mutant: only a positive acknowledgement is recorded.                     *)
CompleteStop_PositiveOnly(a, g, result) ==
    IF /\ stops[a][g] = "PENDING" /\ result = "STOPPED"
       /\ row[a].gen = g /\ row[a].state = "STOPPING" /\ row[a].recon = "stopping"
    THEN /\ Put(a, StopEnded(row[a], result))
         /\ stops' = [stops EXCEPT ![a][g] = result]
    ELSE UNCHANGED <<row, stops>>

(* complete_stop                                                            *)
CompleteStop(a, g, result) ==
    IF /\ stops[a][g] = "PENDING"
       /\ row[a].gen = g /\ row[a].state = "STOPPING" /\ row[a].recon = "stopping"
    THEN /\ Put(a, StopEnded(row[a], result))
         /\ stops' = [stops EXCEPT ![a][g] = result]
    ELSE UNCHANGED <<row, stops>>

(* _compensate_started_workspace_binding_drift up to its RPC                *)
Compensate(r, a, snap) ==
    LET w == FencedStart(row[a], snap, TRUE) IN
    \/ /\ SameTuple(w, snap) /\ w.state \notin {"STOPPING", "STOPPED"}
       /\ BeginStop(r, a, w, "compensate")
    \/ /\ ~SameTuple(w, snap) \/ w.state \in {"STOPPING", "STOPPED"}
       /\ Put(a, w)
       /\ Answer(r)
       /\ UNCHANGED stops

(* start_workspace from the row w it found or created, under binding b, to  *)
(* its Start RPC.                                                           *)
Acquire(r, a, w, b) ==
    LET trusted == BindingCurrent(w, b) /\ Attested
        Send(v) == /\ Put(a, v)
                   /\ Await(r, [Idle EXCEPT !.pc = "start", !.agent = a, !.snap = v,
                                            !.epoch = bound])
    IN \/ trusted /\ w.state = "STARTING" /\ Send(w)
       \/ trusted /\ w.state \in Restartable /\ w.gen < MaxGen /\ Send(Restarted(w))
       \/ /\ \/ ~trusted
             \/ w.state \notin Restartable \cup {"STARTING"}
             \/ w.state \in Restartable /\ w.gen = MaxGen
          /\ Put(a, w)
          /\ Answer(r)

(* start_workspace from the evidence check to its answer.                   *)
Confirm(r, a, w, rev, state) ==
    LET moves == w.state \notin Live /\ w.rev = rev
        allowed == CanMove(w.state, state)
    IN /\ Put(a, IF moves /\ allowed THEN Moved(w, state, "authoritative", FALSE) ELSE w)
       /\ Ended(r, moves /\ ~allowed)

-----------------------------------------------------------------------------
(* start_workspace up to its first RPC.  The first use of an agent ensures  *)
(* the Project binding before there is a row.                               *)
FirstUse(r, a) ==
    \/ ~Attested /\ Answer(r) /\ UNCHANGED <<row, binding, stops>>
    \/ /\ Attested /\ (binding.digest = NoDigest \/ binding.status = "CURRENT")
       /\ binding' = Reserved(binding)
       /\ Await(r, [Idle EXCEPT !.pc = "register", !.agent = a, !.digest = binding.digest])
       /\ UNCHANGED <<row, stops>>
    \/ /\ Attested /\ binding.digest # NoDigest /\ binding.status # "CURRENT"
       /\ RequireReconciliation(binding.digest)
       /\ Answer(r)

StartRequest(r, a) ==
    /\ api.phase = "up" /\ req[r].pc = "idle"
    /\ \/ row[a] = NoRow /\ FirstUse(r, a)
       \/ row[a] # NoRow /\ Acquire(r, a, row[a], binding) /\ UNCHANGED <<binding, stops>>
    /\ UNCHANGED <<hostEpoch, rtEpoch, bound, api, sent, faults, crashes>>

StopRequest(r, a) ==
    /\ api.phase = "up" /\ req[r].pc = "idle" /\ row[a] # NoRow
    /\ BeginStop(r, a, row[a], "stop")
    /\ UNCHANGED <<binding, hostEpoch, rtEpoch, bound, api, sent, faults, crashes>>

(* get_runtime_status.  It changes no row, but its RPC needs no attestation *)
(* and so can bind again.                                                   *)
StatusRequest(r, a) ==
    /\ api.phase = "up" /\ req[r].pc = "idle" /\ row[a] # NoRow
    /\ Await(r, [Idle EXCEPT !.pc = "status", !.agent = a])
    /\ UNCHANGED <<store, rtEpoch, bound, api, sent, faults, crashes>>

-----------------------------------------------------------------------------
(* request_lifecycle.  The lock's owner first binds, which reuses a bound   *)
(* response while its peer is current and classifies the epoch otherwise.   *)
BindAndSend(r) ==
    /\ queue # <<>> /\ r = Head(queue) /\ ~sent
    /\ sent' = TRUE
    /\ bound' = rtEpoch
    /\ IF Attested THEN UNCHANGED <<row, stops, hostEpoch>> ELSE Classify
    /\ UNCHANGED <<binding, rtEpoch, api, queue, req, faults, crashes>>

(* The lock's owner gets an answer, or an error: a transport error drops    *)
(* the binding, an ERROR answer may keep it.                                *)
Replied(r, pc) ==
    /\ sent /\ r = Head(queue) /\ req[r].pc = pc
    /\ sent' = FALSE
    /\ UNCHANGED <<hostEpoch, rtEpoch, bound, api, faults, crashes>>

Failed(r, pc) ==
    /\ queue # <<>> /\ r = Head(queue) /\ req[r].pc = pc
    /\ faults < MaxFaults /\ faults' = faults + 1
    /\ bound' \in (IF sent THEN {0, bound} ELSE {0})
    /\ sent' = FALSE
    /\ UNCHANGED <<hostEpoch, rtEpoch, api, crashes>>

(* _ensure_current_project_binding and                                      *)
(* _create_first_workspace_from_current_binding after the RPC.              *)
RegisterReplied(r, digest) ==
    LET a == req[r].agent
        held == req[r].digest
        accepted == IF held = NoDigest THEN Committable(binding, digest) ELSE digest = held
        b == IF held = NoDigest THEN Committed(digest) ELSE binding
    IN /\ Replied(r, "register")
       /\ \/ /\ accepted /\ b.status = "CURRENT"
             /\ binding' = b
             /\ Acquire(r, a, IF row[a] = NoRow THEN NewRow(b.digest) ELSE row[a], b)
             /\ UNCHANGED stops
          \/ /\ ~accepted \/ b.status # "CURRENT"
             /\ RequireReconciliation(held)
             /\ Answer(r)

RegisterFailed(r) ==
    /\ Failed(r, "register")
    /\ RequireReconciliation(req[r].digest)
    /\ Answer(r)

(* start_workspace after its Start RPC.                                     *)
StartReplied(r, state) ==
    LET a == req[r].agent
        w == row[a]
        current == BindingCurrent(w, binding) /\ SameTuple(w, req[r].snap)
        started == w.state \in Live \cup {"STARTING"}
        proven == EvidenceCurrent(w, req[r].epoch)
        sameEpoch == Attested /\ bound = req[r].epoch
    IN /\ Replied(r, "start")
       /\ \/ ~current /\ Compensate(r, a, req[r].snap)
          \/ current /\ ~started /\ Answer(r) /\ UNCHANGED <<row, stops>>
          \/ /\ current /\ started /\ proven
             /\ Confirm(r, a, w, req[r].snap.rev, state) /\ UNCHANGED stops
          \/ /\ current /\ started /\ ~proven /\ ~sameEpoch
             /\ Put(a, Unknown(w, FALSE)) /\ Answer(r) /\ UNCHANGED stops
          \/ /\ current /\ started /\ ~proven /\ sameEpoch
             /\ Await(r, [req[r] EXCEPT !.pc = "evidence", !.snap = w, !.state = state])
             /\ UNCHANGED <<row, stops>>
       /\ UNCHANGED binding

StartFailed(r) ==
    LET a == req[r].agent IN
    /\ Failed(r, "start")
    /\ Put(a, FencedStart(row[a], req[r].snap, FALSE))
    /\ Answer(r)
    /\ UNCHANGED <<binding, stops>>

(* EXECUTABLE_EVIDENCE_UNAVAILABLE                                          *)
EvidenceRefused(r) ==
    LET a == req[r].agent IN
    /\ Put(a, IF row[a].rev = req[r].snap.rev THEN Unknown(row[a], FALSE) ELSE row[a])
    /\ Answer(r)

(* _record_runtime_executable_evidence after its RPC and the rest of        *)
(* start_workspace.                                                         *)
EvidenceReplied(r) ==
    LET a == req[r].agent
        w == row[a]
        current == BindingCurrent(w, binding) /\ SameTuple(w, req[r].snap)
        other == w.evidence = "VERIFIED" /\ ~EvidenceCurrent(w, req[r].epoch)
        v == IF w.evidence = "VERIFIED" THEN w ELSE Evidenced(w, req[r].epoch)
    IN /\ Replied(r, "evidence") /\ bound = req[r].epoch
       /\ \/ ~current /\ Compensate(r, a, req[r].snap)
          \/ /\ current
             /\ IF other THEN EvidenceRefused(r) ELSE Confirm(r, a, v, v.rev, req[r].state)
             /\ UNCHANGED stops
       /\ UNCHANGED binding

(* An answer of another epoch than the one asked for is an error.           *)
EvidenceFailed(r) ==
    /\ \/ Failed(r, "evidence")
       \/ Replied(r, "evidence") /\ bound # req[r].epoch
    /\ EvidenceRefused(r)
    /\ UNCHANGED <<binding, stops>>

(* stop_workspace after its RPC.                                            *)
StopReplied(r, result) ==
    /\ Replied(r, "stop")
    /\ CompleteStop(req[r].agent, req[r].snap.gen, result)
    /\ Answer(r)
    /\ UNCHANGED binding

StopFailed(r) ==
    /\ Failed(r, "stop")
    /\ CompleteStop(req[r].agent, req[r].snap.gen, "RECONCILIATION_REQUIRED")
    /\ Answer(r)
    /\ UNCHANGED binding

(* complete of _compensate_started_workspace_binding_drift                  *)
CompensateReplied(r, result) ==
    /\ Replied(r, "compensate")
    /\ CompleteStop(req[r].agent, req[r].snap.gen, result)
    /\ Answer(r)
    /\ UNCHANGED binding

CompensateFailed(r) ==
    /\ Failed(r, "compensate")
    /\ CompleteStop(req[r].agent, req[r].snap.gen, "RECONCILIATION_REQUIRED")
    /\ Answer(r)
    /\ UNCHANGED binding

StatusEnded(r) ==
    /\ Replied(r, "status") \/ Failed(r, "status")
    /\ Answer(r)
    /\ UNCHANGED <<row, stops, binding>>

-----------------------------------------------------------------------------
(* _perform_start and _replay_and_finalize_project_bindings.  A binding     *)
(* that needs reconciliation and has a digest refuses the startup.          *)
BootBind ==
    LET refused == binding.digest # NoDigest /\ binding.status # "CURRENT" IN
    /\ api.phase = "down"
    /\ Classify
    /\ bound' = IF refused THEN 0 ELSE rtEpoch
    /\ api' = IF refused THEN api
              ELSE [phase |-> IF binding.status = "none" THEN "finalize" ELSE "register",
                    epoch |-> rtEpoch]
    /\ UNCHANGED <<binding, rtEpoch, queue, sent, req, faults, crashes>>

BootRegister(digest) ==
    /\ api.phase = "register"
    /\ binding.digest \in {NoDigest, digest}
    /\ binding' = Committed(digest)
    /\ Classify
    /\ bound' = rtEpoch
    /\ api' = [api EXCEPT !.phase = "finalize"]
    /\ UNCHANGED <<rtEpoch, queue, sent, req, faults, crashes>>

BootFinalize ==
    /\ api.phase = "finalize" /\ api.epoch = rtEpoch
    /\ api' = [phase |-> "up", epoch |-> 0]
    /\ UNCHANGED <<store, rtEpoch, bound, queue, sent, req, faults, crashes>>

(* The replay fails, or the inventory names an epoch that is over.          *)
BootFails ==
    /\ api.phase \in {"register", "finalize"}
    /\ IF api.epoch = rtEpoch THEN faults < MaxFaults /\ faults' = faults + 1
       ELSE UNCHANGED faults
    /\ binding' = IF api.phase = "register" THEN Reconciled(binding, NoDigest) ELSE binding
    /\ api' = [phase |-> "down", epoch |-> 0]
    /\ bound' = 0
    /\ UNCHANGED <<row, stops, hostEpoch, rtEpoch, queue, sent, req, crashes>>

ApiCrash ==
    /\ api.phase # "down"
    /\ crashes < MaxCrashes /\ crashes' = crashes + 1
    /\ api' = [phase |-> "down", epoch |-> 0]
    /\ bound' = 0 /\ queue' = <<>> /\ sent' = FALSE
    /\ req' = [r \in Requests |-> Idle]
    /\ UNCHANGED <<store, rtEpoch, faults>>

RuntimeRestart ==
    /\ rtEpoch < MaxEpoch
    /\ rtEpoch' = rtEpoch + 1
    /\ UNCHANGED <<store, bound, api, queue, sent, req, faults, crashes>>

-----------------------------------------------------------------------------
Rpc(r) ==
    \/ BindAndSend(r)
    \/ \E d \in Digests : RegisterReplied(r, d)
    \/ RegisterFailed(r)
    \/ \E state \in Live : StartReplied(r, state)
    \/ StartFailed(r)
    \/ EvidenceReplied(r)
    \/ EvidenceFailed(r)
    \/ \E result \in {"STOPPED", "TIMEOUT"} : StopReplied(r, result) \/ CompensateReplied(r, result)
    \/ StopFailed(r)
    \/ CompensateFailed(r)
    \/ StatusEnded(r)

Boot == BootBind \/ (\E d \in Digests : BootRegister(d)) \/ BootFinalize \/ BootFails

Next ==
    \/ \E r \in Requests : Rpc(r)
    \/ \E r \in Requests, a \in Agents :
         StartRequest(r, a) \/ StopRequest(r, a) \/ StatusRequest(r, a)
    \/ Boot
    \/ ApiCrash
    \/ RuntimeRestart

Spec == Init /\ [][Next]_vars

(* The control client answers or times out every RPC it holds, and the      *)
(* service manager starts an API that is down.                              *)
FairSpec ==
    /\ Spec
    /\ \A r \in Requests : WF_vars(Rpc(r))
    /\ WF_vars(Boot)

(* Besides, the user repeats what was refused.                              *)
RetrySpec ==
    /\ FairSpec
    /\ \A a \in Agents : /\ SF_vars(\E r \in Requests : StartRequest(r, a))
                         /\ SF_vars(\E r \in Requests : StopRequest(r, a))
                         /\ SF_vars(\E r \in Requests : StatusRequest(r, a))

-----------------------------------------------------------------------------
Rows ==
    [state : WorkspaceStates, recon : {"authoritative", "stopping", "reconciliation_required"},
     drift : BOOLEAN, gen : Generations, rev : Nat \ {0}, digest : Digests,
     evidence : {"UNOBSERVED", "STALE", "VERIFIED"}, evGen : 0..MaxGen, evEpoch : 0..MaxEpoch]

(* The null value of a row is not a row.                                    *)
ASSUME RowAssumption == NoRow \notin Rows

(* Type invariant of the rows, the coordinator and the handlers.            *)
TypeOK ==
    /\ row \in [Agents -> Rows \cup {NoRow}]
    /\ stops \in [Agents -> [Generations -> StopResults \cup {"none"}]]
    /\ binding \in [status : {"none", "PENDING", "CURRENT", "RECONCILIATION_REQUIRED"},
                    digest : Digests \cup {NoDigest}]
    /\ hostEpoch \in 0..MaxEpoch /\ rtEpoch \in 1..MaxEpoch /\ bound \in 0..MaxEpoch
    /\ api \in [phase : {"down", "register", "finalize", "up"}, epoch : 0..MaxEpoch]
    /\ queue \in Seq(Requests) /\ sent \in BOOLEAN
    /\ req \in [Requests -> [pc : {"idle", "register", "start", "evidence", "stop", "status",
                                   "compensate"},
                             agent : Agents \cup {NoAgent}, snap : Rows \cup {NoRow},
                             digest : Digests \cup {NoDigest}, epoch : 0..MaxEpoch,
                             state : Live \cup {"none"}, raised : BOOLEAN]]
    /\ faults \in 0..MaxFaults /\ crashes \in 0..MaxCrashes

(* A pending stop and a stopping row are the same fact: whatever fences,    *)
(* evidence or restarts come between begin_stop and complete_stop, exactly  *)
(* the row's own generation may have a PENDING record, and it has one       *)
(* exactly while the row is STOPPING.                                       *)
PendingStopOwnsRow ==
    \A a \in Agents, g \in Generations :
        stops[a][g] = "PENDING" <=>
            row[a] # NoRow /\ row[a].gen = g /\ row[a].state = "STOPPING" /\ row[a].recon = "stopping"

(* A row that says its agent runs was proven by the Runtime epoch that the  *)
(* host row names, for its own generation, under the current binding.       *)
LiveIsProven ==
    \A a \in Agents : row[a] # NoRow /\ row[a].state \in Live =>
        /\ EvidenceCurrent(row[a], hostEpoch)
        /\ row[a].recon = "authoritative"
        /\ BindingCurrent(row[a], binding)

(* Once the Runtime acknowledged the stop of a generation, no Start of that *)
(* generation is waiting to be sent, so nothing revives it, and the row     *)
(* stays STOPPED until it has a newer generation.                           *)
StoppedIsFinal ==
    \A a \in Agents, g \in Generations : stops[a][g] = "STOPPED" =>
        /\ row[a].gen = g => row[a].state = "STOPPED"
        /\ \A r \in Requests : req[r].pc = "start" /\ req[r].agent = a => req[r].snap.gen # g

(* A Stop that was begun settles the row, whatever the Runtime answers and  *)
(* whatever fences come in between, unless the API goes down under it (or   *)
(* the database refuses a write, which is not modelled: the handler then    *)
(* leaves the row STOPPING).                                                *)
StoppingSettles ==
    \A r \in Requests, a \in Agents :
        (req[r].pc \in {"stop", "compensate"} /\ req[r].agent = a)
            ~> (api.phase = "up" => row[a] # NoRow /\ row[a].state # "STOPPING")

(* Every request is answered, or the API it was sent to is gone.            *)
RequestsEnd == \A r \in Requests : (req[r].pc # "idle") ~> (req[r].pc = "idle")

(* Repeated first use of the agents converges: each gets its workspace.     *)
FirstUseConverges == <>(\A a \in Agents : row[a] # NoRow)

(* A Stop answered STOP_TIMEOUT can be retried: a later Stop of the same    *)
(* generation reaches the Runtime.                                          *)
StopTimeoutIsRetryable ==
    [][\A r \in Requests, a \in Agents :
         StopRequest(r, a) /\ stops[a][row[a].gen] = "TIMEOUT" => req'[r].pc = "stop"]_vars
=============================================================================
