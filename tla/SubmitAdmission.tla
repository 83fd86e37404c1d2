--------------------------- MODULE SubmitAdmission ---------------------------
(***************************************************************************)
(* Admission of a conversation turn in the Runtime: the durable journal    *)
(* (kebui_admission_journal.py), the in-memory custody of the turn's body  *)
(* (kebui_content_admission.py) and the owner that accepts a request once, *)
(* fences it, dispatches it and acknowledges it (kebui_admission.py).      *)
(*                                                                         *)
(* Several processes may hold the same journal directory.  A journal       *)
(* operation is one step, because it runs under a file lock; a process may *)
(* stop between any two of them, and a commit may be left uncertain.  An   *)
(* owner runs on one event loop: code between two awaits excludes every    *)
(* other step of its own process, and none of another process.             *)
(***************************************************************************)
EXTENDS Naturals, FiniteSets

CONSTANTS
    Processes,  \* processes that may open the journal directory
    Requests,   \* request ids
    SlotOf,     \* the (host, project, agent) turn slot of each request
    Executions, \* execution ids the current owner may have
    MaxRecords, \* MAX_RECORDS of the journal
    MaxRefs     \* bound on the content references ever issued

ASSUME BoundsAssumption == MaxRecords \in Nat /\ MaxRefs \in Nat

VARIABLES
    records,    \* the committed snapshot: request id -> its record
    orphan,     \* a crash left a temporary file beside the snapshot
    store,      \* journal instance of each process
    source,     \* content issuer of each process
    entries,    \* bodies in custody: process -> request id -> entry
    tasks,      \* worker tasks: process -> request id -> where it is
    owner,      \* execution id the current-owner guard yields
    refs,       \* content references issued so far
    effects     \* how often the body of each request was consumed

vars == <<records, orphan, store, source, entries, tasks, owner, refs, effects>>

Phases == {"accepted", "dispatch_fenced", "acknowledged", "terminal",
           "rejected_before_dispatch", "unknown"}
NoRecord == [phase |-> "none"]
NoEntry == [ref |-> 0]
Unavailable == "unavailable"

Records == [phase: Phases, ref: 1..MaxRefs, exec: Executions, rev: 1..4]
Entries == [ref: 1..MaxRefs, exec: Executions, accepted: BOOLEAN,
            worker: BOOLEAN, available: BOOLEAN, used: BOOLEAN]
TaskStates == {"none", "ready", "dispatching", "checked", "effected", "failed"}

TypeOK ==
    /\ records \in [Requests -> Records \cup {NoRecord}]
    /\ orphan \in BOOLEAN
    /\ store \in [Processes -> [status: {"closed", "reader", "writer", "fenced"},
                                live: SUBSET Requests]]
    /\ source \in [Processes -> {"open", "closed"}]
    /\ entries \in [Processes -> [Requests -> Entries \cup {NoEntry}]]
    /\ tasks \in [Processes -> [Requests -> TaskStates]]
    /\ owner \in [Processes -> Executions \cup {Unavailable}]
    /\ refs \in 0..MaxRefs
    /\ effects \in [Requests -> Nat]

-----------------------------------------------------------------------------
(* The journal.                                                            *)

FinishedPhases == {"terminal", "rejected_before_dispatch"}

Unfinished(r) == records[r] # NoRecord /\ records[r].phase \notin FinishedPhases

(* Mutant: a turn may be rejected after it was fenced for dispatch. *)
Allowed_LateReject(phase) ==
    CASE phase = "accepted" ->
            {"dispatch_fenced", "rejected_before_dispatch", "unknown"}
      [] phase = "dispatch_fenced" ->
            {"acknowledged", "terminal", "rejected_before_dispatch", "unknown"}
      [] phase = "acknowledged" -> {"terminal", "unknown"}
      [] OTHER -> {}

Allowed(phase) ==
    CASE phase = "accepted" ->
            {"dispatch_fenced", "rejected_before_dispatch", "unknown"}
      [] phase = "dispatch_fenced" -> {"acknowledged", "terminal", "unknown"}
      [] phase = "acknowledged" -> {"terminal", "unknown"}
      [] OTHER -> {}

Moved(record, phase) == [record EXCEPT !.phase = phase, !.rev = @ + 1]

(* open_existing(recover=True): every unfinished claim becomes UNKNOWN. *)
Recovered ==
    [r \in Requests |-> IF Unfinished(r) /\ records[r].phase # "unknown"
                        THEN Moved(records[r], "unknown") ELSE records[r]]

(* _locked and _read_barrier succeed for the instance of process p. *)
Readable(p) == store[p].status \in {"reader", "writer"} /\ ~orphan
Writable(p) == store[p].status = "writer" /\ ~orphan

(* Another instance may hold the file lock, and the operation is "busy". *)
Contended(p) == \E q \in Processes \ {p} : store[q].status # "closed"

Fence(p) == store' = [store EXCEPT ![p].status = "fenced"]

(* A journal write that would commit `new` reports an error: the lock is   *)
(* held elsewhere, or the read barrier finds the file of a crash, or       *)
(* _commit fails before or after the replacement; the last two fence the   *)
(* instance.                                                               *)
WriteFails(p, new) ==
    \/ (Contended(p) \/ store[p].status # "writer") /\ UNCHANGED <<records, store>>
    \/ store[p].status = "writer" /\ orphan /\ Fence(p) /\ UNCHANGED records
    \/ Writable(p) /\ records' \in {records, new} /\ Fence(p)

(* The record a transition of request r would commit. *)
After(r, phase) == [records EXCEPT ![r] = Moved(@, phase)]

(* transition(): the compare-and-set on the revision, the claim of this    *)
(* instance and the phase table.                                           *)
MayMove(p, r, rev, phase) ==
    /\ records[r] # NoRecord
    /\ records[r].rev = rev
    /\ r \in store[p].live
    /\ phase \in Allowed(records[r].phase)

Transition(p, r, rev, phase) ==
    /\ Writable(p)
    /\ MayMove(p, r, rev, phase)
    /\ records' = After(r, phase)
    /\ store' = [store EXCEPT ![p].live = IF phase \in FinishedPhases \cup {"unknown"}
                                          THEN @ \ {r} ELSE @]

(* The transition raises: refused by a check, or not written for certain. *)
TransitionFails(p, r, rev, phase) ==
    IF MayMove(p, r, rev, phase) \/ orphan
    THEN WriteFails(p, After(r, phase))
    ELSE UNCHANGED <<records, store>>

-----------------------------------------------------------------------------
(* The content pool of a process.                                          *)

(* _entry(): the entry is in custody and bound to this execution. *)
Held(p, r) ==
    /\ source[p] = "open"
    /\ entries[p][r] # NoEntry
    /\ entries[p][r].available
    /\ entries[p][r].exec = owner[p]

(* Mutant: an issuer closed under a worker leaves the body in custody. *)
WorkerRetired_Open(p, entry) ==
    IF entry # NoEntry /\ entry.accepted THEN [entry EXCEPT !.worker = FALSE] ELSE NoEntry

(* _worker_retired: the worker slot is returned, and the body too unless   *)
(* the entry is still accepted and available under an open issuer.         *)
WorkerRetired(p, entry) ==
    IF entry # NoEntry /\ source[p] = "open" /\ entry.available /\ entry.accepted
    THEN [entry EXCEPT !.worker = FALSE] ELSE NoEntry

(* _close_locked: nothing stays available, bodies without worker go. *)
Closed(entry) ==
    IF entry # NoEntry /\ entry.worker
    THEN [entry EXCEPT !.available = FALSE] ELSE NoEntry

(* The event loop of p is outside the section that checks, consumes and    *)
(* acknowledges without an await.                                          *)
Free(p) == \A r \in Requests : tasks[p][r] \notin {"checked", "effected"}

-----------------------------------------------------------------------------
Init ==
    /\ records = [r \in Requests |-> NoRecord]
    /\ orphan = FALSE
    /\ store = [p \in Processes |-> [status |-> "closed", live |-> {}]]
    /\ source = [p \in Processes |-> "closed"]
    /\ entries = [p \in Processes |-> [r \in Requests |-> NoEntry]]
    /\ tasks = [p \in Processes |-> [r \in Requests |-> "none"]]
    /\ owner = [p \in Processes |-> Unavailable]
    /\ refs = 0
    /\ effects = [r \in Requests |-> 0]

(* A process opens the directory: to recover and write, with an issuer, or *)
(* to read only.  A recovery whose commit is uncertain opens nothing.      *)
Open(p) ==
    /\ store[p].status = "closed" /\ ~orphan
    /\ \/ /\ records' = Recovered
          /\ store' = [store EXCEPT ![p] = [status |-> "writer", live |-> {}]]
          /\ source' = [source EXCEPT ![p] = "open"]
          /\ owner' \in {[owner EXCEPT ![p] = e] : e \in Executions}
       \/ /\ records' = Recovered
          /\ UNCHANGED <<store, source, owner>>
       \/ /\ store' = [store EXCEPT ![p] = [status |-> "reader", live |-> {}]]
          /\ UNCHANGED <<records, source, owner>>
    /\ UNCHANGED <<orphan, entries, tasks, refs, effects>>

(* The synchronous writer guard may pass to another execution, or be lost. *)
ReplaceOwner(p) ==
    /\ Free(p) /\ store[p].status = "writer"
    /\ \E e \in (Executions \cup {Unavailable}) \ {owner[p]} :
          owner' = [owner EXCEPT ![p] = e]
    /\ UNCHANGED <<records, orphan, store, source, entries, tasks, refs, effects>>

(* prepare(): a body enters custody under a fresh content reference. *)
Prepare(p, r) ==
    /\ Free(p) /\ source[p] = "open" /\ owner[p] # Unavailable
    /\ entries[p][r] = NoEntry
    /\ refs < MaxRefs
    /\ refs' = refs + 1
    /\ entries' = [entries EXCEPT ![p][r] =
                     [ref |-> refs + 1, exec |-> owner[p], accepted |-> FALSE,
                      worker |-> FALSE, available |-> TRUE, used |-> FALSE]]
    /\ UNCHANGED <<records, orphan, store, source, tasks, owner, effects>>

(* Mutant: a request left UNKNOWN may be accepted again. *)
Acceptable_Unknown(r) ==
    /\ records[r].phase \in {"none", "unknown"}
    /\ Cardinality({q \in Requests : records[q] # NoRecord}) < MaxRecords
    /\ \A q \in Requests \ {r} : Unfinished(q) => SlotOf[q] # SlotOf[r]

(* accept(): no record of the request, room for one, and a free slot. *)
Acceptable(r) ==
    /\ records[r] = NoRecord
    /\ Cardinality({q \in Requests : records[q] # NoRecord}) < MaxRecords
    /\ \A q \in Requests : Unfinished(q) => SlotOf[q] # SlotOf[r]

AcceptedRecord(p, r) ==
    [phase |-> "accepted", ref |-> entries[p][r].ref,
     exec |-> entries[p][r].exec, rev |-> 1]

(* submit() of a prepared body: the record is committed before the worker  *)
(* exists.  The worker is armed, or what follows the commit fails and only *)
(* the conservative clean-up is left.                                      *)
Submit(p, r) ==
    /\ Free(p) /\ Held(p, r) /\ ~entries[p][r].accepted
    /\ Writable(p) /\ Acceptable(r)
    /\ records' = [records EXCEPT ![r] = AcceptedRecord(p, r)]
    /\ store' = [store EXCEPT ![p].live = @ \cup {r}]
    /\ entries' = [entries EXCEPT ![p][r] = [@ EXCEPT !.accepted = TRUE, !.worker = TRUE]]
    /\ \E pc \in {"ready", "failed"} : tasks' = [tasks EXCEPT ![p][r] = pc]
    /\ UNCHANGED <<orphan, source, owner, refs, effects>>

(* submit() of a prepared body that is refused, by the owner guard, by an  *)
(* earlier record of the request, by the slot or the capacity, or because  *)
(* the commit did not succeed: the prepared body is discarded.             *)
SubmitFails(p, r) ==
    /\ Free(p) /\ entries[p][r] # NoEntry /\ ~entries[p][r].accepted
    /\ IF Held(p, r) /\ (Acceptable(r) \/ orphan)
       THEN WriteFails(p, [records EXCEPT ![r] = AcceptedRecord(p, r)])
       ELSE UNCHANGED <<records, store>>
    /\ entries' = [entries EXCEPT ![p][r] = NoEntry]
    /\ UNCHANGED <<orphan, source, tasks, owner, refs, effects>>

-----------------------------------------------------------------------------
(* The worker task, _run().                                                *)

(* Any failure of the worker leads to the same conservative handler. *)
Fail(p, r) == tasks' = [tasks EXCEPT ![p][r] = "failed"]

(* The claim is armed: fence the record before anything is dispatched. *)
RunFence(p, r) ==
    /\ Free(p) /\ tasks[p][r] = "ready"
    /\ \/ /\ Held(p, r)
          /\ Transition(p, r, 1, "dispatch_fenced")
          /\ tasks' = [tasks EXCEPT ![p][r] = "dispatching"]
       \/ /\ IF Held(p, r) THEN TransitionFails(p, r, 1, "dispatch_fenced")
             ELSE UNCHANGED <<records, store>>
          /\ Fail(p, r)
    /\ UNCHANGED <<orphan, source, entries, owner, refs, effects>>

(* Mutant: the record is not read again after the last await. *)
RunCheck_NoReread(p, r) ==
    /\ Free(p) /\ tasks[p][r] = "dispatching"
    /\ \/ /\ Held(p, r) /\ Readable(p)
          /\ tasks' = [tasks EXCEPT ![p][r] = "checked"]
          /\ UNCHANGED store
       \/ Fail(p, r) /\ (UNCHANGED store \/ Fence(p))
    /\ UNCHANGED <<records, orphan, source, entries, owner, refs, effects>>

(* dispatch() returned: the owner, the custody and the exact fenced record *)
(* are read again after the last await.                                    *)
RunCheck(p, r) ==
    /\ Free(p) /\ tasks[p][r] = "dispatching"
    /\ \/ /\ Held(p, r) /\ Readable(p)
          /\ records[r].phase = "dispatch_fenced" /\ records[r].rev = 2
          /\ tasks' = [tasks EXCEPT ![p][r] = "checked"]
          /\ UNCHANGED store
       \/ Fail(p, r) /\ (UNCHANGED store \/ Fence(p))
    /\ UNCHANGED <<records, orphan, source, entries, owner, refs, effects>>

(* _effect(): the body is consumed, unless the issuer expired just now or  *)
(* the consumer is at its limit, which it says once the entry is used.     *)
RunEffect(p, r) ==
    /\ tasks[p][r] = "checked"
    /\ \/ /\ Held(p, r) /\ entries[p][r].accepted
          /\ ~entries[p][r].used /\ entries[p][r].worker
          /\ entries' = [entries EXCEPT ![p][r].used = TRUE]
          /\ \/ /\ effects' = [effects EXCEPT ![r] = @ + 1]
                /\ tasks' = [tasks EXCEPT ![p][r] = "effected"]
             \/ Fail(p, r) /\ UNCHANGED effects
          /\ UNCHANGED source
       \/ /\ source' = [source EXCEPT ![p] = "closed"]
          /\ entries' = [entries EXCEPT ![p] = [q \in Requests |-> Closed(@[q])]]
          /\ Fail(p, r)
          /\ UNCHANGED effects
    /\ UNCHANGED <<records, orphan, store, owner, refs>>

(* The receipt is acknowledged and the claim retired; the guard's exit may *)
(* still fail after the acknowledgement was committed.                     *)
RunAcknowledge(p, r) ==
    /\ tasks[p][r] = "effected"
    /\ \/ /\ Transition(p, r, 2, "acknowledged")
          /\ \/ /\ tasks' = [tasks EXCEPT ![p][r] = "none"]
                /\ entries' = [entries EXCEPT ![p][r] = WorkerRetired(p, @)]
             \/ Fail(p, r) /\ UNCHANGED entries
       \/ /\ TransitionFails(p, r, 2, "acknowledged")
          /\ Fail(p, r) /\ UNCHANGED entries
    /\ UNCHANGED <<orphan, source, owner, refs, effects>>

(* The handler of every failure: revoke the body, _unknown() the record if *)
(* it is not settled, retire the claim whatever the journal answered.      *)
RunSettle(p, r) ==
    /\ Free(p) /\ tasks[p][r] = "failed"
    /\ LET rev == records[r].rev IN
       \/ Transition(p, r, rev, "unknown")
       \/ TransitionFails(p, r, rev, "unknown")
    /\ tasks' = [tasks EXCEPT ![p][r] = "none"]
    /\ entries' = [entries EXCEPT ![p][r] =
                     WorkerRetired(p, IF @ = NoEntry THEN @
                                      ELSE [@ EXCEPT !.available = FALSE])]
    /\ UNCHANGED <<orphan, source, owner, refs, effects>>

-----------------------------------------------------------------------------
(* reject_before_dispatch() and acknowledge_terminal(), for the owner that *)
(* the record names.  The receipt is the caller's: a fenced record becomes *)
(* TERMINAL before its body was consumed as well as after.  (That of an    *)
(* acknowledged record must be the one acknowledged, or nothing happens.)  *)
Conclude(p, r, phase) ==
    /\ Free(p) /\ records[r] # NoRecord /\ records[r].exec = owner[p]
    /\ \/ Transition(p, r, records[r].rev, phase)
       \/ TransitionFails(p, r, records[r].rev, phase)
    /\ UNCHANGED <<orphan, source, entries, tasks, owner, refs, effects>>

Reject(p, r) == Conclude(p, r, "rejected_before_dispatch")
Terminate(p, r) == Conclude(p, r, "terminal")

(* read(), of any caller: the barrier fences an instance that finds the    *)
(* file of a crash; otherwise nothing changes.                             *)
Read(p) ==
    /\ Free(p) /\ store[p].status \in {"reader", "writer"} /\ orphan
    /\ Fence(p)
    /\ UNCHANGED <<records, orphan, source, entries, tasks, owner, refs, effects>>

(* close() of the issuer, an expired lease or a revoked source. *)
CloseSource(p) ==
    /\ Free(p) /\ source[p] = "open"
    /\ source' = [source EXCEPT ![p] = "closed"]
    /\ entries' = [entries EXCEPT ![p] = [r \in Requests |-> Closed(@[r])]]
    /\ UNCHANGED <<records, orphan, store, tasks, owner, refs, effects>>

(* aclose(): once the source is closed and the workers are idle, the       *)
(* journal instance is closed and its claims are forgotten.                *)
Close(p) ==
    /\ store[p].status # "closed" /\ source[p] = "closed"
    /\ \A r \in Requests : tasks[p][r] = "none" /\ entries[p][r] = NoEntry
    /\ store' = [store EXCEPT ![p] = [status |-> "closed", live |-> {}]]
    /\ owner' = [owner EXCEPT ![p] = Unavailable]
    /\ UNCHANGED <<records, orphan, source, entries, tasks, refs, effects>>

(* The process dies anywhere, possibly with a temporary file of a commit   *)
(* not yet moved over the snapshot: no instance opens that directory again. *)
Crash(p) ==
    /\ store[p].status # "closed"
    /\ orphan' \in IF store[p].status = "writer" THEN {orphan, TRUE} ELSE {orphan}
    /\ store' = [store EXCEPT ![p] = [status |-> "closed", live |-> {}]]
    /\ source' = [source EXCEPT ![p] = "closed"]
    /\ entries' = [entries EXCEPT ![p] = [r \in Requests |-> NoEntry]]
    /\ tasks' = [tasks EXCEPT ![p] = [r \in Requests |-> "none"]]
    /\ owner' = [owner EXCEPT ![p] = Unavailable]
    /\ UNCHANGED <<records, refs, effects>>

Work(p, r) ==
    RunFence(p, r) \/ RunCheck(p, r) \/ RunEffect(p, r)
        \/ RunAcknowledge(p, r) \/ RunSettle(p, r)

Next ==
    \E p \in Processes :
        \/ Open(p) \/ Read(p) \/ ReplaceOwner(p) \/ CloseSource(p) \/ Close(p) \/ Crash(p)
        \/ \E r \in Requests :
              \/ Prepare(p, r) \/ Submit(p, r) \/ SubmitFails(p, r)
              \/ RunFence(p, r) \/ RunCheck(p, r) \/ RunEffect(p, r)
              \/ RunAcknowledge(p, r) \/ RunSettle(p, r)
              \/ Reject(p, r) \/ Terminate(p, r)

Spec == Init /\ [][Next]_vars

(* The event loop keeps running the workers, and a closed source wakes the *)
(* readiness wait they may be in.                                          *)
FairSpec ==
    Spec /\ \A p \in Processes : \A r \in Requests :
              WF_vars(source[p] = "closed" /\ Work(p, r))
-----------------------------------------------------------------------------
(* The body of a turn is consumed at most once, whatever processes crash,   *)
(* recover, resubmit or lose a commit: the record committed before dispatch *)
(* and the content reference it names outlive every claim on it.            *)
EffectAtMostOnce == \A r \in Requests : effects[r] <= 1

(* What the durable record says of the effect is true: a request without    *)
(* record, only accepted or rejected before dispatch was never consumed; an *)
(* acknowledged one was, and so was one that became TERMINAL or UNKNOWN     *)
(* after its acknowledgement, which its fourth revision tells.  A TERMINAL  *)
(* record of the third revision says nothing: see Conclude.                 *)
RecordIsTruthful ==
    \A r \in Requests :
        /\ records[r].phase \in {"none", "accepted", "rejected_before_dispatch"}
              => effects[r] = 0
        /\ records[r].phase = "acknowledged" => effects[r] = 1
        /\ records[r].phase \in {"terminal", "unknown"} /\ records[r].rev = 4
              => effects[r] = 1

(* While a worker consumes a body and acknowledges it, its request holds    *)
(* the turn slot alone, even if another process recovered the journal       *)
(* between the worker's check and its acknowledgement, or a terminal        *)
(* receipt freed the slot while the worker waited for readiness ("terminal  *)
(* during readiness prevents late effect").                                 *)
TurnHoldsSlot ==
    \A p \in Processes, r \in Requests :
        tasks[p][r] \in {"checked", "effected"} =>
            /\ Unfinished(r)
            /\ \A q \in Requests \ {r} : Unfinished(q) => SlotOf[q] # SlotOf[r]

(* Once the issuer of a process is closed, every body leaves custody: the   *)
(* last worker that holds one returns it when it retires.                   *)
BodiesAreReleased ==
    \A p \in Processes :
        source[p] = "closed" ~> \A r \in Requests : entries[p][r] = NoEntry
=============================================================================
