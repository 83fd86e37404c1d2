---------------------------- MODULE RuntimeStream ----------------------------
(***************************************************************************)
(* The encrypted terminal stream of one workspace generation, inside the   *)
(* Runtime: the attachment registry and its sessions                       *)
(* (waw_encrypted_stream.py), the connection handlers                      *)
(* (waw_encrypted_server.py), the attachment side of the supervisor        *)
(* (waw_supervisor.py) and the fixed transport that owns the attach child  *)
(* and its PTY (waw_fixed_transport.py), with the exact Stop and the       *)
(* transfer to a restarted API process (waw_lifecycle.py).                 *)
(*                                                                         *)
(* A registry or session operation runs in a worker thread and holds the   *)
(* registry lock, so it is one step; it needs the supervisor's lock, which *)
(* a Stop holds throughout (stopping).  Three things take neither lock and *)
(* interleave with everything: the chunks a handler writes to its socket,  *)
(* the fence a Stop puts on the socket, and poisoning the listener.        *)
(***************************************************************************)
EXTENDS Naturals, FiniteSets

CONSTANTS
    Attachments,  \* attachment ids the API may prepare
    None,         \* no attachment
    ProcessStates, \* states the process may be observed in before a Stop
    MaxAuthority  \* bound on the API processes that bind in turn

ASSUME NoneAssumption == None \notin Attachments
ASSUME ProcessAssumption ==
    ProcessStates \subseteq {"RUNNING", "NEEDS_INTERACTION", "UNKNOWN", "EXITED"}
ASSUME BoundsAssumption == MaxAuthority \in Nat \ {0}

VARIABLES
    sup,        \* the supervisor, with its transport's attachment handle
    children,   \* attachments whose attach child was not proven closed
    att,        \* registry record and session of each attachment
    task,       \* connection handler of each attachment
    frame,      \* the frame each handler is writing to its socket
    proc,       \* observed state of the workspace process
    stopping,   \* an exact Stop holds the supervisor after its fence
    api,        \* the API authority bound to the Runtime
    invalidated \* the registry was invalidated by a poisoned listener

vars == <<sup, children, att, task, frame, proc, stopping, api, invalidated>>
hostVars == <<proc, stopping, api, invalidated>>

Supervisors ==
    [state: {"RUNNING", "DETACHED", "INPUT_UNCERTAIN", "RECONCILIATION_REQUIRED",
             "STOPPING", "STOPPED", "BROKEN"},
     pending: Attachments \cup {None},   \* _runtime_pending
     writer: Attachments \cup {None},    \* _attachment
     last: Attachments \cup {None},      \* _last_attachment_id
     handle: Attachments \cup {None},    \* transport _attachment_lease
     proven: Attachments \cup {None}]    \* transport _last_cleanup

Records ==
    [reg: {"none", "prepared", "burnt", "open", "gone"},
     owner: 0..MaxAuthority,
     late: BOOLEAN,                      \* its deadline or health has expired
     cleaned: {"none", "confirmed", "uncertain"},
     phase: {"NONE", "WAIT_KEY_INIT", "WAIT_KEY_CONFIRM", "WAIT_READY",
             "WAIT_COMMIT", "COMMITTED", "CLOSED"},
     closing: BOOLEAN,
     drain: {"none", "open", "over"},
     fenced: BOOLEAN,
     proof: {"none", "confirmed", "uncertain"}]

Tasks == {"none", "read", "flush", "tick", "output", "failed", "finally",
          "closing", "done"}

(* OUTPUT carries terminal bytes; a status frame is one of those a closed  *)
(* session may still drain; every other frame is a reply.                  *)
Frames == {"none", "reply", "status", "output"}

TypeOK ==
    /\ sup \in Supervisors
    /\ children \subseteq Attachments
    /\ att \in [Attachments -> Records]
    /\ task \in [Attachments -> Tasks]
    /\ frame \in [Attachments -> Frames]
    /\ proc \in {"RUNNING", "NEEDS_INTERACTION", "UNKNOWN", "EXITED", "STOPPED"}
    /\ stopping \in BOOLEAN
    /\ api \in [gen: 1..MaxAuthority, alive: BOOLEAN, poisoned: BOOLEAN]
    /\ invalidated \in BOOLEAN

NoRecord ==
    [reg |-> "none", owner |-> 0, late |-> FALSE, cleaned |-> "none",
     phase |-> "NONE", closing |-> FALSE, drain |-> "none", fenced |-> FALSE,
     proof |-> "none"]

Init ==
    /\ sup = [state |-> "RUNNING", pending |-> None, writer |-> None,
              last |-> None, handle |-> None, proven |-> None]
    /\ children = {}
    /\ att = [a \in Attachments |-> NoRecord]
    /\ task = [a \in Attachments |-> "none"]
    /\ frame = [a \in Attachments |-> "none"]
    /\ proc = "RUNNING"
    /\ stopping = FALSE
    /\ api = [gen |-> 1, alive |-> TRUE, poisoned |-> FALSE]
    /\ invalidated = FALSE

-----------------------------------------------------------------------------
(* Cleanup, from the transport up to the session.  `closes` says whether   *)
(* the transport proves the attach child closed when it is asked.          *)

(* close_attachment() of the transport returns positive evidence. *)
ProvesClosed(s, a, closes) == s.proven = a \/ (s.handle = a /\ closes)

(* cleanup_runtime_attachment() of the supervisor returns True. *)
Confirms(s, a, closes) ==
    /\ s.pending = a
    /\ s.writer \in {None, a}
    /\ ProvesClosed(s, a, closes)

(* The supervisor after cleanup_runtime_attachment(). *)
CleanedUp(s, a, closes) ==
    IF s.pending # a \/ s.writer \notin {None, a} THEN s
    ELSE IF ~ProvesClosed(s, a, closes)
         THEN [s EXCEPT !.state = "RECONCILIATION_REQUIRED"]
         ELSE [s EXCEPT !.pending = None, !.writer = None, !.last = a,
                        !.handle = None, !.proven = a,
                        !.state = IF @ \in {"RUNNING", "DETACHED"}
                                  THEN "DETACHED" ELSE @]

(* The registry's _cleanup(): the supervisor and the record after it. *)
SupAfter(s, r, a, closes) ==
    IF r.cleaned = "confirmed" THEN s ELSE CleanedUp(s, a, closes)

(* Mutant: a record leaves the registry whatever its cleanup showed. *)
Released_Unproven(s, r, a, closes, release) ==
    [r EXCEPT !.cleaned = "confirmed", !.reg = IF release THEN "gone" ELSE "burnt"]

Released(s, r, a, closes, release) ==
    LET cleaned == IF r.cleaned = "confirmed" \/ Confirms(s, a, closes)
                   THEN "confirmed" ELSE "uncertain"
    IN [r EXCEPT !.cleaned = cleaned,
                 !.late = @ /\ ~(cleaned = "confirmed" /\ release),
                 !.reg = IF cleaned = "confirmed" /\ release THEN "gone"
                         ELSE IF @ = "prepared" THEN "burnt" ELSE @]

(* Session.invalidate(): no lock is taken; the socket may refuse to shut.  *)
Invalidated(r, fences) ==
    [r EXCEPT !.closing = TRUE, !.drain = "none", !.fenced = @ \/ fences]

(* Session.close(drain_control=True) before its cleanup. *)
Draining(r) ==
    [r EXCEPT !.closing = TRUE,
              !.drain = IF @ = "none" /\ ~r.fenced THEN "open" ELSE @]

(* _close_after_invalidation(): the supervisor and the record after it. *)
SupClosed(s, r, a, closes) ==
    IF r.proof = "confirmed" THEN s ELSE SupAfter(s, r, a, closes)

(* Mutant: a draining session is released before its socket is fenced. *)
Closed_Unfenced(s, r, a, closes, broken, drain) ==
    LET after == Released(s, r, a, closes, drain \/ r.fenced)
    IN [after EXCEPT !.phase = "CLOSED", !.proof = after.cleaned]

(* `broken`: the keys or the output cannot be cleared. *)
Closed(s, r, a, closes, broken, drain) ==
    LET failed == broken \/ (~drain /\ ~r.fenced)
        after == Released(s, r, a, closes, ~failed /\ r.fenced)
    IN IF r.proof = "confirmed"
       THEN IF r.fenced /\ ~failed THEN Released(s, r, a, closes, TRUE) ELSE r
       ELSE [after EXCEPT !.phase = "CLOSED",
                          !.proof = IF failed THEN "uncertain" ELSE after.cleaned]

(* A session is closed with the supervisor at s, the attach children at c  *)
(* and its record at r.                                                    *)
CloseFrom(s, c, r, a, drain) ==
    \E closes \in IF s.handle = a THEN BOOLEAN ELSE {FALSE}, broken \in BOOLEAN :
        /\ sup' = SupClosed(s, r, a, closes)
        /\ att' = [att EXCEPT ![a] = Closed(s, r, a, closes, broken, drain)]
        /\ children' = c \ {sup'.proven}

CloseDrain(a) == CloseFrom(sup, children, Draining(att[a]), a, TRUE)

(* Shutting a socket may fail while it is open; once it is closed, by its  *)
(* handler or by a poisoned listener, the fence holds.                     *)
Fences(a) ==
    IF task[a] = "done" \/ invalidated \/ att[a].fenced THEN {TRUE} ELSE BOOLEAN

-----------------------------------------------------------------------------
(* What an operation requires.                                             *)

Retained(r) == r.reg \in {"prepared", "burnt", "open"}

(* The API process that prepared attachment a is still the bound one. *)
Current(a) == api.alive /\ att[a].owner = api.gen

(* Session._check(), but for the health of a committed stream. *)
Fresh(a) == ~att[a].closing /\ Current(a) /\ ~invalidated
Check(a) == Fresh(a) /\ ~att[a].late

(* runtime_attachment_guard(), with and without require_running. *)
Guard(a) == ~stopping /\ sup.pending = a
RunningGuard(a) ==
    Guard(a) /\ proc = "RUNNING" /\ sup.state \in {"RUNNING", "DETACHED"}
WriterGuard(a) == Guard(a) /\ sup.writer = a

(* The handler of a is about to run its next operation. *)
At(a, where) == task[a] = where /\ frame[a] = "none"

Go(a, where, kind) ==
    /\ task' = [task EXCEPT ![a] = where]
    /\ frame' = [frame EXCEPT ![a] = kind]

-----------------------------------------------------------------------------
(* The registry: prepare and open.                                         *)

(* sweep(): records with no session that expired or lost their API. *)
Stale == {b \in Attachments : /\ att[b].reg \in {"prepared", "burnt"}
                              /\ att[b].late \/ ~Current(b)}
SweptSup ==
    IF Stale = {} THEN sup
    ELSE LET b == CHOOSE b \in Stale : TRUE IN SupAfter(sup, att[b], b, FALSE)
SweptAtt ==
    [b \in Attachments |-> IF b \in Stale
                           THEN Released(sup, att[b], b, FALSE, TRUE) ELSE att[b]]

Reserved(a) == [NoRecord EXCEPT !.reg = "prepared", !.owner = api.gen]

(* reserve_runtime_attachment() and the workspace's other records refuse. *)
Busy(a) ==
    \/ \E b \in Attachments : Retained(SweptAtt[b])
    \/ SweptSup.pending # None \/ SweptSup.writer # None \/ SweptSup.last = a

(* prepare(): sweep, reserve, then pass the guard once; a guard that fails *)
(* cleans the new record up.  The guard may also fail on the binding of    *)
(* the project, which another operation may hold.  The executor has no     *)
(* supervisor for a stopped workspace any more.                            *)
Prepare(a) ==
    /\ api.alive /\ ~invalidated /\ ~stopping /\ sup.state # "STOPPED"
    /\ att[a].reg = "none"
    /\ IF Busy(a) THEN sup' = SweptSup /\ att' = SweptAtt
       ELSE \E guarded \in BOOLEAN :
              LET s == [SweptSup EXCEPT !.pending = a]
              IN /\ guarded => proc = "RUNNING" /\ s.state \in {"RUNNING", "DETACHED"}
                 /\ sup' = IF guarded THEN s ELSE SupAfter(s, Reserved(a), a, FALSE)
                 /\ att' = [SweptAtt EXCEPT ![a] =
                                IF guarded THEN Reserved(a)
                                ELSE Released(s, Reserved(a), a, FALSE, TRUE)]
    /\ UNCHANGED <<children, task, frame, hostVars>>

Opened(r) == [r EXCEPT !.reg = "open", !.phase = "WAIT_KEY_INIT"]

(* open(): the capability is burnt, then everything is compared. *)
Open(a) ==
    /\ att[a].reg = "prepared" /\ Check(a) /\ RunningGuard(a)
    /\ att' = [att EXCEPT ![a] = Opened(@)]
    /\ Go(a, "read", "reply")
    /\ UNCHANGED <<sup, children, hostVars>>

(* open(): the comparison, the redraw or the guard fails after the burn. *)
OpenFails(a) ==
    /\ att[a].reg = "prepared" /\ api.alive /\ ~stopping
    /\ sup' = SupAfter(sup, att[a], a, FALSE)
    /\ att' = [att EXCEPT ![a] = Released(sup, @, a, FALSE, TRUE)]
    /\ UNCHANGED <<children, task, frame, hostVars>>

(* open(): the session exists, but its HELLO_ACK fails; it is closed, and  *)
(* the handler ends without it.                                            *)
OpenClosed(a) ==
    /\ att[a].reg = "prepared" /\ api.alive /\ Guard(a)
    /\ \E fences \in Fences(a) :
          CloseFrom(sup, children, Invalidated(Opened(att[a]), fences), a, FALSE)
    /\ Go(a, "done", "none")
    /\ UNCHANGED hostVars

(* Every session with a handler is invalidated, with no lock taken; the    *)
(* sockets in `shut` let themselves be shut.                               *)
Served == {a \in Attachments : task[a] \notin {"none", "done"}}
Invalidations(shut) ==
    [a \in Attachments |-> IF a \in Served THEN Invalidated(att[a], a \in shut)
                                            ELSE att[a]]

(* open() outlives its deadline: the listener is poisoned and the handler  *)
(* ends, and the worker then finishes a session that nobody serves.        *)
OpenTimesOut(a) ==
    /\ att[a].reg = "prepared" /\ Check(a) /\ RunningGuard(a)
    /\ invalidated' = TRUE
    /\ \E shut \in SUBSET {b \in Served : ~att[b].fenced} :
          att' = [Invalidations(shut) EXCEPT ![a] = Opened(att[a])]
    /\ Go(a, "done", "none")
    /\ UNCHANGED <<sup, children, proc, stopping, api>>

-----------------------------------------------------------------------------
(* Session.receive(), one operation of the handler.                        *)

KeyExchange(a) ==
    /\ At(a, "read") /\ Check(a)
    /\ \/ /\ att[a].phase = "WAIT_KEY_INIT"
          /\ att' = [att EXCEPT ![a].phase = "WAIT_KEY_CONFIRM"]
       \/ /\ att[a].phase = "WAIT_KEY_CONFIRM"
          /\ att' = [att EXCEPT ![a].phase = "WAIT_READY"]
    /\ Go(a, "tick", "reply")
    /\ UNCHANGED <<sup, children, hostVars>>

StreamReady(a) ==
    /\ At(a, "read") /\ Check(a) /\ RunningGuard(a)
    /\ att[a].phase = "WAIT_READY"
    /\ att' = [att EXCEPT ![a].phase = "WAIT_COMMIT"]
    /\ Go(a, "tick", "reply")
    /\ UNCHANGED <<sup, children, hostVars>>

MayCommit(a) ==
    At(a, "read") /\ Check(a) /\ RunningGuard(a) /\ att[a].phase = "WAIT_COMMIT"

(* ADMISSION_COMMIT opens the attach child and makes a the writer. *)
AdmissionCommit(a) ==
    /\ MayCommit(a)
    /\ sup.handle = None
    /\ sup' = [sup EXCEPT !.writer = a, !.handle = a, !.state = "RUNNING"]
    /\ children' = children \cup {a}
    /\ att' = [att EXCEPT ![a].phase = "COMMITTED"]
    /\ Go(a, "tick", "reply")
    /\ UNCHANGED hostVars

(* open_attachment() fails: without a child, after closing the child it    *)
(* started, or unable to close it.  attach() cleans up at once, and the    *)
(* session cleans up again when it closes.                                 *)
CommitFails(a) ==
    /\ MayCommit(a)
    /\ \E c \in {children, children \cup {a}}, s \in {sup, [sup EXCEPT !.proven = a]} :
          CloseFrom(CleanedUp(s, a, FALSE), c, Draining(att[a]), a, TRUE)
    /\ Go(a, "failed", "none")
    /\ UNCHANGED hostVars

Resize(a) ==
    /\ At(a, "read") /\ Check(a) /\ RunningGuard(a) /\ WriterGuard(a)
    /\ att[a].phase = "COMMITTED"
    /\ Go(a, "tick", "reply")
    /\ UNCHANGED <<sup, children, att, hostVars>>

(* The transport cannot resize: the supervisor closes the attachment, and  *)
(* the session cleans up again when it closes.                             *)
ResizeFails(a) ==
    /\ At(a, "read") /\ Check(a) /\ RunningGuard(a) /\ WriterGuard(a)
    /\ att[a].phase = "COMMITTED"
    /\ \E closes \in BOOLEAN :
          CloseFrom(CleanedUp(sup, a, closes), children, Draining(att[a]), a, TRUE)
    /\ Go(a, "failed", "none")
    /\ UNCHANGED hostVars

(* _process_state() for a state other than RUNNING: every state but        *)
(* NEEDS_INTERACTION closes the stream.  The handler goes on at `where`.   *)
ProcessState(a, state, where) ==
    /\ IF state = "NEEDS_INTERACTION"
       THEN Go(a, where, "status") /\ UNCHANGED <<sup, att, children>>
       ELSE CloseDrain(a) /\ Go(a, "finally", "status")
    /\ UNCHANGED hostVars

(* The state that rejects an input (_input_rejection), or RUNNING. *)
Observed ==
    IF sup.state = "INPUT_UNCERTAIN" /\ proc \notin {"EXITED", "STOPPED"}
    THEN "UNKNOWN" ELSE proc

(* An INPUT frame is rejected, or queued and answered. *)
Input(a) ==
    /\ At(a, "read") /\ Check(a) /\ WriterGuard(a)
    /\ att[a].phase = "COMMITTED"
    /\ IF Observed # "RUNNING" THEN ProcessState(a, Observed, "tick")
       ELSE Go(a, "flush", "status") /\ UNCHANGED <<sup, children, att, hostVars>>

(* The authority is lost after the input was decrypted: it is rejected. *)
InputLost(a) ==
    /\ At(a, "read") /\ Check(a) /\ ~stopping
    /\ att[a].phase = "COMMITTED"
    /\ CloseDrain(a)
    /\ Go(a, "finally", "status")
    /\ UNCHANGED hostVars

(* flush_input() writes the queue to the PTY, finds the process waiting or *)
(* gone, or fails: before the write (the supervisor keeps its state), or   *)
(* in it (input is uncertain from then on).                                *)
Flush(a) ==
    /\ At(a, "flush") /\ Check(a) /\ WriterGuard(a)
    /\ \/ proc # "RUNNING" /\ ProcessState(a, proc, "tick")
       \/ /\ proc = "RUNNING" /\ sup.state # "INPUT_UNCERTAIN"
          /\ Go(a, "tick", "status")
          /\ UNCHANGED <<sup, children, att, hostVars>>
       \/ /\ proc = "RUNNING"
          /\ \E s \in {sup, [sup EXCEPT !.state = "INPUT_UNCERTAIN"]} :
                CloseFrom(s, children, Draining(att[a]), a, TRUE)
          /\ Go(a, "finally", "status")
          /\ UNCHANGED hostVars

(* A DETACH frame closes the session.  Its own flush finds nothing to      *)
(* write: the handler flushes after every INPUT it queues.                 *)
Detach(a) ==
    /\ At(a, "read") /\ Check(a) /\ WriterGuard(a)
    /\ att[a].phase = "COMMITTED"
    /\ CloseDrain(a)
    /\ Go(a, "finally", "status")
    /\ UNCHANGED hostVars

(* A CLOSE frame. *)
CloseFrame(a) ==
    /\ At(a, "read") /\ Check(a) /\ ~stopping
    /\ CloseDrain(a)
    /\ Go(a, "finally", "none")
    /\ UNCHANGED hostVars

-----------------------------------------------------------------------------
(* tick(), output() and what the handler does with their frames.  The      *)
(* HEARTBEAT frames of tick() and the PING/PONG pair are left out.         *)

Tick(a) ==
    /\ At(a, "tick") /\ ~stopping
    /\ \/ /\ att[a].phase # "COMMITTED" /\ Check(a)
          /\ Go(a, "read", "none")
          /\ UNCHANGED <<sup, children, att, hostVars>>
       \/ /\ att[a].phase = "COMMITTED" /\ Fresh(a) /\ att[a].late
          /\ CloseDrain(a) /\ Go(a, "finally", "status")
          /\ UNCHANGED hostVars
       \/ /\ att[a].phase = "COMMITTED" /\ Check(a) /\ WriterGuard(a)
          /\ IF proc # "RUNNING"
             THEN ProcessState(a, proc, "output")
             ELSE Go(a, "output", "none") /\ UNCHANGED <<sup, children, att, hostVars>>

Output(a) ==
    /\ At(a, "output") /\ Check(a) /\ WriterGuard(a)
    /\ IF proc # "RUNNING"
       THEN ProcessState(a, proc, "read")
       ELSE /\ \E kind \in {"none", "output"} : Go(a, "read", kind)
            /\ UNCHANGED <<sup, children, att, hostVars>>

(* An operation raises: a malformed, late or unexpected frame, a crypto    *)
(* failure, an unexact probe, a full output window, a lost authority.      *)
Refuse(a) ==
    /\ \E where \in {"read", "flush", "tick", "output"} : At(a, where)
    /\ ~stopping
    /\ CloseDrain(a)
    /\ Go(a, "failed", "none")
    /\ UNCHANGED hostVars

(* The handler leaves its loop: the peer closed the connection, or another *)
(* thread closed the session.                                              *)
Leave(a) ==
    /\ At(a, "read") \/ (At(a, "tick") /\ att[a].closing)
    /\ Go(a, "finally", "none")
    /\ UNCHANGED <<sup, children, att, hostVars>>

(* Mutant: the permission of the operation that built the frame carries over
   to its chunks. *)
MayPublish_Once(a) == TRUE

(* publish_chunk() lets a chunk of the current frame through. *)
MayPublish(a) ==
    /\ ~att[a].fenced
    /\ IF att[a].closing
       THEN att[a].drain = "open" /\ Current(a) /\ frame[a] = "status"
       ELSE Check(a)

Publish(a) ==
    /\ frame[a] # "none" /\ MayPublish(a)
    /\ frame' = [frame EXCEPT ![a] = "none"]
    /\ UNCHANGED <<sup, children, att, task, hostVars>>

(* A chunk is refused, or the socket fails or times out: the frame may     *)
(* have been sent in part, and nothing follows it.                         *)
PublishFails(a) ==
    /\ frame[a] # "none"
    /\ Go(a, "finally", "none")
    /\ UNCHANGED <<sup, children, att, hostVars>>

(* After an operation raised: one more close, then the failure frames,     *)
(* unless the listener is closing.                                         *)
FailureProfile(a) ==
    /\ At(a, "failed")
    /\ \/ /\ ~invalidated /\ ~stopping
          /\ CloseDrain(a) /\ Go(a, "finally", "status")
          /\ UNCHANGED hostVars
       \/ /\ invalidated
          /\ Go(a, "finally", "none")
          /\ UNCHANGED <<sup, children, att, hostVars>>

(* The finally clause: invalidate, then close in a worker, then close the  *)
(* socket.                                                                 *)
Finally(a) ==
    /\ At(a, "finally")
    /\ \E fences \in Fences(a) : att' = [att EXCEPT ![a] = Invalidated(@, fences)]
    /\ Go(a, "closing", "none")
    /\ UNCHANGED <<sup, children, hostVars>>

FinalClose(a) ==
    /\ At(a, "closing") /\ ~stopping
    /\ \E fences \in Fences(a) :
          CloseFrom(sup, children, Invalidated(att[a], fences), a, FALSE)
    /\ Go(a, "done", "none")
    /\ UNCHANGED hostVars

-----------------------------------------------------------------------------
(* The control plane: detach, exact Stop and the transfer of authority.    *)

(* cleanup() of one record, or of its session. *)
CleanupRecord(a) ==
    \/ /\ att[a].reg = "open"
       /\ \E fences \in Fences(a) :
             CloseFrom(sup, children, Invalidated(att[a], fences), a, FALSE)
    \/ /\ att[a].reg \in {"prepared", "burnt"}
       /\ sup' = SupAfter(sup, att[a], a, FALSE)
       /\ att' = [att EXCEPT ![a] = Released(sup, @, a, FALSE, TRUE)]
       /\ UNCHANGED children

ApiDetach(a) ==
    /\ Current(a) /\ ~stopping
    /\ CleanupRecord(a)
    /\ UNCHANGED <<task, frame, hostVars>>

(* exact_stop(): the stream is fenced before any effect on the process. A  *)
(* burnt record may have a socket too: its session failed while it was     *)
(* made, after it had bound itself to the lease.                           *)
StopBegin ==
    /\ ~stopping /\ sup.state # "STOPPED"
    /\ LET a == sup.pending
           bound == a # None /\ att[a].reg = "open"
           half == a # None /\ att[a].reg = "burnt"
       IN \E fences \in IF bound THEN Fences(a) ELSE IF half THEN BOOLEAN ELSE {TRUE} :
            /\ att' = IF bound THEN [att EXCEPT ![a] = Invalidated(@, fences)] ELSE att
            /\ stopping' = IF bound THEN att'[a].fenced ELSE fences
            /\ sup' = [sup EXCEPT !.state = IF stopping' THEN "STOPPING"
                                            ELSE "RECONCILIATION_REQUIRED"]
    /\ UNCHANGED <<children, task, frame, proc, api, invalidated>>

(* The attach child is closed first, then the process is stopped. *)
ChildClosed ==
    IF sup.handle = None THEN sup
    ELSE [sup EXCEPT !.handle = None, !.proven = sup.handle]

StopFinish ==
    /\ stopping
    /\ \/ /\ sup.handle # None
          /\ sup' = [sup EXCEPT !.state = "BROKEN"]
          /\ UNCHANGED <<children, proc>>
       \/ /\ \E state \in {"BROKEN", "RECONCILIATION_REQUIRED"} :
                sup' = [ChildClosed EXCEPT !.state = state]
          /\ children' = children \ {sup'.proven}
          /\ UNCHANGED proc
       \/ /\ sup' = [ChildClosed EXCEPT !.state = "STOPPED", !.writer = None]
          /\ children' = children \ {sup'.proven}
          /\ proc' = "STOPPED"
    /\ stopping' = FALSE
    /\ UNCHANGED <<att, task, frame, api, invalidated>>

(* The API process dies; its control socket and streams end. *)
ApiDies ==
    /\ api.alive
    /\ api' = [api EXCEPT !.alive = FALSE]
    /\ UNCHANGED <<sup, children, att, task, frame, proc, stopping, invalidated>>

(* Mutant: the bind is committed although the revocation was not confirmed. *)
Transfer_Unconfirmed ==
    /\ ~api.alive /\ ~api.poisoned /\ ~stopping
    /\ api.gen < MaxAuthority
    /\ \/ /\ \A a \in Attachments : ~Retained(att[a])
          /\ UNCHANGED <<sup, children, att>>
       \/ \E a \in Attachments : CleanupRecord(a)
    /\ api' = [api EXCEPT !.gen = @ + 1, !.alive = TRUE]
    /\ UNCHANGED <<task, frame, proc, stopping, invalidated>>

(* A new API process binds: everything the old one held is revoked, or the *)
(* authority is poisoned and no process can bind any more.                 *)
Transfer ==
    /\ ~api.alive /\ ~api.poisoned /\ ~stopping
    /\ api.gen < MaxAuthority
    /\ \/ /\ \A a \in Attachments : ~Retained(att[a])
          /\ api' = [api EXCEPT !.gen = @ + 1, !.alive = TRUE]
          /\ UNCHANGED <<sup, children, att>>
       \/ \E a \in Attachments :
             /\ CleanupRecord(a)
             /\ api' = IF Retained(att'[a]) THEN [api EXCEPT !.poisoned = TRUE]
                       ELSE [api EXCEPT !.gen = @ + 1, !.alive = TRUE]
    /\ UNCHANGED <<task, frame, proc, stopping, invalidated>>

(* A control request of the old process is still running: refused. *)
TransferRefused ==
    /\ ~api.alive /\ ~api.poisoned
    /\ api' = [api EXCEPT !.poisoned = TRUE]
    /\ UNCHANGED <<sup, children, att, task, frame, proc, stopping, invalidated>>

(* An operation outlives its deadline: the listener is poisoned, and every *)
(* session it serves is invalidated without waiting for a lock.            *)
Poison ==
    /\ ~invalidated
    /\ Served # {}
    /\ invalidated' = TRUE
    /\ \E shut \in SUBSET {a \in Served : ~att[a].fenced} : att' = Invalidations(shut)
    /\ UNCHANGED <<sup, children, task, frame, proc, stopping, api>>

-----------------------------------------------------------------------------
(* Time and the workspace process.                                         *)

Expire(a) ==
    /\ att[a].reg \in {"prepared", "open"} /\ ~att[a].late /\ ~att[a].closing
    /\ att' = [att EXCEPT ![a].late = TRUE]
    /\ UNCHANGED <<sup, children, task, frame, hostVars>>

DrainOver(a) ==
    /\ att[a].drain = "open"
    /\ att' = [att EXCEPT ![a].drain = "over"]
    /\ UNCHANGED <<sup, children, task, frame, hostVars>>

ProcessChanges ==
    /\ proc \notin {"EXITED", "STOPPED"}
    /\ proc' \in ProcessStates \ {proc}
    /\ UNCHANGED <<sup, children, att, task, frame, stopping, api, invalidated>>

Handler(a) ==
    \/ KeyExchange(a) \/ StreamReady(a) \/ AdmissionCommit(a) \/ CommitFails(a)
    \/ Resize(a) \/ ResizeFails(a) \/ Input(a) \/ InputLost(a) \/ Detach(a)
    \/ CloseFrame(a) \/ Flush(a) \/ Tick(a) \/ Output(a) \/ Refuse(a) \/ Leave(a)
    \/ Publish(a) \/ PublishFails(a) \/ FailureProfile(a) \/ Finally(a) \/ FinalClose(a)

Next ==
    \/ \E a \in Attachments :
          \/ Prepare(a) \/ Open(a) \/ OpenFails(a) \/ OpenClosed(a) \/ OpenTimesOut(a)
          \/ Handler(a) \/ ApiDetach(a) \/ Expire(a) \/ DrainOver(a)
    \/ StopBegin \/ StopFinish \/ ApiDies \/ Transfer \/ TransferRefused
    \/ Poison \/ ProcessChanges

Spec == Init /\ [][Next]_vars

-----------------------------------------------------------------------------
(* Properties.                                                             *)

(* The attachment whose record the registry retains for this workspace. *)
Holder ==
    IF \E a \in Attachments : Retained(att[a])
    THEN CHOOSE a \in Attachments : Retained(att[a]) ELSE None

Slot == INSTANCE WriterSlot WITH
            holder <- Holder,
            retired <- {a \in Attachments : att[a].reg = "gone"}

(* The registry, the supervisor and the transport together are one writer  *)
(* slot: prepare() reserves it for one attachment, ADMISSION_COMMIT opens  *)
(* a child only for the holder, and no cleanup path (drain, external       *)
(* detach, Stop, revocation, a retry of any of them) gives the slot back   *)
(* before the attach child is proven closed.                               *)
ImplementsSlot == Slot!Spec

(* A session leaves the registry only after its socket was shut for        *)
(* writing (`release` of _close_after_invalidation): when the workspace is *)
(* free for the next writer, nothing can be published by the last one.     *)
ReleasedIsFenced ==
    \A a \in Attachments :
        att[a].reg = "gone" /\ task[a] # "none" => att[a].fenced /\ ~MayPublish(a)

(* publish_chunk() rechecks before every chunk: terminal output reaches a  *)
(* socket only while its session is the committed writer, its API process  *)
(* is the bound one and no Stop has begun, although the frame was built    *)
(* before, and a detach, a Stop or a transfer may have come between.       *)
OutputIsCurrent ==
    [][\A a \in Attachments :
          frame[a] = "output" /\ frame'[a] = "none" /\ task'[a] = task[a]
             => /\ sup.writer = a /\ sup.pending = a
                /\ Current(a) /\ ~stopping /\ proc # "STOPPED"]_vars

(* revoke_authority() before commit_bind(): once a new API process is      *)
(* bound, nothing of the old one is left: no record, no attach child, no   *)
(* socket that could still publish.                                        *)
TransferIsClean ==
    api.alive =>
        \A a \in Attachments :
            att[a].reg # "none" /\ att[a].owner # api.gen =>
                /\ ~Retained(att[a]) /\ a \notin children
                /\ task[a] # "none" => att[a].fenced

(* "Positive typed cleanup releases it" (comment in attach()): when the    *)
(* transport has proven the attach child closed, the socket is fenced and  *)
(* the handler has ended, the registry does not call the cleanup uncertain. *)
PositiveCleanupReleases ==
    \A a \in Attachments :
        task[a] = "done" /\ att[a].fenced /\ sup.proven = a => att[a].cleaned # "uncertain"
=============================================================================
