--------------------------- MODULE AttachmentRoutes ---------------------------
(***************************************************************************)
(* The WebSocket routes of the API that drive AttachmentAuthority: the     *)
(* admission coordinator (waw_admission_coordinator.py) and the relay that *)
(* takes over from it (waw_relay.py), with their Runtime port, their       *)
(* audits and the cleanup both end in.                                     *)
(*                                                                         *)
(* A route is one asyncio task with helper tasks; another route or a       *)
(* worker thread may run at every await and between two calls of the       *)
(* authority, so a step ends at each of them.  What may fail at a step     *)
(* (an operation, the validator's answer, a cancellation) is a choice.     *)
(* Of the Runtime (RuntimeStream) only what the routes see is kept: it     *)
(* answers or does not, and it opens the PTY of an attachment when it      *)
(* receives ADMISSION_COMMIT.                                              *)
(***************************************************************************)
EXTENDS Integers, FiniteSets

CONSTANTS
    Workspaces, Contexts, NoContext, Users, UserOf, Sessions, SessionOf,
    TicketTtl, LeaseTtl, AbsoluteLease, AdmissionWindow,
    MaxRecords, MaxWriters, MaxPerAdmin, MaxLease, MaxTime,
    Conns  \* WebSocket connections 1 .. n, each one route, in order of arrival

VARIABLES
    clock, nextLease, pending, slot, shutdown,  \* as in AttachmentAuthority
    conn,   \* the route of each connection and its Runtime attachment
    audit   \* audit events being written and audit events that are durable

authority == <<clock, nextLease, pending, slot, shutdown>>
vars == <<clock, nextLease, pending, slot, shutdown, conn, audit>>

(* The lease of a connection and what the Runtime did with it.             *)
Lease(c) == <<conn[c].ws, conn[c].lease>>
Open   == {Lease(c) : c \in {d \in Conns : conn[d].rt = "open"}}
Closed == {Lease(c) : c \in {d \in Conns : conn[d].rt \in {"ended", "dropped"}}}

A == INSTANCE AttachmentAuthority WITH pty <- Open, closed <- Closed

-----------------------------------------------------------------------------
(* What run() is waiting for, in order.                                    *)
Admission == {"keyInit", "prepare", "keys", "prepareAudit", "ready", "readied",
              "commit", "admitAudit", "handoff", "publish"}
Cleaning  == {"failing", "proof", "audit", "settle"}
Pcs == {"idle", "hello", "relay", "done"} \cup Admission \cup Cleaning

Routes ==
    [pc : Pcs, ws : Workspaces, lease : Nat, started : Nat,
     sent : BOOLEAN,       \* ADMISSION_COMMIT was sent
     rpc : {"none", "prepare", "prepared", "refused", "detach", "detached", "lost"},
     proof : BOOLEAN, audited : BOOLEAN,
     rt : {"none", "prepared", "open", "ended", "dropped"}]  \* in the Runtime

Events == (Workspaces \X Nat) \X {"PREPARED", "ADMITTED", "DETACHED"}

TypeOK ==
    /\ A!TypeOK
    /\ conn \in [Conns -> Routes]
    /\ audit \in [writing : SUBSET Events, durable : SUBSET Events]

Init ==
    /\ conn = [c \in Conns |->
                  [pc |-> "idle", ws |-> CHOOSE w \in Workspaces : TRUE,
                   lease |-> 0, started |-> 0, sent |-> FALSE, rpc |-> "none",
                   proof |-> FALSE, audited |-> FALSE, rt |-> "none"]]
    /\ audit = [writing |-> {}, durable |-> {}]
    /\ A!Init

Go(c, pc) == conn' = [conn EXCEPT ![c].pc = pc]

(* The route ends; what it asked of the Runtime remains.                   *)
End(c) == conn' = [conn EXCEPT ![c].pc = "done", ![c].started = 0,
                               ![c].proof = FALSE, ![c].audited = FALSE]

(* persist() hands the event to a thread; the route may stop waiting.      *)
Write(c, action) == audit' = [audit EXCEPT !.writing = @ \cup {<<Lease(c), action>>}]
Durable(c, action) == <<Lease(c), action>> \in audit.durable

(* The staged record of the workspace is the handle of this route.         *)
Mine(c) == slot[conn[c].ws].staged.lease = conn[c].lease

(* _check(), but for the validator; a reader that set _failed also fenced. *)
Check(c) ==
    /\ clock < conn[c].started + AdmissionWindow
    /\ A!CheckPasses(slot[conn[c].ws], clock)

(* _check() and advance() to the next stage.                               *)
Advance(c) == Check(c) /\ A!Advance(conn[c].ws, TRUE)

-----------------------------------------------------------------------------
(* The handler accepts a connection to workspace w that presents the       *)
(* ticket of lease n; the bound lets every admission reach its deadline.   *)
Connect(c, w, n) ==
    /\ conn[c].pc = "idle" /\ ~shutdown
    /\ \A d \in Conns : d < c => conn[d].pc # "idle"
    /\ clock + AdmissionWindow <= MaxTime
    /\ n < nextLease
    /\ conn' = [conn EXCEPT ![c].pc = "hello", ![c].ws = w, ![c].lease = n,
                            ![c].started = clock]
    /\ UNCHANGED <<authority, audit>>

(* WS_HELLO: reserve() burns the ticket and takes the workspace if it can. *)
Hello(c) ==
    /\ conn[c].pc = "hello" /\ clock < conn[c].started + AdmissionWindow
    /\ \E k \in pending, taken \in BOOLEAN :
          /\ <<k.ws, k.lease>> = Lease(c)
          /\ IF taken THEN Go(c, "keyInit") ELSE End(c)
          /\ UNCHANGED audit
          /\ A!Reserve(k, conn[c].started)
          /\ taken = (slot'[k.ws].staged.lease = k.lease)

(* A ticket that expired or does not match is burnt all the same.          *)
HelloBurns(c) ==
    /\ conn[c].pc = "hello"
    /\ End(c) /\ UNCHANGED audit
    /\ \E k \in pending : k.lease = conn[c].lease /\ A!ReserveRefused(k)

(* No ticket, no frame or no time: nothing was reserved, nothing is owed.  *)
HelloFails(c) ==
    /\ conn[c].pc = "hello"
    /\ End(c)
    /\ UNCHANGED <<authority, audit>>

(* KEY_INIT: the prepare RPC is sent to the Runtime.                       *)
KeyInit(c) ==
    /\ conn[c].pc = "keyInit" /\ Check(c)
    /\ conn' = [conn EXCEPT ![c].pc = "prepare", ![c].rpc = "prepare"]
    /\ UNCHANGED <<authority, audit>>

Prepared(c) ==
    /\ conn[c].pc = "prepare" /\ conn[c].rpc = "prepared"
    /\ Go(c, "keys") /\ UNCHANGED audit
    /\ Advance(c)

(* The four key frames have passed; the prepared event is written.         *)
Verified(c) ==
    /\ conn[c].pc = "keys"
    /\ Go(c, "prepareAudit") /\ Write(c, "PREPARED")
    /\ Advance(c)

PreparedAudited(c) ==
    /\ conn[c].pc = "prepareAudit" /\ Durable(c, "PREPARED")
    /\ Go(c, "ready") /\ UNCHANGED audit
    /\ Advance(c)

(* STREAM_READY_ACK, then ADMITTED goes into quarantine.                   *)
Ready(c) ==
    /\ conn[c].pc = "ready"
    /\ Go(c, "readied") /\ UNCHANGED audit
    /\ Advance(c)

Quarantine(c) ==
    /\ conn[c].pc = "readied"
    /\ conn' = [conn EXCEPT ![c].pc = "commit", ![c].sent = TRUE]
    /\ UNCHANGED audit
    /\ Advance(c)

(* ADMISSION_COMMIT_ACK, of the first or the repeated commit.              *)
Committed(c) ==
    /\ conn[c].pc = "commit" /\ conn[c].rt \in {"open", "ended"}
    /\ Go(c, "admitAudit") /\ Write(c, "ADMITTED")
    /\ Advance(c)

(* Mutant: the admitted event is not waited for.                           *)
Admitted_Unaudited(c) ==
    /\ conn[c].pc = "admitAudit" /\ Check(c)
    /\ Go(c, "handoff")
    /\ UNCHANGED <<authority, audit>>

(* The admitted event is durable: the readers are cancelled.               *)
Admitted(c) ==
    /\ conn[c].pc = "admitAudit" /\ Durable(c, "ADMITTED") /\ Check(c)
    /\ Go(c, "handoff")
    /\ UNCHANGED <<authority, audit>>

Handoff(c) ==
    /\ conn[c].pc = "handoff"
    /\ Go(c, "publish") /\ UNCHANGED audit
    /\ Advance(c)

(* activate_with_publication(): ADMITTED becomes readable, or nothing is.  *)
Publish(c) ==
    /\ conn[c].pc = "publish" /\ Check(c)
    /\ \E released \in BOOLEAN, later \in clock .. MaxTime, pc \in {"relay", "failing"} :
          /\ Go(c, pc) /\ UNCHANGED audit
          /\ A!Activate(conn[c].ws, released, later)
          /\ (pc = "relay") = (slot'[conn[c].ws].active.lease = conn[c].lease)

(* A reader finds a frame it must refuse, or its peer gone.  It fences the *)
(* authority at once; the route learns of it at its next _check().         *)
ReaderFails(c) ==
    /\ conn[c].pc \in Admission \ {"handoff", "publish"}
    /\ UNCHANGED <<conn, audit>>
    /\ Mine(c) /\ A!Fence(conn[c].ws)

(* An operation fails, the validator refuses or the task is cancelled.     *)
Fail(c) ==
    /\ conn[c].pc \in Admission
    /\ Go(c, "failing")
    /\ UNCHANGED <<authority, audit>>

Timeout(c) == clock >= conn[c].started + AdmissionWindow /\ Fail(c)

(* check_reserved() finds the record over and fences it.                   *)
CheckFails(c) ==
    /\ conn[c].pc \in Admission /\ Mine(c)
    /\ Go(c, "failing") /\ UNCHANGED audit
    /\ A!CheckReserved(conn[c].ws)

-----------------------------------------------------------------------------
(* The relay.  Each frame and each watch needs the lease to be active.     *)
Heartbeat(c) ==
    /\ conn[c].pc = "relay" /\ slot[conn[c].ws].active.lease = conn[c].lease
    /\ A!ActiveAt(slot[conn[c].ws].active, clock)
    /\ UNCHANGED <<conn, audit>>
    /\ A!Heartbeat(conn[c].ws)

(* _permit() finds the lease over: is_active() retires it.                 *)
RelayStale(c) ==
    /\ conn[c].pc = "relay" /\ Mine(c)
    /\ Go(c, "failing") /\ UNCHANGED audit
    /\ A!IsActive(conn[c].ws)

(* _fence_io(): a limit, a deadline or an in-flight write fences at once.  *)
RelayFails(c) ==
    /\ conn[c].pc = "relay" /\ Mine(c)
    /\ Go(c, "failing") /\ UNCHANGED audit
    /\ A!Fence(conn[c].ws)

(* Mutant: a shutdown cancels only routes that are still being admitted.   *)
RelayEnds_NotByShutdown(c) ==
    /\ conn[c].pc = "relay" /\ ~shutdown
    /\ Go(c, "failing")
    /\ UNCHANGED <<authority, audit>>

(* A failure that leaves the fence to close(), or a cancellation, as that  *)
(* of every route by drain_routes().                                       *)
RelayEnds(c) ==
    /\ conn[c].pc = "relay"
    /\ Go(c, "failing")
    /\ UNCHANGED <<authority, audit>>

-----------------------------------------------------------------------------
(* _cleanup_once() of the coordinator and _close_once() of the relay.      *)

(* Mutant: an admission the Runtime never heard of is not fenced.          *)
Cleanup_KeepsUnattempted(c) ==
    /\ conn[c].pc = "failing"
    /\ IF conn[c].rpc = "none"
       THEN Go(c, "audit") /\ Write(c, "DETACHED") /\ UNCHANGED authority
       ELSE /\ Go(c, "proof") /\ UNCHANGED audit
            /\ Mine(c) /\ A!Fence(conn[c].ws)

(* The fence comes first; the Runtime is asked only if it was involved.    *)
Cleanup(c) ==
    /\ conn[c].pc = "failing"
    /\ IF conn[c].rpc = "none"
       THEN Go(c, "audit") /\ Write(c, "DETACHED")
       ELSE Go(c, "proof") /\ UNCHANGED audit
    /\ Mine(c) /\ A!Fence(conn[c].ws)

(* Mutant: the detach does not wait for the prepare it may overtake.       *)
Detach_Overtakes(c) ==
    /\ conn[c].pc = "proof" /\ conn[c].rpc \in {"prepare", "prepared"}
    /\ conn' = [conn EXCEPT ![c].rpc = "detach"]
    /\ UNCHANGED <<authority, audit>>

(* close_and_cleanup() of the port awaits the prepare RPC it still owes.   *)
Detach(c) ==
    /\ conn[c].pc = "proof" /\ conn[c].rpc = "prepared"
    /\ conn' = [conn EXCEPT ![c].rpc = "detach"]
    /\ UNCHANGED <<authority, audit>>

Proven(c) ==
    /\ conn[c].pc = "proof" /\ conn[c].rpc = "detached"
    /\ conn' = [conn EXCEPT ![c].pc = "audit", ![c].proof = TRUE]
    /\ Write(c, "DETACHED")
    /\ UNCHANGED authority

(* Mutant: the cleanup waits for the Runtime's answer.                     *)
Unproven_Unbounded(c) ==
    /\ conn[c].pc = "proof" /\ conn[c].rpc \in {"refused", "lost"}
    /\ Go(c, "audit") /\ Write(c, "DETACHED")
    /\ UNCHANGED authority

(* The one second of the cleanup is over, or the Runtime refused.          *)
Unproven(c) ==
    /\ conn[c].pc = "proof"
    /\ Go(c, "audit") /\ Write(c, "DETACHED")
    /\ UNCHANGED authority

DetachAudited(c) ==
    /\ conn[c].pc = "audit" /\ Durable(c, "DETACHED")
    /\ conn' = [conn EXCEPT ![c].pc = "settle", ![c].audited = TRUE]
    /\ UNCHANGED <<authority, audit>>

Unaudited(c) ==
    /\ conn[c].pc = "audit"
    /\ Go(c, "settle")
    /\ UNCHANGED <<authority, audit>>

(* acknowledge_staged_cleanup(), if there is proof, an audit and no task   *)
(* of the route is left; otherwise the workspace stays fenced.             *)
Acknowledged(s) == [s EXCEPT !.staged = A!NoStaged, !.cleanup = A!NoOwed]

Settle(c) ==
    /\ conn[c].pc = "settle"
    /\ End(c)
    /\ \/ /\ conn[c].proof /\ conn[c].audited
          /\ Mine(c) /\ slot[conn[c].ws].staged.stage = "FENCED"
          /\ slot' = [slot EXCEPT ![conn[c].ws] = Acknowledged(@)]
       \/ UNCHANGED slot
    /\ UNCHANGED <<clock, nextLease, pending, shutdown, audit>>

-----------------------------------------------------------------------------
(* External: the audit threads.                                            *)
AuditEnds(e) ==
    /\ e \in audit.writing
    /\ \E d \in {audit.durable, audit.durable \cup {e}} :
          audit' = [writing |-> audit.writing \ {e}, durable |-> d]
    /\ UNCHANGED <<authority, conn>>

(* The Runtime: prepare() and detach() of its attachment service, and the  *)
(* attachment's session.  A reply may be lost whatever it did.             *)
RuntimePrepares(c) ==
    /\ conn[c].rpc = "prepare"
    /\ \E rpc \in {"prepared", "refused"}, rt \in {"none", "prepared"} :
          /\ rpc = "prepared" => rt = "prepared"
          /\ conn' = [conn EXCEPT ![c].rpc = rpc, ![c].rt = rt]
    /\ UNCHANGED <<authority, audit>>

RuntimeCommits(c) ==
    /\ conn[c].sent /\ conn[c].rt = "prepared"
    /\ conn' = [conn EXCEPT ![c].rt = "open"]
    /\ UNCHANGED <<authority, audit>>

(* The attachment is over: the PTY was closed, or never opened.            *)
Over(rt) == CASE rt = "open" -> "ended" [] rt = "prepared" -> "dropped" [] OTHER -> rt

(* It expires, its process exits or is stopped, or its stream breaks.      *)
RuntimeEnds(c) ==
    /\ conn[c].rt \in {"prepared", "open"}
    /\ conn' = [conn EXCEPT ![c].rt = Over(@)]
    /\ UNCHANGED <<authority, audit>>

RuntimeDetaches(c) ==
    /\ conn[c].rpc = "detach"
    /\ \/ conn' = [conn EXCEPT ![c].rpc = "detached", ![c].rt = Over(@)]
       \/ conn' = [conn EXCEPT ![c].rpc = "lost"]
    /\ UNCHANGED <<authority, audit>>

(* The detach request of a user, once the Runtime confirmed it.            *)
DetachWorkspace(c) ==
    /\ conn[c].rt \in {"ended", "dropped"}
    /\ slot[conn[c].ws].active.lease = conn[c].lease
    /\ UNCHANGED <<conn, audit>>
    /\ A!Detach(conn[c].ws)

(* The rest of the API: tickets are issued, time passes, the shutdown      *)
(* fences the authority.                                                   *)
Others ==
    /\ UNCHANGED <<conn, audit>>
    /\ \/ A!Tick \/ A!Sweep \/ A!BeginShutdown
       \/ \E w \in Workspaces, x \in Contexts : A!Issue(w, x)

Route(c) ==
    \/ \E w \in Workspaces, n \in 1 .. MaxLease : Connect(c, w, n)
    \/ Hello(c) \/ HelloBurns(c) \/ HelloFails(c)
    \/ KeyInit(c) \/ Prepared(c) \/ Verified(c) \/ PreparedAudited(c) \/ Ready(c)
    \/ Quarantine(c) \/ Committed(c) \/ Admitted(c) \/ Handoff(c) \/ Publish(c)
    \/ ReaderFails(c) \/ Fail(c) \/ CheckFails(c)
    \/ Heartbeat(c) \/ RelayStale(c) \/ RelayFails(c) \/ RelayEnds(c)
    \/ Cleanup(c) \/ Detach(c) \/ Proven(c) \/ Unproven(c)
    \/ DetachAudited(c) \/ Unaudited(c) \/ Settle(c)

Runtime(c) ==
    RuntimePrepares(c) \/ RuntimeCommits(c) \/ RuntimeEnds(c) \/ RuntimeDetaches(c)

Next ==
    \/ Others
    \/ \E c \in Conns : Route(c) \/ Runtime(c) \/ DetachWorkspace(c)
    \/ \E e \in audit.writing : AuditEnds(e)

Spec == Init /\ [][Next]_vars

(* What the event loop does for a route whatever the others do: one step   *)
(* at each place of it.                                                    *)
Driven(c) ==
    \/ HelloFails(c) /\ clock >= conn[c].started + AdmissionWindow
    \/ Timeout(c) \/ (RelayEnds(c) /\ shutdown)
    \/ Cleanup(c) \/ Unproven(c) \/ Unaudited(c) \/ Settle(c)

(* The event loop runs its ready tasks and its timers, and time passes; a  *)
(* shutdown cancels the routes.  Nothing is assumed of the Runtime, the    *)
(* browser or the audit threads.                                           *)
Fairness ==
    /\ WF_vars(UNCHANGED <<conn, audit>> /\ A!Tick)
    /\ \A c \in Conns : WF_vars(Driven(c))

FairSpec == Spec /\ Fairness

-----------------------------------------------------------------------------
(* The routes drive the authority as AttachmentAuthority assumes: the      *)
(* Runtime opens a PTY only for a lease that still holds its workspace,    *)
(* and a workspace is given up only after the Runtime closed the PTY for   *)
(* good, even when a prepare was cut off by its deadline.                  *)
ImplementsAuthority == A!Spec

(* Nobody's authority: an admission in progress or an active lease always  *)
(* has a route that will fence it when it ends ("permanently fences the    *)
(* attempt"), and no two routes work on one lease.                         *)
AuthorityHasARoute ==
    \A w \in Workspaces :
        slot[w].staged.stage \in A!Admitting \cup {"ACTIVE"} =>
            \E c \in Conns :
                /\ Lease(c) = <<w, slot[w].staged.lease>>
                /\ conn[c].pc \in Admission \cup {"relay", "failing"}
                /\ slot[w].staged.stage = "ACTIVE" => conn[c].pc \in {"relay", "failing"}
                /\ \A d \in Conns \ {c} : Lease(d) = Lease(c) => conn[d].pc \in {"hello", "done"}

(* Audit before authority: a lease is active only after the Runtime        *)
(* committed it and after both audit events of its admission were durable; *)
(* and a workspace that was given up has its detached event.               *)
AuditIsComplete ==
    /\ \A w \in Workspaces : A!HasActive(slot[w]) =>
          /\ \A action \in {"PREPARED", "ADMITTED"} :
                <<<<w, slot[w].active.lease>>, action>> \in audit.durable
          /\ <<w, slot[w].active.lease>> \in Open \cup Closed
    /\ \A c \in Conns : conn[c].pc = "done" /\ conn[c].rpc # "none" /\ ~Mine(c) =>
          Durable(c, "DETACHED")

(* Every admission ends, admitted or cleaned up, whatever the browser, the *)
(* Runtime and the audit do: the five seconds of the admission and the one *)
(* of the cleanup bound every wait, so again and again none is under way.  *)
AdmissionsEnd == []<>(\A c \in Conns : conn[c].pc \in {"idle", "relay", "done"})

(* After begin_shutdown() every route ends, so drain_routes() returns.     *)
RoutesDrain == shutdown ~> \A c \in Conns : conn[c].pc \in {"idle", "done"}
=============================================================================
