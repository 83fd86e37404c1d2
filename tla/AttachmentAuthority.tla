------------------------ MODULE AttachmentAuthority -------------------------
(***************************************************************************)
(* The attachment tickets and writer leases of packages/agentbox-core      *)
(* waw_tickets.py (AttachmentAuthority).  Every public method holds the    *)
(* authority's lock from its first read to its last write, so each is one  *)
(* action.                                                                 *)
(*                                                                         *)
(* A ticket is known by the lease number in its claims: the numbers are    *)
(* unique, and so are the bearer digests.  A tuple or context that does    *)
(* not match is a Boolean input.  A call that raises without changing      *)
(* anything is not an action.  _cleanup_pending and _cleanup_contexts are  *)
(* always written together and are one component here.  The replay cache   *)
(* only chooses between two error codes and is left out.                   *)
(***************************************************************************)
EXTENDS Integers, FiniteSets

CONSTANTS
    Workspaces,
    Contexts,        \* AuthenticatedAttachmentContext values
    NoContext,       \* context=None
    Users,
    UserOf,          \* [Contexts -> Users]: user_id
    Sessions,
    SessionOf,       \* [Contexts -> Sessions]: (session_id, auth_epoch)
    TicketTtl, LeaseTtl, AbsoluteLease,
    AdmissionWindow, \* the 5.0 seconds of reserve
    MaxRecords, MaxWriters, MaxPerAdmin,
    MaxLease,        \* _MAX_U64
    MaxTime          \* bound on the monotonic clock

ASSUME AuthorityAssumption ==
    /\ NoContext \notin Contexts
    /\ UserOf \in [Contexts -> Users]
    /\ SessionOf \in [Contexts -> Sessions]
    /\ TicketTtl \in Nat \ {0} /\ LeaseTtl \in Nat \ {0}
    /\ AbsoluteLease \in Nat /\ LeaseTtl <= AbsoluteLease
    /\ AdmissionWindow \in Nat \ {0}
    /\ MaxRecords \in Nat /\ MaxWriters \in Nat /\ MaxPerAdmin \in Nat
    /\ MaxLease \in Nat /\ MaxTime \in Nat

VARIABLES
    clock,      \* the monotonic clock
    nextLease,  \* _next_lease_number
    pending,    \* _pending
    slot,       \* per workspace: _active, _staged and _cleanup_pending
    shutdown,   \* _shutdown_started
    pty,        \* the Runtime: <<workspace, lease>> whose PTY is open
    closed      \* the Runtime: <<workspace, lease>> it proved closed

vars == <<clock, nextLease, pending, slot, shutdown, pty, closed>>

-----------------------------------------------------------------------------
(* AdmissionStage before ACTIVE, in order; FENCED is reached from any.      *)
Admitting == {"RESERVED", "RUNTIME_PREPARED", "VERIFIED", "PREPARED_AUDITED", "READY",
              "QUARANTINED", "COMMITTED", "ADMITTED_AUDITED"}

NextStage(s) ==
    CASE s = "RESERVED"         -> "RUNTIME_PREPARED"
      [] s = "RUNTIME_PREPARED" -> "VERIFIED"
      [] s = "VERIFIED"         -> "PREPARED_AUDITED"
      [] s = "PREPARED_AUDITED" -> "READY"
      [] s = "READY"            -> "QUARANTINED"
      [] s = "QUARANTINED"      -> "COMMITTED"
      [] OTHER                  -> "ADMITTED_AUDITED"

AnyContext == Contexts \cup {NoContext}

(* Lease number 0 stands for an absent record: real ones are positive.     *)
Ticket == [lease : Nat \ {0}, ws : Workspaces, ctx : AnyContext, expires : Nat]
Active == [lease : Nat, ctx : AnyContext, expires : Nat, absolute : Nat]
Staged == [lease : Nat, ctx : AnyContext, stage : Admitting \cup {"ACTIVE", "FENCED", "none"},
           deadline : Nat, expires : Nat, absolute : Nat]
Owed   == [lease : Nat, ctx : AnyContext]
Slot   == [active : Active, staged : Staged, cleanup : Owed]

NoActive == [lease |-> 0, ctx |-> NoContext, expires |-> 0, absolute |-> 0]
NoStaged == [lease |-> 0, ctx |-> NoContext, stage |-> "none",
             deadline |-> 0, expires |-> 0, absolute |-> 0]
NoOwed   == [lease |-> 0, ctx |-> NoContext]
EmptySlot == [active |-> NoActive, staged |-> NoStaged, cleanup |-> NoOwed]

HasActive(s)  == s.active.lease # 0
HasStaged(s)  == s.staged.lease # 0
HasCleanup(s) == s.cleanup.lease # 0
Busy(s) == HasActive(s) \/ HasStaged(s) \/ HasCleanup(s)

-----------------------------------------------------------------------------
(* What the private helpers do to one workspace's records.                 *)

(* fence: close local authority, keep the slot as a cleanup obligation.    *)
Fenced(s) ==
    [active  |-> NoActive,
     staged  |-> [s.staged EXCEPT !.stage = "FENCED"],
     cleanup |-> [lease |-> s.staged.lease, ctx |-> s.staged.ctx]]

(* The active lease becomes a cleanup obligation.                          *)
Owing(s) ==
    [active  |-> NoActive,
     staged  |-> s.staged,
     cleanup |-> [lease |-> s.active.lease, ctx |-> s.active.ctx]]

(* An active lease is over: a staged record of the workspace is fenced.    *)
Retired(s) == IF HasStaged(s) THEN Fenced(s) ELSE Owing(s)

(* ActiveAttachment.active_at                                              *)
ActiveAt(a, now) == now < a.expires /\ now < a.absolute

(* sweep, for one workspace                                                *)
Swept(s, now) ==
    IF HasActive(s) /\ ~ActiveAt(s.active, now) THEN Retired(s)
    ELSE IF s.staged.stage \in Admitting /\ now >= s.staged.deadline THEN Fenced(s)
    ELSE s

LiveTickets(now) == {k \in pending : now < k.expires}
SweptSlots(now) == [w \in Workspaces |-> Swept(slot[w], now)]

(* _burn_pending_and_fence_live_records, for one workspace                 *)
Burnt(s) ==
    IF HasActive(s) THEN Retired(s)
    ELSE IF HasStaged(s) THEN Fenced(s)
    ELSE s

(* revoke_session, for one workspace                                       *)
Of(ctx, sess) == ctx # NoContext /\ SessionOf[ctx] = sess

Revoked(s, sess) ==
    IF HasStaged(s) /\ Of(s.staged.ctx, sess) THEN Fenced(s)
    ELSE IF HasActive(s) /\ Of(s.active.ctx, sess) THEN Owing(s)
    ELSE s

(* _check_reserved passes; otherwise the caller fences unless ACTIVE.      *)
CheckPasses(s, now) ==
    /\ s.staged.stage \in Admitting
    /\ now < s.staged.deadline /\ now < s.staged.expires

CheckFailed(s) == IF s.staged.stage = "ACTIVE" THEN s ELSE Fenced(s)

-----------------------------------------------------------------------------
(* Capacity.  p is a set of tickets, ss a function of slots.               *)
Writers(ss) == {w \in Workspaces : Busy(ss[w])}

RecordCount(p, ss) == Cardinality(p) + Cardinality(Writers(ss))

(* _admin_count counts contexts of pending tickets, active leases, cleanup *)
(* obligations, and staged records that are neither active nor in cleanup. *)
IsUser(c, u) == c # NoContext /\ UserOf[c] = u

AdminCount(p, ss, u) ==
    LET actives  == {w \in Workspaces : HasActive(ss[w]) /\ IsUser(ss[w].active.ctx, u)}
        cleanups == {w \in Workspaces : HasCleanup(ss[w]) /\ IsUser(ss[w].cleanup.ctx, u)}
        stageds  == {w \in Workspaces : /\ HasStaged(ss[w]) /\ IsUser(ss[w].staged.ctx, u)
                                        /\ ~HasActive(ss[w]) /\ ~HasCleanup(ss[w])}
    IN  Cardinality({k \in p : IsUser(k.ctx, u)}) + Cardinality(actives)
        + Cardinality(cleanups) + Cardinality(stageds)

-----------------------------------------------------------------------------

Init ==
    /\ clock = 0
    /\ nextLease \in 1 .. MaxLease  \* lease_seed
    /\ pending = {}
    /\ slot = [w \in Workspaces |-> EmptySlot]
    /\ shutdown = FALSE
    /\ pty = {} /\ closed = {}

(* sweep; also what an issue that is refused leaves behind.                *)
Sweep ==
    /\ pending' = LiveTickets(clock)
    /\ slot' = SweptSlots(clock)
    /\ UNCHANGED <<clock, nextLease, shutdown, pty, closed>>

(* Mutant: the record bound is off by one.                                 *)
MayIssue_OneTooMany(w, c) ==
    LET p == LiveTickets(clock)
        ss == SweptSlots(clock)
    IN  /\ ~shutdown /\ ~HasCleanup(ss[w]) /\ ss[w].staged.stage # "FENCED"
        /\ RecordCount(p, ss) <= MaxRecords
        /\ c # NoContext => AdminCount(p, ss, UserOf[c]) < MaxPerAdmin
        /\ nextLease <= MaxLease

MayIssue(w, c) ==
    LET p == LiveTickets(clock)
        ss == SweptSlots(clock)
    IN  /\ ~shutdown
        /\ ~HasCleanup(ss[w]) /\ ss[w].staged.stage # "FENCED"
        /\ RecordCount(p, ss) < MaxRecords
        /\ c # NoContext => AdminCount(p, ss, UserOf[c]) < MaxPerAdmin
        /\ nextLease <= MaxLease

Issue(w, c) ==
    /\ MayIssue(w, c)
    /\ pending' = LiveTickets(clock) \cup
                    {[lease |-> nextLease, ws |-> w, ctx |-> c, expires |-> clock + TicketTtl]}
    /\ slot' = SweptSlots(clock)
    /\ nextLease' = nextLease + 1
    /\ UNCHANGED <<clock, shutdown, pty, closed>>

(* The claims turn out invalid after the lease number was allocated.       *)
IssueInvalid(w, c) ==
    /\ MayIssue(w, c)
    /\ pending' = LiveTickets(clock)
    /\ slot' = SweptSlots(clock)
    /\ nextLease' = nextLease + 1
    /\ UNCHANGED <<clock, shutdown, pty, closed>>

(* reserve burns the ticket first.  It then refuses it when it expired,    *)
(* came too late after the connection started, or does not match.          *)
ReserveRefused(k) ==
    /\ ~shutdown /\ k \in pending
    /\ pending' = pending \ {k}
    /\ UNCHANGED <<clock, nextLease, slot, shutdown, pty, closed>>

(* Otherwise it sweeps, and takes the workspace if that is free.           *)
Reserve(k, started) ==
    LET p  == {q \in pending \ {k} : clock < q.expires}
        ss == SweptSlots(clock)
        w  == k.ws
        until == IF started + AdmissionWindow < k.expires
                 THEN started + AdmissionWindow ELSE k.expires
    IN  /\ ~shutdown /\ k \in pending /\ k.ctx # NoContext
        /\ clock < k.expires
        /\ started <= clock /\ clock < started + AdmissionWindow
        /\ pending' = p
        /\ slot' = IF /\ ~Busy(ss[w])
                      /\ Cardinality(Writers(ss)) < MaxWriters
                      /\ AdminCount(p, ss, UserOf[k.ctx]) < MaxPerAdmin
                   THEN [ss EXCEPT ![w].staged =
                           [lease |-> k.lease, ctx |-> k.ctx, stage |-> "RESERVED",
                            deadline |-> until, expires |-> clock + LeaseTtl,
                            absolute |-> clock + AbsoluteLease]]
                   ELSE ss
        /\ UNCHANGED <<clock, nextLease, shutdown, pty, closed>>

(* consume, the compatibility path: no sweep, and straight to ACTIVE.      *)
Consume(k) ==
    LET s == slot[k.ws]
    IN  /\ ~shutdown /\ k \in pending
        /\ clock < k.expires
        /\ pending' = pending \ {k}
        /\ slot' = IF HasActive(s) /\ ~ActiveAt(s.active, clock)
                   THEN [slot EXCEPT ![k.ws] = Retired(s)]
                   ELSE IF ~Busy(s) /\ Cardinality(Writers(slot)) < MaxWriters
                   THEN [slot EXCEPT ![k.ws].active =
                           [lease |-> k.lease, ctx |-> k.ctx, expires |-> clock + LeaseTtl,
                            absolute |-> clock + AbsoluteLease]]
                   ELSE slot
        /\ UNCHANGED <<clock, nextLease, shutdown, pty, closed>>

-----------------------------------------------------------------------------
(* The steps of a staged admission.                                        *)
SetSlot(w, s) == slot' = [slot EXCEPT ![w] = s]
OnlySlot == UNCHANGED <<clock, nextLease, pending, shutdown, pty, closed>>

CheckReserved(w) ==
    /\ HasStaged(slot[w]) /\ ~CheckPasses(slot[w], clock)
    /\ SetSlot(w, CheckFailed(slot[w]))
    /\ OnlySlot

(* advance to the next stage; asking for any other stage fences.           *)
Advance(w, inOrder) ==
    LET s == slot[w]
    IN  /\ ~shutdown /\ HasStaged(s)
        /\ SetSlot(w, IF ~CheckPasses(s, clock) THEN CheckFailed(s)
                      ELSE IF inOrder /\ s.staged.stage # "ADMITTED_AUDITED"
                      THEN [s EXCEPT !.staged.stage = NextStage(s.staged.stage)]
                      ELSE Fenced(s))
        /\ OnlySlot

Activated(s) ==
    [active  |-> [lease |-> s.staged.lease, ctx |-> s.staged.ctx,
                  expires |-> s.staged.expires, absolute |-> s.staged.absolute],
     staged  |-> [s.staged EXCEPT !.stage = "ACTIVE"],
     cleanup |-> s.cleanup]

(* activate_with_publication: the queue release may fail, and the clock    *)
(* is read again after it.                                                 *)
Activate(w, released, later) ==
    LET s == slot[w]
    IN  /\ ~shutdown /\ HasStaged(s)
        /\ later \in clock .. MaxTime
        /\ clock' = later
        /\ SetSlot(w, IF ~CheckPasses(s, clock) THEN CheckFailed(s)
                      ELSE IF /\ s.staged.stage = "ADMITTED_AUDITED"
                              /\ released /\ CheckPasses(s, later)
                      THEN Activated(s)
                      ELSE Fenced(s))
        /\ UNCHANGED <<nextLease, pending, shutdown, pty, closed>>

Fence(w) ==
    /\ HasStaged(slot[w])
    /\ SetSlot(w, Fenced(slot[w]))
    /\ OnlySlot

(* Mutant: the acknowledgement does not ask for the Runtime's proof.       *)
AcknowledgeStagedCleanup_NoProof(w) ==
    /\ slot[w].staged.stage = "FENCED"
    /\ SetSlot(w, [active |-> slot[w].active, staged |-> NoStaged, cleanup |-> NoOwed])
    /\ OnlySlot

(* acknowledge_staged_cleanup, with the Runtime's proof for this lease.    *)
AcknowledgeStagedCleanup(w) ==
    /\ slot[w].staged.stage = "FENCED"
    /\ <<w, slot[w].staged.lease>> \in closed
    /\ SetSlot(w, [active |-> slot[w].active, staged |-> NoStaged, cleanup |-> NoOwed])
    /\ OnlySlot

-----------------------------------------------------------------------------
(* The life of an active lease.                                            *)
Min2(a, b) == IF a < b THEN a ELSE b

Heartbeat(w) ==
    LET s == slot[w]
    IN  /\ ~shutdown /\ HasActive(s)
        /\ SetSlot(w, IF ActiveAt(s.active, clock)
                      THEN [s EXCEPT !.active.expires = Min2(clock + LeaseTtl, s.active.absolute)]
                      ELSE Retired(s))
        /\ OnlySlot

(* is_active and read_published retire a lease they find over.             *)
IsActive(w) ==
    /\ HasActive(slot[w]) /\ ~ActiveAt(slot[w].active, clock)
    /\ SetSlot(w, Retired(slot[w]))
    /\ OnlySlot

Detach(w) ==
    LET s == slot[w]
    IN  /\ HasActive(s)
        /\ SetSlot(w, IF ~ActiveAt(s.active, clock) \/ HasStaged(s) THEN Retired(s)
                      ELSE [s EXCEPT !.active = NoActive])
        /\ OnlySlot

AcknowledgeCleanup(w) ==
    /\ HasCleanup(slot[w]) /\ ~HasStaged(slot[w])
    /\ SetSlot(w, [slot[w] EXCEPT !.cleanup = NoOwed])
    /\ OnlySlot

RevokeSession(sess) ==
    /\ pending' = {k \in pending : ~Of(k.ctx, sess)}
    /\ slot' = [w \in Workspaces |-> Revoked(slot[w], sess)]
    /\ UNCHANGED <<clock, nextLease, shutdown, pty, closed>>

BurnAll ==
    /\ pending' = {}
    /\ slot' = [w \in Workspaces |-> Burnt(slot[w])]

InvalidateAll == BurnAll /\ UNCHANGED <<clock, nextLease, shutdown, pty, closed>>

BeginShutdown ==
    /\ ~shutdown /\ shutdown' = TRUE
    /\ BurnAll
    /\ UNCHANGED <<clock, nextLease, pty, closed>>

-----------------------------------------------------------------------------
(* The Runtime's side, as much of it as the authority depends on           *)
(* (RuntimeStream has all of it): commit_runtime_attachment() opens the    *)
(* PTY when ADMISSION_COMMIT arrives, possibly after the API fenced the    *)
(* attachment; cleanup_runtime_attachment() proves it closed, and a        *)
(* retired attachment is never prepared again.                             *)
OpenPty(w) ==
    /\ slot[w].staged.stage \in {"QUARANTINED", "FENCED"}
    /\ <<w, slot[w].staged.lease>> \notin closed
    /\ pty' = pty \cup {<<w, slot[w].staged.lease>>}
    /\ UNCHANGED <<clock, nextLease, pending, slot, shutdown, closed>>

ClosePty(w) ==
    /\ HasStaged(slot[w])
    /\ pty' = pty \ {<<w, slot[w].staged.lease>>}
    /\ closed' = closed \cup {<<w, slot[w].staged.lease>>}
    /\ UNCHANGED <<clock, nextLease, pending, slot, shutdown>>

Tick ==
    /\ clock < MaxTime /\ clock' = clock + 1
    /\ UNCHANGED <<nextLease, pending, slot, shutdown, pty, closed>>

Next ==
    \/ Tick \/ Sweep \/ InvalidateAll \/ BeginShutdown
    \/ \E w \in Workspaces, c \in AnyContext : Issue(w, c) \/ IssueInvalid(w, c)
    \/ \E k \in pending : \/ ReserveRefused(k) \/ Consume(k)
                          \/ \E started \in 0 .. clock : Reserve(k, started)
    \/ \E w \in Workspaces :
          \/ CheckReserved(w) \/ Fence(w) \/ AcknowledgeStagedCleanup(w)
          \/ Heartbeat(w) \/ IsActive(w) \/ Detach(w) \/ AcknowledgeCleanup(w)
          \/ OpenPty(w) \/ ClosePty(w)
          \/ \E b \in BOOLEAN : \/ Advance(w, b)
                                \/ \E later \in clock .. MaxTime : Activate(w, b, later)
    \/ \E sess \in Sessions : RevokeSession(sess)

Spec == Init /\ [][Next]_vars

-----------------------------------------------------------------------------
TypeOK ==
    /\ clock \in Nat
    /\ nextLease \in Nat \ {0}
    /\ pending \in SUBSET Ticket
    /\ slot \in [Workspaces -> Slot]
    /\ shutdown \in BOOLEAN
    /\ pty \in SUBSET (Workspaces \X Nat)
    /\ closed \in SUBSET (Workspaces \X Nat)

(* The three dictionaries tell one story about a workspace: a lease is     *)
(* never active and owed at once; a staged record is ACTIVE exactly when   *)
(* the active lease is its own, FENCED exactly when the cleanup obligation *)
(* is its own, and alone otherwise.                                        *)
Consistent(s) ==
    /\ s.staged.stage = "none" <=> ~HasStaged(s)
    /\ ~(HasActive(s) /\ HasCleanup(s))
    /\ HasStaged(s) =>
          /\ s.staged.stage = "ACTIVE" <=> HasActive(s)
          /\ s.staged.stage = "FENCED" <=> HasCleanup(s)
          /\ HasActive(s)  => s.active.lease = s.staged.lease /\ s.active.ctx = s.staged.ctx
          /\ HasCleanup(s) => s.cleanup.lease = s.staged.lease /\ s.cleanup.ctx = s.staged.ctx

SlotsConsistent == \A w \in Workspaces : Consistent(slot[w])

(* The writer slot follows the Runtime: while the PTY of a lease may be    *)
(* open the workspace is held by that very lease, so two attachments never *)
(* have a PTY on one workspace ("retain the slot until exact cleanup"),    *)
(* whatever expired, was revoked, detached, invalidated or shut down.      *)
OpenPtyHoldsSlot ==
    \A x \in pty : slot[x[1]].staged.lease = x[2] /\ x[2] # 0

(* A staged slot changes hands only after the Runtime proved the PTY of    *)
(* the lease that held it closed.                                          *)
ReleaseNeedsProof ==
    [][\A w \in Workspaces :
          HasStaged(slot[w]) /\ slot'[w].staged.lease # slot[w].staged.lease
              => <<w, slot[w].staged.lease>> \in closed]_vars

(* The capacities hold at all times, not only when they are checked: no    *)
(* move of a record between the dictionaries pushes a count over its bound *)
(* (records, writers, and records of one administrator).                   *)
WithinCapacity ==
    /\ RecordCount(pending, slot) <= MaxRecords
    /\ Cardinality(Writers(slot)) <= MaxWriters
    /\ \A u \in Users : AdminCount(pending, slot, u) <= MaxPerAdmin

(* "Synchronously fence issuance and retain every cleanup obligation":     *)
(* once shutdown began there is no usable ticket, lease or admission, and  *)
(* none comes back.                                                        *)
ShutdownIsFinal ==
    shutdown => /\ pending = {}
                /\ \A w \in Workspaces : ~HasActive(slot[w])
                                         /\ slot[w].staged.stage \in {"none", "FENCED"}

(* A lease ends by its absolute bound: heartbeats never carry the expiry   *)
(* past it, nor move the bound, and a lease whose cleanup is owed does not *)
(* become active again.                                                    *)
LeaseIsBounded ==
    [][\A w \in Workspaces :
          /\ HasActive(slot'[w]) => slot'[w].active.expires <= slot'[w].active.absolute
          /\ HasActive(slot[w]) /\ slot'[w].active.lease = slot[w].active.lease
                => slot'[w].active.absolute = slot[w].active.absolute
          /\ HasCleanup(slot[w]) => slot'[w].active.lease # slot[w].cleanup.lease]_vars
=============================================================================
