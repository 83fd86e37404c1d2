--------------------- MODULE AttachmentAuthorityProofs ----------------------
(***************************************************************************)
(* Proofs about AttachmentAuthority, for every set of workspaces, every    *)
(* capacity and every clock bound.                                         *)
(***************************************************************************)
EXTENDS AttachmentAuthority, FiniteSetTheorems, TLAPS

(* The provers every leaf below is tried with, in this order, and their    *)
(* time limits in seconds, unless the leaf names one itself.               *)
USE SMTT(15), ZenonT(30), SMTT(20)

(* Nothing on the workspace may be used any more.                          *)
Dead(s) == ~HasActive(s) /\ s.staged.stage \in {"none", "FENCED"}

(* What every helper guarantees when it rewrites the records s of one      *)
(* workspace to t.                                                         *)
SlotStep(s, t) ==
    /\ t \in Slot
    /\ Consistent(t)
    /\ t.staged.lease = s.staged.lease
    /\ Dead(s) => Dead(t)

(* fence keeps the lease of the staged record as its cleanup obligation.   *)
LEMMA FencedStep ==
    ASSUME NEW s \in Slot, Consistent(s), HasStaged(s)
    PROVE  SlotStep(s, Fenced(s)) /\ Dead(Fenced(s))
  <1>1. Fenced(s) \in Slot
    BY DEF Fenced, Slot, Active, Staged, Owed, NoActive, AnyContext, Admitting
  <1>2. Fenced(s).staged = [s.staged EXCEPT !.stage = "FENCED"]
    BY DEF Fenced
  <1>3. /\ Fenced(s).staged.lease = s.staged.lease
        /\ Fenced(s).staged.ctx = s.staged.ctx
        /\ Fenced(s).staged.stage = "FENCED"
    BY <1>2 DEF Slot, Staged
  <1>4. /\ Fenced(s).active.lease = 0
        /\ Fenced(s).cleanup = [lease |-> s.staged.lease, ctx |-> s.staged.ctx]
    BY DEF Fenced, NoActive
  <1>5. Consistent(Fenced(s))
    BY <1>3, <1>4 DEF Consistent, HasStaged, HasActive, HasCleanup
  <1> QED BY <1>1, <1>3, <1>4, <1>5 DEF SlotStep, Dead, HasActive

(* The end of an active lease.                                             *)
LEMMA RetiredStep ==
    ASSUME NEW s \in Slot, Consistent(s), HasActive(s)
    PROVE  SlotStep(s, Retired(s)) /\ Dead(Retired(s))
  <1>1. CASE HasStaged(s)
    BY <1>1, FencedStep DEF Retired
  <1>2. CASE ~HasStaged(s)
    <2>1. Retired(s) = Owing(s)
      BY <1>2 DEF Retired
    <2>2. Owing(s) \in Slot
      BY DEF Owing, Slot, Active, Owed, NoActive, AnyContext
    <2>3. Owing(s).active.lease = 0 /\ Owing(s).staged = s.staged
      BY DEF Owing, NoActive
    <2>4. Consistent(Owing(s)) /\ Dead(Owing(s))
      BY <1>2, <2>3 DEF Consistent, Dead, HasStaged, HasActive, HasCleanup
    <2> QED BY <2>1, <2>2, <2>3, <2>4 DEF SlotStep
  <1> QED BY <1>1, <1>2

LEMMA SameStep ==
    ASSUME NEW s \in Slot, Consistent(s)
    PROVE  SlotStep(s, s)
  BY DEF SlotStep

(* A workspace with an admission in progress has a staged record.          *)
LEMMA AdmittingIsStaged ==
    ASSUME NEW s \in Slot, Consistent(s), s.staged.stage # "none"
    PROVE  HasStaged(s)
  BY DEF Consistent

LEMMA SweptStep ==
    ASSUME NEW s \in Slot, Consistent(s), NEW now
    PROVE  SlotStep(s, Swept(s, now))
  <1>1. s.staged.stage \in Admitting => HasStaged(s)
    BY AdmittingIsStaged DEF Admitting
  <1> QED BY <1>1, FencedStep, RetiredStep, SameStep DEF Swept

LEMMA BurntStep ==
    ASSUME NEW s \in Slot, Consistent(s)
    PROVE  SlotStep(s, Burnt(s)) /\ Dead(Burnt(s))
  <1>1. ~HasStaged(s) => s.staged.stage = "none"
    BY DEF Consistent
  <1> QED BY <1>1, FencedStep, RetiredStep, SameStep DEF Burnt, Dead

LEMMA RevokedStep ==
    ASSUME NEW s \in Slot, Consistent(s), NEW sess
    PROVE  SlotStep(s, Revoked(s, sess))
  <1>1. CASE HasStaged(s) /\ Of(s.staged.ctx, sess)
    BY <1>1, FencedStep DEF Revoked
  <1>2. CASE ~HasStaged(s) /\ HasActive(s)
    <2>1. Revoked(s, sess) \in {Retired(s), s}
      BY <1>2 DEF Revoked, Retired
    <2> QED BY <1>2, <2>1, RetiredStep, SameStep
  <1>3. CASE HasStaged(s) /\ HasActive(s) /\ ~Of(s.staged.ctx, sess)
    <2>1. Revoked(s, sess) = s
      BY <1>3 DEF Revoked, Consistent
    <2> QED BY <2>1, SameStep
  <1>4. CASE ~HasActive(s) /\ ~(HasStaged(s) /\ Of(s.staged.ctx, sess))
    BY <1>4, SameStep DEF Revoked
  <1> QED BY <1>1, <1>2, <1>3, <1>4

LEMMA CheckFailedStep ==
    ASSUME NEW s \in Slot, Consistent(s), HasStaged(s)
    PROVE  SlotStep(s, CheckFailed(s))
  BY FencedStep, SameStep DEF CheckFailed

-----------------------------------------------------------------------------
(* The inductive invariant.  SlotsConsistent relates the three records of  *)
(* one workspace, which the PTY argument needs to know that a stage other  *)
(* than "none" has a lease; the proof of closure and the open PTYs are     *)
(* disjoint, which makes an acknowledged slot free of PTYs.                *)
Disjoint == pty \cap closed = {}

IInv ==
    TypeOK /\ SlotsConsistent /\ OpenPtyHoldsSlot /\ Disjoint /\ ShutdownIsFinal

(* The staged lease of a workspace changes only if there was none, or if   *)
(* it was proved closed.                                                   *)
KeepsLease(w, s, t) ==
    \/ t.staged.lease = s.staged.lease
    \/ s.staged.lease = 0
    \/ <<w, s.staged.lease>> \in closed

(* The records t may replace those of workspace w in the current state.    *)
Allowed(w, t) ==
    /\ t \in Slot /\ Consistent(t)
    /\ KeepsLease(w, slot[w], t)
    /\ shutdown => Dead(t)

(* What each action does to the part of the state the authority keeps.     *)
StepOK ==
    /\ slot' \in [Workspaces -> Slot]
    /\ \A w \in Workspaces : Consistent(slot'[w]) /\ KeepsLease(w, slot[w], slot'[w])
    /\ shutdown' \in BOOLEAN
    /\ shutdown' => pending' = {} /\ \A w \in Workspaces : Dead(slot'[w])
    /\ clock' \in Nat /\ nextLease' \in Nat \ {0}
    /\ pending' \in SUBSET Ticket

LEMMA SlotStepAllowed ==
    ASSUME IInv, NEW w \in Workspaces, NEW t, SlotStep(slot[w], t)
    PROVE  Allowed(w, t)
  BY DEF IInv, ShutdownIsFinal, SlotStep, Allowed, KeepsLease, Dead

LEMMA SlotGood ==
    ASSUME IInv, NEW w \in Workspaces
    PROVE  slot[w] \in Slot /\ Consistent(slot[w])
  BY DEF IInv, TypeOK, SlotsConsistent

(* An action that rewrites all workspaces.                                 *)
LEMMA AllSlots ==
    ASSUME IInv, NEW f, slot' = [w \in Workspaces |-> f[w]],
           \A w \in Workspaces : Allowed(w, f[w]),
           UNCHANGED shutdown, shutdown => pending' = {},
           clock' \in Nat, nextLease' \in Nat \ {0}, pending' \in SUBSET Ticket
    PROVE  StepOK
  BY DEF IInv, TypeOK, StepOK, Allowed

(* An action that rewrites one workspace.                                  *)
LEMMA OneSlot ==
    ASSUME IInv, NEW v \in Workspaces, NEW t, Allowed(v, t),
           slot' = [slot EXCEPT ![v] = t],
           UNCHANGED <<nextLease, pending, shutdown>>, clock' \in Nat
    PROVE  StepOK
  <1>1. \A w \in Workspaces : Allowed(w, slot'[w])
    <2> SUFFICES ASSUME NEW w \in Workspaces PROVE Allowed(w, slot'[w])
      OBVIOUS
    <2>1. CASE w = v
      BY <2>1 DEF IInv, TypeOK
    <2>2. CASE w # v
      BY <2>2, SlotGood, SameStep, SlotStepAllowed DEF IInv, TypeOK
    <2> QED BY <2>1, <2>2
  <1>2. slot' \in [Workspaces -> Slot]
    BY <1>1 DEF IInv, TypeOK, Allowed
  <1>3. shutdown' => pending' = {}
    BY DEF IInv, ShutdownIsFinal
  <1> QED BY <1>1, <1>2, <1>3 DEF IInv, TypeOK, StepOK, Allowed

LEMMA SweptAllowed ==
    ASSUME IInv, NEW w \in Workspaces
    PROVE  /\ SweptSlots(clock)[w] = Swept(slot[w], clock)
           /\ Allowed(w, Swept(slot[w], clock))
           /\ Swept(slot[w], clock).staged.lease = slot[w].staged.lease
  <1>1. SlotStep(slot[w], Swept(slot[w], clock))
    BY SlotGood, SweptStep
  <1> QED BY <1>1, SlotStepAllowed DEF SweptSlots, SlotStep

LEMMA TicketsLive ==
    ASSUME IInv
    PROVE  /\ LiveTickets(clock) \in SUBSET Ticket
           /\ shutdown => LiveTickets(clock) = {}
  BY DEF IInv, TypeOK, ShutdownIsFinal, LiveTickets

-----------------------------------------------------------------------------
(* One lemma per group of actions.                                         *)
LEMMA SweepOK == ASSUME IInv, Sweep PROVE StepOK
  <1>1. slot' = [w \in Workspaces |-> SweptSlots(clock)[w]]
    BY DEF Sweep, SweptSlots
  <1>2. \A w \in Workspaces : Allowed(w, SweptSlots(clock)[w])
    BY SweptAllowed
  <1> QED BY <1>1, <1>2, AllSlots, TicketsLive DEF Sweep, IInv, TypeOK

LEMMA IssueOK ==
    ASSUME IInv, NEW w \in Workspaces, NEW c \in AnyContext,
           Issue(w, c) \/ IssueInvalid(w, c)
    PROVE  StepOK
  <1>1. slot' = [v \in Workspaces |-> SweptSlots(clock)[v]] /\ UNCHANGED shutdown /\ ~shutdown
    BY DEF Issue, IssueInvalid, MayIssue, SweptSlots
  <1>2. \A v \in Workspaces : Allowed(v, SweptSlots(clock)[v])
    BY SweptAllowed
  <1>3. [lease |-> nextLease, ws |-> w, ctx |-> c, expires |-> clock + TicketTtl] \in Ticket
    BY AuthorityAssumption DEF Ticket, IInv, TypeOK
  <1>4. pending' \in SUBSET Ticket
    BY <1>3, TicketsLive DEF Issue, IssueInvalid
  <1>5. nextLease' \in Nat \ {0} /\ clock' \in Nat
    BY DEF Issue, IssueInvalid, IInv, TypeOK
  <1> QED BY <1>1, <1>2, <1>4, <1>5, AllSlots

LEMMA ReserveRefusedOK ==
    ASSUME IInv, NEW k \in pending, ReserveRefused(k)
    PROVE  StepOK
  <1>1. slot' = [v \in Workspaces |-> slot[v]]
    BY DEF ReserveRefused, IInv, TypeOK
  <1>2. \A v \in Workspaces : Allowed(v, slot[v])
    BY SlotGood, SameStep, SlotStepAllowed
  <1> QED BY <1>1, <1>2, AllSlots DEF ReserveRefused, IInv, TypeOK

LEMMA ReserveOK ==
    ASSUME IInv, NEW k \in pending, NEW started \in 0 .. clock, Reserve(k, started)
    PROVE  StepOK
  <1> DEFINE ss == SweptSlots(clock)
             until == IF started + AdmissionWindow < k.expires
                      THEN started + AdmissionWindow ELSE k.expires
             new == [lease |-> k.lease, ctx |-> k.ctx, stage |-> "RESERVED",
                     deadline |-> until, expires |-> clock + LeaseTtl,
                     absolute |-> clock + AbsoluteLease]
             t == [ss[k.ws] EXCEPT !.staged = new]
  <1>1. k \in Ticket /\ clock \in Nat
    BY DEF IInv, TypeOK
  <1>2. \A v \in Workspaces : Allowed(v, ss[v]) /\ ss[v].staged.lease = slot[v].staged.lease
    BY SweptAllowed
  <1>3. ~shutdown /\ UNCHANGED shutdown /\ clock' \in Nat /\ nextLease' \in Nat \ {0}
        /\ pending' \in SUBSET Ticket
    BY DEF Reserve, IInv, TypeOK
  <1>4. CASE slot' = ss
    <2>1. slot' = [v \in Workspaces |-> ss[v]]
      BY <1>4 DEF SweptSlots
    <2> QED BY <2>1, <1>2, <1>3, AllSlots
  <1>5. CASE ~Busy(ss[k.ws]) /\ slot' = [ss EXCEPT ![k.ws] = t]
    <2>1. new \in Staged
      BY <1>1, AuthorityAssumption DEF Ticket, Staged, Admitting
    <2>2. t \in Slot
      BY <1>1, <1>2, <2>1 DEF Ticket, Allowed, Slot
    <2>3. t.staged = new /\ t.active = ss[k.ws].active /\ t.cleanup = ss[k.ws].cleanup
      BY <1>1, <1>2 DEF Ticket, Allowed, Slot
    <2>4. k.lease # 0
      BY <1>1 DEF Ticket
    <2>5. Consistent(t)
      BY <1>5, <2>3, <2>4 DEF Consistent, Busy, HasActive, HasStaged, HasCleanup
    <2>6. slot[k.ws].staged.lease = 0
      BY <1>1, <1>2, <1>5 DEF Ticket, Busy, HasStaged
    <2>7. Allowed(k.ws, t)
      BY <2>2, <2>5, <2>6, <1>3 DEF Allowed, KeepsLease
    <2> DEFINE g == [ss EXCEPT ![k.ws] = t]
    <2>8. slot' = [v \in Workspaces |-> g[v]]
      BY <1>5 DEF SweptSlots
    <2>9. \A v \in Workspaces : Allowed(v, g[v])
      BY <1>2, <2>7 DEF SweptSlots
    <2> HIDE DEF g
    <2> QED BY <2>8, <2>9, <1>3, AllSlots
  <1> QED BY <1>4, <1>5 DEF Reserve

LEMMA ConsumeOK ==
    ASSUME IInv, NEW k \in pending, Consume(k)
    PROVE  StepOK
  <1> DEFINE s == slot[k.ws]
             new == [lease |-> k.lease, ctx |-> k.ctx, expires |-> clock + LeaseTtl,
                     absolute |-> clock + AbsoluteLease]
             t == [s EXCEPT !.active = new]
  <1>1. k \in Ticket /\ clock \in Nat /\ k.ws \in Workspaces /\ k.lease # 0
    BY DEF IInv, TypeOK, Ticket
  <1>2. s \in Slot /\ Consistent(s)
    BY <1>1, SlotGood
  <1>3. ~shutdown /\ UNCHANGED shutdown /\ clock' \in Nat /\ nextLease' \in Nat \ {0}
        /\ pending' \in SUBSET Ticket
    BY DEF Consume, IInv, TypeOK
  <1>4. HasActive(s) => Allowed(k.ws, Retired(s))
    BY <1>1, <1>2, RetiredStep, SlotStepAllowed
  <1>5. ~Busy(s) => Allowed(k.ws, t)
    <2> SUFFICES ASSUME ~Busy(s) PROVE Allowed(k.ws, t)
      OBVIOUS
    <2>1. new \in Active
      BY <1>1, AuthorityAssumption DEF Ticket, Active
    <2>2. t \in Slot /\ t.active = new /\ t.staged = s.staged /\ t.cleanup = s.cleanup
      BY <1>2, <2>1 DEF Slot
    <2>3. Consistent(t)
      BY <1>2, <2>2 DEF Consistent, Busy, HasActive, HasStaged, HasCleanup
    <2> QED BY <2>2, <2>3, <1>3 DEF Allowed, KeepsLease
  <1>6. Allowed(k.ws, s)
    BY <1>1, <1>2, SameStep, SlotStepAllowed
  <1>7. \E r : Allowed(k.ws, r) /\ slot' = [slot EXCEPT ![k.ws] = r]
    BY <1>4, <1>5, <1>6, ZenonT(30) DEF Consume, IInv, TypeOK
  <1>8. PICK r : Allowed(k.ws, r) /\ slot' = [slot EXCEPT ![k.ws] = r]
    BY <1>7, ZenonT(30)
  <1> DEFINE g == [slot EXCEPT ![k.ws] = r]
  <1>9. slot' = [v \in Workspaces |-> g[v]]
    BY <1>8, ZenonT(30) DEF IInv, TypeOK
  <1>10. \A v \in Workspaces : Allowed(v, g[v])
    BY <1>8, SlotGood, SameStep, SlotStepAllowed DEF IInv, TypeOK
  <1> HIDE DEF g
  <1> QED BY <1>3, <1>9, <1>10, AllSlots

(* The admission actions.                                                  *)
LEMMA CheckReservedOK ==
    ASSUME IInv, NEW w \in Workspaces, CheckReserved(w)
    PROVE  StepOK
  <1>1. Allowed(w, CheckFailed(slot[w]))
    BY SlotGood, CheckFailedStep, SlotStepAllowed DEF CheckReserved
  <1> QED BY <1>1, OneSlot, ZenonT(30) DEF CheckReserved, SetSlot, OnlySlot, IInv, TypeOK

LEMMA FenceOK ==
    ASSUME IInv, NEW w \in Workspaces, Fence(w)
    PROVE  StepOK
  <1>1. Allowed(w, Fenced(slot[w]))
    BY SlotGood, FencedStep, SlotStepAllowed DEF Fence
  <1> QED BY <1>1, OneSlot, ZenonT(30) DEF Fence, SetSlot, OnlySlot, IInv, TypeOK

LEMMA AdvanceOK ==
    ASSUME IInv, NEW w \in Workspaces, NEW b \in BOOLEAN, Advance(w, b)
    PROVE  StepOK
  <1> DEFINE s == slot[w]
             t == [s EXCEPT !.staged.stage = NextStage(s.staged.stage)]
  <1>1. s \in Slot /\ Consistent(s) /\ HasStaged(s) /\ ~shutdown
    BY SlotGood DEF Advance
  <1>2. Allowed(w, CheckFailed(s)) /\ Allowed(w, Fenced(s))
    BY <1>1, CheckFailedStep, FencedStep, SlotStepAllowed
  <1>3. CheckPasses(s, clock) => Allowed(w, t)
    <2> SUFFICES ASSUME CheckPasses(s, clock) PROVE Allowed(w, t)
      OBVIOUS
    <2>1. NextStage(s.staged.stage) \in Admitting
      BY DEF NextStage, Admitting
    <2>2. t \in Slot /\ t.active = s.active /\ t.cleanup = s.cleanup
          /\ t.staged.lease = s.staged.lease /\ t.staged.ctx = s.staged.ctx
          /\ t.staged.stage = NextStage(s.staged.stage)
      BY <1>1, <2>1 DEF Slot, Staged
    <2>3. s.staged.stage \in Admitting
      BY DEF CheckPasses
    <2>4. Consistent(t)
      BY <1>1, <2>1, <2>2, <2>3 DEF Consistent, Admitting, HasStaged, HasActive, HasCleanup
    <2> QED BY <1>1, <2>2, <2>4 DEF Allowed, KeepsLease
  <1>4. \E r : Allowed(w, r) /\ slot' = [slot EXCEPT ![w] = r]
    BY <1>2, <1>3, ZenonT(30) DEF Advance, SetSlot
  <1> QED BY <1>4, OneSlot, ZenonT(30) DEF Advance, OnlySlot, IInv, TypeOK

LEMMA ActivateOK ==
    ASSUME IInv, NEW w \in Workspaces, NEW b \in BOOLEAN, NEW later \in clock .. MaxTime,
           Activate(w, b, later)
    PROVE  StepOK
  <1> DEFINE s == slot[w]
  <1>1. s \in Slot /\ Consistent(s) /\ HasStaged(s) /\ ~shutdown
    BY SlotGood DEF Activate
  <1>2. Allowed(w, CheckFailed(s)) /\ Allowed(w, Fenced(s))
    BY <1>1, CheckFailedStep, FencedStep, SlotStepAllowed
  <1>3. CheckPasses(s, clock) => Allowed(w, Activated(s))
    <2> SUFFICES ASSUME CheckPasses(s, clock) PROVE Allowed(w, Activated(s))
      OBVIOUS
    <2>1. Activated(s) \in Slot /\ Activated(s).staged.lease = s.staged.lease
          /\ Activated(s).staged.ctx = s.staged.ctx /\ Activated(s).staged.stage = "ACTIVE"
          /\ Activated(s).active.lease = s.staged.lease
          /\ Activated(s).active.ctx = s.staged.ctx
          /\ Activated(s).cleanup = s.cleanup
      BY <1>1 DEF Activated, Slot, Staged, Active, AnyContext
    <2>2. s.staged.stage \in Admitting
      BY DEF CheckPasses
    <2>3. Consistent(Activated(s))
      BY <1>1, <2>1, <2>2 DEF Consistent, Admitting, HasStaged, HasActive, HasCleanup
    <2> QED BY <1>1, <2>1, <2>3 DEF Allowed, KeepsLease
  <1>4. \E r : Allowed(w, r) /\ slot' = [slot EXCEPT ![w] = r]
    BY <1>2, <1>3, ZenonT(30) DEF Activate, SetSlot
  <1>5. clock' \in Nat
    BY AuthorityAssumption DEF Activate, IInv, TypeOK
  <1> QED BY <1>4, <1>5, OneSlot, ZenonT(30) DEF Activate

LEMMA AcknowledgeStagedCleanupOK ==
    ASSUME IInv, NEW w \in Workspaces, AcknowledgeStagedCleanup(w)
    PROVE  StepOK
  <1> DEFINE s == slot[w]
             t == [active |-> s.active, staged |-> NoStaged, cleanup |-> NoOwed]
  <1>1. s \in Slot /\ Consistent(s) /\ s.staged.stage = "FENCED" /\ <<w, s.staged.lease>> \in closed
    BY SlotGood DEF AcknowledgeStagedCleanup
  <1>2. t \in Slot
    BY <1>1 DEF Slot, NoStaged, NoOwed, Staged, Owed, AnyContext
  <1>3. ~HasActive(s)
    BY <1>1, AdmittingIsStaged DEF Consistent
  <1>4. Consistent(t) /\ Dead(t)
    BY <1>3 DEF Consistent, Dead, NoStaged, NoOwed, HasStaged, HasActive, HasCleanup
  <1>5. Allowed(w, t)
    BY <1>1, <1>2, <1>4 DEF Allowed, KeepsLease
  <1> QED BY <1>5, OneSlot, ZenonT(30) DEF AcknowledgeStagedCleanup, SetSlot, OnlySlot, IInv,
             TypeOK

(* The actions on an active lease.                                         *)
LEMMA HeartbeatOK ==
    ASSUME IInv, NEW w \in Workspaces, Heartbeat(w)
    PROVE  StepOK
  <1> DEFINE s == slot[w]
             t == [s EXCEPT !.active.expires = Min2(clock + LeaseTtl, s.active.absolute)]
  <1>1. s \in Slot /\ Consistent(s) /\ HasActive(s) /\ ~shutdown
    BY SlotGood DEF Heartbeat
  <1>2. Allowed(w, Retired(s))
    BY <1>1, RetiredStep, SlotStepAllowed
  <1>3. Allowed(w, t)
    <2>1. Min2(clock + LeaseTtl, s.active.absolute) \in Nat
      BY <1>1, AuthorityAssumption DEF Min2, Slot, Active, IInv, TypeOK
    <2>2. t \in Slot /\ t.active.lease = s.active.lease /\ t.active.ctx = s.active.ctx
          /\ t.staged = s.staged /\ t.cleanup = s.cleanup
      BY <1>1, <2>1 DEF Slot, Active
    <2>3. Consistent(t)
      BY <1>1, <2>2 DEF Consistent, HasStaged, HasActive, HasCleanup
    <2> QED BY <1>1, <2>2, <2>3 DEF Allowed, KeepsLease
  <1>4. \E r : Allowed(w, r) /\ slot' = [slot EXCEPT ![w] = r]
    BY <1>2, <1>3, ZenonT(30) DEF Heartbeat, SetSlot
  <1> QED BY <1>4, OneSlot, ZenonT(30) DEF Heartbeat, OnlySlot, IInv, TypeOK

LEMMA IsActiveOK ==
    ASSUME IInv, NEW w \in Workspaces, IsActive(w)
    PROVE  StepOK
  <1>1. Allowed(w, Retired(slot[w]))
    BY SlotGood, RetiredStep, SlotStepAllowed DEF IsActive
  <1> QED BY <1>1, OneSlot, ZenonT(30) DEF IsActive, SetSlot, OnlySlot, IInv, TypeOK

LEMMA DetachOK ==
    ASSUME IInv, NEW w \in Workspaces, Detach(w)
    PROVE  StepOK
  <1> DEFINE s == slot[w]
             t == [s EXCEPT !.active = NoActive]
  <1>1. s \in Slot /\ Consistent(s) /\ HasActive(s)
    BY SlotGood DEF Detach
  <1>2. Allowed(w, Retired(s))
    BY <1>1, RetiredStep, SlotStepAllowed
  <1>3. ~HasStaged(s) => Allowed(w, t)
    <2> SUFFICES ASSUME ~HasStaged(s) PROVE Allowed(w, t)
      OBVIOUS
    <2>1. t \in Slot /\ t.active.lease = 0 /\ t.staged = s.staged /\ t.cleanup = s.cleanup
      BY <1>1 DEF Slot, Active, NoActive, AnyContext
    <2>2. Consistent(t) /\ Dead(t)
      BY <1>1, <2>1 DEF Consistent, Dead, HasStaged, HasActive, HasCleanup
    <2> QED BY <2>1, <2>2 DEF Allowed, KeepsLease
  <1>4. \E r : Allowed(w, r) /\ slot' = [slot EXCEPT ![w] = r]
    BY <1>2, <1>3, ZenonT(30) DEF Detach, SetSlot
  <1> QED BY <1>4, OneSlot, ZenonT(30) DEF Detach, OnlySlot, IInv, TypeOK

LEMMA AcknowledgeCleanupOK ==
    ASSUME IInv, NEW w \in Workspaces, AcknowledgeCleanup(w)
    PROVE  StepOK
  <1> DEFINE s == slot[w]
             t == [s EXCEPT !.cleanup = NoOwed]
  <1>1. s \in Slot /\ Consistent(s) /\ ~HasStaged(s) /\ HasCleanup(s)
    BY SlotGood DEF AcknowledgeCleanup
  <1>2. t \in Slot /\ t.active = s.active /\ t.staged = s.staged /\ t.cleanup.lease = 0
    BY <1>1 DEF Slot, Owed, NoOwed, AnyContext
  <1>3. Consistent(t) /\ Dead(t)
    BY <1>1, <1>2 DEF Consistent, Dead, HasStaged, HasActive, HasCleanup
  <1>4. Allowed(w, t)
    BY <1>2, <1>3 DEF Allowed, KeepsLease
  <1> QED BY <1>4, OneSlot, ZenonT(30) DEF AcknowledgeCleanup, SetSlot, OnlySlot, IInv, TypeOK

(* The actions on all workspaces.                                          *)
LEMMA RevokeSessionOK ==
    ASSUME IInv, NEW sess \in Sessions, RevokeSession(sess)
    PROVE  StepOK
  <1> DEFINE f == [w \in Workspaces |-> Revoked(slot[w], sess)]
  <1>1. slot' = [w \in Workspaces |-> f[w]]
    BY DEF RevokeSession
  <1>2. \A w \in Workspaces : Allowed(w, f[w])
    BY SlotGood, RevokedStep, SlotStepAllowed
  <1>3. pending' \in SUBSET Ticket /\ (shutdown => pending' = {})
    BY DEF RevokeSession, IInv, TypeOK, ShutdownIsFinal
  <1> HIDE DEF f
  <1> QED BY <1>1, <1>2, <1>3, AllSlots DEF RevokeSession, IInv, TypeOK

LEMMA BurnAllOK ==
    ASSUME IInv, BurnAll, shutdown' \in BOOLEAN, UNCHANGED <<clock, nextLease>>
    PROVE  StepOK
  <1>1. \A w \in Workspaces : SlotStep(slot[w], Burnt(slot[w])) /\ Dead(Burnt(slot[w]))
    BY SlotGood, BurntStep
  <1>2. slot' = [w \in Workspaces |-> Burnt(slot[w])] /\ pending' = {}
    BY DEF BurnAll
  <1>3. \A w \in Workspaces : slot'[w] = Burnt(slot[w])
    BY <1>2
  <1>4. slot' \in [Workspaces -> Slot]
    BY <1>1, <1>2 DEF SlotStep
  <1>5. \A w \in Workspaces : Consistent(slot'[w]) /\ KeepsLease(w, slot[w], slot'[w])
                              /\ Dead(slot'[w])
    BY <1>1, <1>3 DEF SlotStep, KeepsLease
  <1> QED BY <1>2, <1>4, <1>5 DEF StepOK, IInv, TypeOK

LEMMA QuietOK ==
    ASSUME IInv, UNCHANGED <<nextLease, pending, slot, shutdown>>, clock' \in Nat
    PROVE  StepOK
  <1>1. slot' = [v \in Workspaces |-> slot[v]]
    BY DEF IInv, TypeOK
  <1>2. \A v \in Workspaces : Allowed(v, slot[v])
    BY SlotGood, SameStep, SlotStepAllowed
  <1> QED BY <1>1, <1>2, AllSlots DEF IInv, TypeOK, ShutdownIsFinal

-----------------------------------------------------------------------------
(* Every step but the Runtime's own leaves the PTYs and the proofs of      *)
(* closure alone and keeps the authority's state in order.                 *)
LEMMA AuthorityStep ==
    ASSUME IInv, Next
    PROVE  StepOK /\ (\/ UNCHANGED <<pty, closed>>
                      \/ \E w \in Workspaces : OpenPty(w) \/ ClosePty(w))
  <1>1. CASE Tick
    BY <1>1, QuietOK DEF Tick, IInv, TypeOK
  <1>2. CASE Sweep
    BY <1>2, SweepOK DEF Sweep
  <1>3. CASE InvalidateAll \/ BeginShutdown
    BY <1>3, BurnAllOK, ZenonT(30) DEF InvalidateAll, BeginShutdown, IInv, TypeOK
  <1>4. CASE \E w \in Workspaces, c \in AnyContext : Issue(w, c) \/ IssueInvalid(w, c)
    BY <1>4, IssueOK DEF Issue, IssueInvalid
  <1>5. CASE \E k \in pending : \/ ReserveRefused(k) \/ Consume(k)
                                \/ \E started \in 0 .. clock : Reserve(k, started)
    BY <1>5, ReserveRefusedOK, ConsumeOK, ReserveOK, ZenonT(30) DEF ReserveRefused, Consume,
       Reserve
  <1>6. CASE \E w \in Workspaces : CheckReserved(w) \/ Fence(w) \/ AcknowledgeStagedCleanup(w)
    BY <1>6, CheckReservedOK, FenceOK, AcknowledgeStagedCleanupOK
       DEF CheckReserved, Fence, AcknowledgeStagedCleanup, OnlySlot
  <1>7. CASE \E w \in Workspaces : \/ Heartbeat(w) \/ IsActive(w)
                                   \/ Detach(w) \/ AcknowledgeCleanup(w)
    BY <1>7, HeartbeatOK, IsActiveOK, DetachOK, AcknowledgeCleanupOK
       DEF Heartbeat, IsActive, Detach, AcknowledgeCleanup, OnlySlot
  <1>8. CASE \E w \in Workspaces : \E b \in BOOLEAN :
                \/ Advance(w, b) \/ \E later \in clock .. MaxTime : Activate(w, b, later)
    BY <1>8, AdvanceOK, ActivateOK DEF Advance, Activate, OnlySlot
  <1>9. CASE \E w \in Workspaces : OpenPty(w) \/ ClosePty(w)
    BY <1>9, QuietOK, ZenonT(30) DEF OpenPty, ClosePty, IInv, TypeOK
  <1>10. CASE \E sess \in Sessions : RevokeSession(sess)
    BY <1>10, RevokeSessionOK DEF RevokeSession
  <1> QED BY <1>1, <1>2, <1>3, <1>4, <1>5, <1>6, <1>7, <1>8, <1>9, <1>10 DEF Next

(* The Runtime opens only the PTY of the lease in the slot, and not after  *)
(* it proved that one closed.                                              *)
LEMMA PtyStep ==
    ASSUME IInv, NEW w \in Workspaces, OpenPty(w) \/ ClosePty(w)
    PROVE  /\ pty' \in SUBSET (Workspaces \X Nat) /\ closed' \in SUBSET (Workspaces \X Nat)
           /\ OpenPtyHoldsSlot' /\ Disjoint'
  <1> DEFINE n == slot[w].staged.lease
  <1>1. slot[w] \in Slot /\ Consistent(slot[w])
    BY SlotGood
  <1>2. n \in Nat /\ n # 0
    BY <1>1, AdmittingIsStaged DEF OpenPty, ClosePty, Slot, Staged, HasStaged
  <1>3. <<w, n>> \in Workspaces \X Nat
    BY <1>2
  <1>4. CASE OpenPty(w)
    BY <1>2, <1>3, <1>4 DEF OpenPty, IInv, TypeOK, OpenPtyHoldsSlot, Disjoint
  <1>5. CASE ClosePty(w)
    BY <1>3, <1>5 DEF ClosePty, IInv, TypeOK, OpenPtyHoldsSlot, Disjoint
  <1> QED BY <1>4, <1>5

LEMMA InitInv == Init => IInv
  <1> SUFFICES ASSUME Init PROVE IInv
    OBVIOUS
  <1>1. EmptySlot \in Slot /\ Consistent(EmptySlot)
    BY DEF EmptySlot, NoActive, NoStaged, NoOwed, Slot, Active, Staged, Owed, AnyContext,
           Consistent, HasActive, HasStaged, HasCleanup
  <1>2. \A w \in Workspaces : slot[w] = EmptySlot
    BY DEF Init
  <1>3. nextLease \in Nat \ {0}
    BY AuthorityAssumption DEF Init
  <1>4. slot \in [Workspaces -> Slot]
    BY <1>1 DEF Init
  <1>5. clock \in Nat /\ shutdown \in BOOLEAN
    BY ZenonT(30) DEF Init
  <1>6. TypeOK
    BY <1>3, <1>4, <1>5 DEF Init, TypeOK
  <1> QED BY <1>1, <1>2, <1>6 DEF Init, IInv, SlotsConsistent, OpenPtyHoldsSlot, Disjoint,
             ShutdownIsFinal

LEMMA NextInv == IInv /\ [Next]_vars => IInv'
  <1> SUFFICES ASSUME IInv, [Next]_vars PROVE IInv'
    OBVIOUS
  <1>1. CASE UNCHANGED vars
    BY <1>1 DEF vars, IInv, TypeOK, SlotsConsistent, OpenPtyHoldsSlot, Disjoint,
       ShutdownIsFinal,
                Consistent, HasActive, HasStaged, HasCleanup
  <1>2. CASE Next
    <2>1. StepOK
      BY <1>2, AuthorityStep
    <2>2. SlotsConsistent'
      BY <2>1 DEF StepOK, SlotsConsistent, Consistent, HasActive, HasStaged, HasCleanup
    <2>3. ShutdownIsFinal'
      BY <2>1 DEF StepOK, ShutdownIsFinal, Dead, HasActive
    <2>4. CASE UNCHANGED <<pty, closed>>
      <3>1. OpenPtyHoldsSlot'
        <4> SUFFICES ASSUME NEW x \in pty PROVE slot'[x[1]].staged.lease = x[2] /\ x[2] # 0
          BY <2>4 DEF OpenPtyHoldsSlot
        <4>1. x[1] \in Workspaces /\ x = <<x[1], x[2]>>
          BY DEF IInv, TypeOK
        <4>2. slot[x[1]].staged.lease = x[2] /\ x[2] # 0 /\ x \notin closed
          BY DEF IInv, OpenPtyHoldsSlot, Disjoint
        <4>3. KeepsLease(x[1], slot[x[1]], slot'[x[1]])
          BY <2>1, <4>1 DEF StepOK
        <4> QED BY <4>1, <4>2, <4>3 DEF KeepsLease
      <3> QED BY <2>1, <2>2, <2>3, <2>4, <3>1 DEF IInv, TypeOK, StepOK, Disjoint
    <2>5. CASE \E w \in Workspaces : OpenPty(w) \/ ClosePty(w)
      BY <2>1, <2>2, <2>3, <2>5, PtyStep DEF IInv, TypeOK, StepOK
    <2> QED BY <1>2, <2>4, <2>5, AuthorityStep
  <1> QED BY <1>1, <1>2

(* The inductive invariant holds in every reachable state of the           *)
(* authority.                                                              *)
THEOREM Invariance == Spec => []IInv
  BY InitInv, NextInv, PTL DEF Spec

(* Every record of the authority keeps its shape.                          *)
THEOREM TypeCorrect == Spec => []TypeOK
  <1>1. IInv => TypeOK
    BY DEF IInv
  <1> QED BY <1>1, Invariance, PTL

(* The three dictionaries _active, _staged and _cleanup_pending agree.     *)
THEOREM SlotsStayConsistent == Spec => []SlotsConsistent
  <1>1. IInv => SlotsConsistent
    BY DEF IInv
  <1> QED BY <1>1, Invariance, PTL

(* A workspace whose PTY may be open is held by the lease of that PTY.     *)
THEOREM OpenPtyIsHeld == Spec => []OpenPtyHoldsSlot
  <1>1. IInv => OpenPtyHoldsSlot
    BY DEF IInv
  <1> QED BY <1>1, Invariance, PTL

(* begin_shutdown leaves nothing usable, for ever.                         *)
THEOREM ShutdownStaysFinal == Spec => []ShutdownIsFinal
  <1>1. IInv => ShutdownIsFinal
    BY DEF IInv
  <1> QED BY <1>1, Invariance, PTL

(* A staged slot is released only on the Runtime's proof of closure.       *)
THEOREM ReleaseIsProved == Spec => ReleaseNeedsProof
  <1> DEFINE P == \A w \in Workspaces :
                    HasStaged(slot[w]) /\ slot'[w].staged.lease # slot[w].staged.lease
                        => <<w, slot[w].staged.lease>> \in closed
  <1>1. IInv /\ [Next]_vars => [P]_vars
    <2> SUFFICES ASSUME IInv, Next PROVE P
      OBVIOUS
    <2> QED BY AuthorityStep DEF StepOK, KeepsLease, HasStaged
  <1>2. ReleaseNeedsProof <=> [][P]_vars
    BY DEF ReleaseNeedsProof
  <1> QED BY <1>1, <1>2, Invariance, PTL DEF Spec
-----------------------------------------------------------------------------
(***************************************************************************)
(* The time bounds of the leases of AttachmentAuthority, for every clock   *)
(* and every capacity.  The expiry of a lease is computed by reserve,      *)
(* waits in the staged record through the admission and is renewed by      *)
(* heartbeats, so the bound is carried by both records.                    *)
(***************************************************************************)
Timed(s) ==
    /\ s.active.expires <= s.active.absolute
    /\ s.staged.expires <= s.staged.absolute

LeasesTimed == \A w \in Workspaces : Timed(slot[w])

(* What a step that rewrites s to t may do to the active lease: keep it    *)
(* with its bound, end it, or start one on a workspace that had none and   *)
(* owed nothing.                                                           *)
LeaseStep(s, t) ==
    /\ Timed(t)
    /\ HasActive(t) =>
          \/ HasActive(s) /\ t.active.lease = s.active.lease
                          /\ t.active.absolute = s.active.absolute
          \/ ~HasActive(s) /\ ~HasCleanup(s)

LEMMA SameLease ==
    ASSUME NEW s \in Slot, Timed(s)
    PROVE  LeaseStep(s, s)
  BY DEF LeaseStep

(* fence and the end of an active lease leave no active lease.             *)
LEMMA FencedLease ==
    ASSUME NEW s \in Slot, Timed(s)
    PROVE  LeaseStep(s, Fenced(s))
  <1>1. Fenced(s).active = NoActive
        /\ Fenced(s).staged.expires = s.staged.expires
        /\ Fenced(s).staged.absolute = s.staged.absolute
    BY DEF Fenced, Slot, Staged
  <1> QED BY <1>1 DEF LeaseStep, Timed, NoActive, HasActive

LEMMA RetiredLease ==
    ASSUME NEW s \in Slot, Timed(s)
    PROVE  LeaseStep(s, Owing(s)) /\ LeaseStep(s, Retired(s))
  <1>1. Owing(s).active = NoActive /\ Owing(s).staged = s.staged
    BY DEF Owing
  <1>2. LeaseStep(s, Owing(s))
    BY <1>1 DEF LeaseStep, Timed, NoActive, HasActive
  <1> QED BY <1>2, FencedLease DEF Retired

LEMMA HelperLease ==
    ASSUME NEW s \in Slot, Timed(s), NEW now, NEW sess
    PROVE  /\ LeaseStep(s, Swept(s, now)) /\ LeaseStep(s, Burnt(s))
           /\ LeaseStep(s, Revoked(s, sess)) /\ LeaseStep(s, CheckFailed(s))
  BY SameLease, FencedLease, RetiredLease DEF Swept, Burnt, Revoked, CheckFailed

LEMMA SlotTimed ==
    ASSUME IInv, LeasesTimed, NEW w \in Workspaces
    PROVE  slot[w] \in Slot /\ Consistent(slot[w]) /\ Timed(slot[w])
  BY SlotGood DEF LeasesTimed

-----------------------------------------------------------------------------
AllSteps == \A w \in Workspaces : LeaseStep(slot[w], slot'[w])

(* An action that rewrites one workspace.                                  *)
LEMMA OneLease ==
    ASSUME IInv, LeasesTimed, NEW v \in Workspaces, NEW t, LeaseStep(slot[v], t),
           slot' = [slot EXCEPT ![v] = t]
    PROVE  AllSteps
  <1> SUFFICES ASSUME NEW w \in Workspaces PROVE LeaseStep(slot[w], slot'[w])
    BY DEF AllSteps
  <1>1. slot'[v] = t /\ (w # v => slot'[w] = slot[w])
    BY DEF IInv, TypeOK
  <1>2. LeaseStep(slot[w], slot[w])
    BY SlotTimed, SameLease
  <1> QED BY <1>1, <1>2

LEMMA QuietLease ==
    ASSUME IInv, LeasesTimed, UNCHANGED slot
    PROVE  AllSteps
  BY SlotTimed, SameLease DEF AllSteps

LEMMA SweptLease ==
    ASSUME IInv, LeasesTimed, slot' = SweptSlots(clock)
    PROVE  AllSteps
  <1>1. \A w \in Workspaces : slot'[w] = Swept(slot[w], clock)
    BY DEF SweptSlots
  <1> QED BY <1>1, SlotTimed, HelperLease DEF AllSteps

(* The staged record takes the bounds of the lease when it is reserved.    *)
LEMMA ReserveLease ==
    ASSUME IInv, LeasesTimed, NEW k \in pending, NEW started \in 0 .. clock,
           Reserve(k, started)
    PROVE  AllSteps
  <1> DEFINE ss == SweptSlots(clock)
             until == IF started + AdmissionWindow < k.expires
                      THEN started + AdmissionWindow ELSE k.expires
             new == [lease |-> k.lease, ctx |-> k.ctx, stage |-> "RESERVED",
                     deadline |-> until, expires |-> clock + LeaseTtl,
                     absolute |-> clock + AbsoluteLease]
             t == [ss[k.ws] EXCEPT !.staged = new]
  <1>1. k.ws \in Workspaces /\ clock \in Nat
    BY DEF IInv, TypeOK, Ticket
  <1>2. CASE slot' = ss
    BY <1>2, SweptLease
  <1>3. CASE slot' = [ss EXCEPT ![k.ws] = t]
    <2>1. \A w \in Workspaces : ss[w] = Swept(slot[w], clock) /\ ss[w] \in Slot
                                /\ LeaseStep(slot[w], ss[w])
      BY SlotTimed, HelperLease, SweptAllowed DEF SweptSlots, Allowed
    <2>2. t.staged = new /\ t.active = ss[k.ws].active
      BY <1>1, <2>1 DEF Slot
    <2>3. clock + LeaseTtl <= clock + AbsoluteLease
      BY <1>1, AuthorityAssumption
    <2>4. LeaseStep(slot[k.ws], t)
      BY <1>1, <2>1, <2>2, <2>3 DEF LeaseStep, Timed, HasActive
    <2>5. slot'[k.ws] = t /\ \A w \in Workspaces \ {k.ws} : slot'[w] = ss[w]
      BY <1>1, <1>3 DEF SweptSlots
    <2> QED BY <2>1, <2>4, <2>5 DEF AllSteps
  <1> QED BY <1>2, <1>3 DEF Reserve

LEMMA ConsumeLease ==
    ASSUME IInv, LeasesTimed, NEW k \in pending, Consume(k)
    PROVE  AllSteps
  <1> DEFINE s == slot[k.ws]
             new == [lease |-> k.lease, ctx |-> k.ctx, expires |-> clock + LeaseTtl,
                     absolute |-> clock + AbsoluteLease]
             t == [s EXCEPT !.active = new]
  <1>1. k.ws \in Workspaces /\ clock \in Nat
    BY DEF IInv, TypeOK, Ticket
  <1>2. s \in Slot /\ Timed(s)
    BY <1>1, SlotTimed
  <1>3. ~Busy(s) => LeaseStep(s, t)
    <2>1. t.active = new /\ t.staged = s.staged
      BY <1>2 DEF Slot
    <2>2. clock + LeaseTtl <= clock + AbsoluteLease
      BY <1>1, AuthorityAssumption
    <2> QED BY <1>2, <2>1, <2>2 DEF LeaseStep, Timed, Busy
  <1>4. CASE slot' = [slot EXCEPT ![k.ws] = Retired(s)]
    BY <1>1, <1>2, <1>4, RetiredLease, OneLease, ZenonT(30)
  <1>5. CASE ~Busy(s) /\ slot' = [slot EXCEPT ![k.ws] = t]
    BY <1>1, <1>3, <1>5, OneLease, ZenonT(30)
  <1>6. CASE slot' = slot
    BY <1>6, QuietLease
  <1> QED BY <1>4, <1>5, <1>6 DEF Consume

(* An admission in progress has no active lease and owes nothing.          *)
LEMMA AdvanceLease ==
    ASSUME IInv, LeasesTimed, NEW w \in Workspaces, NEW b \in BOOLEAN, Advance(w, b)
    PROVE  AllSteps
  <1> DEFINE s == slot[w]
             t == [s EXCEPT !.staged.stage = NextStage(s.staged.stage)]
  <1>1. s \in Slot /\ Timed(s)
    BY SlotTimed
  <1>2. LeaseStep(s, t)
    <2>1. t.active = s.active /\ t.staged.expires = s.staged.expires
          /\ t.staged.absolute = s.staged.absolute
      BY <1>1 DEF Slot, Staged
    <2> QED BY <1>1, <2>1 DEF LeaseStep, Timed, HasActive
  <1>3. \E r : LeaseStep(s, r) /\ slot' = [slot EXCEPT ![w] = r]
    BY <1>1, <1>2, HelperLease, FencedLease, ZenonT(30) DEF Advance, SetSlot
  <1> QED BY <1>3, OneLease, ZenonT(30)

LEMMA ActivateLease ==
    ASSUME IInv, LeasesTimed, NEW w \in Workspaces, NEW b \in BOOLEAN,
           NEW later \in clock .. MaxTime, Activate(w, b, later)
    PROVE  AllSteps
  <1> DEFINE s == slot[w]
  <1>1. s \in Slot /\ Consistent(s) /\ Timed(s) /\ HasStaged(s)
    BY SlotTimed DEF Activate
  <1>2. CheckPasses(s, clock) => LeaseStep(s, Activated(s))
    <2> SUFFICES ASSUME CheckPasses(s, clock) PROVE LeaseStep(s, Activated(s))
      OBVIOUS
    <2>1. ~HasActive(s) /\ ~HasCleanup(s)
      BY <1>1 DEF CheckPasses, Consistent, Admitting
    <2>2. Activated(s).active.expires = s.staged.expires
          /\ Activated(s).active.absolute = s.staged.absolute
          /\ Activated(s).staged.expires = s.staged.expires
          /\ Activated(s).staged.absolute = s.staged.absolute
      BY <1>1 DEF Activated, Slot, Staged
    <2> QED BY <1>1, <2>1, <2>2 DEF LeaseStep, Timed
  <1>3. \E r : LeaseStep(s, r) /\ slot' = [slot EXCEPT ![w] = r]
    BY <1>1, <1>2, HelperLease, FencedLease, ZenonT(30) DEF Activate, SetSlot
  <1> QED BY <1>3, OneLease, ZenonT(30)

(* A heartbeat renews the expiry up to the absolute bound and no further.  *)
LEMMA HeartbeatLease ==
    ASSUME IInv, LeasesTimed, NEW w \in Workspaces, Heartbeat(w)
    PROVE  AllSteps
  <1> DEFINE s == slot[w]
             e == Min2(clock + LeaseTtl, s.active.absolute)
             t == [s EXCEPT !.active.expires = e]
  <1>1. s \in Slot /\ Timed(s) /\ HasActive(s)
    BY SlotTimed DEF Heartbeat
  <1>2. e <= s.active.absolute
    BY <1>1, AuthorityAssumption DEF Min2, Slot, Active, IInv, TypeOK
  <1>3. t.active.lease = s.active.lease /\ t.active.absolute = s.active.absolute
        /\ t.active.expires = e /\ t.staged = s.staged
    BY <1>1 DEF Slot, Active
  <1>4. LeaseStep(s, t)
    BY <1>1, <1>2, <1>3 DEF LeaseStep, Timed
  <1>5. \E r : LeaseStep(s, r) /\ slot' = [slot EXCEPT ![w] = r]
    BY <1>1, <1>4, RetiredLease, ZenonT(30) DEF Heartbeat, SetSlot
  <1> QED BY <1>5, OneLease, ZenonT(30)

(* The other actions on one workspace end a lease or leave it alone.       *)
LEMMA EndLease ==
    ASSUME IInv, LeasesTimed, NEW w \in Workspaces,
           \/ CheckReserved(w) \/ Fence(w) \/ AcknowledgeStagedCleanup(w)
           \/ IsActive(w) \/ Detach(w) \/ AcknowledgeCleanup(w)
    PROVE  AllSteps
  <1> DEFINE s == slot[w]
             released == [active |-> s.active, staged |-> NoStaged, cleanup |-> NoOwed]
             ended == [s EXCEPT !.active = NoActive]
             settled == [s EXCEPT !.cleanup = NoOwed]
  <1>1. s \in Slot /\ Timed(s)
    BY SlotTimed
  <1>2. LeaseStep(s, released)
    BY <1>1 DEF LeaseStep, Timed, NoStaged, HasActive
  <1>3. LeaseStep(s, ended)
    <2>1. ended.active = NoActive /\ ended.staged = s.staged
      BY <1>1 DEF Slot
    <2> QED BY <1>1, <2>1 DEF LeaseStep, Timed, NoActive, HasActive
  <1>4. LeaseStep(s, settled)
    <2>1. settled.active = s.active /\ settled.staged = s.staged
      BY <1>1 DEF Slot
    <2> QED BY <1>1, <2>1 DEF LeaseStep, Timed, HasActive
  <1>5. \E r : LeaseStep(s, r) /\ slot' = [slot EXCEPT ![w] = r]
    BY <1>1, <1>2, <1>3, <1>4, HelperLease, FencedLease, RetiredLease
       DEF CheckReserved, Fence, AcknowledgeStagedCleanup, IsActive, Detach,
           AcknowledgeCleanup, SetSlot
  <1> QED BY <1>5, OneLease, ZenonT(30)

LEMMA AllLeases ==
    ASSUME IInv, LeasesTimed,
           BurnAll \/ \E sess \in Sessions : RevokeSession(sess)
    PROVE  AllSteps
  <1>1. CASE BurnAll
    <2>1. \A w \in Workspaces : slot'[w] = Burnt(slot[w])
      BY <1>1 DEF BurnAll
    <2> QED BY <2>1, SlotTimed, HelperLease DEF AllSteps
  <1>2. ASSUME NEW sess \in Sessions, RevokeSession(sess) PROVE AllSteps
    <2>1. \A w \in Workspaces : slot'[w] = Revoked(slot[w], sess)
      BY <1>2 DEF RevokeSession
    <2> QED BY <2>1, SlotTimed, HelperLease DEF AllSteps
  <1> QED BY <1>1, <1>2

-----------------------------------------------------------------------------
LEMMA NextLease == ASSUME IInv, LeasesTimed, Next PROVE AllSteps
  <1>1. CASE Tick
    BY <1>1, QuietLease DEF Tick
  <1>2. CASE Sweep
    BY <1>2, SweptLease DEF Sweep
  <1>3. CASE InvalidateAll \/ BeginShutdown
    BY <1>3, AllLeases DEF InvalidateAll, BeginShutdown
  <1>4. CASE \E w \in Workspaces, c \in AnyContext : Issue(w, c) \/ IssueInvalid(w, c)
    BY <1>4, SweptLease DEF Issue, IssueInvalid
  <1>5. CASE \E k \in pending : \/ ReserveRefused(k) \/ Consume(k)
                                \/ \E started \in 0 .. clock : Reserve(k, started)
    BY <1>5, QuietLease, ConsumeLease, ReserveLease DEF ReserveRefused
  <1>6. CASE \E w \in Workspaces : \/ CheckReserved(w) \/ Fence(w)
                                   \/ AcknowledgeStagedCleanup(w) \/ IsActive(w)
                                   \/ Detach(w) \/ AcknowledgeCleanup(w)
    BY <1>6, EndLease
  <1>7. CASE \E w \in Workspaces : Heartbeat(w)
    BY <1>7, HeartbeatLease
  <1>8. CASE \E w \in Workspaces : \E b \in BOOLEAN :
                \/ Advance(w, b) \/ \E later \in clock .. MaxTime : Activate(w, b, later)
    BY <1>8, AdvanceLease, ActivateLease
  <1>9. CASE \E w \in Workspaces : OpenPty(w) \/ ClosePty(w)
    BY <1>9, QuietLease DEF OpenPty, ClosePty
  <1>10. CASE \E sess \in Sessions : RevokeSession(sess)
    BY <1>10, AllLeases
  <1> QED BY <1>1, <1>2, <1>3, <1>4, <1>5, <1>6, <1>7, <1>8, <1>9, <1>10 DEF Next

LEMMA InitTimed == Init => LeasesTimed
  BY DEF Init, LeasesTimed, Timed, EmptySlot, NoActive, NoStaged

LEMMA NextTimed == IInv /\ LeasesTimed /\ [Next]_vars => LeasesTimed'
  <1> SUFFICES ASSUME IInv, LeasesTimed, [Next]_vars PROVE LeasesTimed'
    OBVIOUS
  <1>1. AllSteps
    BY NextLease, QuietLease DEF vars
  <1> QED BY <1>1 DEF AllSteps, LeaseStep, LeasesTimed, Timed

(* No lease outlives its absolute bound, whatever sequence of heartbeats   *)
(* renews it, and one whose cleanup is owed never becomes active again.    *)
THEOREM LeasesAreBounded == Spec => LeaseIsBounded
  <1> DEFINE P == \A w \in Workspaces :
          /\ HasActive(slot'[w]) => slot'[w].active.expires <= slot'[w].active.absolute
          /\ HasActive(slot[w]) /\ slot'[w].active.lease = slot[w].active.lease
                => slot'[w].active.absolute = slot[w].active.absolute
          /\ HasCleanup(slot[w]) => slot'[w].active.lease # slot[w].cleanup.lease
  <1>1. IInv /\ LeasesTimed /\ [Next]_vars => [P]_vars
    <2> SUFFICES ASSUME IInv, LeasesTimed, Next PROVE P
      OBVIOUS
    <2> SUFFICES ASSUME NEW w \in Workspaces
                 PROVE  /\ HasActive(slot'[w]) =>
                              slot'[w].active.expires <= slot'[w].active.absolute
                        /\ HasActive(slot[w]) /\ slot'[w].active.lease = slot[w].active.lease
                              => slot'[w].active.absolute = slot[w].active.absolute
                        /\ HasCleanup(slot[w]) => slot'[w].active.lease # slot[w].cleanup.lease
      OBVIOUS
    <2>1. LeaseStep(slot[w], slot'[w]) /\ Consistent(slot[w])
      BY NextLease, SlotTimed DEF AllSteps
    <2> QED BY <2>1 DEF LeaseStep, Timed, Consistent, HasActive, HasCleanup
  <1>2. LeaseIsBounded <=> [][P]_vars
    BY DEF LeaseIsBounded
  <1>3. Spec => []LeasesTimed
    BY InitTimed, NextTimed, Invariance, PTL DEF Spec
  <1> QED BY <1>1, <1>2, <1>3, Invariance, PTL DEF Spec

-----------------------------------------------------------------------------
(* The capacities, for every set of workspaces and every limit.  The       *)
(* records of a workspace count as one writer, charged to one context; a   *)
(* step other than the issue of a ticket never adds to what is charged:    *)
(* reserve and consume turn a ticket into a writer of the same context.    *)

(* The context a busy workspace is charged to.                             *)
Payer(s) == IF HasActive(s) THEN s.active.ctx
            ELSE IF HasCleanup(s) THEN s.cleanup.ctx ELSE s.staged.ctx

Good(ss) == \A w \in Workspaces : ss[w] \in Slot /\ Consistent(ss[w])
Held(ss, u) == {w \in Workspaces : Busy(ss[w]) /\ IsUser(Payer(ss[w]), u)}
Tickets(p, u) == {k \in p : IsUser(k.ctx, u)}
Finite(p, ss) == IsFiniteSet(p) /\ IsFiniteSet(Writers(ss))

(* The three sets _admin_count adds up are disjoint, and together they are *)
(* the workspaces charged to the administrator.                            *)
LEMMA AdminCountIs ==
    ASSUME NEW p, NEW ss, NEW u, Good(ss), Finite(p, ss)
    PROVE  /\ IsFiniteSet(Tickets(p, u)) /\ IsFiniteSet(Held(ss, u))
           /\ Cardinality(Tickets(p, u)) \in Nat /\ Cardinality(Held(ss, u)) \in Nat
           /\ AdminCount(p, ss, u) = Cardinality(Tickets(p, u)) + Cardinality(Held(ss, u))
  <1> DEFINE A == {w \in Workspaces : HasActive(ss[w]) /\ IsUser(ss[w].active.ctx, u)}
             C == {w \in Workspaces : HasCleanup(ss[w]) /\ IsUser(ss[w].cleanup.ctx, u)}
             S == {w \in Workspaces : /\ HasStaged(ss[w]) /\ IsUser(ss[w].staged.ctx, u)
                                      /\ ~HasActive(ss[w]) /\ ~HasCleanup(ss[w])}
  <1>1. A \subseteq Writers(ss) /\ C \subseteq Writers(ss) /\ S \subseteq Writers(ss)
        /\ Held(ss, u) \subseteq Writers(ss) /\ Tickets(p, u) \subseteq p
    BY ZenonT(30) DEF Writers, Busy, Held, Tickets
  <1>2. IsFiniteSet(A) /\ IsFiniteSet(C) /\ IsFiniteSet(S)
        /\ IsFiniteSet(Held(ss, u)) /\ IsFiniteSet(Tickets(p, u))
    BY <1>1, FS_Subset DEF Finite
  <1>3. A \cap C = {} /\ (A \cup C) \cap S = {}
    BY DEF Good, Consistent
  <1>4. (A \cup C) \cup S = Held(ss, u)
    <2> SUFFICES ASSUME NEW w \in Workspaces
                 PROVE  w \in (A \cup C) \cup S <=> w \in Held(ss, u)
      BY DEF Held
    <2> QED BY DEF Good, Consistent, Held, Busy, Payer
  <1>5. AdminCount(p, ss, u)
           = Cardinality(Tickets(p, u)) + Cardinality(A) + Cardinality(C) + Cardinality(S)
    BY DEF AdminCount, Tickets
  <1> HIDE DEF A, C, S
  <1>6. Cardinality(A \cup C) = Cardinality(A) + Cardinality(C) /\ IsFiniteSet(A \cup C)
    <2>1. Cardinality(A \cup C) = Cardinality(A) + Cardinality(C) - Cardinality(A \cap C)
          /\ IsFiniteSet(A \cup C)
      BY <1>2, FS_Union
    <2>2. Cardinality(A) \in Nat /\ Cardinality(C) \in Nat /\ Cardinality(A \cap C) = 0
      BY <1>2, <1>3, FS_CardinalityType, FS_EmptySet, ZenonT(30)
    <2> QED BY <2>1, <2>2
  <1>7. Cardinality(Held(ss, u)) = Cardinality(A \cup C) + Cardinality(S)
    <2>1. Cardinality((A \cup C) \cup S)
             = Cardinality(A \cup C) + Cardinality(S) - Cardinality((A \cup C) \cap S)
      BY <1>2, <1>6, FS_Union
    <2>2. Cardinality(A \cup C) \in Nat /\ Cardinality(S) \in Nat
          /\ Cardinality((A \cup C) \cap S) = 0
      BY <1>2, <1>3, <1>6, FS_CardinalityType, FS_EmptySet, ZenonT(30)
    <2>3. Cardinality(Held(ss, u)) = Cardinality((A \cup C) \cup S)
      BY <1>4, ZenonT(30)
    <2> QED BY <2>1, <2>2, <2>3
  <1>8. /\ Cardinality(A) \in Nat /\ Cardinality(C) \in Nat /\ Cardinality(S) \in Nat
        /\ Cardinality(Tickets(p, u)) \in Nat /\ Cardinality(Held(ss, u)) \in Nat
    BY <1>2, FS_CardinalityType
  <1> QED BY <1>2, <1>5, <1>6, <1>7, <1>8

-----------------------------------------------------------------------------
(* Records may go, and change their state under the same context.          *)
Keeps(s, t) == Busy(t) => Busy(s) /\ Payer(t) = Payer(s)

LEMMA Shrink ==
    ASSUME NEW p, NEW q \in SUBSET p, NEW ss, NEW tt, Good(ss), Good(tt), Finite(p, ss),
           \A w \in Workspaces : Keeps(ss[w], tt[w])
    PROVE  /\ Finite(q, tt)
           /\ RecordCount(q, tt) <= RecordCount(p, ss)
           /\ Cardinality(Writers(tt)) <= Cardinality(Writers(ss))
           /\ \A u : AdminCount(q, tt, u) <= AdminCount(p, ss, u)
  <1>1. Writers(tt) \subseteq Writers(ss)
    BY DEF Writers, Keeps
  <1>2. /\ Finite(q, tt)
        /\ Cardinality(q) <= Cardinality(p)
        /\ Cardinality(Writers(tt)) <= Cardinality(Writers(ss))
    BY <1>1, FS_Subset DEF Finite
  <1>3. /\ Cardinality(q) \in Nat /\ Cardinality(p) \in Nat
        /\ Cardinality(Writers(tt)) \in Nat /\ Cardinality(Writers(ss)) \in Nat
    BY <1>2, FS_CardinalityType DEF Finite
  <1>4. RecordCount(q, tt) <= RecordCount(p, ss)
    BY <1>2, <1>3 DEF RecordCount
  <1>5. ASSUME NEW u PROVE AdminCount(q, tt, u) <= AdminCount(p, ss, u)
    <2>1. Tickets(q, u) \subseteq Tickets(p, u) /\ Held(tt, u) \subseteq Held(ss, u)
      BY DEF Tickets, Held, Keeps
    <2>2. IsFiniteSet(Tickets(p, u)) /\ IsFiniteSet(Held(ss, u))
      BY AdminCountIs
    <2>3. /\ Cardinality(Tickets(q, u)) <= Cardinality(Tickets(p, u))
          /\ Cardinality(Held(tt, u)) <= Cardinality(Held(ss, u))
      BY <2>1, <2>2, FS_Subset
    <2>4. /\ Cardinality(Tickets(p, u)) \in Nat /\ Cardinality(Held(ss, u)) \in Nat
          /\ AdminCount(p, ss, u) = Cardinality(Tickets(p, u)) + Cardinality(Held(ss, u))
      BY AdminCountIs
    <2>5. /\ Cardinality(Tickets(q, u)) \in Nat /\ Cardinality(Held(tt, u)) \in Nat
          /\ AdminCount(q, tt, u) = Cardinality(Tickets(q, u)) + Cardinality(Held(tt, u))
      BY <1>2, AdminCountIs
    <2> QED BY <2>3, <2>4, <2>5
  <1> QED BY <1>2, <1>4, <1>5

(* A ticket becomes the record of a free workspace.                        *)
LEMMA Move ==
    ASSUME NEW p, NEW k \in p, NEW q \in SUBSET (p \ {k}), NEW ss, NEW tt,
           Good(ss), Good(tt), Finite(p, ss),
           NEW v \in Workspaces, ~Busy(ss[v]), Busy(tt[v]), Payer(tt[v]) = k.ctx,
           \A w \in Workspaces \ {v} : tt[w] = ss[w]
    PROVE  /\ Finite(q, tt)
           /\ RecordCount(q, tt) <= RecordCount(p, ss)
           /\ Cardinality(Writers(tt)) = Cardinality(Writers(ss)) + 1
           /\ \A u : AdminCount(q, tt, u) <= AdminCount(p, ss, u)
  <1> DEFINE r == p \ {k}
  <1>1. Writers(tt) = Writers(ss) \cup {v} /\ v \notin Writers(ss)
    BY DEF Writers
  <1>2. /\ IsFiniteSet(Writers(tt))
        /\ Cardinality(Writers(tt)) = Cardinality(Writers(ss)) + 1
    BY <1>1, FS_AddElement DEF Finite
  <1>3. IsFiniteSet(r) /\ Cardinality(r) = Cardinality(p) - 1
    BY FS_RemoveElement DEF Finite
  <1>4. IsFiniteSet(q) /\ Cardinality(q) <= Cardinality(r)
    BY <1>3, FS_Subset
  <1>5. /\ Cardinality(q) \in Nat /\ Cardinality(p) \in Nat
        /\ Cardinality(Writers(ss)) \in Nat
    BY <1>4, FS_CardinalityType DEF Finite
  <1>6. RecordCount(q, tt) <= RecordCount(p, ss)
    BY <1>2, <1>3, <1>4, <1>5 DEF RecordCount
  <1>7. ASSUME NEW u PROVE AdminCount(q, tt, u) <= AdminCount(p, ss, u)
    <2>1. /\ IsFiniteSet(Tickets(p, u)) /\ IsFiniteSet(Held(ss, u))
          /\ Cardinality(Tickets(p, u)) \in Nat /\ Cardinality(Held(ss, u)) \in Nat
          /\ AdminCount(p, ss, u) = Cardinality(Tickets(p, u)) + Cardinality(Held(ss, u))
      BY AdminCountIs
    <2>2. /\ Cardinality(Tickets(q, u)) \in Nat /\ Cardinality(Held(tt, u)) \in Nat
          /\ AdminCount(q, tt, u) = Cardinality(Tickets(q, u)) + Cardinality(Held(tt, u))
      BY <1>2, <1>4, AdminCountIs DEF Finite
    <2>3. CASE IsUser(k.ctx, u)
      <3>1. k \in Tickets(p, u) /\ Tickets(q, u) \subseteq Tickets(p, u) \ {k}
        BY <2>3 DEF Tickets
      <3>2. IsFiniteSet(Tickets(p, u) \ {k})
            /\ Cardinality(Tickets(p, u) \ {k}) = Cardinality(Tickets(p, u)) - 1
        BY <2>1, <3>1, FS_RemoveElement
      <3>3. Cardinality(Tickets(q, u)) <= Cardinality(Tickets(p, u)) - 1
        BY <3>1, <3>2, FS_Subset
      <3>4. Held(tt, u) = Held(ss, u) \cup {v} /\ v \notin Held(ss, u)
        BY <2>3 DEF Held
      <3>5. Cardinality(Held(tt, u)) = Cardinality(Held(ss, u)) + 1
        BY <2>1, <3>4, FS_AddElement, ZenonT(30)
      <3> QED BY <2>1, <2>2, <3>3, <3>5
    <2>4. CASE ~IsUser(k.ctx, u)
      <3>1. Tickets(q, u) \subseteq Tickets(p, u) /\ Held(tt, u) = Held(ss, u)
        BY <2>4 DEF Tickets, Held
      <3>2. Cardinality(Tickets(q, u)) <= Cardinality(Tickets(p, u))
        BY <2>1, <3>1, FS_Subset
      <3> QED BY <2>1, <2>2, <3>1, <3>2
    <2> QED BY <2>3, <2>4
  <1> QED BY <1>2, <1>4, <1>6, <1>7 DEF Finite

(* A new ticket adds one to the records, and one to its own administrator. *)
LEMMA Add ==
    ASSUME NEW p, NEW ss, NEW k, Good(ss), Finite(p, ss)
    PROVE  /\ Finite(p \cup {k}, ss)
           /\ RecordCount(p \cup {k}, ss) <= RecordCount(p, ss) + 1
           /\ \A u : AdminCount(p \cup {k}, ss, u)
                        <= AdminCount(p, ss, u) + (IF IsUser(k.ctx, u) THEN 1 ELSE 0)
  <1> DEFINE q == p \cup {k}
  <1>1. IsFiniteSet(q) /\ Cardinality(q) <= Cardinality(p) + 1 /\ Cardinality(p) \in Nat
    <2>1. Cardinality(p) \in Nat
      BY FS_CardinalityType DEF Finite
    <2>2. IsFiniteSet(q) /\ Cardinality(q) = IF k \in p THEN Cardinality(p) ELSE Cardinality(p) + 1
      BY FS_AddElement DEF Finite
    <2> QED BY <2>1, <2>2
  <1>2. Finite(q, ss) /\ Cardinality(q) \in Nat /\ Cardinality(Writers(ss)) \in Nat
    BY <1>1, FS_CardinalityType DEF Finite
  <1>3. ASSUME NEW u
        PROVE  AdminCount(q, ss, u) <= AdminCount(p, ss, u) + (IF IsUser(k.ctx, u) THEN 1 ELSE 0)
    <2>1. /\ IsFiniteSet(Tickets(p, u))
          /\ Cardinality(Tickets(p, u)) \in Nat /\ Cardinality(Held(ss, u)) \in Nat
          /\ AdminCount(p, ss, u) = Cardinality(Tickets(p, u)) + Cardinality(Held(ss, u))
      BY AdminCountIs
    <2>2. /\ Cardinality(Tickets(q, u)) \in Nat
          /\ AdminCount(q, ss, u) = Cardinality(Tickets(q, u)) + Cardinality(Held(ss, u))
      BY <1>2, AdminCountIs
    <2>3. Tickets(q, u) = IF IsUser(k.ctx, u) THEN Tickets(p, u) \cup {k} ELSE Tickets(p, u)
      BY DEF Tickets
    <2>4. Cardinality(Tickets(q, u))
             <= Cardinality(Tickets(p, u)) + (IF IsUser(k.ctx, u) THEN 1 ELSE 0)
      BY <2>1, <2>3, FS_AddElement
    <2> QED BY <2>1, <2>2, <2>4
  <1> QED BY <1>1, <1>2, <1>3 DEF RecordCount

-----------------------------------------------------------------------------
(* The helpers keep who is charged.                                        *)
LEMMA HelpersKeep ==
    ASSUME NEW s \in Slot, Consistent(s), NEW now, NEW sess
    PROVE  /\ Keeps(s, s)
           /\ HasStaged(s) => Keeps(s, Fenced(s)) /\ Keeps(s, CheckFailed(s))
           /\ HasActive(s) => Keeps(s, Retired(s)) /\ Keeps(s, Owing(s))
           /\ Keeps(s, Swept(s, now)) /\ Keeps(s, Burnt(s)) /\ Keeps(s, Revoked(s, sess))
  <1>1. HasStaged(s) => Busy(s) /\ Payer(s) = s.staged.ctx
    BY DEF Consistent, Busy, Payer
  <1>2. HasStaged(s) => Keeps(s, Fenced(s))
    <2>1. Fenced(s).active.lease = 0 /\ Fenced(s).cleanup.ctx = s.staged.ctx
          /\ Fenced(s).cleanup.lease = s.staged.lease
      BY DEF Fenced, NoActive
    <2> QED BY <1>1, <2>1 DEF Keeps, Payer, HasActive, HasCleanup, HasStaged
  <1>3. HasActive(s) => Keeps(s, Owing(s))
    <2>1. Owing(s).active.lease = 0 /\ Owing(s).cleanup.ctx = s.active.ctx
          /\ Owing(s).cleanup.lease = s.active.lease
      BY DEF Owing, NoActive
    <2> QED BY <2>1 DEF Keeps, Busy, Payer, HasActive, HasCleanup
  <1>4. Keeps(s, s)
    BY DEF Keeps
  <1>5. s.staged.stage \in Admitting => HasStaged(s)
    BY AdmittingIsStaged DEF Admitting
  <1> QED BY <1>2, <1>3, <1>4, <1>5, ZenonT(30)
          DEF CheckFailed, Retired, Swept, Burnt, Revoked

(* What every step but the issue, reservation and consumption of a ticket  *)
(* does.                                                                   *)
Keeping == pending' \subseteq pending /\ \A w \in Workspaces : Keeps(slot[w], slot'[w])

LEMMA OneKeeps ==
    ASSUME IInv, NEW v \in Workspaces, NEW t, Keeps(slot[v], t),
           slot' = [slot EXCEPT ![v] = t], UNCHANGED pending
    PROVE  Keeping
  <1> SUFFICES ASSUME NEW w \in Workspaces PROVE Keeps(slot[w], slot'[w])
    BY DEF Keeping
  <1>1. slot'[v] = t /\ (w # v => slot'[w] = slot[w])
    BY DEF IInv, TypeOK
  <1> QED BY <1>1 DEF Keeps

LEMMA AdmissionKeeps ==
    ASSUME IInv, NEW w \in Workspaces, NEW b \in BOOLEAN,
           \/ CheckReserved(w) \/ Fence(w) \/ Advance(w, b)
           \/ \E later \in clock .. MaxTime : Activate(w, b, later)
    PROVE  Keeping
  <1> DEFINE s == slot[w]
             t == [s EXCEPT !.staged.stage = NextStage(s.staged.stage)]
  <1>1. s \in Slot /\ Consistent(s) /\ HasStaged(s)
    BY SlotGood DEF CheckReserved, Fence, Advance, Activate
  <1>2. Keeps(s, t)
    <2>1. t.active = s.active /\ t.cleanup = s.cleanup
          /\ t.staged.lease = s.staged.lease /\ t.staged.ctx = s.staged.ctx
      BY <1>1 DEF Slot, Staged
    <2> QED BY <2>1 DEF Keeps, Busy, Payer, HasActive, HasCleanup, HasStaged
  <1>3. CheckPasses(s, clock) => Keeps(s, Activated(s))
    <2> SUFFICES ASSUME CheckPasses(s, clock) PROVE Keeps(s, Activated(s))
      OBVIOUS
    <2>1. ~HasActive(s) /\ ~HasCleanup(s)
      BY <1>1, ZenonT(30) DEF CheckPasses, Consistent, Admitting
    <2>2. Activated(s).active.ctx = s.staged.ctx /\ Activated(s).active.lease = s.staged.lease
      BY DEF Activated
    <2> QED BY <1>1, <2>1, <2>2, ZenonT(30) DEF Keeps, Busy, Payer, HasActive, HasStaged
  <1>4. Keeps(s, Fenced(s)) /\ Keeps(s, CheckFailed(s))
    BY <1>1, HelpersKeep
  <1>5. UNCHANGED pending
    BY DEF CheckReserved, Fence, Advance, Activate, OnlySlot
  <1>6. \E r : Keeps(s, r) /\ slot' = [slot EXCEPT ![w] = r]
    BY <1>2, <1>3, <1>4 DEF CheckReserved, Fence, Advance, Activate, SetSlot
  <1> QED BY <1>5, <1>6, OneKeeps, ZenonT(30)

LEMMA LeaseKeeps ==
    ASSUME IInv, NEW w \in Workspaces,
           \/ AcknowledgeStagedCleanup(w) \/ Heartbeat(w) \/ IsActive(w)
           \/ Detach(w) \/ AcknowledgeCleanup(w)
    PROVE  Keeping
  <1> DEFINE s == slot[w]
             released == [active |-> s.active, staged |-> NoStaged, cleanup |-> NoOwed]
             renewed == [s EXCEPT !.active.expires = Min2(clock + LeaseTtl, s.active.absolute)]
             ended == [s EXCEPT !.active = NoActive]
             settled == [s EXCEPT !.cleanup = NoOwed]
  <1>1. s \in Slot /\ Consistent(s)
    BY SlotGood
  <1>2. s.staged.stage = "FENCED" => Keeps(s, released)
    <2>1. s.staged.stage = "FENCED" => ~HasActive(s)
      BY <1>1 DEF Consistent
    <2> QED BY <2>1 DEF Keeps, Busy, NoStaged, NoOwed, HasActive, HasStaged, HasCleanup
  <1>3. Keeps(s, renewed)
    <2>1. renewed.active.lease = s.active.lease /\ renewed.active.ctx = s.active.ctx
          /\ renewed.staged = s.staged /\ renewed.cleanup = s.cleanup
      BY <1>1 DEF Slot, Active
    <2> QED BY <2>1 DEF Keeps, Busy, Payer, HasActive, HasStaged, HasCleanup
  <1>4. HasActive(s) /\ ~HasStaged(s) => Keeps(s, ended)
    <2>1. ended.active = NoActive /\ ended.staged = s.staged /\ ended.cleanup = s.cleanup
      BY <1>1 DEF Slot
    <2> QED BY <1>1, <2>1 DEF Consistent, Keeps, Busy, NoActive, HasActive, HasStaged,
               HasCleanup
  <1>5. HasCleanup(s) /\ ~HasStaged(s) => Keeps(s, settled)
    <2>1. settled.active = s.active /\ settled.staged = s.staged /\ settled.cleanup = NoOwed
      BY <1>1 DEF Slot
    <2> QED BY <1>1, <2>1 DEF Consistent, Keeps, Busy, NoOwed, HasActive, HasStaged, HasCleanup
  <1>6. HasActive(s) => Keeps(s, Retired(s))
    BY <1>1, HelpersKeep
  <1>7. UNCHANGED pending
    BY DEF AcknowledgeStagedCleanup, Heartbeat, IsActive, Detach, AcknowledgeCleanup, OnlySlot
  <1>8. \E r : Keeps(s, r) /\ slot' = [slot EXCEPT ![w] = r]
    BY <1>2, <1>3, <1>4, <1>5, <1>6
       DEF AcknowledgeStagedCleanup, Heartbeat, IsActive, Detach, AcknowledgeCleanup, SetSlot
  <1> QED BY <1>7, <1>8, OneKeeps, ZenonT(30)

LEMMA SweepKeeps ==
    ASSUME IInv
    PROVE  /\ \A w \in Workspaces : Keeps(slot[w], SweptSlots(clock)[w])
           /\ Good(slot) /\ Good(SweptSlots(clock))
           /\ LiveTickets(clock) \subseteq pending
  BY SlotGood, HelpersKeep, SweptAllowed DEF Good, Allowed, SweptSlots, LiveTickets

LEMMA AllKeep ==
    ASSUME IInv, \/ Sweep \/ BurnAll \/ \E sess \in Sessions : RevokeSession(sess)
    PROVE  Keeping
  <1>1. CASE Sweep
    BY <1>1, SweepKeeps DEF Sweep, Keeping
  <1>2. CASE BurnAll
    BY <1>2, SlotGood, HelpersKeep DEF BurnAll, Keeping
  <1>3. ASSUME NEW sess \in Sessions, RevokeSession(sess) PROVE Keeping
    BY <1>3, SlotGood, HelpersKeep DEF RevokeSession, Keeping
  <1> QED BY <1>1, <1>2, <1>3

LEMMA QuietKeeps == ASSUME pending' \subseteq pending, UNCHANGED slot PROVE Keeping
  BY DEF Keeping, Keeps

-----------------------------------------------------------------------------
Capacity == Finite(pending, slot) /\ WithinCapacity

(* The counts are numbers, so the inequalities chain.                      *)
LEMMA CountsAreNumbers ==
    ASSUME NEW p, NEW ss, Good(ss), Finite(p, ss)
    PROVE  /\ RecordCount(p, ss) \in Nat /\ Cardinality(Writers(ss)) \in Nat
           /\ \A u : AdminCount(p, ss, u) \in Nat
  <1>1. Cardinality(p) \in Nat /\ Cardinality(Writers(ss)) \in Nat
    BY FS_CardinalityType DEF Finite
  <1>2. \A u : AdminCount(p, ss, u) \in Nat
    BY AdminCountIs
  <1> QED BY <1>1, <1>2 DEF RecordCount

LEMMA KeepingCapacity ==
    ASSUME IInv, IInv', Capacity, Keeping
    PROVE  Capacity'
  <1>1. Good(slot) /\ Good(slot')
    BY DEF Good, IInv, TypeOK, SlotsConsistent
  <1>2. /\ Finite(pending', slot')
        /\ RecordCount(pending', slot') <= RecordCount(pending, slot)
        /\ Cardinality(Writers(slot')) <= Cardinality(Writers(slot))
        /\ \A u : AdminCount(pending', slot', u) <= AdminCount(pending, slot, u)
    BY <1>1, Shrink DEF Keeping, Capacity
  <1>3. /\ RecordCount(pending, slot) \in Nat /\ Cardinality(Writers(slot)) \in Nat
        /\ \A u : AdminCount(pending, slot, u) \in Nat
    BY <1>1, CountsAreNumbers DEF Capacity
  <1>4. /\ RecordCount(pending', slot') \in Nat /\ Cardinality(Writers(slot')) \in Nat
        /\ \A u : AdminCount(pending', slot', u) \in Nat
    BY <1>1, <1>2, CountsAreNumbers
  <1> QED BY <1>2, <1>3, <1>4, AuthorityAssumption DEF Capacity, WithinCapacity

LEMMA IssueCapacity ==
    ASSUME IInv, IInv', Capacity, NEW w \in Workspaces, NEW c \in AnyContext, Issue(w, c)
    PROVE  Capacity'
  <1> DEFINE p == LiveTickets(clock)
             ss == SweptSlots(clock)
             k == [lease |-> nextLease, ws |-> w, ctx |-> c, expires |-> clock + TicketTtl]
  <1>1. pending' = p \cup {k} /\ slot' = ss
    BY DEF Issue
  <1>2. Good(slot) /\ Good(ss) /\ p \in SUBSET pending
        /\ \A v \in Workspaces : Keeps(slot[v], ss[v])
    BY SweepKeeps
  <1>3. k.ctx = c
    OBVIOUS
  <1>4. RecordCount(p, ss) < MaxRecords /\ (c # NoContext => AdminCount(p, ss, UserOf[c]) < MaxPerAdmin)
    BY DEF Issue, MayIssue
  <1> HIDE DEF p, ss, k
  <1>5. /\ Finite(p, ss)
        /\ Cardinality(Writers(ss)) <= Cardinality(Writers(slot))
        /\ \A u : AdminCount(p, ss, u) <= AdminCount(pending, slot, u)
    BY <1>2, Shrink DEF Capacity
  <1>6. /\ Finite(p \cup {k}, ss)
        /\ RecordCount(p \cup {k}, ss) <= RecordCount(p, ss) + 1
        /\ \A u : AdminCount(p \cup {k}, ss, u)
                     <= AdminCount(p, ss, u) + (IF IsUser(k.ctx, u) THEN 1 ELSE 0)
    BY <1>2, <1>5, Add
  <1>7. /\ RecordCount(p, ss) \in Nat /\ Cardinality(Writers(ss)) \in Nat
        /\ \A u : AdminCount(p, ss, u) \in Nat
    BY <1>2, <1>5, CountsAreNumbers
  <1>8. /\ Cardinality(Writers(slot)) \in Nat /\ \A u : AdminCount(pending, slot, u) \in Nat
    BY <1>2, CountsAreNumbers DEF Capacity
  <1>9. RecordCount(p \cup {k}, ss) \in Nat /\ \A u : AdminCount(p \cup {k}, ss, u) \in Nat
    BY <1>2, <1>6, CountsAreNumbers
  <1>10. RecordCount(p \cup {k}, ss) <= MaxRecords
    BY <1>4, <1>6, <1>7, <1>9, AuthorityAssumption
  <1>11. Cardinality(Writers(ss)) <= MaxWriters
    BY <1>5, <1>7, <1>8, AuthorityAssumption DEF Capacity, WithinCapacity
  <1>12. ASSUME NEW u \in Users PROVE AdminCount(p \cup {k}, ss, u) <= MaxPerAdmin
    <2>1. CASE IsUser(c, u)
      <3>1. AdminCount(p, ss, u) < MaxPerAdmin
        BY <1>4, <2>1 DEF IsUser
      <3>2. AdminCount(p \cup {k}, ss, u) <= AdminCount(p, ss, u) + 1
        BY <1>3, <1>6, <2>1, ZenonT(30)
      <3> QED BY <1>7, <1>9, <3>1, <3>2, AuthorityAssumption
    <2>2. CASE ~IsUser(c, u)
      <3>1. AdminCount(p \cup {k}, ss, u) <= AdminCount(p, ss, u) + 0
        BY <1>3, <1>6, <2>2, ZenonT(30)
      <3>2. AdminCount(pending, slot, u) <= MaxPerAdmin
        BY DEF Capacity, WithinCapacity
      <3> QED BY <1>5, <1>7, <1>8, <1>9, <3>1, <3>2, AuthorityAssumption
    <2> QED BY <2>1, <2>2
  <1> QED BY <1>1, <1>6, <1>10, <1>11, <1>12 DEF Capacity, WithinCapacity

(* The move of a ticket into a free workspace after the records shrank     *)
(* from slot to ss.                                                        *)
LEMMA MoveCapacity ==
    ASSUME IInv, IInv', Capacity, NEW k \in pending, pending' \subseteq pending \ {k},
           NEW ss, Good(ss), \A w \in Workspaces : Keeps(slot[w], ss[w]),
           NEW v \in Workspaces, ~Busy(ss[v]), Busy(slot'[v]), Payer(slot'[v]) = k.ctx,
           \A w \in Workspaces \ {v} : slot'[w] = ss[w],
           Cardinality(Writers(ss)) < MaxWriters
    PROVE  Capacity'
  <1>1. Good(slot) /\ Good(slot')
    BY ZenonT(30) DEF Good, IInv, TypeOK, SlotsConsistent
  <1>2. /\ Finite(pending, ss)
        /\ RecordCount(pending, ss) <= RecordCount(pending, slot)
        /\ \A u : AdminCount(pending, ss, u) <= AdminCount(pending, slot, u)
    BY <1>1, Shrink DEF Capacity
  <1>3. /\ Finite(pending', slot')
        /\ RecordCount(pending', slot') <= RecordCount(pending, ss)
        /\ Cardinality(Writers(slot')) = Cardinality(Writers(ss)) + 1
        /\ \A u : AdminCount(pending', slot', u) <= AdminCount(pending, ss, u)
    BY <1>1, <1>2, Move
  <1>4. /\ RecordCount(pending, slot) \in Nat
        /\ \A u : AdminCount(pending, slot, u) \in Nat
    BY <1>1, CountsAreNumbers DEF Capacity
  <1>5. /\ RecordCount(pending, ss) \in Nat /\ Cardinality(Writers(ss)) \in Nat
        /\ \A u : AdminCount(pending, ss, u) \in Nat
    BY <1>2, CountsAreNumbers, ZenonT(30)
  <1>6. /\ RecordCount(pending', slot') \in Nat
        /\ \A u : AdminCount(pending', slot', u) \in Nat
    BY <1>1, <1>3, CountsAreNumbers
  <1>7. RecordCount(pending', slot') <= MaxRecords /\ Cardinality(Writers(slot')) <= MaxWriters
    BY <1>2, <1>3, <1>4, <1>5, <1>6, AuthorityAssumption DEF Capacity, WithinCapacity
  <1>8. ASSUME NEW u \in Users PROVE AdminCount(pending', slot', u) <= MaxPerAdmin
    <2>1. AdminCount(pending, slot, u) <= MaxPerAdmin
      BY ZenonT(30) DEF Capacity, WithinCapacity
    <2> QED BY <1>2, <1>3, <1>4, <1>5, <1>6, <2>1, AuthorityAssumption
  <1> QED BY <1>3, <1>7, <1>8 DEF Capacity, WithinCapacity

LEMMA ReserveCapacity ==
    ASSUME IInv, IInv', Capacity, NEW k \in pending, NEW started \in 0 .. clock,
           Reserve(k, started)
    PROVE  Capacity'
  <1> DEFINE ss == SweptSlots(clock)
             until == IF started + AdmissionWindow < k.expires
                      THEN started + AdmissionWindow ELSE k.expires
             new == [lease |-> k.lease, ctx |-> k.ctx, stage |-> "RESERVED",
                     deadline |-> until, expires |-> clock + LeaseTtl,
                     absolute |-> clock + AbsoluteLease]
  <1>1. k.ws \in Workspaces /\ k.lease \in Nat \ {0}
    BY DEF IInv, TypeOK, Ticket
  <1>2. pending' \subseteq pending \ {k}
    BY DEF Reserve
  <1>3. Good(ss) /\ \A w \in Workspaces : Keeps(slot[w], ss[w])
    BY SweepKeeps
  <1>4. CASE slot' = ss
    BY <1>2, <1>3, <1>4, KeepingCapacity DEF Keeping
  <1>5. CASE /\ ~Busy(ss[k.ws]) /\ Cardinality(Writers(ss)) < MaxWriters
             /\ slot' = [ss EXCEPT ![k.ws].staged = new]
    <2>1. slot'[k.ws] = [ss[k.ws] EXCEPT !.staged = new]
          /\ \A w \in Workspaces \ {k.ws} : slot'[w] = ss[w]
      BY <1>1, <1>5 DEF SweptSlots
    <2>2. slot'[k.ws].staged = new /\ slot'[k.ws].active = ss[k.ws].active
          /\ slot'[k.ws].cleanup = ss[k.ws].cleanup
      BY <1>1, <1>3, <2>1 DEF Good, Slot
    <2>3. new.lease # 0 /\ new.ctx = k.ctx
      BY <1>1
    <2>4. Busy(slot'[k.ws]) /\ Payer(slot'[k.ws]) = k.ctx
      BY <1>5, <2>2, <2>3 DEF Busy, Payer, HasActive, HasCleanup, HasStaged
    <2> HIDE DEF ss, new
    <2> QED BY <1>1, <1>2, <1>3, <1>5, <2>1, <2>4, MoveCapacity
  <1> QED BY <1>4, <1>5 DEF Reserve

LEMMA ConsumeCapacity ==
    ASSUME IInv, IInv', Capacity, NEW k \in pending, Consume(k)
    PROVE  Capacity'
  <1> DEFINE s == slot[k.ws]
             new == [lease |-> k.lease, ctx |-> k.ctx, expires |-> clock + LeaseTtl,
                     absolute |-> clock + AbsoluteLease]
  <1>1. k.ws \in Workspaces /\ k.lease \in Nat \ {0}
    BY DEF IInv, TypeOK, Ticket
  <1>2. pending' = pending \ {k}
    BY DEF Consume
  <1>3. Good(slot) /\ \A w \in Workspaces : Keeps(slot[w], slot[w])
    BY SlotGood DEF Good, Keeps
  <1>4. CASE HasActive(s) /\ slot' = [slot EXCEPT ![k.ws] = Retired(s)]
    <2>1. Keeps(s, Retired(s))
      BY <1>1, <1>4, SlotGood, HelpersKeep
    <2>2. slot'[k.ws] = Retired(s) /\ \A w \in Workspaces \ {k.ws} : slot'[w] = slot[w]
      BY <1>1, <1>4 DEF IInv, TypeOK
    <2>3. Keeping
      BY <1>2, <1>3, <2>1, <2>2 DEF Keeping
    <2> QED BY <2>3, KeepingCapacity
  <1>5. CASE /\ ~Busy(s) /\ Cardinality(Writers(slot)) < MaxWriters
             /\ slot' = [slot EXCEPT ![k.ws].active = new]
    <2>1. slot'[k.ws] = [s EXCEPT !.active = new]
          /\ \A w \in Workspaces \ {k.ws} : slot'[w] = slot[w]
      BY <1>1, <1>5 DEF IInv, TypeOK
    <2>2. slot'[k.ws].active = new
      BY <1>1, <2>1, SlotGood DEF Slot
    <2>3. new.lease # 0 /\ new.ctx = k.ctx
      BY <1>1
    <2>4. Busy(slot'[k.ws]) /\ Payer(slot'[k.ws]) = k.ctx
      BY <2>2, <2>3 DEF Busy, Payer, HasActive
    <2> HIDE DEF new
    <2> QED BY <1>1, <1>2, <1>3, <1>5, <2>1, <2>4, MoveCapacity
  <1>6. CASE slot' = slot
    BY <1>2, <1>6, QuietKeeps, KeepingCapacity
  <1> QED BY <1>4, <1>5, <1>6 DEF Consume

-----------------------------------------------------------------------------
LEMMA InitCapacity == Init => Capacity
  <1> SUFFICES ASSUME Init PROVE Capacity
    OBVIOUS
  <1>1. pending = {} /\ Writers(slot) = {}
    BY DEF Init, Writers, Busy, EmptySlot, NoActive, NoStaged, NoOwed,
           HasActive, HasStaged, HasCleanup
  <1>2. Finite(pending, slot) /\ Cardinality(pending) = 0 /\ Cardinality(Writers(slot)) = 0
    BY <1>1, FS_EmptySet DEF Finite
  <1>3. Good(slot)
    BY InitInv DEF IInv, TypeOK, SlotsConsistent, Good
  <1>4. ASSUME NEW u PROVE AdminCount(pending, slot, u) = 0
    <2>1. Tickets(pending, u) = {} /\ Held(slot, u) = {}
      BY <1>1 DEF Tickets, Held, Writers
    <2>2. Cardinality(Tickets(pending, u)) = 0 /\ Cardinality(Held(slot, u)) = 0
      BY <2>1, FS_EmptySet
    <2> QED BY <1>2, <1>3, <2>2, AdminCountIs
  <1> QED BY <1>2, <1>4, AuthorityAssumption DEF Capacity, WithinCapacity, RecordCount

LEMMA NextCapacity == ASSUME IInv, IInv', Capacity, Next PROVE Capacity'
  <1>1. CASE Tick \/ \E w \in Workspaces : OpenPty(w) \/ ClosePty(w)
    BY <1>1, QuietKeeps, KeepingCapacity, ZenonT(30) DEF Tick, OpenPty, ClosePty
  <1>2. CASE Sweep \/ InvalidateAll \/ BeginShutdown \/ \E sess \in Sessions : RevokeSession(sess)
    BY <1>2, AllKeep, KeepingCapacity DEF InvalidateAll, BeginShutdown
  <1>3. CASE \E w \in Workspaces, c \in AnyContext : IssueInvalid(w, c)
    BY <1>3, SweepKeeps, KeepingCapacity DEF IssueInvalid, Keeping
  <1>4. CASE \E w \in Workspaces, c \in AnyContext : Issue(w, c)
    BY <1>4, IssueCapacity
  <1>5. CASE \E k \in pending : ReserveRefused(k)
    BY <1>5, QuietKeeps, KeepingCapacity DEF ReserveRefused
  <1>6. CASE \E k \in pending : Consume(k) \/ \E started \in 0 .. clock : Reserve(k, started)
    BY <1>6, ConsumeCapacity, ReserveCapacity
  <1>7. CASE \E w \in Workspaces : \/ AcknowledgeStagedCleanup(w) \/ Heartbeat(w) \/ IsActive(w)
                                   \/ Detach(w) \/ AcknowledgeCleanup(w)
    BY <1>7, LeaseKeeps, KeepingCapacity
  <1>8. CASE \E w \in Workspaces :
                \/ CheckReserved(w) \/ Fence(w)
                \/ \E b \in BOOLEAN : \/ Advance(w, b)
                                      \/ \E later \in clock .. MaxTime : Activate(w, b, later)
    BY <1>8, AdmissionKeeps, KeepingCapacity, ZenonT(30)
  <1> QED BY <1>1, <1>2, <1>3, <1>4, <1>5, <1>6, <1>7, <1>8 DEF Next

(* No sequence of calls takes the records, the writers or the records of   *)
(* one administrator over the limits that only issue and reserve check.    *)
THEOREM CapacityIsKept == Spec => []WithinCapacity
  <1>1. IInv /\ IInv' /\ Capacity /\ [Next]_vars => Capacity'
    <2> SUFFICES ASSUME IInv, IInv', Capacity, [Next]_vars PROVE Capacity'
      OBVIOUS
    <2>1. CASE UNCHANGED vars
      BY <2>1, QuietKeeps, KeepingCapacity DEF vars
    <2> QED BY <2>1, NextCapacity
  <1>2. Capacity => WithinCapacity
    BY DEF Capacity
  <1> QED BY <1>1, <1>2, InitCapacity, Invariance, PTL DEF Spec
=============================================================================
