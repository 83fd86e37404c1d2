----------------------- MODULE WorkspaceRuntimeProofs -----------------------
(***************************************************************************)
(* Proofs about WorkspaceRuntime, for any number of generations, restarts, *)
(* failures and cancelled requests.                                        *)
(***************************************************************************)
EXTENDS WorkspaceRuntime, WellFoundedInduction, TLAPS

(* The provers every leaf below is tried with, in this order, and their    *)
(* time limits in seconds, unless the leaf names one itself.               *)
USE SMTT(15), ZenonT(30), SMTT(20)

-----------------------------------------------------------------------------
(* The inductive invariant.                                                *)

(* The kernel and the disk: only the last launched generation can have     *)
(* processes, in its group; nothing above it is recorded, and a record of  *)
(* emptiness is true.                                                      *)
KernelOK ==
    /\ alive \subseteq {launched} /\ alive \subseteq groups
    /\ launched <= floor.gen /\ recovered <= floor.gen
    /\ \A g \in Gens : attest[g].state # "NONE" => g <= launched
    /\ EmptyIsTrue
    /\ current.gen = 0 /\ recovered # 0 /\ recovered = floor.gen =>
          launched = recovered /\ attest[recovered].state = "EMPTY_DURABLE"

(* The executor's supervisor is the one of the last launch, and is STOPPED *)
(* only when that has no processes.                                        *)
SupervisorOK ==
    /\ supervisor.gen # 0 => supervisor.gen = launched
    /\ supervisor.state = "STOPPED" => supervisor.gen \notin alive

(* A start may reach the kernel: it is newer than every launch, and what   *)
(* an earlier Runtime process left behind is gone.                         *)
Launchable(g) ==
    /\ launched < g /\ g <= floor.gen /\ current.state # "RUNNING"
    /\ supervisor.gen = 0 => alive = {}

(* What the registry remembers.                                            *)
CurrentOK ==
    /\ current.state = "NONE" <=> current.gen = 0
    /\ current.gen # 0 /\ supervisor.gen = 0 => quarantine
    /\ current.state = "UNKNOWN" => quarantine
    /\ current.state = "STOPPED" => current.gen \notin alive /\ current.gen <= launched
    /\ current.state = "RUNNING" => /\ current.gen = supervisor.gen
                                    /\ attest[current.gen].state \in {"LIVE", "FENCED"}

(* A worker that the request waits for is the request's own, also after    *)
(* others were left behind.                                                *)
WorkerOK ==
    /\ inflight.kind = "START" => /\ Launchable(inflight.gen)
                                  /\ op.step \in {"starting", "rollback"} \/ quarantine
    /\ op.step = "starting" => inflight = [kind |-> "START", gen |-> op.gen]
    /\ op.step = "working" => inflight = [kind |-> op.action, gen |-> op.gen]
    /\ op.step = "cleanup" => inflight = [kind |-> "STOP", gen |-> op.gen]
    /\ op.step \in {"attest", "publish", "stopped", "probed"} => inflight.kind = "NONE"

(* The recovery of what an earlier process left.                           *)
RecoveryOK ==
    /\ op.step \in {"recover", "ack", "migrate"} => quarantine
    /\ op.step \in {"ack", "migrate", "finalize"} =>
          current.gen = 0 /\ launched = floor.gen /\ floor.gen \in Gens
    /\ op.step = "ack" /\ op.rec.state = "EMPTY_DURABLE" => floor.gen \notin alive
    /\ op.step = "migrate" => attest[floor.gen].state = "EMPTY_DURABLE"
    /\ op.step = "finalize" => recovered = floor.gen

(* The request that holds the lock.                                        *)
RequestOK ==
    /\ op.step # "idle" => op.gen \in Gens
    /\ op.step = "admit" /\ ~quarantine =>
          /\ current.state = "RUNNING" => current.gen = op.gen
          /\ current.gen = 0 => floor.gen <= recovered
    /\ op.step = "call" => Launchable(op.gen) /\ ~quarantine
    /\ op.step = "working" => ~quarantine /\ current.gen = op.gen /\ op.action # "START"
    /\ op.step \in {"attest", "publish", "stopped"} => supervisor.gen = op.gen
    /\ op.step = "publish" => attest[op.gen].state = "LIVE"
    /\ op.step = "stopped" => op.gen \notin alive
    /\ op.step = "probed" => current = [gen |-> op.gen, state |-> "RUNNING"]
    /\ op.step \in {"admit", "call", "starting", "working", "attest", "publish", "rollback", "probed"}
          => op.rec.state = "NONE"
    /\ op.step \in {"discard", "cleanup", "stopped", "failed"} /\ op.rec.state # "NONE" =>
          op.rec.state \in {"LIVE", "FENCED"} /\ op.gen <= launched

AnswerOK ==
    /\ answer.status # "NONE" => op.step = "idle"
    /\ answer.status = "STOPPED" => answer.gen \notin alive /\ answer.gen <= launched
    /\ answer.status = "RUNNING" => /\ answer.gen = current.gen /\ answer.gen = supervisor.gen
                                    /\ current.state = "RUNNING"

IInv ==
    /\ TypeOK
    /\ KernelOK /\ SupervisorOK /\ CurrentOK /\ WorkerOK /\ RecoveryOK /\ RequestOK /\ AnswerOK

-----------------------------------------------------------------------------
(* Maxima of sets of generations.                                          *)
LEMMA MaxIs ==
    ASSUME NEW S \in SUBSET Nat, NEW n \in Nat, S # {}, \A x \in S : x <= n
    PROVE  Max(S) \in S /\ \A y \in S : y <= Max(S)
  <1> DEFINE T == {n - x : x \in S}
  <1> DEFINE R == {ss \in Nat \X Nat : ss[1] < ss[2]}
  <1>1. T \subseteq Nat /\ T # {}
    <2>1. \A x \in S : x \in Nat /\ x <= n /\ n - x \in Nat
      OBVIOUS
    <2> QED BY <2>1, ZenonT(30)
  <1>2. IsWellFoundedOn(R, Nat)
    BY NatLessThanWellFounded DEF OpToRel
  <1> HIDE DEF R, T
  <1>3. PICK t \in T : \A y \in T : ~(<<y, t>> \in R)
    BY <1>1, <1>2, WFMin, ZenonT(30)
  <1>4. PICK m \in S : t = n - m
    BY <1>3 DEF T
  <1>5. \A y \in S : m >= y
    <2> SUFFICES ASSUME NEW y \in S PROVE m >= y
      OBVIOUS
    <2>1. n - y \in T /\ n - y \in Nat /\ t \in Nat
      BY <1>1 DEF T
    <2>2. ~(n - y < t)
      BY <1>3, <2>1, ZenonT(30) DEF R
    <2> QED BY <1>4, <2>2
  <1>6. \E x \in S : \A y \in S : x >= y
    BY <1>4, <1>5
  <1> QED BY <1>6, ZenonT(30) DEF Max

LEMMA LatestIs ==
    ASSUME TypeOK
    PROVE  Latest \in 0 .. MaxGen /\ (Latest # 0 => Latest \in Recorded)
  <1>1. Recorded \in SUBSET Nat /\ \A g \in Recorded : g <= MaxGen /\ g \in 0 .. MaxGen
    BY RuntimeAssumption DEF Recorded, Gens
  <1>2. CASE Recorded = {}
    BY <1>2, RuntimeAssumption DEF Latest
  <1>3. CASE Recorded # {}
    <2>1. Max(Recorded) \in Recorded
      BY <1>1, <1>3, MaxIs, RuntimeAssumption
    <2> QED BY <1>1, <1>3, <2>1, ZenonT(30) DEF Latest
  <1> QED BY <1>2, <1>3

LEMMA MaxOfTwo ==
    ASSUME NEW a \in 0 .. MaxGen, NEW b \in 0 .. MaxGen
    PROVE  Max({a, b}) \in 0 .. MaxGen
  BY MaxIs, RuntimeAssumption

-----------------------------------------------------------------------------
(* Attestations.                                                           *)
Attestation == [state : {"NONE", "LIVE", "FENCED", "EMPTY_DURABLE"},
                epoch : 0 .. MaxEpoch, present : BOOLEAN]

(* What fencing, by whatever path, does to the records.                    *)
Fencing(a, b) ==
    /\ b \in [Gens -> Attestation]
    /\ \A g \in Gens :
          /\ b[g].state = "EMPTY_DURABLE" <=> a[g].state = "EMPTY_DURABLE"
          /\ a[g].state \in {"LIVE", "FENCED"} => b[g].state \in {"LIVE", "FENCED"}
          /\ b[g].state # "NONE" => a[g].state # "NONE" \/ g <= launched

LEMMA RankIs ==
    /\ Rank("NONE") = 1 /\ Rank("LIVE") = 2
    /\ Rank("FENCED") = 3 /\ Rank("EMPTY_DURABLE") = 4
  BY DEF Rank, States

LEMMA FenceIs ==
    ASSUME TypeOK, NEW g \in Gens, NEW r \in Attestation, r.state # "NONE",
           r.state = "EMPTY_DURABLE" => attest[g].state = "EMPTY_DURABLE",
           g \in Recorded \/ g <= launched
    PROVE  Fencing(attest, Fence(g, r))
  <1>1. attest \in [Gens -> Attestation]
    BY DEF TypeOK, Attestation
  <1>2. CASE ~Writable(g, Fenced(r))
    BY <1>1, <1>2 DEF Fence, Fencing
  <1>3. CASE Writable(g, Fenced(r))
    <2>1. /\ Fenced(r) \in Attestation
          /\ Fenced(r).state \in {"FENCED", "EMPTY_DURABLE"}
          /\ Fenced(r).state = "EMPTY_DURABLE" <=> r.state = "EMPTY_DURABLE"
      BY DEF Fenced, Attestation
    <2>2. attest[g].state = "EMPTY_DURABLE" => Fenced(r).state = "EMPTY_DURABLE"
      <3> SUFFICES ASSUME attest[g].state = "EMPTY_DURABLE", Fenced(r).state = "FENCED"
                   PROVE  FALSE
        BY <2>1
      <3>1. g \in Recorded
        BY DEF Recorded
      <3>2. Rank(Fenced(r).state) >= Rank(attest[g].state)
        BY <1>3, <3>1 DEF Writable
      <3> QED BY <3>2, RankIs
    <2>3. Fence(g, r) = [attest EXCEPT ![g] = Fenced(r)]
      BY <1>3 DEF Fence
    <2> QED BY <1>1, <2>1, <2>2, <2>3 DEF Fencing, Recorded
  <1> QED BY <1>2, <1>3

LEMMA FenceIdentityIs ==
    ASSUME TypeOK, NEW g \in Gens
    PROVE  Fencing(attest, FenceIdentity(g))
  <1>1. attest \in [Gens -> Attestation]
    BY DEF TypeOK, Attestation
  <1>2. CASE g \notin Recorded
    BY <1>1, <1>2 DEF FenceIdentity, Fencing
  <1>3. CASE g \in Recorded
    <2>1. attest[g] \in Attestation /\ attest[g].state # "NONE"
      BY <1>1, <1>3 DEF Recorded
    <2> QED BY <1>3, <2>1, FenceIs DEF FenceIdentity
  <1> QED BY <1>2, <1>3

(* A request that was admitted has no record of emptiness to write.        *)
LEMMA FenceAttemptIs ==
    ASSUME TypeOK, RequestOK, op.step \in {"discard", "cleanup", "stopped", "failed"}
    PROVE  Fencing(attest, FenceAttempt)
  <1>1. op.gen \in Gens /\ op.rec \in Attestation
    BY DEF RequestOK, TypeOK, Attestation
  <1>2. CASE op.rec.state = "NONE"
    BY <1>1, <1>2, FenceIdentityIs DEF FenceAttempt
  <1>3. CASE op.rec.state # "NONE"
    <2>1. op.rec.state \in {"LIVE", "FENCED"} /\ op.gen <= launched
      BY <1>3 DEF RequestOK
    <2> QED BY <1>1, <1>3, <2>1, FenceIs DEF FenceAttempt
  <1> QED BY <1>2, <1>3

-----------------------------------------------------------------------------
(* The request.                                                            *)
Requests == [step : Steps, action : {"NONE", "START", "STOP", "STATUS"}, gen : 0 .. MaxGen,
             rec : Attestation]

SameRequest(o, q) == q \in Requests /\ q.action = o.action /\ q.gen = o.gen

LEMMA OpIs == ASSUME TypeOK PROVE op \in Requests /\ attest \in [Gens -> Attestation]
  BY DEF TypeOK, Requests, Attestation

(* A request under way is for a generation.                                *)
LEMMA OpGen ==
    ASSUME IInv, op.step # "idle"
    PROVE  op \in Requests /\ op.gen \in Gens /\ op.gen \in 0 .. MaxGen /\ op.gen # 0
  <1>1. TypeOK /\ RequestOK
    BY DEF IInv
  <1>2. op \in Requests
    BY <1>1, OpIs
  <1>3. op.gen \in Gens
    BY <1>1 DEF RequestOK
  <1>4. op.gen \in 0 .. MaxGen /\ op.gen # 0
    BY <1>3, RuntimeAssumption DEF Gens
  <1> QED BY <1>2, <1>3, <1>4

(* A Start is never in flight behind a Stop, a status or a cleanup.        *)
LEMMA NotStarting ==
    ASSUME IInv, op.step \in {"working", "cleanup"}
    PROVE  inflight.kind # "START"
  <1>1. WorkerOK /\ RequestOK
    BY DEF IInv
  <1> QED BY <1>1 DEF WorkerOK, RequestOK

(* What a request that only has to settle its record relies on.            *)
LEMMA SettlingRequest ==
    ASSUME op'.step \in {"discard", "failed"}, op'.gen \in Gens,
           op'.rec.state # "NONE" => /\ op'.rec.state \in {"LIVE", "FENCED"}
                                     /\ op'.gen <= launched'
    PROVE  RequestOK'
  BY DEF RequestOK

(* The worker behind a request that moved on, or that has just asked it.   *)
LEMMA WorkerRests ==
    ASSUME op'.step \in {"rollback", "failed"},
           inflight'.kind = "START" => /\ Launchable(inflight.gen)'
                                       /\ op'.step = "rollback" \/ quarantine'
    PROVE  WorkerOK'
  BY DEF WorkerOK

LEMMA WorkerAsked ==
    ASSUME NEW k, inflight' = [kind |-> k, gen |-> op'.gen],
           \/ op'.step = "starting" /\ k = "START"
           \/ op'.step = "working" /\ k = op'.action /\ k # "START"
           \/ op'.step = "cleanup" /\ k = "STOP",
           k = "START" => Launchable(inflight.gen)'
    PROVE  WorkerOK'
  BY DEF WorkerOK

LEMMA WorkerCleans ==
    ASSUME inflight' = [kind |-> "STOP", gen |-> op'.gen], op'.step = "cleanup"
    PROVE  WorkerOK'
  BY WorkerAsked

LEMMA Moved ==
    ASSUME op \in Requests, NEW s \in Steps, Goto(s)
    PROVE  SameRequest(op, op') /\ op'.step = s /\ op'.rec = op.rec
  BY DEF Goto, SameRequest, Requests

LEMMA MovedWith ==
    ASSUME op \in Requests, NEW s \in Steps, NEW r \in Attestation,
           op' = [op EXCEPT !.step = s, !.rec = r]
    PROVE  SameRequest(op, op') /\ op'.step = s /\ op'.rec = r
  BY ZenonT(30) DEF SameRequest, Requests

LEMMA NoRecordIs == NoRecord \in Attestation /\ NoRecord.state = "NONE"
  BY RuntimeAssumption DEF NoRecord, Record, Attestation

LEMMA Resumed ==
    ASSUME op \in Requests, Resume
    PROVE  SameRequest(op, op') /\ op'.step = "admit" /\ op'.rec.state = "NONE"
  BY MovedWith, NoRecordIs, ZenonT(30) DEF Resume, Steps

LEMMA IdleIs == Idle \in Requests /\ Idle.step = "idle"
  <1>1. 0 \in 0 .. MaxGen /\ "idle" \in Steps
    BY RuntimeAssumption DEF Steps
  <1> QED BY <1>1, NoRecordIs, ZenonT(30) DEF Idle, Requests

LEMMA NoAnswerIs ==
    /\ NoAnswer \in [status : {"NONE", "RUNNING", "STOPPED", "STATUS"}, gen : 0 .. MaxGen]
    /\ NoAnswer.status = "NONE"
  BY RuntimeAssumption DEF NoAnswer

(* A request that is idle relies on nothing.                               *)
LEMMA IdleRelies ==
    ASSUME op' = Idle, inflight'.kind = "START" => Launchable(inflight.gen)' /\ quarantine'
    PROVE  WorkerOK' /\ RecoveryOK' /\ RequestOK'
  <1>1. op'.step = "idle"
    BY IdleIs
  <1> QED BY <1>1 DEF WorkerOK, RecoveryOK, RequestOK

LEMMA Pending ==
    ASSUME IInv, op.step \notin {"starting", "rollback"}, inflight.kind = "START"
    PROVE  quarantine
  BY DEF IInv, WorkerOK

(* What a step does that only moves the request.                           *)
Still == UNCHANGED <<disk, kernel, epoch, memory, executor>>

LEMMA StillKeeps ==
    ASSUME IInv, Still
    PROVE  /\ KernelOK' /\ SupervisorOK' /\ CurrentOK'
           /\ inflight.kind = "START" => Launchable(inflight.gen)'
           /\ UNCHANGED <<floor, attest, alive, groups, launched, epoch, current, genFloor,
                          recovered, quarantine, detached, supervisor, inflight>>
  <1>1. UNCHANGED <<floor, attest, alive, groups, launched, epoch, current, genFloor,
                    recovered, quarantine, detached, supervisor, inflight>>
    BY DEF Still, disk, kernel, memory, executor
  <1>2. KernelOK' /\ SupervisorOK' /\ CurrentOK'
    BY <1>1 DEF IInv, KernelOK, SupervisorOK, CurrentOK, EmptyIsTrue
  <1>3. inflight.kind = "START" => Launchable(inflight.gen)'
    BY <1>1 DEF IInv, WorkerOK, Launchable
  <1> QED BY <1>1, <1>2, <1>3

-----------------------------------------------------------------------------
(* The beginning of a request, and recovery.                               *)
LEMMA BeginStep ==
    ASSUME IInv, NEW a \in {"START", "STOP", "STATUS"}, NEW g \in Gens, Begin(a, g)
    PROVE  IInv'
  <1>1. /\ op.step = "idle" /\ answer' = NoAnswer
        /\ UNCHANGED <<floor, attest, alive, groups, launched, epoch, current, recovered, detached,
                       supervisor, inflight>>
    BY DEF Begin, At, disk, kernel, executor
  <1> DEFINE f == Max({genFloor, floor.gen})
  <1> DEFINE q == Hydrated \/ (Unresolved # {} /\ ~ActiveLive(g))
  <1> DEFINE o == [step |-> IF q THEN "recover" ELSE "admit", action |-> a, gen |-> g,
                   rec |-> NoRecord]
  <1>2. /\ genFloor' \in {f, Max({f, Latest})}
        /\ \/ quarantine' = Hydrated /\ op' = Idle
           \/ quarantine' = q /\ (op' = Idle \/ op' = o)
    BY DEF Begin
  <1>3. f \in 0 .. MaxGen /\ Max({f, Latest}) \in 0 .. MaxGen
    <2>1. f \in 0 .. MaxGen
      BY MaxOfTwo DEF IInv, TypeOK
    <2> HIDE DEF f
    <2> QED BY <2>1, MaxOfTwo, LatestIs DEF IInv
  <1>4. quarantine' \in BOOLEAN /\ (quarantine => quarantine')
    BY <1>2, ZenonT(30) DEF Hydrated, IInv, TypeOK
  <1>5. op' \in Requests /\ (op' = Idle \/ op' = o)
    <2>1. g \in 0 .. MaxGen /\ (IF q THEN "recover" ELSE "admit") \in Steps
      BY DEF Gens, Steps
    <2>2. o \in Requests
      <3> HIDE DEF q
      <3> QED BY <2>1, NoRecordIs DEF Requests
    <2> HIDE DEF o, q
    <2> QED BY <1>2, <2>2, IdleIs
  <1>6. TypeOK'
    <2> HIDE DEF f, q, o
    <2> QED BY <1>1, <1>2, <1>3, <1>4, <1>5, NoAnswerIs DEF IInv, TypeOK, Requests, Attestation
  <1>7. KernelOK' /\ SupervisorOK'
    BY <1>1 DEF IInv, KernelOK, SupervisorOK, EmptyIsTrue
  <1>8. CurrentOK'
    BY <1>1, <1>4 DEF IInv, CurrentOK
  <1>9. inflight'.kind = "START" => Launchable(inflight.gen)'
    BY <1>1 DEF IInv, WorkerOK, Launchable
  <1>10. AnswerOK'
    BY <1>1, NoAnswerIs DEF AnswerOK
  <1>11. WorkerOK' /\ RecoveryOK' /\ RequestOK'
    <2>1. CASE op' = Idle
      BY <1>1, <1>4, <1>9, <2>1, IdleRelies, Pending
    <2>2. CASE op' # Idle
      <3>1. op' = o /\ quarantine' = q
        BY <1>2, <2>2
      <3>2. /\ op'.step = IF q THEN "recover" ELSE "admit"
            /\ op'.gen = g /\ op'.rec.state = "NONE"
        <4> HIDE DEF q
        <4> QED BY <3>1, NoRecordIs
      <3>3. ~q => /\ current.gen = 0 => floor.gen <= recovered
                  /\ current.state = "RUNNING" => current.gen = g
        <4> SUFFICES ASSUME ~q PROVE /\ current.gen = 0 => floor.gen <= recovered
                                     /\ current.state = "RUNNING" => current.gen = g
          OBVIOUS
        <4>1. current.gen = 0 => floor.gen <= recovered
          BY DEF Hydrated, IInv, TypeOK
        <4>2. current.state = "RUNNING" => current.gen \in Unresolved
          <5> SUFFICES ASSUME current.state = "RUNNING" PROVE current.gen \in Unresolved
            OBVIOUS
          <5>1. current.gen \in Gens /\ attest[current.gen].state \in {"LIVE", "FENCED"}
            BY DEF IInv, TypeOK, CurrentOK, Gens
          <5> QED BY <5>1 DEF Unresolved, Recorded
        <4>3. Unresolved # {} => current.gen = g
          BY DEF ActiveLive
        <4> QED BY <4>1, <4>2, <4>3
      <3> HIDE DEF q, o
      <3>4. WorkerOK'
        BY <1>1, <1>4, <1>9, <3>2, Pending DEF WorkerOK
      <3>5. RecoveryOK'
        BY <3>1, <3>2 DEF RecoveryOK
      <3>6. RequestOK'
        BY <1>1, <3>1, <3>2, <3>3 DEF RequestOK
      <3> QED BY <3>4, <3>5, <3>6
    <2> QED BY <2>1, <2>2
  <1> QED BY <1>6, <1>7, <1>8, <1>10, <1>11 DEF IInv

LEMMA RecoverableIs ==
    ASSUME IInv, Recoverable
    PROVE  current.gen = 0 /\ floor.gen \in Gens /\ launched = floor.gen
  <1>1. current.gen = 0 /\ floor.gen # 0 /\ floor.gen \in Recorded
    BY LatestIs DEF Recoverable, IInv
  <1> QED BY <1>1, RuntimeAssumption DEF IInv, KernelOK, TypeOK, Recorded, Gens

LEMMA ObserveStep == ASSUME IInv, Observe PROVE IInv'
  <1>1. /\ op.step = "recover"
        /\ UNCHANGED <<floor, attest, alive, launched, epoch, current, genFloor, recovered,
                       quarantine, detached, supervisor, inflight, answer>>
    BY DEF Observe, At, disk, memory, executor
  <1>2. op \in Requests /\ alive \subseteq groups /\ quarantine
    BY <1>1, OpIs DEF IInv, KernelOK, RecoveryOK
  <1>3. /\ alive \subseteq groups' /\ groups' \subseteq groups
        /\ \/ Resume
           \/ Recoverable /\ op' = [op EXCEPT !.step = "ack", !.rec = Observed(groups')]
    BY <1>2, ZenonT(30) DEF Observe
  <1>4. /\ Observed(groups') \in Attestation
        /\ Observed(groups').state = "EMPTY_DURABLE" => floor.gen \notin alive
    <2>1. epoch \in 0 .. MaxEpoch
      BY DEF IInv, TypeOK, Epochs
    <2> QED BY <1>3, <2>1 DEF Observed, Record, Attestation
  <1>5. /\ SameRequest(op, op')
        /\ \/ op'.step = "admit" /\ op'.rec.state = "NONE"
           \/ op'.step = "ack" /\ Recoverable /\ op'.rec = Observed(groups')
    BY <1>2, <1>3, <1>4, MovedWith, Resumed, ZenonT(30) DEF Steps
  <1>6. TypeOK'
    BY <1>1, <1>3, <1>5 DEF IInv, TypeOK, SameRequest, Requests, Attestation
  <1>7. KernelOK' /\ SupervisorOK' /\ CurrentOK'
    BY <1>1, <1>3 DEF IInv, KernelOK, SupervisorOK, CurrentOK, EmptyIsTrue
  <1>8. WorkerOK' /\ AnswerOK'
    BY <1>1, <1>5 DEF IInv, WorkerOK, AnswerOK, Launchable
  <1>9. RecoveryOK'
    BY <1>1, <1>2, <1>4, <1>5, RecoverableIs DEF RecoveryOK
  <1>10. RequestOK'
    BY <1>1, <1>2, <1>5 DEF IInv, RequestOK, SameRequest
  <1> QED BY <1>6, <1>7, <1>8, <1>9, <1>10 DEF IInv

LEMMA AcknowledgeStep == ASSUME IInv, Acknowledge PROVE IInv'
  <1>1. /\ op.step = "ack"
        /\ UNCHANGED <<floor, alive, groups, launched, epoch, current, genFloor, recovered,
                       quarantine, detached, supervisor, inflight, answer>>
    BY DEF Acknowledge, At, kernel, memory, executor
  <1>2. /\ op \in Requests /\ attest \in [Gens -> Attestation] /\ quarantine
        /\ current.gen = 0 /\ launched = floor.gen /\ floor.gen \in Gens
    BY <1>1, OpIs DEF IInv, RecoveryOK
  <1>3. \/ Resume /\ attest' = attest
        \/ /\ Goto("migrate") \/ Resume
           /\ attest' = [attest EXCEPT ![floor.gen] = op.rec]
           /\ op.rec.state = "EMPTY_DURABLE" /\ floor.gen \notin alive
    BY <1>1 DEF Acknowledge, Acknowledged, IInv, RecoveryOK
  <1>4. CASE Resume /\ attest' = attest
    <2>1. SameRequest(op, op') /\ op'.step = "admit" /\ op'.rec.state = "NONE"
      BY <1>2, <1>4, Resumed
    <2>2. TypeOK'
      BY <1>1, <1>4, <2>1 DEF IInv, TypeOK, SameRequest, Requests, Attestation
    <2>3. KernelOK' /\ SupervisorOK' /\ CurrentOK'
      BY <1>1, <1>4 DEF IInv, KernelOK, SupervisorOK, CurrentOK, EmptyIsTrue
    <2>4. WorkerOK' /\ AnswerOK' /\ RecoveryOK' /\ RequestOK'
      BY <1>1, <1>2, <1>4, <2>1 DEF IInv, WorkerOK, AnswerOK, Launchable, RecoveryOK, RequestOK,
                                    SameRequest
    <2> QED BY <2>2, <2>3, <2>4 DEF IInv
  <1>5. CASE /\ Goto("migrate") \/ Resume
             /\ attest' = [attest EXCEPT ![floor.gen] = op.rec]
             /\ op.rec.state = "EMPTY_DURABLE" /\ floor.gen \notin alive
    <2>1. /\ SameRequest(op, op')
          /\ op'.step = "migrate" \/ (op'.step = "admit" /\ op'.rec.state = "NONE")
      BY <1>2, <1>5, Moved, Resumed DEF Steps
    <2>2. /\ attest' \in [Gens -> Attestation]
          /\ attest'[floor.gen].state = "EMPTY_DURABLE"
          /\ \A g \in Gens : attest'[g] = attest[g] \/ g = floor.gen
      BY <1>2, <1>5 DEF Requests
    <2>3. TypeOK'
      BY <1>1, <2>1, <2>2 DEF IInv, TypeOK, SameRequest, Requests, Attestation
    <2>4. KernelOK' /\ SupervisorOK'
      <3>1. EmptyIsTrue'
        BY <1>1, <1>5, <2>2 DEF IInv, KernelOK, EmptyIsTrue
      <3>2. \A g \in Gens : attest'[g].state # "NONE" => g <= launched
        BY <1>2, <2>2 DEF IInv, KernelOK, Gens
      <3> QED BY <1>1, <1>2, <2>2, <3>1, <3>2 DEF IInv, KernelOK, SupervisorOK
    <2>5. CurrentOK'
      BY <1>1, <1>2 DEF IInv, CurrentOK
    <2>6. WorkerOK' /\ AnswerOK' /\ RecoveryOK' /\ RequestOK'
      BY <1>1, <1>2, <2>1, <2>2 DEF IInv, WorkerOK, AnswerOK, Launchable, RecoveryOK, RequestOK,
                                    SameRequest
    <2> QED BY <2>3, <2>4, <2>5, <2>6 DEF IInv
  <1> QED BY <1>3, <1>4, <1>5

LEMMA NoStart ==
    ASSUME IInv, launched = floor.gen
    PROVE  inflight.kind # "START"
  BY DEF IInv, WorkerOK, Launchable, TypeOK

LEMMA MigrateStep == ASSUME IInv, Migrate PROVE IInv'
  <1>1. /\ op.step = "migrate"
        /\ \/ Goto("finalize") /\ quarantine' = FALSE /\ recovered' = floor.gen
           \/ Resume /\ UNCHANGED <<quarantine, recovered>>
        /\ floor' \in {floor, [floor EXCEPT !.epoch = epoch]}
        /\ UNCHANGED <<attest, alive, groups, launched, epoch, current, genFloor, detached,
                       supervisor, inflight, answer>>
    BY DEF Migrate, At, kernel, executor
  <1>2. /\ op \in Requests /\ current.gen = 0 /\ launched = floor.gen /\ floor.gen \in Gens
        /\ attest[floor.gen].state = "EMPTY_DURABLE" /\ quarantine
    BY <1>1, OpIs DEF IInv, RecoveryOK
  <1>3. /\ SameRequest(op, op')
        /\ \/ op'.step = "finalize" /\ quarantine' = FALSE /\ recovered' = floor.gen
           \/ /\ op'.step = "admit" /\ op'.rec.state = "NONE"
              /\ UNCHANGED <<quarantine, recovered>>
    BY <1>1, <1>2, Moved, Resumed DEF Steps
  <1>4. floor' \in [gen : 0 .. MaxGen, epoch : 0 .. MaxEpoch] /\ floor'.gen = floor.gen
    BY <1>1 DEF IInv, TypeOK, Epochs
  <1>5. TypeOK'
    <2>1. recovered' \in 0 .. MaxGen /\ op' \in Requests /\ quarantine' \in BOOLEAN
      BY <1>1, <1>3 DEF IInv, TypeOK, SameRequest
    <2> QED BY <1>1, <1>4, <2>1, ZenonT(30) DEF IInv, TypeOK, Requests, Attestation
  <1>6. KernelOK' /\ SupervisorOK'
    BY <1>1, <1>2, <1>3, <1>4 DEF IInv, KernelOK, SupervisorOK, EmptyIsTrue, TypeOK
  <1>7. CurrentOK'
    BY <1>1, <1>2 DEF IInv, CurrentOK
  <1>8. inflight.kind # "START"
    BY <1>2, NoStart
  <1>9. WorkerOK' /\ AnswerOK' /\ RecoveryOK' /\ RequestOK'
    BY <1>1, <1>2, <1>3, <1>4, <1>8 DEF IInv, WorkerOK, AnswerOK, RecoveryOK, RequestOK,
                                        SameRequest
  <1> QED BY <1>5, <1>6, <1>7, <1>9 DEF IInv

LEMMA FinalizeStep == ASSUME IInv, Finalize PROVE IInv'
  <1>1. /\ op.step = "finalize" /\ Resume
        /\ UNCHANGED <<floor, attest, alive, launched, epoch, current, genFloor, recovered,
                       detached, supervisor, inflight, answer>>
    BY DEF Finalize, At, disk, executor
  <1>2. /\ op \in Requests /\ current.gen = 0 /\ launched = floor.gen /\ floor.gen \in Gens
        /\ recovered = floor.gen
    BY <1>1, OpIs DEF IInv, RecoveryOK
  <1>3. floor.gen \notin alive
    BY <1>2 DEF IInv, KernelOK, EmptyIsTrue, Gens
  <1>4. /\ groups' \subseteq groups /\ groups \ {floor.gen} \subseteq groups'
        /\ quarantine' = quarantine \/ quarantine' = TRUE
    BY DEF Finalize
  <1>5. alive \subseteq groups'
    BY <1>3, <1>4 DEF IInv, KernelOK
  <1>6. SameRequest(op, op') /\ op'.step = "admit" /\ op'.rec.state = "NONE"
    BY <1>1, <1>2, Resumed
  <1>7. TypeOK'
    <2>1. quarantine' \in BOOLEAN
      BY <1>4, ZenonT(30) DEF IInv, TypeOK
    <2>2. groups' \subseteq Gens
      BY <1>4 DEF IInv, TypeOK
    <2> QED BY <1>1, <1>6, <2>1, <2>2 DEF IInv, TypeOK, SameRequest, Requests, Attestation
  <1>8. KernelOK' /\ SupervisorOK' /\ CurrentOK'
    BY <1>1, <1>4, <1>5 DEF IInv, KernelOK, SupervisorOK, CurrentOK, EmptyIsTrue
  <1>9. floor.gen <= recovered /\ current.state # "RUNNING"
    BY <1>2 DEF IInv, CurrentOK, Gens
  <1>10. WorkerOK' /\ AnswerOK' /\ RecoveryOK' /\ RequestOK'
    BY <1>1, <1>2, <1>6, <1>9, NoStart, ZenonT(30) DEF IInv, WorkerOK, AnswerOK, RecoveryOK,
       RequestOK,
                                           SameRequest
  <1> QED BY <1>7, <1>8, <1>10 DEF IInv

-----------------------------------------------------------------------------
(* Admission.                                                              *)
Answers == [status : {"NONE", "RUNNING", "STOPPED", "STATUS"}, gen : 0 .. MaxGen]

LEMMA Answered ==
    ASSUME IInv, NEW s \in {"RUNNING", "STOPPED", "STATUS"}, Answer(s)
    PROVE  /\ op' = Idle /\ op' \in Requests /\ op'.step = "idle"
           /\ answer' \in Answers /\ answer'.status = s /\ answer'.gen = op.gen
  BY IdleIs DEF Answer, Answers, IInv, TypeOK

(* A request that ends without an answer, outside "idle": none is kept.    *)
LEMMA Rejected ==
    ASSUME IInv, Reject, op.step # "idle"
    PROVE  /\ op' = Idle /\ op' \in Requests /\ op'.step = "idle"
           /\ answer' \in Answers /\ answer'.status = "NONE"
  BY IdleIs DEF Reject, Answers, IInv, TypeOK, AnswerOK

LEMMA AlreadyRunningStep == ASSUME IInv, AlreadyRunning PROVE IInv'
  <1>1. /\ op.step = "admit" /\ ~quarantine /\ current.state = "RUNNING" /\ Answer("RUNNING")
        /\ Still
    BY DEF AlreadyRunning, At, Still
  <1>2. current.gen = op.gen
    BY <1>1 DEF IInv, RequestOK
  <1>3. /\ op' = Idle /\ op' \in Requests /\ op'.step = "idle"
        /\ answer' \in Answers /\ answer'.status = "RUNNING" /\ answer'.gen = op.gen
    BY <1>1, Answered
  <1>4. /\ KernelOK' /\ SupervisorOK' /\ CurrentOK'
        /\ inflight.kind = "START" => Launchable(inflight.gen)'
        /\ UNCHANGED <<floor, attest, alive, groups, launched, epoch, current, genFloor,
                       recovered, quarantine, detached, supervisor, inflight>>
    BY <1>1, StillKeeps
  <1>5. WorkerOK' /\ RecoveryOK' /\ RequestOK'
    BY <1>1, <1>3, <1>4, IdleRelies, Pending
  <1>6. TypeOK'
    BY <1>3, <1>4 DEF IInv, TypeOK, Requests, Attestation, Answers
  <1>7. AnswerOK'
    BY <1>1, <1>2, <1>3, <1>4 DEF AnswerOK, IInv, CurrentOK
  <1> QED BY <1>4, <1>5, <1>6, <1>7 DEF IInv

(* Fencing disturbs nothing else.                                          *)
LEMMA FencedKeeps ==
    ASSUME IInv, Fencing(attest, attest'),
           UNCHANGED <<floor, alive, groups, launched, recovered, supervisor, inflight>>,
           (current' = current /\ (quarantine => quarantine'))
    PROVE  /\ KernelOK' /\ SupervisorOK' /\ CurrentOK'
           /\ inflight'.kind = "START" => Launchable(inflight.gen)'
  <1>1. \A g \in Gens : attest'[g].state # "NONE" => g <= launched
    BY DEF Fencing, IInv, KernelOK
  <1>2. EmptyIsTrue'
    BY DEF Fencing, IInv, KernelOK, EmptyIsTrue
  <1>3. recovered # 0 => recovered \in Gens
    BY DEF IInv, TypeOK, Gens
  <1>4. KernelOK'
    BY <1>1, <1>2, <1>3 DEF Fencing, IInv, KernelOK
  <1>5. current.state = "RUNNING" => current.gen \in Gens
    BY DEF IInv, TypeOK, CurrentOK, Gens
  <1>6. SupervisorOK' /\ CurrentOK'
    BY <1>5 DEF Fencing, IInv, SupervisorOK, CurrentOK
  <1>7. inflight'.kind = "START" => Launchable(inflight.gen)'
    BY DEF IInv, WorkerOK, Launchable
  <1> QED BY <1>4, <1>6, <1>7

LEMMA AlreadyStoppedStep == ASSUME IInv, AlreadyStopped PROVE IInv'
  <1>1. /\ op.step = "admit" /\ current = [gen |-> op.gen, state |-> "STOPPED"]
        /\ attest' = FenceIdentity(op.gen) /\ (Answer("STOPPED") \/ Reject)
        /\ UNCHANGED <<floor, alive, groups, launched, epoch, current, genFloor, recovered,
                       quarantine, detached, supervisor, inflight>>
    BY DEF AlreadyStopped, At, kernel, memory, executor
  <1>2. op.gen \in Gens
    BY <1>1 DEF IInv, RequestOK
  <1>3. Fencing(attest, attest')
    BY <1>1, <1>2, FenceIdentityIs DEF IInv
  <1>4. /\ KernelOK' /\ SupervisorOK' /\ CurrentOK'
        /\ inflight'.kind = "START" => Launchable(inflight.gen)'
    BY <1>1, <1>3, FencedKeeps
  <1>5. /\ op' = Idle /\ op' \in Requests /\ op'.step = "idle" /\ answer' \in Answers
        /\ answer'.status = "NONE" \/ (answer'.status = "STOPPED" /\ answer'.gen = op.gen)
    BY <1>1, Answered, Rejected
  <1>6. WorkerOK' /\ RecoveryOK' /\ RequestOK'
    BY <1>1, <1>4, <1>5, IdleRelies, Pending
  <1>7. TypeOK'
    BY <1>1, <1>3, <1>5 DEF IInv, TypeOK, Requests, Attestation, Answers, Fencing
  <1>8. AnswerOK'
    BY <1>1, <1>5 DEF AnswerOK, IInv, CurrentOK
  <1> QED BY <1>4, <1>6, <1>7, <1>8 DEF IInv

LEMMA RefuseStep == ASSUME IInv, Refuse PROVE IInv'
  <1>1. op.step = "admit" /\ Reject /\ Still
    BY DEF Refuse, At, Still
  <1>2. /\ op' = Idle /\ op' \in Requests /\ op'.step = "idle"
        /\ answer' \in Answers /\ answer'.status = "NONE"
    BY <1>1, Rejected
  <1>3. /\ KernelOK' /\ SupervisorOK' /\ CurrentOK'
        /\ inflight.kind = "START" => Launchable(inflight.gen)'
        /\ UNCHANGED <<floor, attest, alive, groups, launched, epoch, current, genFloor,
                       recovered, quarantine, detached, supervisor, inflight>>
    BY <1>1, StillKeeps
  <1>4. WorkerOK' /\ RecoveryOK' /\ RequestOK'
    BY <1>1, <1>2, <1>3, IdleRelies, Pending
  <1>5. TypeOK' /\ AnswerOK'
    BY <1>2, <1>3 DEF IInv, TypeOK, Requests, Attestation, Answers, AnswerOK
  <1> QED BY <1>3, <1>4, <1>5 DEF IInv

(* Before a generation is burned nothing that an earlier Runtime process   *)
(* started is left.                                                        *)
LEMMA NothingLeft ==
    ASSUME IInv, op.step = "admit", ~quarantine, supervisor.gen = 0
    PROVE  alive = {}
  <1>1. current.gen = 0 /\ floor.gen <= recovered
    BY DEF IInv, CurrentOK, RequestOK
  <1>2. floor.gen = recovered /\ floor.gen \in 0 .. MaxGen /\ launched \in 0 .. MaxGen
    BY <1>1 DEF IInv, KernelOK, TypeOK
  <1>3. CASE floor.gen = 0
    BY <1>2, <1>3 DEF IInv, KernelOK, TypeOK, Gens
  <1>4. CASE floor.gen # 0
    <2>1. launched = recovered /\ attest[recovered].state = "EMPTY_DURABLE" /\ recovered \in Gens
      BY <1>1, <1>2, <1>4 DEF IInv, KernelOK, Gens
    <2>2. recovered \notin alive
      BY <2>1 DEF IInv, KernelOK, EmptyIsTrue
    <2> QED BY <2>1, <2>2 DEF IInv, KernelOK
  <1> QED BY <1>3, <1>4

LEMMA BurnStep == ASSUME IInv, Burn PROVE IInv'
  <1>1. /\ op.step = "admit" /\ ~quarantine /\ current.state # "RUNNING"
        /\ UNCHANGED <<attest, alive, groups, launched, epoch, current, genFloor, recovered,
                       detached, supervisor, inflight>>
    BY DEF Burn, At, StartAdmitted, kernel, executor
  <1>2. op \in Requests /\ op.gen \in Gens /\ op.gen \in 0 .. MaxGen /\ op.rec.state = "NONE"
    BY <1>1, OpIs DEF IInv, RequestOK, Gens
  <1>3. CASE /\ Advanceable(op.gen) /\ floor' = [gen |-> op.gen, epoch |-> epoch] /\ Goto("call")
             /\ UNCHANGED <<quarantine, answer>>
    <2>1. SameRequest(op, op') /\ op'.step = "call" /\ op'.rec = op.rec
      BY <1>2, <1>3, Moved DEF Steps
    <2>2. /\ floor' \in [gen : 0 .. MaxGen, epoch : 0 .. MaxEpoch] /\ floor'.gen = op.gen
          /\ floor.gen < op.gen
      BY <1>2, <1>3 DEF IInv, TypeOK, Epochs, Advanceable
    <2>3. supervisor.gen = 0 => alive = {}
      BY <1>1, NothingLeft
    <2>4. /\ launched < op.gen /\ recovered < op.gen
          /\ launched <= floor'.gen /\ recovered <= floor'.gen /\ recovered # floor'.gen
      BY <1>2, <2>2 DEF IInv, KernelOK, TypeOK
    <2>5. TypeOK'
      BY <1>1, <1>3, <2>1, <2>2 DEF IInv, TypeOK, SameRequest, Requests, Attestation
    <2>6. KernelOK' /\ SupervisorOK' /\ CurrentOK'
      BY <1>1, <1>3, <2>4, ZenonT(30) DEF IInv, KernelOK, SupervisorOK, CurrentOK, EmptyIsTrue
    <2>7. /\ Launchable(op.gen)'
          /\ inflight.kind = "START" => Launchable(inflight.gen)'
      <3>1. inflight.kind = "START" => inflight.gen <= floor'.gen
        BY <1>2, <2>2 DEF IInv, WorkerOK, Launchable, TypeOK
      <3> QED BY <1>1, <1>2, <2>1, <2>2, <2>3, <2>4, <3>1 DEF IInv, WorkerOK, Launchable,
                 SameRequest
    <2>8. WorkerOK' /\ RecoveryOK' /\ AnswerOK'
      BY <1>1, <1>3, <2>1, <2>7, Pending, ZenonT(30) DEF IInv, WorkerOK, RecoveryOK, AnswerOK
    <2>9. RequestOK'
      BY <1>1, <1>2, <1>3, <2>1, <2>7, ZenonT(30) DEF RequestOK, SameRequest
    <2> QED BY <2>5, <2>6, <2>8, <2>9 DEF IInv
  <1>4. CASE /\ quarantine' = TRUE /\ Reject
             /\ \/ floor' = floor
                \/ Advanceable(op.gen) /\ floor' = [gen |-> op.gen, epoch |-> epoch]
    <2>0. /\ floor' \in [gen : 0 .. MaxGen, epoch : 0 .. MaxEpoch] /\ floor.gen <= floor'.gen
          /\ floor' = floor \/ (floor.gen < floor'.gen /\ floor'.gen \in Gens)
      BY <1>2, <1>4 DEF IInv, TypeOK, Epochs, Advanceable
    <2>1. /\ op' = Idle /\ op' \in Requests /\ op'.step = "idle"
          /\ answer' \in Answers /\ answer'.status = "NONE"
      BY <1>1, <1>4, Rejected
    <2>2. TypeOK'
      BY <1>1, <1>4, <2>0, <2>1 DEF IInv, TypeOK, Requests, Attestation, Answers
    <2>3. KernelOK' /\ SupervisorOK' /\ CurrentOK'
      <3>1. launched <= floor'.gen /\ recovered <= floor'.gen
            /\ (recovered = floor'.gen /\ floor' # floor => FALSE)
        BY <2>0 DEF IInv, KernelOK, TypeOK
      <3> QED BY <1>1, <1>4, <2>0, <3>1 DEF IInv, KernelOK, SupervisorOK, CurrentOK, EmptyIsTrue
    <2>4. WorkerOK' /\ RecoveryOK' /\ RequestOK'
      <3>1. inflight.kind = "START" => inflight.gen <= floor'.gen
        BY <2>0 DEF IInv, WorkerOK, Launchable, TypeOK
      <3> QED BY <1>1, <1>4, <2>1, <3>1, IdleRelies DEF IInv, WorkerOK, Launchable
    <2>5. AnswerOK'
      BY <2>1 DEF AnswerOK
    <2> QED BY <2>2, <2>3, <2>4, <2>5 DEF IInv
  <1> QED BY <1>3, <1>4, ZenonT(30) DEF Burn

(* The executor is asked.                                                  *)
LEMMA CallStep == ASSUME IInv, Call PROVE IInv'
  <1>1. UNCHANGED <<floor, attest, alive, groups, launched, epoch, current, genFloor, recovered,
                    quarantine, detached, supervisor, answer>>
    BY DEF Call, disk, kernel, memory
  <1>2. /\ op.step \in {"call", "admit"}
        /\ op.step = "admit" => ~quarantine /\ ActionAdmitted
        /\ op.step = "call" => Submit("START", "rollback", "starting")
        /\ op.step = "admit" => Submit(op.action, "failed", "working")
    BY DEF Call, At
  <1>3. op \in Requests /\ op.gen \in Gens /\ op.gen \in 0 .. MaxGen /\ op.rec.state = "NONE"
    <2>1. op.rec.state = "NONE"
      BY <1>2 DEF IInv, RequestOK
    <2> QED BY <1>2, <2>1, OpGen
  <1>4. op.step = "call" => Launchable(op.gen) /\ ~quarantine
    BY DEF IInv, RequestOK
  <1>5. /\ SameRequest(op, op') /\ op'.rec = op.rec
        /\ \/ op'.step = "rollback" /\ op.step = "call" /\ inflight' = inflight
           \/ op'.step = "failed" /\ op.step = "admit" /\ inflight' = inflight
           \/ /\ op'.step = "starting" /\ op.step = "call"
              /\ inflight' = [kind |-> "START", gen |-> op.gen]
           \/ /\ op'.step = "working" /\ op.step = "admit"
              /\ inflight' = [kind |-> op.action, gen |-> op.gen]
    BY <1>2, <1>3, Moved DEF Submit, Steps
  <1>6. inflight' \in [kind : {"NONE", "START", "STOP", "STATUS"}, gen : 0 .. MaxGen]
    BY <1>3, <1>5 DEF IInv, TypeOK, Requests
  <1>7. TypeOK'
    BY <1>1, <1>5, <1>6 DEF IInv, TypeOK, SameRequest, Requests, Attestation
  <1>8. KernelOK' /\ SupervisorOK' /\ CurrentOK'
    BY <1>1 DEF IInv, KernelOK, SupervisorOK, CurrentOK, EmptyIsTrue
  <1>9. op.step = "admit" => op.action # "START" /\ current.gen = op.gen /\ ~quarantine
    BY <1>2 DEF ActionAdmitted
  <1>10. inflight'.kind = "START" => Launchable(inflight.gen)'
    <2>1. inflight'.kind = "START" =>
             inflight' = inflight \/ (op.step = "call" /\ inflight'.gen = op.gen)
      BY <1>5, <1>9
    <2> QED BY <1>1, <1>4, <2>1 DEF IInv, WorkerOK, Launchable
  <1>11. WorkerOK' /\ RecoveryOK' /\ AnswerOK'
    <2>1. WorkerOK'
      <3>1. CASE op'.step \in {"rollback", "failed"} /\ inflight' = inflight
        BY <1>1, <1>2, <1>10, <3>1, Pending, WorkerRests
      <3>2. CASE \/ op'.step = "starting" /\ inflight' = [kind |-> "START", gen |-> op.gen]
                 \/ /\ op'.step = "working" /\ op.step = "admit"
                    /\ inflight' = [kind |-> op.action, gen |-> op.gen]
        <4>1. op'.gen = op.gen /\ op'.action = op.action
          BY <1>5 DEF SameRequest
        <4> QED BY <1>9, <1>10, <3>2, <4>1, WorkerAsked
      <3> QED BY <1>5, <3>1, <3>2
    <2>2. RecoveryOK' /\ AnswerOK'
      BY <1>1, <1>2, <1>5, ZenonT(30) DEF IInv, RecoveryOK, AnswerOK
    <2> QED BY <2>1, <2>2
  <1>12. RequestOK'
    BY <1>1, <1>3, <1>5, <1>9 DEF RequestOK, SameRequest
  <1> QED BY <1>7, <1>8, <1>11, <1>12 DEF IInv

-----------------------------------------------------------------------------
(* The workers.                                                            *)
LEMMA Settled ==
    ASSUME IInv, NEW p \in Steps, NEW s \in Steps, Settle(p, s)
    PROVE  /\ inflight' = NoWork /\ inflight'.kind = "NONE" /\ detached' = FALSE
           /\ inflight' \in [kind : {"NONE", "START", "STOP", "STATUS"}, gen : 0 .. MaxGen]
           /\ \/ op.step # p /\ op' = op
              \/ op.step = p /\ op'.step = s /\ SameRequest(op, op') /\ op'.rec = op.rec
  <1>1. op \in Requests
    BY OpIs DEF IInv
  <1>2. NoWork.kind = "NONE" /\ NoWork.gen = 0
    BY DEF NoWork
  <1>3. NoWork \in [kind : {"NONE", "START", "STOP", "STATUS"}, gen : 0 .. MaxGen]
    BY RuntimeAssumption DEF NoWork
  <1> QED BY <1>1, <1>2, <1>3, Moved DEF Settle, At

(* A start that is allowed to reach the kernel finds it empty.             *)
LEMMA LaunchIsFirst ==
    ASSUME IInv, inflight.kind = "START", Startable(inflight.gen)
    PROVE  alive = {} /\ launched < inflight.gen /\ inflight.gen <= floor.gen /\ inflight.gen \in Gens
  <1>1. Launchable(inflight.gen)
    BY DEF IInv, WorkerOK
  <1>2. supervisor.gen # 0 => supervisor.gen = launched /\ supervisor.gen \notin alive
    BY DEF IInv, SupervisorOK, Startable
  <1>3. alive = {}
    BY <1>1, <1>2 DEF IInv, KernelOK, Launchable
  <1> QED BY <1>1, <1>3 DEF Launchable, IInv, TypeOK, Gens

(* What a request that waits for nothing keeps when a launch happens under *)
(* it, or the processes of a generation go.                                *)
LEMMA StartSucceeds ==
    ASSUME IInv, inflight.kind = "START", Startable(inflight.gen), SupervisorStart(inflight.gen),
           UNCHANGED <<floor, attest, epoch, current, genFloor, recovered, quarantine, answer>>
    PROVE  IInv'
  <1> DEFINE g == inflight.gen
  <1>1. alive = {} /\ launched < g /\ g <= floor.gen /\ g \in Gens
    BY LaunchIsFirst
  <1>2. launched' = g /\ groups' = groups \cup {g} /\ alive' \subseteq {g}
    BY <1>1 DEF SupervisorStart, Launch
  <1>3. PICK st \in {"LIVE", "LOGIN", "BROKEN"}, b \in BOOLEAN :
           /\ supervisor' = [gen |-> g, state |-> st, bound |-> b]
           /\ Settle("starting", "attest") \/ Settle("starting", "rollback")
    BY ZenonT(30) DEF SupervisorStart, Replace
  <1>4. /\ inflight'.kind = "NONE" /\ detached' = FALSE
        /\ inflight' \in [kind : {"NONE", "START", "STOP", "STATUS"}, gen : 0 .. MaxGen]
        /\ \/ op.step # "starting" /\ op' = op
           \/ /\ op.step = "starting" /\ op'.step \in {"attest", "rollback"}
              /\ SameRequest(op, op') /\ op'.rec = op.rec
    BY <1>3, Settled, ZenonT(30) DEF Steps
  <1>5. /\ op.step \notin {"attest", "publish", "stopped", "probed", "working", "cleanup", "call"}
        /\ op.step = "starting" => op.gen = g
        /\ op.step = "admit" => quarantine
    <2>1. WorkerOK /\ RequestOK
      BY DEF IInv
    <2> QED BY <2>1 DEF WorkerOK, RequestOK
  <1>6. op.step \notin {"ack", "migrate", "finalize"}
    BY <1>1 DEF IInv, RecoveryOK, TypeOK
  <1>7. current.state # "RUNNING"
    BY ZenonT(30) DEF IInv, WorkerOK, Launchable
  <1> HIDE DEF g
  <1>8. TypeOK'
    <2>1. op' \in Requests
      BY <1>4, OpIs DEF IInv, SameRequest
    <2>2. g \in 0 .. MaxGen /\ alive' \subseteq Gens /\ groups' \subseteq Gens
      BY <1>1, <1>2 DEF IInv, TypeOK, Gens
    <2>3. supervisor' \in [gen : 0 .. MaxGen, state : {"NONE", "LIVE", "LOGIN", "BROKEN", "STOPPED"},
                           bound : BOOLEAN]
      BY <1>3, <2>2
    <2> QED BY <1>2, <1>4, <2>1, <2>2, <2>3, ZenonT(30) DEF IInv, TypeOK, Requests, Attestation
  <1>9. KernelOK'
    <2>1. \A h \in Gens : attest[h].state # "NONE" => h <= g /\ h # g
      BY <1>1 DEF IInv, KernelOK, TypeOK, Gens
    <2>2. EmptyIsTrue'
      BY <1>2, <2>1 DEF EmptyIsTrue
    <2>3. ~(current.gen = 0 /\ recovered # 0 /\ recovered = floor.gen)
      BY <1>1 DEF IInv, KernelOK, TypeOK
    <2> QED BY <1>1, <1>2, <2>1, <2>2, <2>3 DEF IInv, KernelOK
  <1>10. SupervisorOK'
    BY <1>2, <1>3 DEF SupervisorOK
  <1>11. CurrentOK'
    <2>1. current.state = "STOPPED" => current.gen <= g /\ current.gen # g
      BY <1>1 DEF IInv, CurrentOK, TypeOK, Gens
    <2>2. g # 0
      BY <1>1 DEF Gens
    <2> QED BY <1>2, <1>3, <1>7, <2>1, <2>2 DEF IInv, CurrentOK
  <1>12. WorkerOK' /\ RecoveryOK'
    BY <1>4, <1>5, <1>6, ZenonT(30) DEF IInv, WorkerOK, RecoveryOK
  <1>13. RequestOK'
    <2>1. \A n \in 0 .. MaxGen : n <= launched => n <= g
      BY <1>1 DEF IInv, TypeOK, Gens
    <2>2. op.gen \in 0 .. MaxGen
      BY DEF IInv, TypeOK
    <2> QED BY <1>2, <1>3, <1>4, <1>5, <2>1, <2>2, ZenonT(30) DEF IInv, RequestOK, SameRequest
  <1>14. AnswerOK'
    <2>1. answer.status = "STOPPED" => answer.gen <= g /\ answer.gen # g
      BY <1>1 DEF IInv, AnswerOK, TypeOK, Gens
    <2> QED BY <1>2, <1>4, <1>7, <2>1 DEF IInv, AnswerOK
  <1> QED BY <1>8, <1>9, <1>10, <1>11, <1>12, <1>13, <1>14 DEF IInv

LEMMA StartWorkerStep == ASSUME IInv, StartWorker PROVE IInv'
  <1>1. /\ inflight.kind = "START"
        /\ UNCHANGED <<floor, attest, epoch, current, genFloor, recovered, quarantine, answer>>
    BY DEF StartWorker, disk
  <1>2. CASE Startable(inflight.gen) /\ SupervisorStart(inflight.gen)
    BY <1>1, <1>2, StartSucceeds
  <1>3. CASE Settle("starting", "rollback") /\ UNCHANGED <<kernel, supervisor>>
    <2>1. UNCHANGED <<alive, groups, launched, supervisor>>
      BY <1>3 DEF kernel
    <2>2. /\ inflight'.kind = "NONE" /\ detached' = FALSE
          /\ inflight' \in [kind : {"NONE", "START", "STOP", "STATUS"}, gen : 0 .. MaxGen]
          /\ \/ op.step # "starting" /\ op' = op
             \/ /\ op.step = "starting" /\ op'.step = "rollback"
                /\ SameRequest(op, op') /\ op'.rec = op.rec
      BY <1>3, Settled, ZenonT(30) DEF Steps
    <2>3. op.step \notin {"working", "cleanup"}
      BY <1>1 DEF IInv, WorkerOK, RequestOK
    <2>4. TypeOK'
      <3>1. op' \in Requests
        BY <2>2, OpIs DEF IInv, SameRequest
      <3> QED BY <1>1, <2>1, <2>2, <3>1, ZenonT(30) DEF IInv, TypeOK, Requests, Attestation
    <2>5. KernelOK' /\ SupervisorOK' /\ CurrentOK'
      BY <1>1, <2>1 DEF IInv, KernelOK, SupervisorOK, CurrentOK, EmptyIsTrue
    <2>6. WorkerOK' /\ RecoveryOK' /\ AnswerOK'
      BY <1>1, <2>1, <2>2, <2>3 DEF IInv, WorkerOK, RecoveryOK, AnswerOK
    <2>7. RequestOK'
      <3>1. RequestOK
        BY DEF IInv
      <3> QED BY <1>1, <2>1, <2>2, <3>1, ZenonT(30) DEF RequestOK, SameRequest, Launchable
    <2> QED BY <2>4, <2>5, <2>6, <2>7 DEF IInv
  <1> QED BY <1>2, <1>3 DEF StartWorker

LEMMA StopSettled ==
    ASSUME IInv, inflight.kind = "STOP", NEW s \in {"stopped", "failed"}, StopDone(s)
    PROVE  /\ inflight'.kind = "NONE" /\ detached' = FALSE
           /\ inflight' \in [kind : {"NONE", "START", "STOP", "STATUS"}, gen : 0 .. MaxGen]
           /\ \/ op.step \notin {"working", "cleanup"} /\ op' = op
              \/ /\ op.step \in {"working", "cleanup"} /\ op.gen = inflight.gen
                 /\ op'.step = s /\ SameRequest(op, op') /\ op'.rec = op.rec
           /\ op.step # "starting"
  <1>1. s \in Steps /\ "working" \in Steps /\ "cleanup" \in Steps
    BY DEF Steps
  <1>2. /\ op.step = "working" => op.gen = inflight.gen
        /\ op.step = "cleanup" => op.gen = inflight.gen
        /\ op.step # "starting"
    BY DEF IInv, WorkerOK
  <1>3. CASE op.step = "cleanup"
    <2>1. Settle("cleanup", s)
      BY <1>3 DEF StopDone, At
    <2> QED BY <1>1, <1>2, <1>3, <2>1, Settled, ZenonT(30)
  <1>4. CASE op.step # "cleanup"
    <2>1. Settle("working", s)
      BY <1>4 DEF StopDone, At
    <2> QED BY <1>1, <1>2, <1>4, <2>1, Settled, ZenonT(30)
  <1> QED BY <1>3, <1>4, ZenonT(30)

(* Processes go, and a worker that is not a start ends: the request it     *)
(* belongs to moves on.                                                    *)
LEMMA StopWorkerStep == ASSUME IInv, StopWorker PROVE IInv'
  <1>1. /\ inflight.kind = "STOP"
        /\ UNCHANGED <<floor, attest, groups, launched, epoch, current, genFloor, recovered,
                       quarantine, answer>>
    BY DEF StopWorker, disk
  <1>2. PICK s \in {"stopped", "failed"} :
          /\ StopDone(s) /\ alive' \subseteq alive
          /\ s = "stopped" => supervisor.gen = inflight.gen /\ inflight.gen \notin alive'
          /\ \/ supervisor' = supervisor
             \/ supervisor' = [gen |-> supervisor.gen, state |-> "STOPPED", bound |-> FALSE]
                /\ supervisor.gen \notin alive'
             \/ supervisor' = [gen |-> supervisor.gen, state |-> "BROKEN", bound |-> supervisor.bound]
    BY DEF StopWorker, SupervisorStop, Kill, Replace
  <1>3. /\ inflight'.kind = "NONE" /\ detached' = FALSE
        /\ inflight' \in [kind : {"NONE", "START", "STOP", "STATUS"}, gen : 0 .. MaxGen]
        /\ \/ op.step \notin {"working", "cleanup"} /\ op' = op
           \/ /\ op.step \in {"working", "cleanup"} /\ op.gen = inflight.gen
              /\ op'.step = s /\ SameRequest(op, op') /\ op'.rec = op.rec
        /\ op.step # "starting"
    BY <1>1, <1>2, StopSettled, ZenonT(30)
  <1>4. /\ supervisor' \in [gen : 0 .. MaxGen, state : {"NONE", "LIVE", "LOGIN", "BROKEN", "STOPPED"},
                            bound : BOOLEAN]
        /\ supervisor'.gen = supervisor.gen
        /\ supervisor'.state = "STOPPED" => supervisor'.gen \notin alive'
    <2>1. /\ supervisor \in [gen : 0 .. MaxGen, state : {"NONE", "LIVE", "LOGIN", "BROKEN", "STOPPED"},
                             bound : BOOLEAN]
          /\ supervisor.state = "STOPPED" => supervisor.gen \notin alive'
      BY <1>2 DEF IInv, TypeOK, SupervisorOK
    <2>2. CASE supervisor' = supervisor
      BY <2>1, <2>2
    <2>3. CASE /\ supervisor' = [gen |-> supervisor.gen, state |-> "STOPPED", bound |-> FALSE]
               /\ supervisor.gen \notin alive'
      BY <2>1, <2>3
    <2>4. CASE supervisor' = [gen |-> supervisor.gen, state |-> "BROKEN", bound |-> supervisor.bound]
      BY <2>1, <2>4
    <2> QED BY <1>2, <2>2, <2>3, <2>4
  <1>5. TypeOK'
    <2>1. op' \in Requests
      BY <1>3, OpIs DEF IInv, SameRequest
    <2>2. alive' \subseteq Gens
      BY <1>2 DEF IInv, TypeOK
    <2> QED BY <1>1, <1>3, <1>4, <2>1, <2>2, ZenonT(30) DEF IInv, TypeOK, Requests, Attestation
  <1>6. KernelOK' /\ SupervisorOK' /\ CurrentOK'
    BY <1>1, <1>2, <1>4 DEF IInv, KernelOK, SupervisorOK, CurrentOK, EmptyIsTrue
  <1>7. WorkerOK' /\ RecoveryOK' /\ AnswerOK'
    BY <1>1, <1>2, <1>3, <1>4, ZenonT(30) DEF IInv, WorkerOK, RecoveryOK, AnswerOK
  <1>8. RequestOK'
    <2>1. op.step # "idle" => op.gen \in Gens
      BY ZenonT(30) DEF IInv, RequestOK
    <2>2. CASE op' = op
      BY <1>1, <1>2, <1>3, <1>4, <2>2, ZenonT(30) DEF IInv, RequestOK, Launchable
    <2>3. CASE op.step \in {"working", "cleanup"} /\ op'.step = s
      BY <1>1, <1>2, <1>3, <1>4, <2>1, <2>3, ZenonT(30) DEF IInv, RequestOK, SameRequest
    <2> QED BY <1>3, <2>2, <2>3
  <1> QED BY <1>5, <1>6, <1>7, <1>8 DEF IInv

LEMMA ProbeWorkerStep == ASSUME IInv, ProbeWorker PROVE IInv'
  <1>1. /\ inflight.kind = "STATUS"
        /\ UNCHANGED <<floor, attest, alive, groups, launched, epoch, current, genFloor, recovered,
                       quarantine, supervisor, answer>>
        /\ \/ Settle("working", "probed") /\ supervisor.gen = inflight.gen /\ inflight.gen \in alive
           \/ Settle("working", "failed")
    BY DEF ProbeWorker, disk, kernel
  <1>2. op.step \notin {"starting", "cleanup"} /\ (op.step = "working" => op.gen = inflight.gen)
    BY <1>1 DEF IInv, WorkerOK
  <1>3. /\ inflight'.kind = "NONE" /\ detached' = FALSE
        /\ inflight' \in [kind : {"NONE", "START", "STOP", "STATUS"}, gen : 0 .. MaxGen]
        /\ \/ op.step # "working" /\ op' = op
           \/ /\ op.step = "working" /\ SameRequest(op, op') /\ op'.rec = op.rec
              /\ op'.step = "failed" \/ (op'.step = "probed" /\ inflight.gen \in alive)
    BY <1>1, Settled, ZenonT(30) DEF Steps
  <1>4. op'.step = "probed" /\ op.step = "working" => current = [gen |-> op.gen, state |-> "RUNNING"]
    <2> SUFFICES ASSUME op'.step = "probed", op.step = "working"
                 PROVE  current = [gen |-> op.gen, state |-> "RUNNING"]
      OBVIOUS
    <2>1. op.gen \in alive /\ current.gen = op.gen /\ ~quarantine /\ op.gen \in Gens
      BY <1>2, <1>3 DEF IInv, RequestOK
    <2>2. current.state \notin {"NONE", "UNKNOWN", "STOPPED"}
      BY <2>1 DEF IInv, CurrentOK, Gens
    <2> QED BY <2>1, <2>2 DEF IInv, TypeOK
  <1>5. TypeOK'
    <2>1. op' \in Requests
      BY <1>3, OpIs DEF IInv, SameRequest
    <2> QED BY <1>1, <1>3, <2>1, ZenonT(30) DEF IInv, TypeOK, Requests, Attestation
  <1>6. KernelOK' /\ SupervisorOK' /\ CurrentOK'
    BY <1>1 DEF IInv, KernelOK, SupervisorOK, CurrentOK, EmptyIsTrue
  <1>7. WorkerOK' /\ RecoveryOK' /\ AnswerOK'
    BY <1>1, <1>2, <1>3 DEF IInv, WorkerOK, RecoveryOK, AnswerOK
  <1>8. RequestOK'
    <2>1. CASE op' = op
      <3>1. RequestOK
        BY DEF IInv
      <3> QED BY <1>1, <2>1, <3>1, ZenonT(30) DEF RequestOK, Launchable
    <2>2. CASE op.step = "working" /\ op'.step \in {"failed", "probed"}
      BY <1>1, <1>3, <1>4, <2>2, ZenonT(30) DEF IInv, RequestOK, SameRequest
    <2> QED BY <1>3, <2>1, <2>2
  <1> QED BY <1>5, <1>6, <1>7, <1>8 DEF IInv

-----------------------------------------------------------------------------
(* The end of a request.                                                   *)
LEMMA LiveIs ==
    ASSUME TypeOK, NEW s \in {"LIVE", "FENCED", "EMPTY_DURABLE"}
    PROVE  Record(s, epoch, TRUE) \in Attestation /\ Record(s, epoch, TRUE).state = s
  BY DEF TypeOK, Epochs, Record, Attestation

LEMMA AttestStartStep == ASSUME IInv, AttestStart PROVE IInv'
  <1>1. /\ op.step = "attest"
        /\ UNCHANGED <<floor, alive, groups, launched, epoch, current, genFloor, recovered,
                       quarantine, detached, supervisor, inflight, answer>>
    BY DEF AttestStart, At, kernel, memory, executor
  <1>2. /\ op \in Requests /\ attest \in [Gens -> Attestation] /\ op.gen \in Gens
        /\ supervisor.gen = op.gen /\ op.gen = launched /\ op.rec.state = "NONE"
        /\ inflight.kind = "NONE" /\ op.rec \in Attestation
    BY <1>1, OpIs DEF IInv, RequestOK, WorkerOK, SupervisorOK, Gens, Requests
  <1>3. CASE /\ Writable(op.gen, Record("LIVE", epoch, TRUE)) /\ op.gen \in alive
             /\ attest' = [attest EXCEPT ![op.gen] = Record("LIVE", epoch, TRUE)]
             /\ Goto("publish")
    <2>1. SameRequest(op, op') /\ op'.step = "publish" /\ op'.rec = op.rec
      BY <1>2, <1>3, Moved DEF Steps
    <2>2. /\ attest' \in [Gens -> Attestation] /\ attest'[op.gen].state = "LIVE"
          /\ \A g \in Gens : g # op.gen => attest'[g] = attest[g]
      BY <1>2, <1>3, LiveIs, ZenonT(30) DEF IInv
    <2>3. attest[op.gen].state # "EMPTY_DURABLE"
      BY <1>2, <1>3 DEF IInv, KernelOK, EmptyIsTrue
    <2>4. TypeOK'
      BY <1>1, <2>1, <2>2 DEF IInv, TypeOK, SameRequest, Requests, Attestation
    <2>5. KernelOK'
      <3>1. EmptyIsTrue'
        BY <1>1, <1>2, <2>2 DEF IInv, KernelOK, EmptyIsTrue
      <3>2. \A g \in Gens : attest'[g].state # "NONE" => g <= launched
        BY <1>2, <2>2 DEF IInv, KernelOK, Gens
      <3>3. ~(current.gen = 0 /\ recovered # 0 /\ recovered = floor.gen)
        BY <1>2, <2>3 DEF IInv, KernelOK
      <3> QED BY <1>1, <3>1, <3>2, <3>3, ZenonT(30) DEF IInv, KernelOK
    <2>6. SupervisorOK' /\ CurrentOK'
      BY <1>1, <1>2, <2>2 DEF IInv, SupervisorOK, CurrentOK, TypeOK, Gens
    <2>7. WorkerOK' /\ RecoveryOK' /\ AnswerOK' /\ RequestOK'
      BY <1>1, <1>2, <2>1, <2>2, ZenonT(30) DEF IInv, WorkerOK, RecoveryOK, AnswerOK,
         RequestOK, SameRequest
    <2> QED BY <2>4, <2>5, <2>6, <2>7 DEF IInv
  <1>4. CASE /\ attest' = attest
             /\ \E r \in {op.rec, NoRecord, Record("LIVE", epoch, TRUE), Record("FENCED", epoch, TRUE)} :
                   op' = [op EXCEPT !.step = "discard", !.rec = r]
    <2>1. PICK r \in {op.rec, NoRecord, Record("LIVE", epoch, TRUE), Record("FENCED", epoch, TRUE)} :
             op' = [op EXCEPT !.step = "discard", !.rec = r]
      BY <1>4, ZenonT(30)
    <2>2. r \in Attestation /\ r.state \in {"NONE", "LIVE", "FENCED"}
      BY <1>2, <2>1, NoRecordIs, LiveIs, ZenonT(30) DEF IInv
    <2>3. SameRequest(op, op') /\ op'.step = "discard" /\ op'.rec = r
      BY <1>2, <2>1, <2>2, MovedWith, ZenonT(30) DEF Steps
    <2>4. TypeOK'
      BY <1>1, <1>4, <2>3 DEF IInv, TypeOK, SameRequest, Requests, Attestation
    <2>5. KernelOK' /\ SupervisorOK' /\ CurrentOK'
      BY <1>1, <1>4 DEF IInv, KernelOK, SupervisorOK, CurrentOK, EmptyIsTrue
    <2>6. WorkerOK' /\ RecoveryOK' /\ AnswerOK'
      BY <1>1, <1>2, <2>3, ZenonT(30) DEF IInv, WorkerOK, RecoveryOK, AnswerOK
    <2>7. op'.gen \in Gens /\ op'.gen <= launched' /\ op'.rec = r
      BY <1>1, <1>2, <2>3 DEF SameRequest, Gens
    <2>8. RequestOK'
      BY <2>2, <2>3, <2>7, SettlingRequest
    <2> QED BY <2>4, <2>5, <2>6, <2>8 DEF IInv
  <1>5. [op EXCEPT !.step = "discard"] = [op EXCEPT !.step = "discard", !.rec = op.rec]
    BY <1>2, ZenonT(30) DEF Requests
  <1> QED BY <1>3, <1>4, <1>5, ZenonT(30) DEF AttestStart

LEMMA PublishStep == ASSUME IInv, Publish PROVE IInv'
  <1>1. /\ op.step = "publish"
        /\ UNCHANGED <<floor, attest, alive, groups, launched, epoch, recovered, detached,
                       supervisor, inflight>>
    BY DEF Publish, At, disk, kernel, executor
  <1>2. /\ op \in Requests /\ op.gen \in Gens /\ op.gen \in 0 .. MaxGen /\ op.gen # 0
        /\ supervisor.gen = op.gen /\ op.gen = launched /\ attest[op.gen].state = "LIVE"
        /\ inflight.kind = "NONE"
    <2>1. /\ supervisor.gen = op.gen /\ attest[op.gen].state = "LIVE" /\ inflight.kind = "NONE"
      BY <1>1 DEF IInv, RequestOK, WorkerOK
    <2>2. op \in Requests /\ op.gen \in Gens /\ op.gen \in 0 .. MaxGen /\ op.gen # 0
      BY <1>1, OpGen
    <2> QED BY <2>1, <2>2 DEF IInv, SupervisorOK
  <1>3. CASE /\ current' = [gen |-> op.gen, state |-> "RUNNING"] /\ RaiseFloor(op.gen)
             /\ Answer("RUNNING") /\ UNCHANGED quarantine
    <2>1. genFloor' \in 0 .. MaxGen
      BY <1>2, <1>3, MaxOfTwo DEF RaiseFloor, IInv, TypeOK
    <2>2. /\ op' = Idle /\ op' \in Requests /\ op'.step = "idle"
          /\ answer' \in Answers /\ answer'.status = "RUNNING" /\ answer'.gen = op.gen
      BY <1>3, Answered, ZenonT(30)
    <2>3. current'.gen = op.gen /\ current'.state = "RUNNING"
      BY <1>3
    <2>4. TypeOK'
      BY <1>1, <1>2, <1>3, <2>1, <2>2 DEF IInv, TypeOK, Requests, Attestation, Answers
    <2>5. KernelOK' /\ SupervisorOK' /\ CurrentOK'
      BY <1>1, <1>2, <2>3, ZenonT(30) DEF IInv, KernelOK, SupervisorOK, CurrentOK, EmptyIsTrue
    <2>6. WorkerOK' /\ RecoveryOK' /\ RequestOK'
      BY <1>1, <1>2, <2>2, IdleRelies
    <2>7. AnswerOK'
      BY <1>1, <1>2, <2>2, <2>3 DEF AnswerOK
    <2> QED BY <2>4, <2>5, <2>6, <2>7 DEF IInv
  <1>4. CASE /\ quarantine' = TRUE
             /\ op' = [op EXCEPT !.step = "discard", !.rec = Record("LIVE", epoch, TRUE)]
             /\ UNCHANGED <<current, genFloor, answer>>
    <2>1. SameRequest(op, op') /\ op'.step = "discard" /\ op'.rec.state = "LIVE"
      BY <1>2, <1>4, MovedWith, LiveIs, ZenonT(30) DEF Steps, IInv
    <2>2. TypeOK'
      BY <1>1, <1>4, <2>1 DEF IInv, TypeOK, SameRequest, Requests, Attestation
    <2>3. KernelOK' /\ SupervisorOK' /\ CurrentOK'
      BY <1>1, <1>4 DEF IInv, KernelOK, SupervisorOK, CurrentOK, EmptyIsTrue
    <2>4. WorkerOK' /\ RecoveryOK' /\ AnswerOK' /\ RequestOK'
      <3>1. op.gen <= launched
        BY <1>2
      <3> QED BY <1>1, <1>2, <1>4, <2>1, <3>1, ZenonT(30) DEF IInv, WorkerOK, RecoveryOK,
                 AnswerOK, RequestOK,
                                                 SameRequest
    <2> QED BY <2>2, <2>3, <2>4 DEF IInv
  <1> QED BY <1>3, <1>4, ZenonT(30) DEF Publish

LEMMA RollbackStep == ASSUME IInv, Rollback PROVE IInv'
  <1>1. /\ op.step = "rollback" /\ RaiseFloor(op.gen) /\ Goto("discard") /\ quarantine' = TRUE
        /\ current' = [gen |-> op.gen, state |-> "UNKNOWN"]
        /\ UNCHANGED <<floor, attest, alive, groups, launched, epoch, recovered, detached,
                       supervisor, inflight, answer>>
    BY DEF Rollback, At, disk, kernel, executor
  <1>2. /\ op \in Requests /\ op.gen \in Gens /\ op.gen \in 0 .. MaxGen /\ op.gen # 0
        /\ op.rec.state = "NONE"
    <2>1. op.rec.state = "NONE"
      BY <1>1 DEF IInv, RequestOK
    <2> QED BY <1>1, <2>1, OpGen
  <1>3. SameRequest(op, op') /\ op'.step = "discard" /\ op'.rec = op.rec
    BY <1>1, <1>2, Moved, ZenonT(30) DEF Steps
  <1>4. genFloor' \in 0 .. MaxGen
    BY <1>1, <1>2, MaxOfTwo DEF RaiseFloor, IInv, TypeOK
  <1>5. current'.gen = op.gen /\ current'.state = "UNKNOWN"
    BY <1>1
  <1>6. TypeOK'
    BY <1>1, <1>2, <1>3, <1>4 DEF IInv, TypeOK, SameRequest, Requests, Attestation
  <1>7. KernelOK' /\ SupervisorOK' /\ CurrentOK'
    BY <1>1, <1>2, <1>5, ZenonT(30) DEF IInv, KernelOK, SupervisorOK, CurrentOK, EmptyIsTrue
  <1>8. WorkerOK' /\ RecoveryOK' /\ AnswerOK'
    BY <1>1, <1>3, <1>5, ZenonT(30) DEF IInv, WorkerOK, RecoveryOK, AnswerOK, Launchable
  <1>9. RequestOK'
    BY <1>2, <1>3, ZenonT(30) DEF RequestOK, SameRequest
  <1> QED BY <1>6, <1>7, <1>8, <1>9 DEF IInv

LEMMA CleanupStep == ASSUME IInv, Cleanup PROVE IInv'
  <1>1. /\ op.step = "discard" /\ Submit("STOP", "failed", "cleanup")
        /\ UNCHANGED <<floor, attest, alive, groups, launched, epoch, current, genFloor, recovered,
                       quarantine, detached, supervisor, answer>>
    BY DEF Cleanup, At, disk, kernel, memory
  <1>2. op \in Requests /\ op.gen \in Gens /\ op.gen \in 0 .. MaxGen
    BY <1>1, OpGen
  <1>3. /\ SameRequest(op, op') /\ op'.rec = op.rec
        /\ \/ op'.step = "failed" /\ inflight' = inflight
           \/ op'.step = "cleanup" /\ inflight' = [kind |-> "STOP", gen |-> op.gen]
    BY <1>1, <1>2, Moved DEF Submit, Steps
  <1>4. inflight' \in [kind : {"NONE", "START", "STOP", "STATUS"}, gen : 0 .. MaxGen]
    <2>1. inflight \in [kind : {"NONE", "START", "STOP", "STATUS"}, gen : 0 .. MaxGen]
      BY DEF IInv, TypeOK
    <2> QED BY <1>2, <1>3, <2>1
  <1>5. TypeOK'
    <2>1. op' \in Requests
      BY <1>3 DEF SameRequest
    <2> QED BY <1>1, <1>4, <2>1 DEF IInv, TypeOK, Requests, Attestation
  <1>6. KernelOK' /\ SupervisorOK' /\ CurrentOK'
    BY <1>1, ZenonT(30) DEF IInv, KernelOK, SupervisorOK, CurrentOK, EmptyIsTrue
  <1>7. WorkerOK'
    <2>1. CASE op'.step = "failed" /\ inflight' = inflight
      <3>1. inflight.kind = "START" => Launchable(inflight.gen) /\ quarantine
        BY <1>1, Pending, ZenonT(30) DEF IInv, WorkerOK
      <3>2. inflight'.kind = "START" => Launchable(inflight.gen)' /\ quarantine'
        BY <1>1, <2>1, <3>1 DEF Launchable
      <3> QED BY <2>1, <3>2, WorkerRests
    <2>2. CASE op'.step = "cleanup" /\ inflight' = [kind |-> "STOP", gen |-> op.gen]
      <3>1. op'.gen = op.gen
        BY <1>3 DEF SameRequest
      <3>2. inflight' = [kind |-> "STOP", gen |-> op'.gen]
        BY <2>2, <3>1, ZenonT(30)
      <3> QED BY <2>2, <3>2, WorkerCleans, ZenonT(30)
    <2> QED BY <1>3, <2>1, <2>2
  <1>8. RecoveryOK' /\ AnswerOK'
    BY <1>1, <1>3, ZenonT(30) DEF IInv, RecoveryOK, AnswerOK
  <1>9. RequestOK'
    BY <1>1, <1>2, <1>3, ZenonT(30) DEF IInv, RequestOK, SameRequest
  <1> QED BY <1>5, <1>6, <1>7, <1>8, <1>9 DEF IInv

(* A request that ends with its record fenced.                             *)
LEMMA CleanedUpStep == ASSUME IInv, CleanedUp PROVE IInv'
  <1>1. /\ op.step = "stopped" /\ attest' = FenceAttempt /\ Reject
        /\ current' = IF current = [gen |-> op.gen, state |-> "UNKNOWN"]
                      THEN [current EXCEPT !.state = "STOPPED"] ELSE current
        /\ UNCHANGED <<floor, alive, groups, launched, epoch, genFloor, recovered, quarantine,
                       detached, supervisor, inflight>>
    BY DEF CleanedUp, At, kernel, executor
  <1>2. /\ op.gen \in Gens /\ op.gen \notin alive /\ inflight.kind = "NONE"
        /\ supervisor.gen = op.gen /\ op.gen = launched /\ op.gen <= launched
    BY <1>1 DEF IInv, RequestOK, WorkerOK, SupervisorOK, Gens
  <1>3. Fencing(attest, attest')
    BY <1>1, FenceAttemptIs DEF IInv
  <1>4. /\ op' = Idle /\ op' \in Requests /\ op'.step = "idle"
        /\ answer' \in Answers /\ answer'.status = "NONE"
    BY <1>1, Rejected
  <1>5. /\ current' \in [gen : 0 .. MaxGen, state : {"NONE", "RUNNING", "STOPPED", "UNKNOWN"}]
        /\ current'.gen = current.gen
        /\ \/ current' = current
           \/ current.state = "UNKNOWN" /\ current'.state = "STOPPED" /\ current.gen = op.gen
    BY <1>1 DEF IInv, TypeOK
  <1>6. TypeOK'
    BY <1>1, <1>3, <1>4, <1>5 DEF IInv, TypeOK, Requests, Attestation, Answers, Fencing
  <1>7. KernelOK' /\ SupervisorOK'
    <2>1. \A g \in Gens : attest'[g].state # "NONE" => g <= launched
      BY <1>3 DEF Fencing, IInv, KernelOK
    <2>2. EmptyIsTrue'
      BY <1>1, <1>3 DEF Fencing, IInv, KernelOK, EmptyIsTrue
    <2>3. recovered # 0 => recovered \in Gens
      BY DEF IInv, TypeOK, Gens
    <2> QED BY <1>1, <1>3, <1>5, <2>1, <2>2, <2>3 DEF Fencing, IInv, KernelOK, SupervisorOK
  <1>8. CurrentOK'
    <2>1. current.state = "RUNNING" => current.gen \in Gens
      BY DEF IInv, TypeOK, CurrentOK, Gens
    <2> QED BY <1>1, <1>2, <1>3, <1>5, <2>1 DEF IInv, CurrentOK, Fencing, Gens
  <1>9. WorkerOK' /\ RecoveryOK' /\ RequestOK'
    BY <1>1, <1>2, <1>4, IdleRelies
  <1>10. AnswerOK'
    BY <1>4 DEF AnswerOK
  <1> QED BY <1>6, <1>7, <1>8, <1>9, <1>10 DEF IInv

LEMMA AttestStopStep == ASSUME IInv, AttestStop PROVE IInv'
  <1>1. /\ op.step = "stopped"
        /\ UNCHANGED <<floor, alive, groups, launched, epoch, genFloor, recovered, detached,
                       supervisor, inflight>>
    BY DEF AttestStop, At, kernel, executor
  <1>2. /\ op.gen \in Gens /\ op.gen \in 0 .. MaxGen /\ op.gen # 0 /\ op.gen \notin alive
        /\ inflight.kind = "NONE" /\ supervisor.gen = op.gen /\ op.gen = launched
        /\ op.gen <= launched /\ attest \in [Gens -> Attestation]
    <2>1. op.gen \notin alive /\ inflight.kind = "NONE" /\ supervisor.gen = op.gen
      BY <1>1 DEF IInv, RequestOK, WorkerOK
    <2>2. op.gen \in Gens /\ op.gen \in 0 .. MaxGen /\ op.gen # 0
      BY <1>1, OpGen
    <2>3. op.gen = launched /\ op.gen <= launched
      BY <2>1, <2>2 DEF IInv, SupervisorOK
    <2> QED BY <2>1, <2>2, <2>3, OpIs DEF IInv
  <1>3. CASE /\ attest' = [attest EXCEPT ![op.gen] = Record("EMPTY_DURABLE", epoch, TRUE)]
             /\ current' = [gen |-> op.gen, state |-> "STOPPED"] /\ Answer("STOPPED")
             /\ UNCHANGED quarantine
    <2>1. /\ op' = Idle /\ op' \in Requests /\ op'.step = "idle"
          /\ answer' \in Answers /\ answer'.status = "STOPPED" /\ answer'.gen = op.gen
      BY <1>3, Answered
    <2>2. /\ attest' \in [Gens -> Attestation] /\ attest'[op.gen].state = "EMPTY_DURABLE"
          /\ \A g \in Gens : g # op.gen => attest'[g] = attest[g]
      BY <1>2, <1>3, LiveIs, ZenonT(30) DEF IInv
    <2>3. current'.gen = op.gen /\ current'.state = "STOPPED"
      BY <1>3
    <2>4. TypeOK'
      BY <1>1, <1>2, <1>3, <2>1, <2>2, ZenonT(30) DEF IInv, TypeOK, Requests, Attestation,
         Answers
    <2>5. KernelOK' /\ SupervisorOK'
      <3>1. EmptyIsTrue'
        BY <1>1, <1>2, <2>2 DEF IInv, KernelOK, EmptyIsTrue
      <3>2. \A g \in Gens : attest'[g].state # "NONE" => g <= launched
        BY <1>2, <2>2 DEF IInv, KernelOK
      <3> QED BY <1>1, <1>2, <2>3, <3>1, <3>2, ZenonT(30) DEF IInv, KernelOK, SupervisorOK
    <2>6. CurrentOK'
      BY <1>1, <1>2, <2>3, ZenonT(30) DEF CurrentOK
    <2>7. WorkerOK' /\ RecoveryOK' /\ RequestOK'
      BY <1>1, <1>2, <2>1, IdleRelies
    <2>8. AnswerOK'
      BY <1>1, <1>2, <2>1 DEF AnswerOK
    <2> QED BY <2>4, <2>5, <2>6, <2>7, <2>8 DEF IInv
  <1>4. CASE attest' = FenceIdentity(op.gen) /\ quarantine' = TRUE /\ Reject /\ UNCHANGED current
    <2>1. Fencing(attest, attest')
      BY <1>2, <1>4, FenceIdentityIs DEF IInv
    <2>2. /\ KernelOK' /\ SupervisorOK' /\ CurrentOK'
          /\ inflight'.kind = "START" => Launchable(inflight.gen)'
      BY <1>1, <1>4, <2>1, FencedKeeps
    <2>3. /\ op' = Idle /\ op' \in Requests /\ op'.step = "idle"
          /\ answer' \in Answers /\ answer'.status = "NONE"
      BY <1>1, <1>4, Rejected
    <2>4. WorkerOK' /\ RecoveryOK' /\ RequestOK'
      BY <1>1, <1>2, <2>3, IdleRelies
    <2>5. TypeOK' /\ AnswerOK'
      BY <1>1, <1>4, <2>1, <2>3 DEF IInv, TypeOK, Requests, Attestation, Answers, Fencing,
         AnswerOK
    <2> QED BY <2>2, <2>4, <2>5 DEF IInv
  <1> QED BY <1>2, <1>3, <1>4, ZenonT(30) DEF AttestStop

LEMMA ProbedStep == ASSUME IInv, Probed PROVE IInv'
  <1>1. /\ op.step = "probed" /\ Answer("STATUS")
        /\ current' = [gen |-> op.gen, state |-> "RUNNING"]
        /\ UNCHANGED <<floor, attest, alive, groups, launched, epoch, genFloor, recovered,
                       quarantine, detached, supervisor, inflight>>
    BY DEF Probed, At, disk, kernel, executor
  <1>2. current' = current /\ inflight.kind = "NONE"
    BY <1>1, ZenonT(30) DEF IInv, RequestOK, WorkerOK
  <1>3. /\ op' = Idle /\ op' \in Requests /\ op'.step = "idle"
        /\ answer' \in Answers /\ answer'.status = "STATUS"
    BY <1>1, Answered
  <1>4. TypeOK'
    BY <1>1, <1>2, <1>3 DEF IInv, TypeOK, Requests, Attestation, Answers
  <1>5. KernelOK' /\ SupervisorOK' /\ CurrentOK'
    BY <1>1, <1>2 DEF IInv, KernelOK, SupervisorOK, CurrentOK, EmptyIsTrue
  <1>6. WorkerOK' /\ RecoveryOK' /\ RequestOK'
    BY <1>1, <1>2, <1>3, IdleRelies
  <1>7. AnswerOK'
    BY <1>3 DEF AnswerOK
  <1> QED BY <1>4, <1>5, <1>6, <1>7 DEF IInv

LEMMA FailedStep == ASSUME IInv, Failed PROVE IInv'
  <1>1. /\ op.step = "failed" /\ attest' \in {attest, FenceAttempt} /\ Reject
        /\ quarantine' = (quarantine \/ op.action = "STOP")
        /\ UNCHANGED <<floor, alive, groups, launched, epoch, current, genFloor, recovered,
                       detached, supervisor, inflight>>
    BY DEF Failed, At, kernel, executor
  <1>2. quarantine' \in BOOLEAN /\ (quarantine => quarantine')
    BY <1>1, ZenonT(30)
  <1>3. Fencing(attest, attest')
    BY <1>1, FenceAttemptIs, OpIs, ZenonT(30) DEF IInv, Fencing
  <1>4. UNCHANGED <<floor, alive, groups, launched, epoch, current, genFloor, recovered, detached,
                    supervisor, inflight>>
    BY <1>1
  <1>5. /\ KernelOK' /\ SupervisorOK' /\ CurrentOK'
        /\ inflight'.kind = "START" => Launchable(inflight.gen)'
    BY <1>2, <1>3, <1>4, FencedKeeps
  <1>6. /\ op' = Idle /\ op' \in Requests /\ op'.step = "idle"
        /\ answer' \in Answers /\ answer'.status = "NONE"
    BY <1>1, Rejected
  <1>7. op.step \notin {"starting", "rollback"}
    BY <1>1
  <1>8. WorkerOK' /\ RecoveryOK' /\ RequestOK'
    BY <1>2, <1>4, <1>5, <1>6, <1>7, IdleRelies, Pending
  <1>9. TypeOK' /\ AnswerOK'
    BY <1>2, <1>3, <1>4, <1>6 DEF IInv, TypeOK, Requests, Attestation, Answers, Fencing,
       AnswerOK
  <1> QED BY <1>5, <1>8, <1>9 DEF IInv


-----------------------------------------------------------------------------
(* Cancelled requests, the kernel and restarts.                            *)
LEMMA CancelStep == ASSUME IInv, Cancel PROVE IInv'
  <1>1. /\ quarantine' = (quarantine \/ At("cleanup"))
        /\ UNCHANGED <<floor, attest, alive, groups, launched, epoch, current, genFloor, recovered,
                       supervisor, inflight, answer>>
    BY DEF Cancel, disk, kernel, executor
  <1>2. quarantine' \in BOOLEAN /\ (quarantine => quarantine') /\ (op.step = "cleanup" => quarantine')
    BY <1>1, ZenonT(30) DEF At
  <1>3. detached' \in BOOLEAN
    BY ZenonT(30) DEF Cancel, IInv, TypeOK
  <1>4. Fencing(attest, attest')
    BY <1>1, OpIs DEF IInv, TypeOK, Fencing, Attestation
  <1>5. UNCHANGED <<floor, alive, groups, launched, epoch, current, genFloor, recovered,
                    supervisor, inflight, answer, attest>>
    BY <1>1
  <1>6. /\ KernelOK' /\ SupervisorOK' /\ CurrentOK'
        /\ inflight'.kind = "START" => Launchable(inflight.gen)'
    BY <1>2, <1>4, <1>5, FencedKeeps
  <1>7. op.step # "idle"
    BY DEF Cancel, At
  <1>8. AnswerOK'
    BY <1>5, <1>7 DEF IInv, AnswerOK
  <1>9. op \in Requests
    BY OpIs DEF IInv
  <1>10. CASE op' = Idle /\ op.step \in {"cleanup", "recover", "finalize"}
    <2>1. inflight'.kind = "START" => quarantine'
      BY <1>2, <1>5, <1>10, Pending
    <2>2. WorkerOK' /\ RecoveryOK' /\ RequestOK'
      BY <1>6, <1>10, <2>1, IdleRelies
    <2>3. TypeOK'
      BY <1>2, <1>3, <1>5, <1>10, IdleIs DEF IInv, TypeOK, Requests, Attestation
    <2> QED BY <1>6, <1>8, <2>2, <2>3 DEF IInv
  <1>11. CASE op.step = "starting" /\ Goto("rollback")
    <2>1. SameRequest(op, op') /\ op'.step = "rollback" /\ op'.rec = op.rec
      BY <1>9, <1>11, Moved DEF Steps
    <2>2. TypeOK'
      BY <1>2, <1>3, <1>5, <2>1 DEF IInv, TypeOK, SameRequest, Requests, Attestation
    <2>3. WorkerOK' /\ RecoveryOK' /\ RequestOK'
      BY <1>5, <1>6, <1>11, <2>1, ZenonT(30) DEF IInv, WorkerOK, RecoveryOK, RequestOK,
         SameRequest
    <2> QED BY <1>6, <1>8, <2>2, <2>3 DEF IInv
  <1>12. CASE op.step \in {"working", "cleanup"} /\ Goto("failed")
    <2>1. SameRequest(op, op') /\ op'.step = "failed" /\ op'.rec = op.rec
      BY <1>9, <1>12, Moved DEF Steps
    <2>2. TypeOK'
      BY <1>2, <1>3, <1>5, <2>1 DEF IInv, TypeOK, SameRequest, Requests, Attestation
    <2>3. inflight.kind # "START"
      BY <1>12, NotStarting
    <2>4. WorkerOK' /\ RecoveryOK' /\ RequestOK'
      BY <1>5, <1>12, <2>1, <2>3, ZenonT(30) DEF IInv, WorkerOK, RecoveryOK, RequestOK,
         SameRequest
    <2> QED BY <1>6, <1>8, <2>2, <2>4 DEF IInv
  <1> QED BY <1>10, <1>11, <1>12 DEF Cancel, At

LEMMA ExitStep == ASSUME IInv, Exit PROVE IInv'
  <1>1. /\ alive' \subseteq alive
        /\ UNCHANGED <<floor, attest, groups, launched, epoch, current, genFloor, recovered,
                       quarantine, detached, supervisor, inflight, op, answer>>
    BY DEF Exit, disk, memory, executor
  <1>2. TypeOK'
    BY <1>1 DEF IInv, TypeOK
  <1>3. KernelOK' /\ SupervisorOK' /\ CurrentOK'
    BY <1>1, ZenonT(30) DEF IInv, KernelOK, SupervisorOK, CurrentOK, EmptyIsTrue
  <1>4. inflight.kind = "START" => Launchable(inflight.gen)'
    BY <1>1, ZenonT(30) DEF IInv, WorkerOK, Launchable
  <1>5. op.step = "call" => Launchable(op.gen)'
    BY <1>1, ZenonT(30) DEF IInv, RequestOK, Launchable
  <1>6. WorkerOK' /\ RecoveryOK'
    BY <1>1, <1>4, ZenonT(30) DEF IInv, WorkerOK, RecoveryOK
  <1>7. RequestOK' /\ AnswerOK'
    BY <1>1, <1>5, ZenonT(30) DEF IInv, RequestOK, AnswerOK
  <1> QED BY <1>2, <1>3, <1>6, <1>7 DEF IInv

(* A new Runtime process remembers nothing: its invariant rests on what    *)
(* the kernel and the disk keep.                                           *)
LEMMA Fresh ==
    ASSUME current' = Unknown, genFloor' = 0, recovered' = 0, quarantine' = FALSE,
           detached' = FALSE, supervisor' = NoProcess, inflight' = NoWork,
           op' = Idle, answer' = NoAnswer
    PROVE  /\ SupervisorOK' /\ CurrentOK' /\ WorkerOK' /\ RecoveryOK' /\ RequestOK' /\ AnswerOK'
           /\ current' \in [gen : 0 .. MaxGen, state : {"NONE", "RUNNING", "STOPPED", "UNKNOWN"}]
           /\ supervisor' \in [gen : 0 .. MaxGen,
                               state : {"NONE", "LIVE", "LOGIN", "BROKEN", "STOPPED"}, bound : BOOLEAN]
           /\ inflight' \in [kind : {"NONE", "START", "STOP", "STATUS"}, gen : 0 .. MaxGen]
           /\ op' \in Requests
           /\ answer' \in [status : {"NONE", "RUNNING", "STOPPED", "STATUS"}, gen : 0 .. MaxGen]
           /\ recovered' \in 0 .. MaxGen /\ genFloor' \in 0 .. MaxGen
           /\ quarantine' \in BOOLEAN /\ detached' \in BOOLEAN
  <1>1. 0 \in 0 .. MaxGen
    BY RuntimeAssumption
  <1>2. /\ current'.gen = 0 /\ current'.state = "NONE" /\ supervisor'.gen = 0
        /\ supervisor'.state = "NONE" /\ inflight'.kind = "NONE"
    BY DEF Unknown, NoProcess, NoWork
  <1>3. SupervisorOK' /\ CurrentOK'
    BY <1>2 DEF SupervisorOK, CurrentOK
  <1>4. WorkerOK' /\ RecoveryOK' /\ RequestOK'
    BY <1>2, IdleRelies
  <1>5. AnswerOK'
    BY NoAnswerIs DEF AnswerOK
  <1>6. /\ current' \in [gen : 0 .. MaxGen, state : {"NONE", "RUNNING", "STOPPED", "UNKNOWN"}]
        /\ supervisor' \in [gen : 0 .. MaxGen,
                            state : {"NONE", "LIVE", "LOGIN", "BROKEN", "STOPPED"}, bound : BOOLEAN]
        /\ inflight' \in [kind : {"NONE", "START", "STOP", "STATUS"}, gen : 0 .. MaxGen]
    BY <1>1 DEF Unknown, NoProcess, NoWork
  <1> QED BY <1>1, <1>3, <1>4, <1>5, <1>6, IdleIs, NoAnswerIs, ZenonT(30)

LEMMA RestartStep == ASSUME IInv, Restart PROVE IInv'
  <1>1. /\ epoch' \in Epochs /\ alive' \subseteq alive /\ alive' \subseteq groups'
        /\ groups' \subseteq groups /\ recovered' = 0 /\ UNCHANGED <<floor, attest, launched>>
    BY RuntimeAssumption DEF Restart, IInv, TypeOK, disk, Epochs
  <1>2. /\ SupervisorOK' /\ CurrentOK' /\ WorkerOK' /\ RecoveryOK' /\ RequestOK' /\ AnswerOK'
        /\ current' \in [gen : 0 .. MaxGen, state : {"NONE", "RUNNING", "STOPPED", "UNKNOWN"}]
        /\ supervisor' \in [gen : 0 .. MaxGen,
                            state : {"NONE", "LIVE", "LOGIN", "BROKEN", "STOPPED"}, bound : BOOLEAN]
        /\ inflight' \in [kind : {"NONE", "START", "STOP", "STATUS"}, gen : 0 .. MaxGen]
        /\ op' \in Requests
        /\ answer' \in [status : {"NONE", "RUNNING", "STOPPED", "STATUS"}, gen : 0 .. MaxGen]
        /\ recovered' \in 0 .. MaxGen /\ genFloor' \in 0 .. MaxGen
        /\ quarantine' \in BOOLEAN /\ detached' \in BOOLEAN
    BY Fresh, ZenonT(30) DEF Restart
  <1>3. TypeOK'
    BY <1>1, <1>2 DEF IInv, TypeOK, Requests, Attestation
  <1>4. KernelOK'
    BY <1>1 DEF IInv, TypeOK, KernelOK, EmptyIsTrue
  <1> QED BY <1>2, <1>3, <1>4 DEF IInv

-----------------------------------------------------------------------------
(* The theorems.                                                           *)
LEMMA InitInv == Init => IInv
  <1> SUFFICES ASSUME Init PROVE IInv
    OBVIOUS
  <1>1. /\ current.gen = 0 /\ current.state = "NONE" /\ supervisor.gen = 0
        /\ supervisor.state = "NONE" /\ inflight.kind = "NONE"
        /\ op.step = "idle" /\ answer.status = "NONE"
    BY IdleIs, NoAnswerIs DEF Init, Unknown, NoProcess, NoWork
  <1>2. 0 \in 0 .. MaxGen /\ 0 \in 0 .. MaxEpoch /\ 1 \in Epochs
    BY RuntimeAssumption DEF Epochs
  <1>3. attest \in [Gens -> Attestation] /\ \A g \in Gens : attest[g].state = "NONE"
    BY NoRecordIs DEF Init
  <1>4. TypeOK
    <2>1. op \in Requests /\ answer \in Answers
      BY IdleIs, NoAnswerIs DEF Init, Answers
    <2>2. /\ current \in [gen : 0 .. MaxGen, state : {"NONE", "RUNNING", "STOPPED", "UNKNOWN"}]
          /\ supervisor \in [gen : 0 .. MaxGen,
                             state : {"NONE", "LIVE", "LOGIN", "BROKEN", "STOPPED"}, bound : BOOLEAN]
          /\ inflight \in [kind : {"NONE", "START", "STOP", "STATUS"}, gen : 0 .. MaxGen]
          /\ floor \in [gen : 0 .. MaxGen, epoch : 0 .. MaxEpoch]
      BY <1>2 DEF Init, Unknown, NoProcess, NoWork
    <2> QED BY <1>2, <1>3, <2>1, <2>2, ZenonT(30) DEF Init, TypeOK, Requests, Answers,
               Attestation
  <1>5. KernelOK /\ SupervisorOK /\ CurrentOK
    BY <1>1, <1>3 DEF Init, KernelOK, SupervisorOK, CurrentOK, EmptyIsTrue
  <1>6. WorkerOK /\ RecoveryOK /\ RequestOK /\ AnswerOK
    BY <1>1, ZenonT(30) DEF WorkerOK, RecoveryOK, RequestOK, AnswerOK
  <1> QED BY <1>4, <1>5, <1>6 DEF IInv

LEMMA StutterStep == ASSUME IInv, UNCHANGED vars PROVE IInv'
  <1>1. /\ Still /\ UNCHANGED <<op, answer>>
    BY DEF vars, Still
  <1>2. UNCHANGED <<floor, attest, alive, groups, launched, epoch, current, genFloor, recovered,
                    quarantine, detached, supervisor, inflight, op, answer>>
    BY <1>1, StillKeeps
  <1>3. TypeOK' /\ KernelOK'
    BY <1>2 DEF IInv, TypeOK, KernelOK, EmptyIsTrue
  <1>4. SupervisorOK' /\ CurrentOK' /\ AnswerOK'
    BY <1>2, ZenonT(30) DEF IInv, SupervisorOK, CurrentOK, AnswerOK
  <1>5. WorkerOK' /\ RecoveryOK'
    BY <1>2, ZenonT(30) DEF IInv, WorkerOK, RecoveryOK, Launchable
  <1>6. RequestOK'
    BY <1>2, ZenonT(30) DEF IInv, RequestOK, Launchable
  <1> QED BY <1>3, <1>4, <1>5, <1>6 DEF IInv

LEMMA NextInv == IInv /\ [Next]_vars => IInv'
  <1> SUFFICES ASSUME IInv, [Next]_vars PROVE IInv'
    OBVIOUS
  <1>1. CASE Request
    BY <1>1, BeginStep DEF Request
  <1>2. CASE Observe \/ Acknowledge \/ Migrate \/ Finalize
    BY <1>2, ObserveStep, AcknowledgeStep, MigrateStep, FinalizeStep
  <1>3. CASE AlreadyRunning \/ AlreadyStopped \/ Refuse \/ Burn \/ Call
    BY <1>3, AlreadyRunningStep, AlreadyStoppedStep, RefuseStep, BurnStep, CallStep
  <1>4. CASE AttestStart \/ Publish \/ Rollback \/ Cleanup \/ CleanedUp
    BY <1>4, AttestStartStep, PublishStep, RollbackStep, CleanupStep, CleanedUpStep
  <1>5. CASE AttestStop \/ Probed \/ Failed
    BY <1>5, AttestStopStep, ProbedStep, FailedStep
  <1>6. CASE Workers
    BY <1>6, StartWorkerStep, StopWorkerStep, ProbeWorkerStep DEF Workers
  <1>7. CASE Cancel
    BY <1>7, CancelStep
  <1>8. CASE Exit \/ Restart
    BY <1>8, ExitStep, RestartStep
  <1>9. CASE UNCHANGED vars
    BY <1>9, StutterStep
  <1> QED BY <1>1, <1>2, <1>3, <1>4, <1>5, <1>6, <1>7, <1>8, <1>9 DEF Next, Registry


(* Every step of the Runtime is a launch, an end of processes, or leaves   *)
(* the processes alone.                                                    *)
LEMMA ProcessStep ==
    ASSUME IInv, [Next]_vars
    PROVE  [Processes!Next]_<<launched, alive>>
  <1> USE DEF kernel
  <1>1. CASE StartWorker
    <2>1. CASE Startable(inflight.gen) /\ SupervisorStart(inflight.gen)
      <3>1. inflight.kind = "START"
        BY <1>1 DEF StartWorker
      <3>2. alive = {} /\ launched < inflight.gen
        BY <2>1, <3>1, LaunchIsFirst
      <3>3. launched' = inflight.gen /\ alive' \subseteq {inflight.gen}
        BY <2>1, <3>2 DEF SupervisorStart, Launch
      <3>4. launched \in Int /\ inflight.gen \in Int
        BY DEF IInv, TypeOK
      <3> QED BY <3>2, <3>3, <3>4 DEF Processes!Next, Processes!Launch
    <2>2. CASE UNCHANGED kernel
      BY <2>2 DEF Processes!Next, Processes!Exit
    <2> QED BY <1>1, <2>1, <2>2 DEF StartWorker
  <1>2. CASE Request
    BY <1>2 DEF Request, Begin, Processes!Next, Processes!Exit
  <1>3. CASE Registry
    <2>1. alive' = alive /\ launched' = launched
      BY <1>3, ZenonT(30) DEF Registry, Observe, Acknowledge, Migrate, Finalize,
         AlreadyRunning, AlreadyStopped,
                  Refuse, Burn, Call, AttestStart, Publish, Rollback, Cleanup, CleanedUp, AttestStop,
                  Probed, Failed
    <2> QED BY <2>1
  <1>4. CASE StopWorker \/ ProbeWorker
    BY <1>4, ZenonT(30) DEF StopWorker, SupervisorStop, Kill, ProbeWorker, Processes!Next,
       Processes!Exit
  <1>5. CASE Cancel \/ Exit \/ Restart
    BY <1>5 DEF Cancel, Exit, Restart, Processes!Next, Processes!Exit
  <1>6. CASE UNCHANGED vars
    BY <1>6 DEF vars
  <1> QED BY <1>1, <1>2, <1>3, <1>4, <1>5, <1>6 DEF Next, Workers

(* The inductive invariant holds in every reachable state of one           *)
(* workspace's Runtime: requests, worker threads, cancellations, exits and *)
(* restarts in any order.                                                  *)
THEOREM RuntimeInvariance == Spec => []IInv
  BY InitInv, NextInv, PTL DEF Spec

(* An EMPTY_DURABLE attestation is true when it is written and stays true: *)
(* no later start brings a recorded generation back, and no restart        *)
(* forgets one that still has processes (recover_empty, advance).          *)
THEOREM EmptinessIsTrue == Spec => []EmptyIsTrue
  <1>1. IInv => EmptyIsTrue
    BY DEF IInv, KernelOK
  <1> QED BY <1>1, RuntimeInvariance, PTL

(* The registry's positive answers are true of the kernel and of the       *)
(* executor, with workers and cleanups that outlive their request.         *)
THEOREM RuntimeAnswersAreTrue == Spec => []AnswersAreTrue
  <1>1. IInv => AnswersAreTrue
    BY DEF IInv, AnswerOK, AnswersAreTrue
  <1> QED BY <1>1, RuntimeInvariance, PTL

(* The Runtime implements WorkspaceProcesses: a process is launched only   *)
(* when no earlier generation has one, and in increasing order.            *)
THEOREM RuntimeImplementsProcesses == Spec => ImplementsProcesses
  <1>1. Init => Processes!Init
    BY DEF Init, Processes!Init
  <1>2. IInv /\ [Next]_vars => [Processes!Next]_<<launched, alive>>
    BY ProcessStep
  <1> QED BY <1>1, <1>2, RuntimeInvariance, PTL DEF Spec, ImplementsProcesses, Processes!Spec


(* What is recorded empty is never recorded otherwise: no fence, retry,    *)
(* start or recovery, in this Runtime process or a later one, reopens a    *)
(* generation (WAWCgroupAttestationStore.write, replace).                  *)
EmptyStaysRecorded ==
    [][\A g \in Gens : attest[g].state = "EMPTY_DURABLE" => attest'[g].state = "EMPTY_DURABLE"]_vars

LEMMA RecordStep ==
    ASSUME IInv, [Next]_vars, NEW g \in Gens, attest[g].state = "EMPTY_DURABLE"
    PROVE  attest'[g].state = "EMPTY_DURABLE"
  <1>1. attest \in [Gens -> Attestation] /\ floor.gen \in 0 .. MaxGen
    BY DEF IInv, TypeOK, Attestation
  <1>2. CASE UNCHANGED attest
    BY <1>2
  <1>3. CASE Acknowledge
    <2>1. \/ UNCHANGED attest
          \/ /\ op.rec.state = "EMPTY_DURABLE"
             /\ attest' = [attest EXCEPT ![floor.gen] = op.rec]
      BY <1>3, ZenonT(30) DEF Acknowledge, Acknowledged
    <2> QED BY <1>1, <2>1
  <1>4. CASE AlreadyStopped \/ CleanedUp \/ Failed
    <2>1. op.step \in {"admit", "stopped", "failed"}
      BY <1>4 DEF AlreadyStopped, CleanedUp, Failed, At
    <2>2. op.gen \in Gens
      BY <2>1, ZenonT(30) DEF IInv, RequestOK
    <2>3. attest' \in {attest, FenceIdentity(op.gen), FenceAttempt}
      BY <1>4 DEF AlreadyStopped, CleanedUp, Failed
    <2>4. CASE attest' = FenceIdentity(op.gen)
      BY <2>2, <2>4, FenceIdentityIs, ZenonT(30) DEF IInv, Fencing
    <2>5. CASE op.step \in {"stopped", "failed"} /\ attest' = FenceAttempt
      BY <2>5, FenceAttemptIs DEF IInv, Fencing
    <2>6. AlreadyStopped => attest' = FenceIdentity(op.gen)
      BY DEF AlreadyStopped
    <2>7. CleanedUp \/ Failed => op.step \in {"stopped", "failed"}
      BY DEF CleanedUp, Failed, At
    <2> QED BY <1>2, <1>4, <2>3, <2>4, <2>5, <2>6, <2>7
  <1>5. CASE AttestStart
    <2>1. CASE Writable(op.gen, Record("LIVE", epoch, TRUE))
               /\ attest' = [attest EXCEPT ![op.gen] = Record("LIVE", epoch, TRUE)]
      <3>1. op.gen # g
        <4> SUFFICES ASSUME op.gen = g PROVE FALSE
          OBVIOUS
        <4>1. op.gen \in Recorded
          BY DEF Recorded
        <4>2. Rank("LIVE") >= Rank("EMPTY_DURABLE")
          BY <2>1, <4>1 DEF Writable, Record
        <4> QED BY <4>2, RankIs
      <3> QED BY <1>1, <2>1, <3>1, ZenonT(30)
    <2> QED BY <1>2, <1>5, <2>1, ZenonT(30) DEF AttestStart
  <1>6. CASE AttestStop
    <2>1. op.gen \in Gens /\ op.gen \notin alive
      BY <1>6, ZenonT(30) DEF AttestStop, At, IInv, RequestOK
    <2>2. \/ attest' = FenceIdentity(op.gen)
          \/ attest' = [attest EXCEPT ![op.gen] = Record("EMPTY_DURABLE", epoch, TRUE)]
      BY <1>6, <2>1, ZenonT(30) DEF AttestStop
    <2>3. CASE attest' = FenceIdentity(op.gen)
      BY <2>1, <2>3, FenceIdentityIs DEF IInv, Fencing
    <2>4. CASE attest' = [attest EXCEPT ![op.gen] = Record("EMPTY_DURABLE", epoch, TRUE)]
      BY <1>1, <2>4 DEF Record
    <2> QED BY <2>2, <2>3, <2>4, ZenonT(30)
  <1>7. CASE Request \/ Workers \/ Cancel \/ Exit \/ Restart \/ UNCHANGED vars
    BY <1>2, <1>7, ZenonT(30) DEF Request, Begin, Workers, StartWorker, StopWorker,
       ProbeWorker, Cancel, Exit,
                      Restart, vars, disk
  <1>8. CASE \/ Observe \/ Migrate \/ Finalize \/ AlreadyRunning \/ Refuse \/ Burn \/ Call
             \/ Publish \/ Rollback \/ Cleanup \/ Probed
    BY <1>2, <1>8, ZenonT(30) DEF Observe, Migrate, Finalize, AlreadyRunning, Refuse, Burn,
       Call, Publish,
                      Rollback, Cleanup, Probed, disk
  <1> QED BY <1>3, <1>4, <1>5, <1>6, <1>7, <1>8 DEF Next, Registry

(* EmptyStaysRecorded, through every failure and restart.                  *)
THEOREM EmptinessIsKept == Spec => EmptyStaysRecorded
  <1>1. IInv /\ [Next]_vars =>
          [\A g \in Gens : attest[g].state = "EMPTY_DURABLE" =>
                              attest'[g].state = "EMPTY_DURABLE"]_vars
    BY RecordStep
  <1> QED BY <1>1, RuntimeInvariance, PTL DEF Spec, EmptyStaysRecorded
=============================================================================
