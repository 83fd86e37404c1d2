-------------------------- MODULE WorkspaceRuntime --------------------------
(***************************************************************************)
(* One workspace in the Runtime: the lifecycle registry (waw_lifecycle.py),*)
(* its two durable stores (the generation floor, waw_workspace_            *)
(* attestation.py, and the cgroup attestations, waw_cgroup_attestation_    *)
(* store.py), the executor with its supervisor and worker threads          *)
(* (waw_runtime_executor.py, waw_supervisor.py, waw_process_inspector.py)  *)
(* and the kernel's cgroups, in the production composition, where both     *)
(* stores are present.                                                     *)
(*                                                                         *)
(* The registry runs one request at a time under its lock: op is that      *)
(* request, and a step of it ends where the code awaits a thread or makes  *)
(* a durable write, so that a crash can fall between any two.  Requests    *)
(* carry any generation: the API's choice is not trusted.  The project,    *)
(* agent and binding of an identity never differ here.  Another workspace  *)
(* touches this one only through the lock and through its detached         *)
(* cleanups, which make a recovery give up: the failure of Observe.        *)
(***************************************************************************)
EXTENDS Integers, FiniteSets, FiniteSetsExt

CONSTANTS
    MaxGen,    \* bound on the generations
    MaxEpoch   \* bound on the Runtime's restarts

ASSUME RuntimeAssumption == MaxGen \in Nat \ {0} /\ MaxEpoch \in Nat \ {0}

Gens == 1 .. MaxGen
Epochs == 1 .. MaxEpoch

VARIABLES
    floor,       \* disk: the floor record [gen, epoch], gen 0 when there is none
    attest,      \* disk: per generation its cgroup attestation
    alive,       \* kernel: generations whose cgroup is populated
    groups,      \* kernel: generations whose cgroup directory exists
    epoch,       \* _runtime_epoch
    current,     \* _workspaces: the generation (0: unknown) and its last observation
    genFloor,    \* _generation_floor
    recovered,   \* _recovered_generation_floor
    quarantine,  \* in _cleanup_quarantine
    detached,    \* in _detached_cleanup_identities
    supervisor,  \* _supervisors: generation (0: none), state, has a process binding
    inflight,    \* _inflight: the executor's one worker, its kind and generation
    op,          \* the request that holds the registry's lock
    answer,      \* the last positive answer and the generation it names
    launched     \* history: the last generation whose start reached the process port

disk == <<floor, attest>>
kernel == <<alive, groups, launched>>
memory == <<current, genFloor, recovered, quarantine, detached>>
executor == <<supervisor, inflight>>
vars == <<disk, kernel, epoch, memory, executor, op, answer>>

-----------------------------------------------------------------------------
(* Attestations                                                             *)

States == <<"NONE", "LIVE", "FENCED", "EMPTY_DURABLE">>
Rank(s) == CHOOSE i \in 1 .. 4 : States[i] = s

Record(s, e, p) == [state |-> s, epoch |-> e, present |-> p]
NoRecord == Record("NONE", 0, FALSE)

Recorded == {g \in Gens : attest[g].state # "NONE"}
Latest == IF Recorded = {} THEN 0 ELSE Max(Recorded)
Unresolved == {g \in Recorded : attest[g].state # "EMPTY_DURABLE"}

(* WAWCgroupAttestationStore.write: a later state of a recorded generation, *)
(* or the generation after an empty one of the same epoch.                  *)
Writable(g, r) ==
    /\ r.present
    /\ IF g \in Recorded
       THEN /\ r.epoch = attest[g].epoch /\ r.present = attest[g].present
            /\ Rank(r.state) >= Rank(attest[g].state)
       ELSE \/ g = 1
            \/ /\ g # 1 /\ Latest = g - 1
               /\ attest[g - 1].state = "EMPTY_DURABLE"
               /\ attest[g - 1].epoch = r.epoch

(* _fence_cgroup_attestation: a LIVE record is written FENCED, any other as *)
(* it is.  What the store refuses leaves it as it was.                      *)
Fenced(r) == IF r.state = "LIVE" THEN [r EXCEPT !.state = "FENCED"] ELSE r
Fence(g, r) == IF Writable(g, Fenced(r)) THEN [attest EXCEPT ![g] = Fenced(r)] ELSE attest
FenceIdentity(g) == IF g \in Recorded THEN Fence(g, attest[g]) ELSE attest

-----------------------------------------------------------------------------
(* Requests                                                                 *)

Idle == [step |-> "idle", action |-> "NONE", gen |-> 0, rec |-> NoRecord]
NoAnswer == [status |-> "NONE", gen |-> 0]
NoProcess == [gen |-> 0, state |-> "NONE", bound |-> FALSE]
NoWork == [kind |-> "NONE", gen |-> 0]
Unknown == [gen |-> 0, state |-> "NONE"]

At(step) == op.step = step
Goto(step) == op' = [op EXCEPT !.step = step]
Resume == op' = [op EXCEPT !.step = "admit", !.rec = NoRecord]
Reject == op' = Idle /\ UNCHANGED answer
Answer(status) == op' = Idle /\ answer' = [status |-> status, gen |-> op.gen]

(* Mutant: the live record of any generation will do.                      *)
ActiveLive_AnyGeneration(g) ==
    /\ current.gen # 0
    /\ \E u \in Gens : Unresolved = {u} /\ attest[u].state = "LIVE"

(* The one unresolved record may stand when it is the live one of the very  *)
(* generation the request names.                                            *)
ActiveLive(g) ==
    /\ current.gen = g
    /\ \E u \in Gens : Unresolved = {u} /\ attest[u].state = "LIVE"

(* _hydrate_durable_generation_floor: a durable generation this process     *)
(* does not know and has not recovered is quarantined.                      *)
Hydrated == quarantine \/ (current.gen = 0 /\ floor.gen > recovered)

(* _lifecycle up to its first await: the floor is hydrated, a generation    *)
(* below it refused, the attestations read, and a quarantined workspace     *)
(* refused to every action but Start, which tries to recover it.            *)
Begin(action, g) ==
    LET f == Max({genFloor, floor.gen})
        q == Hydrated \/ (Unresolved # {} /\ ~ActiveLive(g))
    IN  /\ At("idle")
        /\ answer' = NoAnswer
        /\ IF g < f
           THEN genFloor' = f /\ quarantine' = Hydrated /\ op' = Idle
           ELSE /\ genFloor' = IF Hydrated THEN f ELSE Max({f, Latest})
                /\ quarantine' = q
                /\ op' = IF q /\ action # "START" THEN Idle
                         ELSE [step |-> IF q THEN "recover" ELSE "admit",
                               action |-> action, gen |-> g, rec |-> NoRecord]
        /\ UNCHANGED <<disk, kernel, epoch, current, recovered, detached, executor>>

-----------------------------------------------------------------------------
(* _recover_persisted_workspace                                             *)

Recoverable ==
    /\ current.gen = 0 /\ ~detached
    /\ floor.gen # 0 /\ Latest = floor.gen /\ floor.epoch <= epoch

(* finalize_recovery: rmdir, only of a group that is there and empty.       *)
Removable(g) == g \in groups \ alive

(* Mutant: STOPPED is taken for the proof of emptiness.                     *)
Observed_Trusts(gs) == Record("EMPTY_DURABLE", epoch, floor.gen \in gs)

(* What observe_recovery reads of the cgroup: whether it is there, and      *)
(* whether it is populated.                                                 *)
Observed(gs) ==
    IF floor.gen \in gs
    THEN Record(IF floor.gen \in alive THEN "FENCED" ELSE "EMPTY_DURABLE", epoch, TRUE)
    ELSE Record("EMPTY_DURABLE", epoch, FALSE)

(* A group already recorded empty in this epoch is removed first; then the  *)
(* group is observed.  Any failure leaves the quarantine to Admit.          *)
Observe ==
    /\ At("recover")
    /\ \/ Resume /\ UNCHANGED groups
       \/ /\ Recoverable
          /\ LET done == attest[floor.gen] = Record("EMPTY_DURABLE", epoch, TRUE)
             IN  /\ groups' = IF done THEN groups \ {floor.gen} ELSE groups
                 /\ done => floor.gen \notin alive
          /\ op' = [op EXCEPT !.step = "ack", !.rec = Observed(groups')]
    /\ UNCHANGED <<disk, alive, launched, epoch, memory, executor, answer>>

(* What _acknowledge_cgroup_cleanup accepts: an empty observation of the    *)
(* floor's generation, every older generation being empty already.          *)
Acknowledged(old, new) ==
    /\ new.state = "EMPTY_DURABLE"
    /\ Unresolved \subseteq {floor.gen}
    /\ \/ old.epoch < epoch
       \/ old.state = "EMPTY_DURABLE" /\ old.present
       \/ old.present = new.present

(* The record is replaced first, the floor's epoch moved after it: a crash  *)
(* between the two is what recover_epoch's retry is for.  A write that      *)
(* fails may have replaced the file, and leaves the quarantine.             *)
Acknowledge ==
    /\ At("ack")
    /\ LET new == [attest EXCEPT ![floor.gen] = op.rec]
       IN  \/ /\ Acknowledged(attest[floor.gen], op.rec)
              /\ \/ Goto("migrate") /\ attest' = new
                 \/ Resume /\ attest' \in {attest, new}
           \/ /\ ~Acknowledged(attest[floor.gen], op.rec)
              /\ Resume /\ UNCHANGED attest
    /\ UNCHANGED <<floor, kernel, epoch, memory, executor, answer>>

Migrate ==
    /\ At("migrate")
    /\ LET moved == [floor EXCEPT !.epoch = epoch]
       IN  \/ /\ floor' = moved
              /\ quarantine' = FALSE /\ recovered' = floor.gen
              /\ Goto("finalize")
           \/ /\ floor.epoch # epoch /\ floor' \in {floor, moved}
              /\ Resume
              /\ UNCHANGED <<quarantine, recovered>>
    /\ UNCHANGED <<attest, kernel, epoch, current, genFloor, detached, executor, answer>>

Finalize ==
    /\ At("finalize")
    /\ \/ /\ op.rec.present => Removable(floor.gen)
          /\ groups' = groups \ {floor.gen}
          /\ UNCHANGED quarantine
       \/ /\ op.rec.present
          /\ quarantine' = TRUE
          /\ groups' \in {groups, groups \ ({floor.gen} \ alive)}
    /\ Resume
    /\ UNCHANGED <<disk, alive, launched, epoch, current, genFloor, recovered, detached, executor,
                   answer>>

-----------------------------------------------------------------------------
(* _lifecycle after the quarantine                                          *)

(* A Start of the running generation, or of a newer one while it runs.      *)
AlreadyRunning ==
    /\ At("admit") /\ op.action = "START" /\ ~quarantine
    /\ current.state = "RUNNING"
    /\ current.gen = op.gen \/ op.gen > genFloor
    /\ Answer("RUNNING")
    /\ UNCHANGED <<disk, kernel, epoch, memory, executor>>

(* A Stop of the stopped generation fences its record once more.            *)
AlreadyStopped ==
    /\ At("admit") /\ op.action = "STOP" /\ ~quarantine
    /\ current = [gen |-> op.gen, state |-> "STOPPED"]
    /\ attest' = FenceIdentity(op.gen)
    /\ IF op.gen \in Recorded => Writable(op.gen, Fenced(attest[op.gen]))
       THEN Answer("STOPPED")
       ELSE Reject
    /\ UNCHANGED <<floor, kernel, epoch, memory, executor>>

StartAdmitted == op.action = "START" /\ current.state # "RUNNING" /\ op.gen > genFloor
ActionAdmitted ==
    /\ op.action # "START" /\ current.gen = op.gen
    /\ op.action = "STOP" => current.state # "STOPPED"

Refuse ==
    /\ At("admit")
    /\ quarantine \/ ~(StartAdmitted \/ ActionAdmitted)
    /\ Reject
    /\ UNCHANGED <<disk, kernel, epoch, memory, executor>>

(* WAWWorkspaceAttestationStore.advance: the generation is burned on disk   *)
(* before the executor is called, and stays burned when the call fails.     *)
Advanceable(g) ==
    IF floor.gen = 0 THEN g = 1 ELSE g > floor.gen /\ floor.epoch = epoch

Burn ==
    /\ At("admit") /\ ~quarantine /\ StartAdmitted
    /\ LET burned == [gen |-> op.gen, epoch |-> epoch]
       IN  \/ /\ Advanceable(op.gen)
              /\ floor' = burned
              /\ Goto("call")
              /\ UNCHANGED <<quarantine, answer>>
           \/ /\ floor' = floor \/ (Advanceable(op.gen) /\ floor' = burned)
              /\ quarantine' = TRUE
              /\ Reject
    /\ UNCHANGED <<attest, kernel, epoch, current, genFloor, recovered, detached, executor>>

(* _submit: one worker per workspace; a second one is WAW_OPERATION_BUSY.   *)
Submit(kind, busy, waiting) ==
    IF inflight.kind = "NONE"
    THEN inflight' = [kind |-> kind, gen |-> op.gen] /\ Goto(waiting)
    ELSE Goto(busy) /\ UNCHANGED inflight

Call ==
    /\ \/ At("call") /\ Submit("START", "rollback", "starting")
       \/ /\ At("admit") /\ ~quarantine /\ ActionAdmitted
          /\ Submit(op.action, "failed", "working")
    /\ UNCHANGED <<disk, kernel, epoch, memory, supervisor, answer>>

-----------------------------------------------------------------------------
(* The executor's worker threads.  Its result reaches the request only when *)
(* that still waits for it.                                                 *)

Settle(waiting, next) ==
    /\ inflight' = NoWork
    /\ detached' = FALSE
    /\ IF At(waiting) THEN Goto(next) ELSE UNCHANGED op

(* Mutant: a newer generation replaces the supervisor whatever its state.   *)
Startable_Newer(g) == supervisor.gen < g

(* _start_snapshot and _commit_start: every earlier supervisor is STOPPED   *)
(* and older, under its own lock.                                           *)
Startable(g) ==
    supervisor.gen = 0 \/ (supervisor.state = "STOPPED" /\ supervisor.gen < g)

Replace(g, state, bound) == supervisor' = [gen |-> g, state |-> state, bound |-> bound]

(* The process port creates the group and may get as far as a process,      *)
(* which its own cleanup may or may not have ended when it fails.           *)
Launch(g) ==
    /\ launched' = g
    /\ groups' = groups \cup {g}
    /\ alive' \in {alive, alive \cup {g}}

(* WAWSupervisor.start: LIVE with a process and a binding to stop it by,    *)
(* LOGIN_REQUIRED with neither, BROKEN with any of them.                    *)
SupervisorStart(g) ==
    /\ Launch(g)
    /\ \/ g \in alive' /\ Replace(g, "LIVE", TRUE) /\ Settle("starting", "attest")
       \/ g \notin alive' /\ Replace(g, "LOGIN", FALSE) /\ Settle("starting", "attest")
       \/ (\E b \in BOOLEAN : Replace(g, "BROKEN", b)) /\ Settle("starting", "rollback")

(* start on its worker thread; it may also fail before there is a supervisor. *)
StartWorker ==
    /\ inflight.kind = "START"
    /\ \/ Startable(inflight.gen) /\ SupervisorStart(inflight.gen)
       \/ Settle("starting", "rollback") /\ UNCHANGED <<kernel, supervisor>>
    /\ UNCHANGED <<disk, epoch, current, genFloor, recovered, quarantine, answer>>

(* Mutant: a cleanup that ends is taken for a foreground Stop.              *)
StopDone_Foreground(next) == Settle("working", next)

StopDone(next) == IF At("cleanup") THEN Settle("cleanup", next) ELSE Settle("working", next)

(* _stop_locked signals the group; it may fail before or after the last     *)
(* process is gone.                                                         *)
Kill(g) == alive' \in {alive, alive \ {g}}

(* WAWSupervisor.exact_stop: STOPPED only with evidence that the cgroup is  *)
(* empty, or when no process was ever started.                              *)
SupervisorStop(g) ==
    /\ supervisor.gen = g /\ supervisor.state # "STOPPED"
    /\ Kill(g)
    /\ \/ /\ g \notin alive' /\ (supervisor.bound \/ supervisor.state = "LOGIN")
          /\ Replace(g, "STOPPED", FALSE)
          /\ StopDone("stopped")
       \/ Replace(g, "BROKEN", supervisor.bound) /\ StopDone("failed")

StopWorker ==
    /\ inflight.kind = "STOP"
    /\ \/ SupervisorStop(inflight.gen)
       \/ StopDone("failed") /\ UNCHANGED <<alive, supervisor>>
    /\ UNCHANGED <<disk, groups, launched, epoch, current, genFloor, recovered, quarantine,
                   answer>>

(* _probe: a process that has exited is reported without an exit code,      *)
(* which _validate_observation refuses, so only RUNNING reaches the map.    *)
ProbeWorker ==
    /\ inflight.kind = "STATUS"
    /\ \/ /\ supervisor.gen = inflight.gen /\ supervisor.bound /\ inflight.gen \in alive
          /\ Settle("working", "probed")
       \/ Settle("working", "failed")
    /\ UNCHANGED <<disk, kernel, epoch, current, genFloor, recovered, quarantine, supervisor,
                   answer>>

-----------------------------------------------------------------------------
(* The end of a request                                                     *)

(* A started process is attested LIVE before it is exposed; what cannot be  *)
(* attested is stopped again and its record fenced.                         *)
AttestStart ==
    /\ At("attest")
    /\ LET live == Record("LIVE", epoch, TRUE)
       IN  \/ /\ supervisor.state = "LIVE" /\ op.gen \in alive
              /\ Writable(op.gen, live)
              /\ attest' = [attest EXCEPT ![op.gen] = live]
              /\ Goto("publish")
           \/ /\ op' = [op EXCEPT !.step = "discard",
                        !.rec = IF supervisor.state = "LOGIN" THEN Record("FENCED", epoch, TRUE)
                                ELSE IF op.gen \in alive THEN live ELSE NoRecord]
              /\ UNCHANGED attest
           \/ op' = [op EXCEPT !.step = "discard"] /\ UNCHANGED attest
    /\ UNCHANGED <<floor, kernel, epoch, memory, executor, answer>>

RaiseFloor(g) == genFloor' = Max({genFloor, g})

(* The floor is read back; then the generation is exposed.                  *)
Publish ==
    /\ At("publish")
    /\ \/ /\ current' = [gen |-> op.gen, state |-> "RUNNING"]
          /\ RaiseFloor(op.gen)
          /\ Answer("RUNNING")
          /\ UNCHANGED quarantine
       \/ /\ quarantine' = TRUE
          /\ op' = [op EXCEPT !.step = "discard", !.rec = Record("LIVE", epoch, TRUE)]
          /\ UNCHANGED <<current, genFloor, answer>>
    /\ UNCHANGED <<disk, kernel, epoch, recovered, detached, executor>>

(* _rollback_failed_executor_start retains the identity and quarantines it  *)
(* before it awaits the cleanup.                                            *)
Rollback ==
    /\ At("rollback")
    /\ RaiseFloor(op.gen)
    /\ current' = [gen |-> op.gen, state |-> "UNKNOWN"]
    /\ quarantine' = TRUE
    /\ Goto("discard")
    /\ UNCHANGED <<disk, kernel, epoch, recovered, detached, executor, answer>>

(* _cleanup_failed_start: the exact Stop of a start that failed.            *)
Cleanup ==
    /\ At("discard")
    /\ Submit("STOP", "failed", "cleanup")
    /\ UNCHANGED <<disk, kernel, epoch, memory, supervisor, answer>>

FenceAttempt == IF op.rec.state = "NONE" THEN FenceIdentity(op.gen) ELSE Fence(op.gen, op.rec)

(* A cleanup that proved STOPPED clears the UNKNOWN of a rollback, never    *)
(* the quarantine.                                                          *)
CleanedUp ==
    /\ At("stopped") /\ op.action = "START"
    /\ attest' = FenceAttempt
    /\ current' = IF current = [gen |-> op.gen, state |-> "UNKNOWN"]
                  THEN [current EXCEPT !.state = "STOPPED"] ELSE current
    /\ Reject
    /\ UNCHANGED <<floor, kernel, epoch, genFloor, recovered, quarantine, detached, executor>>

(* A Stop is answered only after what its group holds is recorded; when it  *)
(* cannot be, the workspace is quarantined and its record fenced.           *)
AttestStop ==
    /\ At("stopped") /\ op.action = "STOP"
    /\ LET seen == Record(IF op.gen \in alive THEN "FENCED" ELSE "EMPTY_DURABLE", epoch, TRUE)
       IN  \/ /\ op.gen \in groups /\ Writable(op.gen, seen)
              /\ attest' = [attest EXCEPT ![op.gen] = seen]
              /\ current' = [gen |-> op.gen, state |-> "STOPPED"]
              /\ Answer("STOPPED")
              /\ UNCHANGED quarantine
           \/ /\ attest' = FenceIdentity(op.gen)
              /\ quarantine' = TRUE
              /\ Reject
              /\ UNCHANGED current
    /\ UNCHANGED <<floor, kernel, epoch, genFloor, recovered, detached, executor>>

Probed ==
    /\ At("probed")
    /\ current' = [gen |-> op.gen, state |-> "RUNNING"]
    /\ Answer("STATUS")
    /\ UNCHANGED <<disk, kernel, epoch, genFloor, recovered, quarantine, detached, executor>>

(* What the executor raises ends a Stop in quarantine with its record       *)
(* fenced, a failed start's cleanup with its record fenced, and a Status    *)
(* with nothing.                                                            *)
Failed ==
    /\ At("failed")
    /\ attest' = IF op.action = "STATUS" THEN attest ELSE FenceAttempt
    /\ quarantine' = (quarantine \/ op.action = "STOP")
    /\ Reject
    /\ UNCHANGED <<floor, kernel, epoch, current, genFloor, recovered, detached, executor>>

(* The control server's deadline cancels the request where it awaits; the   *)
(* worker goes on.  A start is rolled back, a Stop fails, a cleanup is      *)
(* detached, as it also is by its own timeout; only cancelled, and outside  *)
(* a rollback, does it leave the record unfenced.                           *)
Cancel ==
    /\ \/ At("starting") /\ Goto("rollback") /\ UNCHANGED detached
       \/ At("working") /\ Goto("failed") /\ UNCHANGED detached
       \/ At("cleanup") /\ Goto("failed") /\ detached' = TRUE
       \/ At("cleanup") /\ current.state # "UNKNOWN" /\ op' = Idle /\ detached' = TRUE
       \/ (At("recover") \/ At("finalize")) /\ op' = Idle /\ UNCHANGED detached
    /\ quarantine' = (quarantine \/ At("cleanup"))
    /\ UNCHANGED <<disk, kernel, epoch, current, genFloor, recovered, executor, answer>>

-----------------------------------------------------------------------------
(* The kernel and the service manager.                                      *)

Exit ==
    /\ alive # {}
    /\ alive' \in (SUBSET alive) \ {alive}
    /\ UNCHANGED <<disk, groups, launched, epoch, memory, executor, op, answer>>

(* The Runtime process dies and a new epoch begins; its children may        *)
(* survive it, and empty groups may be swept.                               *)
Restart ==
    /\ epoch < MaxEpoch
    /\ epoch' = epoch + 1
    /\ alive' \in SUBSET alive
    /\ groups' \in {gs \in SUBSET groups : alive' \subseteq gs}
    /\ current' = Unknown /\ genFloor' = 0 /\ recovered' = 0
    /\ quarantine' = FALSE /\ detached' = FALSE
    /\ supervisor' = NoProcess /\ inflight' = NoWork
    /\ op' = Idle /\ answer' = NoAnswer
    /\ UNCHANGED <<disk, launched>>

Init ==
    /\ floor = [gen |-> 0, epoch |-> 0]
    /\ attest = [g \in Gens |-> NoRecord]
    /\ alive = {} /\ groups = {} /\ launched = 0
    /\ epoch = 1
    /\ current = Unknown /\ genFloor = 0 /\ recovered = 0
    /\ quarantine = FALSE /\ detached = FALSE
    /\ supervisor = NoProcess /\ inflight = NoWork
    /\ op = Idle /\ answer = NoAnswer

Request == \E a \in {"START", "STOP", "STATUS"}, g \in Gens : Begin(a, g)

Registry ==
    \/ Observe \/ Acknowledge \/ Migrate \/ Finalize
    \/ AlreadyRunning \/ AlreadyStopped \/ Refuse \/ Burn \/ Call
    \/ AttestStart \/ Publish \/ Rollback \/ Cleanup \/ CleanedUp
    \/ AttestStop \/ Probed \/ Failed

Workers == StartWorker \/ StopWorker \/ ProbeWorker

Next == Request \/ Registry \/ Workers \/ Cancel \/ Exit \/ Restart

Spec == Init /\ [][Next]_vars

(* The event loop runs the request that holds the lock, and the process     *)
(* port bounds every wait of a worker.                                      *)
FairSpec == Spec /\ WF_vars(Registry) /\ WF_vars(Workers)

-----------------------------------------------------------------------------
Steps == {"idle", "recover", "ack", "migrate", "finalize", "admit", "call", "starting", "working",
          "attest", "publish", "rollback", "discard", "cleanup", "stopped", "probed", "failed"}

TypeOK ==
    /\ floor \in [gen : 0 .. MaxGen, epoch : 0 .. MaxEpoch]
    /\ attest \in [Gens -> [state : {"NONE", "LIVE", "FENCED", "EMPTY_DURABLE"},
                            epoch : 0 .. MaxEpoch, present : BOOLEAN]]
    /\ alive \subseteq Gens /\ groups \subseteq Gens /\ launched \in 0 .. MaxGen
    /\ epoch \in Epochs
    /\ current \in [gen : 0 .. MaxGen, state : {"NONE", "RUNNING", "STOPPED", "UNKNOWN"}]
    /\ genFloor \in 0 .. MaxGen /\ recovered \in 0 .. MaxGen
    /\ quarantine \in BOOLEAN /\ detached \in BOOLEAN
    /\ supervisor \in [gen : 0 .. MaxGen, state : {"NONE", "LIVE", "LOGIN", "BROKEN", "STOPPED"},
                       bound : BOOLEAN]
    /\ inflight \in [kind : {"NONE", "START", "STOP", "STATUS"}, gen : 0 .. MaxGen]
    /\ op \in [step : Steps, action : {"NONE", "START", "STOP", "STATUS"}, gen : 0 .. MaxGen,
               rec : [state : {"NONE", "LIVE", "FENCED", "EMPTY_DURABLE"},
                      epoch : 0 .. MaxEpoch, present : BOOLEAN]]
    /\ answer \in [status : {"NONE", "RUNNING", "STOPPED", "STATUS"}, gen : 0 .. MaxGen]

(* Processes of one workspace are launched one generation at a time, in     *)
(* increasing order, across failed starts, cancelled requests, unconfirmed  *)
(* stops and restarts that leave processes behind.                          *)
Processes == INSTANCE WorkspaceProcesses
ImplementsProcesses == Processes!Spec

(* An EMPTY_DURABLE attestation is never written while its generation has   *)
(* processes, and stays true (waw_cgroup_observation.py, recover_empty).    *)
EmptyIsTrue ==
    \A g \in Gens : attest[g].state = "EMPTY_DURABLE" => g \notin alive

(* An answer STOPPED is given only when the generation's processes are gone *)
(* and recorded gone; an answer RUNNING names the generation that the       *)
(* registry and the executor really hold.                                   *)
AnswersAreTrue ==
    /\ answer.status = "STOPPED" => answer.gen \notin alive
    /\ answer.status = "RUNNING" => answer.gen = current.gen /\ answer.gen = supervisor.gen

(* The registry's lock is always released: a request never waits for a      *)
(* worker that will not answer it, though a worker may outlive its request. *)
LockIsReleased == ~At("idle") ~> At("idle")

(* WAW3_RECOVERY_CONTRACTS.md: after a restart "a durable generation without *)
(* a known live row" needs "the existing independent empty-cgroup recovery   *)
(* acknowledgement", so with nothing alive that must be there to be asked.   *)
RecoveryIsOffered ==
    op = Idle /\ current.gen = 0 /\ floor.gen # 0 /\ alive = {} => Recoverable
=============================================================================
