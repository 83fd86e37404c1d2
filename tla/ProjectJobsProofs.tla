------------------------- MODULE ProjectJobsProofs --------------------------
(***************************************************************************)
(* Proofs about ProjectJobs, for any number of Jobs, Projects and worker   *)
(* processes, any fault budget and any clock: first the Job table and the  *)
(* workers, then what the end of a Job says about its Project.             *)
(***************************************************************************)
EXTENDS ProjectJobs, TLAPS

(* The provers every leaf below is tried with, in this order, and their    *)
(* time limits in seconds, unless the leaf names one itself.               *)
USE SMTT(15), ZenonT(30), SMTT(20)

-----------------------------------------------------------------------------
(* The Job table alone.                                                    *)
(* Each conjunct is inductive once the rows have their types.              *)
JobsInv ==
    JobsTypeOK /\ RunningLocksDistinct /\ RunningIsLeased /\ ClaimedAtMostOnce

(* What is needed of a row r that replaces row j: a running row is one     *)
(* that was running or is claimable, it is leased, and it was claimed once *)
RowOK(j, r) ==
    /\ r \in JobRow
    /\ r.status = "running" => /\ r.expires # 0 /\ r.owner \in Workers
                               /\ Running(j) \/ j \in Claimable
    /\ r.attempt <= 1
    /\ r.status = "queued" => r.attempt = 0

(* A step that claims at most one Job and keeps every row in order.        *)
TableStep(j) ==
    /\ jobs' = [k \in Jobs |-> jobs'[k]]
    /\ \A k \in Jobs : RowOK(k, jobs'[k])
    /\ \A k \in Jobs \ {j} : jobs'[k].status = "running" => Running(k)

LEMMA RowKept ==
    ASSUME JobsInv, NEW j \in Jobs
    PROVE  RowOK(j, jobs[j])
  BY DEF JobsInv, JobsTypeOK, RunningIsLeased, ClaimedAtMostOnce, RowOK, Running

(* A row update by primary key.                                            *)
LEMMA OneRow ==
    ASSUME JobsInv, NEW j \in Jobs, NEW r, RowOK(j, r), jobs' = [jobs EXCEPT ![j] = r]
    PROVE  TableStep(j)
  <1>1. \A k \in Jobs \ {j} : jobs'[k] = jobs[k]
    BY DEF JobsInv, JobsTypeOK
  <1>2. jobs'[j] = r
    BY DEF JobsInv, JobsTypeOK
  <1>3. \A k \in Jobs : RowOK(k, jobs'[k])
    BY <1>1, <1>2, RowKept
  <1>4. jobs' = [k \in Jobs |-> jobs'[k]]
    BY ZenonT(30) DEF JobsInv, JobsTypeOK
  <1> QED BY <1>1, <1>3, <1>4 DEF TableStep, Running

LEMMA TableStepInv ==
    ASSUME JobsInv, NEW j \in Jobs, TableStep(j), clock' \in 1 .. MaxTime
    PROVE  JobsInv'
  <1>1. JobsTypeOK'
    BY DEF JobsTypeOK, TableStep, RowOK
  <1>2. RunningIsLeased' /\ ClaimedAtMostOnce'
    BY DEF RunningIsLeased, ClaimedAtMostOnce, TableStep, RowOK, Running
  <1>3. RunningLocksDistinct'
    <2> SUFFICES ASSUME NEW a \in Jobs, NEW b \in Jobs, a # b,
                        jobs'[a].status = "running", jobs'[b].status = "running",
                        LockOf(a) = LockOf(b)
                 PROVE  FALSE
      BY DEF RunningLocksDistinct, Running, LockOf
    <2>1. CASE a # j /\ b # j
      BY <2>1 DEF TableStep, JobsInv, RunningLocksDistinct
    <2>2. CASE a = j \/ b = j
      <3>1. PICK c \in {a, b} : c # j
        BY <2>2
      <3>2. Running(c) /\ c \in Jobs /\ LockOf(c) = LockOf(j)
        BY <2>2, <3>1 DEF TableStep
      <3>3. Running(j) \/ j \in Claimable
        BY <2>2 DEF TableStep, RowOK
      <3>4. ~Running(j)
        BY <3>1, <3>2 DEF JobsInv, RunningLocksDistinct
      <3> QED BY <3>2, <3>3, <3>4 DEF Claimable
    <2> QED BY <2>1, <2>2
  <1> QED BY <1>1, <1>2, <1>3 DEF JobsInv

-----------------------------------------------------------------------------
(* One lemma per operation of the table.                                   *)
LEMMA EnqueueStep ==
    ASSUME JobsInv, NEW j \in Jobs, Enqueue(j)
    PROVE  TableStep(j)
  <1>1. clock \in Time /\ 0 \in Time
    BY JobServiceAssumption DEF JobsInv, JobsTypeOK, Time
  <1>2. RowOK(j, Unclaimed("queued", clock))
    BY <1>1 DEF RowOK, JobRow, Status, Unclaimed
  <1> QED BY <1>2, OneRow, ZenonT(30) DEF Enqueue

LEMMA ClaimStep ==
    ASSUME JobsInv, NEW j \in Jobs, NEW w \in Workers, ClaimNext(w, j)
    PROVE  TableStep(j)
  <1> DEFINE r == [status |-> "running", owner |-> w, expires |-> clock + LeaseSeconds,
                   attempt |-> jobs[j].attempt + 1, created |-> jobs[j].created,
                   finished |-> jobs[j].finished]
  <1>1. jobs[j] \in JobRow /\ clock \in 1 .. MaxTime
    BY DEF JobsInv, JobsTypeOK
  <1>2. jobs[j].attempt = 0 /\ j \in Claimable
    BY DEF ClaimNext, Claimable, JobsInv, ClaimedAtMostOnce
  <1>3. clock + LeaseSeconds \in Time /\ clock + LeaseSeconds # 0
    BY <1>1, JobServiceAssumption DEF Time
  <1>4. RowOK(j, r)
    BY <1>1, <1>2, <1>3 DEF RowOK, JobRow, Status
  <1>5. jobs' = [jobs EXCEPT ![j] = r]
    BY DEF ClaimNext
  <1> QED BY <1>4, <1>5, OneRow, ZenonT(30)

LEMMA RenewStep ==
    ASSUME JobsInv, NEW j \in Jobs, RenewWrite(j)
    PROVE  TableStep(j)
  <1> DEFINE r == [jobs[j] EXCEPT !.expires = clock + LeaseSeconds]
  <1>1. clock + LeaseSeconds \in Time /\ clock + LeaseSeconds # 0
    BY JobServiceAssumption DEF JobsInv, JobsTypeOK, Time
  <1>2. RowOK(j, jobs[j])
    BY RowKept
  <1>3. RowOK(j, r)
    BY <1>1, <1>2 DEF RowOK, JobRow
  <1> QED BY <1>3, OneRow, ZenonT(30) DEF RenewWrite

LEMMA FinishStep ==
    ASSUME JobsInv, NEW j \in Jobs, NEW s \in Terminal, FinishWrite(j, s)
    PROVE  TableStep(j)
  <1> DEFINE r == [status |-> s, owner |-> NoOwner, expires |-> 0, attempt |-> jobs[j].attempt,
                   created |-> jobs[j].created, finished |-> clock]
  <1>1. clock \in Time /\ 0 \in Time
    BY JobServiceAssumption DEF JobsInv, JobsTypeOK, Time
  <1>2. RowOK(j, jobs[j])
    BY RowKept
  <1>3. RowOK(j, r)
    BY <1>1, <1>2 DEF RowOK, JobRow, Status, Terminal
  <1>4. jobs' = [jobs EXCEPT ![j] = r]
    BY DEF FinishWrite
  <1> QED BY <1>3, <1>4, OneRow, ZenonT(30)

(* recover_expired and cleanup make no row running or queued.              *)
LEMMA SweepStep ==
    ASSUME JobsInv, RecoverExpired \/ Cleanup, NEW j \in Jobs
    PROVE  TableStep(j)
  <1>1. clock \in Time /\ 0 \in Time
    BY JobServiceAssumption DEF JobsInv, JobsTypeOK, Time
  <1>2. \A k \in Jobs : RowOK(k, jobs[k])
    BY RowKept
  <1>3. CASE RecoverExpired
    <2> DEFINE r(k) == [status |-> "needs_attention", owner |-> jobs[k].owner,
                        expires |-> jobs[k].expires, attempt |-> jobs[k].attempt,
                        created |-> jobs[k].created, finished |-> clock]
    <2>1. \A k \in Jobs : RowOK(k, r(k))
      BY <1>1, <1>2 DEF RowOK, JobRow, Status, Terminal
    <2>2. \A k \in Jobs : jobs'[k] = jobs[k] \/ jobs'[k] = r(k)
      BY <1>3 DEF RecoverExpired
    <2>3. \A k \in Jobs : jobs'[k].status = "running" => Running(k)
      <3> SUFFICES ASSUME NEW k \in Jobs, jobs'[k].status = "running" PROVE Running(k)
        OBVIOUS
      <3>1. r(k).status = "needs_attention"
        OBVIOUS
      <3> HIDE DEF r
      <3> QED BY <2>2, <3>1 DEF Running
    <2>4. jobs' = [k \in Jobs |-> jobs'[k]]
      BY <1>3 DEF RecoverExpired
    <2> HIDE DEF r
    <2>5. \A k \in Jobs : RowOK(k, jobs'[k])
      BY <1>2, <2>1, <2>2
    <2> QED BY <2>3, <2>4, <2>5 DEF TableStep
  <1>4. CASE Cleanup
    <2>1. \A k \in Jobs : RowOK(k, Deleted)
      BY <1>1 DEF RowOK, JobRow, Status, Deleted, Unclaimed
    <2>2. \A k \in Jobs : jobs'[k] = jobs[k] \/ jobs'[k] = Deleted
      BY <1>4 DEF Cleanup
    <2>3. \A k \in Jobs : jobs'[k].status = "running" => Running(k)
      BY <2>2 DEF Running, Deleted, Unclaimed
    <2>4. jobs' = [k \in Jobs |-> jobs'[k]]
      BY <1>4 DEF Cleanup
    <2> QED BY <1>2, <2>1, <2>2, <2>3, <2>4 DEF TableStep
  <1> QED BY <1>3, <1>4

-----------------------------------------------------------------------------
LEMMA JobsInitInv == JobsInit => JobsInv
  <1> SUFFICES ASSUME JobsInit PROVE JobsInv
    OBVIOUS
  <1>1. Absent \in JobRow
    BY JobServiceAssumption DEF Absent, Unclaimed, JobRow, Status, Time
  <1>2. \A j \in Jobs : jobs[j] = Absent
    BY DEF JobsInit
  <1>3. JobsTypeOK
    BY <1>1, JobServiceAssumption DEF JobsInit, JobsTypeOK
  <1> QED BY <1>2, <1>3 DEF JobsInv, RunningLocksDistinct, RunningIsLeased, ClaimedAtMostOnce,
                            Running, Absent, Unclaimed

LEMMA JobsNextInv == JobsInv /\ [JobsNext]_<<jobs, clock>> => JobsInv'
  <1> SUFFICES ASSUME JobsInv, [JobsNext]_<<jobs, clock>> PROVE JobsInv'
    OBVIOUS
  <1>1. clock \in 1 .. MaxTime
    BY DEF JobsInv, JobsTypeOK
  <1>2. CASE UNCHANGED jobs /\ clock' \in 1 .. MaxTime
    BY <1>2 DEF JobsInv, JobsTypeOK, RunningLocksDistinct, RunningIsLeased, ClaimedAtMostOnce,
                Running, LockOf
  <1>3. CASE UNCHANGED clock /\ \E j \in Jobs : \/ Enqueue(j) \/ LateWrite(j)
                                                \/ \E w \in Workers : ClaimNext(w, j)
    BY <1>1, <1>3, EnqueueStep, ClaimStep, RenewStep, FinishStep, TableStepInv DEF LateWrite
  <1>4. CASE UNCHANGED clock /\ (RecoverExpired \/ Cleanup)
    <2>1. CASE Jobs = {}
      BY <1>1, <1>4, <2>1, ZenonT(30) DEF JobsInv, JobsTypeOK, RunningLocksDistinct,
         RunningIsLeased,
                              ClaimedAtMostOnce, RecoverExpired, Cleanup
    <2>2. CASE Jobs # {}
      BY <1>1, <1>4, <2>2, SweepStep, TableStepInv
    <2> QED BY <2>1, <2>2
  <1>5. Tick \/ StepBack => clock' \in 1 .. MaxTime
    BY <1>1, JobServiceAssumption DEF Tick, StepBack
  <1> QED BY <1>1, <1>2, <1>3, <1>4, <1>5 DEF JobsNext

(* Every reachable state of the Job table: the rows keep their types, no   *)
(* two running Jobs share a resource_lock_key, a running Job is leased,    *)
(* and no Job is claimed twice.                                            *)
THEOREM JobsInvariance == JobsSpec => []JobsInv
  BY JobsInitInv, JobsNextInv, PTL DEF JobsSpec

-----------------------------------------------------------------------------
(* The workers.                                                            *)
(* A worker that has not sent the mutating RPC of its Job yet.             *)
Unsent(r) == \/ r.pc \in {"progress", "send"}
             \/ r.pc = "renew" /\ r.after = "send"

(* The shape of a worker's control state.                                  *)
Shape(r) ==
    /\ r \in WorkerRec
    /\ r.job = NoJob <=> r.pc \in {"down", "idle"}
    /\ r.pc = "renew" => r.after \in {"send"} \cup Calling
    /\ r.pc \in {"finish", "finish_write"} => r.after \in {"idle", "attn_error", "attn_audit"}

(* The Job was claimed at some time.                                       *)
Begun(j) == /\ jobs[j].status \notin {"absent", "queued"}
            /\ jobs[j].attempt > 0 \/ jobs[j].status = "deleted"

(* A Job is held by at most one worker, which claimed it; the Runtime has  *)
(* been asked only for claimed Jobs, and not for those still unsent.       *)
Held ==
    /\ \A w \in Workers : Shape(worker[w])
    /\ \A w \in Workers, j \in Jobs : Job(w) = j => Begun(j)
    /\ \A w, v \in Workers : Job(w) # NoJob /\ Job(w) = Job(v) => w = v
    /\ \A j \in Jobs : task[j] # "idle" => Begun(j)
    /\ \A w \in Workers : Unsent(worker[w]) => task[Job(w)] = "idle"

IInv == TypeOK /\ JobsInv /\ Held

(* No claimed Job becomes unclaimed.                                       *)
Forward == \A j \in Jobs : Begun(j) => Begun(j)'

-----------------------------------------------------------------------------
(* The three ways a step acts on Held: a worker moves within its Job or    *)
(* drops it, no worker moves, or a worker claims a Job.                    *)
LEMMA WorkerMoves ==
    ASSUME IInv, Forward, NEW w \in Workers, NEW r, Shape(r), r.job \in {Job(w), NoJob},
           Become(w, r),
           \/ UNCHANGED task /\ (Unsent(r) => Unsent(worker[w]) /\ r.job = Job(w))
           \/ /\ Job(w) # NoJob /\ ~Unsent(r)
              /\ \E t : task' = [task EXCEPT ![Job(w)] = t]
    PROVE  Held'
  <1>1. worker \in [Workers -> WorkerRec] /\ task \in [Jobs -> TaskState]
    BY DEF IInv, TypeOK, FsTypeOK
  <1>2. worker'[w] = r /\ \A v \in Workers \ {w} : worker'[v] = worker[v]
    BY <1>1 DEF Become
  <1>3. \A v \in Workers : Shape(worker'[v])
    BY <1>2 DEF IInv, Held
  <1>4. \A v \in Workers : worker'[v].job = worker[v].job \/ worker'[v].job = NoJob
    BY <1>2 DEF Job
  <1>5. \A v \in Workers : worker[v].job \in Jobs \cup {NoJob}
    BY <1>1 DEF WorkerRec
  <1>6. \A v \in Workers, j \in Jobs : worker'[v].job = j => Begun(j)'
    BY <1>4, FaultAssumption DEF IInv, Held, Job, Forward
  <1>7. \A u, v \in Workers : worker'[u].job # NoJob /\ worker'[u].job = worker'[v].job => u = v
    BY <1>4 DEF IInv, Held, Job
  <1>8. \A j \in Jobs : task'[j] # "idle" => Begun(j)'
    BY <1>1, <1>5 DEF IInv, Held, Forward, Job
  <1>9. \A v \in Workers : Unsent(worker'[v]) => task'[worker'[v].job] = "idle"
    <2> SUFFICES ASSUME NEW v \in Workers, Unsent(worker'[v])
                 PROVE  task'[worker'[v].job] = "idle"
      OBVIOUS
    <2>1. CASE v = w
      BY <1>2, <2>1 DEF IInv, Held, Job
    <2>2. CASE v # w
      <3>1. worker'[v] = worker[v] /\ task[Job(v)] = "idle"
        BY <1>2, <2>2 DEF IInv, Held
      <3>2. Job(v) # NoJob /\ Job(v) \in Jobs
        BY <1>5, <3>1 DEF IInv, Held, Shape, Unsent, Job
      <3>3. Job(v) # Job(w)
        BY <2>2, <3>2 DEF IInv, Held
      <3> QED BY <1>1, <1>5, <3>1, <3>2, <3>3 DEF Job
    <2> QED BY <2>1, <2>2
  <1> QED BY <1>3, <1>6, <1>7, <1>8, <1>9 DEF Held, Job

LEMMA NobodyMoves ==
    ASSUME IInv, Forward, UNCHANGED worker,
           \A j \in Jobs : task'[j] = "idle" <=> task[j] = "idle"
    PROVE  Held'
  <1>1. \A v \in Workers : worker[v].job \in Jobs \cup {NoJob}
    BY DEF IInv, TypeOK, WorkerRec
  <1>2. \A v \in Workers, j \in Jobs : worker[v].job = j => Begun(j)'
    BY DEF IInv, Held, Job, Forward
  <1>3. \A j \in Jobs : task'[j] # "idle" => Begun(j)'
    BY DEF IInv, Held, Forward
  <1>4. \A v \in Workers : Unsent(worker[v]) => worker[v].job \in Jobs
    BY <1>1 DEF IInv, Held, Shape, Unsent, Job
  <1> QED BY <1>2, <1>3, <1>4 DEF IInv, Held, Job

LEMMA WorkerClaims ==
    ASSUME IInv, Forward, NEW w \in Workers, NEW j \in Jobs, Job(w) = NoJob,
           jobs[j].status = "queued", Begun(j)', UNCHANGED task,
           Become(w, Fresh("progress", j))
    PROVE  Held'
  <1> DEFINE r == Fresh("progress", j)
  <1>1. worker \in [Workers -> WorkerRec]
    BY DEF IInv, TypeOK
  <1>2. worker'[w] = r /\ \A v \in Workers \ {w} : worker'[v] = worker[v]
    BY <1>1 DEF Become
  <1>3. r.job = j /\ r.pc = "progress" /\ Shape(r)
    BY FaultAssumption DEF Fresh, Shape, WorkerRec, WorkerPc, Terminal
  <1>4. ~Begun(j)
    BY DEF Begun
  <1>5. task[j] = "idle" /\ \A v \in Workers : worker[v].job # j
    BY <1>4, FaultAssumption DEF IInv, Held, Job
  <1> HIDE DEF r
  <1>6. \A v \in Workers : worker[v].job \in Jobs \cup {NoJob}
    BY <1>1 DEF WorkerRec
  <1>7. \A v \in Workers : Shape(worker'[v])
    BY <1>2, <1>3 DEF IInv, Held
  <1>8. \A v \in Workers, k \in Jobs : worker'[v].job = k => Begun(k)'
    BY <1>2, <1>3 DEF IInv, Held, Job, Forward
  <1>9. \A u, v \in Workers : worker'[u].job # NoJob /\ worker'[u].job = worker'[v].job => u = v
    BY <1>2, <1>3, <1>5 DEF IInv, Held, Job
  <1>10. \A v \in Workers : Unsent(worker'[v]) => task'[worker'[v].job] = "idle"
    BY <1>2, <1>3, <1>5 DEF IInv, Held, Job
  <1>11. \A k \in Jobs : task'[k] # "idle" => Begun(k)'
    BY DEF IInv, Held, Forward
  <1> QED BY <1>7, <1>8, <1>9, <1>10, <1>11 DEF Held, Job

-----------------------------------------------------------------------------
(* A worker outside "down" and "idle" has a Job.                           *)
LEMMA HasJob ==
    ASSUME IInv, NEW w \in Workers, worker[w].pc \notin {"down", "idle"}
    PROVE  Job(w) \in Jobs /\ Job(w) # NoJob
  BY DEF IInv, TypeOK, Held, Shape, WorkerRec, Job

(* The composition uses the Job table only through JobService: every step  *)
(* is a step of JobsNext or leaves the table and the clock alone.          *)
LEMMA JobsStep == ASSUME IInv, [Next]_vars PROVE [JobsNext]_<<jobs, clock>>
  <1> USE DEF fsvars
  <1>1. ASSUME NEW j \in Jobs, EnqueueJob(j) PROVE JobsNext
    BY <1>1 DEF EnqueueJob, JobsNext
  <1>2. ASSUME NEW w \in Workers, Start(w) \/ Maintain(w) PROVE JobsNext
    BY <1>2 DEF Start, Maintain, JobsNext
  <1>3. ASSUME NEW w \in Workers, NEW j \in Jobs, Claim(w, j) PROVE JobsNext
    BY <1>3 DEF Claim, JobsNext
  <1>4. ASSUME NEW w \in Workers, Renew(w) \/ Finish(w) PROVE JobsNext
    <2>1. Job(w) \in Jobs
      BY <1>4, HasJob DEF Renew, Finish, At
    <2>2. worker[w].target \in Terminal
      BY DEF IInv, TypeOK, WorkerRec
    <2>3. RowExists(Job(w)) => jobs[Job(w)].attempt > 0
      BY <2>1 DEF IInv, Held, Begun, RowExists
    <2>4. LateWrite(Job(w)) /\ UNCHANGED clock
      BY <1>4, <2>2, <2>3 DEF Renew, Finish, RenewWrite, FinishWrite, LateWrite
    <2> QED BY <2>1, <2>4 DEF JobsNext
  <1>5. ASSUME Time_ PROVE JobsNext
    BY <1>5 DEF Time_, JobsNext
  <1>6. ASSUME NEW j \in Jobs, \/ Reserve(j) \/ DiscardReservation(j) \/ ApiCrash(j) \/ TaskEnds(j)
        PROVE  UNCHANGED <<jobs, clock>>
    BY <1>6 DEF Reserve, DiscardReservation, ApiCrash, TaskEnds
  <1>7. ReconcileExisting \/ RuntimeDies \/ UNCHANGED vars => UNCHANGED <<jobs, clock>>
    BY DEF ReconcileExisting, RuntimeDies, vars
  <1>8. ASSUME NEW w \in Workers, \/ Stop(w) \/ DbFails(w) \/ WorkerCrash(w) \/ Look(w) \/ EndCall(w)
        PROVE  UNCHANGED <<jobs, clock>>
    BY <1>8 DEF Stop, DbFails, WorkerCrash, Look, EndCall, Replied, GiveUp, FinalizeCall,
       RollbackCall
  <1>9. ASSUME NEW w \in Workers,
               \/ SendCreate(w) \/ SendClone(w) \/ SendGit(w) \/ MarkReady(w) \/ MarkError(w)
               \/ AuditSuccess(w) \/ AuditFailure(w) \/ AuditAttention(w)
        PROVE  UNCHANGED <<jobs, clock>>
    BY <1>9 DEF SendCreate, SendClone, SendGit, MarkReady, MarkError, AuditSuccess,
       AuditFailure,
                AuditAttention
  <1> QED BY <1>1, <1>2, <1>3, <1>4, <1>5, <1>6, <1>7, <1>8, <1>9 DEF Next, Work, Heartbeat

LEMMA JobsForward == ASSUME IInv, [JobsNext]_<<jobs, clock>> PROVE Forward
  <1> SUFFICES ASSUME NEW j \in Jobs, Begun(j) PROVE Begun(j)'
    BY DEF Forward
  <1>1. jobs \in [Jobs -> JobRow] /\ jobs[j] \in JobRow
    BY DEF IInv, JobsInv, JobsTypeOK
  <1>2. CASE jobs'[j] = jobs[j]
    BY <1>2 DEF Begun
  <1>3. CASE \E k \in Jobs : Enqueue(k)
    BY <1>1, <1>3 DEF Enqueue, Begun
  <1>4. CASE \E k \in Jobs, w \in Workers : ClaimNext(w, k)
    BY <1>1, <1>4 DEF ClaimNext, Claimable, Begun
  <1>5. CASE \E k \in Jobs : RenewWrite(k)
    BY <1>1, <1>5 DEF RenewWrite, Begun, JobRow
  <1>6. CASE \E k \in Jobs, s \in Terminal : FinishWrite(k, s)
    BY <1>1, <1>6 DEF FinishWrite, Begun, Terminal, RowExists
  <1>7. CASE RecoverExpired
    BY <1>1, <1>7 DEF RecoverExpired, Begun, Expired, Running
  <1>8. CASE Cleanup
    BY <1>1, <1>8 DEF Cleanup, Begun, Deleted, Unclaimed
  <1> QED BY <1>2, <1>3, <1>4, <1>5, <1>6, <1>7, <1>8 DEF JobsNext, LateWrite

-----------------------------------------------------------------------------
(* A worker may move to control state r without sending anything.          *)
Next_(w, r) == Shape(r) /\ r.job \in {Job(w), NoJob} /\ ~Unsent(r)

LEMMA FreeMove ==
    ASSUME NEW w, NEW pc \in {"down", "idle"}
    PROVE  Next_(w, Free(pc))
  BY DEF Next_, Shape, Free, Fresh, WorkerRec, WorkerPc, Unsent, Terminal

LEMMA MovedMove ==
    ASSUME IInv, NEW w \in Workers, worker[w].pc \notin {"down", "idle"},
           NEW pc \in WorkerPc \ {"down", "idle"}, NEW h \in BOOLEAN, NEW t \in Terminal,
           NEW a \in {"idle", "send", "attn_error", "attn_audit"} \cup Calling,
           pc = "renew" => a \in {"send"} \cup Calling,
           pc \in {"finish", "finish_write"} => a \in {"idle", "attn_error", "attn_audit"}
    PROVE  /\ Shape(Moved(w, pc, h, t, a)) /\ Moved(w, pc, h, t, a).job = Job(w)
           /\ pc \notin {"progress", "send", "renew"} => ~Unsent(Moved(w, pc, h, t, a))
           /\ a # "send" /\ pc \notin {"progress", "send"} => ~Unsent(Moved(w, pc, h, t, a))
  <1> DEFINE r == Moved(w, pc, h, t, a)
  <1>1. Job(w) \in Jobs /\ Job(w) # NoJob /\ worker[w].ready \in BOOLEAN
    BY HasJob DEF IInv, TypeOK, WorkerRec
  <1>2. r.pc = pc /\ r.job = Job(w) /\ r.after = a
    BY DEF Moved
  <1>3. r \in WorkerRec
    BY <1>1 DEF Moved, WorkerRec
  <1> HIDE DEF r
  <1>4. Shape(r)
    BY <1>1, <1>2, <1>3 DEF Shape
  <1>5. Unsent(r) <=> (pc \in {"progress", "send"} \/ (pc = "renew" /\ a = "send"))
    BY <1>2 DEF Unsent
  <1>6. Shape(r) /\ r.job = Job(w)
        /\ (pc \notin {"progress", "send", "renew"} => ~Unsent(r))
        /\ (a # "send" /\ pc \notin {"progress", "send"} => ~Unsent(r))
    BY <1>2, <1>4, <1>5
  <1> QED BY <1>6 DEF r

(* A plain move to another place of execute_job.                           *)
LEMMA GoMove ==
    ASSUME IInv, NEW w \in Workers, worker[w].pc \notin {"down", "idle"},
           NEW pc \in WorkerPc \ {"down", "idle", "renew", "finish", "progress"},
           pc = "finish_write" => worker[w].pc = "finish"
    PROVE  LET r == [worker[w] EXCEPT !.pc = pc]
           IN  Shape(r) /\ r.job = Job(w) /\ r.pc = pc
  BY HasJob DEF IInv, TypeOK, Held, Shape, WorkerRec, Job

(* Every except clause leads away from the RPC.                            *)
LEMMA RaisedMove ==
    ASSUME IInv, NEW w \in Workers, worker[w].pc \notin {"down", "idle"}, NEW pc
    PROVE  Next_(w, Raised(w, pc))
  <1>1. worker[w].target \in Terminal
        /\ worker[w].after \in {"idle", "send", "attn_error", "attn_audit"} \cup Calling
    BY DEF IInv, TypeOK, WorkerRec
  <1>2. Next_(w, RollbackAttention(w)) /\ Next_(w, FinalizeAttention(w))
    <2>1. "finish" \in WorkerPc /\ "needs_attention" \in Terminal
      BY DEF WorkerPc, Terminal
    <2> QED BY <2>1, MovedMove, ZenonT(30) DEF Next_, RollbackAttention, FinalizeAttention
  <1>3. Next_(w, Clause(w, "audit_fail")) /\ Next_(w, Clause(w, "rollback"))
    <2>1. "audit_fail" \in WorkerPc /\ "rollback" \in WorkerPc
      BY DEF WorkerPc
    <2> QED BY <1>1, <2>1, MovedMove, ZenonT(30) DEF Next_, Clause
  <1> QED BY <1>2, <1>3, FreeMove DEF Raised

(* A step of one worker that sends nothing.                                *)
LEMMA QuietMove ==
    ASSUME IInv, Forward, NEW w \in Workers, NEW r, Next_(w, r), Become(w, r), UNCHANGED task
    PROVE  Held'
  BY WorkerMoves DEF Next_

LEMMA RaiseHeld ==
    ASSUME IInv, Forward, NEW w \in Workers, worker[w].pc \notin {"down", "idle"},
           Raise(w), UNCHANGED task
    PROVE  Held'
  BY RaisedMove, QuietMove DEF Raise

LEMMA GoHeld ==
    ASSUME IInv, Forward, NEW w \in Workers, worker[w].pc \notin {"down", "idle"},
           NEW pc \in WorkerPc \ {"down", "idle", "renew", "finish", "progress", "send"},
           pc = "finish_write" => worker[w].pc = "finish", Go(w, pc), UNCHANGED task
    PROVE  Held'
  <1> DEFINE r == [worker[w] EXCEPT !.pc = pc]
  <1>1. Shape(r) /\ r.job = Job(w) /\ r.pc = pc
    BY GoMove
  <1> HIDE DEF r
  <1>2. Next_(w, r)
    BY <1>1 DEF Next_, Unsent
  <1>3. Become(w, r)
    BY DEF Go, r
  <1> QED BY <1>2, <1>3, QuietMove

LEMMA FinishingHeld ==
    ASSUME IInv, Forward, NEW w \in Workers, worker[w].pc \notin {"down", "idle"},
           NEW st \in Terminal, Become(w, Finishing(w, st, "idle")), UNCHANGED task
    PROVE  Held'
  <1>1. "finish" \in WorkerPc \ {"down", "idle"} /\ worker[w].handling \in BOOLEAN
    BY DEF WorkerPc, IInv, TypeOK, WorkerRec
  <1>2. Next_(w, Finishing(w, st, "idle"))
    BY <1>1, MovedMove DEF Next_, Finishing
  <1> QED BY <1>2, QuietMove

(* The steps of a worker between two Jobs.                                 *)
LEMMA IdleHeld ==
    ASSUME IInv, Forward, NEW w \in Workers, Start(w) \/ Stop(w) \/ WorkerCrash(w)
    PROVE  Held'
  <1>1. CASE WorkerCrash(w)
    BY <1>1, FreeMove, QuietMove DEF WorkerCrash, fsvars
  <1>2. ASSUME NEW pc \in {"down", "idle"}, worker[w].pc \in {"down", "idle"}, Go(w, pc), UNCHANGED task
        PROVE  Held'
    <2> DEFINE r == [worker[w] EXCEPT !.pc = pc]
    <2>1. Shape(worker[w]) /\ worker[w].job = NoJob /\ worker[w] \in WorkerRec
      BY <1>2 DEF IInv, Held, Shape
    <2>2. Shape(r) /\ r.job = NoJob /\ r.pc = pc
      BY <2>1 DEF Shape, WorkerRec, WorkerPc
    <2> HIDE DEF r
    <2>3. Next_(w, r)
      BY <2>2 DEF Next_, Unsent
    <2>4. Become(w, r)
      BY <1>2 DEF Go, r
    <2> QED BY <1>2, <2>3, <2>4, QuietMove
  <1> QED BY <1>1, <1>2 DEF Start, Stop, At, fsvars

LEMMA ClaimHeld ==
    ASSUME IInv, Forward, NEW w \in Workers, NEW j \in Jobs, Claim(w, j)
    PROVE  Held'
  <1>1. Job(w) = NoJob
    BY DEF IInv, Held, Shape, Claim, At, Job
  <1>2. jobs[j].status = "queued" /\ jobs[j] \in JobRow
    BY DEF Claim, ClaimNext, Claimable, IInv, JobsInv, JobsTypeOK
  <1>3. jobs'[j].status = "running" /\ jobs'[j].attempt = jobs[j].attempt + 1
    BY DEF Claim, ClaimNext, IInv, JobsInv, JobsTypeOK
  <1>4. Begun(j)'
    BY <1>2, <1>3 DEF Begun, JobRow
  <1> QED BY <1>1, <1>2, <1>4, WorkerClaims DEF Claim, fsvars

(* The SELECT and the UPDATE of progress, heartbeat and _finish.           *)
LEMMA LookHeld ==
    ASSUME IInv, Forward, NEW w \in Workers, Look(w)
    PROVE  Held'
  <1>1. worker[w].pc \notin {"down", "idle"} /\ UNCHANGED task
    BY DEF Look, Calling, fsvars
  <1>2. CASE Raise(w)
    BY <1>1, <1>2, RaiseHeld
  <1>3. CASE At(w, "finish") /\ Go(w, "finish_write")
    <2>1. "finish_write" \in WorkerPc \ {"down", "idle", "renew", "finish", "progress", "send"}
      BY DEF WorkerPc
    <2> QED BY <1>1, <1>3, <2>1, GoHeld DEF At
  <1>4. ASSUME NEW a, a \in {"send"} \cup Calling, a = "send" => At(w, "progress"),
               Become(w, Renewing(w, a))
        PROVE  Held'
    <2> DEFINE r == Renewing(w, a)
    <2>1. "renew" \in WorkerPc \ {"down", "idle"} /\ worker[w].handling \in BOOLEAN
          /\ worker[w].target \in Terminal
      BY DEF WorkerPc, IInv, TypeOK, WorkerRec
    <2>2. Shape(r) /\ r.job = Job(w) /\ (a # "send" => ~Unsent(r))
      BY <1>1, <1>4, <2>1, MovedMove DEF Renewing
    <2>3. At(w, "progress") => Unsent(worker[w])
      BY DEF At, Unsent
    <2> HIDE DEF r
    <2>4. Become(w, r)
      BY <1>4 DEF r
    <2> QED BY <1>1, <1>4, <2>2, <2>3, <2>4, WorkerMoves
  <1>5. CASE At(w, "progress") /\ Become(w, Renewing(w, "send"))
    BY <1>4, <1>5
  <1>6. CASE worker[w].pc \in Calling /\ Become(w, Renewing(w, worker[w].pc))
    BY <1>4, <1>6 DEF Calling
  <1> QED BY <1>2, <1>3, <1>5, <1>6 DEF Look, At

LEMMA RenewHeld ==
    ASSUME IInv, Forward, NEW w \in Workers, Renew(w)
    PROVE  Held'
  <1> DEFINE pc == worker[w].after
             r == [worker[w] EXCEPT !.pc = pc]
  <1>1. pc \in {"send"} \cup Calling /\ worker[w].pc = "renew"
    BY DEF Renew, At, IInv, Held, Shape
  <1>2. pc \in WorkerPc \ {"down", "idle", "renew", "finish", "progress"} /\ pc # "finish_write"
    BY <1>1 DEF WorkerPc, Calling
  <1>3. Shape(r) /\ r.job = Job(w) /\ r.pc = pc
    BY <1>1, <1>2, GoMove
  <1>4. pc = "send" => Unsent(worker[w])
    BY <1>1 DEF Unsent
  <1> HIDE DEF r
  <1>5. Unsent(r) => pc = "send"
    BY <1>2, <1>3 DEF Unsent
  <1>6. Become(w, r) /\ UNCHANGED task
    BY DEF Renew, Go, r, fsvars
  <1> QED BY <1>3, <1>4, <1>5, <1>6, WorkerMoves

LEMMA FinishHeld ==
    ASSUME IInv, Forward, NEW w \in Workers, Finish(w)
    PROVE  Held'
  <1>1. worker[w].pc = "finish_write" /\ UNCHANGED task
    BY DEF Finish, At, fsvars
  <1>2. worker[w].after \in {"idle", "attn_error", "attn_audit"}
    BY <1>1 DEF IInv, Held, Shape
  <1>3. CASE worker[w].after = "idle"
    BY <1>1, <1>3, FreeMove, QuietMove DEF Finish
  <1>4. CASE worker[w].after # "idle"
    <2>1. worker[w].after \in WorkerPc \ {"down", "idle", "renew", "finish", "progress", "send"}
          /\ worker[w].after # "finish_write"
      BY <1>2, <1>4 DEF WorkerPc
    <2> QED BY <1>1, <1>4, <2>1, GoHeld DEF Finish
  <1> QED BY <1>3, <1>4

(* The mutating RPC: the Job's task may start, and is no longer unsent.    *)
LEMMA SendHeld ==
    ASSUME IInv, Forward, NEW w \in Workers, SendCreate(w) \/ SendClone(w) \/ SendGit(w)
    PROVE  Held'
  <1>1. worker[w].pc = "send" /\ Job(w) # NoJob
    BY HasJob DEF SendCreate, SendClone, SendGit, At
  <1>2. UNCHANGED task \/ \E t : task' = [task EXCEPT ![Job(w)] = t]
    BY DEF SendCreate, SendClone, SendGit, CreateActivates, CreateFails, CreateAbandoned,
           Undelivered, CloneStarts, GitStarts, Reply, fsvars
  <1>3. Raise(w) \/ \E pc \in {"mark_ready", "await"} : Go(w, pc)
    BY DEF SendCreate, SendClone, SendGit, Undelivered
  <1>4. CASE Raise(w)
    BY <1>1, <1>2, <1>4, RaisedMove, WorkerMoves DEF Raise, Next_
  <1>5. ASSUME NEW pc \in {"mark_ready", "await"}, Go(w, pc)
        PROVE  Held'
    <2> DEFINE r == [worker[w] EXCEPT !.pc = pc]
    <2>1. pc \in WorkerPc \ {"down", "idle", "renew", "finish", "progress"} /\ pc # "finish_write"
      BY DEF WorkerPc
    <2>2. Shape(r) /\ r.job = Job(w) /\ r.pc = pc
      BY <1>1, <2>1, GoMove
    <2> HIDE DEF r
    <2>3. Become(w, r) /\ ~Unsent(r)
      BY <1>5, <2>2 DEF Go, r, Unsent
    <2> QED BY <1>1, <1>2, <2>2, <2>3, WorkerMoves
  <1> QED BY <1>3, <1>4, <1>5

LEMMA MarkReadyHeld ==
    ASSUME IInv, Forward, NEW w \in Workers, MarkReady(w)
    PROVE  Held'
  <1> DEFINE r == [pc |-> "finalize", job |-> Job(w), ready |-> TRUE, handling |-> worker[w].handling,
                   target |-> worker[w].target, after |-> worker[w].after]
  <1>1. Job(w) \in Jobs /\ Job(w) # NoJob
    BY HasJob, ZenonT(30) DEF MarkReady, At
  <1>2. worker[w] \in WorkerRec
    BY DEF IInv, TypeOK
  <1>3. r \in WorkerRec
    BY <1>1, <1>2 DEF WorkerRec, WorkerPc
  <1>4. Next_(w, r)
    BY <1>1, <1>3 DEF Next_, Shape, Unsent
  <1>5. Become(w, r) /\ UNCHANGED task
    BY DEF MarkReady, fsvars
  <1> QED BY <1>4, <1>5, QuietMove

(* The steps that only move the worker on.                                 *)
LEMMA OtherWorkHeld ==
    ASSUME IInv, Forward, NEW w \in Workers,
           \/ Replied(w) \/ GiveUp(w) \/ FinalizeCall(w) \/ RollbackCall(w) \/ MarkError(w)
    PROVE  Held'
  <1>1. worker[w].pc \notin {"down", "idle"} /\ UNCHANGED task
    BY DEF Replied, GiveUp, FinalizeCall, RollbackCall, MarkError, At, fsvars
  <1>2. \/ Raise(w)
        \/ \E pc \in {"audit_ok", "mark_ready", "mark_error", "audit_fail", "attn_audit"} : Go(w, pc)
    BY DEF Replied, GiveUp, FinalizeCall, RollbackCall, MarkError
  <1>3. {"audit_ok", "mark_ready", "mark_error", "audit_fail", "attn_audit"} \subseteq
           WorkerPc \ {"down", "idle", "renew", "finish", "progress", "send", "finish_write"}
    BY DEF WorkerPc
  <1> QED BY <1>1, <1>2, <1>3, RaiseHeld, GoHeld

LEMMA AuditHeld ==
    ASSUME IInv, Forward, NEW w \in Workers,
           \/ AuditSuccess(w) \/ AuditFailure(w) \/ AuditAttention(w)
    PROVE  Held'
  <1>1. worker[w].pc \notin {"down", "idle"} /\ UNCHANGED task
    BY DEF AuditSuccess, AuditFailure, AuditAttention, At, fsvars
  <1>2. "succeeded" \in Terminal /\ "failed" \in Terminal
    BY DEF Terminal
  <1> QED BY <1>1, <1>2, FinishingHeld, FreeMove, QuietMove
          DEF AuditSuccess, AuditFailure, AuditAttention

LEMMA DbFailsHeld ==
    ASSUME IInv, Forward, NEW w \in Workers, DbFails(w)
    PROVE  Held'
  <1>1. worker[w].pc \notin {"down", "idle"} /\ UNCHANGED task
    BY ZenonT(30) DEF DbFails, At, fsvars
  <1>2. "needs_attention" \in Terminal
    BY DEF Terminal
  <1> QED BY <1>1, <1>2, FinishingHeld, FreeMove, QuietMove, RaiseHeld, RaisedMove,
             ZenonT(30) DEF DbFails

(* The steps of the other processes.                                       *)
LEMMA OthersHeld ==
    ASSUME IInv, Forward,
           \/ \E j \in Jobs : \/ Reserve(j) \/ EnqueueJob(j) \/ DiscardReservation(j)
                              \/ ApiCrash(j) \/ TaskEnds(j)
           \/ ReconcileExisting \/ RuntimeDies \/ Time_ \/ UNCHANGED vars
           \/ \E w \in Workers : Maintain(w)
    PROVE  Held'
  <1>1. task \in [Jobs -> TaskState]
    BY DEF IInv, TypeOK, FsTypeOK
  <1>2. UNCHANGED worker
    BY DEF Reserve, EnqueueJob, DiscardReservation, ApiCrash, TaskEnds, ReconcileExisting,
           RuntimeDies, Time_, Maintain, vars
  <1>3. \A j \in Jobs : task'[j] = "idle" <=> task[j] = "idle"
    <2>1. CASE UNCHANGED task
      BY <2>1
    <2>2. CASE \E j \in Jobs : TaskEnds(j)
      BY <1>1, <2>2, ZenonT(30) DEF TaskEnds, CloneActivates, GitEnds, CloneFails, Reply
    <2>3. CASE RuntimeDies
      BY <1>1, <2>3 DEF RuntimeDies, RuntimeCrash
    <2> QED BY <2>1, <2>2, <2>3, ZenonT(30)
            DEF Reserve, EnqueueJob, DiscardReservation, ApiCrash, ReconcileExisting, Time_,
                Maintain, vars, fsvars
  <1> QED BY <1>2, <1>3, NobodyMoves

LEMMA HeldStep == ASSUME IInv, [Next]_vars PROVE Held'
  <1>1. Forward
    BY JobsStep, JobsForward
  <1> QED BY <1>1, IdleHeld, ClaimHeld, LookHeld, RenewHeld, FinishHeld, SendHeld,
             MarkReadyHeld,
             OtherWorkHeld, AuditHeld, DbFailsHeld, OthersHeld, ZenonT(30)
          DEF Next, Work, EndCall, Heartbeat

-----------------------------------------------------------------------------
(* The directories.  One outcome of a Runtime operation for Job j.         *)
DirectoryStep(j) ==
    \/ UNCHANGED final
    \/ AbsentFinal(ProjectOf[j]) /\ Place(j)
    \/ /\ AbsentFinal(ProjectOf[j]) \/ final[ProjectOf[j]].by = j
       /\ final' = [final EXCEPT ![ProjectOf[j]] = [by |-> Nobody, marker |-> FALSE]]
    \/ /\ final[ProjectOf[j]].by = j
       /\ final' = [final EXCEPT ![ProjectOf[j]].marker = FALSE]

LEMMA DirectoryStepKeeps ==
    ASSUME IInv, NEW j \in Jobs, DirectoryStep(j)
    PROVE  /\ final' \in [Projects -> [by : Jobs \cup {Nobody, User}, marker : BOOLEAN]]
           /\ \A p \in Projects : final[p].by = User => final'[p] = final[p]
           /\ \A p \in Projects : final[p].by # Nobody => final'[p].by \in {final[p].by, Nobody}
  <1>1. final \in [Projects -> [by : Jobs \cup {Nobody, User}, marker : BOOLEAN]]
        /\ ProjectOf[j] \in Projects
    BY JobModelAssumption DEF IInv, TypeOK, FsTypeOK
  <1>2. User # j /\ User # Nobody
    BY WorkspaceAssumption
  <1> DEFINE q == ProjectOf[j]
             Rec == [by : Jobs \cup {Nobody, User}, marker : BOOLEAN]
  <1>3. UNCHANGED final \/ \E r \in Rec : /\ final' = [final EXCEPT ![q] = r]
                                          /\ final[q].by # User
                                          /\ final[q].by = Nobody \/ r.by \in {final[q].by, Nobody}
    <2>1. CASE AbsentFinal(q) /\ Place(j)
      <3>1. [by |-> j, marker |-> TRUE] \in Rec
        OBVIOUS
      <3> HIDE DEF Rec
      <3> QED BY <1>2, <2>1, <3>1, ZenonT(30) DEF AbsentFinal, Place
    <2>2. CASE /\ AbsentFinal(q) \/ final[q].by = j
               /\ final' = [final EXCEPT ![q] = [by |-> Nobody, marker |-> FALSE]]
      <3>1. [by |-> Nobody, marker |-> FALSE] \in Rec
        OBVIOUS
      <3> HIDE DEF Rec
      <3> QED BY <1>2, <2>2, <3>1, ZenonT(30) DEF AbsentFinal
    <2>3. CASE final[q].by = j /\ final' = [final EXCEPT ![q].marker = FALSE]
      <3> DEFINE r == [final[q] EXCEPT !.marker = FALSE]
      <3>1. final[q] \in Rec
        BY <1>1
      <3>2. r \in Rec /\ r.by = j
        BY <2>3, <3>1, ZenonT(30)
      <3>3. final' = [final EXCEPT ![q] = r]
        BY <2>3
      <3> HIDE DEF r
      <3> QED BY <1>2, <2>3, <3>2, <3>3, ZenonT(30)
    <2> QED BY <2>1, <2>2, <2>3 DEF DirectoryStep
  <1> HIDE DEF Rec
  <1>4. final \in [Projects -> Rec] /\ q \in Projects
    BY <1>1 DEF Rec
  <1>5. /\ final' \in [Projects -> Rec]
        /\ \A p \in Projects : final[p].by = User => final'[p] = final[p]
        /\ \A p \in Projects : final[p].by # Nobody => final'[p].by \in {final[p].by, Nobody}
    BY <1>3, <1>4
  <1> QED BY <1>5 DEF Rec

LEMMA SomeDirectoryStep ==
    ASSUME IInv, [Next]_vars
    PROVE  UNCHANGED final \/ \E j \in Jobs : DirectoryStep(j)
  <1>1. ASSUME NEW j \in Jobs, TaskEnds(j) PROVE DirectoryStep(j)
    BY <1>1 DEF TaskEnds, CloneActivates, CloneFails, GitEnds, DirectoryStep
  <1>2. ASSUME NEW w \in Workers, SendCreate(w) \/ SendClone(w) \/ SendGit(w)
        PROVE  Job(w) \in Jobs /\ DirectoryStep(Job(w))
    BY <1>2, HasJob DEF SendCreate, SendClone, SendGit, CreateActivates, CreateFails,
       CreateAbandoned,
           Undelivered, CloneStarts, GitStarts, DirectoryStep, fsvars, At
  <1>3. ASSUME NEW w \in Workers, FinalizeCall(w) \/ RollbackCall(w)
        PROVE  Job(w) \in Jobs /\ DirectoryStep(Job(w))
    BY <1>3, HasJob DEF FinalizeCall, RollbackCall, Finalized, FinalizedHalf, RolledBack,
           RolledBackHalf, RolledBackStagingLeft, RollbackAllowed, Marked, DirectoryStep, At
  <1>4. ASSUME NEW j \in Jobs, Reserve(j) \/ EnqueueJob(j) \/ DiscardReservation(j) \/ ApiCrash(j)
        PROVE  UNCHANGED final
    BY <1>4 DEF Reserve, EnqueueJob, DiscardReservation, ApiCrash, fsvars
  <1>5. ReconcileExisting \/ RuntimeDies \/ Time_ \/ UNCHANGED vars => UNCHANGED final
    BY DEF ReconcileExisting, RuntimeDies, RuntimeCrash, Time_, vars, fsvars
  <1>6. ASSUME NEW w \in Workers,
               \/ Start(w) \/ Maintain(w) \/ Stop(w) \/ (\E j \in Jobs : Claim(w, j))
               \/ Look(w) \/ Renew(w) \/ Finish(w) \/ DbFails(w) \/ WorkerCrash(w)
        PROVE  UNCHANGED final
    BY <1>6 DEF Start, Maintain, Stop, Claim, Look, Renew, Finish, DbFails, WorkerCrash, fsvars
  <1>7. ASSUME NEW w \in Workers,
               \/ MarkReady(w) \/ MarkError(w) \/ Replied(w) \/ GiveUp(w)
               \/ AuditSuccess(w) \/ AuditFailure(w) \/ AuditAttention(w)
        PROVE  UNCHANGED final
    BY <1>7 DEF MarkReady, MarkError, Replied, GiveUp, AuditSuccess, AuditFailure,
       AuditAttention, fsvars
  <1> QED BY <1>1, <1>2, <1>3, <1>4, <1>5, <1>6, <1>7, ZenonT(30) DEF Next, Work, EndCall,
             Heartbeat

-----------------------------------------------------------------------------
(* The types of what is left.                                              *)
LEMMA StagingType ==
    ASSUME IInv, [Next]_vars
    PROVE  staging' \subseteq Jobs /\ task' \in [Jobs -> TaskState]
  <1>1. staging \subseteq Jobs /\ task \in [Jobs -> TaskState]
    BY DEF IInv, TypeOK, FsTypeOK
  <1>2. ASSUME NEW j \in Jobs, TaskEnds(j)
        PROVE  staging' \subseteq Jobs /\ task' \in [Jobs -> TaskState]
    BY <1>1, <1>2, ZenonT(30) DEF TaskEnds, CloneActivates, CloneFails, GitEnds, Reply,
       TaskState
  <1>3. ASSUME NEW w \in Workers, SendCreate(w) \/ SendClone(w) \/ SendGit(w)
        PROVE  staging' \subseteq Jobs /\ task' \in [Jobs -> TaskState]
    BY <1>1, <1>3, HasJob, ZenonT(30) DEF SendCreate, SendClone, SendGit, CreateActivates,
       CreateFails,
           CreateAbandoned, Undelivered, CloneStarts, GitStarts, fsvars, At, Reply, TaskState
  <1>4. ASSUME NEW w \in Workers, FinalizeCall(w) \/ RollbackCall(w)
        PROVE  staging' \subseteq Jobs /\ task' \in [Jobs -> TaskState]
    BY <1>1, <1>4 DEF FinalizeCall, RollbackCall, Finalized, FinalizedHalf, RolledBack,
           RolledBackHalf, RolledBackStagingLeft
  <1>5. RuntimeDies => staging' \subseteq Jobs /\ task' \in [Jobs -> TaskState]
    BY <1>1 DEF RuntimeDies, RuntimeCrash, TaskState
  <1>6. ASSUME NEW j \in Jobs, Reserve(j) \/ EnqueueJob(j) \/ DiscardReservation(j) \/ ApiCrash(j)
        PROVE  UNCHANGED <<staging, task>>
    BY <1>6 DEF Reserve, EnqueueJob, DiscardReservation, ApiCrash, fsvars
  <1>7. ReconcileExisting \/ Time_ \/ UNCHANGED vars => UNCHANGED <<staging, task>>
    BY DEF ReconcileExisting, Time_, vars, fsvars
  <1>8. ASSUME NEW w \in Workers,
               \/ Start(w) \/ Maintain(w) \/ Stop(w) \/ (\E j \in Jobs : Claim(w, j))
               \/ Look(w) \/ Renew(w) \/ Finish(w) \/ DbFails(w) \/ WorkerCrash(w)
        PROVE  UNCHANGED <<staging, task>>
    BY <1>8 DEF Start, Maintain, Stop, Claim, Look, Renew, Finish, DbFails, WorkerCrash, fsvars
  <1>9. ASSUME NEW w \in Workers,
               \/ MarkReady(w) \/ MarkError(w) \/ Replied(w) \/ GiveUp(w)
               \/ AuditSuccess(w) \/ AuditFailure(w) \/ AuditAttention(w)
        PROVE  UNCHANGED <<staging, task>>
    BY <1>9 DEF MarkReady, MarkError, Replied, GiveUp, AuditSuccess, AuditFailure,
       AuditAttention, fsvars
  <1> QED BY <1>1, <1>2, <1>3, <1>4, <1>5, <1>6, <1>7, <1>8, <1>9, ZenonT(30) DEF Next, Work,
             EndCall, Heartbeat

LEMMA RowsType ==
    ASSUME IInv, [Next]_vars
    PROVE  /\ project' \in [Projects -> ProjectState]
           /\ api' \in [Jobs -> {"new", "reserved", "done", "crashed"}]
           /\ audits' \in [Jobs -> SUBSET {"succeeded", "failed"}]
           /\ faults' \in 0 .. MaxFaults
  <1> DEFINE Goal == /\ project' \in [Projects -> ProjectState]
                     /\ api' \in [Jobs -> {"new", "reserved", "done", "crashed"}]
                     /\ audits' \in [Jobs -> SUBSET {"succeeded", "failed"}]
                     /\ faults' \in 0 .. MaxFaults
  <1>1. /\ project \in [Projects -> ProjectState]
        /\ api \in [Jobs -> {"new", "reserved", "done", "crashed"}]
        /\ audits \in [Jobs -> SUBSET {"succeeded", "failed"}]
        /\ faults \in 0 .. MaxFaults
    BY DEF IInv, TypeOK
  <1>2. Fault => faults' \in 0 .. MaxFaults
    BY <1>1, FaultAssumption DEF Fault
  <1>3. ASSUME NEW j \in Jobs,
               Reserve(j) \/ EnqueueJob(j) \/ DiscardReservation(j) \/ ApiCrash(j) \/ TaskEnds(j)
        PROVE  Goal
    BY <1>1, <1>2, <1>3, ZenonT(30) DEF Reserve, EnqueueJob, DiscardReservation, ApiCrash, TaskEnds,
       ProjectState
  <1>4. ReconcileExisting \/ RuntimeDies \/ Time_ \/ UNCHANGED vars => Goal
    BY <1>1, <1>2 DEF ReconcileExisting, RuntimeDies, Time_, vars, ProjectState
  <1>5. ASSUME NEW w \in Workers,
               \/ Start(w) \/ Maintain(w) \/ Stop(w) \/ (\E j \in Jobs : Claim(w, j))
               \/ Look(w) \/ Renew(w) \/ Finish(w) \/ DbFails(w) \/ WorkerCrash(w)
        PROVE  Goal
    BY <1>1, <1>2, <1>5 DEF Start, Maintain, Stop, Claim, Look, Renew, Finish, DbFails,
       WorkerCrash
  <1>6. ASSUME NEW w \in Workers,
               \/ SendCreate(w) \/ SendClone(w) \/ SendGit(w) \/ Replied(w) \/ GiveUp(w)
               \/ FinalizeCall(w) \/ RollbackCall(w)
        PROVE  Goal
    BY <1>1, <1>2, <1>6, ZenonT(30) DEF SendCreate, SendClone, SendGit, Replied, GiveUp,
       FinalizeCall, RollbackCall
  <1>7. ASSUME NEW w \in Workers, MarkReady(w) \/ MarkError(w)
        PROVE  Goal
    BY <1>1, <1>7, ZenonT(30) DEF MarkReady, MarkError, ProjectState
  <1>8. ASSUME NEW w \in Workers, AuditSuccess(w) \/ AuditFailure(w) \/ AuditAttention(w)
        PROVE  Goal
    <2> DEFINE S == {"succeeded", "failed"}
    <2>1. PICK r \in S : audits' = [audits EXCEPT ![Job(w)] = audits[Job(w)] \cup {r}]
      BY <1>8 DEF AuditSuccess, AuditFailure, AuditAttention, Audited
    <2>2. audits' \in [Jobs -> SUBSET S]
      <3>1. Job(w) \in Jobs
        BY <1>8, HasJob, ZenonT(30) DEF AuditSuccess, AuditFailure, AuditAttention, At
      <3>2. audits \in [Jobs -> SUBSET S]
        BY <1>1
      <3> HIDE DEF S
      <3>3. audits[Job(w)] \cup {r} \in SUBSET S
        BY <3>1, <3>2
      <3> QED BY <2>1, <3>2, <3>3, ZenonT(30)
    <2> QED BY <1>1, <1>8, <2>2 DEF AuditSuccess, AuditFailure, AuditAttention
  <1> QED BY <1>3, <1>4, <1>5, <1>6, <1>7, <1>8, ZenonT(30) DEF Next, Work, EndCall, Heartbeat

-----------------------------------------------------------------------------
LEMMA InitInv == Init => IInv
  <1> SUFFICES ASSUME Init PROVE IInv
    OBVIOUS
  <1>1. JobsInv
    BY JobsInitInv DEF Init
  <1>2. \A w \in Workers : worker[w] = Free("down")
    BY DEF Init
  <1>3. Shape(Free("down")) /\ ~Unsent(Free("down")) /\ Free("down").job = NoJob
        /\ Free("down") \in WorkerRec
    BY FreeMove, ZenonT(30) DEF Next_, Shape, Free, Fresh
  <1>4. \A j \in Jobs : task[j] = "idle"
    BY DEF Init, FsInit
  <1>5. Held
    BY <1>2, <1>3, <1>4, FaultAssumption DEF Held, Job
  <1>6. final \in [Projects -> [by : Jobs \cup {Nobody, User}, marker : BOOLEAN]]
    BY DEF Init, FsInit
  <1>7. FsTypeOK
    BY <1>6 DEF Init, FsInit, FsTypeOK, TaskState
  <1>8. worker \in [Workers -> WorkerRec]
    BY <1>3 DEF Init
  <1>9. TypeOK
    BY <1>1, <1>7, <1>8, FaultAssumption DEF TypeOK, JobsInv, Init, ProjectState
  <1> QED BY <1>1, <1>5, <1>9 DEF IInv

(* A step leaves the workers alone or changes the record of one of them.   *)
LEMMA OneWorkerMoves ==
  ASSUME [Next]_vars
  PROVE  UNCHANGED worker \/ \E w \in Workers : \E s : Become(w, s)
  <1> DEFINE Moves(w) == \E s : Become(w, s)
  <1>1. UNCHANGED vars => UNCHANGED worker
    BY DEF vars
  <1>2. ASSUME \/ ReconcileExisting \/ RuntimeDies \/ Time_
               \/ \E j \in Jobs : \/ Reserve(j) \/ EnqueueJob(j) \/ DiscardReservation(j)
                                  \/ ApiCrash(j) \/ TaskEnds(j)
        PROVE  UNCHANGED worker
    BY <1>2 DEF ReconcileExisting, RuntimeDies, Time_, Reserve, EnqueueJob, DiscardReservation,
                ApiCrash, TaskEnds
  <1>3. ASSUME NEW w \in Workers,
               Start(w) \/ Maintain(w) \/ Stop(w) \/ (\E j \in Jobs : Claim(w, j)) \/ WorkerCrash(w)
        PROVE  UNCHANGED worker \/ Moves(w)
    BY <1>3 DEF Start, Maintain, Stop, Claim, WorkerCrash, Go
  <1>4. ASSUME NEW w \in Workers, DbFails(w) \/ Look(w) PROVE Moves(w)
    BY <1>4 DEF DbFails, Look, Raise, Go
  <1>5. ASSUME NEW w \in Workers, Renew(w) \/ Finish(w) \/ Replied(w) \/ GiveUp(w) PROVE Moves(w)
    BY <1>5 DEF Renew, Finish, Replied, GiveUp, Raise, Go
  <1>6. ASSUME NEW w \in Workers, SendCreate(w) \/ SendClone(w) \/ SendGit(w) PROVE Moves(w)
    BY <1>6 DEF SendCreate, SendClone, SendGit, Undelivered, Raise, Go
  <1>7. ASSUME NEW w \in Workers, FinalizeCall(w) \/ RollbackCall(w) PROVE Moves(w)
    BY <1>7 DEF FinalizeCall, RollbackCall, Raise, Go
  <1>8. ASSUME NEW w \in Workers,
               MarkReady(w) \/ MarkError(w) \/ AuditSuccess(w) \/ AuditFailure(w) \/ AuditAttention(w)
        PROVE  Moves(w)
    BY <1>8 DEF MarkReady, MarkError, AuditSuccess, AuditFailure, AuditAttention, Go
  <1> HIDE DEF Moves
  <1>9. ASSUME NEW w \in Workers, Work(w) \/ EndCall(w) \/ Heartbeat(w) PROVE Moves(w)
    BY <1>4, <1>5, <1>6, <1>7, <1>8, <1>9, ZenonT(30) DEF Work, EndCall, Heartbeat
  <1>10. UNCHANGED worker \/ \E w \in Workers : Moves(w)
    BY <1>1, <1>2, <1>3, <1>4, <1>9 DEF Next
  <1> QED BY <1>10 DEF Moves

LEMMA NextInv == IInv /\ [Next]_vars => IInv'
  <1> SUFFICES ASSUME IInv, [Next]_vars PROVE IInv'
    OBVIOUS
  <1>1. JobsInv'
    BY JobsStep, JobsNextInv DEF IInv
  <1>2. Held'
    BY HeldStep
  <1>3. final' \in [Projects -> [by : Jobs \cup {Nobody, User}, marker : BOOLEAN]]
    BY SomeDirectoryStep, DirectoryStepKeeps DEF IInv, TypeOK, FsTypeOK
  <1>4. FsTypeOK'
    BY <1>3, StagingType DEF FsTypeOK
  <1>5. worker' \in [Workers -> WorkerRec]
    <2>1. worker' = [w \in Workers |-> worker'[w]]
      <3>1. worker = [w \in Workers |-> worker[w]]
        BY DEF IInv, TypeOK
      <3>2. \A w \in Workers : \A s : Become(w, s) => worker' = [v \in Workers |-> worker'[v]]
        BY <3>1 DEF Become
      <3>3. UNCHANGED worker \/ \E w \in Workers : \E s : Become(w, s)
        BY OneWorkerMoves
      <3> QED BY <3>1, <3>2, <3>3
    <2>2. \A w \in Workers : worker'[w] \in WorkerRec
      BY <1>2 DEF Held, Shape
    <2> QED BY <2>1, <2>2
  <1>6. TypeOK'
    BY <1>1, <1>4, <1>5, RowsType DEF TypeOK, JobsInv
  <1> QED BY <1>1, <1>2, <1>6 DEF IInv

(* The inductive invariant holds in every reachable state.                 *)
THEOREM Invariance == Spec => []IInv
  BY InitInv, NextInv, PTL DEF Spec

(* The state of all processes and tables keeps its types.                  *)
THEOREM TypeCorrect == Spec => []TypeOK
  <1>1. IInv => TypeOK
    BY DEF IInv
  <1> QED BY <1>1, Invariance, PTL

(* The processes together implement the Job table's specification: seen on *)
(* the jobs table and the clock, every step is one of JobService's.        *)
THEOREM ImplementsJobService == Spec => JobsSpec
  <1>1. Init => JobsInit
    BY DEF Init
  <1>2. IInv /\ [Next]_vars => [JobsNext]_<<jobs, clock>>
    BY JobsStep
  <1> QED BY <1>1, <1>2, Invariance, PTL DEF Spec, JobsSpec

(* Two running Jobs never hold one resource_lock_key.                      *)
THEOREM LocksStayDistinct == Spec => []RunningLocksDistinct
  <1>1. IInv => RunningLocksDistinct
    BY DEF IInv, JobsInv
  <1> QED BY <1>1, Invariance, PTL

(* Every running Job carries a lease that recover_expired can see.         *)
THEOREM RunningStaysLeased == Spec => []RunningIsLeased
  <1>1. IInv => RunningIsLeased
    BY DEF IInv, JobsInv
  <1> QED BY <1>1, Invariance, PTL

(* No Job is claimed twice.                                                *)
THEOREM JobsClaimedOnce == Spec => []ClaimedAtMostOnce
  <1>1. IInv => ClaimedAtMostOnce
    BY DEF IInv, JobsInv
  <1> QED BY <1>1, Invariance, PTL

(* A worker about to send a Job's mutating RPC is the first to send it,    *)
(* for any number of workers, crashes, recoveries and clock steps.         *)
THEOREM JobsNeverReplayed == Spec => []NeverReplayed
  <1>1. IInv => NeverReplayed
    BY DEF IInv, Held, NeverReplayed, At, Unsent
  <1> QED BY <1>1, Invariance, PTL

(* No step of any process touches a directory AgentBox did not make.       *)
THEOREM UserDirectoriesStay == Spec => UserDirectoriesKept
  <1> DEFINE P == \A p \in Projects : final[p].by = User => final'[p] = final[p]
  <1>1. IInv /\ [Next]_vars => [P]_final
    BY SomeDirectoryStep, DirectoryStepKeeps
  <1>2. UserDirectoriesKept <=> [][P]_final
    BY DEF UserDirectoriesKept
  <1> QED BY <1>1, <1>2, Invariance, PTL DEF Spec

(* No operation takes over a directory that another one made.              *)
THEOREM DirectoriesStayPut == Spec => DirectoriesNotReplaced
  <1> DEFINE P == \A p \in Projects : final[p].by # Nobody => final'[p].by \in {final[p].by, Nobody}
  <1>1. IInv /\ [Next]_vars => [P]_final
    BY SomeDirectoryStep, DirectoryStepKeeps
  <1>2. DirectoriesNotReplaced <=> [][P]_final
    BY DEF DirectoriesNotReplaced
  <1> QED BY <1>1, <1>2, Invariance, PTL DEF Spec

-----------------------------------------------------------------------------
(* What the end of a Job says about its Project, from the invariant above  *)
(* and the three parts below.                                              *)

(* A Job that was claimed at some time.                                    *)
Started(j) == jobs[j].status \notin {"absent", "queued"}

(* A create or clone Job, which makes its Project's directory.             *)
Makes(j) == KindOf[j] # "git"

(* A create or clone Job whose request reserved its Project.               *)
Reserves(j) == Makes(j) /\ api[j] # "new"

(* Each Project row is reserved by at most one request, is "creating"      *)
(* until that request's Job begins, and only by such a reservation.        *)
Reservations ==
    /\ \A j \in Jobs : jobs[j].status = "absent" <=> api[j] # "done"
    /\ \A j \in Jobs : api[j] \in {"reserved", "crashed"} => Makes(j)
    /\ \A j, k \in Jobs : Reserves(j) /\ Reserves(k) /\ ProjectOf[j] = ProjectOf[k] => j = k
    /\ \A j \in Jobs : Reserves(j) => project[ProjectOf[j]] # "none"
    /\ \A j \in Jobs : Reserves(j) /\ jobs[j].status \in {"absent", "queued"} =>
          project[ProjectOf[j]] = "creating"
    /\ \A p \in Projects : project[p] = "creating" => \E j \in Jobs : Reserves(j) /\ ProjectOf[j] = p

(* What Job j can see of its Project: the row, if j makes the Project, and *)
(* its directory, staging area and audits.                                 *)
Row(j) == IF Makes(j) THEN project[ProjectOf[j]] ELSE "none"

View(j) == [dir    |-> IF final[ProjectOf[j]].by # j THEN "other"
                       ELSE IF final[ProjectOf[j]].marker THEN "marked" ELSE "plain",
            staged |-> j \in staging,
            audit  |-> audits[j]]

Touched(v) == v.staged \/ v.dir # "other"
Completed(j, row, v) == Makes(j) => row = "ready" /\ v.dir = "plain" /\ ~v.staged
Undone(j, row, v) == Makes(j) => row = "error" /\ ~Touched(v)

(* Where a worker is, heartbeats aside.                                    *)
Where(r) == IF r.pc = "renew" THEN r.after ELSE r.pc

(* What a worker at r, which holds Job j, has established for it.          *)
StageOK(j, r, row, v) ==
    /\ Where(r) \in {"progress", "send", "await", "mark_ready"} =>
          ~r.handling /\ ~r.ready /\ v.audit = {} /\ (Makes(j) => row = "creating")
    /\ Where(r) \in {"mark_ready", "finalize", "rollback", "mark_error", "attn_error"} => Makes(j)
    /\ Where(r) = "finalize" => ~r.handling /\ r.ready /\ v.audit = {} /\ row = "ready"
    /\ Where(r) = "audit_ok" => /\ ~r.handling /\ v.audit = {} /\ Completed(j, row, v)
                                /\ Makes(j) => r.ready
    /\ Where(r) = "rollback" => r.handling /\ row = "creating"
    /\ Where(r) = "mark_error" => r.handling /\ row = "creating" /\ ~Touched(v)
    /\ Where(r) = "audit_fail" => r.handling /\ Undone(j, row, v)
    /\ Where(r) \in {"attn_error", "attn_audit"} => r.handling
    /\ Where(r) \in {"finish", "finish_write"} =>
          /\ r.target = "succeeded" => ~r.handling /\ v.audit = {"succeeded"} /\ Completed(j, row, v)
          /\ r.target = "failed" => r.handling /\ "failed" \in v.audit /\ Undone(j, row, v)
          /\ r.after # "idle" => r.handling /\ r.target = "needs_attention"
          /\ r.after = "attn_error" => Makes(j)
          /\ ~r.handling /\ Makes(j) => r.ready

Stages ==
    \A w \in Workers, j \in Jobs : Job(w) = j => StageOK(j, worker[w], Row(j), View(j))

(* What a status of Job j says about its Project.                          *)
OutcomeOK(j, s, row, v) ==
    /\ s = "succeeded" => v.audit = {"succeeded"} /\ Completed(j, row, v)
    /\ s = "failed" => "failed" \in v.audit /\ Undone(j, row, v)
    /\ s = "deleted" /\ Makes(j) => row \in {"ready", "error"} /\ ~v.staged /\ v.dir # "marked"

Settled == {"succeeded", "failed", "deleted"}

Outcomes ==
    /\ \A j \in Jobs : Touched(View(j)) => Makes(j) /\ task[j] # "idle"
    /\ \A j \in Jobs : ~Started(j) => audits[j] = {}
    /\ \A w \in Workers, j \in Jobs : jobs[j].status \in Settled => Job(w) # j
    /\ \A j \in Jobs : OutcomeOK(j, jobs[j].status, Row(j), View(j))

OInv == IInv /\ Reservations /\ Stages /\ Outcomes

-----------------------------------------------------------------------------
LEMMA Types ==
    ASSUME IInv
    PROVE  /\ jobs \in [Jobs -> JobRow]
           /\ final \in [Projects -> [by : Jobs \cup {Nobody, User}, marker : BOOLEAN]]
           /\ staging \subseteq Jobs /\ task \in [Jobs -> TaskState]
           /\ project \in [Projects -> ProjectState]
           /\ api \in [Jobs -> {"new", "reserved", "done", "crashed"}]
           /\ worker \in [Workers -> WorkerRec]
           /\ audits \in [Jobs -> SUBSET {"succeeded", "failed"}]
           /\ \A j \in Jobs : ProjectOf[j] \in Projects
  BY JobModelAssumption DEF IInv, TypeOK, JobsTypeOK, FsTypeOK

(* A claimed create or clone Job has reserved its Project.                 *)
LEMMA StartedReserves ==
    ASSUME OInv, NEW j \in Jobs, Started(j), Makes(j)
    PROVE  Reserves(j)
  BY DEF OInv, Reservations, Started, Reserves

(* The Job a worker holds was claimed.                                     *)
LEMMA HeldStarted ==
    ASSUME IInv, NEW w \in Workers, Job(w) \in Jobs
    PROVE  Started(Job(w))
  BY DEF IInv, Held, Begun, Started

(* No step but enqueue makes a Job present, and no step makes one queued.  *)
LEMMA TableKeeps ==
    ASSUME IInv, \/ UNCHANGED jobs \/ RecoverExpired \/ Cleanup
                 \/ \E j \in Jobs : \/ \E w \in Workers : ClaimNext(w, j)
                                    \/ RenewWrite(j) \/ \E s \in Terminal : FinishWrite(j, s)
    PROVE  \A k \in Jobs : /\ jobs'[k].status = "absent" <=> jobs[k].status = "absent"
                           /\ jobs'[k].status = "queued" => jobs[k].status = "queued"
  <1> DEFINE Kept(k) == /\ jobs'[k].status = "absent" <=> jobs[k].status = "absent"
                        /\ jobs'[k].status = "queued" => jobs[k].status = "queued"
  <1>1. jobs \in [Jobs -> JobRow]
    BY Types
  <1>2. ASSUME NEW k \in Jobs, NEW j \in Jobs, NEW w \in Workers, ClaimNext(w, j) PROVE Kept(k)
    BY <1>1, <1>2 DEF ClaimNext, Claimable
  <1>3. ASSUME NEW k \in Jobs, NEW j \in Jobs, RenewWrite(j) PROVE Kept(k)
    BY <1>1, <1>3 DEF RenewWrite, JobRow
  <1>4. ASSUME NEW k \in Jobs, NEW j \in Jobs, NEW s \in Terminal, FinishWrite(j, s) PROVE Kept(k)
    BY <1>1, <1>4 DEF FinishWrite, RowExists, Terminal
  <1>5. ASSUME NEW k \in Jobs, RecoverExpired PROVE Kept(k)
    BY <1>1, <1>5 DEF RecoverExpired, Expired, Running
  <1>6. ASSUME NEW k \in Jobs, Cleanup PROVE Kept(k)
    BY <1>1, <1>6 DEF Cleanup, Deletable, Deleted, Unclaimed
  <1> QED BY <1>2, <1>3, <1>4, <1>5, <1>6

(* The reservations through the steps of the API's requests.               *)
LEMMA RequestReservations ==
    ASSUME OInv, NEW j \in Jobs,
           Reserve(j) \/ EnqueueJob(j) \/ DiscardReservation(j) \/ ApiCrash(j)
    PROVE  Reservations'
  <1>0. /\ Reservations /\ \A k \in Jobs : ProjectOf[k] \in Projects
        /\ api \in [Jobs -> {"new", "reserved", "done", "crashed"}]
        /\ project \in [Projects -> ProjectState] /\ jobs \in [Jobs -> JobRow]
    BY Types DEF OInv
  <1>1. CASE Reserve(j)
    <2>1. /\ jobs' = jobs /\ Makes(j) /\ api[j] = "new" /\ project[ProjectOf[j]] = "none"
          /\ api' = [api EXCEPT ![j] = "reserved"]
          /\ project' = [project EXCEPT ![ProjectOf[j]] = "creating"]
      BY <1>1 DEF Reserve, Makes
    <2>2. /\ api'[j] = "reserved" /\ \A k \in Jobs \ {j} : api'[k] = api[k]
          /\ project'[ProjectOf[j]] = "creating"
          /\ \A q \in Projects \ {ProjectOf[j]} : project'[q] = project[q]
      BY <1>0, <2>1
    <2>3. \A k \in Jobs : Reserves(k)' <=> Reserves(k) \/ k = j
      BY <2>1, <2>2 DEF Reserves, Makes
    <2>4. \A k \in Jobs : Reserves(k) => ProjectOf[k] # ProjectOf[j]
      BY <1>0, <2>1 DEF Reservations
    <2>5. \A k \in Jobs : jobs'[k].status = "absent" <=> api'[k] # "done"
      BY <1>0, <2>1, <2>2 DEF Reservations
    <2>6. \A k \in Jobs : api'[k] \in {"reserved", "crashed"} => Makes(k)
      BY <1>0, <2>1, <2>2 DEF Reservations
    <2>7. \A k, m \in Jobs : Reserves(k)' /\ Reserves(m)' /\ ProjectOf[k] = ProjectOf[m] => k = m
      BY <1>0, <2>3, <2>4 DEF Reservations
    <2>8. \A k \in Jobs : Reserves(k)' => project'[ProjectOf[k]] # "none"
      BY <2>2, <1>0, <2>3, <2>4 DEF Reservations
    <2>9. \A k \in Jobs : Reserves(k)' /\ jobs'[k].status \in {"absent", "queued"} =>
             project'[ProjectOf[k]] = "creating"
      BY <2>1, <2>2, <1>0, <2>3, <2>4 DEF Reservations
    <2>10. \A q \in Projects : project'[q] = "creating" =>
             \E k \in Jobs : Reserves(k)' /\ ProjectOf[k] = q
      BY <2>2, <1>0, <2>3, <2>4, ZenonT(30) DEF Reservations
    <2> QED BY <2>5, <2>6, <2>7, <2>8, <2>9, <2>10, ZenonT(30) DEF Reservations
  <1>2. CASE EnqueueJob(j)
    <2>1. jobs'[j].status = "queued" /\ jobs[j].status = "absent"
          /\ \A k \in Jobs \ {j} : jobs'[k] = jobs[k]
      BY <1>0, <1>2, ZenonT(30) DEF EnqueueJob, Enqueue, Unclaimed
    <2>2. api'[j] = "done" /\ (\A k \in Jobs \ {j} : api'[k] = api[k]) /\ project' = project
      BY <1>0, <1>2 DEF EnqueueJob
    <2>3. Makes(j) => api[j] = "reserved"
      BY <1>2 DEF EnqueueJob, Makes
    <2>4. \A k \in Jobs : Reserves(k)' <=> Reserves(k)
      BY <2>2, <2>3 DEF Reserves, Makes
    <2>5. \A k \in Jobs : jobs'[k].status = "absent" <=> api'[k] # "done"
      BY <1>0, <2>1, <2>2 DEF Reservations
    <2>6. \A k \in Jobs : api'[k] \in {"reserved", "crashed"} => Makes(k)
      BY <1>0, <2>1, <2>2 DEF Reservations
    <2>7. \A k, m \in Jobs : Reserves(k)' /\ Reserves(m)' /\ ProjectOf[k] = ProjectOf[m] => k = m
      BY <1>0, <2>4 DEF Reservations
    <2>8. \A k \in Jobs : Reserves(k)' => project'[ProjectOf[k]] # "none"
      BY <2>2, <1>0, <2>4 DEF Reservations
    <2>9. \A k \in Jobs : Reserves(k)' /\ jobs'[k].status \in {"absent", "queued"} =>
             project'[ProjectOf[k]] = "creating"
      BY <2>1, <2>2, <1>0, <2>4 DEF Reservations
    <2>10. \A q \in Projects : project'[q] = "creating" =>
             \E k \in Jobs : Reserves(k)' /\ ProjectOf[k] = q
      BY <2>2, <1>0, <2>4 DEF Reservations
    <2> QED BY <2>5, <2>6, <2>7, <2>8, <2>9, <2>10, ZenonT(30) DEF Reservations
  <1>3. CASE DiscardReservation(j)
    <2>1. /\ jobs' = jobs /\ api[j] = "reserved" /\ api' = [api EXCEPT ![j] = "new"]
          /\ project' = [project EXCEPT ![ProjectOf[j]] =
                            IF project[ProjectOf[j]] = "creating" THEN "none"
                            ELSE project[ProjectOf[j]]]
      BY <1>3 DEF DiscardReservation
    <2>2. Makes(j) /\ Reserves(j) /\ project[ProjectOf[j]] = "creating"
      BY <1>0, <2>1 DEF Reservations, Reserves
    <2>3. /\ api'[j] = "new" /\ \A k \in Jobs \ {j} : api'[k] = api[k]
          /\ project'[ProjectOf[j]] = "none"
          /\ \A q \in Projects \ {ProjectOf[j]} : project'[q] = project[q]
      BY <1>0, <2>1, <2>2
    <2>4. \A k \in Jobs : Reserves(k)' <=> Reserves(k) /\ k # j
      BY <2>3 DEF Reserves, Makes
    <2>5. \A k \in Jobs \ {j} : Reserves(k) => ProjectOf[k] # ProjectOf[j]
      BY <1>0, <2>2 DEF Reservations
    <2>6. \A k \in Jobs : jobs'[k].status = "absent" <=> api'[k] # "done"
      BY <1>0, <2>1, <2>3, <2>4, <2>5 DEF Reservations
    <2>7. \A k \in Jobs : api'[k] \in {"reserved", "crashed"} => Makes(k)
      BY <1>0, <2>1, <2>3, <2>4, <2>5 DEF Reservations
    <2>8. \A k, m \in Jobs : Reserves(k)' /\ Reserves(m)' /\ ProjectOf[k] = ProjectOf[m] => k = m
      BY <1>0, <2>1, <2>3, <2>4, <2>5 DEF Reservations
    <2>9. \A k \in Jobs : Reserves(k)' => project'[ProjectOf[k]] # "none"
      BY <1>0, <2>1, <2>3, <2>4, <2>5 DEF Reservations
    <2>10. \A k \in Jobs : Reserves(k)' /\ jobs'[k].status \in {"absent", "queued"} =>
             project'[ProjectOf[k]] = "creating"
      BY <1>0, <2>1, <2>3, <2>4, <2>5 DEF Reservations
    <2>11. \A q \in Projects : project'[q] = "creating" =>
             \E k \in Jobs : Reserves(k)' /\ ProjectOf[k] = q
      BY <1>0, <2>1, <2>3, <2>4, <2>5 DEF Reservations
    <2> QED BY <2>6, <2>7, <2>8, <2>9, <2>10, <2>11, ZenonT(30) DEF Reservations
  <1>4. CASE ApiCrash(j)
    <2>1. /\ jobs' = jobs /\ project' = project /\ api[j] = "reserved"
          /\ api'[j] = "crashed" /\ \A k \in Jobs \ {j} : api'[k] = api[k]
      BY <1>0, <1>4 DEF ApiCrash
    <2>2. \A k \in Jobs : Reserves(k)' <=> Reserves(k)
      BY <2>1 DEF Reserves, Makes
    <2>3. \A k \in Jobs : jobs'[k].status = "absent" <=> api'[k] # "done"
      BY <1>0, <2>1, <2>2 DEF Reservations
    <2>4. \A k \in Jobs : api'[k] \in {"reserved", "crashed"} => Makes(k)
      BY <1>0, <2>1, <2>2 DEF Reservations
    <2>5. \A k, m \in Jobs : Reserves(k)' /\ Reserves(m)' /\ ProjectOf[k] = ProjectOf[m] => k = m
      BY <1>0, <2>1, <2>2 DEF Reservations
    <2>6. \A k \in Jobs : Reserves(k)' => project'[ProjectOf[k]] # "none"
      BY <1>0, <2>1, <2>2 DEF Reservations
    <2>7. \A k \in Jobs : Reserves(k)' /\ jobs'[k].status \in {"absent", "queued"} =>
             project'[ProjectOf[k]] = "creating"
      BY <1>0, <2>1, <2>2 DEF Reservations
    <2>8. \A q \in Projects : project'[q] = "creating" =>
             \E k \in Jobs : Reserves(k)' /\ ProjectOf[k] = q
      BY <1>0, <2>1, <2>2 DEF Reservations
    <2> QED BY <2>3, <2>4, <2>5, <2>6, <2>7, <2>8, ZenonT(30) DEF Reservations
  <1> QED BY <1>1, <1>2, <1>3, <1>4

LEMMA ReconcileReservations ==
    ASSUME OInv, ReconcileExisting
    PROVE  Reservations'
  BY Types, ZenonT(30) DEF OInv, ReconcileExisting, Reservations, Reserves, Makes

(* mark_ready and mark_error, by the worker that holds the Project's Job.  *)
LEMMA MarkReservations ==
    ASSUME OInv, NEW w \in Workers, MarkReady(w) \/ MarkError(w)
    PROVE  Reservations'
  <1>1. Job(w) \in Jobs /\ Started(Job(w)) /\ Makes(Job(w))
    <2>1. Job(w) \in Jobs
      BY HasJob DEF OInv, MarkReady, MarkError, At
    <2>2. Makes(Job(w))
      BY <2>1 DEF OInv, Stages, StageOK, Where, MarkReady, MarkError, At
    <2> QED BY <2>1, <2>2, HeldStarted DEF OInv
  <1>2. Reserves(Job(w)) /\ jobs[Job(w)].status \notin {"absent", "queued"}
    BY <1>1, StartedReserves DEF Started
  <1>3. UNCHANGED <<jobs, api>>
    BY DEF MarkReady, MarkError
  <1>4. PICK s \in {"none", "ready", "error"} :
           /\ project' = [project EXCEPT ![ProjectOf[Job(w)]] = s]
           /\ s = "none" => project[ProjectOf[Job(w)]] = "none"
    BY DEF MarkReady, MarkError, Key
  <1> QED BY <1>1, <1>2, <1>3, <1>4, Types, ZenonT(30) DEF OInv, Reservations, Reserves

LEMMA OtherReservations ==
    ASSUME OInv, UNCHANGED <<api, project>>,
           \A k \in Jobs : /\ jobs'[k].status = "absent" <=> jobs[k].status = "absent"
                           /\ jobs'[k].status = "queued" => jobs[k].status = "queued"
    PROVE  Reservations'
  BY DEF OInv, Reservations, Reserves

LEMMA ReservationsStep == ASSUME OInv, [Next]_vars PROVE Reservations'
  <1>1. IInv
    BY DEF OInv
  <1>2. ASSUME NEW w \in Workers,
               \/ Start(w) \/ Maintain(w) \/ Stop(w) \/ (\E j \in Jobs : Claim(w, j)) \/ WorkerCrash(w)
        PROVE  Reservations'
    <2>1. UNCHANGED <<api, project>>
      BY <1>2, ZenonT(30) DEF Start, Maintain, Stop, Claim, WorkerCrash
    <2>2. UNCHANGED jobs \/ RecoverExpired \/ Cleanup \/ \E j \in Jobs : ClaimNext(w, j)
      BY <1>2, ZenonT(30) DEF Start, Maintain, Stop, Claim, WorkerCrash
    <2> QED BY <1>1, <2>1, <2>2, TableKeeps, OtherReservations
  <1>3. ASSUME NEW w \in Workers, Renew(w) \/ Finish(w) PROVE Reservations'
    <2>1. Job(w) \in Jobs /\ worker[w].target \in Terminal /\ UNCHANGED <<api, project>>
      BY <1>1, <1>3, HasJob, Types, ZenonT(30) DEF Renew, Finish, At, WorkerRec
    <2>2. RenewWrite(Job(w)) \/ FinishWrite(Job(w), worker[w].target)
      BY <1>3, ZenonT(30) DEF Renew, Finish
    <2> QED BY <1>1, <2>1, <2>2, TableKeeps, OtherReservations
  <1>4. ASSUME NEW w \in Workers,
               \/ Look(w) \/ DbFails(w) \/ Replied(w) \/ GiveUp(w) \/ FinalizeCall(w) \/ RollbackCall(w)
        PROVE  Reservations'
    <2>1. UNCHANGED <<api, project, jobs>>
      BY <1>4 DEF Look, DbFails, Replied, GiveUp, FinalizeCall, RollbackCall
    <2> QED BY <1>1, <2>1, TableKeeps, OtherReservations
  <1>5. ASSUME NEW w \in Workers,
               \/ SendCreate(w) \/ SendClone(w) \/ SendGit(w)
               \/ AuditSuccess(w) \/ AuditFailure(w) \/ AuditAttention(w)
        PROVE  Reservations'
    <2>1. UNCHANGED <<api, project, jobs>>
      BY <1>5 DEF SendCreate, SendClone, SendGit, AuditSuccess, AuditFailure, AuditAttention
    <2> QED BY <1>1, <2>1, TableKeeps, OtherReservations
  <1>6. ASSUME RuntimeDies \/ Time_ \/ UNCHANGED vars \/ \E j \in Jobs : TaskEnds(j)
        PROVE  Reservations'
    <2>1. UNCHANGED <<api, project, jobs>>
      BY <1>6 DEF RuntimeDies, Time_, vars, TaskEnds
    <2> QED BY <1>1, <2>1, TableKeeps, OtherReservations
  <1> QED BY <1>2, <1>3, <1>4, <1>5, <1>6, RequestReservations, ReconcileReservations,
             MarkReservations, ZenonT(30)
          DEF Next, Work, EndCall, Heartbeat

-----------------------------------------------------------------------------
LEMMA StartedStays ==
    ASSUME IInv, [Next]_vars, NEW k \in Jobs, Started(k)
    PROVE  Started(k)'
  <1>1. [JobsNext]_<<jobs, clock>>
    BY JobsStep
  <1>2. CASE \E j \in Jobs : Enqueue(j)
    BY <1>2, Types, ZenonT(30) DEF Enqueue, Started
  <1>3. CASE \/ UNCHANGED jobs \/ RecoverExpired \/ Cleanup
             \/ \E j \in Jobs : \/ \E w \in Workers : ClaimNext(w, j)
                                \/ RenewWrite(j) \/ \E s \in Terminal : FinishWrite(j, s)
    BY <1>3, TableKeeps, ZenonT(30) DEF Started
  <1> QED BY <1>1, <1>2, <1>3, ZenonT(30) DEF JobsNext, LateWrite

(* The step leaves alone what Job k sees, and does not start its RPC.      *)
Same(k) == /\ View(k)' = View(k)
           /\ Started(k) => Row(k)' = Row(k)
           /\ task'[k] = "idle" <=> task[k] = "idle"

(* The status of k changes only as claims, recovery and retention do.      *)
StatusKept(k) == \/ jobs'[k].status \notin Settled
                 \/ jobs'[k].status = jobs[k].status
                 \/ jobs'[k].status = "deleted" /\ jobs[k].status \in {"succeeded", "failed"}

LEMMA OutcomeKept ==
    ASSUME OInv, NEW k \in Jobs, Same(k), StatusKept(k)
    PROVE  OutcomeOK(k, jobs'[k].status, Row(k)', View(k)')
  <1>1. OutcomeOK(k, jobs[k].status, Row(k), View(k))
    BY ZenonT(30) DEF OInv, Outcomes
  <1>2. CASE jobs'[k].status \notin Settled
    BY <1>2 DEF OutcomeOK, Settled
  <1>3. CASE jobs'[k].status \in Settled
    <2>1. jobs[k].status \in Settled
      BY <1>3 DEF StatusKept, Settled
    <2>2. Row(k)' = Row(k) /\ View(k)' = View(k)
      BY <2>1 DEF Same, Started, Settled
    <2>3. CASE jobs'[k].status = jobs[k].status
      BY <1>1, <2>2, <2>3
    <2>4. CASE jobs'[k].status = "deleted" /\ jobs[k].status \in {"succeeded", "failed"}
      BY <1>1, <2>2, <2>4 DEF OutcomeOK, Completed, Undone, Touched
    <2> QED BY <1>3, <2>3, <2>4 DEF StatusKept
  <1> QED BY <1>2, <1>3

(* A step in which every worker stays where it is or holds no Job after.   *)
LEMMA NobodyWorks ==
    ASSUME OInv, [Next]_vars,
           \A k \in Jobs : Same(k) /\ StatusKept(k),
           \A v \in Workers : worker'[v] = worker[v] \/ worker'[v].job = NoJob
    PROVE  Stages' /\ Outcomes'
  <1>1. \A v \in Workers, k \in Jobs : worker'[v].job = k => worker'[v] = worker[v] /\ Job(v) = k
    BY FaultAssumption DEF Job
  <1>2. \A v \in Workers, k \in Jobs : Job(v) = k => Started(k)
    BY HeldStarted DEF OInv
  <1>3. Stages'
    <2> SUFFICES ASSUME NEW v \in Workers, NEW k \in Jobs, worker'[v].job = k
                 PROVE  StageOK(k, worker'[v], Row(k)', View(k)')
      BY ZenonT(30) DEF Stages, Job
    <2> QED BY <1>1, <1>2, ZenonT(30) DEF OInv, Stages, Same
  <1>4. \A k \in Jobs : Touched(View(k)') => Makes(k) /\ task'[k] # "idle"
    BY DEF OInv, Outcomes, Same
  <1>5. \A k \in Jobs : ~Started(k)' => audits'[k] = {}
    <2> SUFFICES ASSUME NEW k \in Jobs, ~Started(k)' PROVE audits'[k] = {}
      OBVIOUS
    <2>1. audits[k] = {}
      BY StartedStays DEF OInv, Outcomes
    <2> QED BY <2>1, ZenonT(30) DEF Same, View
  <1>6. \A v \in Workers, k \in Jobs : jobs'[k].status \in Settled => worker'[v].job # k
    BY <1>1 DEF OInv, Outcomes, StatusKept, Settled
  <1>7. \A k \in Jobs : OutcomeOK(k, jobs'[k].status, Row(k)', View(k)')
    BY OutcomeKept
  <1>8. Outcomes'
    BY <1>4, <1>5, <1>6, <1>7 DEF Outcomes, Job
  <1> QED BY <1>3, <1>8

(* A step of the worker that holds Job j.                                  *)
LEMMA SomebodyWorks ==
    ASSUME OInv, [Next]_vars, NEW w \in Workers, NEW j \in Jobs, Job(w) = j,
           NEW r, Become(w, r), r.job \in {j, NoJob},
           r.job = j => StageOK(j, r, Row(j)', View(j)'),
           Touched(View(j)') => Makes(j) /\ task'[j] # "idle",
           jobs'[j].status \in Settled =>
              r.job = NoJob /\ OutcomeOK(j, jobs'[j].status, Row(j)', View(j)'),
           \A k \in Jobs \ {j} : Same(k) /\ jobs'[k].status = jobs[k].status
    PROVE  Stages' /\ Outcomes'
  <1>1. worker'[w] = r /\ \A v \in Workers \ {w} : worker'[v] = worker[v]
    BY Types, ZenonT(30) DEF Become, OInv
  <1>2. \A v \in Workers, k \in Jobs : Job(v) = k => Started(k)
    BY HeldStarted, ZenonT(30) DEF OInv
  <1>3. \A v \in Workers \ {w} : Job(v) # j
    BY FaultAssumption, ZenonT(30) DEF OInv, IInv, Held
  <1>4. Started(j)'
    BY <1>2, StartedStays, ZenonT(30) DEF OInv
  <1>5. Stages'
    <2> SUFFICES ASSUME NEW v \in Workers, NEW k \in Jobs, worker'[v].job = k
                 PROVE  StageOK(k, worker'[v], Row(k)', View(k)')
      BY ZenonT(30) DEF Stages, Job
    <2>1. CASE v = w
      BY <1>1, <2>1, FaultAssumption, ZenonT(30)
    <2>2. CASE v # w
      <3>1. worker'[v] = worker[v] /\ Job(v) = k /\ k # j
        BY <1>1, <1>3, <2>2, ZenonT(30) DEF Job
      <3> QED BY <1>2, <3>1, ZenonT(30) DEF OInv, Stages, Same
    <2> QED BY <2>1, <2>2, ZenonT(30)
  <1>6. \A k \in Jobs : Touched(View(k)') => Makes(k) /\ task'[k] # "idle"
    BY ZenonT(30) DEF OInv, Outcomes, Same
  <1>7. \A k \in Jobs : ~Started(k)' => audits'[k] = {}
    <2> SUFFICES ASSUME NEW k \in Jobs, ~Started(k)' PROVE audits'[k] = {}
      BY ZenonT(30)
    <2>1. audits[k] = {} /\ k # j
      BY <1>4, StartedStays, ZenonT(30) DEF OInv, Outcomes
    <2> QED BY <2>1, ZenonT(30) DEF Same, View
  <1>8. ASSUME NEW v \in Workers, NEW k \in Jobs, jobs'[k].status \in Settled
        PROVE  worker'[v].job # k
    <2>1. CASE v = w
      <3>1. worker'[v].job \in {j, NoJob} /\ k # NoJob /\ (k = j => worker'[v].job = NoJob)
        BY <1>1, <1>8, <2>1, FaultAssumption, ZenonT(30)
      <3> QED BY <3>1, ZenonT(30)
    <2>2. CASE v # w
      <3>1. worker'[v].job = Job(v) /\ Job(v) # j
        BY <1>1, <1>3, <2>2, ZenonT(30) DEF Job
      <3>2. k # j => jobs[k].status \in Settled
        BY <1>8, ZenonT(30)
      <3>3. k # j => Job(v) # k
        BY <3>2, ZenonT(30) DEF OInv, Outcomes
      <3> QED BY <3>1, <3>3, ZenonT(30)
    <2> QED BY <2>1, <2>2, ZenonT(30)
  <1>9. \A k \in Jobs : OutcomeOK(k, jobs'[k].status, Row(k)', View(k)')
    <2> SUFFICES ASSUME NEW k \in Jobs PROVE OutcomeOK(k, jobs'[k].status, Row(k)', View(k)')
      BY ZenonT(30)
    <2>1. CASE k = j /\ jobs'[j].status \in Settled
      BY <2>1, ZenonT(30)
    <2>2. CASE k = j /\ jobs'[j].status \notin Settled
      BY <2>2, ZenonT(30) DEF OutcomeOK, Settled
    <2>3. CASE k # j
      BY <2>3, OutcomeKept, ZenonT(30) DEF StatusKept
    <2> QED BY <2>1, <2>2, <2>3, ZenonT(30)
  <1>10. Outcomes'
    BY <1>6, <1>7, <1>8, <1>9, ZenonT(30) DEF Outcomes, Job
  <1> QED BY <1>5, <1>10

-----------------------------------------------------------------------------
(* What a step for Job j may change leaves the other Jobs' views alone.    *)
LEMMA OthersSame ==
    ASSUME OInv, NEW j \in Jobs, Started(j), DirectoryStep(j),
           \A k \in Jobs \ {j} : k \in staging' <=> k \in staging,
           UNCHANGED audits \/ \E a : audits' = [audits EXCEPT ![j] = a],
           UNCHANGED task \/ \E t : task' = [task EXCEPT ![j] = t],
           UNCHANGED project \/ (Makes(j) /\ \E s : project' = [project EXCEPT ![ProjectOf[j]] = s])
    PROVE  \A k \in Jobs \ {j} : Same(k)
  <1> SUFFICES ASSUME NEW k \in Jobs \ {j} PROVE Same(k)
    OBVIOUS
  <1>1. IInv
    BY DEF OInv
  <1>2. audits'[k] = audits[k] /\ (task'[k] = "idle" <=> task[k] = "idle")
    BY <1>1, Types
  <1>3. ASSUME Started(k) PROVE Row(k)' = Row(k)
    <2>1. CASE UNCHANGED project \/ ~Makes(k)
      BY <2>1 DEF Row, Makes
    <2>2. CASE Makes(k) /\ Makes(j) /\ \E s : project' = [project EXCEPT ![ProjectOf[j]] = s]
      <3>1. ProjectOf[k] # ProjectOf[j]
        <4>1. Reserves(k) /\ Reserves(j)
          BY <1>3, <2>2, StartedReserves
        <4> QED BY <4>1, ZenonT(30) DEF OInv, Reservations
      <3> QED BY <1>1, <2>2, <3>1, Types DEF Row, Makes
    <2> QED BY <2>1, <2>2
  <1> DEFINE p == ProjectOf[k]
  <1>4. final'[p] = final[p] \/ (final[p].by # k /\ final'[p].by # k)
    <2>1. Nobody # k /\ j # k /\ p \in Projects
      BY <1>1, Types, WorkspaceAssumption
    <2>2. final \in [Projects -> [by : Jobs \cup {Nobody, User}, marker : BOOLEAN]]
      BY <1>1, Types
    <2>3. CASE p # ProjectOf[j]
      BY <2>1, <2>2, <2>3 DEF DirectoryStep, Place
    <2>4. CASE p = ProjectOf[j]
      BY <2>1, <2>2, <2>4 DEF DirectoryStep, Place, AbsentFinal
    <2> QED BY <2>3, <2>4
  <1>5. View(k)' = View(k)
    <2>1. (k \in staging') = (k \in staging)
      OBVIOUS
    <2> QED BY <1>2, <1>4, <2>1, ZenonT(30) DEF View
  <1> QED BY <1>2, <1>3, <1>5 DEF Same

(* An except clause: what it starts from is what its stage says, whatever  *)
(* the failed call left behind.                                            *)
LEMMA RaisedStage ==
    ASSUME OInv, NEW w \in Workers, NEW j \in Jobs, Job(w) = j, NEW v
    PROVE  /\ Raised(w, Where(worker[w])).job \in {j, NoJob}
           /\ Raised(w, Where(worker[w])).job = j =>
                 StageOK(j, Raised(w, Where(worker[w])), Row(j), v)
  <1> DEFINE r == Raised(w, Where(worker[w]))
  <1>1. worker[w].pc \notin {"down", "idle"}
    BY FaultAssumption DEF OInv, IInv, Held, Shape, Job
  <1>2. r.job \in {j, NoJob}
    BY <1>1, RaisedMove DEF OInv, Next_
  <1>3. StageOK(j, worker[w], Row(j), View(j)) /\ worker[w] \in WorkerRec /\ Shape(worker[w])
    BY Types DEF OInv, Stages, IInv, Held
  <1>4. Where(worker[w]) \in WorkerPc \ {"down", "idle", "renew"}
    BY <1>1, <1>3 DEF Where, Shape, WorkerRec, WorkerPc, Calling
  <1>5. ASSUME r.job = j PROVE StageOK(j, r, Row(j), v)
    <2>1. CASE Where(worker[w]) = "rollback"
      <3>1. Makes(j) /\ r = RollbackAttention(w)
        BY <1>3, <2>1, ZenonT(30) DEF StageOK, Raised
      <3>2. r.pc = "finish" /\ r.handling = TRUE /\ r.target = "needs_attention" /\ r.after = "attn_error"
        BY <3>1 DEF RollbackAttention, Moved
      <3> HIDE DEF r
      <3> QED BY <3>1, <3>2, ZenonT(30) DEF StageOK, Where
    <2>2. CASE Where(worker[w]) # "rollback" /\ worker[w].handling
      BY <1>5, <2>2, FaultAssumption DEF Raised, Free, Fresh
    <2>3. CASE Where(worker[w]) # "rollback" /\ ~worker[w].handling /\ ~Makes(j)
      <3>1. r = Clause(w, "audit_fail")
        BY <2>3 DEF Raised, Makes
      <3>2. r.pc = "audit_fail" /\ r.handling = TRUE
        BY <3>1 DEF Clause, Moved
      <3> HIDE DEF r
      <3> QED BY <2>3, <3>2, ZenonT(30) DEF StageOK, Where, Undone
    <2>4. CASE Where(worker[w]) # "rollback" /\ ~worker[w].handling /\ Makes(j) /\ worker[w].ready
      <3>1. r = FinalizeAttention(w)
        BY <2>4 DEF Raised, Makes
      <3>2. r.pc = "finish" /\ r.handling = TRUE /\ r.target = "needs_attention" /\ r.after = "attn_audit"
        BY <3>1 DEF FinalizeAttention, Moved
      <3> HIDE DEF r
      <3> QED BY <3>2, ZenonT(30) DEF StageOK, Where
    <2>5. CASE Where(worker[w]) # "rollback" /\ ~worker[w].handling /\ Makes(j) /\ ~worker[w].ready
      <3>1. r = Clause(w, "rollback")
        BY <2>5 DEF Raised, Makes
      <3>2. r.pc = "rollback" /\ r.handling = TRUE
        BY <3>1 DEF Clause, Moved
      <3>3. Row(j) = "creating"
        BY <1>3, <1>4, <2>5, ZenonT(30) DEF StageOK, WorkerPc
      <3> HIDE DEF r
      <3> QED BY <2>5, <3>2, <3>3, ZenonT(30) DEF StageOK, Where
    <2> QED BY <2>1, <2>2, <2>3, <2>4, <2>5
  <1> QED BY <1>2, <1>5

-----------------------------------------------------------------------------
LEMMA AllSame ==
    ASSUME UNCHANGED <<final, staging, task, audits, project>>
    PROVE  \A k \in Jobs : Same(k)
  BY ZenonT(30) DEF Same, View, Row

(* Steps of the other processes and of workers between two Jobs.           *)
LEMMA OtherOutcomes ==
    ASSUME OInv, [Next]_vars,
           \/ \E j \in Jobs : EnqueueJob(j) \/ ApiCrash(j)
           \/ Time_ \/ UNCHANGED vars
           \/ \E w \in Workers : Start(w) \/ Maintain(w) \/ Stop(w) \/ WorkerCrash(w)
    PROVE  Stages' /\ Outcomes'
  <1>1. UNCHANGED <<final, staging, task, audits, project>>
    BY ZenonT(30) DEF EnqueueJob, ApiCrash, Time_, vars, Start, Maintain, Stop, WorkerCrash,
       fsvars
  <1>2. jobs \in [Jobs -> JobRow] /\ worker \in [Workers -> WorkerRec]
    BY Types DEF OInv
  <1>3. \A k \in Jobs : StatusKept(k)
    <2>1. CASE UNCHANGED jobs
      BY <2>1 DEF StatusKept
    <2>2. CASE \E j \in Jobs : Enqueue(j)
      BY <1>2, <2>2 DEF StatusKept, Enqueue, Unclaimed, Settled
    <2>3. CASE RecoverExpired
      BY <1>2, <2>3 DEF StatusKept, RecoverExpired, Settled
    <2>4. CASE Cleanup
      BY <1>2, <2>4 DEF StatusKept, Cleanup, Deletable, Deleted, Unclaimed
    <2> QED BY <2>1, <2>2, <2>3, <2>4, ZenonT(30)
            DEF EnqueueJob, ApiCrash, Time_, vars, Start, Maintain, Stop, WorkerCrash
  <1>4. \A v \in Workers : worker'[v] = worker[v] \/ worker'[v].job = NoJob
    <2>1. CASE UNCHANGED worker
      BY <2>1
    <2>2. ASSUME NEW w \in Workers, WorkerCrash(w)
          PROVE  \A v \in Workers : worker'[v] = worker[v] \/ worker'[v].job = NoJob
      BY <1>2, <2>2 DEF WorkerCrash, Become, Free, Fresh
    <2>3. ASSUME NEW w \in Workers, Start(w) \/ Stop(w)
          PROVE  \A v \in Workers : worker'[v] = worker[v] \/ worker'[v].job = NoJob
      <3>1. worker[w].job = NoJob
        BY <2>3, ZenonT(30) DEF OInv, IInv, Held, Shape, Start, Stop, At
      <3>2. \E pc : worker' = [worker EXCEPT ![w] = [worker[w] EXCEPT !.pc = pc]]
        BY <2>3 DEF Start, Stop, Go, Become
      <3> QED BY <1>2, <3>1, <3>2 DEF WorkerRec
    <2> QED BY <2>1, <2>2, <2>3, ZenonT(30) DEF EnqueueJob, ApiCrash, Time_, vars, Maintain
  <1> QED BY <1>1, <1>3, <1>4, AllSame, NobodyWorks, ZenonT(30)

(* Steps of the API that change Project rows: only of Projects for which   *)
(* no create or clone Job has started.                                     *)
LEMMA RowOutcomes ==
    ASSUME OInv, [Next]_vars,
           ReconcileExisting \/ \E j \in Jobs : Reserve(j) \/ DiscardReservation(j)
    PROVE  Stages' /\ Outcomes'
  <1>1. UNCHANGED <<final, staging, task, audits, jobs, worker>>
    BY ZenonT(30) DEF ReconcileExisting, Reserve, DiscardReservation, fsvars
  <1>2. ASSUME NEW k \in Jobs, Started(k), Makes(k) PROVE project'[ProjectOf[k]] = project[ProjectOf[k]]
    <2>1. Reserves(k) /\ project[ProjectOf[k]] # "none" /\ ProjectOf[k] \in Projects
      BY <1>2, StartedReserves, Types, ZenonT(30) DEF OInv, Reservations
    <2>2. CASE ReconcileExisting
      BY <2>1, <2>2, ZenonT(30) DEF ReconcileExisting
    <2>3. CASE \E j \in Jobs : Reserve(j)
      BY <2>1, <2>3, Types, ZenonT(30) DEF Reserve, OInv
    <2>4. ASSUME NEW j \in Jobs, DiscardReservation(j)
          PROVE  project'[ProjectOf[k]] = project[ProjectOf[k]]
      <3>1. jobs[j].status = "absent" /\ Reserves(j)
        BY <2>4, ZenonT(30) DEF OInv, Reservations, Reserves, DiscardReservation
      <3>2. ProjectOf[j] # ProjectOf[k]
        BY <1>2, <2>1, <3>1, ZenonT(30) DEF OInv, Reservations, Started
      <3> QED BY <2>1, <2>4, <3>2, Types DEF OInv, DiscardReservation
    <2> QED BY <2>2, <2>3, <2>4
  <1>3. \A k \in Jobs : Same(k) /\ StatusKept(k)
    BY <1>1, <1>2 DEF Same, View, Row, Makes, StatusKept
  <1> QED BY <1>1, <1>3, NobodyWorks

LEMMA RuntimeDiesOutcomes ==
    ASSUME OInv, [Next]_vars, RuntimeDies
    PROVE  Stages' /\ Outcomes'
  <1>1. UNCHANGED <<final, staging, audits, jobs, worker, project>>
    BY DEF RuntimeDies, RuntimeCrash
  <1>2. \A k \in Jobs : task'[k] = "idle" <=> task[k] = "idle"
    BY DEF RuntimeDies, RuntimeCrash
  <1>3. \A k \in Jobs : Same(k) /\ StatusKept(k)
    BY <1>1, <1>2 DEF Same, View, Row, StatusKept
  <1> QED BY <1>1, <1>3, NobodyWorks

(* A claim: the Job's request reserved its Project and nothing is audited. *)
LEMMA ClaimOutcomes ==
    ASSUME OInv, [Next]_vars, NEW w \in Workers, NEW j \in Jobs, Claim(w, j)
    PROVE  Stages' /\ Outcomes'
  <1> DEFINE r == Fresh("progress", j)
  <1>1. UNCHANGED <<final, staging, task, audits, project>>
    BY DEF Claim, fsvars
  <1>2. jobs[j].status = "queued" /\ jobs'[j].status = "running"
        /\ \A k \in Jobs \ {j} : jobs'[k] = jobs[k]
    BY Types DEF Claim, ClaimNext, Claimable, OInv
  <1>3. worker'[w] = r /\ \A v \in Workers \ {w} : worker'[v] = worker[v]
    BY Types DEF Claim, Become, OInv
  <1>4. \A v \in Workers : Job(v) # j
    BY <1>2, HeldStarted DEF OInv, Started
  <1>5. StageOK(j, r, Row(j), View(j))
    <2>1. audits[j] = {}
      BY <1>2, ZenonT(30) DEF OInv, Outcomes, Started
    <2>2. Makes(j) => Row(j) = "creating"
      BY <1>2, ZenonT(30) DEF OInv, Reservations, Reserves, Row
    <2>3. r.pc = "progress" /\ r.handling = FALSE /\ r.ready = FALSE
      BY DEF Fresh
    <2>4. View(j).audit = {}
      BY <2>1, ZenonT(30) DEF View
    <2> HIDE DEF r
    <2> QED BY <2>2, <2>3, <2>4, ZenonT(30) DEF StageOK, Where
  <1>6. r.job = j
    BY DEF Fresh
  <1> HIDE DEF r
  <1>7. \A k \in Jobs : Row(k)' = Row(k) /\ View(k)' = View(k)
    BY <1>1 DEF Row, View
  <1>8. Stages'
    <2> SUFFICES ASSUME NEW v \in Workers, NEW k \in Jobs, worker'[v].job = k
                 PROVE  StageOK(k, worker'[v], Row(k)', View(k)')
      BY DEF Stages, Job
    <2>1. CASE v = w
      BY <1>3, <1>5, <1>6, <1>7, <2>1
    <2>2. CASE v # w
      BY <1>3, <1>7, <2>2 DEF OInv, Stages, Job
    <2> QED BY <2>1, <2>2
  <1>9. \A k \in Jobs : StatusKept(k)
    BY <1>2 DEF StatusKept, Settled
  <1>10. \A k \in Jobs : OutcomeOK(k, jobs'[k].status, Row(k)', View(k)')
    BY <1>1, <1>9, AllSame, OutcomeKept
  <1>11. ASSUME NEW v \in Workers, NEW k \in Jobs, jobs'[k].status \in Settled
         PROVE  worker'[v].job # k
    <2>1. k # j /\ jobs[k].status \in Settled
      BY <1>2, <1>11 DEF Settled
    <2>2. Job(v) # k
      BY <2>1 DEF OInv, Outcomes
    <2> QED BY <1>3, <1>6, <2>1, <2>2 DEF Job
  <1>12. \A k \in Jobs : ~Started(k)' => audits'[k] = {}
    BY <1>1, StartedStays, ZenonT(30) DEF OInv, Outcomes
  <1>13. \A k \in Jobs : Touched(View(k)') => Makes(k) /\ task'[k] # "idle"
    BY <1>1, <1>7, ZenonT(30) DEF OInv, Outcomes
  <1>14. Outcomes'
    BY <1>10, <1>11, <1>12, <1>13, ZenonT(30) DEF Outcomes, Job
  <1> QED BY <1>8, <1>14

-----------------------------------------------------------------------------
(* The steps of the worker that holds Job j.                               *)
LEMMA Holding ==
    ASSUME OInv, NEW w \in Workers, NEW j \in Jobs, Job(w) = j
    PROVE  /\ worker[w] \in WorkerRec /\ Shape(worker[w]) /\ worker[w].job = j
           /\ StageOK(j, worker[w], Row(j), View(j))
           /\ jobs[j].status \notin Settled /\ Started(j)
           /\ Touched(View(j)) => Makes(j) /\ task[j] # "idle"
  BY Types, HeldStarted, ZenonT(30) DEF OInv, IInv, Held, Stages, Outcomes, Job

(* It only moves on.                                                       *)
LEMMA MoveOutcomes ==
    ASSUME OInv, [Next]_vars, NEW w \in Workers, NEW j \in Jobs, Job(w) = j,
           UNCHANGED <<final, staging, task, audits, project, jobs>>,
           NEW r, Become(w, r), r.job \in {j, NoJob},
           r.job = j => StageOK(j, r, Row(j), View(j))
    PROVE  Stages' /\ Outcomes'
  <1>1. \A k \in Jobs : Same(k)
    BY AllSame
  <1>2. Row(j)' = Row(j) /\ View(j)' = View(j)
    BY ZenonT(30) DEF Row, View
  <1> QED BY <1>1, <1>2, Holding, SomebodyWorks, ZenonT(30)

(* A call fails, and may have changed the directory of its Job.            *)
LEMMA RaiseOutcomes ==
    ASSUME OInv, [Next]_vars, NEW w \in Workers, NEW j \in Jobs, Job(w) = j,
           UNCHANGED <<audits, project, jobs>>, DirectoryStep(j),
           \A k \in Jobs \ {j} : k \in staging' <=> k \in staging,
           UNCHANGED task \/ \E t : task' = [task EXCEPT ![j] = t],
           Touched(View(j)') => Makes(j) /\ task'[j] # "idle",
           Become(w, Raised(w, Where(worker[w])))
    PROVE  Stages' /\ Outcomes'
  <1>1. \A k \in Jobs \ {j} : Same(k)
    BY OthersSame, Holding, ZenonT(30)
  <1>2. Row(j)' = Row(j)
    BY ZenonT(30) DEF Row
  <1> DEFINE r == Raised(w, Where(worker[w]))
  <1>3. r.job \in {j, NoJob} /\ (r.job = j => StageOK(j, r, Row(j), View(j)'))
    BY RaisedStage
  <1> HIDE DEF r
  <1>4. Become(w, r)
    BY DEF r
  <1>5. jobs'[j].status \notin Settled
    BY Holding, ZenonT(30)
  <1> QED BY <1>1, <1>2, <1>3, <1>4, <1>5, SomebodyWorks, ZenonT(30)

LEMMA QuietRaiseOutcomes ==
    ASSUME OInv, [Next]_vars, NEW w \in Workers, NEW j \in Jobs, Job(w) = j,
           UNCHANGED <<audits, project, jobs, final, staging, task>>,
           Become(w, Raised(w, Where(worker[w])))
    PROVE  Stages' /\ Outcomes'
  <1>1. DirectoryStep(j)
    BY DEF DirectoryStep
  <1>2. View(j)' = View(j)
    BY ZenonT(30) DEF View
  <1> QED BY <1>1, <1>2, Holding, RaiseOutcomes, ZenonT(30)

(* The fields of the record of a worker that goes on to pc.                *)
LEMMA GoFields ==
    ASSUME OInv, NEW w \in Workers, NEW pc
    PROVE  LET r == [worker[w] EXCEPT !.pc = pc]
           IN  /\ r.pc = pc /\ r.job = Job(w) /\ r.ready = worker[w].ready
               /\ r.handling = worker[w].handling /\ r.target = worker[w].target
               /\ r.after = worker[w].after
  BY Types DEF OInv, WorkerRec, Job

LEMMA LookOutcomes ==
    ASSUME OInv, [Next]_vars, NEW w \in Workers, Look(w)
    PROVE  Stages' /\ Outcomes'
  <1> DEFINE j == Job(w)
  <1>1. worker[w].pc \in {"progress", "finish"} \cup Calling /\ worker[w].pc # "renew"
    BY DEF Look, Calling
  <1>2. j \in Jobs /\ Where(worker[w]) = worker[w].pc
    BY <1>1, HasJob DEF OInv, Where, Calling
  <1> HIDE DEF j
  <1>3. j = Job(w) /\ UNCHANGED <<final, staging, task, audits, project, jobs>>
    BY DEF Look, fsvars, j
  <1>4. StageOK(j, worker[w], Row(j), View(j))
    BY <1>2, <1>3, Holding, ZenonT(30)
  <1>5. CASE Raise(w)
    BY <1>2, <1>3, <1>5, QuietRaiseOutcomes DEF Raise
  <1>6. CASE At(w, "finish") /\ Go(w, "finish_write")
    <2> DEFINE r == [worker[w] EXCEPT !.pc = "finish_write"]
    <2>1. /\ r.pc = "finish_write" /\ r.job = Job(w) /\ r.ready = worker[w].ready
          /\ r.handling = worker[w].handling /\ r.target = worker[w].target
          /\ r.after = worker[w].after
      BY GoFields
    <2> HIDE DEF r
    <2>2. StageOK(j, r, Row(j), View(j))
      BY <1>2, <1>4, <1>6, <2>1, ZenonT(30) DEF StageOK, Where, At
    <2>3. Become(w, r)
      BY <1>6 DEF Go, r
    <2> QED BY <1>2, <1>3, <2>1, <2>2, <2>3, MoveOutcomes, ZenonT(30)
  <1>7. ASSUME NEW a, Become(w, Renewing(w, a)),
               \/ worker[w].pc = "progress" /\ a = "send"
               \/ worker[w].pc \in Calling /\ a = worker[w].pc
        PROVE  Stages' /\ Outcomes'
    <2> DEFINE r == Renewing(w, a)
    <2>1. /\ r.pc = "renew" /\ r.job = Job(w) /\ r.ready = worker[w].ready
          /\ r.handling = worker[w].handling /\ r.target = worker[w].target
          /\ r.after = a
      BY DEF Renewing, Moved
    <2> HIDE DEF r
    <2>2. StageOK(j, r, Row(j), View(j))
      BY <1>2, <1>4, <1>7, <2>1, ZenonT(30) DEF StageOK, Where, Calling
    <2>3. Become(w, r)
      BY <1>7 DEF r
    <2> QED BY <1>2, <1>3, <2>1, <2>2, <2>3, MoveOutcomes
  <1>8. \/ Raise(w)
        \/ At(w, "finish") /\ Go(w, "finish_write")
        \/ At(w, "progress") /\ Become(w, Renewing(w, "send"))
        \/ worker[w].pc \in Calling /\ Become(w, Renewing(w, worker[w].pc))
    BY DEF Look, At
  <1> QED BY <1>5, <1>6, <1>7, <1>8, ZenonT(30) DEF At

LEMMA RenewOutcomes ==
    ASSUME OInv, [Next]_vars, NEW w \in Workers, Renew(w)
    PROVE  Stages' /\ Outcomes'
  <1> DEFINE r == [worker[w] EXCEPT !.pc = worker[w].after]
  <1>1. PICK j \in Jobs : j = Job(w)
    BY HasJob DEF OInv, Renew, At
  <1>2. worker[w].pc = "renew"
    BY ZenonT(30) DEF Renew, At
  <1>3. /\ r.pc = worker[w].after /\ r.job = Job(w) /\ r.ready = worker[w].ready
        /\ r.handling = worker[w].handling /\ r.target = worker[w].target
        /\ r.after = worker[w].after
    BY GoFields
  <1>4. Become(w, r)
    BY DEF Renew, Go
  <1>5. UNCHANGED <<final, staging, task, audits, project>>
    BY DEF Renew, fsvars
  <1>6. \A k \in Jobs : jobs'[k].status = jobs[k].status
    BY <1>1, Types DEF Renew, RenewWrite, OInv, JobRow
  <1> HIDE DEF r
  <1>7. StageOK(j, worker[w], Row(j), View(j)) /\ Shape(worker[w])
    BY <1>2, <1>1, Holding, ZenonT(30)
  <1>8. StageOK(j, r, Row(j), View(j))
    <2>1. worker[w].after \in {"send"} \cup Calling
      BY <1>2, <1>7, ZenonT(30) DEF Shape
    <2> QED BY <1>2, <1>3, <1>7, <2>1, ZenonT(30) DEF StageOK, Where, Calling
  <1>9. Row(j)' = Row(j) /\ View(j)' = View(j) /\ \A k \in Jobs : Same(k)
    BY <1>5, AllSame, ZenonT(30) DEF Row, View
  <1> QED BY <1>2, <1>3, <1>4, <1>5, <1>6, <1>1, <1>8, <1>9, Holding, SomebodyWorks, ZenonT(30)

(* The UPDATE of _finish writes an outcome that has been established.      *)
LEMMA FinishOutcomes ==
    ASSUME OInv, [Next]_vars, NEW w \in Workers, Finish(w)
    PROVE  Stages' /\ Outcomes'
  <1>1. PICK j \in Jobs : j = Job(w)
    BY HasJob, ZenonT(30) DEF OInv, Finish, At
  <1>2. worker[w].pc = "finish_write" /\ worker[w].target \in Terminal
    BY Types DEF OInv, Finish, At, WorkerRec
  <1>3. UNCHANGED <<final, staging, task, audits, project>>
    BY ZenonT(30) DEF Finish, fsvars
  <1>4. jobs'[j].status = worker[w].target /\ \A k \in Jobs \ {j} : jobs'[k].status = jobs[k].status
    BY <1>1, Types DEF Finish, FinishWrite, OInv
  <1>5. StageOK(j, worker[w], Row(j), View(j)) /\ Shape(worker[w])
    BY <1>2, <1>1, Holding, ZenonT(30)
  <1>6. Row(j)' = Row(j) /\ View(j)' = View(j) /\ \A k \in Jobs : Same(k)
    BY <1>3, AllSame DEF Row, View
  <1>7. OutcomeOK(j, worker[w].target, Row(j), View(j))
    <2>1. Where(worker[w]) = "finish_write"
      BY <1>2 DEF Where
    <2>2. /\ worker[w].target = "succeeded"
                => View(j).audit = {"succeeded"} /\ Completed(j, Row(j), View(j))
          /\ worker[w].target = "failed" => "failed" \in View(j).audit /\ Undone(j, Row(j), View(j))
      BY <1>5, <2>1, ZenonT(30) DEF StageOK
    <2>3. worker[w].target # "deleted"
      BY <1>2 DEF Terminal
    <2> QED BY <2>2, <2>3, ZenonT(30) DEF OutcomeOK
  <1>8. CASE worker[w].after = "idle"
    <2>1. Become(w, Free("idle")) /\ Free("idle").job = NoJob
      BY <1>8 DEF Finish, Free, Fresh
    <2>2. NoJob # j
      BY FaultAssumption
    <2> QED BY <1>2, <1>3, <1>4, <1>1, <1>6, <1>7, <2>1, <2>2, Holding, SomebodyWorks,
               ZenonT(30)
  <1>9. CASE worker[w].after # "idle"
    <2> DEFINE r == [worker[w] EXCEPT !.pc = worker[w].after]
    <2>1. /\ r.pc = worker[w].after /\ r.job = Job(w) /\ r.ready = worker[w].ready
          /\ r.handling = worker[w].handling /\ r.target = worker[w].target
          /\ r.after = worker[w].after
      BY GoFields
    <2>2. Become(w, r)
      BY <1>9 DEF Finish, Go
    <2> HIDE DEF r
    <2>3. worker[w].target = "needs_attention" /\ worker[w].handling
          /\ worker[w].after \in {"attn_error", "attn_audit"}
      BY <1>2, <1>5, <1>9, ZenonT(30) DEF StageOK, Where, Shape
    <2>4. StageOK(j, r, Row(j), View(j))
      BY <1>2, <1>5, <2>1, <2>3, ZenonT(30) DEF StageOK, Where
    <2>5. jobs'[j].status \notin Settled
      BY <1>4, <2>3 DEF Settled
    <2> QED BY <1>2, <1>3, <1>4, <1>1, <1>6, <2>1, <2>2, <2>4, <2>5, Holding, SomebodyWorks,
               ZenonT(30)
  <1> QED BY <1>8, <1>9

(* The first RPC: it finds nothing of its Job, and may leave a directory   *)
(* and a staging area behind.                                              *)
LEMMA SendOutcomes ==
    ASSUME OInv, [Next]_vars, NEW w \in Workers, SendCreate(w) \/ SendClone(w) \/ SendGit(w)
    PROVE  Stages' /\ Outcomes'
  <1>1. PICK j \in Jobs : j = Job(w)
    BY HasJob, ZenonT(30) DEF OInv, SendCreate, SendClone, SendGit, At
  <1>2. worker[w].pc = "send" /\ Where(worker[w]) = "send" /\ UNCHANGED <<audits, project, jobs>>
    BY ZenonT(30) DEF SendCreate, SendClone, SendGit, At, Where
  <1>3. StageOK(j, worker[w], Row(j), View(j)) /\ task[j] = "idle"
    BY <1>1, <1>2, Holding, ZenonT(30) DEF OInv, IInv, Held, Unsent
  <1>4. DirectoryStep(j) /\ \A k \in Jobs \ {j} : k \in staging' <=> k \in staging
    BY <1>1 DEF SendCreate, SendClone, SendGit, CreateActivates, CreateFails, CreateAbandoned,
                Undelivered, CloneStarts, GitStarts, DirectoryStep, fsvars
  <1>5. UNCHANGED task \/ \E t : task' = [task EXCEPT ![j] = t]
    BY <1>1, ZenonT(30) DEF SendCreate, SendClone, SendGit, CreateActivates, CreateFails,
       CreateAbandoned,
                Undelivered, CloneStarts, GitStarts, fsvars, Reply
  <1>6. Touched(View(j)') => Makes(j) /\ task'[j] # "idle"
    <2>1. CASE UNCHANGED <<final, staging>>
      <3>1. ~Touched(View(j)')
        BY <1>1, <1>3, <2>1, Holding, ZenonT(30) DEF Touched, View
      <3> QED BY <3>1
    <2>2. CASE ~UNCHANGED <<final, staging>>
      <3>1. KindOf[j] # "git" /\ \E t \in {"ok", "err", "running"} : task' = [task EXCEPT ![j] = t]
        BY <1>1, <2>2, ZenonT(30) DEF SendCreate, SendClone, SendGit, CreateActivates,
           CreateFails, CreateAbandoned,
                Undelivered, CloneStarts, GitStarts, fsvars, Reply
      <3> QED BY <3>1, Types, ZenonT(30) DEF Makes, OInv
    <2> QED BY <2>1, <2>2
  <1>7. CASE Raise(w)
    BY <1>1, <1>2, <1>4, <1>5, <1>6, <1>7, RaiseOutcomes, ZenonT(30) DEF Raise
  <1>8. ASSUME NEW pc, Go(w, pc), \/ pc = "await"
                                  \/ pc = "mark_ready" /\ Makes(j)
        PROVE  Stages' /\ Outcomes'
    <2> DEFINE r == [worker[w] EXCEPT !.pc = pc]
    <2>1. r.pc = pc /\ r.job = Job(w) /\ r.ready = worker[w].ready /\ r.handling = worker[w].handling
      BY GoFields
    <2>2. Become(w, r)
      BY <1>8 DEF Go
    <2> HIDE DEF r
    <2>3. Row(j)' = Row(j) /\ View(j)'.audit = View(j).audit
      BY <1>2, ZenonT(30) DEF Row, View
    <2>4. StageOK(j, r, Row(j)', View(j)')
      BY <1>2, <1>3, <1>8, <2>1, <2>3, ZenonT(30) DEF StageOK, Where
    <2>5. \A k \in Jobs \ {j} : Same(k)
      BY <1>1, <1>2, <1>4, <1>5, Holding, OthersSame, ZenonT(30)
    <2> QED BY <1>1, <1>2, <1>6, <2>1, <2>2, <2>4, <2>5, Holding, SomebodyWorks, ZenonT(30)
  <1>9. Raise(w) \/ Go(w, "await") \/ (Go(w, "mark_ready") /\ Makes(j))
    BY <1>1 DEF SendCreate, SendClone, SendGit, Undelivered, Makes
  <1> QED BY <1>7, <1>8, <1>9

(* The reply to a clone or Git operation, or none.                         *)
LEMMA ReplyOutcomes ==
    ASSUME OInv, [Next]_vars, NEW w \in Workers, Replied(w) \/ GiveUp(w)
    PROVE  Stages' /\ Outcomes'
  <1>1. PICK j \in Jobs : j = Job(w)
    BY HasJob, ZenonT(30) DEF OInv, Replied, GiveUp, At
  <1>2. worker[w].pc = "await" /\ Where(worker[w]) = "await"
        /\ UNCHANGED <<final, staging, task, audits, project, jobs>>
    BY ZenonT(30) DEF Replied, GiveUp, At, Where, fsvars
  <1>3. StageOK(j, worker[w], Row(j), View(j))
    BY <1>1, Holding, ZenonT(30)
  <1>4. CASE Raise(w)
    BY <1>1, <1>2, <1>4, QuietRaiseOutcomes, ZenonT(30) DEF Raise
  <1>5. ASSUME NEW pc, Go(w, pc), \/ pc = "audit_ok" /\ ~Makes(j)
                                  \/ pc = "mark_ready" /\ Makes(j)
        PROVE  Stages' /\ Outcomes'
    <2> DEFINE r == [worker[w] EXCEPT !.pc = pc]
    <2>1. r.pc = pc /\ r.job = Job(w) /\ r.ready = worker[w].ready /\ r.handling = worker[w].handling
      BY GoFields
    <2>2. Become(w, r)
      BY <1>5 DEF Go
    <2> HIDE DEF r
    <2>3. StageOK(j, r, Row(j), View(j))
      BY <1>2, <1>3, <1>5, <2>1, ZenonT(30) DEF StageOK, Where, Completed
    <2> QED BY <1>1, <1>2, <2>1, <2>2, <2>3, MoveOutcomes, ZenonT(30)
  <1>6. Raise(w) \/ (Go(w, "audit_ok") /\ ~Makes(j)) \/ (Go(w, "mark_ready") /\ Makes(j))
    BY <1>1, ZenonT(30) DEF Replied, GiveUp, Makes
  <1> QED BY <1>4, <1>5, <1>6

LEMMA MarkOutcomes ==
    ASSUME OInv, [Next]_vars, NEW w \in Workers, MarkReady(w) \/ MarkError(w)
    PROVE  Stages' /\ Outcomes'
  <1>1. PICK j \in Jobs : j = Job(w)
    BY HasJob DEF OInv, MarkReady, MarkError, At
  <1>2. worker[w].pc \in {"mark_ready", "mark_error", "attn_error"} /\ Where(worker[w]) = worker[w].pc
        /\ UNCHANGED <<final, staging, task, audits, jobs>>
    BY DEF MarkReady, MarkError, At, Where, fsvars
  <1>3. StageOK(j, worker[w], Row(j), View(j)) /\ Makes(j)
    BY <1>1, <1>2, Holding, ZenonT(30) DEF StageOK
  <1>4. PICK s \in {"none", "ready", "error"} : project' = [project EXCEPT ![ProjectOf[j]] = s]
    BY <1>1 DEF MarkReady, MarkError, Key
  <1>5. \A k \in Jobs \ {j} : Same(k)
    <2>1. DirectoryStep(j)
      BY <1>2 DEF DirectoryStep
    <2> QED BY <1>1, <1>2, <1>3, <1>4, <2>1, Holding, OthersSame, ZenonT(30)
  <1>6. View(j)' = View(j) /\ Row(j)' = project'[ProjectOf[j]]
    BY <1>2, <1>3, ZenonT(30) DEF View, Row
  <1>7. CASE MarkReady(w)
    <2> DEFINE r == [pc |-> "finalize", job |-> Job(w), ready |-> TRUE, handling |-> worker[w].handling,
                     target |-> worker[w].target, after |-> worker[w].after]
    <2>1. r.pc = "finalize" /\ r.job = Job(w) /\ r.ready = TRUE /\ r.handling = worker[w].handling
      OBVIOUS
    <2>2. Become(w, r)
      BY <1>7 DEF MarkReady
    <2> HIDE DEF r
    <2>3. Row(j)' = "ready" /\ worker[w].pc = "mark_ready"
      BY <1>1, <1>6, <1>7, Types DEF MarkReady, Key, OInv, At
    <2>4. StageOK(j, r, Row(j)', View(j)')
      BY <1>2, <1>3, <1>6, <2>1, <2>3, ZenonT(30) DEF StageOK, Where
    <2>5. /\ r.job = j /\ jobs'[j].status \notin Settled
          /\ Touched(View(j)') => Makes(j) /\ task'[j] # "idle"
      BY <1>1, <1>2, <1>6, <2>1, Holding, ZenonT(30)
    <2> QED BY <1>1, <1>2, <1>5, <2>2, <2>4, <2>5, SomebodyWorks, ZenonT(30)
  <1>8. CASE MarkError(w)
    <2> DEFINE pc == IF At(w, "mark_error") THEN "audit_fail" ELSE "attn_audit"
               r == [worker[w] EXCEPT !.pc = pc]
    <2>1. r.pc = pc /\ r.job = Job(w) /\ r.ready = worker[w].ready /\ r.handling = worker[w].handling
      BY GoFields
    <2>2. Become(w, r)
      BY <1>8 DEF MarkError, Go
    <2>3. \/ worker[w].pc = "mark_error" /\ pc = "audit_fail"
          \/ worker[w].pc = "attn_error" /\ pc = "attn_audit"
      BY <1>8 DEF MarkError, At
    <2> HIDE DEF r, pc
    <2>4. Row(j) # "none" => Row(j)' = "error"
      BY <1>1, <1>3, <1>6, <1>8, Types DEF MarkError, Key, OInv, Row
    <2>5. StageOK(j, r, Row(j)', View(j)')
      BY <1>2, <1>3, <1>6, <2>1, <2>3, <2>4, ZenonT(30) DEF StageOK, Where, Undone
    <2> QED BY <1>1, <1>2, <1>5, <1>6, <2>1, <2>2, <2>5, Holding, SomebodyWorks, ZenonT(30)
  <1> QED BY <1>7, <1>8

(* finalize and rollback end; only a proved end goes on to the audit.      *)
LEMMA FinalizeOutcomes ==
    ASSUME OInv, [Next]_vars, NEW w \in Workers, FinalizeCall(w)
    PROVE  Stages' /\ Outcomes'
  <1>1. PICK j \in Jobs : j = Job(w)
    BY HasJob DEF OInv, FinalizeCall, At
  <1>2. worker[w].pc = "finalize" /\ Where(worker[w]) = "finalize"
        /\ UNCHANGED <<task, audits, project, jobs>>
    BY DEF FinalizeCall, At, Where
  <1>3. StageOK(j, worker[w], Row(j), View(j))
    BY <1>1, Holding, ZenonT(30)
  <1>4. DirectoryStep(j) /\ \A k \in Jobs \ {j} : k \in staging' <=> k \in staging
    BY <1>1 DEF FinalizeCall, Finalized, FinalizedHalf, Marked, DirectoryStep
  <1>5. Touched(View(j)') => Makes(j) /\ task'[j] # "idle"
    <2>1. CASE Marked(j)
      <3>1. Touched(View(j))
        <4>1. final[ProjectOf[j]].by = j
          BY <2>1 DEF Marked
        <4>2. View(j).dir # "other"
          BY <4>1 DEF View
        <4> QED BY <4>2 DEF Touched
      <3> QED BY <1>1, <1>2, <3>1, Holding, ZenonT(30)
    <2>2. CASE UNCHANGED <<final, staging>>
      <3>1. Touched(View(j)') <=> Touched(View(j))
        BY <2>2, ZenonT(30) DEF View, Touched
      <3> QED BY <1>1, <1>2, <3>1, Holding, ZenonT(30)
    <2> QED BY <1>1, <2>1, <2>2 DEF FinalizeCall, Finalized, FinalizedHalf
  <1>6. CASE Raise(w)
    BY <1>1, <1>2, <1>4, <1>5, <1>6, RaiseOutcomes, ZenonT(30) DEF Raise
  <1>7. CASE Finalized(j) /\ Go(w, "audit_ok")
    <2> DEFINE r == [worker[w] EXCEPT !.pc = "audit_ok"]
    <2>1. r.pc = "audit_ok" /\ r.job = Job(w) /\ r.ready = worker[w].ready
          /\ r.handling = worker[w].handling
      BY GoFields
    <2>2. Become(w, r)
      BY <1>7 DEF Go
    <2> HIDE DEF r
    <2>3. Row(j)' = Row(j) /\ View(j)'.audit = View(j).audit
      BY <1>2, ZenonT(30) DEF Row, View
    <2>4. View(j)'.dir = "plain" /\ ~View(j)'.staged
      <3>1. final'[ProjectOf[j]].by = j /\ final'[ProjectOf[j]].marker = FALSE /\ j \notin staging'
        BY <1>7, Types DEF Finalized, Marked, OInv
      <3> QED BY <3>1, ZenonT(30) DEF View
    <2>5. StageOK(j, r, Row(j)', View(j)')
      BY <1>2, <1>3, <2>1, <2>3, <2>4, ZenonT(30) DEF StageOK, Where, Completed
    <2>6. \A k \in Jobs \ {j} : Same(k)
      BY <1>1, <1>2, <1>4, Holding, OthersSame, ZenonT(30)
    <2> QED BY <1>1, <1>2, <1>5, <2>1, <2>2, <2>5, <2>6, Holding, SomebodyWorks, ZenonT(30)
  <1> QED BY <1>1, <1>6, <1>7 DEF FinalizeCall

LEMMA RollbackOutcomes ==
    ASSUME OInv, [Next]_vars, NEW w \in Workers, RollbackCall(w)
    PROVE  Stages' /\ Outcomes'
  <1>1. PICK j \in Jobs : j = Job(w)
    BY HasJob DEF OInv, RollbackCall, At
  <1>2. worker[w].pc = "rollback" /\ Where(worker[w]) = "rollback"
        /\ UNCHANGED <<task, audits, project, jobs>>
    BY DEF RollbackCall, At, Where
  <1>3. StageOK(j, worker[w], Row(j), View(j))
    BY <1>1, Holding, ZenonT(30)
  <1>4. DirectoryStep(j) /\ \A k \in Jobs \ {j} : k \in staging' <=> k \in staging
    BY <1>1 DEF RollbackCall, RolledBack, RollbackAllowed, RolledBackHalf,
       RolledBackStagingLeft,
                Marked, DirectoryStep
  <1>5. RolledBack(j) => ~Touched(View(j)')
    <2> SUFFICES ASSUME RolledBack(j) PROVE ~Touched(View(j)')
      OBVIOUS
    <2>1. final'[ProjectOf[j]].by = Nobody /\ j \notin staging'
      BY Types DEF RolledBack, OInv
    <2> QED BY <2>1, WorkspaceAssumption, ZenonT(30) DEF View, Touched
  <1>6. Touched(View(j)') => Makes(j) /\ task'[j] # "idle"
    <2>1. CASE j \in staging /\ Marked(j)
      <3>1. Touched(View(j))
        BY <2>1, ZenonT(30) DEF View, Touched
      <3> QED BY <1>1, <1>2, <3>1, Holding, ZenonT(30)
    <2>2. CASE UNCHANGED <<final, staging>>
      <3>1. Touched(View(j)') <=> Touched(View(j))
        BY <2>2 DEF View, Touched
      <3> QED BY <1>1, <1>2, <3>1, Holding, ZenonT(30)
    <2> QED BY <1>1, <1>5, <2>1, <2>2 DEF RollbackCall, RolledBackHalf, RolledBackStagingLeft
  <1>7. CASE Raise(w)
    BY <1>1, <1>2, <1>4, <1>6, <1>7, RaiseOutcomes, ZenonT(30) DEF Raise
  <1>8. CASE RolledBack(j) /\ Go(w, "mark_error")
    <2> DEFINE r == [worker[w] EXCEPT !.pc = "mark_error"]
    <2>1. r.pc = "mark_error" /\ r.job = Job(w) /\ r.handling = worker[w].handling
      BY GoFields
    <2>2. Become(w, r)
      BY <1>8 DEF Go
    <2> HIDE DEF r
    <2>3. Row(j)' = Row(j)
      BY <1>2 DEF Row
    <2>4. StageOK(j, r, Row(j)', View(j)')
      BY <1>2, <1>3, <1>5, <1>8, <2>1, <2>3, ZenonT(30) DEF StageOK, Where
    <2>5. \A k \in Jobs \ {j} : Same(k)
      BY <1>1, <1>2, <1>4, Holding, OthersSame, ZenonT(30)
    <2> QED BY <1>1, <1>2, <1>6, <2>1, <2>2, <2>4, <2>5, Holding, SomebodyWorks, ZenonT(30)
  <1> QED BY <1>1, <1>7, <1>8 DEF RollbackCall

(* The audit precedes the terminal transition.                             *)
LEMMA AuditOutcomes ==
    ASSUME OInv, [Next]_vars, NEW w \in Workers, AuditSuccess(w) \/ AuditFailure(w) \/ AuditAttention(w)
    PROVE  Stages' /\ Outcomes'
  <1>1. PICK j \in Jobs : j = Job(w)
    BY HasJob, ZenonT(30) DEF OInv, AuditSuccess, AuditFailure, AuditAttention, At
  <1>2. Where(worker[w]) = worker[w].pc /\ UNCHANGED <<final, staging, task, project, jobs>>
    BY ZenonT(30) DEF AuditSuccess, AuditFailure, AuditAttention, At, Where, fsvars
  <1>3. StageOK(j, worker[w], Row(j), View(j))
    BY <1>1, Holding, ZenonT(30)
  <1>4. \A k \in Jobs \ {j} : Same(k)
    <2>1. DirectoryStep(j)
      BY <1>2 DEF DirectoryStep
    <2>2. \E a : audits' = [audits EXCEPT ![j] = a]
      BY <1>1 DEF AuditSuccess, AuditFailure, AuditAttention, Audited
    <2> QED BY <1>1, <1>2, <2>1, <2>2, Holding, OthersSame, ZenonT(30)
  <1>5. Row(j)' = Row(j) /\ View(j)'.dir = View(j).dir /\ View(j)'.staged = View(j).staged
    BY <1>2, ZenonT(30) DEF Row, View
  <1>6. Touched(View(j)') => Makes(j) /\ task'[j] # "idle"
    BY <1>1, <1>2, <1>5, Holding, ZenonT(30) DEF Touched
  <1>7. ASSUME NEW s, Audited(w, s) PROVE View(j)'.audit = View(j).audit \cup {s}
    <2>1. audits'[j] = audits[j] \cup {s}
      BY <1>1, <1>7, Types, ZenonT(30) DEF Audited, OInv
    <2> QED BY <2>1 DEF View
  <1>8. CASE AuditAttention(w)
    <2>1. Become(w, Free("idle")) /\ Free("idle").job = NoJob /\ NoJob # j
      BY <1>8, FaultAssumption DEF AuditAttention, Free, Fresh
    <2> QED BY <1>1, <1>2, <1>4, <1>6, <2>1, Holding, SomebodyWorks, ZenonT(30)
  <1>9. ASSUME NEW s, Audited(w, s), Become(w, Finishing(w, s, "idle")),
               \/ s = "succeeded" /\ worker[w].pc = "audit_ok"
               \/ s = "failed" /\ worker[w].pc = "audit_fail"
        PROVE  Stages' /\ Outcomes'
    <2> DEFINE r == Finishing(w, s, "idle")
    <2>1. /\ r.pc = "finish" /\ r.job = Job(w) /\ r.ready = worker[w].ready
          /\ r.handling = worker[w].handling /\ r.target = s /\ r.after = "idle"
      BY DEF Finishing, Moved
    <2>2. Become(w, r)
      BY <1>9, ZenonT(30)
    <2> HIDE DEF r
    <2>3. StageOK(j, r, Row(j)', View(j)')
      <3>1. View(j)'.audit = View(j).audit \cup {s}
        BY <1>7, <1>9, ZenonT(30)
      <3> QED BY <1>2, <1>3, <1>5, <1>9, <2>1, <3>1, ZenonT(30) DEF StageOK, Where,
                 Completed, Undone, Touched
    <2> QED BY <1>1, <1>2, <1>4, <1>6, <2>1, <2>2, <2>3, Holding, SomebodyWorks, ZenonT(30)
  <1>10. CASE AuditSuccess(w)
    BY <1>9, <1>10, ZenonT(30) DEF AuditSuccess, At
  <1>11. CASE AuditFailure(w)
    BY <1>9, <1>11, ZenonT(30) DEF AuditFailure, At
  <1> QED BY <1>8, <1>10, <1>11

LEMMA DbFailsOutcomes ==
    ASSUME OInv, [Next]_vars, NEW w \in Workers, DbFails(w)
    PROVE  Stages' /\ Outcomes'
  <1>1. PICK j \in Jobs : j = Job(w)
    BY HasJob, ZenonT(30) DEF OInv, DbFails, At
  <1>2. UNCHANGED <<final, staging, task, audits, project, jobs>>
    BY ZenonT(30) DEF DbFails, fsvars
  <1>3. StageOK(j, worker[w], Row(j), View(j))
    BY <1>1, Holding, ZenonT(30)
  <1>4. CASE Become(w, Raised(w, Where(worker[w])))
    BY <1>1, <1>2, <1>4, QuietRaiseOutcomes
  <1>5. CASE worker[w].pc \in {"audit_ok", "audit_fail"} /\ Become(w, Finishing(w, "needs_attention", "idle"))
    <2> DEFINE r == Finishing(w, "needs_attention", "idle")
    <2>1. /\ r.pc = "finish" /\ r.job = Job(w) /\ r.ready = worker[w].ready
          /\ r.handling = worker[w].handling /\ r.target = "needs_attention" /\ r.after = "idle"
      BY DEF Finishing, Moved
    <2>2. Become(w, r)
      BY <1>5
    <2> HIDE DEF r
    <2>3. StageOK(j, r, Row(j), View(j))
      BY <1>3, <1>5, <2>1, ZenonT(30) DEF StageOK, Where
    <2> QED BY <1>1, <1>2, <2>1, <2>2, <2>3, MoveOutcomes, ZenonT(30)
  <1>6. CASE Become(w, Free("idle"))
    <2>1. Free("idle").job = NoJob /\ NoJob # j
      BY FaultAssumption DEF Free, Fresh
    <2> QED BY <1>1, <1>2, <1>6, <2>1, MoveOutcomes, ZenonT(30)
  <1> QED BY <1>4, <1>5, <1>6, ZenonT(30) DEF DbFails, Raise, At, Where

-----------------------------------------------------------------------------
(* A Runtime operation ends, perhaps after its worker gave it up.  It can  *)
(* still activate its directory only while its staging area is there.      *)
LEMMA TaskEndsOutcomes ==
    ASSUME OInv, [Next]_vars, NEW j \in Jobs, TaskEnds(j)
    PROVE  Stages' /\ Outcomes'
  <1>1. UNCHANGED <<jobs, project, worker, audits>>
    BY DEF TaskEnds
  <1>2. task[j] = "running" /\ task'[j] # "idle" /\ \E t : task' = [task EXCEPT ![j] = t]
    BY Types, ZenonT(30) DEF TaskEnds, CloneActivates, GitEnds, CloneFails, Reply, OInv
  <1>3. Started(j)
    BY <1>2, ZenonT(30) DEF OInv, IInv, Held, Begun, Started
  <1>4. DirectoryStep(j) /\ \A k \in Jobs \ {j} : k \in staging' <=> k \in staging
    BY DEF TaskEnds, CloneActivates, GitEnds, CloneFails, DirectoryStep
  <1>5. \A k \in Jobs \ {j} : Same(k)
    BY <1>1, <1>2, <1>3, <1>4, OthersSame, ZenonT(30)
  <1>6. Row(j)' = Row(j) /\ View(j)'.audit = View(j).audit
    BY <1>1, ZenonT(30) DEF Row, View
  <1>7. \/ View(j).staged /\ Makes(j)
        \/ View(j)'.dir = View(j).dir /\ (View(j)'.staged => View(j).staged)
    BY ZenonT(30) DEF TaskEnds, CloneActivates, GitEnds, CloneFails, View, Makes
  <1>8. ASSUME NEW r, StageOK(j, r, Row(j), View(j)) PROVE StageOK(j, r, Row(j)', View(j)')
    BY <1>6, <1>7, <1>8, ZenonT(30) DEF StageOK, Completed, Undone, Touched
  <1>9. ASSUME NEW s, OutcomeOK(j, s, Row(j), View(j)) PROVE OutcomeOK(j, s, Row(j)', View(j)')
    BY <1>6, <1>7, <1>9, ZenonT(30) DEF OutcomeOK, Completed, Undone, Touched
  <1>10. Stages'
    <2> SUFFICES ASSUME NEW v \in Workers, NEW k \in Jobs, Job(v) = k
                 PROVE  StageOK(k, worker[v], Row(k)', View(k)')
      BY <1>1 DEF Stages, Job
    <2>1. StageOK(k, worker[v], Row(k), View(k)) /\ Started(k)
      BY Holding, ZenonT(30)
    <2> QED BY <1>5, <1>8, <2>1, ZenonT(30) DEF Same
  <1>11. \A k \in Jobs : OutcomeOK(k, jobs'[k].status, Row(k)', View(k)')
    <2> SUFFICES ASSUME NEW k \in Jobs PROVE OutcomeOK(k, jobs'[k].status, Row(k)', View(k)')
      OBVIOUS
    <2>1. CASE k = j
      BY <1>1, <1>9, <2>1, ZenonT(30) DEF OInv, Outcomes
    <2>2. CASE k # j
      BY <1>1, <1>5, <2>2, OutcomeKept, ZenonT(30) DEF StatusKept
    <2> QED BY <2>1, <2>2
  <1>12. \A k \in Jobs : Touched(View(k)') => Makes(k) /\ task'[k] # "idle"
    <2>1. Touched(View(j)') => Makes(j)
      BY <1>7, ZenonT(30) DEF Touched, OInv, Outcomes
    <2> QED BY <1>2, <1>5, <2>1, ZenonT(30) DEF OInv, Outcomes, Same
  <1>13. Outcomes'
    BY <1>1, <1>11, <1>12, ZenonT(30) DEF OInv, Outcomes, Started, Job
  <1> QED BY <1>10, <1>13

LEMMA OutcomesStep == ASSUME OInv, [Next]_vars PROVE Stages' /\ Outcomes'
  BY OtherOutcomes, RowOutcomes, RuntimeDiesOutcomes, ClaimOutcomes, LookOutcomes,
     RenewOutcomes,
     FinishOutcomes, SendOutcomes, ReplyOutcomes, MarkOutcomes, FinalizeOutcomes, RollbackOutcomes,
     AuditOutcomes, DbFailsOutcomes, TaskEndsOutcomes, ZenonT(30)
  DEF Next, Work, EndCall, Heartbeat

LEMMA InitOutcomes == Init => OInv
  <1> SUFFICES ASSUME Init PROVE OInv
    OBVIOUS
  <1>1. IInv
    BY InitInv
  <1>2. \A j \in Jobs : jobs[j].status = "absent" /\ api[j] = "new" /\ audits[j] = {} /\ j \notin staging
    BY DEF Init, JobsInit, FsInit, Absent, Unclaimed
  <1>3. \A j \in Jobs : final[ProjectOf[j]].by # j
    <2> SUFFICES ASSUME NEW j \in Jobs PROVE final[ProjectOf[j]].by # j
      OBVIOUS
    <2>1. ProjectOf[j] \in Projects /\ j # Nobody /\ j # User
      BY JobModelAssumption, WorkspaceAssumption
    <2>2. \A p \in Projects : final[p].by \in {User, Nobody}
      BY DEF Init, FsInit
    <2> QED BY <2>1, <2>2
  <1>4. \A w \in Workers, j \in Jobs : Job(w) # j
    BY FaultAssumption DEF Init, Free, Fresh, Job
  <1>5. \A p \in Projects : project[p] = "none"
    BY DEF Init
  <1>6. Reservations
    BY <1>2, <1>5 DEF Reservations, Reserves
  <1>7. Stages
    BY <1>4 DEF Stages
  <1>8. \A j \in Jobs : ~Touched(View(j))
    BY <1>2, <1>3 DEF View, Touched
  <1>9. \A j \in Jobs : OutcomeOK(j, jobs[j].status, Row(j), View(j))
    BY <1>2 DEF OutcomeOK
  <1> QED BY <1>1, <1>2, <1>4, <1>6, <1>7, <1>8, <1>9, ZenonT(30) DEF OInv, Outcomes

(* The invariant with the reservations, the stages of the workers and the  *)
(* outcomes holds in every reachable state.                                *)
THEOREM OutcomeInvariance == Spec => []OInv
  <1>1. OInv /\ [Next]_vars => OInv'
    BY NextInv, ReservationsStep, OutcomesStep DEF OInv
  <1> QED BY <1>1, InitOutcomes, PTL DEF Spec

(* A succeeded Job is complete everywhere, through any crash, recovery,    *)
(* lost reply and interleaving of worker processes.                        *)
THEOREM SucceededJobsAreComplete == Spec => []SucceededIsComplete
  <1>1. OInv => SucceededIsComplete
    <2> SUFFICES ASSUME OInv, NEW j \in Jobs, jobs[j].status = "succeeded"
                 PROVE  /\ audits[j] = {"succeeded"}
                        /\ KindOf[j] # "git" =>
                              /\ project[ProjectOf[j]] = "ready"
                              /\ final[ProjectOf[j]] = [by |-> j, marker |-> FALSE]
                              /\ j \notin staging
      BY DEF SucceededIsComplete
    <2>1. View(j).audit = {"succeeded"} /\ Completed(j, Row(j), View(j))
      BY ZenonT(30) DEF OInv, Outcomes, OutcomeOK
    <2>2. audits[j] = {"succeeded"}
      BY <2>1, ZenonT(30) DEF View
    <2>3. ASSUME KindOf[j] # "git"
          PROVE  /\ project[ProjectOf[j]] = "ready"
                 /\ final[ProjectOf[j]] = [by |-> j, marker |-> FALSE]
                 /\ j \notin staging
      <3>1. project[ProjectOf[j]] = "ready" /\ View(j).dir = "plain" /\ ~View(j).staged
        BY <2>1, <2>3 DEF Completed, Makes, Row
      <3>2. final[ProjectOf[j]].by = j /\ ~final[ProjectOf[j]].marker /\ j \notin staging
        BY <3>1, ZenonT(30) DEF View
      <3>3. final[ProjectOf[j]] \in [by : Jobs \cup {Nobody, User}, marker : BOOLEAN]
        BY Types DEF OInv
      <3> QED BY <3>1, <3>2, <3>3, ZenonT(30)
    <2> QED BY <2>2, <2>3
  <1> QED BY <1>1, OutcomeInvariance, PTL

(* A failed Job is undone everywhere, also when the Runtime was still      *)
(* cloning as the worker gave up.                                          *)
THEOREM FailedJobsAreUndone == Spec => []FailedIsUndone
  <1>1. OInv => FailedIsUndone
    <2> SUFFICES ASSUME OInv, NEW j \in Jobs, jobs[j].status = "failed"
                 PROVE  /\ "failed" \in audits[j]
                        /\ KindOf[j] # "git" =>
                              /\ project[ProjectOf[j]] = "error"
                              /\ final[ProjectOf[j]].by # j
                              /\ j \notin staging
      BY DEF FailedIsUndone
    <2>1. "failed" \in View(j).audit /\ Undone(j, Row(j), View(j))
      BY ZenonT(30) DEF OInv, Outcomes, OutcomeOK
    <2> QED BY <2>1, ZenonT(30) DEF View, Undone, Makes, Row, Touched
  <1> QED BY <1>1, OutcomeInvariance, PTL

(* A Project that stays "creating" can be traced to a request or a Job.    *)
THEOREM CreatingProjectsAreAccountedFor == Spec => []CreatingIsAccountedFor
  <1>1. OInv => CreatingIsAccountedFor
    <2> SUFFICES ASSUME OInv, NEW p \in Projects, project[p] = "creating"
                 PROVE  \E j \in Jobs :
                           /\ ProjectOf[j] = p
                           /\ \/ api[j] \in {"reserved", "crashed"}
                              \/ jobs[j].status \in {"queued", "running", "needs_attention"}
      BY DEF CreatingIsAccountedFor
    <2>1. PICK j \in Jobs : Reserves(j) /\ ProjectOf[j] = p
      BY DEF OInv, Reservations
    <2>2. Makes(j) /\ Row(j) = "creating"
      BY <2>1 DEF Reserves, Row
    <2>3. jobs[j].status \notin Settled
      BY <2>2, ZenonT(30) DEF OInv, Outcomes, OutcomeOK, Completed, Undone, Settled
    <2>4. jobs[j].status \in Status /\ api[j] \in {"new", "reserved", "done", "crashed"}
      BY Types, ZenonT(30) DEF OInv, JobRow
    <2>5. jobs[j].status = "absent" => api[j] \in {"reserved", "crashed"}
      BY <2>1, <2>4 DEF OInv, Reservations, Reserves
    <2> QED BY <2>1, <2>3, <2>4, <2>5 DEF Status, Terminal, Settled
  <1> QED BY <1>1, OutcomeInvariance, PTL

(* What an interrupted Job left on disk is advertised by its status.       *)
THEOREM LeftoversStayAdvertised == Spec => []LeftoversAreAdvertised
  <1>1. OInv => LeftoversAreAdvertised
    <2> SUFFICES ASSUME OInv, NEW j \in Jobs, j \in staging \/ Marked(j)
                 PROVE  jobs[j].status \in {"running", "needs_attention"}
      BY DEF LeftoversAreAdvertised
    <2>1. Touched(View(j)) /\ (View(j).staged \/ View(j).dir = "marked")
      <3>1. Marked(j) => final[ProjectOf[j]].by = j /\ final[ProjectOf[j]].marker
        BY DEF Marked
      <3>2. View(j).staged \/ View(j).dir = "marked"
        BY <3>1, ZenonT(30) DEF View
      <3> QED BY <3>2 DEF Touched
    <2>2. Makes(j) /\ task[j] # "idle"
      BY <2>1, ZenonT(30) DEF OInv, Outcomes
    <2>3. Started(j) /\ jobs[j].status \in Status
      BY <2>2, Types, ZenonT(30) DEF OInv, IInv, Held, Begun, Started, JobRow
    <2>4. jobs[j].status \notin Settled
      BY <2>1, <2>2, ZenonT(30) DEF OInv, Outcomes, OutcomeOK, Completed, Undone, Settled,
         Touched
    <2> QED BY <2>3, <2>4 DEF Started, Status, Terminal, Settled
  <1> QED BY <1>1, OutcomeInvariance, PTL

-----------------------------------------------------------------------------
(* With one worker process, a Job that is executed is running until its    *)
(* _finish: nobody else recovers or finishes it meanwhile.                 *)
Attending == {"attn_error", "attn_audit"}

ExecutedIsRunning ==
    \A w \in Workers, j \in Jobs : Job(w) = j /\ worker[w].pc \notin Attending => Running(j)

SingleInv == OInv /\ ExecutedIsRunning

LEMMA BecomeSame ==
    ASSUME OInv, NEW w \in Workers, NEW r, Become(w, r), r.job \in {Job(w), NoJob}
    PROVE  worker'[w].job \in {Job(w), NoJob}
  BY Types DEF OInv, Become

(* The steps of a worker that executes a Job, the crash aside.             *)
Executes(w) ==
    \/ Look(w) \/ Renew(w) \/ Finish(w) \/ SendCreate(w) \/ SendClone(w) \/ SendGit(w)
    \/ Replied(w) \/ GiveUp(w) \/ MarkReady(w) \/ FinalizeCall(w) \/ RollbackCall(w)
    \/ MarkError(w) \/ AuditSuccess(w) \/ AuditFailure(w) \/ AuditAttention(w) \/ DbFails(w)

LEMMA MovesWithinJob ==
    ASSUME OInv, NEW w \in Workers, Executes(w)
    PROVE  worker'[w].job \in {Job(w), NoJob}
  <1>1. ASSUME NEW pc, Go(w, pc) PROVE worker'[w].job \in {Job(w), NoJob}
    <2>1. [worker[w] EXCEPT !.pc = pc].job = Job(w)
      BY GoFields
    <2> QED BY <1>1, <2>1, BecomeSame, ZenonT(30) DEF Go
  <1>2. ASSUME NEW pc, NEW h, NEW t, NEW a, Become(w, Moved(w, pc, h, t, a))
        PROVE  worker'[w].job \in {Job(w), NoJob}
    <2>1. Moved(w, pc, h, t, a).job = Job(w)
      BY DEF Moved
    <2> QED BY <1>2, <2>1, BecomeSame, ZenonT(30)
  <1>3. ASSUME NEW pc, Become(w, Free(pc)) PROVE worker'[w].job \in {Job(w), NoJob}
    BY <1>3, BecomeSame DEF Free, Fresh
  <1>4. ASSUME NEW pc, Become(w, Raised(w, pc)), worker[w].pc \notin {"down", "idle"}
        PROVE  worker'[w].job \in {Job(w), NoJob}
    BY <1>4, RaisedMove, BecomeSame, ZenonT(30) DEF Next_, OInv
  <1>5. worker[w].pc \notin {"down", "idle"}
    BY DEF Executes, Look, Renew, Finish, SendCreate, SendClone, SendGit, Replied, GiveUp,
       MarkReady,
           FinalizeCall, RollbackCall, MarkError, AuditSuccess, AuditFailure, AuditAttention, DbFails,
           At, Calling
  <1>6. ASSUME Look(w)
        PROVE  Raise(w) \/ Go(w, "finish_write") \/ \E a : Become(w, Renewing(w, a))
    BY <1>6 DEF Look
  <1>7. ASSUME Renew(w) \/ Finish(w) PROVE Go(w, worker[w].after) \/ Become(w, Free("idle"))
    BY <1>7, ZenonT(30) DEF Renew, Finish
  <1>8. ASSUME SendCreate(w) \/ SendClone(w) \/ SendGit(w) \/ Replied(w) \/ GiveUp(w)
        PROVE  Raise(w) \/ \E pc : Go(w, pc)
    BY <1>8, ZenonT(30) DEF SendCreate, SendClone, SendGit, Undelivered, Replied, GiveUp
  <1>9. ASSUME FinalizeCall(w) \/ RollbackCall(w) \/ MarkError(w)
        PROVE  Raise(w) \/ \E pc : Go(w, pc)
    BY <1>9 DEF FinalizeCall, RollbackCall, MarkError
  <1>10. ASSUME AuditSuccess(w) \/ AuditFailure(w) \/ AuditAttention(w)
         PROVE  Become(w, Free("idle")) \/ \E t : Become(w, Finishing(w, t, "idle"))
    BY <1>10 DEF AuditSuccess, AuditFailure, AuditAttention
  <1>11. ASSUME DbFails(w)
         PROVE  \/ Become(w, Free("idle")) \/ \E t : Become(w, Finishing(w, t, "idle"))
                \/ Raise(w) \/ Become(w, Raised(w, worker[w].after))
    BY <1>11, ZenonT(30) DEF DbFails
  <1>12. MarkReady(w) => worker'[w].job \in {Job(w), NoJob}
    BY BecomeSame, ZenonT(30) DEF MarkReady
  <1>13. Raise(w) => worker'[w].job \in {Job(w), NoJob}
    BY <1>4, <1>5 DEF Raise
  <1>14. \A a : Become(w, Renewing(w, a)) => worker'[w].job \in {Job(w), NoJob}
    BY <1>2 DEF Renewing
  <1>15. \A t : Become(w, Finishing(w, t, "idle")) => worker'[w].job \in {Job(w), NoJob}
    BY <1>2 DEF Finishing
  <1> QED BY <1>1, <1>3, <1>4, <1>5, <1>6, <1>7, <1>8, <1>9, <1>10, <1>11, <1>12, <1>13,
             <1>14, <1>15, ZenonT(30)
          DEF Executes

(* A helper that advertises needs_attention does nothing else.             *)
LEMMA AttendingStays ==
    ASSUME OInv, NEW w \in Workers, worker[w].pc \in Attending,
           MarkError(w) \/ AuditAttention(w) \/ DbFails(w)
    PROVE  worker'[w].job = NoJob \/ worker'[w].pc \in Attending
  <1>1. worker \in [Workers -> WorkerRec] /\ \A pc : Free(pc).job = NoJob
    BY Types DEF OInv, Free, Fresh
  <1>2. \A pc : Become(w, Free(pc)) => worker'[w].job = NoJob
    BY <1>1 DEF Become
  <1>3. CASE MarkError(w)
    <2>1. Go(w, "attn_audit")
      BY <1>3 DEF MarkError, Attending, At
    <2> QED BY <1>1, <2>1 DEF Go, Become, WorkerRec, Attending
  <1>4. CASE AuditAttention(w)
    BY <1>2, <1>4 DEF AuditAttention
  <1>5. CASE DbFails(w)
    <2>1. Job(w) \in Jobs
      BY <1>5, HasJob DEF OInv, Attending
    <2>2. worker[w].handling
      BY <2>1, Holding, ZenonT(30) DEF StageOK, Where, Attending
    <2>3. CASE Raise(w)
      BY <1>2, <2>2, <2>3, ZenonT(30) DEF Raise, Raised, Attending
    <2> QED BY <1>2, <1>5, <2>3, ZenonT(30) DEF DbFails, At, Attending
  <1> QED BY <1>3, <1>4, <1>5

LEMMA ExecutedStep ==
    ASSUME \A v, w \in Workers : v = w, SingleInv, [Next]_vars
    PROVE  ExecutedIsRunning'
  <1> SUFFICES ASSUME NEW w \in Workers, NEW j \in Jobs, worker'[w].job = j, worker'[w].pc \notin Attending
               PROVE  jobs'[j].status = "running"
    BY DEF ExecutedIsRunning, Running, Job
  <1>1. OInv /\ IInv /\ j # NoJob
    BY FaultAssumption DEF SingleInv, OInv
  <1>2. jobs \in [Jobs -> JobRow] /\ worker \in [Workers -> WorkerRec]
    BY <1>1, Types, ZenonT(30)
  <1>3. ASSUME Job(w) = j, worker[w].pc \notin Attending, jobs'[j].status = jobs[j].status
        PROVE  jobs'[j].status = "running"
    BY <1>3 DEF SingleInv, ExecutedIsRunning, Running
  <1>4. CASE UNCHANGED <<jobs, worker>>
    BY <1>3, <1>4 DEF Job
  <1>5. CASE Start(w) \/ Stop(w) \/ WorkerCrash(w)
    <2>1. worker'[w].job = NoJob
      <3>1. worker[w].pc \in {"down", "idle"} => worker[w].job = NoJob
        BY <1>1 DEF IInv, Held, Shape
      <3> QED BY <1>2, <1>5, <3>1 DEF Start, Stop, WorkerCrash, At, Go, Become, Free, Fresh,
                 WorkerRec
    <2> QED BY <1>1, <2>1
  <1>6. CASE Maintain(w)
    <2>1. worker[w].job = NoJob /\ UNCHANGED worker
      BY <1>1, <1>6, ZenonT(30) DEF Maintain, At, IInv, Held, Shape
    <2> QED BY <1>1, <2>1
  <1>7. ASSUME NEW k \in Jobs, Claim(w, k) PROVE jobs'[j].status = "running"
    <2>1. j = k
      BY <1>2, <1>7 DEF Claim, Become, Fresh
    <2> QED BY <1>2, <1>7, <2>1 DEF Claim, ClaimNext
  <1>8. CASE \/ Look(w) \/ SendCreate(w) \/ SendClone(w) \/ SendGit(w) \/ Replied(w) \/ GiveUp(w)
             \/ MarkReady(w) \/ FinalizeCall(w) \/ RollbackCall(w) \/ AuditSuccess(w) \/ AuditFailure(w)
    <2>1. Job(w) = j
      BY <1>1, <1>8, MovesWithinJob DEF Executes
    <2>2. worker[w].pc \notin Attending
      BY <1>8 DEF Look, SendCreate, SendClone, SendGit, Replied, GiveUp, MarkReady,
         FinalizeCall,
                  RollbackCall, AuditSuccess, AuditFailure, At, Attending, Calling
    <2>3. UNCHANGED jobs
      BY <1>8 DEF Look, SendCreate, SendClone, SendGit, Replied, GiveUp, MarkReady,
         FinalizeCall,
                  RollbackCall, AuditSuccess, AuditFailure
    <2> QED BY <1>3, <2>1, <2>2, <2>3
  <1>9. CASE MarkError(w) \/ AuditAttention(w) \/ DbFails(w)
    <2>1. Job(w) = j /\ worker[w].pc \notin Attending
      BY <1>1, <1>9, MovesWithinJob, AttendingStays, ZenonT(30) DEF Executes
    <2>2. UNCHANGED jobs
      BY <1>9 DEF MarkError, AuditAttention, DbFails
    <2> QED BY <1>3, <2>1, <2>2, ZenonT(30)
  <1>10. CASE Renew(w)
    <2>1. Job(w) = j /\ worker[w].pc \notin Attending
      BY <1>1, <1>10, MovesWithinJob, ZenonT(30) DEF Executes, Renew, At, Attending
    <2>2. jobs'[j].status = jobs[j].status
      BY <1>2, <1>10, <2>1 DEF Renew, RenewWrite, JobRow
    <2> QED BY <1>3, <2>1, <2>2
  <1>11. CASE Finish(w)
    <2>1. worker[w].pc = "finish_write" /\ Shape(worker[w])
      BY <1>1, <1>11, ZenonT(30) DEF Finish, At, IInv, Held
    <2>2. worker'[w].job = NoJob \/ worker'[w].pc \in Attending
      BY <1>2, <1>11, <2>1 DEF Finish, Go, Become, Free, Fresh, Shape, WorkerRec, Attending
    <2> QED BY <1>1, <2>2
  <1>12. ASSUME NEW k \in Jobs, EnqueueJob(k) PROVE jobs'[j].status = "running"
    <2>1. Job(w) = j /\ worker[w].pc \notin Attending
      BY <1>12 DEF EnqueueJob, Job
    <2>2. j # k
      BY <1>12, <2>1, ZenonT(30) DEF EnqueueJob, Enqueue, SingleInv, ExecutedIsRunning, Running
    <2>3. jobs'[j] = jobs[j]
      BY <1>2, <1>12, <2>2 DEF EnqueueJob, Enqueue
    <2> QED BY <1>3, <2>1, <2>3
  <1>13. ASSUME \/ ReconcileExisting \/ RuntimeDies \/ Time_ \/ UNCHANGED vars
                \/ \E k \in Jobs : Reserve(k) \/ DiscardReservation(k) \/ ApiCrash(k) \/ TaskEnds(k)
         PROVE  UNCHANGED <<jobs, worker>>
    BY <1>13, ZenonT(30) DEF ReconcileExisting, RuntimeDies, Time_, vars, Reserve,
       DiscardReservation, ApiCrash, TaskEnds
  <1>14. \A v \in Workers : v = w
    OBVIOUS
  <1> QED BY <1>4, <1>5, <1>6, <1>7, <1>8, <1>9, <1>10, <1>11, <1>12, <1>13, <1>14, ZenonT(30)
          DEF Next, Work, EndCall, Heartbeat

LEMMA LifecycleMove ==
    ASSUME NEW S \in SUBSET Jobs, S # {}, NEW from, NEW to,
           \A j \in S : jobs[j].status \in from /\ jobs'[j].status = to,
           \A j \in Jobs \ S : jobs'[j].status = jobs[j].status
    PROVE  Lifecycle!Move(S, from, to)
  BY DEF Lifecycle!Move

(* Every step of the one-worker system is a step of the lifecycle.         *)
LEMMA LifecycleStep ==
    ASSUME \A v, w \in Workers : v = w, SingleInv, [Next]_vars
    PROVE  [Lifecycle!Next]_([j \in Jobs |-> jobs[j].status])
  <1> DEFINE Goal == [Lifecycle!Next]_([j \in Jobs |-> jobs[j].status])
  <1>1. OInv /\ IInv /\ jobs \in [Jobs -> JobRow]
    BY Types DEF SingleInv, OInv
  <1>2. ASSUME UNCHANGED jobs PROVE Goal
    BY <1>2
  <1>3. ASSUME NEW j \in Jobs, EnqueueJob(j) PROVE Goal
    <2>1. Lifecycle!Queue(j)
      BY <1>1, <1>3, LifecycleMove, ZenonT(30) DEF EnqueueJob, Enqueue, Unclaimed,
         Lifecycle!Queue
    <2> QED BY <2>1, ZenonT(30) DEF Lifecycle!Next
  <1>4. ASSUME NEW w \in Workers, NEW j \in Jobs, Claim(w, j) PROVE Goal
    <2>1. jobs[j].status = "queued" /\ jobs'[j].status = "running"
          /\ \A k \in Jobs \ {j} : jobs'[k].status = jobs[k].status
      BY <1>1, <1>4 DEF Claim, ClaimNext, Claimable
    <2>2. \A k \in Jobs : jobs[k].status = "running" => LockOf(k) # LockOf(j)
      BY <1>4 DEF Claim, ClaimNext, Claimable, Running
    <2>3. Lifecycle!Move({j}, {"queued"}, "running")
      BY <2>1, LifecycleMove
    <2>4. Lifecycle!Run(j)
      BY <2>2, <2>3 DEF Lifecycle!Run, LockOf, Lifecycle!LockOf
    <2> QED BY <2>4, ZenonT(30) DEF Lifecycle!Next
  <1>5. ASSUME NEW w \in Workers, Start(w) PROVE Goal
    <2> DEFINE S == {j \in Jobs : Expired(j)}
    <2>1. \A j \in S : jobs[j].status \in {"running"} /\ jobs'[j].status = "needs_attention"
      BY <1>5, ZenonT(30) DEF Start, RecoverExpired, Expired, Running
    <2>2. \A j \in Jobs \ S : jobs'[j].status = jobs[j].status
      BY <1>5, ZenonT(30) DEF Start, RecoverExpired
    <2>3. CASE S = {}
      BY <2>2, <2>3
    <2>4. CASE S # {}
      <3>1. S \in SUBSET Jobs
        OBVIOUS
      <3> HIDE DEF S
      <3>2. Lifecycle!Move(S, {"running"}, "needs_attention")
        BY <2>1, <2>2, <2>4, <3>1, LifecycleMove
      <3>3. Lifecycle!Interrupt
        BY <3>1, <3>2 DEF Lifecycle!Interrupt
      <3> QED BY <3>3 DEF Lifecycle!Next
    <2> QED BY <2>3, <2>4
  <1>6. ASSUME NEW w \in Workers, Maintain(w) PROVE Goal
    <2> DEFINE S == {j \in Jobs : Deletable(j)}
    <2>1. \A j \in S : jobs[j].status \in {"succeeded", "failed"} /\ jobs'[j].status = "deleted"
      BY <1>6, ZenonT(30) DEF Maintain, Cleanup, Deletable, Deleted, Unclaimed
    <2>2. \A j \in Jobs \ S : jobs'[j].status = jobs[j].status
      BY <1>6 DEF Maintain, Cleanup
    <2>3. CASE S = {}
      BY <2>2, <2>3
    <2>4. CASE S # {}
      <3>1. S \in SUBSET Jobs
        OBVIOUS
      <3> HIDE DEF S
      <3>2. Lifecycle!Move(S, {"succeeded", "failed"}, "deleted")
        BY <2>1, <2>2, <2>4, <3>1, LifecycleMove
      <3>3. Lifecycle!Forget
        BY <3>1, <3>2 DEF Lifecycle!Forget
      <3> QED BY <3>3 DEF Lifecycle!Next
    <2> QED BY <2>3, <2>4
  <1>7. ASSUME NEW w \in Workers, Renew(w) PROVE Goal
    <2>1. \A j \in Jobs : jobs'[j].status = jobs[j].status
      BY <1>1, <1>7 DEF Renew, RenewWrite, JobRow
    <2> QED BY <2>1
  <1>8. ASSUME NEW w \in Workers, Finish(w) PROVE Goal
    <2>1. PICK j \in Jobs : j = Job(w)
      BY <1>1, <1>8, HasJob, ZenonT(30) DEF Finish, At
    <2>2. PICK s \in Terminal : s = worker[w].target
      BY <1>1, Types DEF WorkerRec
    <2>3. jobs[j].status = "running"
      BY <1>8, <2>1 DEF Finish, At, SingleInv, ExecutedIsRunning, Running, Attending
    <2>4. jobs'[j].status = s /\ \A k \in Jobs \ {j} : jobs'[k].status = jobs[k].status
      BY <1>1, <1>8, <2>1, <2>2 DEF Finish, FinishWrite
    <2>5. Lifecycle!Move({j}, {"running"}, s)
      BY <2>3, <2>4, LifecycleMove
    <2>6. Lifecycle!End(j)
      BY <2>5 DEF Lifecycle!End, Lifecycle!Ended, Terminal
    <2> QED BY <2>6 DEF Lifecycle!Next
  <1>9. ASSUME \/ ReconcileExisting \/ RuntimeDies \/ Time_ \/ UNCHANGED vars
               \/ \E k \in Jobs : Reserve(k) \/ DiscardReservation(k) \/ ApiCrash(k) \/ TaskEnds(k)
        PROVE  UNCHANGED jobs
    BY <1>9, ZenonT(30) DEF ReconcileExisting, RuntimeDies, Time_, vars, Reserve,
       DiscardReservation, ApiCrash, TaskEnds
  <1>10. ASSUME NEW w \in Workers,
                \/ Stop(w) \/ WorkerCrash(w) \/ DbFails(w) \/ Look(w)
                \/ SendCreate(w) \/ SendClone(w) \/ SendGit(w) \/ Replied(w) \/ GiveUp(w)
         PROVE  UNCHANGED jobs
    BY <1>10 DEF Stop, WorkerCrash, DbFails, Look, SendCreate, SendClone, SendGit, Replied,
       GiveUp
  <1>11. ASSUME NEW w \in Workers,
                \/ MarkReady(w) \/ FinalizeCall(w) \/ RollbackCall(w) \/ MarkError(w)
                \/ AuditSuccess(w) \/ AuditFailure(w) \/ AuditAttention(w)
         PROVE  UNCHANGED jobs
    BY <1>11, ZenonT(30) DEF MarkReady, FinalizeCall, RollbackCall, MarkError, AuditSuccess,
       AuditFailure,
                 AuditAttention
  <1> HIDE DEF Goal
  <1>12. Goal
    BY <1>2, <1>3, <1>4, <1>5, <1>6, <1>7, <1>8, <1>9, <1>10, <1>11, ZenonT(30) DEF Next,
       Work, EndCall, Heartbeat
  <1> QED BY <1>12 DEF Goal

(* With one worker process, every change of a Job's status is one of the   *)
(* allowed transitions: terminal states are final but for retention.       *)
THEOREM OneWorkerImplementsLifecycle ==
    ASSUME \A v, w \in Workers : v = w
    PROVE  Spec => ImplementsLifecycle
  <1>1. Init => SingleInv
    <2> SUFFICES ASSUME Init PROVE SingleInv
      OBVIOUS
    <2>1. \A w \in Workers, j \in Jobs : Job(w) # j
      BY FaultAssumption DEF Init, Free, Fresh, Job
    <2> QED BY <2>1, InitOutcomes DEF SingleInv, ExecutedIsRunning
  <1>2. SingleInv /\ [Next]_vars => SingleInv'
    BY NextInv, ReservationsStep, OutcomesStep, ExecutedStep DEF SingleInv, OInv
  <1>3. Init => Lifecycle!Init
    BY DEF Init, JobsInit, Absent, Unclaimed, Lifecycle!Init
  <1>4. SingleInv /\ [Next]_vars => [Lifecycle!Next]_([j \in Jobs |-> jobs[j].status])
    BY LifecycleStep, ZenonT(30)
  <1> QED BY <1>1, <1>2, <1>3, <1>4, PTL DEF Spec, ImplementsLifecycle, Lifecycle!Spec
=============================================================================
