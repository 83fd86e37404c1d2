----------------------------- MODULE JobService -----------------------------
(***************************************************************************)
(* The durable Job table of packages/agentbox-core jobs.py (JobService)    *)
(* and the part of services.py (RetentionService) that deletes from it.    *)
(*                                                                         *)
(* Every operator below is one SQLite transaction, seen from outside.      *)
(* enqueue, recover_expired, claim_next and cleanup open the transaction   *)
(* with BEGIN IMMEDIATE, so they are single steps.  progress, heartbeat    *)
(* and _finish do not: pysqlite opens their transaction at the UPDATE, so  *)
(* the SELECT of _running runs before it and another process may commit in *)
(* between.  Those three are therefore split: the caller first evaluates   *)
(* Running(j), and later takes RenewWrite(j) or FinishWrite(j, s), which   *)
(* writes by primary key whatever the row has become meanwhile.            *)
(*                                                                         *)
(* The payload, the summaries and the progress numbers are left out: no    *)
(* decision of the code reads them back.                                   *)
(***************************************************************************)
EXTENDS Naturals, JobModel

CONSTANTS
    Workers,       \* worker processes (lease_owner values)
    LeaseSeconds,  \* settings.job_lease_seconds
    JobRetention,  \* settings.job_retention
    MaxTime,       \* bound on the clock
    NoOwner        \* NULL in lease_owner

ASSUME JobServiceAssumption ==
    /\ LeaseSeconds \in Nat \ {0}
    /\ JobRetention \in Nat
    /\ MaxTime \in Nat \ {0}
    /\ NoOwner \notin Workers

VARIABLES
    jobs,   \* the jobs table
    clock   \* Clock.now(); 0 is NULL in a timestamp column

(* TERMINAL_JOB_STATES without "cancelled", which no code path assigns.    *)
Terminal == {"succeeded", "failed", "needs_attention"}

(* "absent" is a row not inserted yet, "deleted" one removed by retention. *)
Status == {"absent", "queued", "running", "deleted"} \cup Terminal

Time == 0 .. (MaxTime + LeaseSeconds)

JobRow == [status   : Status,
           owner    : Workers \cup {NoOwner},
           expires  : Time,
           attempt  : Nat,
           created  : Time,
           finished : Time]

(* A row that was never claimed.                                           *)
Unclaimed(s, now) == [status |-> s, owner |-> NoOwner, expires |-> 0,
                      attempt |-> 0, created |-> now, finished |-> 0]

Absent  == Unclaimed("absent", 0)
Deleted == Unclaimed("deleted", 0)

JobsTypeOK == /\ jobs \in [Jobs -> JobRow]
              /\ clock \in 1 .. MaxTime

JobsInit == /\ jobs = [j \in Jobs |-> Absent]
            /\ clock = 1

-----------------------------------------------------------------------------
Running(j) == jobs[j].status = "running"

Enqueue(j) ==
    /\ jobs[j].status = "absent"
    /\ jobs' = [jobs EXCEPT ![j] = Unclaimed("queued", clock)]

(* lease_expires_at IS NOT NULL AND lease_expires_at <= now.  The lease    *)
(* columns keep their values.                                              *)
Expired(j) == Running(j) /\ jobs[j].expires # 0 /\ jobs[j].expires <= clock

(* Mutant: an expired Job is put back in the queue.                        *)
RecoverExpired_Requeues ==
    jobs' = [j \in Jobs |-> IF Expired(j) THEN [jobs[j] EXCEPT !.status = "queued"] ELSE jobs[j]]

RecoverExpired ==
    jobs' = [j \in Jobs |->
               IF Expired(j)
               THEN [status |-> "needs_attention", owner |-> jobs[j].owner,
                     expires |-> jobs[j].expires, attempt |-> jobs[j].attempt,
                     created |-> jobs[j].created, finished |-> clock]
               ELSE jobs[j]]

(* Mutant: claim_next does not look at running resource locks.             *)
Claimable_IgnoresLocks == {j \in Jobs : jobs[j].status = "queued"}

(* Queued Jobs whose resource_lock_key no running Job holds.               *)
Claimable ==
    {j \in Jobs : /\ jobs[j].status = "queued"
                  /\ \A k \in Jobs : Running(k) => LockOf(k) # LockOf(j)}

ClaimNext(w, j) ==
    /\ j \in Claimable
    /\ \A k \in Claimable : jobs[j].created <= jobs[k].created
    /\ jobs' = [jobs EXCEPT ![j] =
                  [status |-> "running", owner |-> w, expires |-> clock + LeaseSeconds,
                   attempt |-> @.attempt + 1, created |-> @.created, finished |-> @.finished]]

(* An UPDATE by primary key finds a row; otherwise the ORM raises.         *)
RowExists(j) == jobs[j].status \notin {"absent", "deleted"}

(* The UPDATE of progress and of heartbeat: the status column is not in it *)
RenewWrite(j) ==
    /\ RowExists(j)
    /\ jobs' = [jobs EXCEPT ![j].expires = clock + LeaseSeconds]

(* The UPDATE of _finish.                                                  *)
FinishWrite(j, s) ==
    /\ RowExists(j)
    /\ s \in Terminal
    /\ jobs' = [jobs EXCEPT ![j] =
                  [status |-> s, owner |-> NoOwner, expires |-> 0,
                   attempt |-> @.attempt, created |-> @.created, finished |-> clock]]

(* Mutant: retention also deletes needs_attention rows.                    *)
Deletable_AnyTerminal(j) == jobs[j].status \in Terminal /\ jobs[j].finished + JobRetention <= clock

(* RetentionService.cleanup: needs_attention rows are never deleted.       *)
Deletable(j) == /\ jobs[j].status \in {"succeeded", "failed"}
                /\ jobs[j].finished # 0
                /\ jobs[j].finished + JobRetention <= clock

Cleanup ==
    jobs' = [j \in Jobs |->
               IF Deletable(j) THEN Deleted ELSE jobs[j]]

(* The wall clock.  It normally advances; StepBack is an adjustment of the *)
(* host clock (test_backward_clock_skew_never_replays_or_reassigns).       *)
Tick == clock < MaxTime /\ clock' = clock + 1

StepBack == clock' \in 1 .. (clock - 1)

-----------------------------------------------------------------------------
(* Any client of the table.  A late write may come at any time once its    *)
(* SELECT has seen the row running, that is, once the Job was claimed.     *)
LateWrite(j) ==
    /\ jobs[j].attempt > 0
    /\ RenewWrite(j) \/ \E s \in Terminal : FinishWrite(j, s)

JobsNext ==
    \/ /\ \/ \E j \in Jobs : \/ Enqueue(j)
                             \/ LateWrite(j)
                             \/ \E w \in Workers : ClaimNext(w, j)
          \/ RecoverExpired
          \/ Cleanup
       /\ UNCHANGED clock
    \/ (Tick \/ StepBack) /\ UNCHANGED jobs

JobsSpec == JobsInit /\ [][JobsNext]_<<jobs, clock>>

-----------------------------------------------------------------------------
(* claim_next never lets two Jobs with one resource_lock_key be running,   *)
(* however claims, late writes, recoveries and clock steps interleave.     *)
RunningLocksDistinct ==
    \A j, k \in Jobs :
        Running(j) /\ Running(k) /\ LockOf(j) = LockOf(k) => j = k

(* A running Job always carries a lease, so recover_expired can see it:    *)
(* no transition leaves a running row that recovery would skip forever.    *)
RunningIsLeased ==
    \A j \in Jobs : Running(j) => jobs[j].expires # 0 /\ jobs[j].owner \in Workers

(* A Job is claimed at most once: attempt counts claims and never passes 1 *)
(* (max_attempts = 1), whatever was recovered, finished late or cleaned up *)
ClaimedAtMostOnce ==
    \A j \in Jobs : /\ jobs[j].attempt <= 1
                    /\ jobs[j].status = "queued" => jobs[j].attempt = 0
=============================================================================
