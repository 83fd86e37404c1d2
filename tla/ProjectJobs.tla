---------------------------- MODULE ProjectJobs -----------------------------
(***************************************************************************)
(* Project creation, cloning and Git Jobs end to end: the API (or CLI)     *)
(* request that reserves a Project and enqueues a Job, the Job table, the  *)
(* worker processes of apps/worker main.py, the Project rows, and the      *)
(* Runtime's directories, with crashes of each process between any two of  *)
(* their steps, lost RPC replies and failing database statements.          *)
(***************************************************************************)
EXTENDS JobService, RuntimeWorkspace

CONSTANTS
    NoJob,       \* what a worker executes between two Jobs
    MaxFaults,   \* bound on crashes, stops and database failures
    MayStepBack  \* whether the host clock may be set back

ASSUME FaultAssumption == NoJob \notin Jobs /\ MaxFaults \in Nat /\ MayStepBack \in BOOLEAN

VARIABLES
    project,  \* per Project: state of its row, "none" when there is no row
    api,      \* per Job: progress of the request that enqueues it
    worker,   \* per worker process: where execute_job is
    audits,   \* per Job: the results the worker audited
    faults    \* crashes, stops and database failures so far

vars == <<jobs, clock, final, staging, task, project, api, worker, audits, faults>>

ProjectState == {"none", "creating", "ready", "error"}

(* Control points of run_worker and execute_job.  A "finish" is a call of  *)
(* JobService._finish with the status in target; after is where control    *)
(* goes next.  handling is TRUE inside execute_job's except clauses, and   *)
(* ready is project_marked_ready.                                          *)
WorkerPc == {"down", "idle", "progress", "renew", "send", "await", "mark_ready",
             "finalize", "audit_ok", "rollback", "mark_error", "audit_fail",
             "attn_error", "attn_audit", "finish", "finish_write"}

Calling == {"await", "finalize", "rollback"}

Fresh(pc, j) == [pc |-> pc, job |-> j, ready |-> FALSE, handling |-> FALSE,
                 target |-> "failed", after |-> "idle"]
Free(pc) == Fresh(pc, NoJob)

WorkerRec == [pc : WorkerPc, job : Jobs \cup {NoJob}, ready : BOOLEAN,
              handling : BOOLEAN, target : Terminal,
              after : {"idle", "send", "attn_error", "attn_audit"} \cup Calling]

TypeOK ==
    /\ JobsTypeOK /\ FsTypeOK
    /\ project \in [Projects -> ProjectState]
    /\ api \in [Jobs -> {"new", "reserved", "done", "crashed"}]
    /\ worker \in [Workers -> WorkerRec]
    /\ audits \in [Jobs -> SUBSET {"succeeded", "failed"}]
    /\ faults \in 0 .. MaxFaults

Init ==
    /\ JobsInit /\ FsInit
    /\ project = [p \in Projects |-> "none"]
    /\ api = [j \in Jobs |-> "new"]
    /\ worker = [w \in Workers |-> Free("down")]
    /\ audits = [j \in Jobs |-> {}]
    /\ faults = 0

-----------------------------------------------------------------------------
(* Fault budget.                                                           *)
Fault == faults < MaxFaults /\ faults' = faults + 1

(* The request handlers.                                                   *)
Reserve(j) ==
    /\ api[j] = "new" /\ KindOf[j] # "git"
    /\ project[ProjectOf[j]] = "none"
    /\ project' = [project EXCEPT ![ProjectOf[j]] = "creating"]
    /\ api' = [api EXCEPT ![j] = "reserved"]
    /\ UNCHANGED <<jobs, clock, fsvars, worker, audits, faults>>

EnqueueJob(j) ==
    /\ \/ api[j] = "reserved"
       \/ api[j] = "new" /\ KindOf[j] = "git" /\ project[ProjectOf[j]] = "ready"
    /\ Enqueue(j)
    /\ api' = [api EXCEPT ![j] = "done"]
    /\ UNCHANGED <<clock, fsvars, project, worker, audits, faults>>

(* enqueue raises: discard_reservation, and the client may ask again.      *)
DiscardReservation(j) ==
    /\ api[j] = "reserved" /\ Fault
    /\ project' = [project EXCEPT ![ProjectOf[j]] =
                     IF @ = "creating" THEN "none" ELSE @]
    /\ api' = [api EXCEPT ![j] = "new"]
    /\ UNCHANGED <<jobs, clock, fsvars, worker, audits>>

(* The API process dies between reserve and enqueue.                       *)
ApiCrash(j) ==
    /\ api[j] = "reserved" /\ Fault
    /\ api' = [api EXCEPT ![j] = "crashed"]
    /\ UNCHANGED <<jobs, clock, fsvars, project, worker, audits>>

(* reconcile_existing over the Runtime's listing of the Project root.      *)
ReconcileExisting ==
    /\ project' = [p \in Projects |->
                     IF project[p] = "none" /\ ~AbsentFinal(p) THEN "ready"
                                                               ELSE project[p]]
    /\ project' # project
    /\ UNCHANGED <<jobs, clock, fsvars, api, worker, audits, faults>>

-----------------------------------------------------------------------------
(* The worker.  Job(w) is the Job it executes; Key(w) that Job's Project.  *)
At(w, pc) == worker[w].pc = pc
Job(w) == worker[w].job
Key(w) == ProjectOf[Job(w)]
Become(w, s) == worker' = [worker EXCEPT ![w] = s]
Go(w, pc) == Become(w, [worker[w] EXCEPT !.pc = pc])

(* The worker in the same Job at another place.                            *)
Moved(w, pc, handling, target, after) ==
    [pc |-> pc, job |-> Job(w), ready |-> worker[w].ready, handling |-> handling,
     target |-> target, after |-> after]

(* A call of _finish(status) from the current clause.                      *)
Finishing(w, status, after) == Moved(w, "finish", worker[w].handling, status, after)

(* Mutant: a failed rollback is audited without ending the Job.            *)
RollbackAttention_Silent(w) == Moved(w, "attn_error", TRUE, "needs_attention", "idle")

(* _mark_rollback_attention and _mark_finalize_attention, which call       *)
(* needs_attention first.                                                  *)
RollbackAttention(w) == Moved(w, "finish", TRUE, "needs_attention", "attn_error")
FinalizeAttention(w) == Moved(w, "finish", TRUE, "needs_attention", "attn_audit")

(* The first step of an except clause.                                     *)
Clause(w, pc) == Moved(w, pc, TRUE, worker[w].target, worker[w].after)

(* The heartbeat or progress call of the SELECT just done.                 *)
Renewing(w, after) == Moved(w, "renew", worker[w].handling, worker[w].target, after)

(* Where an exception leaves the worker: in execute_job's try it runs the  *)
(* except clause, during the rollback RPC the inner one, and anywhere else *)
(* in a clause it ends the process.                                        *)
Raised(w, pc) ==
    IF pc = "rollback" THEN RollbackAttention(w)
    ELSE IF worker[w].handling THEN Free("down")
    ELSE IF KindOf[Job(w)] = "git"
         THEN Clause(w, "audit_fail")
    ELSE IF worker[w].ready THEN FinalizeAttention(w)
    ELSE Clause(w, "rollback")

Raise(w) == Become(w, Raised(w, worker[w].pc))

Start(w) ==
    /\ At(w, "down")
    /\ RecoverExpired
    /\ Go(w, "idle")
    /\ UNCHANGED <<clock, fsvars, project, api, audits, faults>>

Maintain(w) ==
    /\ At(w, "idle")
    /\ \E j \in Jobs : Deletable(j)
    /\ Cleanup
    /\ UNCHANGED <<clock, fsvars, project, api, worker, audits, faults>>

Claim(w, j) ==
    /\ At(w, "idle")
    /\ ClaimNext(w, j)
    /\ Become(w, Fresh("progress", j))
    /\ UNCHANGED <<clock, fsvars, project, api, audits, faults>>

(* SIGTERM between two Jobs, or the end of a --once run.                   *)
Stop(w) ==
    /\ At(w, "idle") /\ Fault
    /\ Go(w, "down")
    /\ UNCHANGED <<jobs, clock, fsvars, project, api, audits>>

(* The SELECT of _running: at the start of progress and of _finish, and on *)
(* a heartbeat while an RPC is in flight.                                  *)
Look(w) ==
    /\ worker[w].pc \in {"progress", "finish"} \cup Calling
    /\ IF ~Running(Job(w)) THEN Raise(w)
       ELSE CASE At(w, "finish")   -> Go(w, "finish_write")
              [] At(w, "progress") -> Become(w, Renewing(w, "send"))
              [] OTHER             -> Become(w, Renewing(w, worker[w].pc))
    /\ UNCHANGED <<jobs, clock, fsvars, project, api, audits, faults>>

(* The UPDATE of progress and heartbeat.                                   *)
Renew(w) ==
    /\ At(w, "renew")
    /\ RenewWrite(Job(w))
    /\ Go(w, worker[w].after)
    /\ UNCHANGED <<clock, fsvars, project, api, audits, faults>>

(* The UPDATE of _finish; execute_job ends or a helper goes on.            *)
Finish(w) ==
    /\ At(w, "finish_write")
    /\ FinishWrite(Job(w), worker[w].target)
    /\ IF worker[w].after = "idle" THEN Become(w, Free("idle"))
                                   ELSE Go(w, worker[w].after)
    /\ UNCHANGED <<clock, fsvars, project, api, audits, faults>>

(* The first RPC of the Job.  The last alternative of each kind is a       *)
(* request that the Runtime never saw.                                     *)
Undelivered(w) == Raise(w) /\ UNCHANGED fsvars

SendCreate(w) ==
    /\ At(w, "send") /\ KindOf[Job(w)] = "create"
    /\ \/ CreateActivates(Job(w), "ok") /\ Go(w, "mark_ready")
       \/ CreateActivates(Job(w), "err") /\ Raise(w)
       \/ (CreateFails(Job(w)) \/ CreateAbandoned(Job(w))) /\ Raise(w)
       \/ Undelivered(w)
    /\ UNCHANGED <<jobs, clock, project, api, audits, faults>>

SendClone(w) ==
    /\ At(w, "send") /\ KindOf[Job(w)] = "clone"
    /\ \/ CloneStarts(Job(w)) /\ Go(w, "await")
       \/ (CreateFails(Job(w)) \/ CreateAbandoned(Job(w))) /\ Raise(w)
       \/ Undelivered(w)
    /\ UNCHANGED <<jobs, clock, project, api, audits, faults>>

SendGit(w) ==
    /\ At(w, "send") /\ KindOf[Job(w)] = "git"
    /\ \/ GitStarts(Job(w)) /\ Go(w, "await")
       \/ Undelivered(w)
    /\ UNCHANGED <<jobs, clock, project, api, audits, faults>>

(* The reply of a clone or Git operation; or none within the RPC timeout,  *)
(* while the operation goes on in the Runtime.                             *)
Replied(w) ==
    /\ At(w, "await")
    /\ task[Job(w)] \in {"ok", "err"}
    /\ IF task[Job(w)] = "err" THEN Raise(w)
       ELSE Go(w, IF KindOf[Job(w)] = "git" THEN "audit_ok" ELSE "mark_ready")
    /\ UNCHANGED <<jobs, clock, fsvars, project, api, audits, faults>>

GiveUp(w) ==
    /\ At(w, "await")
    /\ Raise(w)
    /\ UNCHANGED <<jobs, clock, fsvars, project, api, audits, faults>>

MarkReady(w) ==
    /\ At(w, "mark_ready")
    /\ project[Key(w)] # "none"
    /\ project' = [project EXCEPT ![Key(w)] = "ready"]
    /\ Become(w, [pc |-> "finalize", job |-> Job(w), ready |-> TRUE, handling |-> worker[w].handling,
                  target |-> worker[w].target, after |-> worker[w].after])
    /\ UNCHANGED <<jobs, clock, fsvars, api, audits, faults>>

(* Mutant: a finalize that failed is taken for one that succeeded.         *)
FinalizeCall_IgnoresFailure(w) ==
    /\ At(w, "finalize") /\ Go(w, "audit_ok")
    /\ Finalized(Job(w)) \/ FinalizedHalf(Job(w)) \/ UNCHANGED <<final, staging>>
    /\ UNCHANGED <<jobs, clock, task, project, api, audits, faults>>

FinalizeCall(w) ==
    /\ At(w, "finalize")
    /\ \/ Finalized(Job(w)) /\ (Go(w, "audit_ok") \/ Raise(w))
       \/ FinalizedHalf(Job(w)) /\ Raise(w)
       \/ UNCHANGED <<final, staging>> /\ Raise(w)
    /\ UNCHANGED <<jobs, clock, task, project, api, audits, faults>>

(* Mutant: a rollback that failed is taken for one that succeeded.         *)
RollbackCall_IgnoresFailure(w) ==
    /\ At(w, "rollback") /\ Go(w, "mark_error")
    /\ RolledBack(Job(w)) \/ RolledBackHalf(Job(w)) \/ UNCHANGED <<final, staging>>
    /\ UNCHANGED <<jobs, clock, task, project, api, audits, faults>>

RollbackCall(w) ==
    /\ At(w, "rollback")
    /\ \/ RolledBack(Job(w)) /\ (Go(w, "mark_error") \/ Raise(w))
       \/ (RolledBackHalf(Job(w)) \/ RolledBackStagingLeft(Job(w))) /\ Raise(w)
       \/ UNCHANGED <<final, staging>> /\ Raise(w)
    /\ UNCHANGED <<jobs, clock, task, project, api, audits, faults>>

(* mark_error, before _finish_failure or inside _mark_rollback_attention.  *)
MarkError(w) ==
    /\ worker[w].pc \in {"mark_error", "attn_error"}
    /\ project' = [project EXCEPT ![Key(w)] = IF @ = "none" THEN @ ELSE "error"]
    /\ Go(w, IF At(w, "mark_error") THEN "audit_fail" ELSE "attn_audit")
    /\ UNCHANGED <<jobs, clock, fsvars, api, audits, faults>>

Audited(w, result) == audits' = [audits EXCEPT ![Job(w)] = @ \cup {result}]

AuditSuccess(w) ==
    /\ At(w, "audit_ok")
    /\ Audited(w, "succeeded")
    /\ Become(w, Finishing(w, "succeeded", "idle"))
    /\ UNCHANGED <<jobs, clock, fsvars, project, api, faults>>

AuditFailure(w) ==
    /\ At(w, "audit_fail")
    /\ Audited(w, "failed")
    /\ Become(w, Finishing(w, "failed", "idle"))
    /\ UNCHANGED <<jobs, clock, fsvars, project, api, faults>>

AuditAttention(w) ==
    /\ At(w, "attn_audit")
    /\ Audited(w, "failed")
    /\ Become(w, Free("idle"))
    /\ UNCHANGED <<jobs, clock, fsvars, project, api, faults>>

(* A database statement of the worker raises and its transaction rolls     *)
(* back.  An audit that cannot be written turns the outcome into           *)
(* needs_attention, or is given up after it.                               *)
DbFails(w) ==
    /\ \/ /\ worker[w].pc \in {"progress", "mark_ready", "mark_error", "attn_error",
                               "finish", "finish_write"}
          /\ Raise(w)
       \/ At(w, "renew") /\ Become(w, Raised(w, worker[w].after))
       \/ /\ worker[w].pc \in {"audit_ok", "audit_fail"}
          /\ Become(w, Finishing(w, "needs_attention", "idle"))
       \/ At(w, "attn_audit") /\ Become(w, Free("idle"))
    /\ Fault
    /\ UNCHANGED <<jobs, clock, fsvars, project, api, audits>>

WorkerCrash(w) ==
    /\ worker[w].pc # "down" /\ Fault
    /\ Become(w, Free("down"))
    /\ UNCHANGED <<jobs, clock, fsvars, project, api, audits>>

-----------------------------------------------------------------------------
(* The Runtime's own steps, and time.                                      *)
TaskEnds(j) ==
    /\ \/ \E r \in {"ok", "err"} : CloneActivates(j, r) \/ GitEnds(j, r)
       \/ CloneFails(j)
    /\ UNCHANGED <<jobs, clock, project, api, worker, audits, faults>>

RuntimeDies ==
    /\ RuntimeCrash /\ Fault
    /\ UNCHANGED <<jobs, clock, project, api, worker, audits>>

Time_ ==
    /\ Tick \/ (MayStepBack /\ StepBack)
    /\ UNCHANGED <<jobs, fsvars, project, api, worker, audits, faults>>

(* Steps of a worker that bring the Job it executes forward.               *)
Work(w) ==
    \/ (worker[w].pc \in {"progress", "finish"} /\ Look(w))
    \/ Renew(w) \/ Finish(w)
    \/ SendCreate(w) \/ SendClone(w) \/ SendGit(w)
    \/ MarkReady(w) \/ MarkError(w)
    \/ AuditSuccess(w) \/ AuditFailure(w) \/ AuditAttention(w)

(* Steps that end an RPC.                                                  *)
EndCall(w) == Replied(w) \/ GiveUp(w) \/ FinalizeCall(w) \/ RollbackCall(w)

Heartbeat(w) == worker[w].pc \in Calling /\ Look(w)

Next ==
    \/ \E j \in Jobs : \/ Reserve(j) \/ EnqueueJob(j) \/ DiscardReservation(j)
                       \/ ApiCrash(j) \/ TaskEnds(j)
    \/ ReconcileExisting
    \/ \E w \in Workers : \/ Start(w) \/ Maintain(w) \/ Stop(w)
                          \/ \E j \in Jobs : Claim(w, j)
                          \/ Work(w) \/ EndCall(w) \/ Heartbeat(w)
                          \/ DbFails(w) \/ WorkerCrash(w)
    \/ RuntimeDies
    \/ Time_

Spec == Init /\ [][Next]_vars

(* Fairness.  systemd restarts a worker that exits with an error, an idle  *)
(* worker polls every second, and the steps of a running worker are plain  *)
(* code.  Heartbeats interleave with a call without ending it; every call  *)
(* has an RPC timeout, so it ends after finitely many of them, which is    *)
(* strong fairness of its end.  Git subprocesses have a timeout too.       *)
Fairness ==
    /\ \A w \in Workers : /\ WF_vars(Start(w))
                          /\ WF_vars(\E j \in Jobs : Claim(w, j))
                          /\ WF_vars(Work(w))
                          /\ SF_vars(EndCall(w))
    /\ \A j \in Jobs : WF_vars(TaskEnds(j)) /\ WF_vars(EnqueueJob(j))
    /\ WF_vars(Time_)

FairSpec == Spec /\ Fairness

-----------------------------------------------------------------------------
Executing(j) == \E w \in Workers : Job(w) = j

(* No Job is replayed: when a worker is about to send a Job's mutating     *)
(* RPC, the Runtime has not been asked for it before, through any crash,   *)
(* recovery or clock step ("never blindly replayed").                      *)
NeverReplayed ==
    \A w \in Workers : At(w, "send") => task[Job(w)] = "idle"

(* A succeeded create or clone is complete everywhere: ready row, the      *)
(* Job's own directory, no marker, no staging, and exactly the success     *)
(* audit ("Success and failure audits occur before terminal Job            *)
(* transition").                                                           *)
SucceededIsComplete ==
    \A j \in Jobs : jobs[j].status = "succeeded" =>
        /\ audits[j] = {"succeeded"}
        /\ KindOf[j] # "git" =>
              /\ project[ProjectOf[j]] = "ready"
              /\ final[ProjectOf[j]] = [by |-> j, marker |-> FALSE]
              /\ j \notin staging

(* A failed create or clone is undone everywhere, also when the Runtime    *)
(* was still cloning as the worker gave up: error row, no directory of the *)
(* Job, no staging, and none appears later.                                *)
FailedIsUndone ==
    \A j \in Jobs : jobs[j].status = "failed" =>
        /\ "failed" \in audits[j]
        /\ KindOf[j] # "git" =>
              /\ project[ProjectOf[j]] = "error"
              /\ final[ProjectOf[j]].by # j
              /\ j \notin staging

(* Whatever the crash, a Project that is still "creating" can be traced:   *)
(* its request is in progress or died, or its Job is queued, running or    *)
(* advertised as needs_attention.                                          *)
CreatingIsAccountedFor ==
    \A p \in Projects : project[p] = "creating" =>
        \E j \in Jobs : /\ ProjectOf[j] = p
                        /\ \/ api[j] \in {"reserved", "crashed"}
                           \/ jobs[j].status \in {"queued", "running", "needs_attention"}

(* A directory or staging area an interrupted Job left behind is           *)
(* advertised: its Job is running or needs_attention, never a clean state. *)
LeftoversAreAdvertised ==
    \A j \in Jobs : j \in staging \/ Marked(j) =>
        jobs[j].status \in {"running", "needs_attention"}

(* With one worker process the Job table implements JobLifecycle.          *)
Lifecycle == INSTANCE JobLifecycle WITH status <- [j \in Jobs |-> jobs[j].status]

(* "Allowed transitions are explicit.  Terminal states do not return to    *)
(* running.  A new retry becomes a new Job [...], unless the same lease    *)
(* attempt is safely requeued by recovery rules": every change of a status *)
(* column is a step of JobLifecycle, through crashes, restarts, recovery,  *)
(* retention and clock steps.  recover_expired() requeues nothing: each of *)
(* the Job types is a mutation or an RPC with no proof that it never ran,  *)
(* so none is safe in that sense.                                          *)
ImplementsLifecycle == Lifecycle!Spec

(* "Allowed transitions are explicit": once terminal, the status of a Job  *)
(* changes only by retention deleting the row.                             *)
TerminalIsFinal ==
    [][\A j \in Jobs : jobs[j].status \in Terminal =>
          jobs'[j].status \in {jobs[j].status, "deleted"}]_vars

(* "Worker leases serialize mutations per Project": at most one mutating   *)
(* Job operation per Project is in progress in the Runtime.                *)
MutationsSerialized ==
    \A j, k \in Jobs :
        task[j] = "running" /\ task[k] = "running" /\ ProjectOf[j] = ProjectOf[k] => j = k

(* Every queued Job comes to an end, whatever the RPCs answer and the clock *)
(* does, unless a process crashes, stops or cannot use its database.        *)
QueuedJobsEnd ==
    \A j \in Jobs : jobs[j].status = "queued" ~>
        jobs[j].status \in Terminal \cup {"deleted"} \/ faults > 0

(* "A crashed or expired running mutation becomes needs_attention": a      *)
(* running Job whose lease expired and that no worker executes does not    *)
(* stay running.                                                           *)
OrphanIsRecovered ==
    \A j \in Jobs : (Expired(j) /\ ~Executing(j)) ~> ~Running(j)
=============================================================================
