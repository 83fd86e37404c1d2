-------------------------- MODULE RuntimeWorkspace --------------------------
(***************************************************************************)
(* The Project directories of the Runtime: ProjectWorkspaceManager in      *)
(* packages/agentbox-runtime workspace.py, run by the RPC server.  A Job   *)
(* identifier is the operation_id of everything done for the Job.          *)
(*                                                                         *)
(* create, finalize and rollback contain no await, so the server's event   *)
(* loop runs each of them as one step.  clone and the Git operations await *)
(* a subprocess: they are a step that starts them and a step that ends     *)
(* them, and other operations run in between.  The server holds no lock    *)
(* per Project and does not cancel an operation whose client went away.    *)
(*                                                                         *)
(* An operation takes one of several outcomes; the operators below are     *)
(* the outcomes, and the caller decides which of them the client hears of. *)
(***************************************************************************)
EXTENDS JobModel

CONSTANTS
    Nobody,  \* no directory
    User     \* the maker of a directory AgentBox did not create

ASSUME WorkspaceAssumption == Nobody \notin Jobs /\ User \notin Jobs /\ User # Nobody

VARIABLES
    final,    \* per Project key: who made the directory, is its marker present
    staging,  \* operations whose directory exists below .agentbox-tmp
    task      \* per Job: its create, clone or Git operation on the server

fsvars == <<final, staging, task>>

(* idle: never dispatched; running: awaiting a subprocess; ok and err: the *)
(* reply the server has written or tried to write.                         *)
TaskState == {"idle", "running", "ok", "err"}

FsTypeOK ==
    /\ final \in [Projects -> [by : Jobs \cup {Nobody, User}, marker : BOOLEAN]]
    /\ staging \subseteq Jobs
    /\ task \in [Jobs -> TaskState]

(* Projects of an earlier installation may be there already.               *)
FsInit ==
    /\ \E S \in SUBSET Projects :
          final = [p \in Projects |->
                     [by |-> IF p \in S THEN User ELSE Nobody,
                      marker |-> FALSE]]
    /\ staging = {}
    /\ task = [j \in Jobs |-> "idle"]

-----------------------------------------------------------------------------
AbsentFinal(p) == final[p].by = Nobody

(* _project_marker_kind(final / marker, operation_id) is not None          *)
Marked(j) == final[ProjectOf[j]] = [by |-> j, marker |-> TRUE]

Reply(j, r) == task' = [task EXCEPT ![j] = r]

Place(j) == final' = [final EXCEPT ![ProjectOf[j]] = [by |-> j, marker |-> TRUE]]

(* create: stage, then rename without replacing.  The first outcome is     *)
(* also the one where fsync fails after the rename: the caller then sees   *)
(* an error over an activated directory, and the staging directory stays.  *)
CreateActivates(j, r) ==
    /\ j \notin staging
    /\ AbsentFinal(ProjectOf[j])
    /\ Place(j)
    /\ staging' = staging \cup {j}
    /\ Reply(j, r)

(* A collision or a failed step before the rename: staging is removed.     *)
CreateFails(j) ==
    /\ Reply(j, "err")
    /\ UNCHANGED <<final, staging>>

(* The process dies after staging and before the rename, or removing the   *)
(* staging directory fails too.  Staging comes before the look at the      *)
(* final directory, so that may be anybody's.                              *)
CreateAbandoned(j) ==
    /\ j \notin staging
    /\ staging' = staging \cup {j}
    /\ Reply(j, "err")
    /\ UNCHANGED final

(* clone up to its first await: staging exists, nothing else does.         *)
CloneStarts(j) ==
    /\ j \notin staging
    /\ AbsentFinal(ProjectOf[j])
    /\ staging' = staging \cup {j}
    /\ Reply(j, "running")
    /\ UNCHANGED final

(* git clone returned 0 and the operation marker is still there: activate. *)
(* The second await, git status, may then fail over an activated directory *)
CloneActivates(j, r) ==
    /\ task[j] = "running" /\ KindOf[j] = "clone"
    /\ j \in staging
    /\ AbsentFinal(ProjectOf[j])
    /\ Place(j)
    /\ Reply(j, r)
    /\ UNCHANGED staging

(* git clone failed, or activation was refused: remove the staging         *)
(* directory unless the final directory carries this operation's marker;   *)
(* the removal itself may fail.                                            *)
CloneFails(j) ==
    /\ task[j] = "running" /\ KindOf[j] = "clone"
    /\ staging' \in {staging, staging \ {j}}
    /\ Marked(j) => staging' = staging
    /\ Reply(j, "err")
    /\ UNCHANGED final

GitStarts(j) ==
    /\ Reply(j, "running")
    /\ UNCHANGED <<final, staging>>

GitEnds(j, r) ==
    /\ task[j] = "running" /\ KindOf[j] = "git"
    /\ Reply(j, r)
    /\ UNCHANGED <<final, staging>>

(* finalize: only over this operation's marker.                            *)
Finalized(j) ==
    /\ Marked(j)
    /\ final' = [final EXCEPT ![ProjectOf[j]].marker = FALSE]
    /\ staging' = staging \ {j}

(* The marker is unlinked and removing the staging directory fails.        *)
FinalizedHalf(j) ==
    /\ Marked(j)
    /\ final' = [final EXCEPT ![ProjectOf[j]].marker = FALSE]
    /\ UNCHANGED staging

(* rollback: without a final directory only the staging directory goes.    *)
(* Otherwise both the operation marker and the project marker must be this *)
(* operation's, and then the Project directory goes too.                   *)
RollbackAllowed(j) ==
    \/ AbsentFinal(ProjectOf[j])
    \/ j \in staging /\ Marked(j)

RolledBack(j) ==
    /\ RollbackAllowed(j)
    /\ final' = [final EXCEPT ![ProjectOf[j]] = [by |-> Nobody, marker |-> FALSE]]
    /\ staging' = staging \ {j}

(* The Project directory is gone and removing the staging directory fails. *)
RolledBackStagingLeft(j) ==
    /\ j \in staging /\ Marked(j)
    /\ final' = [final EXCEPT ![ProjectOf[j]] = [by |-> Nobody, marker |-> FALSE]]
    /\ UNCHANGED staging

(* rmtree stops half way, or the process dies between unlink and rmdir.    *)
RolledBackHalf(j) ==
    /\ j \in staging /\ Marked(j)
    /\ final' = [final EXCEPT ![ProjectOf[j]].marker = FALSE]
    /\ UNCHANGED staging

(* The Runtime process dies: what it was awaiting ends without clean-up.   *)
RuntimeCrash ==
    /\ \E j \in Jobs : task[j] = "running"
    /\ task' = [j \in Jobs |-> IF task[j] = "running" THEN "err" ELSE task[j]]
    /\ UNCHANGED <<final, staging>>

-----------------------------------------------------------------------------
(* "A failure can remove only the operation directory or final directory   *)
(* carrying both the exact Job marker and staging identity": a directory   *)
(* AgentBox did not create is there for good.                              *)
UserDirectoriesKept ==
    [][\A p \in Projects : final[p].by = User => final'[p] = final[p]]_final

(* A directory one operation made is never taken over by another one: it   *)
(* is removed first, by its own operation.                                 *)
DirectoriesNotReplaced ==
    [][\A p \in Projects : final[p].by # Nobody => final'[p].by \in {final[p].by, Nobody}]_final
=============================================================================
