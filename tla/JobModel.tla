------------------------------ MODULE JobModel ------------------------------
(***************************************************************************)
(* The Jobs a model instance offers.  A Job's type, Project and            *)
(* resource_lock_key ("project:" followed by the Project's identifier) are *)
(* fixed when it is enqueued, so they are constants here.                  *)
(***************************************************************************)
CONSTANTS
    Jobs,       \* Job identifiers
    Projects,   \* Project keys; also the resource lock keys
    ProjectOf,  \* [Jobs -> Projects]
    KindOf      \* [Jobs -> Kinds]

(* project.create, project.clone, and the git and github Job types, which *)
(* the worker treats alike.                                                *)
Kinds == {"create", "clone", "git"}

ASSUME JobModelAssumption ==
    /\ ProjectOf \in [Jobs -> Projects]
    /\ KindOf \in [Jobs -> Kinds]

(* The resource_lock_key of a Job.                                         *)
LockOf(j) == ProjectOf[j]
=============================================================================
