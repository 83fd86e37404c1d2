--------------------------- MODULE MCProjectJobs ----------------------------
(* Instances of ProjectJobs for TLC.                                       *)
EXTENDS ProjectJobs

CONSTANTS j1, p1

(* j1 makes the Project, the other is a Git Job on it.                     *)
CloneThenGit == [j \in Jobs |-> IF j = j1 THEN "clone" ELSE "git"]

(* Two requests compete for one Project key.                               *)
CloneOrCreate == [j \in Jobs |-> IF j = j1 THEN "clone" ELSE "create"]

(* Git Jobs on a Project that was there before.                            *)
OnlyGit == [j \in Jobs |-> "git"]

OneProject == [j \in Jobs |-> p1]
=============================================================================
