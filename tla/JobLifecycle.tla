---------------------------- MODULE JobLifecycle ----------------------------
(***************************************************************************)
(* What the Job queue promises its users: a Job is queued once, runs at    *)
(* most once and alone on its resource lock, ends in one terminal state,   *)
(* and only a clean end is ever forgotten.                                 *)
(***************************************************************************)
EXTENDS JobModel

VARIABLE status

Ended == {"succeeded", "failed", "needs_attention"}

Init == status = [j \in Jobs |-> "absent"]

(* The Jobs in S, all in state from, move to state to.                     *)
Move(S, from, to) ==
    /\ S # {} /\ \A j \in S : status[j] \in from
    /\ status' = [j \in Jobs |-> IF j \in S THEN to ELSE status[j]]

Queue(j) == Move({j}, {"absent"}, "queued")

Run(j) ==
    /\ \A k \in Jobs : status[k] = "running" => LockOf(k) # LockOf(j)
    /\ Move({j}, {"queued"}, "running")

End(j) == \E s \in Ended : Move({j}, {"running"}, s)

(* One recovery pass may interrupt several Jobs, one retention pass may    *)
(* forget several.                                                         *)
Interrupt == \E S \in SUBSET Jobs : Move(S, {"running"}, "needs_attention")

Forget == \E S \in SUBSET Jobs : Move(S, {"succeeded", "failed"}, "deleted")

Next == Interrupt \/ Forget \/ \E j \in Jobs : Queue(j) \/ Run(j) \/ End(j)

Spec == Init /\ [][Next]_status
=============================================================================
