---------------------------- MODULE MCApprovals -----------------------------
(* Instances of Approvals for TLC.                                         *)
EXTENDS Approvals, TLC

Symmetry ==
    Permutations(Callers) \cup Permutations(Sessions) \cup Permutations(Challenges)
=============================================================================
