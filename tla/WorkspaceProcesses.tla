------------------------- MODULE WorkspaceProcesses -------------------------
(***************************************************************************)
(* What the Runtime promises about the agent processes of one workspace,   *)
(* whatever fails and however often it restarts: they are launched one     *)
(* generation at a time, in increasing order, and only when every earlier  *)
(* generation is gone.                                                     *)
(***************************************************************************)
EXTENDS Naturals

VARIABLES
    launched,   \* the last generation that was given a process, 0 for none
    alive       \* the generations that have processes

Init == launched = 0 /\ alive = {}

Launch ==
    /\ alive = {}
    /\ launched' > launched
    /\ alive' \subseteq {launched'}

Exit ==
    /\ alive' \subseteq alive
    /\ UNCHANGED launched

Next == Launch \/ Exit

Spec == Init /\ [][Next]_<<launched, alive>>
=============================================================================
