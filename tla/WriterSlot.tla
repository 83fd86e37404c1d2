----------------------------- MODULE WriterSlot -----------------------------
(***************************************************************************)
(* What the Runtime promises about the terminal of one workspace           *)
(* generation: one attachment at a time holds the writer slot, only the    *)
(* holder has an attach child, the slot is given back only after the child *)
(* is gone, and an attachment holds it once.                               *)
(***************************************************************************)
CONSTANTS Attachments, None

VARIABLES
    holder,   \* the attachment that holds the slot
    retired,  \* attachments that gave it back
    children  \* attachments with an attach child

vars == <<holder, retired, children>>

Init == holder = None /\ retired = {} /\ children = {}

Reserve(a) ==
    /\ holder = None /\ a \notin retired
    /\ holder' = a
    /\ UNCHANGED <<retired, children>>

Attach(a) ==
    /\ holder = a /\ children = {}
    /\ children' = {a}
    /\ UNCHANGED <<holder, retired>>

Detach(a) ==
    /\ children = {a}
    /\ children' = {}
    /\ UNCHANGED <<holder, retired>>

(* The child, if there is one, is gone in the same step or before it. *)
Release(a) ==
    /\ holder = a
    /\ holder' = None
    /\ retired' = retired \cup {a}
    /\ children' = {}

Next == \E a \in Attachments : Reserve(a) \/ Attach(a) \/ Detach(a) \/ Release(a)

Spec == Init /\ [][Next]_vars
=============================================================================
