------------------------- MODULE MCSubmitAdmission -------------------------
(* Instance of SubmitAdmission in which all requests compete for one slot. *)
EXTENDS SubmitAdmission

OneSlot == [r \in Requests |-> "slot"]
=============================================================================
