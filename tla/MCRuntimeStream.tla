--------------------------- MODULE MCRuntimeStream ---------------------------
(* Model values of RuntimeStream: attachments are interchangeable. *)
EXTENDS RuntimeStream, TLC

Symmetry == Permutations(Attachments)
=============================================================================
