------------------------- MODULE MCAttachmentRoutes --------------------------
(* Instances of AttachmentRoutes for TLC.                                  *)
EXTENDS AttachmentRoutes

CONSTANTS u1, s1

(* One administrator in one session.                                       *)
OneUser == [x \in Contexts |-> u1]
OneSession == [x \in Contexts |-> s1]
=============================================================================
