----------------------- MODULE MCAttachmentAuthority ------------------------
(* Instances of AttachmentAuthority for TLC.                               *)
EXTENDS AttachmentAuthority, TLC

CONSTANTS c1, u1, s1, s2

(* Two contexts of one administrator in two sessions.                      *)
OneUser == [c \in Contexts |-> u1]
TwoSessions == [c \in Contexts |-> IF c = c1 THEN s1 ELSE s2]

WorkspaceSymmetry == Permutations(Workspaces)
=============================================================================
