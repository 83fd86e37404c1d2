------------------------- MODULE WorkspaceSessions --------------------------
(***************************************************************************)
(* The rows of packages/agentbox-core waw_sessions.py and                  *)
(* waw_project_bindings.py, and what each service method makes of them.    *)
(* A workspace is one agent of one ready Project on one Runtime host, so   *)
(* identities, host tuples and the Project's revision do not vary and are  *)
(* left out; its binding therefore stays at revision 1.  TRUST_REQUIRED    *)
(* and LOGIN_REQUIRED follow the rules of NEEDS_INTERACTION and are merged *)
(* with it; EXITED, MISSING, COLLISION and BROKEN are written by no code.  *)
(* Of failure_code only BINDING_RECONCILIATION_REQUIRED is told apart by a *)
(* query: drift says whether the row carries it.                           *)
(***************************************************************************)
EXTENDS Naturals

CONSTANT NoDigest  \* binding_digest IS NULL

Live == {"RUNNING", "NEEDS_INTERACTION"}
Restartable == {"STOPPED", "UNKNOWN"}
WorkspaceStates == Live \cup Restartable \cup {"STARTING", "STOPPING"}

Transitions ==
    [STARTING          |-> Live \cup {"STOPPING", "UNKNOWN"},
     RUNNING           |-> {"NEEDS_INTERACTION", "STOPPING", "UNKNOWN"},
     NEEDS_INTERACTION |-> {"RUNNING", "STOPPING", "UNKNOWN"},
     STOPPING          |-> {"STOPPED", "UNKNOWN"},
     STOPPED           |-> {"STARTING"},
     UNKNOWN           |-> {"STARTING", "STOPPING"}]

CanMove(from, to) == from = to \/ to \in Transitions[from]

(* _insert_workspace                                                       *)
NewRow(digest) ==
    [state |-> "STARTING", recon |-> "authoritative", drift |-> FALSE, gen |-> 1, rev |-> 1,
     digest |-> digest, evidence |-> "UNOBSERVED", evGen |-> 0, evEpoch |-> 0]

Moved(w, state, recon, drift) ==
    [w EXCEPT !.state = state, !.recon = recon, !.drift = drift, !.rev = @ + 1]

Unknown(w, drift) == Moved(w, "UNKNOWN", "reconciliation_required", drift)

(* begin_start, from a restartable row                                     *)
Restarted(w) ==
    [Moved(w, "STARTING", "authoritative", FALSE) EXCEPT
        !.gen = @ + 1,
        !.evidence = IF @ = "VERIFIED" THEN "STALE" ELSE @]

EvidenceCurrent(w, epoch) ==
    w.evidence = "VERIFIED" /\ w.evGen = w.gen /\ w.evEpoch = epoch

(* record_executable_evidence on a row that is not VERIFIED                *)
Evidenced(w, epoch) ==
    [w EXCEPT !.evidence = "VERIFIED", !.evGen = w.gen, !.evEpoch = epoch, !.rev = @ + 1]

(* begin_stop and complete_stop                                            *)
Stopping(w) == Moved(w, "STOPPING", "stopping", w.drift)

StopEnded(w, result) ==
    IF result = "STOPPED" THEN Moved(w, "STOPPED", "authoritative", FALSE)
    ELSE Unknown(w, FALSE)

(* Mutant: the fence of a new epoch spares no terminal row.                *)
EpochFenced_Stopped(w) == [Unknown(w, FALSE) EXCEPT !.evidence = "STALE"]

(* Mutant: the fence of a new epoch spares the rows that are live.         *)
EpochFenced_KeepsLive(w) ==
    IF w.state \in Live \cup {"STOPPED"} THEN w
    ELSE [Unknown(w, FALSE) EXCEPT !.evidence = "STALE"]

(* classify_runtime_epoch on a newer epoch                                 *)
EpochFenced(w) ==
    IF w.state = "STOPPED" THEN w ELSE [Unknown(w, FALSE) EXCEPT !.evidence = "STALE"]

(* _fence_binding_workspaces                                               *)
BindingFenced(w, digest) ==
    IF \/ w.digest # digest
       \/ w.state \in {"STOPPED", "STOPPING"}
       \/ w.state = "UNKNOWN" /\ w.recon = "reconciliation_required" /\ w.drift
    THEN w ELSE Unknown(w, TRUE)

-----------------------------------------------------------------------------
(* The binding row.  status "none" is no row at all.                       *)
NoBinding == [status |-> "none", digest |-> NoDigest]

Reserved(b) == IF b.status = "none" THEN [b EXCEPT !.status = "PENDING"] ELSE b

Committable(b, digest) == b.digest = NoDigest \/ (b.status = "CURRENT" /\ b.digest = digest)

Committed(digest) == [status |-> "CURRENT", digest |-> digest]

(* require_reconciliation: refused when the digest is not the expected one *)
Reconciled(b, expected) ==
    IF b.digest = expected THEN [b EXCEPT !.status = "RECONCILIATION_REQUIRED"] ELSE b
=============================================================================
