----------------------- MODULE WorkspaceControlProofs -----------------------
(***************************************************************************)
(* Proofs about WorkspaceControl, for any number of agents, requests,      *)
(* digests, generations, Runtime epochs, failed RPCs and crashes.          *)
(***************************************************************************)
EXTENDS WorkspaceControl, TLAPS

(* The provers every leaf below is tried with, in this order, and their    *)
(* time limits in seconds, unless the leaf names one itself.               *)
USE SMTT(15), ZenonT(30), SMTT(20)

Stops == [Generations -> StopResults \cup {"none"}]

(* What holds of one agent's row w and stop records st under the epoch h   *)
(* of the host row and the binding b.  Beside the two properties proved,   *)
(* a generation yet to come, or starting, has no stop record, one whose    *)
(* stop was acknowledged is STOPPED, and evidence is of the row's own      *)
(* generation and of the epoch the host row names, except on a STOPPED     *)
(* row, whose evidence the next Start makes stale.                         *)
RowOK(w, st, h, b) ==
    /\ st \in Stops
    /\ w = NoRow => \A g \in Generations : st[g] = "none"
    /\ w # NoRow =>
          /\ w \in Rows
          /\ \A g \in Generations : st[g] = "PENDING" <=> (w.gen = g /\ w.state = "STOPPING")
          /\ \A g \in Generations : g > w.gen => st[g] = "none"
          /\ w.state = "STARTING" => st[w.gen] = "none"
          /\ st[w.gen] = "STOPPED" => w.state = "STOPPED"
          /\ w.state = "STOPPING" => w.recon = "stopping"
          /\ w.state \in Live => /\ w.evidence = "VERIFIED" /\ w.recon = "authoritative"
                                 /\ BindingCurrent(w, b)
          /\ w.evidence = "VERIFIED" => h # 0
          /\ w.evidence = "VERIFIED" /\ w.state # "STOPPED" => w.evGen = w.gen /\ w.evEpoch = h

(* A row is kept as it is or gets a higher revision.                       *)
Advances(w, v) == v = w \/ w = NoRow \/ (v # NoRow /\ v.rev > w.rev)

(* v may replace w.                                                        *)
Follows(w, v, st, h, b) == RowOK(v, st, h, b) /\ Advances(w, v) /\ v # NoRow

Bindings == [status : {"none", "PENDING", "CURRENT", "RECONCILIATION_REQUIRED"},
             digest : Digests \cup {NoDigest}]

-----------------------------------------------------------------------------
(* One lemma per operator of WorkspaceSessions.                            *)
MovedTo(w, v, s, c) ==
    /\ v \in Rows /\ v # NoRow /\ v.rev = w.rev + 1
    /\ v.state = s /\ v.recon = c /\ v.gen = w.gen /\ v.digest = w.digest
    /\ v.evidence = w.evidence /\ v.evGen = w.evGen /\ v.evEpoch = w.evEpoch

LEMMA MovedRow ==
    ASSUME NEW w \in Rows, NEW s \in WorkspaceStates,
           NEW c \in {"authoritative", "stopping", "reconciliation_required"}, NEW d \in BOOLEAN
    PROVE  MovedTo(w, Moved(w, s, c, d), s, c)
  <1> DEFINE v == Moved(w, s, c, d)
  <1>1. v.rev = w.rev + 1 /\ v.state = s /\ v.recon = c /\ v.gen = w.gen /\ v.digest = w.digest
        /\ v.evidence = w.evidence /\ v.evGen = w.evGen /\ v.evEpoch = w.evEpoch
    BY DEF Moved, Rows
  <1>2. v \in Rows
    <2> DEFINE n == w.rev + 1
    <2>1. n \in Nat \ {0}
      BY DEF Rows
    <2>2. v = [w EXCEPT !.state = s, !.recon = c, !.drift = d, !.rev = n]
      BY DEF Moved
    <2> HIDE DEF n, v
    <2>3. [w EXCEPT !.state = s, !.recon = c, !.drift = d, !.rev = n] \in Rows
      BY <2>1, ZenonT(30) DEF Rows
    <2> QED BY <2>2, <2>3, ZenonT(30)
  <1> QED BY <1>1, <1>2, RowAssumption DEF MovedTo

LEMMA Constants ==
    /\ {"STARTING", "STOPPING", "STOPPED", "UNKNOWN"} \cup Live \subseteq WorkspaceStates
    /\ FALSE \in BOOLEAN
  BY DEF WorkspaceStates, Restartable

LEMMA UnknownRow ==
    ASSUME NEW w \in Rows, NEW st, NEW h, NEW b, RowOK(w, st, h, b),
           w.state \notin {"STOPPED", "STOPPING"}, NEW d \in BOOLEAN
    PROVE  Follows(w, Unknown(w, d), st, h, b)
  <1> DEFINE v == Unknown(w, d)
  <1>1. /\ v \in Rows /\ v # NoRow /\ v.rev = w.rev + 1
        /\ v.state = "UNKNOWN" /\ v.gen = w.gen
        /\ v.evidence = w.evidence /\ v.evGen = w.evGen /\ v.evEpoch = w.evEpoch
    BY MovedRow DEF MovedTo, Unknown, WorkspaceStates, Restartable
  <1> HIDE DEF v
  <1>2. w # NoRow /\ w.rev \in Nat
    BY RowAssumption DEF Rows
  <1>3. Advances(w, v)
    BY <1>1, <1>2 DEF Advances
  <1>4. RowOK(v, st, h, b)
    BY <1>1, <1>2 DEF RowOK, Live
  <1> QED BY <1>1, <1>3, <1>4 DEF Follows, v

LEMMA RestartedRow ==
    ASSUME NEW w \in Rows, NEW st, NEW h, NEW b, RowOK(w, st, h, b),
           w.state \in Restartable, w.gen < MaxGen
    PROVE  Follows(w, Restarted(w), st, h, b)
  <1> DEFINE m == Moved(w, "STARTING", "authoritative", FALSE)
             v == Restarted(w)
  <1>1. /\ m \in Rows /\ m.rev = w.rev + 1 /\ m.state = "STARTING" /\ m.gen = w.gen
        /\ m.evidence = w.evidence
    <2>1. MovedTo(w, m, "STARTING", "authoritative")
      BY MovedRow, Constants, ZenonT(30)
    <2> QED BY <2>1, ZenonT(30) DEF MovedTo
  <1>2. v = [m EXCEPT !.gen = m.gen + 1,
                      !.evidence = IF m.evidence = "VERIFIED" THEN "STALE" ELSE m.evidence]
    BY DEF Restarted
  <1> HIDE DEF m, v
  <1>3. w.gen + 1 \in Generations /\ w.gen \in Nat /\ w.rev \in Nat
    BY ControlAssumption DEF Generations, Rows
  <1>4. v \in Rows /\ v.rev = w.rev + 1 /\ v.state = "STARTING" /\ v.gen = w.gen + 1
        /\ v.evidence # "VERIFIED"
    BY <1>1, <1>2, <1>3, ZenonT(30) DEF Rows
  <1>5. w # NoRow /\ v # NoRow
    BY <1>4, RowAssumption
  <1>6. \A g \in Generations : st[g] # "PENDING" /\ (g > v.gen => st[g] = "none")
    BY <1>3, <1>4, <1>5 DEF RowOK, Restartable, Generations
  <1>7. RowOK(v, st, h, b) /\ Advances(w, v)
    BY <1>3, <1>4, <1>5, <1>6 DEF RowOK, Advances, Live
  <1> QED BY <1>5, <1>7 DEF Follows, v

LEMMA FirstRow ==
    ASSUME NEW st, NEW h, NEW b, RowOK(NoRow, st, h, b), NEW d \in Digests
    PROVE  Follows(NoRow, NewRow(d), st, h, b) /\ NewRow(d) \in Rows
  <1> DEFINE v == NewRow(d)
  <1>1. v \in Rows /\ v.state = "STARTING" /\ v.evidence = "UNOBSERVED" /\ v.gen \in Generations
    BY ControlAssumption DEF NewRow, Rows, WorkspaceStates, Generations
  <1> HIDE DEF v
  <1> QED BY <1>1, RowAssumption DEF Follows, RowOK, Advances, Live, v

LEMMA EvidencedRow ==
    ASSUME NEW w \in Rows, NEW st, NEW h \in 1 .. MaxEpoch, NEW b, RowOK(w, st, h, b),
           w.evidence # "VERIFIED"
    PROVE  /\ Follows(w, Evidenced(w, h), st, h, b)
           /\ Evidenced(w, h) \in Rows
           /\ EvidenceCurrent(Evidenced(w, h), h)
           /\ Evidenced(w, h).state = w.state /\ Evidenced(w, h).digest = w.digest
           /\ Evidenced(w, h).rev > w.rev
  <1> DEFINE v == Evidenced(w, h)
  <1>1. v \in Rows
    <2> DEFINE n == w.rev + 1
    <2>1. n \in Nat \ {0} /\ w.gen \in 0 .. MaxGen /\ h \in 0 .. MaxEpoch
      BY ControlAssumption DEF Rows, Generations
    <2>2. v = [w EXCEPT !.evidence = "VERIFIED", !.evGen = w.gen, !.evEpoch = h, !.rev = n]
      BY DEF Evidenced
    <2> HIDE DEF n, v
    <2>3. [w EXCEPT !.evidence = "VERIFIED", !.evGen = w.gen, !.evEpoch = h, !.rev = n] \in Rows
      BY <2>1, ZenonT(30) DEF Rows
    <2> QED BY <2>2, <2>3, ZenonT(30)
  <1>2. /\ v.state = w.state /\ v.digest = w.digest /\ v.gen = w.gen /\ v.recon = w.recon
        /\ v.evidence = "VERIFIED" /\ v.evGen = w.gen /\ v.evEpoch = h /\ v.rev = w.rev + 1
    BY DEF Evidenced, Rows
  <1> HIDE DEF v
  <1>3. w # NoRow /\ v # NoRow /\ w.rev \in Nat /\ h # 0
    BY <1>1, RowAssumption DEF Rows
  <1>4. w.state \notin Live
    BY <1>3 DEF RowOK
  <1>5. Follows(w, v, st, h, b)
    BY <1>1, <1>2, <1>3, <1>4 DEF Follows, RowOK, Advances
  <1> QED BY <1>1, <1>2, <1>3, <1>5 DEF EvidenceCurrent, v

(* Only a row that is starting or live may be confirmed.                   *)
LEMMA LiveMoves ==
    ASSUME NEW s \in WorkspaceStates, NEW t \in Live, CanMove(s, t)
    PROVE  s \in Live \cup {"STARTING"}
  BY DEF CanMove, Transitions, WorkspaceStates, Live, Restartable

LEMMA StopMoves ==
    ASSUME NEW s \in WorkspaceStates, CanMove(s, "STOPPING")
    PROVE  s # "STOPPED"
  BY DEF CanMove, Transitions

LEMMA ConfirmedRow ==
    ASSUME NEW w \in Rows, NEW st, NEW h, NEW b, RowOK(w, st, h, b),
           NEW t \in Live, CanMove(w.state, t), EvidenceCurrent(w, h), BindingCurrent(w, b)
    PROVE  Follows(w, Moved(w, t, "authoritative", FALSE), st, h, b)
  <1> DEFINE v == Moved(w, t, "authoritative", FALSE)
  <1>1. /\ v \in Rows /\ v # NoRow /\ v.rev = w.rev + 1
        /\ v.state = t /\ v.recon = "authoritative" /\ v.gen = w.gen /\ v.digest = w.digest
        /\ v.evidence = w.evidence /\ v.evGen = w.evGen /\ v.evEpoch = w.evEpoch
    <2>1. MovedTo(w, v, t, "authoritative")
      BY MovedRow, Constants, ZenonT(30)
    <2> QED BY <2>1, ZenonT(30) DEF MovedTo
  <1> HIDE DEF v
  <1>2. w # NoRow /\ w.rev \in Nat /\ w.state \in WorkspaceStates
    BY RowAssumption DEF Rows
  <1>3. w.state # "STOPPING" /\ w.state # "STOPPED"
    BY <1>2, LiveMoves DEF Live
  <1>4. RowOK(v, st, h, b) /\ Advances(w, v)
    BY <1>1, <1>2, <1>3 DEF RowOK, Advances, EvidenceCurrent, BindingCurrent, Live
  <1> QED BY <1>1, <1>4, ZenonT(30) DEF Follows, v

LEMMA StoppingRow ==
    ASSUME NEW w \in Rows, NEW st, NEW h, NEW b, RowOK(w, st, h, b),
           CanMove(w.state, "STOPPING"), st[w.gen] = "none"
    PROVE  Follows(w, Stopping(w), [st EXCEPT ![w.gen] = "PENDING"], h, b)
  <1> DEFINE v == Stopping(w)
             t == [st EXCEPT ![w.gen] = "PENDING"]
  <1>1. w # NoRow /\ w.rev \in Nat /\ w.state \in WorkspaceStates /\ w.gen \in Generations
        /\ w.drift \in BOOLEAN
    BY RowAssumption DEF Rows
  <1>2. /\ v \in Rows /\ v # NoRow /\ v.rev = w.rev + 1
        /\ v.state = "STOPPING" /\ v.recon = "stopping" /\ v.gen = w.gen
        /\ v.evidence = w.evidence /\ v.evGen = w.evGen /\ v.evEpoch = w.evEpoch
    <2>1. MovedTo(w, v, "STOPPING", "stopping")
      BY <1>1, MovedRow, Constants DEF Stopping
    <2> QED BY <2>1 DEF MovedTo
  <1>3. st \in Stops /\ w.state # "STOPPED" /\ w.state # "STOPPING"
    BY <1>1, StopMoves DEF RowOK
  <1>4. t \in Stops /\ t[w.gen] = "PENDING" /\ \A g \in Generations \ {w.gen} : t[g] = st[g]
    BY <1>1, <1>3 DEF Stops, StopResults
  <1> HIDE DEF v, t
  <1>5. \A g \in Generations : t[g] = "PENDING" <=> v.gen = g
    BY <1>1, <1>2, <1>3, <1>4 DEF RowOK
  <1>6. \A g \in Generations : g > v.gen => t[g] = "none"
    BY <1>1, <1>2, <1>4, ControlAssumption DEF RowOK, Generations
  <1>7. RowOK(v, t, h, b) /\ Advances(w, v)
    BY <1>1, <1>2, <1>3, <1>4, <1>5, <1>6 DEF RowOK, Advances, Live
  <1> QED BY <1>2, <1>7 DEF Follows, v, t

LEMMA EndedRow ==
    ASSUME NEW w \in Rows, NEW st, NEW h, NEW b, RowOK(w, st, h, b),
           w.state = "STOPPING", NEW result \in StopResults \ {"PENDING"}
    PROVE  Follows(w, StopEnded(w, result), [st EXCEPT ![w.gen] = result], h, b)
  <1> DEFINE v == StopEnded(w, result)
             t == [st EXCEPT ![w.gen] = result]
  <1>1. w # NoRow /\ w.rev \in Nat /\ w.gen \in Generations /\ st \in Stops
    BY RowAssumption DEF Rows, RowOK
  <1>2. /\ v \in Rows /\ v # NoRow /\ v.rev = w.rev + 1
        /\ v.state \in {"STOPPED", "UNKNOWN"} /\ v.gen = w.gen
        /\ result = "STOPPED" => v.state = "STOPPED"
        /\ v.evidence = w.evidence /\ v.evGen = w.evGen /\ v.evEpoch = w.evEpoch
    <2>1. \/ MovedTo(w, v, "STOPPED", "authoritative")
          \/ result # "STOPPED" /\ MovedTo(w, v, "UNKNOWN", "reconciliation_required")
      BY MovedRow, Constants, ZenonT(30) DEF StopEnded, Unknown
    <2> QED BY <2>1 DEF MovedTo
  <1>3. t \in Stops /\ t[w.gen] = result /\ \A g \in Generations \ {w.gen} : t[g] = st[g]
    BY <1>1 DEF Stops
  <1> HIDE DEF v, t
  <1>4. \A g \in Generations : t[g] # "PENDING"
    BY <1>1, <1>3 DEF RowOK
  <1>5. \A g \in Generations : g > v.gen => t[g] = "none"
    BY <1>1, <1>2, <1>3, ControlAssumption DEF RowOK, Generations
  <1>6. RowOK(v, t, h, b) /\ Advances(w, v)
    BY <1>1, <1>2, <1>3, <1>4, <1>5 DEF RowOK, Advances, Live
  <1> QED BY <1>2, <1>6 DEF Follows, v, t

LEMMA EpochFencedRow ==
    ASSUME NEW w \in Rows, NEW st, NEW h, NEW k, NEW b, RowOK(w, st, h, b), k # 0
    PROVE  LET t == [g \in Generations |->
                       IF st[g] = "PENDING" THEN "RECONCILIATION_REQUIRED" ELSE st[g]]
           IN  Follows(w, EpochFenced(w), t, k, b)
  <1> DEFINE t == [g \in Generations |->
                     IF st[g] = "PENDING" THEN "RECONCILIATION_REQUIRED" ELSE st[g]]
             v == EpochFenced(w)
             u == Unknown(w, FALSE)
  <1>1. w # NoRow /\ w.rev \in Nat /\ st \in Stops
    BY RowAssumption DEF Rows, RowOK
  <1>2. /\ t \in Stops
        /\ \A g \in Generations : /\ t[g] # "PENDING" /\ (st[g] = "none" => t[g] = "none")
                                  /\ t[g] = "STOPPED" => st[g] = "STOPPED"
    BY <1>1 DEF Stops, StopResults
  <1>3. CASE w.state = "STOPPED"
    <2>1. v = w
      BY <1>3 DEF EpochFenced
    <2> HIDE DEF t
    <2>2. RowOK(w, t, k, b) /\ Advances(w, w)
      BY <1>1, <1>2, <1>3 DEF RowOK, Advances, Live
    <2> QED BY <1>1, <2>1, <2>2 DEF Follows, t
  <1>4. CASE w.state # "STOPPED"
    <2>1. u \in Rows /\ u.rev = w.rev + 1 /\ u.state = "UNKNOWN" /\ u.gen = w.gen
      <3>1. MovedTo(w, u, "UNKNOWN", "reconciliation_required")
        BY MovedRow, Constants, ZenonT(30) DEF Unknown
      <3> QED BY <3>1, ZenonT(30) DEF MovedTo
    <2>2. v = [u EXCEPT !.evidence = "STALE"]
      BY <1>4 DEF EpochFenced
    <2> HIDE DEF u, v
    <2>3. v \in Rows /\ v.rev = w.rev + 1 /\ v.state = "UNKNOWN" /\ v.gen = w.gen
          /\ v.evidence = "STALE"
      BY <2>1, <2>2 DEF Rows
    <2>4. v # NoRow
      BY <2>3, RowAssumption
    <2> HIDE DEF t
    <2>5. \A g \in Generations : g > v.gen => t[g] = "none"
      BY <1>1, <1>2, <2>3 DEF RowOK
    <2>6. w.gen \in Generations /\ t[v.gen] # "STOPPED"
      BY <1>1, <1>2, <1>4, <2>3 DEF RowOK, Rows
    <2>7. RowOK(v, t, k, b) /\ Advances(w, v)
      BY <1>1, <1>2, <2>3, <2>4, <2>5, <2>6 DEF RowOK, Advances, Live
    <2> QED BY <2>4, <2>7 DEF Follows, v, t
  <1> QED BY <1>3, <1>4

LEMMA SameRow ==
    ASSUME NEW w \in Rows, NEW st, NEW h, NEW b, RowOK(w, st, h, b)
    PROVE  Follows(w, w, st, h, b)
  BY RowAssumption DEF Follows, Advances

(* A live row is under a binding that is CURRENT with the row's digest.    *)
LEMMA Rebound ==
    ASSUME NEW w, NEW st, NEW h, NEW b, NEW c, RowOK(w, st, h, b),
           b.status = "CURRENT" /\ b.digest \in Digests => c.status = "CURRENT" /\ c.digest = b.digest
    PROVE  RowOK(w, st, h, c)
  <1>1. w # NoRow /\ w.state \in Live => BindingCurrent(w, c)
    BY DEF RowOK, BindingCurrent, Rows
  <1> QED BY <1>1 DEF RowOK

LEMMA BindingFencedRow ==
    ASSUME NEW w \in Rows, NEW st, NEW h, NEW b \in Bindings, RowOK(w, st, h, b),
           NEW d, b.digest = d
    PROVE  Follows(w, BindingFenced(w, d), st, h, Reconciled(b, d))
  <1> DEFINE c == Reconciled(b, d)
  <1>1. w # NoRow /\ w.state \in WorkspaceStates
    BY RowAssumption DEF Rows
  <1>2. CASE w.digest = d /\ w.state \notin {"STOPPED", "STOPPING"} /\ BindingFenced(w, d) # w
    <2>1. BindingFenced(w, d) = Unknown(w, TRUE)
      BY <1>2, ZenonT(20) DEF BindingFenced
    <2>2. TRUE \in BOOLEAN
      OBVIOUS
    <2>3. Follows(w, Unknown(w, TRUE), st, h, b)
      BY <1>2, <2>2, UnknownRow, ZenonT(30)
    <2>4. MovedTo(w, Unknown(w, TRUE), "UNKNOWN", "reconciliation_required")
      BY <2>2, MovedRow, Constants, ZenonT(30) DEF Unknown
    <2>5. RowOK(Unknown(w, TRUE), st, h, c)
      BY <2>3, <2>4, ZenonT(30) DEF Follows, RowOK, MovedTo, Live
    <2> QED BY <2>1, <2>3, <2>5, ZenonT(30) DEF Follows
  <1>3. CASE BindingFenced(w, d) = w
    <2>1. w.state \notin Live
      <3>1. w.state \in Live => w.digest = d
        BY <1>1 DEF RowOK, BindingCurrent
      <3>2. w.digest # d \/ w.state \in {"STOPPED", "STOPPING"} \/ w.state = "UNKNOWN"
        <4> SUFFICES ASSUME w.digest = d, w.state \notin {"STOPPED", "STOPPING", "UNKNOWN"}
                     PROVE  FALSE
          OBVIOUS
        <4>1. BindingFenced(w, d) = Unknown(w, TRUE)
          BY ZenonT(30) DEF BindingFenced
        <4>2. MovedTo(w, Unknown(w, TRUE), "UNKNOWN", "reconciliation_required")
          BY MovedRow, Constants, ZenonT(30) DEF Unknown
        <4> QED BY <1>3, <4>1, <4>2, ZenonT(30) DEF MovedTo
      <3> QED BY <3>1, <3>2 DEF Live
    <2>2. RowOK(w, st, h, c)
      BY <1>1, <2>1 DEF RowOK
    <2> QED BY <1>1, <1>3, <2>2 DEF Follows, Advances
  <1>4. BindingFenced(w, d) = w \/ (w.digest = d /\ w.state \notin {"STOPPED", "STOPPING"})
    BY ZenonT(30) DEF BindingFenced
  <1> QED BY <1>2, <1>3, <1>4

-----------------------------------------------------------------------------
Locals == [pc : {"idle", "register", "start", "evidence", "stop", "status", "compensate"},
           agent : Agents \cup {NoAgent}, snap : Rows \cup {NoRow},
           digest : Digests \cup {NoDigest}, epoch : 0 .. MaxEpoch,
           state : Live \cup {"none"}, raised : BOOLEAN]

(* What the handler of request q knows of the rows.  Across the await of   *)
(* the evidence it holds the revision of a row that was starting or live,  *)
(* so a row with that revision still is.                                   *)
LocalOK(q, rows) ==
    /\ q.pc # "idle" => q.agent \in Agents
    /\ q.pc \in {"start", "evidence", "stop", "compensate"} => rows[q.agent] # NoRow
    /\ q.pc \in {"start", "evidence"} => q.epoch # 0
    /\ q.pc = "evidence" =>
          /\ q.state \in Live
          /\ q.snap # NoRow /\ q.snap.rev <= rows[q.agent].rev
          /\ q.snap.rev = rows[q.agent].rev => rows[q.agent].state \in Live \cup {"STARTING"}

BindingOK(b) == b \in Bindings /\ (b.status = "CURRENT" => b.digest # NoDigest)

EpochsOK ==
    /\ hostEpoch \in 0 .. MaxEpoch /\ rtEpoch \in 1 .. MaxEpoch /\ bound \in 0 .. MaxEpoch
    /\ hostEpoch <= rtEpoch
    /\ bound # 0 => bound = hostEpoch

IInv ==
    /\ row \in [Agents -> Rows \cup {NoRow}]
    /\ stops \in [Agents -> Stops]
    /\ req \in [Requests -> Locals]
    /\ \A a \in Agents : RowOK(row[a], stops[a], hostEpoch, binding)
    /\ \A r \in Requests : LocalOK(req[r], row)
    /\ BindingOK(binding)
    /\ EpochsOK

(* What an action does to the rows and to the handlers.                    *)
RowsStep ==
    /\ row' \in [Agents -> Rows \cup {NoRow}]
    /\ stops' \in [Agents -> Stops]
    /\ \A a \in Agents : /\ RowOK(row'[a], stops'[a], hostEpoch', binding')
                         /\ Advances(row[a], row'[a])

ReqStep ==
    \/ req' = req
    \/ \E r \in Requests : \E l \in Locals : LocalOK(l, row') /\ req' = [req EXCEPT ![r] = l]

LEMMA LocalKept ==
    ASSUME IInv, RowsStep, NEW r \in Requests
    PROVE  LocalOK(req[r], row')
  <1> DEFINE q == req[r]
             a == q.agent
  <1>1. q \in Locals /\ LocalOK(q, row)
    BY DEF IInv
  <1>2. CASE a \notin Agents
    BY <1>1, <1>2 DEF LocalOK
  <1>3. CASE a \in Agents
    <2>1. Advances(row[a], row'[a]) /\ row[a] \in Rows \cup {NoRow} /\ row'[a] \in Rows \cup {NoRow}
      BY <1>3 DEF RowsStep, IInv
    <2>2. row[a] # NoRow => row'[a] # NoRow
      BY <2>1, ZenonT(20) DEF Advances
    <2>3. q.pc = "evidence" =>
             /\ q.snap.rev <= row'[a].rev
             /\ q.snap.rev = row'[a].rev => row'[a].state \in Live \cup {"STARTING"}
      <3> SUFFICES ASSUME q.pc = "evidence"
                   PROVE  /\ q.snap.rev <= row'[a].rev
                          /\ q.snap.rev = row'[a].rev => row'[a].state \in Live \cup {"STARTING"}
        OBVIOUS
      <3>1. row[a] # NoRow /\ q.snap # NoRow /\ q.snap.rev <= row[a].rev
            /\ (q.snap.rev = row[a].rev => row[a].state \in Live \cup {"STARTING"})
        BY <1>1, ZenonT(20) DEF LocalOK
      <3>2. q.snap.rev \in Nat /\ row[a].rev \in Nat /\ row'[a].rev \in Nat
        BY <1>1, <2>1, <2>2, <3>1 DEF Locals, Rows
      <3>3. CASE row'[a] = row[a]
        BY <3>1, <3>3
      <3>4. CASE row'[a].rev > row[a].rev
        BY <3>1, <3>2, <3>4
      <3> QED BY <2>1, <3>1, <3>3, <3>4 DEF Advances
    <2> QED BY <1>1, <1>3, <2>2, <2>3 DEF LocalOK
  <1> QED BY <1>2, <1>3

LEMMA StepInv ==
    ASSUME IInv, RowsStep, ReqStep, BindingOK(binding'), EpochsOK'
    PROVE  IInv'
  <1>1. req' \in [Requests -> Locals]
    BY DEF ReqStep, IInv
  <1>2. ASSUME NEW r \in Requests PROVE LocalOK(req'[r], row')
    <2>1. CASE req'[r] = req[r]
      BY <2>1, LocalKept
    <2>2. CASE req'[r] # req[r]
      <3>1. PICK x \in Requests, l \in Locals : LocalOK(l, row') /\ req' = [req EXCEPT ![x] = l]
        BY <2>2 DEF ReqStep
      <3>2. req'[r] = l
        BY <2>2, <3>1 DEF IInv
      <3> QED BY <3>1, <3>2
    <2> QED BY <2>1, <2>2
  <1> QED BY <1>1, <1>2 DEF IInv, RowsStep

-----------------------------------------------------------------------------
(* Pieces of handlers.  Answers and awaits replace the local state of r.   *)
LEMMA EndedStep ==
    ASSUME NEW r \in Requests, NEW raised \in BOOLEAN, Ended(r, raised)
    PROVE  ReqStep
  <1> DEFINE l == [Idle EXCEPT !.raised = raised]
  <1>1. l \in Locals /\ l.pc = "idle"
    BY ControlAssumption DEF Idle, Locals
  <1>2. LocalOK(l, row')
    BY <1>1 DEF LocalOK
  <1>3. req' = [req EXCEPT ![r] = l]
    BY DEF Ended
  <1> HIDE DEF l
  <1> QED BY <1>1, <1>2, <1>3, ZenonT(30) DEF ReqStep

LEMMA AnswerStep ==
    ASSUME NEW r \in Requests, Answer(r) \/ Raise(r)
    PROVE  ReqStep
  <1>1. TRUE \in BOOLEAN /\ FALSE \in BOOLEAN
    OBVIOUS
  <1> QED BY <1>1, EndedStep, ZenonT(30) DEF Answer, Raise

(* One row and its stop records change.                                    *)
RowTo(a, v, t) ==
    /\ Follows(row[a], v, t, hostEpoch, binding)
    /\ row' = [row EXCEPT ![a] = v]
    /\ stops' = [stops EXCEPT ![a] = t]

LEMMA OneRow ==
    ASSUME IInv, NEW a \in Agents, NEW v, NEW t, RowTo(a, v, t),
           UNCHANGED <<hostEpoch, binding>>
    PROVE  RowsStep /\ row'[a] = v
  <1>1. v \in Rows /\ t \in Stops /\ RowOK(v, t, hostEpoch, binding) /\ Advances(row[a], v)
    BY DEF RowTo, Follows, RowOK
  <1>2. /\ row' \in [Agents -> Rows \cup {NoRow}] /\ stops' \in [Agents -> Stops]
        /\ row'[a] = v /\ stops'[a] = t
        /\ \A c \in Agents \ {a} : row'[c] = row[c] /\ stops'[c] = stops[c]
    BY <1>1 DEF IInv, RowTo
  <1>3. ASSUME NEW c \in Agents
        PROVE  RowOK(row'[c], stops'[c], hostEpoch', binding') /\ Advances(row[c], row'[c])
    <2>1. CASE c = a
      BY <1>1, <1>2, <2>1
    <2>2. CASE c # a
      BY <1>2, <2>2 DEF IInv, Advances
    <2> QED BY <2>1, <2>2
  <1> QED BY <1>2, <1>3 DEF RowsStep

(* No row changes, though a binding may.                                   *)
LEMMA NoRowStep ==
    ASSUME IInv, UNCHANGED <<row, stops, hostEpoch, binding>>
    PROVE  RowsStep
  BY DEF IInv, RowsStep, Advances

LEMMA RowIs ==
    ASSUME IInv, NEW a \in Agents
    PROVE  /\ RowOK(row[a], stops[a], hostEpoch, binding) /\ stops[a] \in Stops
           /\ row[a] # NoRow => row[a] \in Rows /\ Follows(row[a], row[a], stops[a], hostEpoch, binding)
  BY SameRow DEF IInv

LEMMA AdvancesTwice ==
    ASSUME NEW u \in Rows \cup {NoRow}, NEW w \in Rows, NEW v \in Rows, Advances(u, w), Advances(w, v)
    PROVE  Advances(u, v)
  <1>1. w # NoRow /\ v # NoRow
    BY RowAssumption
  <1>2. w.rev \in Nat /\ v.rev \in Nat /\ (u # NoRow => u.rev \in Nat)
    BY DEF Rows
  <1> QED BY <1>1, <1>2 DEF Advances

LEMMA FollowsTwice ==
    ASSUME NEW u \in Rows \cup {NoRow}, NEW w \in Rows, NEW v, NEW st, NEW h, NEW b,
           Advances(u, w), Follows(w, v, st, h, b)
    PROVE  Follows(u, v, st, h, b)
  <1>1. v \in Rows
    BY DEF Follows, RowOK
  <1> QED BY <1>1, AdvancesTwice DEF Follows

-----------------------------------------------------------------------------
(* The await of an RPC with the local state l.                             *)
LEMMA AwaitStep ==
    ASSUME NEW r \in Requests, NEW l \in Locals, LocalOK(l, row'), Await(r, l)
    PROVE  ReqStep
  BY ZenonT(30) DEF Await, ReqStep

LEMMA IdleLocal == Idle \in Locals /\ Idle.raised = FALSE
  BY ControlAssumption DEF Idle, Locals

Calls == {"register", "start", "stop", "status", "compensate"}

(* l is a handler's state at its call pc about agent a.                    *)
CallOf(l, pc, a) == l \in Locals /\ l.pc = pc /\ l.agent = a

LEMMA StatusLocal ==
    ASSUME NEW a \in Agents, NEW pc \in Calls
    PROVE  CallOf([Idle EXCEPT !.pc = pc, !.agent = a], pc, a)
  <1>1. ASSUME NEW q \in Locals
        PROVE  CallOf([q EXCEPT !.pc = pc, !.agent = a], pc, a)
    BY ZenonT(30) DEF Locals, CallOf, Calls
  <1> QED BY <1>1, IdleLocal, ZenonT(30)

LEMMA StopLocal ==
    ASSUME NEW a \in Agents, NEW pc \in Calls, NEW w \in Rows \cup {NoRow}
    PROVE  CallOf([Idle EXCEPT !.pc = pc, !.agent = a, !.snap = w], pc, a)
  <1>1. ASSUME NEW q \in Locals
        PROVE  CallOf([q EXCEPT !.pc = pc, !.agent = a, !.snap = w], pc, a)
    BY ZenonT(30) DEF Locals, CallOf, Calls
  <1> QED BY <1>1, IdleLocal, ZenonT(30)

LEMMA RegisterLocal ==
    ASSUME NEW a \in Agents, NEW pc \in Calls, NEW d \in Digests \cup {NoDigest}
    PROVE  CallOf([Idle EXCEPT !.pc = pc, !.agent = a, !.digest = d], pc, a)
  <1>1. ASSUME NEW q \in Locals
        PROVE  CallOf([q EXCEPT !.pc = pc, !.agent = a, !.digest = d], pc, a)
    BY ZenonT(30) DEF Locals, CallOf, Calls
  <1> QED BY <1>1, IdleLocal, ZenonT(30)

StartCall(a, w, e) == [Idle EXCEPT !.pc = "start", !.agent = a, !.snap = w, !.epoch = e]

LEMMA StartLocal ==
    ASSUME NEW a \in Agents, NEW w \in Rows, NEW e \in 0 .. MaxEpoch
    PROVE  CallOf(StartCall(a, w, e), "start", a) /\ StartCall(a, w, e).epoch = e
  <1>1. ASSUME NEW q \in Locals
        PROVE  /\ CallOf([q EXCEPT !.pc = "start", !.agent = a, !.snap = w, !.epoch = e],
                         "start", a)
               /\ [q EXCEPT !.pc = "start", !.agent = a, !.snap = w, !.epoch = e].epoch = e
    BY ZenonT(30) DEF Locals, CallOf
  <1> QED BY <1>1, IdleLocal, ZenonT(30) DEF StartCall

(* begin_stop on the value w of the row.                                   *)
LEMMA BeginStopStep ==
    ASSUME IInv, NEW r \in Requests, NEW a \in Agents, NEW w,
           Follows(row[a], w, stops[a], hostEpoch, binding),
           NEW pc \in {"stop", "compensate"}, BeginStop(r, a, w, pc),
           UNCHANGED <<hostEpoch, binding>>
    PROVE  RowsStep /\ ReqStep
  <1>1. w \in Rows /\ w # NoRow /\ RowOK(w, stops[a], hostEpoch, binding) /\ Advances(row[a], w)
    BY DEF Follows, RowOK
  <1>2. row[a] \in Rows \cup {NoRow} /\ stops \in [Agents -> Stops] /\ w.gen \in Generations
    BY <1>1 DEF IInv, Rows
  <1>3. CASE /\ CanMove(w.state, "STOPPING") /\ stops[a][w.gen] = "none"
             /\ Put(a, Stopping(w))
             /\ stops' = [stops EXCEPT ![a][w.gen] = "PENDING"]
             /\ Await(r, [Idle EXCEPT !.pc = pc, !.agent = a, !.snap = w])
    <2> DEFINE t == [stops[a] EXCEPT ![w.gen] = "PENDING"]
               l == [Idle EXCEPT !.pc = pc, !.agent = a, !.snap = w]
    <2>1. Follows(w, Stopping(w), t, hostEpoch, binding)
      BY <1>1, <1>3, StoppingRow
    <2>2. Follows(row[a], Stopping(w), t, hostEpoch, binding)
      BY <1>1, <1>2, <2>1, FollowsTwice
    <2>3. stops' = [stops EXCEPT ![a] = t]
      BY <1>3
    <2>4. RowTo(a, Stopping(w), t)
      BY <1>3, <2>2, <2>3 DEF RowTo, Put
    <2> HIDE DEF t
    <2>5. RowsStep /\ row'[a] # NoRow
      BY <2>2, <2>4, OneRow DEF Follows
    <2>6. l \in Locals /\ l.pc = pc /\ l.agent = a
      <3>1. pc \in Calls /\ w \in Rows \cup {NoRow}
        BY <1>1 DEF Calls
      <3>2. CallOf(l, pc, a)
        BY <3>1, StopLocal, ZenonT(30)
      <3> HIDE DEF l
      <3> QED BY <3>2 DEF CallOf
    <2>7. Await(r, l)
      BY <1>3
    <2> HIDE DEF l
    <2>8. LocalOK(l, row')
      BY <2>5, <2>6 DEF LocalOK
    <2> QED BY <2>5, <2>6, <2>7, <2>8, AwaitStep
  <1>4. CASE Put(a, w) /\ Raise(r) /\ UNCHANGED stops
    <2>1. RowTo(a, w, stops[a])
      BY <1>2, <1>4 DEF RowTo, Put
    <2> QED BY <1>4, <2>1, OneRow, AnswerStep
  <1> QED BY <1>3, <1>4, ZenonT(20) DEF BeginStop

(* _fence_ambiguous_workspace_start                                        *)
LEMMA FencedStartRow ==
    ASSUME NEW w \in Rows, NEW st, NEW h, NEW b, RowOK(w, st, h, b), NEW snap, NEW d \in BOOLEAN
    PROVE  Follows(w, FencedStart(w, snap, d), st, h, b)
  <1>1. CASE w.state \in Live \cup {"STARTING"}
    <2>1. w.state \notin {"STOPPED", "STOPPING"}
      BY <1>1 DEF Live
    <2> QED BY <2>1, UnknownRow, SameRow DEF FencedStart
  <1>2. CASE w.state \notin Live \cup {"STARTING"}
    BY <1>2, SameRow DEF FencedStart
  <1> QED BY <1>1, <1>2

LEMMA CompensateStep ==
    ASSUME IInv, NEW r \in Requests, NEW a \in Agents, row[a] # NoRow, NEW snap,
           Compensate(r, a, snap), UNCHANGED <<hostEpoch, binding>>
    PROVE  RowsStep /\ ReqStep
  <1> DEFINE w == FencedStart(row[a], snap, TRUE)
  <1>1. Follows(row[a], w, stops[a], hostEpoch, binding)
    BY RowIs, FencedStartRow, ZenonT(30)
  <1>2. CASE BeginStop(r, a, w, "compensate")
    BY <1>1, <1>2, BeginStopStep, ZenonT(30)
  <1>3. CASE Put(a, w) /\ Answer(r) /\ UNCHANGED stops
    <2>1. RowTo(a, w, stops[a])
      BY <1>1, <1>3, ZenonT(30) DEF RowTo, Put, IInv
    <2> QED BY <1>3, <2>1, OneRow, AnswerStep, ZenonT(30)
  <1> QED BY <1>2, <1>3, ZenonT(30) DEF Compensate

(* start_workspace from the evidence check to its answer, with evidence of *)
(* the current epoch and under the current binding.                        *)
LEMMA ConfirmStep ==
    ASSUME IInv, NEW r \in Requests, NEW a \in Agents, NEW w,
           Follows(row[a], w, stops[a], hostEpoch, binding),
           EvidenceCurrent(w, hostEpoch), BindingCurrent(w, binding),
           NEW rev, NEW state \in Live, Confirm(r, a, w, rev, state),
           UNCHANGED <<hostEpoch, binding, stops>>
    PROVE  RowsStep /\ ReqStep
  <1> DEFINE v == Moved(w, state, "authoritative", FALSE)
             moves == w.state \notin Live /\ w.rev = rev
             allowed == CanMove(w.state, state)
  <1>1. w \in Rows /\ RowOK(w, stops[a], hostEpoch, binding) /\ Advances(row[a], w)
        /\ row[a] \in Rows \cup {NoRow}
    BY DEF Follows, RowOK, IInv
  <1>2. allowed => Follows(row[a], v, stops[a], hostEpoch, binding)
    BY <1>1, ConfirmedRow, FollowsTwice, ZenonT(30)
  <1>3. stops' = [stops EXCEPT ![a] = stops[a]]
    BY DEF IInv
  <1>4. \E x : RowTo(a, x, stops[a])
    BY <1>2, <1>3, ZenonT(30) DEF Confirm, Put, RowTo
  <1>5. (moves /\ ~allowed) \in BOOLEAN /\ Ended(r, moves /\ ~allowed)
    BY ZenonT(20) DEF Confirm
  <1> QED BY <1>4, <1>5, OneRow, EndedStep, ZenonT(30)

(* complete_stop                                                           *)
LEMMA CompleteStopStep ==
    ASSUME IInv, NEW a \in Agents, row[a] # NoRow, NEW g,
           NEW result \in {"STOPPED", "TIMEOUT", "RECONCILIATION_REQUIRED"},
           CompleteStop(a, g, result), UNCHANGED <<hostEpoch, binding>>
    PROVE  RowsStep
  <1>1. CASE UNCHANGED <<row, stops>>
    BY <1>1, NoRowStep
  <1>2. CASE /\ row[a].gen = g /\ row[a].state = "STOPPING"
             /\ Put(a, StopEnded(row[a], result))
             /\ stops' = [stops EXCEPT ![a][g] = result]
    <2> DEFINE t == [stops[a] EXCEPT ![row[a].gen] = result]
    <2>1. Follows(row[a], StopEnded(row[a], result), t, hostEpoch, binding)
      BY <1>2, RowIs, EndedRow DEF StopResults
    <2>2. stops' = [stops EXCEPT ![a] = t]
      BY <1>2 DEF IInv
    <2>3. RowTo(a, StopEnded(row[a], result), t)
      BY <1>2, <2>1, <2>2, ZenonT(20) DEF RowTo, Put
    <2> QED BY <2>3, OneRow
  <1> QED BY <1>1, <1>2 DEF CompleteStop

-----------------------------------------------------------------------------
(* start_workspace to its Start RPC, from the row value w under binding b. *)
LEMMA AcquireStep ==
    ASSUME IInv, NEW r \in Requests, NEW a \in Agents, NEW w, NEW b,
           Follows(row[a], w, stops[a], hostEpoch, b), Acquire(r, a, w, b)
    PROVE  \E v : /\ Follows(row[a], v, stops[a], hostEpoch, b)
                  /\ row' = [row EXCEPT ![a] = v]
                  /\ ReqStep
  <1> DEFINE Send(v) == /\ Put(a, v)
                        /\ Await(r, [Idle EXCEPT !.pc = "start", !.agent = a, !.snap = v,
                                                 !.epoch = bound])
  <1>1. w \in Rows /\ RowOK(w, stops[a], hostEpoch, b) /\ Advances(row[a], w)
        /\ row[a] \in Rows \cup {NoRow}
    BY DEF Follows, RowOK, IInv
  <1>2. ASSUME NEW v, Follows(row[a], v, stops[a], hostEpoch, b), Send(v), Attested
        PROVE  row' = [row EXCEPT ![a] = v] /\ ReqStep
    <2> DEFINE l == [Idle EXCEPT !.pc = "start", !.agent = a, !.snap = v, !.epoch = bound]
    <2>1. row' = [row EXCEPT ![a] = v] /\ Await(r, l)
      BY <1>2 DEF Put
    <2>2. v \in Rows /\ v # NoRow /\ bound \in 0 .. MaxEpoch /\ bound # 0
      BY <1>2 DEF Follows, RowOK, IInv, EpochsOK, Attested
    <2>3. l \in Locals /\ l.pc = "start" /\ l.agent = a /\ l.epoch = bound
      <3>1. l = StartCall(a, v, bound)
        BY ZenonT(20) DEF StartCall
      <3> HIDE DEF l
      <3>2. CallOf(l, "start", a) /\ l.epoch = bound
        BY <2>2, <3>1, StartLocal
      <3> QED BY <3>2 DEF CallOf
    <2> HIDE DEF l
    <2>4. row'[a] = v
      BY <2>1, ZenonT(20) DEF IInv
    <2>5. LocalOK(l, row')
      BY <2>2, <2>3, <2>4 DEF LocalOK
    <2> QED BY <2>1, <2>3, <2>5, AwaitStep, ZenonT(30)
  <1>3. CASE Attested /\ Send(w)
    BY <1>2, <1>3, ZenonT(30)
  <1>4. CASE Attested /\ w.state \in Restartable /\ w.gen < MaxGen /\ Send(Restarted(w))
    <2>1. Follows(row[a], Restarted(w), stops[a], hostEpoch, b)
      BY <1>1, <1>4, RestartedRow, FollowsTwice
    <2> QED BY <1>2, <1>4, <2>1, ZenonT(30)
  <1>5. CASE Put(a, w) /\ Answer(r)
    BY <1>5, AnswerStep, ZenonT(40) DEF Put
  <1> HIDE DEF Send
  <1>6. \/ Attested /\ Send(w)
        \/ Attested /\ w.state \in Restartable /\ w.gen < MaxGen /\ Send(Restarted(w))
        \/ Put(a, w) /\ Answer(r)
    BY DEF Acquire, Send
  <1> QED BY <1>3, <1>4, <1>5, <1>6

(* _require_binding_reconciliation                                         *)
LEMMA ReconciliationStep ==
    ASSUME IInv, NEW d, RequireReconciliation(d), UNCHANGED hostEpoch
    PROVE  RowsStep /\ BindingOK(binding')
  <1>1. binding' \in Bindings /\ binding \in Bindings
        /\ (binding' = binding \/ (binding.digest = d /\ binding'.status = "RECONCILIATION_REQUIRED"))
    BY DEF RequireReconciliation, Reconciled, IInv, BindingOK, Bindings
  <1>2. BindingOK(binding')
    BY <1>1 DEF BindingOK, IInv
  <1>3. CASE binding.digest = d /\ d # NoDigest
    <2>1. row' = [a \in Agents |-> IF row[a] = NoRow THEN NoRow ELSE BindingFenced(row[a], d)]
          /\ binding' = Reconciled(binding, d)
      BY <1>3 DEF RequireReconciliation
    <2>2. ASSUME NEW a \in Agents
          PROVE  /\ RowOK(row'[a], stops[a], hostEpoch, binding') /\ Advances(row[a], row'[a])
                 /\ row'[a] \in Rows \cup {NoRow}
      <3>1. CASE row[a] = NoRow
        BY <2>1, <3>1, RowIs, ZenonT(20) DEF RowOK, Advances
      <3>2. CASE row[a] # NoRow
        <4>1. Follows(row[a], BindingFenced(row[a], d), stops[a], hostEpoch, binding')
          BY <1>1, <1>3, <2>1, <3>2, RowIs, BindingFencedRow
        <4>2. row'[a] = BindingFenced(row[a], d)
          BY <2>1, <3>2
        <4> QED BY <4>1, <4>2, ZenonT(20) DEF Follows, RowOK
      <3> QED BY <3>1, <3>2, ZenonT(20)
    <2>3. row' \in [Agents -> Rows \cup {NoRow}]
      BY <2>1, <2>2
    <2> QED BY <1>2, <2>2, <2>3 DEF RowsStep, RequireReconciliation, IInv
  <1>4. CASE ~(binding.digest = d /\ d # NoDigest)
    <2>1. UNCHANGED <<row, stops>>
      BY <1>4 DEF RequireReconciliation
    <2>2. binding.status = "CURRENT" /\ binding.digest \in Digests => binding' = binding
      BY <1>1, <1>4, ControlAssumption
    <2>3. \A a \in Agents : RowOK(row[a], stops[a], hostEpoch, binding')
      BY <2>2, RowIs, Rebound
    <2> QED BY <1>2, <2>1, <2>3 DEF RowsStep, IInv, Advances
  <1> QED BY <1>3, <1>4

(* classify_runtime_epoch                                                  *)
LEMMA ClassifyStep ==
    ASSUME IInv, Classify, binding' = binding \/ \E d \in Digests :
                              binding.digest \in {NoDigest, d} /\ binding' = Committed(d)
    PROVE  RowsStep
  <1> DEFINE restarted == hostEpoch # 0 /\ rtEpoch > hostEpoch
  <1>0. hostEpoch' = rtEpoch /\ rtEpoch # 0
    BY DEF Classify, IInv, EpochsOK
  <1>1. ASSUME NEW w, NEW st, NEW h, RowOK(w, st, h, binding) PROVE RowOK(w, st, h, binding')
    <2>1. binding.status = "CURRENT" /\ binding.digest \in Digests
             => binding'.status = "CURRENT" /\ binding'.digest = binding.digest
      BY ControlAssumption, SMTT(20) DEF Committed
    <2> QED BY <1>1, <2>1, Rebound
  <1>2. ASSUME NEW a \in Agents
        PROVE  /\ RowOK(row'[a], stops'[a], rtEpoch, binding) /\ Advances(row[a], row'[a])
               /\ row'[a] \in Rows \cup {NoRow} /\ stops'[a] \in Stops
    <2> DEFINE t == [g \in Generations |->
                       IF stops[a][g] = "PENDING" THEN "RECONCILIATION_REQUIRED" ELSE stops[a][g]]
    <2>1. stops'[a] = [g \in Generations |->
                         IF restarted /\ stops[a][g] = "PENDING" THEN "RECONCILIATION_REQUIRED"
                         ELSE stops[a][g]]
          /\ row'[a] = IF restarted /\ row[a] # NoRow THEN EpochFenced(row[a]) ELSE row[a]
      BY DEF Classify
    <2>2. RowOK(row[a], stops[a], hostEpoch, binding) /\ stops[a] \in Stops
          /\ row[a] \in Rows \cup {NoRow}
      BY DEF IInv
    <2>3. CASE ~restarted
      <3>1. stops'[a] = stops[a] /\ row'[a] = row[a]
        BY <2>1, <2>2, <2>3 DEF Stops
      <3>2. hostEpoch = 0 \/ hostEpoch = rtEpoch
        BY <2>3, SMTT(20) DEF IInv, EpochsOK
      <3>3. RowOK(row[a], stops[a], rtEpoch, binding)
        BY <1>0, <2>2, <3>2, ZenonT(20) DEF RowOK
      <3> QED BY <2>2, <3>1, <3>3 DEF Advances
    <2>4. CASE restarted /\ row[a] = NoRow
      <3>1. row'[a] = NoRow /\ stops'[a] = t
        BY <2>1, <2>4, ZenonT(20)
      <3>2. \A g \in Generations : t[g] = "none"
        BY <2>2, <2>4 DEF RowOK
      <3>3. t \in Stops
        BY <3>2, ZenonT(20) DEF Stops
      <3> HIDE DEF t
      <3> QED BY <2>4, <3>1, <3>2, <3>3 DEF RowOK, Advances
    <2>5. CASE restarted /\ row[a] # NoRow
      <3>1. row'[a] = EpochFenced(row[a]) /\ stops'[a] = t
        BY <2>1, <2>5, ZenonT(20)
      <3>2. Follows(row[a], EpochFenced(row[a]), t, rtEpoch, binding)
        BY <1>0, <2>2, <2>5, EpochFencedRow
      <3> HIDE DEF t
      <3>3. /\ RowOK(row'[a], stops'[a], rtEpoch, binding) /\ Advances(row[a], row'[a])
            /\ row'[a] # NoRow
        BY <3>1, <3>2 DEF Follows
      <3> QED BY <3>1, <3>3 DEF RowOK
    <2> QED BY <2>3, <2>4, <2>5
  <1>3. row' \in [Agents -> Rows \cup {NoRow}] /\ stops' \in [Agents -> Stops]
    BY <1>2 DEF Classify
  <1> QED BY <1>0, <1>1, <1>2, <1>3 DEF RowsStep

-----------------------------------------------------------------------------
(* One lemma per action.                                                   *)
LEMMA SameEpochs ==
    ASSUME IInv, UNCHANGED <<hostEpoch, rtEpoch>>, bound' \in {0, bound}
    PROVE  EpochsOK'
  BY ControlAssumption DEF IInv, EpochsOK

LEMMA RowStep ==
    ASSUME IInv, RowsStep, ReqStep, UNCHANGED <<binding, hostEpoch, rtEpoch>>,
           bound' \in {0, bound}
    PROVE  IInv'
  BY SameEpochs, StepInv, ZenonT(20) DEF IInv

(* One row changes, and the binding may become CURRENT.                    *)
LEMMA ReboundStep ==
    ASSUME IInv, NEW a \in Agents, NEW v, NEW b \in Bindings,
           Follows(row[a], v, stops[a], hostEpoch, b),
           binding.status = "CURRENT" /\ binding.digest \in Digests
              => b.status = "CURRENT" /\ b.digest = binding.digest,
           row' = [row EXCEPT ![a] = v], binding' = b, UNCHANGED <<stops, hostEpoch>>
    PROVE  RowsStep
  <1>1. v \in Rows /\ RowOK(v, stops[a], hostEpoch, b) /\ Advances(row[a], v)
    BY DEF Follows, RowOK
  <1>2. row' \in [Agents -> Rows \cup {NoRow}] /\ stops' \in [Agents -> Stops] /\ row'[a] = v
    BY <1>1, ZenonT(20) DEF IInv
  <1>3. ASSUME NEW c \in Agents
        PROVE  RowOK(row'[c], stops[c], hostEpoch, b) /\ Advances(row[c], row'[c])
    <2>1. CASE c = a
      BY <1>1, <1>2, <2>1, ZenonT(20)
    <2>2. CASE c # a
      <3>1. row'[c] = row[c]
        BY <2>2, ZenonT(20) DEF IInv
      <3>2. RowOK(row[c], stops[c], hostEpoch, b)
        BY RowIs, Rebound
      <3> QED BY <3>1, <3>2, ZenonT(20) DEF Advances
    <2> QED BY <2>1, <2>2, ZenonT(20)
  <1> QED BY <1>2, <1>3, ZenonT(20) DEF RowsStep

LEMMA StatusRequestInv ==
    ASSUME IInv, NEW r \in Requests, NEW a \in Agents, StatusRequest(r, a)
    PROVE  IInv'
  <1> DEFINE l == [Idle EXCEPT !.pc = "status", !.agent = a]
  <1>1. CallOf(l, "status", a)
    BY StatusLocal, ZenonT(30) DEF Calls
  <1>2. Await(r, l) /\ UNCHANGED <<row, stops, hostEpoch, binding, rtEpoch, bound>>
    BY DEF StatusRequest, store
  <1> HIDE DEF l
  <1>3. LocalOK(l, row')
    BY <1>1 DEF LocalOK, CallOf
  <1>4. ReqStep
    BY <1>1, <1>2, <1>3, AwaitStep, ZenonT(20) DEF CallOf
  <1> QED BY <1>2, <1>4, NoRowStep, RowStep

LEMMA StopRequestInv ==
    ASSUME IInv, NEW r \in Requests, NEW a \in Agents, StopRequest(r, a)
    PROVE  IInv'
  <1>1. /\ BeginStop(r, a, row[a], "stop") /\ row[a] # NoRow
        /\ UNCHANGED <<binding, hostEpoch, rtEpoch, bound>>
    BY ZenonT(20) DEF StopRequest
  <1>2. Follows(row[a], row[a], stops[a], hostEpoch, binding)
    BY <1>1, RowIs
  <1> QED BY <1>1, <1>2, BeginStopStep, RowStep

LEMMA StartRequestInv ==
    ASSUME IInv, NEW r \in Requests, NEW a \in Agents, StartRequest(r, a)
    PROVE  IInv'
  <1>0. UNCHANGED <<hostEpoch, rtEpoch, bound>>
    BY DEF StartRequest
  <1>1. CASE row[a] # NoRow /\ Acquire(r, a, row[a], binding) /\ UNCHANGED <<binding, stops>>
    <2>1. Follows(row[a], row[a], stops[a], hostEpoch, binding)
      BY <1>1, RowIs
    <2>2. PICK v : /\ Follows(row[a], v, stops[a], hostEpoch, binding)
                   /\ row' = [row EXCEPT ![a] = v]
                   /\ ReqStep
      BY <1>1, <2>1, AcquireStep
    <2>3. RowsStep
      BY <1>0, <1>1, <2>2, ReboundStep, ZenonT(30) DEF IInv, BindingOK
    <2> QED BY <1>0, <1>1, <2>2, <2>3, RowStep, ZenonT(20)
  <1>2. CASE Answer(r) /\ UNCHANGED <<row, binding, stops>>
    BY <1>0, <1>2, AnswerStep, NoRowStep, RowStep
  <1>3. CASE RequireReconciliation(binding.digest) /\ Answer(r)
    BY <1>0, <1>3, AnswerStep, ReconciliationStep, SameEpochs, StepInv
  <1>4. CASE /\ binding' = Reserved(binding)
             /\ Await(r, [Idle EXCEPT !.pc = "register", !.agent = a, !.digest = binding.digest])
             /\ UNCHANGED <<row, stops>>
    <2> DEFINE l == [Idle EXCEPT !.pc = "register", !.agent = a, !.digest = binding.digest]
    <2>1. BindingOK(binding') /\ (binding.status = "CURRENT" => binding' = binding)
      BY <1>4 DEF Reserved, IInv, BindingOK, Bindings
    <2>2. CallOf(l, "register", a)
      <3>1. binding.digest \in Digests \cup {NoDigest} /\ "register" \in Calls
        BY DEF IInv, BindingOK, Bindings, Calls
      <3> QED BY <3>1, RegisterLocal, ZenonT(30)
    <2>3. Await(r, l)
      BY <1>4
    <2> HIDE DEF l
    <2>4. LocalOK(l, row')
      BY <2>2 DEF LocalOK, CallOf
    <2>5. ReqStep
      BY <2>2, <2>3, <2>4, AwaitStep, ZenonT(20) DEF CallOf
    <2>6. ASSUME NEW c \in Agents PROVE RowOK(row[c], stops[c], hostEpoch, binding')
      BY <2>1, RowIs, Rebound
    <2>7. RowsStep
      BY <1>0, <1>4, <2>6 DEF RowsStep, IInv, Advances
    <2> QED BY <1>0, <2>1, <2>5, <2>7, SameEpochs, StepInv
  <1> QED BY <1>1, <1>2, <1>3, <1>4, ZenonT(20) DEF StartRequest, FirstUse

LEMMA BindAndSendInv ==
    ASSUME IInv, NEW r \in Requests, BindAndSend(r)
    PROVE  IInv'
  <1>0. ReqStep /\ UNCHANGED <<binding, rtEpoch>> /\ bound' = rtEpoch
    BY ZenonT(20) DEF BindAndSend, ReqStep
  <1>1. CASE Attested /\ UNCHANGED <<row, stops, hostEpoch>>
    <2>1. EpochsOK'
      BY <1>0, <1>1, ZenonT(20) DEF IInv, EpochsOK, Attested
    <2> QED BY <1>0, <1>1, <2>1, NoRowStep, StepInv DEF IInv
  <1>2. CASE Classify
    <2>1. EpochsOK'
      BY <1>0, <1>2, SMTT(20) DEF IInv, EpochsOK, Classify
    <2> QED BY <1>0, <1>2, <2>1, ClassifyStep, StepInv DEF IInv
  <1> QED BY <1>1, <1>2 DEF BindAndSend

LEMMA RepliedIs ==
    ASSUME IInv, NEW r \in Requests, NEW pc \in Calls \cup {"evidence"},
           Replied(r, pc) \/ Failed(r, pc)
    PROVE  /\ UNCHANGED <<hostEpoch, rtEpoch>> /\ bound' \in {0, bound}
           /\ req[r] \in Locals /\ req[r].pc = pc /\ LocalOK(req[r], row)
           /\ req[r].agent \in Agents
  BY DEF Replied, Failed, IInv, LocalOK, Calls

(* The binding and the row that a registration accepted by                 *)
(* _ensure_current_project_binding goes on with.                           *)
LEMMA RegisterBinds ==
    ASSUME IInv, NEW a \in Agents, NEW digest \in Digests, NEW held,
           IF held = NoDigest THEN Committable(binding, digest) ELSE digest = held
    PROVE  LET b == IF held = NoDigest THEN Committed(digest) ELSE binding
               w == IF row[a] = NoRow THEN NewRow(b.digest) ELSE row[a]
           IN b.status = "CURRENT" =>
                 /\ b \in Bindings /\ BindingOK(b)
                 /\ binding.status = "CURRENT" /\ binding.digest \in Digests
                       => b.status = "CURRENT" /\ b.digest = binding.digest
                 /\ Follows(row[a], w, stops[a], hostEpoch, b)
  <1> DEFINE b == IF held = NoDigest THEN Committed(digest) ELSE binding
             w == IF row[a] = NoRow THEN NewRow(b.digest) ELSE row[a]
  <1> SUFFICES ASSUME b.status = "CURRENT"
               PROVE  /\ b \in Bindings /\ BindingOK(b)
                      /\ binding.status = "CURRENT" /\ binding.digest \in Digests
                            => b.status = "CURRENT" /\ b.digest = binding.digest
                      /\ Follows(row[a], w, stops[a], hostEpoch, b)
    BY ZenonT(30)
  <1>1. /\ b \in Bindings /\ BindingOK(b) /\ b.digest \in Digests
        /\ binding.status = "CURRENT" /\ binding.digest \in Digests
              => b.status = "CURRENT" /\ b.digest = binding.digest
    BY ControlAssumption, ZenonT(30) DEF IInv, BindingOK, Bindings, Committable, Committed
  <1> HIDE DEF b
  <1>2. RowOK(row[a], stops[a], hostEpoch, b)
    BY <1>1, RowIs, Rebound, ZenonT(40)
  <1>3. Follows(row[a], w, stops[a], hostEpoch, b)
    BY <1>1, <1>2, RowIs, SameRow, FirstRow, ZenonT(20)
  <1> QED BY <1>1, <1>3

LEMMA RegisterRepliedInv ==
    ASSUME IInv, NEW r \in Requests, NEW digest \in Digests, RegisterReplied(r, digest)
    PROVE  IInv'
  <1> DEFINE a == req[r].agent
             held == req[r].digest
             b == IF held = NoDigest THEN Committed(digest) ELSE binding
             w == IF row[a] = NoRow THEN NewRow(b.digest) ELSE row[a]
  <1>0. UNCHANGED <<hostEpoch, rtEpoch>> /\ bound' \in {0, bound} /\ a \in Agents
    BY RepliedIs, ZenonT(30) DEF RegisterReplied, Calls
  <1>1. CASE RequireReconciliation(held) /\ Answer(r)
    BY <1>0, <1>1, AnswerStep, ReconciliationStep, SameEpochs, StepInv, ZenonT(20)
  <1>2. CASE /\ IF held = NoDigest THEN Committable(binding, digest) ELSE digest = held
             /\ b.status = "CURRENT" /\ binding' = b
             /\ Acquire(r, a, w, b)
             /\ UNCHANGED stops
    <2>1. /\ b \in Bindings /\ BindingOK(b)
          /\ binding.status = "CURRENT" /\ binding.digest \in Digests
                => b.status = "CURRENT" /\ b.digest = binding.digest
      BY <1>0, <1>2, RegisterBinds, ZenonT(30)
    <2>2. Follows(row[a], w, stops[a], hostEpoch, b)
      BY <1>0, <1>2, RegisterBinds, ZenonT(60)
    <2> HIDE DEF b, w
    <2>0. Acquire(r, a, w, b) /\ a \in Agents
      BY <1>0, <1>2, ZenonT(30)
    <2>3. PICK v : /\ Follows(row[a], v, stops[a], hostEpoch, b)
                   /\ row' = [row EXCEPT ![a] = v]
                   /\ ReqStep
      <3> HIDE DEF a
      <3> QED BY <2>0, <2>2, AcquireStep
    <2>4. RowsStep
      BY <1>0, <1>2, <2>1, <2>3, ReboundStep, ZenonT(30)
    <2> QED BY <1>0, <1>2, <2>1, <2>3, <2>4, SameEpochs, StepInv, ZenonT(30)
  <1> QED BY <1>1, <1>2, ZenonT(30) DEF RegisterReplied

LEMMA RegisterFailedInv ==
    ASSUME IInv, NEW r \in Requests, RegisterFailed(r)
    PROVE  IInv'
  <1>1. UNCHANGED <<hostEpoch, rtEpoch>> /\ bound' \in {0, bound}
    BY RepliedIs DEF RegisterFailed, Calls
  <1> QED BY <1>1, AnswerStep, ReconciliationStep, SameEpochs, StepInv, ZenonT(20)
             DEF RegisterFailed

LEMMA StartRepliedInv ==
    ASSUME IInv, NEW r \in Requests, NEW state \in Live, StartReplied(r, state)
    PROVE  IInv'
  <1> DEFINE a == req[r].agent
             w == row[a]
             l == [req[r] EXCEPT !.pc = "evidence", !.snap = w, !.state = state]
             started == w.state \in Live \cup {"STARTING"}
  <1>0. /\ UNCHANGED <<hostEpoch, rtEpoch, binding>> /\ bound' \in {0, bound}
        /\ req[r] \in Locals /\ req[r].epoch # 0 /\ a \in Agents /\ w # NoRow /\ w \in Rows
        /\ Follows(w, w, stops[a], hostEpoch, binding)
    <2>1. Replied(r, "start") /\ UNCHANGED binding
      BY DEF StartReplied
    <2>2. /\ UNCHANGED <<hostEpoch, rtEpoch>> /\ bound' \in {0, bound}
          /\ req[r] \in Locals /\ req[r].pc = "start" /\ LocalOK(req[r], row) /\ a \in Agents
      BY <2>1, RepliedIs, ZenonT(40) DEF Calls
    <2> QED BY <2>1, <2>2, RowIs, ZenonT(30) DEF LocalOK
  <1>1. CASE Compensate(r, a, req[r].snap)
    BY <1>0, <1>1, CompensateStep, RowStep, ZenonT(20)
  <1>2. CASE Answer(r) /\ UNCHANGED <<row, stops>>
    BY <1>0, <1>2, AnswerStep, NoRowStep, RowStep, ZenonT(30)
  <1>3. CASE /\ BindingCurrent(w, binding) /\ started /\ EvidenceCurrent(w, req[r].epoch)
             /\ Confirm(r, a, w, req[r].snap.rev, state) /\ UNCHANGED stops
    <2>1. EvidenceCurrent(w, hostEpoch)
      BY <1>0, <1>3, ZenonT(30) DEF EvidenceCurrent, Follows, RowOK, Live
    <2> QED BY <1>0, <1>3, <2>1, ConfirmStep, RowStep, ZenonT(30)
  <1>4. CASE started /\ Put(a, Unknown(w, FALSE)) /\ Answer(r) /\ UNCHANGED stops
    <2>1. w.state \notin {"STOPPED", "STOPPING"}
      BY <1>4 DEF Live
    <2>2. Follows(w, Unknown(w, FALSE), stops[a], hostEpoch, binding)
      BY <1>0, <2>1, UnknownRow, ZenonT(40) DEF Follows
    <2>3. RowsStep
      BY <1>0, <1>4, <2>2, ReboundStep, ZenonT(30) DEF Put, IInv, BindingOK
    <2> QED BY <1>0, <1>4, <2>3, AnswerStep, RowStep, ZenonT(40)
  <1>5. CASE started /\ Await(r, l) /\ UNCHANGED <<row, stops>>
    <2>1. /\ l \in Locals /\ l.pc = "evidence" /\ l.agent = a /\ l.epoch = req[r].epoch
          /\ l.snap = w /\ l.state = state
      BY <1>0, ZenonT(30) DEF Locals
    <2> HIDE DEF l
    <2>2. w.rev \in Nat
      BY <1>0, ZenonT(30) DEF Rows
    <2>3. LocalOK(l, row')
      <3>1. row'[l.agent] = w /\ l.snap = w /\ w # NoRow
        BY <1>0, <1>5, <2>1, ZenonT(30)
      <3>2. w.rev <= w.rev
        BY <2>2
      <3>3. l.snap.rev <= row'[l.agent].rev
        BY <3>1, <3>2, ZenonT(30)
      <3>4. /\ l.agent \in Agents /\ l.epoch # 0 /\ l.state \in Live
            /\ row'[l.agent].state \in Live \cup {"STARTING"}
        BY <1>0, <1>5, <2>1, <3>1, ZenonT(30)
      <3> QED BY <3>1, <3>3, <3>4, ZenonT(30) DEF LocalOK
    <2> QED BY <1>0, <1>5, <2>1, <2>3, AwaitStep, NoRowStep, RowStep, ZenonT(30)
  <1> QED BY <1>1, <1>2, <1>3, <1>4, <1>5, ZenonT(30) DEF StartReplied

LEMMA StartFailedInv ==
    ASSUME IInv, NEW r \in Requests, StartFailed(r)
    PROVE  IInv'
  <1> DEFINE a == req[r].agent
             v == FencedStart(row[a], req[r].snap, FALSE)
  <1>1. Failed(r, "start") /\ Put(a, v) /\ Answer(r) /\ UNCHANGED <<binding, stops>>
    BY ZenonT(30) DEF StartFailed
  <1>2. /\ UNCHANGED <<hostEpoch, rtEpoch>> /\ bound' \in {0, bound}
        /\ a \in Agents /\ row[a] # NoRow
    <2>1. req[r].pc = "start" /\ LocalOK(req[r], row) /\ a \in Agents
          /\ UNCHANGED <<hostEpoch, rtEpoch>> /\ bound' \in {0, bound}
      BY <1>1, RepliedIs, ZenonT(20) DEF Calls
    <2> QED BY <2>1 DEF LocalOK
  <1>3. Follows(row[a], v, stops[a], hostEpoch, binding)
    BY <1>2, RowIs, FencedStartRow, ZenonT(30)
  <1> HIDE DEF v
  <1>4. RowsStep
    BY <1>1, <1>2, <1>3, ReboundStep, ZenonT(40) DEF Put, IInv, BindingOK
  <1> QED BY <1>1, <1>2, <1>4, AnswerStep, RowStep, ZenonT(30)

LEMMA EvidenceIs ==
    ASSUME IInv, NEW r \in Requests, Replied(r, "evidence") \/ Failed(r, "evidence")
    PROVE  /\ UNCHANGED <<hostEpoch, rtEpoch>> /\ bound' \in {0, bound}
           /\ req[r].epoch # 0 /\ req[r].state \in Live
           /\ req[r].agent \in Agents /\ row[req[r].agent] # NoRow
           /\ req[r].snap.rev = row[req[r].agent].rev
                 => row[req[r].agent].state \in Live \cup {"STARTING"}
  <1>1. /\ UNCHANGED <<hostEpoch, rtEpoch>> /\ bound' \in {0, bound}
        /\ req[r].pc = "evidence" /\ LocalOK(req[r], row) /\ req[r].agent \in Agents
    BY RepliedIs, ZenonT(20)
  <1> QED BY <1>1, ZenonT(20) DEF LocalOK

(* EXECUTABLE_EVIDENCE_UNAVAILABLE after the await.                        *)
LEMMA EvidenceRefusedInv ==
    ASSUME IInv, NEW r \in Requests, Replied(r, "evidence") \/ Failed(r, "evidence"),
           EvidenceRefused(r), UNCHANGED <<binding, stops>>
    PROVE  IInv'
  <1> DEFINE a == req[r].agent
             w == row[a]
             v == IF w.rev = req[r].snap.rev THEN Unknown(w, FALSE) ELSE w
  <1>1. /\ UNCHANGED <<hostEpoch, rtEpoch>> /\ bound' \in {0, bound} /\ a \in Agents /\ w # NoRow
        /\ (req[r].snap.rev = w.rev => w.state \in Live \cup {"STARTING"})
    BY EvidenceIs
  <1>2. Put(a, v) /\ Answer(r)
    BY ZenonT(30) DEF EvidenceRefused
  <1>3. Follows(w, v, stops[a], hostEpoch, binding)
    <2>1. w \in Rows /\ Follows(w, w, stops[a], hostEpoch, binding)
      BY <1>1, RowIs, ZenonT(20)
    <2>2. CASE w.rev = req[r].snap.rev
      <3>1. w.state \notin {"STOPPED", "STOPPING"}
        BY <1>1, <2>2 DEF Live
      <3> QED BY <2>1, <2>2, <3>1, UnknownRow, ZenonT(40) DEF Follows
    <2> QED BY <2>1, <2>2, ZenonT(30)
  <1> HIDE DEF v
  <1>4. RowsStep
    BY <1>1, <1>2, <1>3, ReboundStep, ZenonT(30) DEF Put, IInv, BindingOK
  <1> QED BY <1>1, <1>2, <1>4, AnswerStep, RowStep, ZenonT(20)

LEMMA EvidenceFailedInv ==
    ASSUME IInv, NEW r \in Requests, EvidenceFailed(r)
    PROVE  IInv'
  BY EvidenceRefusedInv DEF EvidenceFailed

LEMMA EvidenceRepliedInv ==
    ASSUME IInv, NEW r \in Requests, EvidenceReplied(r)
    PROVE  IInv'
  <1> DEFINE a == req[r].agent
             w == row[a]
             e == req[r].epoch
             v == IF w.evidence = "VERIFIED" THEN w ELSE Evidenced(w, e)
             other == w.evidence = "VERIFIED" /\ ~EvidenceCurrent(w, e)
  <1>0. Replied(r, "evidence") /\ bound = e /\ UNCHANGED binding
    BY ZenonT(40) DEF EvidenceReplied
  <1>1. /\ UNCHANGED <<hostEpoch, rtEpoch>> /\ bound' \in {0, bound} /\ a \in Agents /\ w # NoRow
        /\ e # 0 /\ req[r].state \in Live
    BY <1>0, EvidenceIs
  <1>2. e = hostEpoch /\ hostEpoch \in 1 .. MaxEpoch
    BY <1>0, <1>1, SMTT(20) DEF IInv, EpochsOK
  <1>3. w \in Rows /\ RowOK(w, stops[a], hostEpoch, binding)
        /\ Follows(w, w, stops[a], hostEpoch, binding)
    BY <1>1, RowIs, ZenonT(20)
  <1>4. CASE Compensate(r, a, req[r].snap)
    BY <1>0, <1>1, <1>4, CompensateStep, RowStep
  <1>5. CASE EvidenceRefused(r) /\ UNCHANGED stops
    BY <1>0, <1>5, EvidenceRefusedInv
  <1>6. CASE /\ BindingCurrent(w, binding) /\ ~other
             /\ Confirm(r, a, v, v.rev, req[r].state) /\ UNCHANGED stops
    <2>1. /\ Follows(w, v, stops[a], hostEpoch, binding)
          /\ EvidenceCurrent(v, hostEpoch) /\ v.digest = w.digest
      <3>1. CASE w.evidence = "VERIFIED"
        BY <1>2, <1>3, <1>6, <3>1, ZenonT(30)
      <3>2. CASE w.evidence # "VERIFIED"
        BY <1>2, <1>3, <3>2, EvidencedRow, ZenonT(30)
      <3> QED BY <3>1, <3>2, ZenonT(30)
    <2>2. BindingCurrent(v, binding)
      BY <1>6, <2>1, ZenonT(30) DEF BindingCurrent
    <2>3. Confirm(r, a, v, v.rev, req[r].state)
      BY <1>6, ZenonT(30)
    <2> HIDE DEF v
    <2>4. RowsStep /\ ReqStep
      BY <1>0, <1>1, <1>6, <2>1, <2>2, <2>3, ConfirmStep, ZenonT(30)
    <2> QED BY <1>0, <1>1, <2>4, RowStep
  <1> QED BY <1>4, <1>5, <1>6, ZenonT(30) DEF EvidenceReplied

(* complete_stop of a Stop or of a compensation.                           *)
LEMMA StopEndedInv ==
    ASSUME IInv, NEW r \in Requests, NEW pc \in {"stop", "compensate"},
           Replied(r, pc) \/ Failed(r, pc),
           NEW result \in {"STOPPED", "TIMEOUT", "RECONCILIATION_REQUIRED"},
           CompleteStop(req[r].agent, req[r].snap.gen, result), Answer(r), UNCHANGED binding
    PROVE  IInv'
  <1>1. /\ UNCHANGED <<hostEpoch, rtEpoch>> /\ bound' \in {0, bound}
        /\ req[r].pc = pc /\ LocalOK(req[r], row) /\ req[r].agent \in Agents
    BY RepliedIs, ZenonT(40) DEF Calls
  <1>2. row[req[r].agent] # NoRow
    BY <1>1 DEF LocalOK
  <1> QED BY <1>1, <1>2, CompleteStopStep, AnswerStep, RowStep, ZenonT(30)

LEMMA StatusEndedInv ==
    ASSUME IInv, NEW r \in Requests, StatusEnded(r)
    PROVE  IInv'
  <1>1. UNCHANGED <<hostEpoch, rtEpoch, row, stops, binding>> /\ bound' \in {0, bound}
    BY RepliedIs DEF StatusEnded, Calls
  <1> QED BY <1>1, AnswerStep, NoRowStep, RowStep DEF StatusEnded

LEMMA RpcInv ==
    ASSUME IInv, NEW r \in Requests, Rpc(r)
    PROVE  IInv'
  <1>1. CASE \E result \in {"STOPPED", "TIMEOUT"} :
                StopReplied(r, result) \/ CompensateReplied(r, result)
    BY <1>1, StopEndedInv DEF StopReplied, CompensateReplied
  <1>2. CASE StopFailed(r) \/ CompensateFailed(r)
    BY <1>2, StopEndedInv DEF StopFailed, CompensateFailed
  <1> QED BY <1>1, <1>2, BindAndSendInv, RegisterRepliedInv, RegisterFailedInv, StartRepliedInv,
             StartFailedInv, EvidenceRepliedInv, EvidenceFailedInv, StatusEndedInv DEF Rpc

LEMMA BootInv ==
    ASSUME IInv, Boot
    PROVE  IInv'
  <1>1. CASE BootBind
    <2>1. EpochsOK' /\ ReqStep /\ Classify /\ binding' = binding
      BY <1>1, ControlAssumption DEF BootBind, IInv, EpochsOK, ReqStep, Classify
    <2> QED BY <2>1, ClassifyStep, StepInv, ZenonT(20) DEF IInv
  <1>2. ASSUME NEW d \in Digests, BootRegister(d) PROVE IInv'
    <2>1. EpochsOK' /\ ReqStep /\ Classify /\ binding' = Committed(d)
          /\ binding.digest \in {NoDigest, d}
      BY <1>2 DEF BootRegister, IInv, EpochsOK, ReqStep, Classify
    <2>2. BindingOK(binding')
      BY <2>1, ControlAssumption DEF BindingOK, Bindings, Committed
    <2>3. RowsStep
      BY <2>1, ClassifyStep
    <2> QED BY <2>1, <2>2, <2>3, StepInv
  <1>3. CASE BootFinalize
    <2>1. UNCHANGED <<row, stops, binding, hostEpoch, rtEpoch, bound, req>>
      BY <1>3 DEF BootFinalize, store
    <2> QED BY <2>1, NoRowStep, RowStep DEF ReqStep
  <1>4. CASE BootFails
    <2>1. UNCHANGED <<row, stops, hostEpoch, rtEpoch, req>> /\ bound' = 0
          /\ (binding' = Reconciled(binding, NoDigest) \/ binding' = binding)
      BY <1>4 DEF BootFails
    <2>2. BindingOK(binding')
          /\ (binding.status = "CURRENT" /\ binding.digest \in Digests => binding' = binding)
      BY <2>1, ControlAssumption, ZenonT(20) DEF IInv, BindingOK, Bindings, Reconciled
    <2>3. ASSUME NEW a \in Agents PROVE RowOK(row[a], stops[a], hostEpoch, binding')
      BY <2>2, RowIs, Rebound
    <2>4. RowsStep
      BY <2>1, <2>3 DEF RowsStep, IInv, Advances
    <2> QED BY <2>1, <2>2, <2>4, SameEpochs, StepInv DEF ReqStep
  <1> QED BY <1>1, <1>2, <1>3, <1>4, ZenonT(20) DEF Boot

LEMMA ApiCrashInv ==
    ASSUME IInv, ApiCrash
    PROVE  IInv'
  <1>1. UNCHANGED <<row, stops, binding, hostEpoch, rtEpoch>> /\ bound' = 0
        /\ req' = [r \in Requests |-> Idle]
    BY DEF ApiCrash, store
  <1>2. Idle \in Locals /\ LocalOK(Idle, row')
    BY IdleLocal, ZenonT(30) DEF Idle, LocalOK
  <1>3. req' \in [Requests -> Locals] /\ \A r \in Requests : LocalOK(req'[r], row')
    BY <1>1, <1>2, ZenonT(20)
  <1> QED BY <1>1, <1>3, SameEpochs DEF IInv

LEMMA RuntimeRestartInv ==
    ASSUME IInv, RuntimeRestart
    PROVE  IInv'
  <1>1. UNCHANGED <<row, stops, binding, hostEpoch, bound, req>>
    BY DEF RuntimeRestart, store
  <1>2. EpochsOK'
    BY <1>1, ControlAssumption DEF RuntimeRestart, IInv, EpochsOK
  <1> QED BY <1>1, <1>2, NoRowStep, StepInv DEF ReqStep, IInv

LEMMA InitInv == Init => IInv
  <1> SUFFICES ASSUME Init PROVE IInv
    OBVIOUS
  <1>1. stops \in [Agents -> Stops] /\ \A a \in Agents, g \in Generations : stops[a][g] = "none"
    BY DEF Init, Stops
  <1>2. row \in [Agents -> Rows \cup {NoRow}] /\ \A a \in Agents : row[a] = NoRow
    BY DEF Init
  <1>3. req \in [Requests -> Locals] /\ \A r \in Requests : req[r] = Idle
    BY IdleLocal, ZenonT(20) DEF Init
  <1>4. LocalOK(Idle, row)
    BY DEF Idle, LocalOK
  <1>5. BindingOK(binding)
    BY DEF Init, BindingOK, Bindings, NoBinding
  <1>6. EpochsOK
    BY ControlAssumption DEF Init, EpochsOK
  <1>7. \A a \in Agents : RowOK(row[a], stops[a], hostEpoch, binding)
    BY <1>1, <1>2 DEF RowOK
  <1> QED BY <1>1, <1>2, <1>3, <1>4, <1>5, <1>6, <1>7 DEF IInv

LEMMA NextInv == IInv /\ [Next]_vars => IInv'
  <1> SUFFICES ASSUME IInv, [Next]_vars PROVE IInv'
    OBVIOUS
  <1>1. CASE UNCHANGED vars
    <2>1. UNCHANGED <<row, stops, binding, hostEpoch, rtEpoch, bound, req>>
      BY <1>1 DEF vars, store
    <2> QED BY <2>1, NoRowStep, RowStep DEF ReqStep
  <1> QED BY <1>1, RpcInv, StartRequestInv, StopRequestInv, StatusRequestInv, BootInv,
             ApiCrashInv,
             RuntimeRestartInv DEF Next

(* The two invariants from the inductive one.                              *)
LEMMA RowsAreSound == IInv => PendingStopOwnsRow /\ LiveIsProven
  <1> SUFFICES ASSUME IInv PROVE PendingStopOwnsRow /\ LiveIsProven
    BY ZenonT(30)
  <1>1. PendingStopOwnsRow
    <2> SUFFICES ASSUME NEW a \in Agents, NEW g \in Generations
                 PROVE  stops[a][g] = "PENDING" <=>
                          row[a] # NoRow /\ row[a].gen = g /\ row[a].state = "STOPPING"
                          /\ row[a].recon = "stopping"
      BY DEF PendingStopOwnsRow
    <2>1. RowOK(row[a], stops[a], hostEpoch, binding)
      BY ZenonT(20) DEF IInv
    <2> QED BY <2>1 DEF RowOK
  <1>2. LiveIsProven
    <2> SUFFICES ASSUME NEW a \in Agents, row[a] # NoRow, row[a].state \in Live
                 PROVE  /\ EvidenceCurrent(row[a], hostEpoch)
                        /\ row[a].recon = "authoritative"
                        /\ BindingCurrent(row[a], binding)
      BY DEF LiveIsProven
    <2>1. RowOK(row[a], stops[a], hostEpoch, binding)
      BY DEF IInv
    <2> QED BY <2>1, ZenonT(20) DEF RowOK, EvidenceCurrent, Live
  <1> QED BY <1>1, <1>2

-----------------------------------------------------------------------------
(* That a stop is final rests on the order of the coordinator's lock, which *)
(* is first come, first served.                                             *)
Starts(q, a, g) == q.pc = "start" /\ q.agent = a /\ q.snap.gen = g
Halts(q, a, g) == q.pc \in {"stop", "compensate"} /\ q.agent = a /\ q.snap.gen = g

(* Of the requests at the lock, in the order Q, with local states R and the *)
(* stop records S: a request waits exactly while it is at an RPC, once; a   *)
(* Start is ahead of every Stop of its generation; a Stop at its RPC has a  *)
(* record; and a Start at its RPC is of no generation known to be stopped.  *)
QueueOK(Q, R, S) ==
    /\ Q \in Seq(Requests)
    /\ \A i, j \in 1 .. Len(Q) : Q[i] = Q[j] => i = j
    /\ \A i \in 1 .. Len(Q) : R[Q[i]].pc # "idle"
    /\ \A r \in Requests : R[r].pc # "idle" => \E i \in 1 .. Len(Q) : Q[i] = r
    /\ \A a \in Agents, g \in Generations :
          /\ \A i, j \in 1 .. Len(Q) : Halts(R[Q[i]], a, g) /\ Starts(R[Q[j]], a, g) => j < i
          /\ \A r \in Requests : Halts(R[r], a, g) => S[a][g] # "none"
          /\ \A r \in Requests : Starts(R[r], a, g) => S[a][g] # "STOPPED"

FInv == IInv /\ QueueOK(queue, req, stops)

(* What a call with the local state l may be: a Start of a generation that  *)
(* has no stop record, or a Stop that has one.                              *)
CallOK(l, S) ==
    \A a \in Agents, g \in Generations : /\ Starts(l, a, g) => S[a][g] = "none"
                                         /\ Halts(l, a, g) => S[a][g] # "none"

(* Stop records stay, and only the Stop of request q makes one STOPPED.     *)
StopsStep(q, S, T) ==
    \A a \in Agents, g \in Generations : /\ S[a][g] # "none" => T[a][g] # "none"
                                         /\ T[a][g] = "STOPPED" => S[a][g] = "STOPPED" \/ Halts(q, a, g)

(* The handler of r runs from one await to the next.                        *)
Turn(r) == req[r].pc = "idle" \/ (queue # <<>> /\ r = Head(queue))

ReqTo(r, l) ==
    /\ req' = [req EXCEPT ![r] = l]
    /\ \/ l.pc = "idle" /\ queue' = Others(r)
       \/ l.pc # "idle" /\ queue' = Append(Others(r), r)

HandlerStep(r) ==
    /\ StopsStep(req[r], stops, stops')
    /\ \E l \in Locals : ReqTo(r, l) /\ CallOK(l, stops')

(* The lock without r: every other request at an RPC, in the same order,    *)
(* and no Start of a generation that r stops.                               *)
OthersAre(T, r) ==
    /\ T \in Seq(Requests)
    /\ \A i, j \in 1 .. Len(T) : T[i] = T[j] => i = j
    /\ \A i \in 1 .. Len(T) : T[i] # r /\ req[T[i]].pc # "idle"
    /\ \A x \in Requests \ {r} : req[x].pc # "idle" => \E i \in 1 .. Len(T) : T[i] = x
    /\ \A a \in Agents, g \in Generations, i, j \in 1 .. Len(T) :
          Halts(req[T[i]], a, g) /\ Starts(req[T[j]], a, g) => j < i
    /\ \A a \in Agents, g \in Generations, x \in Requests :
          Halts(req[r], a, g) => ~Starts(req[x], a, g)

LEMMA OthersOK ==
    ASSUME FInv, NEW r \in Requests, Turn(r)
    PROVE  OthersAre(Others(r), r)
  <1> DEFINE Q == queue
  <1>0. QueueOK(Q, req, stops)
    BY DEF FInv
  <1>1. /\ Q \in Seq(Requests) /\ Len(Q) \in Nat
        /\ \A i, j \in 1 .. Len(Q) : Q[i] = Q[j] => i = j
        /\ \A i \in 1 .. Len(Q) : req[Q[i]].pc # "idle"
        /\ \A x \in Requests : req[x].pc # "idle" => \E i \in 1 .. Len(Q) : Q[i] = x
    <2>1. /\ Q \in Seq(Requests)
          /\ \A i, j \in 1 .. Len(Q) : Q[i] = Q[j] => i = j
          /\ \A i \in 1 .. Len(Q) : req[Q[i]].pc # "idle"
          /\ \A x \in Requests : req[x].pc # "idle" => \E i \in 1 .. Len(Q) : Q[i] = x
      BY <1>0, ZenonT(30) DEF QueueOK
    <2>2. ASSUME NEW T \in Seq(Requests) PROVE Len(T) \in Nat
      OBVIOUS
    <2> QED BY <2>1, <2>2, ZenonT(30)
  <1>2. \A a \in Agents, g \in Generations, i, j \in 1 .. Len(Q) :
           Halts(req[Q[i]], a, g) /\ Starts(req[Q[j]], a, g) => j < i
    BY <1>0, ZenonT(30) DEF QueueOK
  <1>3. CASE queue # <<>> /\ r = Head(queue)
    <2>1. Others(r) = Tail(Q)
      BY <1>3 DEF Others
    <2>2. /\ Tail(Q) \in Seq(Requests) /\ Len(Q) > 0 /\ Len(Tail(Q)) = Len(Q) - 1 /\ Q[1] = r
          /\ \A i \in 1 .. Len(Tail(Q)) : Tail(Q)[i] = Q[i + 1] /\ i + 1 \in 1 .. Len(Q)
      BY <1>1, <1>3
    <2>3. \A i, j \in 1 .. Len(Tail(Q)) : Tail(Q)[i] = Tail(Q)[j] => i = j
      BY <1>1, <2>2
    <2>4. \A i \in 1 .. Len(Tail(Q)) : Tail(Q)[i] # r /\ req[Tail(Q)[i]].pc # "idle"
      BY <1>1, <2>2
    <2>5. ASSUME NEW x \in Requests \ {r}, req[x].pc # "idle"
          PROVE  \E i \in 1 .. Len(Tail(Q)) : Tail(Q)[i] = x
      <3>1. PICK i \in 1 .. Len(Q) : Q[i] = x
        BY <1>1, <2>5
      <3>2. i # 1 /\ i - 1 \in 1 .. Len(Tail(Q)) /\ Tail(Q)[i - 1] = x
        BY <1>1, <2>2, <3>1
      <3> QED BY <3>2, ZenonT(30)
    <2>6. ASSUME NEW a \in Agents, NEW g \in Generations, NEW i \in 1 .. Len(Tail(Q)),
                 NEW j \in 1 .. Len(Tail(Q)),
                 Halts(req[Tail(Q)[i]], a, g), Starts(req[Tail(Q)[j]], a, g)
          PROVE  j < i
      <3>1. j + 1 < i + 1
        BY <1>2, <2>2, <2>6
      <3> QED BY <1>1, <2>2, <3>1
    <2>7. ASSUME NEW a \in Agents, NEW g \in Generations, NEW x \in Requests,
                 Halts(req[r], a, g), Starts(req[x], a, g)
          PROVE  FALSE
      <3>1. req[x].pc # "idle"
        BY <2>7 DEF Starts
      <3>2. PICK j \in 1 .. Len(Q) : Q[j] = x
        BY <1>1, <3>1
      <3>3. 1 \in 1 .. Len(Q) /\ Halts(req[Q[1]], a, g) /\ Starts(req[Q[j]], a, g)
        BY <1>1, <2>2, <2>7, <3>2
      <3>4. j < 1
        BY <1>2, <3>3
      <3> QED BY <1>1, <3>4
    <2>8. OthersAre(Tail(Q), r)
      BY <2>2, <2>3, <2>4, <2>5, <2>6, <2>7, ZenonT(30) DEF OthersAre
    <2> QED BY <2>1, <2>8
  <1>4. CASE ~(queue # <<>> /\ r = Head(queue))
    <2>1. Others(r) = Q /\ req[r].pc = "idle"
      BY <1>4 DEF Others, Turn
    <2>2. \A i \in 1 .. Len(Q) : Q[i] # r
      BY <1>1, <2>1
    <2>3. \A a, g : ~Halts(req[r], a, g)
      BY <2>1 DEF Halts
    <2>4. OthersAre(Q, r)
      BY <1>1, <1>2, <2>2, <2>3, ZenonT(30) DEF OthersAre
    <2> QED BY <2>1, <2>4
  <1> QED BY <1>3, <1>4

LEMMA QueueStep ==
    ASSUME FInv, NEW r \in Requests, Turn(r), HandlerStep(r)
    PROVE  QueueOK(queue', req', stops')
  <1> DEFINE Q == Others(r)
  <1>1. PICK l \in Locals : ReqTo(r, l) /\ CallOK(l, stops')
    BY DEF HandlerStep
  <1>2. req \in [Requests -> Locals] /\ StopsStep(req[r], stops, stops')
    BY DEF FInv, IInv, HandlerStep
  <1>3. req'[r] = l /\ \A x \in Requests \ {r} : req'[x] = req[x]
    BY <1>1, <1>2 DEF ReqTo
  <1>4. /\ Q \in Seq(Requests) /\ Len(Q) \in Nat
        /\ \A i, j \in 1 .. Len(Q) : Q[i] = Q[j] => i = j
        /\ \A i \in 1 .. Len(Q) : Q[i] \in Requests /\ Q[i] # r /\ req[Q[i]].pc # "idle"
        /\ \A x \in Requests \ {r} : req[x].pc # "idle" => \E i \in 1 .. Len(Q) : Q[i] = x
    <2>1. OthersAre(Q, r)
      BY OthersOK
    <2> HIDE DEF Q
    <2>2. /\ Q \in Seq(Requests)
          /\ \A i, j \in 1 .. Len(Q) : Q[i] = Q[j] => i = j
          /\ \A i \in 1 .. Len(Q) : Q[i] # r /\ req[Q[i]].pc # "idle"
          /\ \A x \in Requests \ {r} : req[x].pc # "idle" => \E i \in 1 .. Len(Q) : Q[i] = x
      BY <2>1, ZenonT(30) DEF OthersAre
    <2>3. ASSUME NEW T \in Seq(Requests)
          PROVE  Len(T) \in Nat /\ \A i \in 1 .. Len(T) : T[i] \in Requests
      OBVIOUS
    <2> QED BY <2>2, <2>3, ZenonT(30)
  <1>5. \A a \in Agents, g \in Generations, i, j \in 1 .. Len(Q) :
           Halts(req[Q[i]], a, g) /\ Starts(req[Q[j]], a, g) => j < i
    BY OthersOK, ZenonT(30) DEF OthersAre
  <1>6. \A a \in Agents, g \in Generations, x \in Requests :
           Halts(req[r], a, g) => ~Starts(req[x], a, g)
    BY OthersOK, ZenonT(30) DEF OthersAre
  <1> HIDE DEF Q
  <1>7. ASSUME NEW a \in Agents, NEW g \in Generations, NEW x \in Requests
        PROVE  /\ Halts(req'[x], a, g) => stops'[a][g] # "none"
               /\ Starts(req'[x], a, g) => stops'[a][g] # "STOPPED"
    <2>1. CASE x = r
      BY <1>1, <1>3, <2>1, ZenonT(20) DEF CallOK
    <2>2. CASE x # r
      <3>1. /\ Halts(req[x], a, g) => stops[a][g] # "none"
            /\ Starts(req[x], a, g) => stops[a][g] # "STOPPED"
        BY DEF FInv, QueueOK
      <3> QED BY <1>2, <1>3, <1>6, <2>2, <3>1 DEF StopsStep
    <2> QED BY <2>1, <2>2
  <1>8. CASE l.pc = "idle" /\ queue' = Q
    <2>1. \A i \in 1 .. Len(Q) : req'[Q[i]] = req[Q[i]]
      BY <1>3, <1>4
    <2>2. \A x \in Requests : req'[x].pc # "idle" => x # r /\ req'[x] = req[x]
      BY <1>3, <1>8
    <2>3. \A x \in Requests : req'[x].pc # "idle" => \E i \in 1 .. Len(Q) : Q[i] = x
      BY <1>4, <2>2
    <2>4. \A a \in Agents, g \in Generations, i, j \in 1 .. Len(Q) :
             Halts(req'[Q[i]], a, g) /\ Starts(req'[Q[j]], a, g) => j < i
      BY <1>5, <2>1
    <2>5. \A i \in 1 .. Len(Q) : req'[Q[i]].pc # "idle"
      BY <1>4, <2>1, ZenonT(30)
    <2>6. QueueOK(Q, req', stops')
      BY <1>4, <1>7, <2>3, <2>4, <2>5, ZenonT(30) DEF QueueOK
    <2> QED BY <1>8, <2>6
  <1>9. CASE l.pc # "idle" /\ queue' = Append(Q, r)
    <2> DEFINE P == Append(Q, r)
               n == Len(P)
    <2>1. /\ P \in Seq(Requests) /\ n \in Nat /\ P[n] = r /\ n \in 1 .. n
          /\ \A i \in 1 .. n : i = n \/ (i \in 1 .. Len(Q) /\ i < n /\ P[i] = Q[i])
          /\ \A i \in 1 .. Len(Q) : P[i] = Q[i] /\ i \in 1 .. n
      BY <1>4
    <2> HIDE DEF P, n
    <2>2. \A i \in 1 .. Len(Q) : req'[Q[i]] = req[Q[i]]
      BY <1>3, <1>4
    <2>3. ASSUME NEW i \in 1 .. n, NEW j \in 1 .. n, P[i] = P[j] PROVE i = j
      BY <1>4, <2>1, <2>3
    <2>4. ASSUME NEW i \in 1 .. n PROVE req'[P[i]].pc # "idle"
      BY <1>3, <1>4, <1>9, <2>1, <2>2
    <2>5. ASSUME NEW x \in Requests, req'[x].pc # "idle" PROVE \E i \in 1 .. n : P[i] = x
      <3>1. CASE x = r
        BY <2>1, <3>1
      <3>2. CASE x # r
        BY <1>3, <1>4, <2>1, <2>5, <3>2
      <3> QED BY <3>1, <3>2
    <2>6. ASSUME NEW a \in Agents, NEW g \in Generations, NEW i \in 1 .. n, NEW j \in 1 .. n,
                 Halts(req'[P[i]], a, g), Starts(req'[P[j]], a, g)
          PROVE  j < i
      <3>1. P[i] # P[j]
        BY <2>6 DEF Halts, Starts
      <3>2. CASE i = n
        BY <2>1, <3>1, <3>2
      <3>3. CASE i # n /\ j # n
        <4>1. /\ i \in 1 .. Len(Q) /\ j \in 1 .. Len(Q)
              /\ req'[P[i]] = req[Q[i]] /\ req'[P[j]] = req[Q[j]]
          BY <2>1, <2>2, <3>3
        <4> QED BY <1>5, <2>6, <4>1
      <3>4. CASE i # n /\ j = n
        <4>1. Halts(req[Q[i]], a, g) /\ Q[i] \in Requests /\ Starts(l, a, g)
          BY <1>3, <1>4, <2>1, <2>2, <2>6, <3>4
        <4>2. stops[a][g] # "none"
          BY <4>1 DEF FInv, QueueOK
        <4>3. stops'[a][g] # "none"
          BY <1>2, <4>2 DEF StopsStep
        <4> QED BY <1>1, <4>1, <4>3, ZenonT(20) DEF CallOK
      <3> QED BY <3>2, <3>3, <3>4
    <2>7. QueueOK(P, req', stops')
      BY <1>7, <2>1, <2>3, <2>4, <2>5, <2>6, ZenonT(30) DEF QueueOK, n
    <2> QED BY <1>9, <2>7 DEF P
  <1> QED BY <1>1, <1>8, <1>9 DEF ReqTo, Q

(* The pieces of handlers, as turns.                                        *)
LEMMA StopsSame ==
    ASSUME UNCHANGED stops, NEW q
    PROVE  StopsStep(q, stops, stops')
  BY DEF StopsStep

LEMMA EndedTurn ==
    ASSUME NEW r \in Requests, NEW raised \in BOOLEAN, Ended(r, raised),
           StopsStep(req[r], stops, stops')
    PROVE  HandlerStep(r)
  <1> DEFINE l == [Idle EXCEPT !.raised = raised]
  <1>1. l \in Locals /\ l.pc = "idle"
    BY ControlAssumption DEF Idle, Locals
  <1>2. req' = [req EXCEPT ![r] = l] /\ queue' = Others(r)
    BY DEF Ended
  <1> HIDE DEF l
  <1>3. CallOK(l, stops')
    BY <1>1 DEF CallOK, Starts, Halts
  <1> QED BY <1>1, <1>2, <1>3, ZenonT(30) DEF HandlerStep, ReqTo

LEMMA AnswerTurn ==
    ASSUME NEW r \in Requests, Answer(r) \/ Raise(r), StopsStep(req[r], stops, stops')
    PROVE  HandlerStep(r)
  <1>1. TRUE \in BOOLEAN /\ FALSE \in BOOLEAN
    OBVIOUS
  <1> QED BY <1>1, EndedTurn, ZenonT(30) DEF Answer, Raise

LEMMA AwaitTurn ==
    ASSUME NEW r \in Requests, NEW l \in Locals, l.pc # "idle", CallOK(l, stops'), Await(r, l),
           StopsStep(req[r], stops, stops')
    PROVE  HandlerStep(r)
  BY ZenonT(30) DEF Await, HandlerStep, ReqTo

LEMMA BeginStopTurn ==
    ASSUME IInv, NEW r \in Requests, NEW a \in Agents, NEW w \in Rows,
           NEW pc \in {"stop", "compensate"}, BeginStop(r, a, w, pc)
    PROVE  HandlerStep(r)
  <1>1. CASE /\ stops[a][w.gen] = "none"
             /\ stops' = [stops EXCEPT ![a][w.gen] = "PENDING"]
             /\ Await(r, [Idle EXCEPT !.pc = pc, !.agent = a, !.snap = w])
    <2> DEFINE l == [Idle EXCEPT !.pc = pc, !.agent = a, !.snap = w]
    <2>1. l \in Locals /\ l.pc = pc /\ l.agent = a
      <3>1. pc \in Calls /\ w \in Rows \cup {NoRow}
        BY DEF Calls
      <3>2. CallOf(l, pc, a)
        BY <3>1, StopLocal, ZenonT(30)
      <3> HIDE DEF l
      <3> QED BY <3>2 DEF CallOf
    <2>2. l.snap = w
      BY DEF Idle
    <2> HIDE DEF l
    <2>3. stops \in [Agents -> Stops] /\ w.gen \in Generations
      BY DEF IInv, Rows
    <2>4. \A c \in Agents, g \in Generations :
             stops'[c][g] = IF c = a /\ g = w.gen THEN "PENDING" ELSE stops[c][g]
      BY <1>1, <2>3 DEF Stops
    <2>5. CallOK(l, stops') /\ StopsStep(req[r], stops, stops')
      <3>1. stops'[a][w.gen] # "none"
        BY <2>3, <2>4
      <3>2. \A c \in Agents, g \in Generations :
               ~Starts(l, c, g) /\ (Halts(l, c, g) => c = a /\ g = w.gen)
        BY <2>1, <2>2 DEF Starts, Halts
      <3>3. CallOK(l, stops')
        BY <3>1, <3>2, ZenonT(30) DEF CallOK
      <3>4. \A c \in Agents, g \in Generations :
               stops'[c][g] = stops[c][g] \/ stops'[c][g] = "PENDING"
        BY <2>4
      <3> QED BY <3>3, <3>4 DEF StopsStep
    <2> QED BY <1>1, <2>1, <2>5, AwaitTurn, ZenonT(30) DEF l
  <1>2. CASE Raise(r) /\ UNCHANGED stops
    BY <1>2, AnswerTurn, StopsSame
  <1> QED BY <1>1, <1>2, ZenonT(20) DEF BeginStop

LEMMA CompensateTurn ==
    ASSUME IInv, NEW r \in Requests, NEW a \in Agents, row[a] # NoRow, NEW snap,
           Compensate(r, a, snap)
    PROVE  HandlerStep(r)
  <1> DEFINE w == FencedStart(row[a], snap, TRUE)
  <1>1. w \in Rows
    <2>1. Follows(row[a], w, stops[a], hostEpoch, binding)
      BY RowIs, FencedStartRow, ZenonT(30)
    <2> HIDE DEF w
    <2> QED BY <2>1 DEF Follows, RowOK
  <1>2. CASE BeginStop(r, a, w, "compensate")
    BY <1>1, <1>2, BeginStopTurn, ZenonT(30)
  <1>3. CASE Answer(r) /\ UNCHANGED stops
    BY <1>3, AnswerTurn, StopsSame, ZenonT(30)
  <1> QED BY <1>2, <1>3, ZenonT(30) DEF Compensate

(* The Start that is sent is of a generation that has no stop record.       *)
LEMMA AcquireTurn ==
    ASSUME IInv, NEW r \in Requests, NEW a \in Agents, NEW w, NEW b,
           Follows(row[a], w, stops[a], hostEpoch, b), Acquire(r, a, w, b), UNCHANGED stops
    PROVE  HandlerStep(r)
  <1> DEFINE Send(v) == Await(r, [Idle EXCEPT !.pc = "start", !.agent = a, !.snap = v,
                                              !.epoch = bound])
  <1>1. w \in Rows /\ RowOK(w, stops[a], hostEpoch, b)
    BY ZenonT(30) DEF Follows, RowOK
  <1>2. ASSUME NEW v \in Rows, v.gen \in Generations, stops[a][v.gen] = "none", Send(v)
        PROVE  HandlerStep(r)
    <2> DEFINE l == [Idle EXCEPT !.pc = "start", !.agent = a, !.snap = v, !.epoch = bound]
    <2>1. bound \in 0 .. MaxEpoch
      BY DEF IInv, EpochsOK
    <2>2. l \in Locals /\ l.pc = "start" /\ l.agent = a
      <3>1. l = StartCall(a, v, bound)
        BY ZenonT(20) DEF StartCall
      <3> HIDE DEF l
      <3>2. CallOf(l, "start", a)
        BY <2>1, <3>1, StartLocal
      <3> QED BY <3>2 DEF CallOf
    <2>3. l.snap = v
      BY DEF Idle
    <2> HIDE DEF l
    <2>4. CallOK(l, stops')
      BY <1>2, <2>2, <2>3 DEF CallOK, Starts, Halts
    <2> QED BY <1>2, <2>2, <2>4, AwaitTurn, StopsSame, ZenonT(30) DEF l
  <1>3. w # NoRow /\ w.gen \in Generations
    BY <1>1, RowAssumption DEF Rows
  <1>4. CASE w.state = "STARTING" /\ Send(w)
    <2>1. stops[a][w.gen] = "none"
      BY <1>1, <1>3, <1>4 DEF RowOK
    <2> QED BY <1>1, <1>2, <1>3, <1>4, <2>1, ZenonT(30)
  <1>5. CASE w.state \in Restartable /\ w.gen < MaxGen /\ Send(Restarted(w))
    <2> DEFINE v == Restarted(w)
    <2>1. Follows(w, v, stops[a], hostEpoch, b)
      BY <1>1, <1>5, RestartedRow
    <2>2. v.state = "STARTING"
      BY <1>1 DEF Restarted, Moved, Rows
    <2>3. Send(v)
      BY <1>5
    <2> HIDE DEF v, Send
    <2>4. v \in Rows /\ v.gen \in Generations /\ stops[a][v.gen] = "none"
      BY <2>1, <2>2, ZenonT(30) DEF Follows, RowOK, Rows
    <2> QED BY <1>2, <2>3, <2>4
  <1>6. CASE Answer(r)
    BY <1>6, AnswerTurn, StopsSame, ZenonT(30)
  <1> HIDE DEF Send
  <1>7. \/ w.state = "STARTING" /\ Send(w)
        \/ w.state \in Restartable /\ w.gen < MaxGen /\ Send(Restarted(w))
        \/ Answer(r)
    BY DEF Acquire, Send
  <1> QED BY <1>4, <1>5, <1>6, <1>7

LEMMA ConfirmTurn ==
    ASSUME NEW r \in Requests, NEW a, NEW w, NEW rev, NEW state, Confirm(r, a, w, rev, state),
           UNCHANGED stops
    PROVE  HandlerStep(r)
  <1> DEFINE raised == (w.state \notin Live /\ w.rev = rev) /\ ~CanMove(w.state, state)
  <1>1. raised \in BOOLEAN /\ Ended(r, raised)
    BY ZenonT(20) DEF Confirm
  <1> QED BY <1>1, EndedTurn, StopsSame, ZenonT(30)

LEMMA CompleteStopTurn ==
    ASSUME IInv, NEW r \in Requests, req[r].pc \in {"stop", "compensate"}, req[r].agent \in Agents,
           NEW result \in {"STOPPED", "TIMEOUT", "RECONCILIATION_REQUIRED"},
           CompleteStop(req[r].agent, req[r].snap.gen, result), Answer(r)
    PROVE  HandlerStep(r)
  <1> DEFINE a == req[r].agent
             n == req[r].snap.gen
  <1>1. CASE UNCHANGED stops
    BY <1>1, AnswerTurn, StopsSame
  <1>2. CASE stops' = [stops EXCEPT ![a][n] = result]
    <2>1. stops \in [Agents -> Stops]
      BY DEF IInv
    <2>2. \A c \in Agents, g \in Generations :
             stops'[c][g] = IF c = a /\ g = n THEN result ELSE stops[c][g]
      BY <1>2, <2>1 DEF Stops
    <2>3. StopsStep(req[r], stops, stops')
      BY <2>2 DEF StopsStep, Halts
    <2> QED BY <2>3, AnswerTurn
  <1> QED BY <1>1, <1>2 DEF CompleteStop

-----------------------------------------------------------------------------
(* Every request of the user and every answer to an RPC is a turn.          *)
LEMMA RequestTurn ==
    ASSUME FInv, NEW r \in Requests, NEW a \in Agents,
           StartRequest(r, a) \/ StopRequest(r, a) \/ StatusRequest(r, a)
    PROVE  Turn(r) /\ HandlerStep(r)
  <1>1. IInv
    BY DEF FInv
  <1>2. Turn(r)
    BY ZenonT(20) DEF Turn, StartRequest, StopRequest, StatusRequest
  <1>3. CASE StatusRequest(r, a)
    <2> DEFINE l == [Idle EXCEPT !.pc = "status", !.agent = a]
    <2>1. CallOf(l, "status", a)
      BY StatusLocal, ZenonT(30) DEF Calls
    <2>2. Await(r, l) /\ UNCHANGED stops
      BY <1>3 DEF StatusRequest, store
    <2> HIDE DEF l
    <2>3. l \in Locals /\ l.pc # "idle" /\ CallOK(l, stops')
      BY <2>1 DEF CallOf, CallOK, Starts, Halts
    <2> QED BY <1>2, <2>2, <2>3, AwaitTurn, StopsSame
  <1>4. CASE StopRequest(r, a)
    <2>1. row[a] \in Rows
      BY <1>1, <1>4, RowIs, ZenonT(30) DEF StopRequest
    <2>2. BeginStop(r, a, row[a], "stop")
      BY <1>4 DEF StopRequest
    <2> QED BY <1>1, <1>2, <2>1, <2>2, BeginStopTurn, ZenonT(30)
  <1>5. CASE StartRequest(r, a)
    <2>1. CASE row[a] # NoRow /\ Acquire(r, a, row[a], binding) /\ UNCHANGED <<binding, stops>>
      BY <1>1, <1>2, <2>1, RowIs, AcquireTurn, ZenonT(30)
    <2>2. CASE Answer(r) /\ UNCHANGED stops
      BY <1>2, <2>2, AnswerTurn, StopsSame
    <2>3. CASE /\ Await(r, [Idle EXCEPT !.pc = "register", !.agent = a, !.digest = binding.digest])
               /\ UNCHANGED stops
      <3> DEFINE l == [Idle EXCEPT !.pc = "register", !.agent = a, !.digest = binding.digest]
      <3>1. CallOf(l, "register", a)
        <4>1. binding.digest \in Digests \cup {NoDigest} /\ "register" \in Calls
          BY <1>1 DEF IInv, BindingOK, Bindings, Calls
        <4> QED BY <4>1, RegisterLocal, ZenonT(30)
      <3>2. Await(r, l)
        BY <2>3
      <3> HIDE DEF l
      <3>3. l \in Locals /\ l.pc # "idle" /\ CallOK(l, stops')
        BY <3>1 DEF CallOf, CallOK, Starts, Halts
      <3> QED BY <1>2, <2>3, <3>2, <3>3, AwaitTurn, StopsSame
    <2> QED BY <1>5, <2>1, <2>2, <2>3, ZenonT(20) DEF StartRequest, FirstUse,
               RequireReconciliation
  <1> QED BY <1>3, <1>4, <1>5

LEMMA ReplyTurn ==
    ASSUME FInv, NEW r \in Requests, NEW pc \in Calls \cup {"evidence"},
           Replied(r, pc) \/ Failed(r, pc)
    PROVE  /\ Turn(r) /\ req[r].pc = pc /\ req[r].agent \in Agents
           /\ pc \in {"start", "evidence"} => row[req[r].agent] # NoRow
  <1>1. IInv /\ QueueOK(queue, req, stops)
    BY DEF FInv
  <1>2. req[r].pc = pc /\ req[r].agent \in Agents /\ LocalOK(req[r], row)
    BY <1>1, RepliedIs
  <1>3. queue # <<>>
    <2>1. \E i \in 1 .. Len(queue) : queue[i] = r
      BY <1>1, <1>2 DEF QueueOK, Calls
    <2> QED BY <2>1
  <1>4. Turn(r)
    BY <1>3 DEF Turn, Replied, Failed
  <1> QED BY <1>2, <1>4 DEF LocalOK

LEMMA RegisterTurn ==
    ASSUME FInv, NEW r \in Requests, RegisterFailed(r) \/ \E d \in Digests : RegisterReplied(r, d)
    PROVE  Turn(r) /\ HandlerStep(r)
  <1> DEFINE a == req[r].agent
             held == req[r].digest
             b(d) == IF held = NoDigest THEN Committed(d) ELSE binding
             w(d) == IF row[a] = NoRow THEN NewRow(b(d).digest) ELSE row[a]
  <1>1. IInv /\ Turn(r) /\ a \in Agents
    <2>1. Replied(r, "register") \/ Failed(r, "register")
      BY ZenonT(30) DEF RegisterFailed, RegisterReplied
    <2> QED BY <2>1, ReplyTurn, ZenonT(30) DEF FInv, Calls
  <1>2. CASE Answer(r) /\ UNCHANGED stops
    BY <1>1, <1>2, AnswerTurn, StopsSame
  <1>3. ASSUME NEW d \in Digests,
               IF held = NoDigest THEN Committable(binding, d) ELSE d = held,
               b(d).status = "CURRENT", Acquire(r, a, w(d), b(d)), UNCHANGED stops
        PROVE  HandlerStep(r)
    <2>1. Follows(row[a], w(d), stops[a], hostEpoch, b(d))
      BY <1>1, <1>3, RegisterBinds, ZenonT(120)
    <2> HIDE DEF w, b
    <2> QED BY <1>1, <1>3, <2>1, AcquireTurn
  <1>4. CASE RegisterFailed(r)
    BY <1>1, <1>2, <1>4, ZenonT(30) DEF RegisterFailed, RequireReconciliation
  <1>5. CASE \E d \in Digests : RegisterReplied(r, d)
    BY <1>1, <1>2, <1>3, <1>5, ZenonT(30) DEF RegisterReplied, RequireReconciliation
  <1> QED BY <1>4, <1>5

LEMMA StartTurn ==
    ASSUME FInv, NEW r \in Requests, StartFailed(r) \/ \E state \in Live : StartReplied(r, state)
    PROVE  Turn(r) /\ HandlerStep(r)
  <1> DEFINE a == req[r].agent
             l(state) == [req[r] EXCEPT !.pc = "evidence", !.snap = row[a], !.state = state]
  <1>1. IInv /\ Turn(r) /\ a \in Agents /\ row[a] # NoRow /\ row[a] \in Rows /\ req[r] \in Locals
    <2>1. Replied(r, "start") \/ Failed(r, "start")
      BY ZenonT(30) DEF StartFailed, StartReplied
    <2> QED BY <2>1, ReplyTurn, ZenonT(30) DEF FInv, IInv, Calls
  <1>2. CASE Answer(r) /\ UNCHANGED stops
    BY <1>1, <1>2, AnswerTurn, StopsSame, ZenonT(30)
  <1>3. CASE Compensate(r, a, req[r].snap)
    BY <1>1, <1>3, CompensateTurn, ZenonT(30)
  <1>4. ASSUME NEW state \in Live, Confirm(r, a, row[a], req[r].snap.rev, state), UNCHANGED stops
        PROVE  HandlerStep(r)
    BY <1>4, ConfirmTurn, ZenonT(30)
  <1>5. ASSUME NEW state \in Live, Await(r, l(state)), UNCHANGED stops
        PROVE  HandlerStep(r)
    <2>1. l(state) \in Locals /\ l(state).pc = "evidence"
      BY <1>1, <1>5, ZenonT(30) DEF Locals
    <2> HIDE DEF l
    <2>2. CallOK(l(state), stops')
      BY <2>1 DEF CallOK, Starts, Halts
    <2>3. l(state).pc # "idle"
      BY <2>1
    <2> QED BY <1>5, <2>1, <2>2, <2>3, AwaitTurn, StopsSame, ZenonT(30)
  <1>6. CASE StartFailed(r)
    BY <1>1, <1>2, <1>6, ZenonT(30) DEF StartFailed
  <1>7. CASE \E state \in Live : StartReplied(r, state)
    BY <1>1, <1>2, <1>3, <1>4, <1>5, <1>7, ZenonT(30) DEF StartReplied
  <1> QED BY <1>6, <1>7

LEMMA EvidenceTurn ==
    ASSUME FInv, NEW r \in Requests, EvidenceReplied(r) \/ EvidenceFailed(r)
    PROVE  Turn(r) /\ HandlerStep(r)
  <1> DEFINE a == req[r].agent
  <1>1. IInv /\ Turn(r) /\ a \in Agents /\ row[a] # NoRow
    <2>1. Replied(r, "evidence") \/ Failed(r, "evidence")
      BY ZenonT(30) DEF EvidenceReplied, EvidenceFailed
    <2> QED BY <2>1, ReplyTurn, ZenonT(30) DEF FInv
  <1>2. CASE Answer(r) /\ UNCHANGED stops
    BY <1>1, <1>2, AnswerTurn, StopsSame, ZenonT(30)
  <1>3. CASE Compensate(r, a, req[r].snap)
    BY <1>1, <1>3, CompensateTurn
  <1>4. ASSUME NEW v, Confirm(r, a, v, v.rev, req[r].state), UNCHANGED stops
        PROVE  HandlerStep(r)
    BY <1>4, ConfirmTurn, ZenonT(30)
  <1>5. CASE EvidenceFailed(r)
    BY <1>1, <1>2, <1>5, ZenonT(30) DEF EvidenceFailed, EvidenceRefused
  <1>6. CASE EvidenceReplied(r)
    BY <1>1, <1>2, <1>3, <1>4, <1>6, ZenonT(30) DEF EvidenceReplied, EvidenceRefused
  <1> QED BY <1>5, <1>6

LEMMA StopTurn ==
    ASSUME FInv, NEW r \in Requests, NEW pc \in {"stop", "compensate"},
           Replied(r, pc) \/ Failed(r, pc),
           NEW result \in {"STOPPED", "TIMEOUT", "RECONCILIATION_REQUIRED"},
           CompleteStop(req[r].agent, req[r].snap.gen, result), Answer(r)
    PROVE  Turn(r) /\ HandlerStep(r)
  <1>1. IInv /\ Turn(r) /\ req[r].pc = pc /\ req[r].agent \in Agents
    <2>1. pc \in Calls \cup {"evidence"}
      BY DEF Calls
    <2> QED BY <2>1, ReplyTurn, ZenonT(30) DEF FInv
  <1> QED BY <1>1, CompleteStopTurn

(* The steps that give no request its turn.                                 *)
LEMMA ClassifyStops ==
    ASSUME IInv, Classify
    PROVE  StopsStep(Idle, stops, stops')
  BY DEF Classify, StopsStep

LEMMA QuietStep ==
    ASSUME FInv, UNCHANGED <<queue, req>>, StopsStep(Idle, stops, stops')
    PROVE  QueueOK(queue', req', stops')
  <1>1. \A a \in Agents, g \in Generations : /\ stops[a][g] # "none" => stops'[a][g] # "none"
                                             /\ stops'[a][g] = "STOPPED" => stops[a][g] = "STOPPED"
    BY DEF StopsStep, Halts, Idle
  <1>2. QueueOK(queue, req, stops)
    BY DEF FInv
  <1>3. QueueOK(queue, req, stops')
    BY <1>1, <1>2, ZenonT(20) DEF QueueOK
  <1> QED BY <1>3

LEMMA RpcQueue ==
    ASSUME FInv, NEW r \in Requests, Rpc(r)
    PROVE  QueueOK(queue', req', stops')
  <1>1. IInv
    BY DEF FInv
  <1>2. CASE BindAndSend(r)
    <2>1. UNCHANGED <<queue, req>> /\ (UNCHANGED stops \/ Classify)
      BY <1>2 DEF BindAndSend
    <2> QED BY <1>1, <2>1, ClassifyStops, StopsSame, QuietStep
  <1>3. CASE StatusEnded(r)
    <2>1. (Replied(r, "status") \/ Failed(r, "status")) /\ Answer(r) /\ UNCHANGED stops
      BY <1>3 DEF StatusEnded
    <2> QED BY <2>1, ReplyTurn, AnswerTurn, StopsSame, QueueStep, ZenonT(30) DEF Calls
  <1>4. CASE \/ \E result \in {"STOPPED", "TIMEOUT"} :
                   StopReplied(r, result) \/ CompensateReplied(r, result)
             \/ StopFailed(r) \/ CompensateFailed(r)
    <2>1. Turn(r) /\ HandlerStep(r)
      BY <1>4, StopTurn DEF StopReplied, CompensateReplied, StopFailed, CompensateFailed
    <2> QED BY <2>1, QueueStep
  <1>5. CASE Turn(r) /\ HandlerStep(r)
    BY <1>5, QueueStep
  <1> QED BY <1>2, <1>3, <1>4, <1>5, RegisterTurn, StartTurn, EvidenceTurn, ZenonT(30) DEF Rpc

LEMMA BootQueue ==
    ASSUME FInv, Boot \/ ApiCrash \/ RuntimeRestart \/ UNCHANGED vars
    PROVE  QueueOK(queue', req', stops')
  <1>1. IInv
    BY DEF FInv
  <1>2. CASE ApiCrash
    <2>1. queue' = <<>> /\ \A r \in Requests : req'[r].pc = "idle"
      BY <1>2 DEF ApiCrash, Idle
    <2>2. \A r \in Requests, a \in Agents, g \in Generations :
             ~Halts(req'[r], a, g) /\ ~Starts(req'[r], a, g)
      BY <2>1 DEF Halts, Starts
    <2>3. queue' \in Seq(Requests) /\ \A i \in 1 .. Len(queue') : FALSE
      BY <2>1
    <2> QED BY <2>1, <2>2, <2>3, ZenonT(30) DEF QueueOK
  <1>3. CASE Boot \/ RuntimeRestart \/ UNCHANGED vars
    <2>1. UNCHANGED <<queue, req>> /\ (UNCHANGED stops \/ Classify)
      BY <1>3, ZenonT(30) DEF Boot, BootBind, BootRegister, BootFinalize, BootFails,
         RuntimeRestart, vars,
                         store
    <2> QED BY <1>1, <2>1, ClassifyStops, StopsSame, QuietStep
  <1> QED BY <1>2, <1>3

LEMMA InitFInv == Init => FInv
  <1> SUFFICES ASSUME Init PROVE QueueOK(queue, req, stops)
    BY InitInv DEF FInv
  <1>1. queue = <<>> /\ \A r \in Requests : req[r].pc = "idle"
    BY DEF Init, Idle
  <1>2. \A r \in Requests, a \in Agents, g \in Generations :
           ~Halts(req[r], a, g) /\ ~Starts(req[r], a, g)
    BY <1>1 DEF Halts, Starts
  <1>3. queue \in Seq(Requests) /\ \A i \in 1 .. Len(queue) : FALSE
    BY <1>1
  <1> QED BY <1>1, <1>2, <1>3, ZenonT(30) DEF QueueOK

LEMMA NextFInv == FInv /\ [Next]_vars => FInv'
  <1> SUFFICES ASSUME FInv, [Next]_vars PROVE FInv'
    OBVIOUS
  <1>1. IInv'
    BY NextInv DEF FInv
  <1>2. QueueOK(queue', req', stops')
    BY RpcQueue, RequestTurn, QueueStep, BootQueue, ZenonT(30) DEF Next
  <1> QED BY <1>1, <1>2 DEF FInv

LEMMA StoppedRows == FInv => StoppedIsFinal
  <1> SUFFICES ASSUME FInv, NEW a \in Agents, NEW g \in Generations, stops[a][g] = "STOPPED"
               PROVE  /\ row[a].gen = g => row[a].state = "STOPPED"
                      /\ \A r \in Requests :
                            req[r].pc = "start" /\ req[r].agent = a => req[r].snap.gen # g
    BY DEF StoppedIsFinal
  <1>1. RowOK(row[a], stops[a], hostEpoch, binding) /\ QueueOK(queue, req, stops)
    BY DEF FInv, IInv
  <1>2. row[a].gen = g => row[a].state = "STOPPED"
    BY <1>1 DEF RowOK
  <1>3. \A r \in Requests : req[r].pc = "start" /\ req[r].agent = a => req[r].snap.gen # g
    <2>1. \A r \in Requests : Starts(req[r], a, g) => stops[a][g] # "STOPPED"
      BY <1>1 DEF QueueOK
    <2> QED BY <2>1 DEF Starts
  <1> QED BY <1>2, <1>3

-----------------------------------------------------------------------------
(* begin_stop, complete_stop and the fences of classify_runtime_epoch keep *)
(* the stop records and the rows together: a generation has a PENDING stop *)
(* exactly while it is its row's and the row is STOPPING.                  *)
THEOREM PendingStopsOwnRows == Spec => []PendingStopOwnsRow
  BY InitInv, NextInv, RowsAreSound, PTL DEF Spec

(* start_workspace writes a live state only on evidence of the row's own   *)
(* generation and of the Runtime epoch the host row names, under a CURRENT *)
(* binding with its digest, and every fence withdraws the state with it.   *)
THEOREM LiveRowsAreProven == Spec => []LiveIsProven
  BY InitInv, NextInv, RowsAreSound, PTL DEF Spec

(* No Start that is waiting for the coordinator's lock is of a generation   *)
(* whose Stop the Runtime acknowledged, because the lock is first come,     *)
(* first served, and complete_stop leaves the row STOPPED until begin_start *)
(* gives it a new generation: a late Start cannot revive a stopped one.     *)
THEOREM StopsAreFinal == Spec => []StoppedIsFinal
  BY InitFInv, NextFInv, StoppedRows, PTL DEF Spec
=============================================================================
