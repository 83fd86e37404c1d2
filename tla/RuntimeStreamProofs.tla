------------------------- MODULE RuntimeStreamProofs -------------------------
(***************************************************************************)
(* Proofs about RuntimeStream, for any attachments, any number of API      *)
(* processes and any interleaving of handlers, Stop, detach, transfer and  *)
(* a poisoned listener.                                                    *)
(***************************************************************************)
EXTENDS RuntimeStream, TLAPS

(* The provers every leaf below is tried with, in this order, and their    *)
(* time limits in seconds, unless the leaf names one itself.               *)
USE SMTT(15), ZenonT(30), SMTT(20)

-----------------------------------------------------------------------------
(* The inductive invariant.                                                *)

(* The registry retains one record of the workspace at a time. *)
Sole == \A a, b \in Attachments : Retained(att[a]) /\ Retained(att[b]) => a = b

(* What the supervisor and the transport hold belongs to the attachment    *)
(* that is pending, and that one still has a record whose cleanup is not   *)
(* confirmed.  Only an opened session has an attach child.                 *)
Lease ==
    /\ sup.writer \in {None, sup.pending}
    /\ sup.handle \in {None, sup.pending}
    /\ children \subseteq {sup.pending}
    /\ sup.pending # None => /\ Retained(att[sup.pending])
                             /\ att[sup.pending].cleaned # "confirmed"
    /\ sup.handle # None => att[sup.handle].reg = "open"
    /\ \A a \in children : att[a].reg = "open"

(* The record r of attachment a, with its handler at t writing frame f,    *)
(* under supervisor s.  Before the session: nothing was proven about a.    *)
(* While it is not closing: it has the supervisor's pending slot, and once *)
(* it is committed the writer slot too.  A record that left the registry   *)
(* was fenced and positively cleaned up before.                            *)
Entry(s, r, t, f, a) ==
    /\ t = "none" <=> r.reg \in {"none", "prepared", "burnt"}
    /\ t = "none" => /\ s.proven # a /\ f = "none"
                     /\ r.cleaned # "confirmed" /\ r.proof # "confirmed"
                     /\ r.phase = "NONE" /\ ~r.closing
    /\ r.reg = "gone" => /\ r.fenced /\ r.closing
                         /\ r.cleaned = "confirmed" /\ r.proof = "confirmed"
    /\ r.reg = "open" /\ ~r.closing => s.pending = a
    /\ r.phase = "COMMITTED" /\ ~r.closing => s.writer = a
    /\ s.writer = a => r.phase \in {"COMMITTED", "CLOSED"}
    /\ f = "output" => t = "read" /\ r.phase \in {"COMMITTED", "CLOSED"}
    /\ r.proof = "confirmed" => r.cleaned = "confirmed" /\ r.phase = "CLOSED"
    /\ r.phase = "CLOSED" => r.closing

Entries == \A a \in Attachments : Entry(sup, att[a], task[a], frame[a], a)

(* A bound API process has prepared every record that is still retained. *)
Owned == api.alive => \A a \in Attachments : Retained(att[a]) => att[a].owner = api.gen

(* A Stop that passed its fence found no session publishing, and none can  *)
(* be opened after it.                                                     *)
Quiet ==
    stopping \/ proc = "STOPPED" =>
        \A a \in Attachments : att[a].reg = "open" => att[a].closing

IInv == TypeOK /\ Sole /\ Lease /\ Entries /\ Owned /\ Quiet

-----------------------------------------------------------------------------
(* Lemmas about the cleanup operators.                                     *)

(* cleanup_runtime_attachment() either confirms, and then the supervisor   *)
(* holds nothing and the child of a is proven closed, or leaves every slot *)
(* as it was.                                                              *)
LEMMA CleanedUpIs ==
    ASSUME NEW s \in Supervisors, NEW a \in Attachments, NEW closes \in BOOLEAN,
           NEW z, z = CleanedUp(s, a, closes)
    PROVE  /\ z \in Supervisors
           /\ Confirms(s, a, closes) =>
                 /\ s.pending = a /\ z.pending = None /\ z.writer = None
                 /\ z.handle = None /\ z.proven = a
           /\ ~Confirms(s, a, closes) =>
                 /\ z.pending = s.pending /\ z.writer = s.writer
                 /\ z.handle = s.handle /\ z.proven = s.proven
  BY ZenonT(30) DEF CleanedUp, Confirms, ProvesClosed, Supervisors

(* _close_after_invalidation() touches the supervisor only while the       *)
(* record's cleanup is not confirmed.                                      *)
LEMMA SupClosedIs ==
    ASSUME NEW s, NEW r, NEW a, NEW closes,
           r.proof = "confirmed" => r.cleaned = "confirmed"
    PROVE  SupClosed(s, r, a, closes) =
             IF r.cleaned = "confirmed" THEN s ELSE CleanedUp(s, a, closes)
  BY DEF SupClosed, SupAfter

(* _cleanup() of the registry: a record leaves only with a confirmed       *)
(* cleanup and only when it is to be released.                             *)
LEMMA ReleasedIs ==
    ASSUME NEW s, NEW r \in Records, NEW a, NEW closes, NEW release \in BOOLEAN,
           NEW z, z = Released(s, r, a, closes, release)
    PROVE  /\ z \in Records
           /\ z.cleaned = IF r.cleaned = "confirmed" \/ Confirms(s, a, closes)
                          THEN "confirmed" ELSE "uncertain"
           /\ z.reg = IF z.cleaned = "confirmed" /\ release THEN "gone"
                      ELSE IF r.reg = "prepared" THEN "burnt" ELSE r.reg
           /\ z.owner = r.owner /\ z.phase = r.phase /\ z.closing = r.closing
           /\ z.drain = r.drain /\ z.fenced = r.fenced /\ z.proof = r.proof
<1>1. PICK c : c = IF r.cleaned = "confirmed" \/ Confirms(s, a, closes)
                   THEN "confirmed" ELSE "uncertain"
  BY ZenonT(30)
<1>2. PICK l : l = (r.late /\ ~(c = "confirmed" /\ release))
  BY ZenonT(30)
<1>3. PICK g : g = IF c = "confirmed" /\ release THEN "gone"
                   ELSE IF r.reg = "prepared" THEN "burnt" ELSE r.reg
  BY ZenonT(30)
<1>4. z = [r EXCEPT !.cleaned = c, !.late = l, !.reg = g]
  BY <1>1, <1>2, <1>3, ZenonT(30) DEF Released
<1>5. /\ c \in {"confirmed", "uncertain"} /\ l \in BOOLEAN
      /\ g \in {"none", "prepared", "burnt", "open", "gone"}
  BY <1>1, <1>2, <1>3, ZenonT(30) DEF Records
<1>6. /\ z.cleaned = c /\ z.reg = g
      /\ z.owner = r.owner /\ z.phase = r.phase /\ z.closing = r.closing
      /\ z.drain = r.drain /\ z.fenced = r.fenced /\ z.proof = r.proof
  BY <1>4, ZenonT(30) DEF Records
<1>7. z \in Records
  BY <1>4, <1>5, ZenonT(30) DEF Records
<1> QED BY <1>1, <1>3, <1>6, <1>7, ZenonT(30)

(* Closing a session: r is its record, already closing.  Afterwards it is  *)
(* CLOSED, and it is out of the registry only if it was fenced and its     *)
(* cleanup confirmed.                                                      *)
Closable(r) ==
    /\ r \in Records
    /\ r.closing
    /\ r.reg \in {"open", "gone"}
    /\ r.proof = "confirmed" => r.cleaned = "confirmed" /\ r.phase = "CLOSED"
    /\ r.reg = "gone" => r.fenced /\ r.cleaned = "confirmed" /\ r.proof = "confirmed"

LEMMA ClosedIs ==
    ASSUME NEW s, NEW r, Closable(r), NEW a, NEW closes, NEW broken \in BOOLEAN,
           NEW drain \in BOOLEAN, NEW z, z = Closed(s, r, a, closes, broken, drain)
    PROVE  /\ Closable(z)
           /\ z.phase = "CLOSED" /\ z.owner = r.owner /\ z.fenced = r.fenced
           /\ z.cleaned = IF r.cleaned = "confirmed" \/ Confirms(s, a, closes)
                          THEN "confirmed" ELSE "uncertain"
           /\ r.reg = "gone" => z.reg = "gone"
<1> DEFINE failed == broken \/ (~drain /\ ~r.fenced)
<1>1. r \in Records
  BY DEF Closable
<1>2. PICK now \in BOOLEAN : now = (~failed /\ r.fenced)
  BY <1>1 DEF Records
<1>3. PICK after : after = Released(s, r, a, closes, now)
  OBVIOUS
<1>4. PICK again : again = Released(s, r, a, closes, TRUE)
  BY ZenonT(30)
<1>0. z = IF r.proof = "confirmed" THEN IF r.fenced /\ ~failed THEN again ELSE r
          ELSE [after EXCEPT !.phase = "CLOSED",
                             !.proof = IF failed THEN "uncertain" ELSE after.cleaned]
  BY <1>2, <1>3, <1>4 DEF Closed
<1>5. /\ after \in Records
      /\ after.cleaned = IF r.cleaned = "confirmed" \/ Confirms(s, a, closes)
                         THEN "confirmed" ELSE "uncertain"
      /\ after.reg = IF after.cleaned = "confirmed" /\ now THEN "gone"
                     ELSE IF r.reg = "prepared" THEN "burnt" ELSE r.reg
      /\ after.owner = r.owner /\ after.phase = r.phase /\ after.closing = r.closing
      /\ after.drain = r.drain /\ after.fenced = r.fenced /\ after.proof = r.proof
  BY <1>1, <1>3, ReleasedIs
<1>6. /\ again \in Records
      /\ again.cleaned = IF r.cleaned = "confirmed" \/ Confirms(s, a, closes)
                         THEN "confirmed" ELSE "uncertain"
      /\ again.reg = IF again.cleaned = "confirmed" THEN "gone"
                     ELSE IF r.reg = "prepared" THEN "burnt" ELSE r.reg
      /\ again.owner = r.owner /\ again.phase = r.phase /\ again.closing = r.closing
      /\ again.drain = r.drain /\ again.fenced = r.fenced /\ again.proof = r.proof
  BY <1>1, <1>4, ZenonT(30) DEF Released, Records
<1>7. CASE r.proof = "confirmed"
  BY <1>0, <1>4, <1>6, <1>7, ZenonT(30) DEF Closable
<1>8. CASE r.proof # "confirmed"
  <2>1. /\ z.phase = "CLOSED" /\ z.proof = IF failed THEN "uncertain" ELSE after.cleaned
        /\ z.reg = after.reg /\ z.owner = after.owner /\ z.cleaned = after.cleaned
        /\ z.closing = after.closing /\ z.fenced = after.fenced /\ z \in Records
    BY <1>0, <1>5, <1>8, ZenonT(30) DEF Records
  <2> QED BY <2>1, <1>2, <1>5, <1>8, ZenonT(30) DEF Closable
<1> QED BY <1>7, <1>8

(* The record of a session before its close, compared with the registry's. *)
LEMMA DrainingIs ==
    ASSUME NEW r \in Records
    PROVE  /\ Draining(r) \in Records /\ Draining(r).closing
           /\ Draining(r).reg = r.reg /\ Draining(r).owner = r.owner
           /\ Draining(r).cleaned = r.cleaned /\ Draining(r).phase = r.phase
           /\ Draining(r).fenced = r.fenced /\ Draining(r).proof = r.proof
  BY ZenonT(30) DEF Draining, Records

LEMMA InvalidatedIs ==
    ASSUME NEW r \in Records, NEW fences \in BOOLEAN
    PROVE  /\ Invalidated(r, fences) \in Records /\ Invalidated(r, fences).closing
           /\ Invalidated(r, fences).reg = r.reg
           /\ Invalidated(r, fences).owner = r.owner
           /\ Invalidated(r, fences).cleaned = r.cleaned
           /\ Invalidated(r, fences).phase = r.phase
           /\ Invalidated(r, fences).fenced = (r.fenced \/ fences)
           /\ Invalidated(r, fences).proof = r.proof
  BY ZenonT(30) DEF Invalidated, Records
-----------------------------------------------------------------------------
(* One close, from whichever operation it is called.                       *)

(* s is the supervisor, in whatever state, after at most a cleanup of a. *)
Near(s, a) ==
    /\ s \in Supervisors
    /\ s.proven \in {sup.proven, a}
    /\ \/ s.pending = sup.pending /\ s.writer = sup.writer /\ s.handle = sup.handle
       \/ /\ sup.pending = a
          /\ s.pending = None /\ s.writer = None /\ s.handle = None

(* r is the record of a, now closing and perhaps fenced. *)
Kin(r, a) ==
    /\ Closable(r)
    /\ r.reg = att[a].reg /\ r.owner = att[a].owner /\ r.cleaned = att[a].cleaned

(* A step that touches the record, the handler and the slots of a only. *)
OnlyHandler(a) ==
    /\ task' \in [Attachments -> Tasks] /\ frame' \in [Attachments -> Frames]
    /\ \A b \in Attachments \ {a} : task'[b] = task[b] /\ frame'[b] = frame[b]

(* The session of a is closed: its record stays or leaves the registry. *)
ClosesOnly(a) ==
    /\ att' \in [Attachments -> Records]
    /\ \A b \in Attachments \ {a} : att'[b] = att[b]
    /\ att[a].reg \in {"open", "gone"} /\ att'[a].reg \in {att[a].reg, "gone"}
    /\ att'[a].owner = att[a].owner /\ att'[a].closing

(* The entry of another attachment does not depend on the slots of a. *)
LEMMA OtherEntry ==
    ASSUME IInv, NEW a \in Attachments, NEW b \in Attachments, b # a,
           NEW s, Near(s, a)
    PROVE  Entry(s, att[b], task[b], frame[b], b)
<1>1. Entry(sup, att[b], task[b], frame[b], b)
  BY DEF IInv, Entries
<1>2. sup.writer \in {None, sup.pending} /\ b # None
  BY NoneAssumption DEF IInv, Lease
<1> QED BY <1>1, <1>2 DEF Entry, Near

LEMMA CloseStep ==
    ASSUME IInv, NEW a \in Attachments, task[a] # "none", OnlyHandler(a),
           task'[a] # "none", frame'[a] = "output" => task'[a] = "read",
           NEW s, Near(s, a), NEW c, c \in {children, children \cup {a}},
           a \in c => att[a].reg = "open" /\ (s.pending = a \/ s.proven = a),
           NEW r, Kin(r, a), NEW drain \in BOOLEAN, CloseFrom(s, c, r, a, drain)
    PROVE  /\ sup' \in Supervisors /\ children' \subseteq Attachments
           /\ Sole' /\ Lease' /\ Entries' /\ ClosesOnly(a)
<1>1. PICK closes \in BOOLEAN, broken \in BOOLEAN :
        /\ sup' = SupClosed(s, r, a, closes)
        /\ att' = [att EXCEPT ![a] = Closed(s, r, a, closes, broken, drain)]
        /\ children' = c \ {sup'.proven}
  BY ZenonT(30) DEF CloseFrom
<1>2. PICK z : z = Closed(s, r, a, closes, broken, drain)
  OBVIOUS
<1>3. /\ Closable(z)
      /\ z.phase = "CLOSED" /\ z.owner = r.owner /\ z.fenced = r.fenced
      /\ z.cleaned = IF r.cleaned = "confirmed" \/ Confirms(s, a, closes)
                     THEN "confirmed" ELSE "uncertain"
      /\ r.reg = "gone" => z.reg = "gone"
  BY <1>2, ClosedIs DEF Kin
<1>4. att \in [Attachments -> Records] /\ sup \in Supervisors /\ children \subseteq Attachments
  BY DEF IInv, TypeOK
<1>5. /\ att' \in [Attachments -> Records] /\ att'[a] = z
      /\ \A b \in Attachments \ {a} : att'[b] = att[b]
  BY <1>1, <1>2, <1>3, <1>4 DEF Closable
<1>6. s \in Supervisors /\ (r.proof = "confirmed" => r.cleaned = "confirmed")
  BY DEF Near, Kin, Closable
<1>7. sup' = IF r.cleaned = "confirmed" THEN s ELSE CleanedUp(s, a, closes)
  BY <1>1, <1>6, SupClosedIs
<1>8. /\ sup' \in Supervisors
      /\ \/ /\ s.pending = a /\ sup'.pending = None /\ sup'.writer = None
            /\ sup'.handle = None /\ sup'.proven = a
         \/ /\ sup'.pending = s.pending /\ sup'.writer = s.writer
            /\ sup'.handle = s.handle /\ sup'.proven = s.proven
            /\ z.cleaned = "confirmed" => att[a].cleaned = "confirmed"
  <2>1. CASE r.cleaned = "confirmed"
    BY <2>1, <1>6, <1>7 DEF Kin
  <2>2. CASE r.cleaned # "confirmed"
    BY <2>2, <1>3, <1>6, <1>7, CleanedUpIs
  <2> QED BY <2>1, <2>2
<1>9. ClosesOnly(a)
  BY <1>3, <1>5 DEF ClosesOnly, Kin, Closable
<1>10. Near(sup', a)
  BY <1>8, NoneAssumption DEF Near
<1>11. Sole'
  BY <1>9 DEF IInv, Sole, Retained, ClosesOnly
<1>12. Lease'
  <2>1. /\ sup.writer \in {None, sup.pending} /\ sup.handle \in {None, sup.pending}
        /\ children \subseteq {sup.pending}
        /\ sup.pending # None => /\ Retained(att[sup.pending])
                                 /\ att[sup.pending].cleaned # "confirmed"
        /\ sup.handle # None => att[sup.handle].reg = "open"
        /\ \A b \in children : att[b].reg = "open"
    BY DEF IInv, Lease
  <2>2. CASE sup'.pending = None /\ sup'.writer = None /\ sup'.handle = None
    <3>1. children' = {}
      BY <2>1, <2>2, <1>1, <1>4, <1>8, NoneAssumption DEF Near
    <3> QED BY <3>1, <2>2 DEF Lease
  <2>3. CASE /\ sup'.pending = sup.pending /\ sup'.writer = sup.writer
             /\ sup'.handle = sup.handle /\ sup.pending # None
             /\ sup'.pending = s.pending /\ sup'.proven = s.proven
             /\ z.cleaned = "confirmed" => att[a].cleaned = "confirmed"
    <3>1. children' \subseteq {sup.pending} /\ children' \subseteq children \cup {a}
      BY <2>1, <2>3, <1>1
    <3>2. sup.pending \in Attachments
      BY <2>3, <1>4, ZenonT(30) DEF Supervisors
    <3>3. sup.pending = a => z.cleaned # "confirmed" /\ z.reg = att[a].reg
      BY <2>1, <2>3, <1>3, ZenonT(30) DEF Kin, Closable, Retained
    <3>4. att'[sup.pending].reg = att[sup.pending].reg
      BY <3>2, <3>3, <1>5
    <3>5. att'[sup.pending].cleaned # "confirmed"
      BY <3>2, <3>3, <1>5, <2>1, <2>3
    <3>6. \A b \in children' : att'[b].reg = "open"
      BY <3>1, <3>4, <2>1, <1>1
    <3> QED BY <2>1, <2>3, <3>1, <3>4, <3>5, <3>6 DEF Lease, Retained
  <2> QED BY <2>1, <2>2, <2>3, <1>8 DEF Near
<1>13. Entries'
  <2>1. Entry(sup', z, task'[a], frame'[a], a)
    BY <1>3 DEF Entry, Closable
  <2>2. \A b \in Attachments \ {a} : Entry(sup', att[b], task[b], frame[b], b)
    BY <1>10, OtherEntry
  <2> QED BY <2>1, <2>2, <1>5, ZenonT(30) DEF Entries, OnlyHandler
<1>14. children' \subseteq Attachments
  BY <1>1, <1>4
<1> QED BY <1>8, <1>9, <1>11, <1>12, <1>13, <1>14
-----------------------------------------------------------------------------
(* Steps that keep every record in the registry where it is.               *)

Handshake == {"WAIT_KEY_INIT", "WAIT_KEY_CONFIRM", "WAIT_READY", "WAIT_COMMIT"}

(* A record whose session moved on, began to close or was fenced, or whose *)
(* capability was burnt and its cleanup not confirmed.                     *)
Soft(r, q) ==
    /\ q.owner = r.owner /\ q.proof = r.proof
    /\ q.reg = r.reg \/ (r.reg \in {"prepared", "burnt"} /\ q.reg = "burnt")
    /\ q.cleaned = r.cleaned \/ (r.cleaned # "confirmed" /\ q.cleaned = "uncertain")
    /\ r.closing => q.closing
    /\ r.fenced => q.fenced
    /\ \/ q.phase = r.phase
       \/ q.phase \in Handshake /\ r.phase \in Handshake

(* No record is added to the registry or leaves it. *)
SameStanding ==
    \A b \in Attachments : /\ Retained(att'[b]) <=> Retained(att[b])
                           /\ att'[b].reg = "gone" <=> att[b].reg = "gone"

LEMMA SoftStands ==
    ASSUME \A b \in Attachments : Soft(att[b], att'[b])
    PROVE  SameStanding
  BY DEF Soft, SameStanding, Retained

SameSlots ==
    /\ sup' \in Supervisors
    /\ sup'.pending = sup.pending /\ sup'.writer = sup.writer
    /\ sup'.handle = sup.handle /\ sup'.proven = sup.proven

LEMMA SoftStep ==
    ASSUME IInv, SameSlots, children' = children,
           att' \in [Attachments -> Records],
           \A b \in Attachments : Soft(att[b], att'[b]),
           \A b \in Attachments : task[b] = "none" => att'[b].closing = att[b].closing,
           \A b \in Attachments : task'[b] = "none" <=> task[b] = "none",
           \A b \in Attachments : task'[b] = "none" => frame'[b] = "none",
           \A b \in Attachments :
              frame'[b] = "output" =>
                 task'[b] = "read" /\ att'[b].phase \in {"COMMITTED", "CLOSED"}
    PROVE  Sole' /\ Lease' /\ Entries'
<1>1. Sole'
  BY DEF IInv, Sole, Soft, Retained
<1>2. Lease'
  <2>1. sup.pending # None => sup.pending \in Attachments
    BY DEF IInv, TypeOK, Supervisors
  <2>2. sup.handle # None => sup.handle = sup.pending
    BY DEF IInv, Lease
  <2>3. children \subseteq Attachments
    BY DEF IInv, TypeOK
  <2> QED BY <2>1, <2>2, <2>3 DEF IInv, Lease, Soft, Retained, SameSlots
<1>3. Entries'
  <2> SUFFICES ASSUME NEW b \in Attachments
               PROVE  Entry(sup', att'[b], task'[b], frame'[b], b)
    BY ZenonT(30) DEF Entries
  <2>1. Entry(sup, att[b], task[b], frame[b], b)
    BY DEF IInv, Entries
  <2>2. /\ Soft(att[b], att'[b])
        /\ task[b] = "none" => att'[b].closing = att[b].closing
        /\ task'[b] = "none" <=> task[b] = "none"
        /\ task'[b] = "none" => frame'[b] = "none"
        /\ frame'[b] = "output" =>
             task'[b] = "read" /\ att'[b].phase \in {"COMMITTED", "CLOSED"}
    OBVIOUS
  <2> QED BY <2>1, <2>2 DEF Entry, Soft, Handshake, SameSlots
<1> QED BY <1>1, <1>2, <1>3

(* Owners and the fence of a Stop survive a step of the registry. *)
LEMMA HostKept ==
    ASSUME IInv, UNCHANGED hostVars,
           \A b \in Attachments :
              /\ Retained(att'[b]) => Retained(att[b]) /\ att'[b].owner = att[b].owner
              /\ att'[b].reg = "open" =>
                    att[b].reg = "open" /\ (att[b].closing => att'[b].closing)
    PROVE  Owned' /\ Quiet'
<1>1. api' = api /\ stopping' = stopping /\ proc' = proc
  BY DEF hostVars
<1> QED BY <1>1 DEF IInv, Owned, Quiet

LEMMA HostTypes ==
    ASSUME TypeOK, UNCHANGED hostVars, sup' \in Supervisors,
           children' \subseteq Attachments, att' \in [Attachments -> Records],
           task' \in [Attachments -> Tasks], frame' \in [Attachments -> Frames]
    PROVE  TypeOK'
  BY DEF TypeOK, hostVars

(* What Go() leaves of the handlers. *)
LEMMA GoIs ==
    ASSUME TypeOK, NEW a \in Attachments, NEW where \in Tasks, NEW kind \in Frames,
           Go(a, where, kind)
    PROVE  /\ OnlyHandler(a) /\ task'[a] = where /\ frame'[a] = kind
  BY DEF TypeOK, Go, OnlyHandler

(* The handler of a goes on; its record may move softly. *)
LEMMA HandlerStep ==
    ASSUME IInv, NEW a \in Attachments, task[a] # "none",
           NEW where \in Tasks \ {"none"}, NEW kind \in Frames, Go(a, where, kind),
           NEW q \in Records, Soft(att[a], q), att' = [att EXCEPT ![a] = q],
           kind = "output" => where = "read" /\ q.phase \in {"COMMITTED", "CLOSED"},
           UNCHANGED <<sup, children, hostVars>>
    PROVE  IInv'
<1>1. TypeOK /\ att \in [Attachments -> Records]
  BY DEF IInv, TypeOK
<1>2. OnlyHandler(a) /\ task'[a] = where /\ frame'[a] = kind
  BY <1>1, GoIs
<1>3. /\ att' \in [Attachments -> Records] /\ att'[a] = q
      /\ \A b \in Attachments \ {a} : att'[b] = att[b]
  BY <1>1
<1>4. SameSlots /\ children' = children /\ UNCHANGED hostVars
  BY <1>1 DEF SameSlots, TypeOK
<1>5. \A b \in Attachments : Soft(att[b], att'[b])
  BY <1>3 DEF Soft
<1>6. \A b \in Attachments \ {a} : Entry(sup, att[b], task[b], frame[b], b)
  BY DEF IInv, Entries
<1>7. \A b \in Attachments :
         /\ task[b] = "none" => att'[b].closing = att[b].closing
         /\ task'[b] = "none" <=> task[b] = "none"
  BY <1>2, <1>3 DEF OnlyHandler
<1>8. \A b \in Attachments :
         /\ task'[b] = "none" => frame'[b] = "none"
         /\ frame'[b] = "output" =>
              task'[b] = "read" /\ att'[b].phase \in {"COMMITTED", "CLOSED"}
  BY <1>2, <1>3, <1>6 DEF OnlyHandler, Entry
<1>9. Sole' /\ Lease' /\ Entries'
  BY <1>3, <1>4, <1>5, <1>7, <1>8, SoftStep
<1>10. Owned' /\ Quiet'
  BY <1>4, <1>5, HostKept DEF Soft, Retained
<1>11. TypeOK'
  BY <1>1, <1>2, <1>3, <1>4, HostTypes DEF OnlyHandler, TypeOK
<1> QED BY <1>9, <1>10, <1>11 DEF IInv
(* The handler of a closes its session, whatever it called before. *)
LEMMA HandlerClose ==
    ASSUME IInv, NEW a \in Attachments, task[a] # "none",
           NEW where \in Tasks \ {"none"}, NEW kind \in Frames \ {"output"},
           Go(a, where, kind), UNCHANGED hostVars,
           NEW s, Near(s, a), NEW c, c \in {children, children \cup {a}},
           a \in c => att[a].reg = "open" /\ (s.pending = a \/ s.proven = a),
           NEW r, Kin(r, a), NEW drain \in BOOLEAN, CloseFrom(s, c, r, a, drain)
    PROVE  IInv' /\ ClosesOnly(a)
<1>1. TypeOK
  BY DEF IInv
<1>2. OnlyHandler(a) /\ task'[a] = where /\ frame'[a] = kind
  BY <1>1, GoIs
<1>3. /\ sup' \in Supervisors /\ children' \subseteq Attachments
      /\ Sole' /\ Lease' /\ Entries' /\ ClosesOnly(a)
  BY <1>2, CloseStep
<1>4. Owned' /\ Quiet'
  BY <1>3, HostKept DEF ClosesOnly, Retained
<1>5. TypeOK'
  BY <1>1, <1>2, <1>3, HostTypes DEF OnlyHandler, ClosesOnly
<1> QED BY <1>3, <1>4, <1>5 DEF IInv

(* The session of a running handler can be closed as it stands. *)
LEMMA SessionIs ==
    ASSUME IInv, NEW a \in Attachments, task[a] # "none"
    PROVE  /\ Kin(Draining(att[a]), a)
           /\ \A fences \in BOOLEAN : Kin(Invalidated(att[a], fences), a)
           /\ Near(sup, a) /\ Near([sup EXCEPT !.state = "INPUT_UNCERTAIN"], a)
           /\ a \in children => att[a].reg = "open" /\ sup.pending = a
           /\ att[a].reg \in {"open", "gone"} /\ att[a] \in Records
<1>1. att[a] \in Records /\ sup \in Supervisors /\ task[a] \in Tasks
  BY DEF IInv, TypeOK
<1>2. Entry(sup, att[a], task[a], frame[a], a)
  BY DEF IInv, Entries
<1>3. att[a].reg \in {"open", "gone"}
  BY <1>1, <1>2 DEF Entry, Records
<1>4. Kin(Draining(att[a]), a)
  BY <1>1, <1>2, <1>3, DrainingIs DEF Kin, Closable, Entry
<1>5. \A fences \in BOOLEAN : Kin(Invalidated(att[a], fences), a)
  <2> TAKE fences \in BOOLEAN
  <2>1. PICK q : q = Invalidated(att[a], fences)
    OBVIOUS
  <2>2. /\ q \in Records /\ q.closing /\ q.reg = att[a].reg /\ q.owner = att[a].owner
        /\ q.cleaned = att[a].cleaned /\ q.phase = att[a].phase
        /\ q.fenced = (att[a].fenced \/ fences) /\ q.proof = att[a].proof
    BY <1>1, <2>1, ZenonT(30) DEF Invalidated, Records
  <2>3. Kin(q, a)
    BY <2>2, <1>2, <1>3, ZenonT(30) DEF Kin, Closable, Entry
  <2> QED BY <2>1, <2>3
<1>6. Near(sup, a) /\ Near([sup EXCEPT !.state = "INPUT_UNCERTAIN"], a)
  BY <1>1 DEF Near, Supervisors
<1>7. a \in children => att[a].reg = "open" /\ sup.pending = a
  BY DEF IInv, Lease
<1> QED BY <1>1, <1>3, <1>4, <1>5, <1>6, <1>7

LEMMA DrainStep ==
    ASSUME IInv, NEW a \in Attachments, task[a] # "none",
           NEW where \in Tasks \ {"none"}, NEW kind \in Frames \ {"output"},
           Go(a, where, kind), UNCHANGED hostVars,
           NEW s \in {sup, [sup EXCEPT !.state = "INPUT_UNCERTAIN"]},
           CloseFrom(s, children, Draining(att[a]), a, TRUE)
    PROVE  IInv' /\ ClosesOnly(a)
<1>1. /\ Kin(Draining(att[a]), a) /\ Near(s, a)
      /\ a \in children => att[a].reg = "open" /\ sup.pending = a
  BY SessionIs
<1>2. s.pending = sup.pending
  BY DEF IInv, TypeOK, Supervisors
<1> QED BY <1>1, <1>2, HandlerClose, ZenonT(30)

(* The handler goes on, and nothing but its place changes. *)
LEMMA GoStep ==
    ASSUME IInv, NEW a \in Attachments, task[a] # "none",
           NEW where \in Tasks \ {"none"}, NEW kind \in Frames, Go(a, where, kind),
           kind = "output" => where = "read" /\ att[a].phase \in {"COMMITTED", "CLOSED"},
           UNCHANGED <<sup, children, att, hostVars>>
    PROVE  IInv'
<1>1. att[a] \in Records /\ Soft(att[a], att[a]) /\ att' = [att EXCEPT ![a] = att[a]]
  BY DEF IInv, TypeOK, Soft
<1> QED BY <1>1, HandlerStep, ZenonT(30)

-----------------------------------------------------------------------------
(* The steps of a handler.                                                 *)

LEMMA KeyExchangeStep ==
    ASSUME IInv, NEW a \in Attachments, KeyExchange(a)
    PROVE  IInv'
<1>1. att[a] \in Records /\ att \in [Attachments -> Records]
  BY DEF IInv, TypeOK
<1>2. PICK p \in {"WAIT_KEY_CONFIRM", "WAIT_READY"} :
        att' = [att EXCEPT ![a].phase = p] /\ att[a].phase \in Handshake
  BY DEF KeyExchange, Handshake
<1>3. PICK q : q = [att[a] EXCEPT !.phase = p]
  BY ZenonT(30)
<1>4. q \in Records /\ Soft(att[a], q) /\ att' = [att EXCEPT ![a] = q]
  BY <1>1, <1>2, <1>3 DEF Soft, Records, Handshake
<1>5. task[a] # "none" /\ "tick" \in Tasks \ {"none"} /\ "reply" \in Frames
  BY DEF KeyExchange, At, Tasks, Frames
<1>6. Go(a, "tick", "reply") /\ UNCHANGED <<sup, children, hostVars>>
  BY DEF KeyExchange
<1> QED BY <1>4, <1>5, <1>6, HandlerStep, ZenonT(30)

LEMMA StreamReadyStep ==
    ASSUME IInv, NEW a \in Attachments, StreamReady(a)
    PROVE  IInv'
<1>1. att[a] \in Records /\ att \in [Attachments -> Records]
  BY DEF IInv, TypeOK
<1>2. PICK q : q = [att[a] EXCEPT !.phase = "WAIT_COMMIT"]
  BY ZenonT(30)
<1>3. q \in Records /\ Soft(att[a], q) /\ att' = [att EXCEPT ![a] = q]
  BY <1>1, <1>2 DEF StreamReady, Soft, Records, Handshake
<1>4. task[a] # "none" /\ "tick" \in Tasks \ {"none"} /\ "reply" \in Frames
  BY DEF StreamReady, At, Tasks, Frames
<1>5. Go(a, "tick", "reply") /\ UNCHANGED <<sup, children, hostVars>>
  BY DEF StreamReady
<1> QED BY <1>3, <1>4, <1>5, HandlerStep, ZenonT(30)
(* The attach child is opened and a becomes the writer. *)
LEMMA AdmissionCommitStep ==
    ASSUME IInv, NEW a \in Attachments, AdmissionCommit(a)
    PROVE  IInv'
<1>1. /\ att \in [Attachments -> Records] /\ sup \in Supervisors /\ TypeOK
      /\ children \subseteq Attachments /\ a # None
  BY NoneAssumption DEF IInv, TypeOK
<1>2. /\ task[a] = "read" /\ ~att[a].closing /\ sup.pending = a
      /\ att[a].phase = "WAIT_COMMIT" /\ sup.handle = None
      /\ Go(a, "tick", "reply") /\ UNCHANGED hostVars
      /\ sup' = [sup EXCEPT !.writer = a, !.handle = a, !.state = "RUNNING"]
      /\ children' = children \cup {a}
      /\ att' = [att EXCEPT ![a].phase = "COMMITTED"]
  BY DEF AdmissionCommit, MayCommit, At, Check, Fresh, RunningGuard, Guard
<1>3. OnlyHandler(a) /\ task'[a] = "tick" /\ frame'[a] = "reply"
  BY <1>1, <1>2, GoIs DEF Tasks, Frames
<1>4. /\ sup' \in Supervisors /\ sup'.pending = a /\ sup'.writer = a
      /\ sup'.handle = a /\ sup'.proven = sup.proven
  BY <1>1, <1>2, ZenonT(30) DEF Supervisors
<1>5. PICK q : q = att'[a]
  OBVIOUS
<1>6. /\ q \in Records /\ q.phase = "COMMITTED" /\ q.reg = att[a].reg
      /\ q.owner = att[a].owner /\ q.cleaned = att[a].cleaned /\ q.closing = att[a].closing
      /\ q.fenced = att[a].fenced /\ q.proof = att[a].proof
  BY <1>1, <1>2, <1>5 DEF Records
<1>7. /\ att' \in [Attachments -> Records]
      /\ \A b \in Attachments \ {a} : att'[b] = att[b]
  BY <1>1, <1>2, <1>5, <1>6
<1>8. Entry(sup, att[a], task[a], frame[a], a)
  BY DEF IInv, Entries
<1>9. att[a].reg = "open"
  BY <1>1, <1>2, <1>8 DEF Entry, Records
<1>10. Sole'
  BY <1>5, <1>6, <1>7 DEF IInv, Sole, Retained
<1>11. Lease'
  <2>1. /\ children \subseteq {a} /\ att[a].cleaned # "confirmed"
    BY <1>1, <1>2 DEF IInv, Lease
  <2> QED BY <2>1, <1>2, <1>4, <1>5, <1>6, <1>9 DEF Lease, Retained
<1>12. Entries'
  <2>1. Entry(sup', q, "tick", "reply", a)
    BY <1>2, <1>4, <1>6, <1>8, <1>9 DEF Entry
  <2>2. \A b \in Attachments \ {a} : Entry(sup', att[b], task[b], frame[b], b)
    <3> TAKE b \in Attachments \ {a}
    <3>1. Entry(sup, att[b], task[b], frame[b], b)
      BY DEF IInv, Entries
    <3>2. sup.pending # b /\ sup.writer # b
      BY <1>1, <1>2, NoneAssumption DEF IInv, Lease
    <3> QED BY <3>1, <3>2, <1>4 DEF Entry
  <2> QED BY <2>1, <2>2, <1>3, <1>5, <1>7, ZenonT(30) DEF Entries, OnlyHandler
<1>13. Owned' /\ Quiet'
  <2>1. \A b \in Attachments :
          /\ Retained(att'[b]) => Retained(att[b]) /\ att'[b].owner = att[b].owner
          /\ att'[b].reg = "open" =>
                att[b].reg = "open" /\ (att[b].closing => att'[b].closing)
    BY <1>5, <1>6, <1>7 DEF Retained
  <2> QED BY <2>1, <1>2, HostKept
<1>14. TypeOK'
  BY <1>1, <1>2, <1>3, <1>4, <1>7, HostTypes DEF OnlyHandler
<1> QED BY <1>10, <1>11, <1>12, <1>13, <1>14 DEF IInv

(* open_attachment() fails, with or without a child left behind. *)
LEMMA CommitFailsStep ==
    ASSUME IInv, NEW a \in Attachments, CommitFails(a)
    PROVE  IInv' /\ ClosesOnly(a)
<1>0. PICK left : left = [sup EXCEPT !.proven = a]
  BY ZenonT(30)
<1>1. PICK c \in {children, children \cup {a}}, s \in {sup, left} :
        CloseFrom(CleanedUp(s, a, FALSE), c, Draining(att[a]), a, TRUE)
  BY <1>0, ZenonT(30) DEF CommitFails
<1>2. /\ task[a] = "read" /\ ~att[a].closing /\ sup.pending = a
      /\ Go(a, "failed", "none") /\ UNCHANGED hostVars
  BY DEF CommitFails, MayCommit, At, Check, Fresh, RunningGuard, Guard
<1>3. /\ s \in Supervisors /\ s.pending = a /\ s.writer = sup.writer
      /\ s.handle = sup.handle /\ s.proven \in {sup.proven, a}
  BY <1>0, <1>2 DEF IInv, TypeOK, Supervisors
<1>4. PICK z : z = CleanedUp(s, a, FALSE)
  BY ZenonT(30)
<1>5. Near(z, a) /\ (z.pending = a \/ z.proven = a)
  <2>1. PICK closes \in BOOLEAN : closes = FALSE /\ z = CleanedUp(s, a, closes)
    BY <1>4, ZenonT(30)
  <2> QED BY <1>2, <1>3, <2>1, CleanedUpIs DEF Near
<1>6. Kin(Draining(att[a]), a) /\ att[a].reg \in {"open", "gone"}
  BY <1>2, SessionIs
<1>7. att[a].reg = "open"
  BY <1>2, <1>6 DEF IInv, Entries, Entry
<1>8. CloseFrom(z, c, Draining(att[a]), a, TRUE)
  BY <1>1, <1>4, ZenonT(30)
<1>9. "failed" \in Tasks \ {"none"} /\ "none" \in Frames \ {"output"}
  BY DEF Tasks, Frames
<1>10. /\ c \in {children, children \cup {a}} /\ task[a] # "none" /\ TRUE \in BOOLEAN
       /\ a \in c => att[a].reg = "open" /\ (z.pending = a \/ z.proven = a)
  BY <1>1, <1>2, <1>5, <1>7
<1> QED BY <1>2, <1>5, <1>6, <1>8, <1>9, <1>10, HandlerClose, ZenonT(30)

(* The supervisor closes the attachment, then the session closes too. *)
LEMMA ResizeFailsStep ==
    ASSUME IInv, NEW a \in Attachments, ResizeFails(a)
    PROVE  IInv' /\ ClosesOnly(a)
<1>1. PICK closes \in BOOLEAN :
        CloseFrom(CleanedUp(sup, a, closes), children, Draining(att[a]), a, TRUE)
  BY ZenonT(30) DEF ResizeFails
<1>2. /\ task[a] = "read" /\ sup.pending = a
      /\ Go(a, "failed", "none") /\ UNCHANGED hostVars
  BY DEF ResizeFails, At, WriterGuard, Guard
<1>3. sup \in Supervisors
  BY DEF IInv, TypeOK
<1>4. PICK z : z = CleanedUp(sup, a, closes)
  OBVIOUS
<1>5. Near(z, a) /\ (z.pending = a \/ z.proven = a)
  BY <1>2, <1>3, <1>4, CleanedUpIs DEF Near
<1>6. /\ Kin(Draining(att[a]), a)
      /\ a \in children => att[a].reg = "open" /\ sup.pending = a
  BY <1>2, SessionIs
<1> QED BY <1>1, <1>2, <1>4, <1>5, <1>6, HandlerClose, ZenonT(30) DEF Tasks, Frames
(* The process state found by an operation of the handler of a. *)
LEMMA ProcessStateStep ==
    ASSUME IInv, NEW a \in Attachments, task[a] # "none", NEW state,
           NEW where \in Tasks \ {"none"}, ProcessState(a, state, where)
    PROVE  IInv' /\ (att' = att \/ ClosesOnly(a))
<1>1. "status" \in Frames \ {"output"} /\ "finally" \in Tasks \ {"none"} /\ sup \in {sup}
  BY DEF Frames, Tasks
<1>2. CASE state = "NEEDS_INTERACTION"
  <2>1. Go(a, where, "status") /\ UNCHANGED <<sup, children, att, hostVars>>
    BY <1>2 DEF ProcessState
  <2> QED BY <2>1, <1>1, GoStep
<1>3. CASE state # "NEEDS_INTERACTION"
  <2>1. /\ CloseFrom(sup, children, Draining(att[a]), a, TRUE)
        /\ Go(a, "finally", "status") /\ UNCHANGED hostVars
    BY <1>3, ZenonT(30) DEF ProcessState, CloseDrain
  <2> QED BY <2>1, <1>1, DrainStep, ZenonT(30)
<1> QED BY <1>2, <1>3

LEMMA InputStep ==
    ASSUME IInv, NEW a \in Attachments, Input(a) \/ Flush(a)
    PROVE  IInv' /\ (att' = att \/ ClosesOnly(a))
<1>1. /\ "status" \in Frames \ {"output"} /\ task[a] # "none"
      /\ {"tick", "flush", "finally"} \subseteq Tasks \ {"none"}
  BY ZenonT(30) DEF Input, Flush, At, Frames, Tasks
<1>2. CASE \E state : ProcessState(a, state, "tick")
  BY <1>1, <1>2, ProcessStateStep
<1>3. CASE \E where \in {"tick", "flush"} :
              Go(a, where, "status") /\ UNCHANGED <<sup, children, att, hostVars>>
  BY <1>1, <1>3, GoStep
<1>4. CASE /\ \E s \in {sup, [sup EXCEPT !.state = "INPUT_UNCERTAIN"]} :
                 CloseFrom(s, children, Draining(att[a]), a, TRUE)
           /\ Go(a, "finally", "status") /\ UNCHANGED hostVars
  BY <1>1, <1>4, DrainStep, ZenonT(30)
<1> QED BY <1>2, <1>3, <1>4, ZenonT(30) DEF Input, Flush

(* The operations that close the session where it stands. *)
LEMMA EndStep ==
    ASSUME IInv, NEW a \in Attachments,
           InputLost(a) \/ Detach(a) \/ CloseFrame(a) \/ Refuse(a)
    PROVE  IInv' /\ ClosesOnly(a)
<1>1. PICK where \in {"finally", "failed"}, kind \in {"none", "status"} :
        /\ CloseFrom(sup, children, Draining(att[a]), a, TRUE)
        /\ Go(a, where, kind) /\ UNCHANGED hostVars
  BY ZenonT(30) DEF InputLost, Detach, CloseFrame, Refuse, CloseDrain
<1>2. task[a] # "none"
  BY DEF InputLost, Detach, CloseFrame, Refuse, At
<1>3. where \in Tasks \ {"none"} /\ kind \in Frames \ {"output"} /\ sup \in {sup}
  BY <1>1 DEF Tasks, Frames
<1> QED BY <1>1, <1>2, <1>3, DrainStep, ZenonT(30)

LEMMA TickStep ==
    ASSUME IInv, NEW a \in Attachments, Tick(a)
    PROVE  IInv' /\ (att' = att \/ ClosesOnly(a))
<1>1. /\ {"status", "none"} \subseteq Frames \ {"output"} /\ task[a] # "none"
      /\ {"read", "output", "finally"} \subseteq Tasks \ {"none"}
  BY DEF Tick, At, Frames, Tasks
<1>2. CASE ProcessState(a, proc, "output")
  BY <1>1, <1>2, ProcessStateStep
<1>3. CASE \E where \in {"read", "output"} :
              Go(a, where, "none") /\ UNCHANGED <<sup, children, att, hostVars>>
  BY <1>1, <1>3, GoStep
<1>4. CASE /\ CloseFrom(sup, children, Draining(att[a]), a, TRUE)
           /\ Go(a, "finally", "status") /\ UNCHANGED hostVars
  BY <1>1, <1>4, DrainStep, ZenonT(30)
<1> QED BY <1>2, <1>3, <1>4, ZenonT(30) DEF Tick, CloseDrain

(* A committed session builds a frame of terminal output. *)
LEMMA OutputStep ==
    ASSUME IInv, NEW a \in Attachments, Output(a)
    PROVE  IInv' /\ (att' = att \/ ClosesOnly(a))
<1>1. task[a] # "none" /\ "read" \in Tasks \ {"none"}
  BY DEF Output, At, Tasks
<1>2. CASE proc # "RUNNING"
  <2>1. ProcessState(a, proc, "read")
    BY <1>2 DEF Output
  <2> QED BY <2>1, <1>1, ProcessStateStep
<1>3. CASE proc = "RUNNING"
  <2>1. PICK kind \in {"none", "output"} : Go(a, "read", kind)
    BY <1>3 DEF Output
  <2>2. UNCHANGED <<sup, children, att, hostVars>> /\ sup.writer = a
    BY <1>3 DEF Output, WriterGuard
  <2>3. att[a].phase \in {"COMMITTED", "CLOSED"}
    BY <2>2 DEF IInv, Entries, Entry
  <2>4. kind \in Frames
    BY <2>1 DEF Frames
  <2> QED BY <2>1, <2>2, <2>3, <2>4, <1>1, GoStep
<1> QED BY <1>2, <1>3

(* The handler moves on with the session as it is. *)
LEMMA MoveStep ==
    ASSUME IInv, NEW a \in Attachments, Resize(a) \/ Leave(a) \/ PublishFails(a)
    PROVE  IInv' /\ att' = att
<1>1. PICK where \in {"tick", "finally"}, kind \in {"none", "reply"} :
        Go(a, where, kind) /\ UNCHANGED <<sup, children, att, hostVars>>
  BY DEF Resize, Leave, PublishFails
<1>2. task[a] # "none"
  BY DEF Resize, Leave, PublishFails, At, IInv, Entries, Entry
<1>3. where \in Tasks \ {"none"} /\ kind \in Frames /\ kind # "output"
  BY <1>1 DEF Tasks, Frames
<1> QED BY <1>1, <1>2, <1>3, GoStep

LEMMA PublishStep ==
    ASSUME IInv, NEW a \in Attachments, Publish(a)
    PROVE  IInv' /\ att' = att
<1>1. task[a] \in Tasks \ {"none"} /\ "none" \in Frames /\ "none" # "output"
  BY DEF Publish, IInv, Entries, Entry, TypeOK, Frames
<1>2. Go(a, task[a], "none") /\ UNCHANGED <<sup, children, att, hostVars>>
  BY DEF Publish, Go, IInv, TypeOK
<1>3. IInv'
  BY <1>1, <1>2, GoStep, ZenonT(30)
<1> QED BY <1>2, <1>3

LEMMA FailureProfileStep ==
    ASSUME IInv, NEW a \in Attachments, FailureProfile(a)
    PROVE  IInv' /\ (att' = att \/ ClosesOnly(a))
<1>1. /\ {"none", "status"} \subseteq Frames \ {"output"} /\ task[a] # "none"
      /\ "finally" \in Tasks \ {"none"} /\ sup \in {sup}
  BY DEF FailureProfile, At, Tasks, Frames
<1>2. CASE Go(a, "finally", "none") /\ UNCHANGED <<sup, children, att, hostVars>>
  BY <1>1, <1>2, GoStep
<1>3. CASE /\ CloseFrom(sup, children, Draining(att[a]), a, TRUE)
           /\ Go(a, "finally", "status") /\ UNCHANGED hostVars
  BY <1>1, <1>3, DrainStep, ZenonT(30)
<1> QED BY <1>2, <1>3, ZenonT(30) DEF FailureProfile, CloseDrain

(* The finally clause invalidates the session, then closes it. *)
LEMMA FinallyStep ==
    ASSUME IInv, NEW a \in Attachments, Finally(a)
    PROVE  IInv' /\ SameStanding
<1>1. att[a] \in Records /\ att \in [Attachments -> Records]
  BY DEF IInv, TypeOK
<1>2. PICK fences \in BOOLEAN : att' = [att EXCEPT ![a] = Invalidated(att[a], fences)]
  BY <1>1, ZenonT(30) DEF Finally, Fences
<1>3. PICK q : q = Invalidated(att[a], fences)
  OBVIOUS
<1>4. q \in Records /\ Soft(att[a], q) /\ att' = [att EXCEPT ![a] = q]
  BY <1>1, <1>2, <1>3, ZenonT(30) DEF Invalidated, Soft, Records
<1>5. /\ task[a] # "none" /\ "closing" \in Tasks \ {"none"} /\ "none" \in Frames
      /\ Go(a, "closing", "none") /\ UNCHANGED <<sup, children, hostVars>>
  BY DEF Finally, At, Tasks, Frames
<1>6. IInv'
  BY <1>4, <1>5, HandlerStep, ZenonT(30)
<1>7. \A b \in Attachments : Soft(att[b], att'[b])
  BY <1>1, <1>4 DEF Soft
<1> QED BY <1>6, <1>7, SoftStands

LEMMA FinalCloseStep ==
    ASSUME IInv, NEW a \in Attachments, FinalClose(a)
    PROVE  IInv' /\ ClosesOnly(a)
<1>1. PICK fences \in BOOLEAN :
        CloseFrom(sup, children, Invalidated(att[a], fences), a, FALSE)
  BY ZenonT(30) DEF FinalClose, Fences
<1>2. /\ task[a] # "none" /\ Go(a, "done", "none") /\ UNCHANGED hostVars
      /\ "done" \in Tasks \ {"none"} /\ "none" \in Frames \ {"output"}
  BY DEF FinalClose, At, Tasks, Frames
<1>3. /\ Kin(Invalidated(att[a], fences), a) /\ Near(sup, a)
      /\ a \in children => att[a].reg = "open" /\ sup.pending = a
  BY <1>2, SessionIs
<1> QED BY <1>1, <1>2, <1>3, HandlerClose, ZenonT(30)
-----------------------------------------------------------------------------
(* The registry: sweep, prepare, open.                                     *)

(* Without a session there is no attach child to prove closed: the record  *)
(* is burnt and stays, and the supervisor keeps its slots.                 *)
LEMMA BurntIs ==
    ASSUME IInv, NEW a \in Attachments, att[a].reg \in {"prepared", "burnt"}
    PROVE  /\ Released(sup, att[a], a, FALSE, TRUE) \in Records
           /\ Soft(att[a], Released(sup, att[a], a, FALSE, TRUE))
           /\ Released(sup, att[a], a, FALSE, TRUE).closing = att[a].closing
           /\ Released(sup, att[a], a, FALSE, TRUE).phase = att[a].phase
<1>1. att[a] \in Records /\ sup.proven # a /\ att[a].cleaned # "confirmed"
  BY DEF IInv, TypeOK, Entries, Entry
<1>2. ~Confirms(sup, a, FALSE)
  BY <1>1 DEF Confirms, ProvesClosed
<1> QED BY <1>1, <1>2, ZenonT(30) DEF Released, Records, Soft

LEMMA UnprovenIs ==
    ASSUME IInv, NEW a \in Attachments, att[a].reg \in {"prepared", "burnt"},
           sup' = SupAfter(sup, att[a], a, FALSE)
    PROVE  SameSlots
<1>1. sup \in Supervisors /\ sup.proven # a /\ att[a].cleaned # "confirmed"
  BY DEF IInv, TypeOK, Entries, Entry
<1>2. sup' = CleanedUp(sup, a, FALSE)
  BY <1>1 DEF SupAfter
<1> QED BY <1>1, <1>2, ZenonT(30) DEF CleanedUp, ProvesClosed, SameSlots, Supervisors

(* A step of the registry that changes no slot and no handler. *)
LEMMA RecordStep ==
    ASSUME IInv, SameSlots, att' \in [Attachments -> Records],
           \A b \in Attachments : Soft(att[b], att'[b]) /\ att'[b].phase = att[b].phase,
           \A b \in Attachments : task[b] = "none" => att'[b].closing = att[b].closing,
           UNCHANGED <<children, task, frame>>
    PROVE  Sole' /\ Lease' /\ Entries' /\ SameStanding
<1>1. \A b \in Attachments : Entry(sup, att[b], task[b], frame[b], b)
  BY DEF IInv, Entries
<1>2. \A b \in Attachments :
         /\ task'[b] = "none" <=> task[b] = "none"
         /\ task'[b] = "none" => frame'[b] = "none"
         /\ frame'[b] = "output" =>
              task'[b] = "read" /\ att'[b].phase \in {"COMMITTED", "CLOSED"}
  BY <1>1 DEF Entry
<1>3. Sole' /\ Lease' /\ Entries'
  BY <1>2, SoftStep
<1> QED BY <1>3, SoftStands

(* The same, on one side of the host's variables. *)
LEMMA RegistryStep ==
    ASSUME IInv, SameSlots, att' \in [Attachments -> Records],
           \A b \in Attachments : Soft(att[b], att'[b]) /\ att'[b].phase = att[b].phase,
           \A b \in Attachments : task[b] = "none" => att'[b].closing = att[b].closing,
           UNCHANGED <<children, task, frame, hostVars>>
    PROVE  IInv' /\ SameStanding
<1>1. UNCHANGED <<children, task, frame>> /\ UNCHANGED hostVars
  OBVIOUS
<1>2. Sole' /\ Lease' /\ Entries' /\ SameStanding
  BY <1>1, RecordStep
<1>3. Owned' /\ Quiet'
  BY <1>1, HostKept DEF Soft, Retained
<1>4. TypeOK'
  <2>1. TypeOK
    BY DEF IInv
  <2> QED BY <2>1, <1>1, HostTypes DEF SameSlots, TypeOK
<1> QED BY <1>2, <1>3, <1>4 DEF IInv

LEMMA SweepStep ==
    ASSUME IInv, sup' = SweptSup, att' = SweptAtt,
           UNCHANGED <<children, task, frame, hostVars>>
    PROVE  IInv' /\ SameStanding
<1>1. Stale \subseteq Attachments /\ \A b \in Stale : att[b].reg \in {"prepared", "burnt"}
  BY DEF Stale
<1>2. SameSlots
  <2>1. CASE Stale = {}
    BY <2>1 DEF SweptSup, SameSlots, IInv, TypeOK
  <2>2. CASE Stale # {}
    <3>1. PICK b \in Stale : sup' = SupAfter(sup, att[b], b, FALSE)
      BY <2>2, ZenonT(30) DEF SweptSup
    <3> QED BY <3>1, <1>1, UnprovenIs, ZenonT(30)
  <2> QED BY <2>1, <2>2
<1>3. att \in [Attachments -> Records]
  BY DEF IInv, TypeOK
<1>4. \A b \in Attachments :
         /\ att'[b] \in Records /\ Soft(att[b], att'[b])
         /\ att'[b].phase = att[b].phase /\ att'[b].closing = att[b].closing
  <2> TAKE b \in Attachments
  <2>1. CASE b \in Stale
    <3>1. att'[b] = Released(sup, att[b], b, FALSE, TRUE)
      BY <2>1 DEF SweptAtt
    <3> QED BY <3>1, <2>1, <1>1, BurntIs, ZenonT(30)
  <2>2. CASE b \notin Stale
    BY <2>2, <1>3 DEF SweptAtt, Soft
  <2> QED BY <2>1, <2>2
<1>5. att' \in [Attachments -> Records]
  BY <1>4, ZenonT(30) DEF SweptAtt
<1> QED BY <1>2, <1>4, <1>5, RegistryStep
(* prepare() adds a record while the workspace has none. *)
Reserves(a) ==
    /\ att[a].reg = "none" /\ Retained(att'[a])
    /\ \A b \in Attachments : ~Retained(att[b])
    /\ \A b \in Attachments \ {a} : att'[b] = att[b]
    /\ UNCHANGED children

LEMMA ReserveStep ==
    ASSUME IInv, NEW a \in Attachments, att[a].reg = "none",
           \A b \in Attachments : ~Retained(att[b]),
           ~stopping, api.alive,
           NEW q \in Records, att' = [att EXCEPT ![a] = q],
           q.reg \in {"prepared", "burnt"}, q.owner = api.gen, q.cleaned # "confirmed",
           q.phase = "NONE", ~q.closing, q.proof = "none",
           sup' \in Supervisors, sup'.pending = a, sup'.writer = sup.writer,
           sup'.handle = sup.handle, sup'.proven = sup.proven,
           UNCHANGED <<children, task, frame, hostVars>>
    PROVE  IInv' /\ Reserves(a)
<1>1. /\ att \in [Attachments -> Records] /\ sup \in Supervisors /\ TypeOK
      /\ children \subseteq Attachments /\ a # None
  BY NoneAssumption DEF IInv, TypeOK
<1>2. /\ att' \in [Attachments -> Records] /\ att'[a] = q
      /\ \A b \in Attachments \ {a} : att'[b] = att[b]
  BY <1>1
<1>3. sup.pending = None /\ sup.writer = None /\ sup.handle = None /\ children = {}
  BY <1>1, NoneAssumption DEF IInv, Lease, Supervisors
<1>4. Sole'
  BY <1>2 DEF Sole, Retained
<1>5. Lease'
  BY <1>1, <1>2, <1>3 DEF Lease, Retained
<1>6. Entries'
  <2>1. Entry(sup, att[a], task[a], frame[a], a)
    BY DEF IInv, Entries
  <2>2. Entry(sup', q, task[a], frame[a], a)
    BY <2>1, <1>1, <1>3 DEF Entry
  <2>3. \A b \in Attachments \ {a} : Entry(sup', att[b], task[b], frame[b], b)
    <3> TAKE b \in Attachments \ {a}
    <3>1. Entry(sup, att[b], task[b], frame[b], b) /\ ~Retained(att[b]) /\ b # None
      BY NoneAssumption DEF IInv, Entries
    <3> QED BY <3>1, <1>3 DEF Entry, Retained
  <2> QED BY <2>2, <2>3, <1>2, ZenonT(30) DEF Entries
<1>7. Owned' /\ Quiet'
  BY <1>2 DEF IInv, Owned, Quiet, Retained, hostVars
<1>8. TypeOK'
  BY <1>1, <1>2, HostTypes DEF TypeOK
<1> QED BY <1>2, <1>4, <1>5, <1>6, <1>7, <1>8 DEF IInv, Reserves, Retained

LEMMA PrepareStep ==
    ASSUME IInv, NEW a \in Attachments, Prepare(a)
    PROVE  IInv' /\ (SameStanding \/ Reserves(a))
<1>1. /\ UNCHANGED <<children, task, frame, hostVars>> /\ ~stopping /\ api.alive
      /\ att[a].reg = "none"
  BY DEF Prepare
<1>2. CASE Busy(a)
  BY <1>1, <1>2, SweepStep DEF Prepare
<1>3. CASE ~Busy(a)
  <2>1. \A b \in Attachments : ~Retained(SweptAtt[b])
    BY <1>3 DEF Busy
  <2>2. \A b \in Attachments : b \in Stale => FALSE
    <3> SUFFICES ASSUME NEW b \in Stale PROVE FALSE
      OBVIOUS
    <3>1. b \in Attachments /\ att[b].reg \in {"prepared", "burnt"}
      BY DEF Stale
    <3>2. SweptAtt[b] = Released(sup, att[b], b, FALSE, TRUE)
      BY <3>1 DEF SweptAtt
    <3>3. Retained(SweptAtt[b])
      BY <3>1, <3>2, BurntIs, ZenonT(30) DEF Soft, Retained
    <3> QED BY <3>1, <3>3, <2>1
  <2>3. att \in [Attachments -> Records] /\ sup \in Supervisors /\ api.gen \in 1 .. MaxAuthority
    BY DEF IInv, TypeOK
  <2>4. Stale = {} /\ SweptSup = sup /\ SweptAtt = att
    BY <2>2, <2>3, ZenonT(30) DEF Stale, SweptSup, SweptAtt
  <2>0. PICK s : s = [sup EXCEPT !.pending = a]
    BY ZenonT(30)
  <2>5. PICK guarded \in BOOLEAN :
          /\ sup' = IF guarded THEN s ELSE SupAfter(s, Reserved(a), a, FALSE)
          /\ att' = [att EXCEPT ![a] = IF guarded THEN Reserved(a)
                                       ELSE Released(s, Reserved(a), a, FALSE, TRUE)]
    BY <1>3, <2>0, <2>4, ZenonT(30) DEF Prepare
  <2>6. PICK q : q = IF guarded THEN Reserved(a)
                     ELSE Released(s, Reserved(a), a, FALSE, TRUE)
    BY ZenonT(30)
  <2>7. /\ s \in Supervisors /\ s.pending = a /\ s.writer = sup.writer
        /\ s.handle = sup.handle /\ s.proven = sup.proven
    BY <2>0, <2>3 DEF Supervisors
  <2>8. sup.proven # a
    BY <1>1 DEF IInv, Entries, Entry
  <2>9. PICK r : r = Reserved(a)
    OBVIOUS
  <2>10. /\ r \in Records /\ r.reg = "prepared" /\ r.owner = api.gen /\ r.cleaned = "none"
         /\ r.phase = "NONE" /\ ~r.closing /\ r.proof = "none"
    <3>1. api.gen \in 0 .. MaxAuthority
      BY <2>3, BoundsAssumption
    <3>2. r = [reg |-> "prepared", owner |-> api.gen, late |-> FALSE, cleaned |-> "none",
               phase |-> "NONE", closing |-> FALSE, drain |-> "none", fenced |-> FALSE,
               proof |-> "none"]
      BY <2>9, ZenonT(30) DEF Reserved, NoRecord
    <3> QED BY <3>1, <3>2 DEF Records
  <2>11. ~Confirms(s, a, FALSE)
    BY <2>7, <2>8 DEF Confirms, ProvesClosed
  <2>12. /\ q \in Records /\ q.reg \in {"prepared", "burnt"} /\ q.owner = api.gen
         /\ q.cleaned # "confirmed" /\ q.phase = "NONE" /\ ~q.closing /\ q.proof = "none"
    <3>1. q = r \/ q = Released(s, r, a, FALSE, TRUE)
      BY <2>6, <2>9, ZenonT(30)
    <3> QED BY <3>1, <2>10, <2>11, ZenonT(30) DEF Released, Records
  <2>13. /\ sup' \in Supervisors /\ sup'.pending = a /\ sup'.writer = sup.writer
         /\ sup'.handle = sup.handle /\ sup'.proven = sup.proven
    <3>1. sup' = s \/ sup' = CleanedUp(s, a, FALSE)
      BY <2>5, <2>9, <2>10, ZenonT(30) DEF SupAfter
    <3> QED BY <3>1, <2>7, <2>8 DEF CleanedUp, ProvesClosed, Supervisors
  <2>14. att' = [att EXCEPT ![a] = q]
    BY <2>5, <2>6
  <2>15. \A b \in Attachments : ~Retained(att[b])
    BY <2>1, <2>4
  <2> QED BY <1>1, <2>12, <2>13, <2>14, <2>15, ReserveStep, ZenonT(30)
<1> QED BY <1>2, <1>3

LEMMA OpenedIs ==
    ASSUME NEW r \in Records, NEW q, q = Opened(r)
    PROVE  /\ q \in Records /\ q.reg = "open" /\ q.phase = "WAIT_KEY_INIT"
           /\ q.owner = r.owner /\ q.cleaned = r.cleaned
           /\ q.closing = r.closing /\ q.proof = r.proof
<1>1. PICK m : m = [r EXCEPT !.reg = "open"]
  BY ZenonT(30)
<1>2. m \in Records
  BY <1>1, ZenonT(30) DEF Records
<1>3. q = [m EXCEPT !.phase = "WAIT_KEY_INIT"]
  BY <1>1, ZenonT(30) DEF Opened
<1>4. q \in Records
  BY <1>2, <1>3, ZenonT(30) DEF Records
<1>5. /\ m.reg = "open" /\ m.owner = r.owner /\ m.cleaned = r.cleaned
      /\ m.closing = r.closing /\ m.proof = r.proof
  BY <1>1, ZenonT(30) DEF Records
<1>6. /\ q.phase = "WAIT_KEY_INIT" /\ q.reg = m.reg /\ q.owner = m.owner
      /\ q.cleaned = m.cleaned /\ q.closing = m.closing /\ q.proof = m.proof
  BY <1>2, <1>3, ZenonT(30) DEF Records
<1> QED BY <1>4, <1>5, <1>6, ZenonT(30)

(* A prepared record becomes a session, running or closed at once, while   *)
(* other handlers may be told to end.                                      *)
LEMMA SessionOpens ==
    ASSUME IInv, NEW a \in Attachments, att[a].reg = "prepared", sup.pending = a,
           SameSlots, children' \subseteq children, att' \in [Attachments -> Records],
           NEW q \in Records, att'[a] = q, q.reg = "open", q.owner = att[a].owner,
           q.cleaned # "confirmed", q.proof # "confirmed",
           q.phase \in {"WAIT_KEY_INIT", "CLOSED"}, q.phase = "CLOSED" => q.closing,
           \A b \in Attachments \ {a} :
              /\ Soft(att[b], att'[b]) /\ att'[b].phase = att[b].phase
              /\ task[b] = "none" => att'[b].closing = att[b].closing,
           OnlyHandler(a), task'[a] # "none", frame'[a] # "output",
           api' = api, stopping' = stopping, proc' = proc,
           q.closing \/ (~stopping /\ proc # "STOPPED")
    PROVE  Sole' /\ Lease' /\ Entries' /\ Owned' /\ Quiet' /\ SameStanding
<1>1. \A b \in Attachments : Entry(sup, att[b], task[b], frame[b], b)
  BY DEF IInv, Entries
<1>2. \A b \in Attachments \ {a} : ~Retained(att[b]) /\ ~Retained(att'[b])
  BY DEF IInv, Sole, Soft, Retained
<1>3. Sole'
  BY <1>2 DEF Sole
<1>4. SameStanding
  BY <1>2 DEF SameStanding, Retained, Soft
<1>5. Lease'
  BY DEF IInv, Lease, Retained, SameSlots
<1>6. Entries'
  <2>1. Entry(sup', q, task'[a], frame'[a], a)
    BY <1>1 DEF Entry, SameSlots
  <2>2. ASSUME NEW b \in Attachments \ {a}
        PROVE  Entry(sup', att'[b], task'[b], frame'[b], b)
    <3>1. Entry(sup, att[b], task[b], frame[b], b)
      BY <1>1
    <3>2. /\ Soft(att[b], att'[b]) /\ att'[b].phase = att[b].phase
          /\ task[b] = "none" => att'[b].closing = att[b].closing
          /\ task'[b] = task[b] /\ frame'[b] = frame[b]
      BY DEF OnlyHandler
    <3> QED BY <3>1, <3>2 DEF Entry, Soft, SameSlots
  <2> QED BY <2>1, <2>2, ZenonT(30) DEF Entries
<1>7. Owned'
  BY <1>2 DEF IInv, Owned, Retained
<1>8. Quiet'
  BY <1>2 DEF IInv, Quiet, Retained
<1> QED BY <1>3, <1>4, <1>5, <1>6, <1>7, <1>8

LEMMA OpenStep ==
    ASSUME IInv, NEW a \in Attachments, Open(a)
    PROVE  IInv' /\ SameStanding
<1>1. /\ att \in [Attachments -> Records] /\ sup \in Supervisors /\ TypeOK
      /\ children \subseteq Attachments
  BY DEF IInv, TypeOK
<1>2. /\ att[a].reg = "prepared" /\ sup.pending = a
      /\ ~stopping /\ proc = "RUNNING" /\ Go(a, "read", "reply")
      /\ att' = [att EXCEPT ![a] = Opened(att[a])]
      /\ UNCHANGED <<sup, children>> /\ UNCHANGED hostVars
  BY DEF Open, Check, Fresh, RunningGuard, Guard
<1>3. OnlyHandler(a) /\ task'[a] = "read" /\ frame'[a] = "reply"
  BY <1>1, <1>2, GoIs DEF Tasks, Frames
<1>4. PICK q : q = Opened(att[a])
  OBVIOUS
<1>5. /\ q \in Records /\ q.reg = "open" /\ q.phase = "WAIT_KEY_INIT"
      /\ q.owner = att[a].owner /\ q.cleaned = att[a].cleaned
      /\ q.closing = att[a].closing /\ q.proof = att[a].proof
  BY <1>1, <1>4, OpenedIs, ZenonT(30)
<1>6. /\ att' \in [Attachments -> Records] /\ att'[a] = q
      /\ \A b \in Attachments \ {a} : att'[b] = att[b]
  BY <1>1, <1>2, <1>4, <1>5
<1>7. att[a].cleaned # "confirmed" /\ att[a].proof # "confirmed"
  BY <1>2 DEF IInv, Entries, Entry
<1>8. \A b \in Attachments \ {a} : Soft(att[b], att'[b]) /\ att'[b].phase = att[b].phase
  BY <1>6 DEF Soft
<1>9. SameSlots /\ api' = api /\ stopping' = stopping /\ proc' = proc
  BY <1>1, <1>2 DEF SameSlots, hostVars
<1>10. Sole' /\ Lease' /\ Entries' /\ Owned' /\ Quiet' /\ SameStanding
  BY <1>2, <1>3, <1>5, <1>6, <1>7, <1>8, <1>9, SessionOpens
<1>11. TypeOK'
  BY <1>1, <1>2, <1>3, <1>6, HostTypes DEF OnlyHandler
<1> QED BY <1>10, <1>11 DEF IInv

(* The session of a is made and closed at once: there is no attach child   *)
(* to prove closed, and the record stays.                                  *)
LEMMA OpenClosedStep ==
    ASSUME IInv, NEW a \in Attachments, OpenClosed(a)
    PROVE  IInv' /\ SameStanding
<1>1. /\ att \in [Attachments -> Records] /\ sup \in Supervisors /\ TypeOK
      /\ children \subseteq Attachments
  BY DEF IInv, TypeOK
<1>2. /\ att[a].reg = "prepared" /\ sup.pending = a
      /\ Go(a, "done", "none") /\ UNCHANGED hostVars
  BY DEF OpenClosed, Guard
<1>3. OnlyHandler(a) /\ task'[a] = "done" /\ frame'[a] = "none"
  BY <1>1, <1>2, GoIs DEF Tasks, Frames
<1>4. PICK o : o = Opened(att[a])
  OBVIOUS
<1>5. /\ o \in Records /\ o.reg = "open" /\ o.phase = "WAIT_KEY_INIT"
      /\ o.owner = att[a].owner /\ o.cleaned = att[a].cleaned
      /\ o.closing = att[a].closing /\ o.proof = att[a].proof
  BY <1>1, <1>4, OpenedIs, ZenonT(30)
<1>6. PICK fences \in BOOLEAN, drain \in BOOLEAN :
        CloseFrom(sup, children, Invalidated(o, fences), a, drain)
  <2>1. PICK fences \in BOOLEAN :
          CloseFrom(sup, children, Invalidated(o, fences), a, FALSE)
    BY <1>4, ZenonT(30) DEF OpenClosed, Fences
  <2> QED BY <2>1, ZenonT(30)
<1>7. PICK r : r = Invalidated(o, fences)
  OBVIOUS
<1>8. /\ r \in Records /\ r.closing /\ r.reg = "open" /\ r.owner = att[a].owner
      /\ r.cleaned = att[a].cleaned /\ r.proof = att[a].proof
  BY <1>5, <1>7, InvalidatedIs
<1>9. /\ att[a].cleaned # "confirmed" /\ att[a].proof # "confirmed"
      /\ sup.proven # a /\ sup.handle # a
  <2>1. Entry(sup, att[a], task[a], frame[a], a) /\ a # None
    BY NoneAssumption DEF IInv, Entries
  <2> QED BY <2>1, <1>2 DEF Entry, IInv, Lease
<1>10. Closable(r)
  BY <1>8, <1>9 DEF Closable
<1>11. PICK closes \in BOOLEAN, broken \in BOOLEAN :
         /\ sup' = SupClosed(sup, r, a, closes)
         /\ att' = [att EXCEPT ![a] = Closed(sup, r, a, closes, broken, drain)]
         /\ children' = children \ {sup'.proven}
  BY <1>6, <1>7, ZenonT(30) DEF CloseFrom
<1>12. ~Confirms(sup, a, closes)
  BY <1>9 DEF Confirms, ProvesClosed
<1>13. PICK q : q = Closed(sup, r, a, closes, broken, drain)
  OBVIOUS
<1>14. /\ Closable(q) /\ q.phase = "CLOSED" /\ q.owner = r.owner
       /\ q.cleaned = "uncertain"
  <2>1. /\ Closable(q) /\ q.phase = "CLOSED" /\ q.owner = r.owner
        /\ q.cleaned = IF r.cleaned = "confirmed" \/ Confirms(sup, a, closes)
                       THEN "confirmed" ELSE "uncertain"
    BY <1>10, <1>13, ClosedIs
  <2>2. r.cleaned # "confirmed"
    BY <1>8, <1>9
  <2> QED BY <2>1, <2>2, <1>12, ZenonT(30)
<1>15. q \in Records /\ q.reg = "open" /\ q.proof # "confirmed" /\ q.closing
  BY <1>14 DEF Closable
<1>16. /\ att' \in [Attachments -> Records] /\ att'[a] = q
       /\ \A b \in Attachments \ {a} : att'[b] = att[b]
  BY <1>1, <1>11, <1>13, <1>15
<1>17. SameSlots
  <2>1. sup' = CleanedUp(sup, a, closes)
    BY <1>8, <1>9, <1>11, SupClosedIs
  <2> QED BY <2>1, <1>1, <1>12, CleanedUpIs DEF SameSlots
<1>18. \A b \in Attachments \ {a} : Soft(att[b], att'[b]) /\ att'[b].phase = att[b].phase
  BY <1>16 DEF Soft
<1>19. children' \subseteq children /\ api' = api /\ stopping' = stopping /\ proc' = proc
  BY <1>2, <1>11 DEF hostVars
<1>20. Sole' /\ Lease' /\ Entries' /\ Owned' /\ Quiet' /\ SameStanding
  BY <1>2, <1>3, <1>8, <1>14, <1>15, <1>16, <1>17, <1>18, <1>19, SessionOpens
<1>21. TypeOK'
  BY <1>1, <1>2, <1>3, <1>16, <1>17, <1>19, HostTypes DEF OnlyHandler, SameSlots
<1> QED BY <1>20, <1>21 DEF IInv

(* Invalidating every session that is served moves no record. *)
LEMMA InvalidationsAre ==
    ASSUME att \in [Attachments -> Records], NEW shut \in SUBSET Attachments,
           NEW new, new = Invalidations(shut)
    PROVE  \A b \in Attachments :
              /\ new[b] \in Records /\ Soft(att[b], new[b]) /\ new[b].phase = att[b].phase
              /\ new[b].reg = att[b].reg
              /\ task[b] = "none" => new[b].closing = att[b].closing
<1> TAKE b \in Attachments
<1>1. CASE task[b] \in {"none", "done"}
  BY <1>1 DEF Soft, Invalidations, Served
<1>2. CASE task[b] \notin {"none", "done"}
  <2>1. PICK fences \in BOOLEAN : new[b] = Invalidated(att[b], fences)
    <3>1. new[b] = Invalidated(att[b], b \in shut)
      BY <1>2 DEF Invalidations, Served
    <3>2. (b \in shut) \in BOOLEAN
      OBVIOUS
    <3> QED BY <3>1, <3>2, ZenonT(30)
  <2>2. PICK q : q = Invalidated(att[b], fences)
    OBVIOUS
  <2>3. /\ q \in Records /\ q.closing /\ q.reg = att[b].reg /\ q.owner = att[b].owner
        /\ q.cleaned = att[b].cleaned /\ q.phase = att[b].phase
        /\ q.fenced = (att[b].fenced \/ fences) /\ q.proof = att[b].proof
    BY <2>1, <2>2, InvalidatedIs
  <2> QED BY <1>2, <2>1, <2>2, <2>3, ZenonT(30) DEF Soft
<1> QED BY <1>1, <1>2

(* A session nobody serves is left behind by the handler that timed out. *)
LEMMA OpenTimesOutStep ==
    ASSUME IInv, NEW a \in Attachments, OpenTimesOut(a)
    PROVE  IInv' /\ SameStanding
<1>1. /\ att \in [Attachments -> Records] /\ sup \in Supervisors /\ TypeOK
      /\ children \subseteq Attachments
  BY DEF IInv, TypeOK
<1>2. /\ att[a].reg = "prepared" /\ sup.pending = a
      /\ ~stopping /\ proc = "RUNNING" /\ Go(a, "done", "none")
      /\ sup' = sup /\ children' = children /\ proc' = proc
      /\ stopping' = stopping /\ api' = api /\ invalidated' = TRUE
  BY DEF OpenTimesOut, RunningGuard, Guard
<1>3. OnlyHandler(a) /\ task'[a] = "done" /\ frame'[a] = "none"
  BY <1>1, <1>2, GoIs DEF Tasks, Frames
<1>4. PICK q : q = Opened(att[a])
  OBVIOUS
<1>5. /\ q \in Records /\ q.reg = "open" /\ q.phase = "WAIT_KEY_INIT"
      /\ q.owner = att[a].owner /\ q.cleaned = att[a].cleaned
      /\ q.closing = att[a].closing /\ q.proof = att[a].proof
  BY <1>1, <1>4, OpenedIs, ZenonT(30)
<1>6. PICK shut \in SUBSET Attachments :
        att' = [Invalidations(shut) EXCEPT ![a] = Opened(att[a])]
  BY ZenonT(30) DEF OpenTimesOut, Served
<1>7. PICK new : new = Invalidations(shut)
  OBVIOUS
<1>8. \A b \in Attachments :
         /\ new[b] \in Records /\ Soft(att[b], new[b]) /\ new[b].phase = att[b].phase
         /\ task[b] = "none" => new[b].closing = att[b].closing
  BY <1>1, <1>7, InvalidationsAre
<1>9. new \in [Attachments -> Records]
  BY <1>7, <1>8 DEF Invalidations
<1>10. /\ att' \in [Attachments -> Records] /\ att'[a] = q
       /\ \A b \in Attachments \ {a} : att'[b] = new[b]
  BY <1>4, <1>5, <1>6, <1>7, <1>9
<1>11. att[a].cleaned # "confirmed" /\ att[a].proof # "confirmed" /\ SameSlots
  BY <1>1, <1>2 DEF IInv, Entries, Entry, SameSlots
<1>12. Sole' /\ Lease' /\ Entries' /\ Owned' /\ Quiet' /\ SameStanding
  BY <1>2, <1>3, <1>5, <1>8, <1>10, <1>11, SessionOpens
<1>13. TypeOK'
  BY <1>1, <1>2, <1>3, <1>10 DEF TypeOK, OnlyHandler
<1> QED BY <1>12, <1>13 DEF IInv

(* One record without a session is cleaned up. *)
LEMMA BurnStep ==
    ASSUME IInv, NEW a \in Attachments, att[a].reg \in {"prepared", "burnt"},
           sup' = SupAfter(sup, att[a], a, FALSE),
           att' = [att EXCEPT ![a] = Released(sup, att[a], a, FALSE, TRUE)]
    PROVE  /\ SameSlots /\ att' \in [Attachments -> Records]
           /\ \A b \in Attachments : Soft(att[b], att'[b]) /\ att'[b].phase = att[b].phase
           /\ \A b \in Attachments : att'[b].closing = att[b].closing
<1>1. SameSlots
  BY UnprovenIs, ZenonT(30)
<1>2. PICK q : q = Released(sup, att[a], a, FALSE, TRUE)
  BY ZenonT(30)
<1>3. /\ q \in Records /\ Soft(att[a], q)
      /\ q.closing = att[a].closing /\ q.phase = att[a].phase
  BY <1>2, BurntIs, ZenonT(30)
<1>4. att \in [Attachments -> Records] /\ att' = [att EXCEPT ![a] = q]
  BY <1>2 DEF IInv, TypeOK
<1>5. \A b \in Attachments : Soft(att[b], att[b])
  BY DEF Soft
<1> QED BY <1>1, <1>3, <1>4, <1>5, ZenonT(30)

LEMMA OpenFailsStep ==
    ASSUME IInv, NEW a \in Attachments, OpenFails(a)
    PROVE  IInv' /\ SameStanding
<1>1. /\ SameSlots /\ att' \in [Attachments -> Records]
      /\ \A b \in Attachments : Soft(att[b], att'[b]) /\ att'[b].phase = att[b].phase
      /\ \A b \in Attachments : att'[b].closing = att[b].closing
  BY BurnStep, ZenonT(30) DEF OpenFails
<1> QED BY <1>1, RegistryStep, ZenonT(30) DEF OpenFails

(* A deadline passes. *)
LEMMA TimeStep ==
    ASSUME IInv, NEW a \in Attachments, Expire(a) \/ DrainOver(a)
    PROVE  IInv' /\ SameStanding
<1>1. att \in [Attachments -> Records] /\ sup \in Supervisors
  BY DEF IInv, TypeOK
<1>2. PICK q : /\ att' = [att EXCEPT ![a] = q]
               /\ q = [att[a] EXCEPT !.late = TRUE] \/ q = [att[a] EXCEPT !.drain = "over"]
  BY <1>1 DEF Expire, DrainOver
<1>3. /\ q \in Records /\ Soft(att[a], q)
      /\ q.closing = att[a].closing /\ q.phase = att[a].phase
  <2>1. CASE q = [att[a] EXCEPT !.late = TRUE]
    BY <1>1, <2>1, ZenonT(30) DEF Records, Soft
  <2>2. CASE q = [att[a] EXCEPT !.drain = "over"]
    BY <1>1, <2>2 DEF Records, Soft
  <2> QED BY <1>2, <2>1, <2>2
<1>4. \A b \in Attachments : Soft(att[b], att[b])
  BY DEF Soft
<1>5. SameSlots /\ UNCHANGED <<children, task, frame, hostVars>>
  BY <1>1 DEF Expire, DrainOver, SameSlots
<1>6. /\ att' \in [Attachments -> Records]
      /\ \A b \in Attachments : Soft(att[b], att'[b]) /\ att'[b].phase = att[b].phase
      /\ \A b \in Attachments : att'[b].closing = att[b].closing
  BY <1>1, <1>2, <1>3, <1>4
<1> QED BY <1>5, <1>6, RegistryStep

-----------------------------------------------------------------------------
(* The control plane.                                                      *)

(* cleanup() of one record, by a detach or by a transfer. *)
LEMMA CleanupStep ==
    ASSUME IInv, NEW a \in Attachments, CleanupRecord(a), UNCHANGED <<task, frame>>
    PROVE  /\ sup' \in Supervisors /\ children' \subseteq Attachments
           /\ att' \in [Attachments -> Records] /\ Sole' /\ Lease' /\ Entries'
           /\ Retained(att[a]) /\ (SameStanding \/ ClosesOnly(a))
           /\ \A b \in Attachments :
                 /\ Retained(att'[b]) => Retained(att[b]) /\ att'[b].owner = att[b].owner
                 /\ att'[b].reg = "open" =>
                       att[b].reg = "open" /\ (att[b].closing => att'[b].closing)
<1>1. CASE att[a].reg = "open"
  <2>1. PICK fences \in BOOLEAN :
          CloseFrom(sup, children, Invalidated(att[a], fences), a, FALSE)
    BY <1>1, ZenonT(30) DEF CleanupRecord, Fences
  <2>2. task[a] # "none" /\ (frame[a] = "output" => task[a] = "read")
    BY <1>1 DEF IInv, Entries, Entry
  <2>3. OnlyHandler(a)
    BY DEF OnlyHandler, IInv, TypeOK
  <2>4. /\ Kin(Invalidated(att[a], fences), a) /\ Near(sup, a)
        /\ a \in children => att[a].reg = "open" /\ sup.pending = a
    BY <2>2, SessionIs
  <2>5. /\ sup' \in Supervisors /\ children' \subseteq Attachments
        /\ Sole' /\ Lease' /\ Entries' /\ ClosesOnly(a)
    BY <2>1, <2>2, <2>3, <2>4, CloseStep, ZenonT(30)
  <2> QED BY <2>5, <1>1 DEF ClosesOnly, Retained
<1>2. CASE att[a].reg \in {"prepared", "burnt"}
  <2>1. UNCHANGED children /\ children \subseteq Attachments
    BY <1>2, ZenonT(30) DEF CleanupRecord, IInv, TypeOK
  <2>2. /\ SameSlots /\ att' \in [Attachments -> Records]
        /\ \A b \in Attachments : Soft(att[b], att'[b]) /\ att'[b].phase = att[b].phase
        /\ \A b \in Attachments : att'[b].closing = att[b].closing
    BY <1>2, BurnStep, ZenonT(30) DEF CleanupRecord
  <2>3. Sole' /\ Lease' /\ Entries' /\ SameStanding
    BY <2>1, <2>2, RecordStep
  <2> QED BY <2>1, <2>2, <2>3, <1>2 DEF SameSlots, Soft, Retained
<1> QED BY <1>1, <1>2, ZenonT(30) DEF CleanupRecord
LEMMA ApiDetachStep ==
    ASSUME IInv, NEW a \in Attachments, ApiDetach(a)
    PROVE  IInv' /\ (SameStanding \/ ClosesOnly(a))
<1>1. CleanupRecord(a) /\ UNCHANGED <<task, frame>> /\ UNCHANGED hostVars
  BY DEF ApiDetach
<1>2. /\ sup' \in Supervisors /\ children' \subseteq Attachments
      /\ att' \in [Attachments -> Records] /\ Sole' /\ Lease' /\ Entries'
      /\ SameStanding \/ ClosesOnly(a)
      /\ \A b \in Attachments :
            /\ Retained(att'[b]) => Retained(att[b]) /\ att'[b].owner = att[b].owner
            /\ att'[b].reg = "open" =>
                  att[b].reg = "open" /\ (att[b].closing => att'[b].closing)
  BY <1>1, CleanupStep
<1>3. Owned' /\ Quiet'
  BY <1>1, <1>2, HostKept
<1>4. TypeOK'
  <2>1. TypeOK
    BY DEF IInv
  <2> QED BY <2>1, <1>1, <1>2, HostTypes DEF TypeOK
<1> QED BY <1>2, <1>3, <1>4 DEF IInv

(* exact_stop() fences the session that holds the pending slot: no other   *)
(* one can be open and not closing.                                        *)
LEMMA StopBeginStep ==
    ASSUME IInv, StopBegin
    PROVE  IInv' /\ SameStanding
<1>1. /\ att \in [Attachments -> Records] /\ sup \in Supervisors /\ TypeOK
      /\ stopping \in BOOLEAN
  BY DEF IInv, TypeOK
<1>2. /\ UNCHANGED <<children, task, frame>> /\ proc' = proc /\ api' = api
      /\ invalidated' = invalidated /\ ~stopping
  BY DEF StopBegin
<1>3. \A b \in Attachments : Entry(sup, att[b], task[b], frame[b], b)
  BY DEF IInv, Entries
<1>4. /\ att' \in [Attachments -> Records] /\ stopping' \in BOOLEAN
      /\ \A b \in Attachments : Soft(att[b], att'[b]) /\ att'[b].phase = att[b].phase
      /\ \A b \in Attachments : task[b] = "none" => att'[b].closing = att[b].closing
      /\ stopping' => \A b \in Attachments : att'[b].reg = "open" => att'[b].closing
      /\ SameSlots
  <2>1. PICK to \in {"STOPPING", "RECONCILIATION_REQUIRED"} :
          sup' = [sup EXCEPT !.state = to]
    BY DEF StopBegin
  <2>2. SameSlots
    BY <1>1, <2>1 DEF SameSlots, Supervisors
  <2>3. CASE sup.pending # None /\ att[sup.pending].reg = "open"
    <3>1. PICK a \in Attachments : a = sup.pending
      BY <1>1, <2>3 DEF Supervisors
    <3>2. PICK fences \in BOOLEAN :
            /\ att' = [att EXCEPT ![a] = Invalidated(att[a], fences)]
            /\ stopping' = att'[a].fenced
      BY <2>3, <3>1, ZenonT(30) DEF StopBegin, Fences
    <3>3. PICK q : q = Invalidated(att[a], fences)
      OBVIOUS
    <3>4. /\ q \in Records /\ q.closing /\ q.reg = att[a].reg /\ q.owner = att[a].owner
          /\ q.cleaned = att[a].cleaned /\ q.phase = att[a].phase
          /\ q.fenced = (att[a].fenced \/ fences) /\ q.proof = att[a].proof
      BY <1>1, <3>3, InvalidatedIs
    <3>5. /\ att' \in [Attachments -> Records] /\ att'[a] = q
          /\ \A b \in Attachments \ {a} : att'[b] = att[b]
      BY <1>1, <3>2, <3>3, <3>4
    <3>6. \A b \in Attachments : Soft(att[b], att'[b]) /\ att'[b].phase = att[b].phase
      BY <3>4, <3>5, ZenonT(30) DEF Soft
    <3>7. task[a] # "none"
      BY <1>3, <2>3, <3>1 DEF Entry
    <3>8. \A b \in Attachments \ {a} : att[b].reg = "open" => att[b].closing
      BY <1>3, <3>1 DEF Entry
    <3>9. stopping' \in BOOLEAN
      BY <3>2, <3>4, <3>5 DEF Records
    <3> QED BY <2>2, <3>4, <3>5, <3>6, <3>7, <3>8, <3>9
  <2>4. CASE ~(sup.pending # None /\ att[sup.pending].reg = "open")
    <3>1. att' = att /\ stopping' \in BOOLEAN
      BY <2>4, ZenonT(30) DEF StopBegin
    <3>2. \A b \in Attachments : att[b].reg = "open" => att[b].closing
      BY <1>3, <2>4, NoneAssumption DEF Entry
    <3> QED BY <1>1, <2>2, <3>1, <3>2 DEF Soft
  <2> QED BY <2>3, <2>4
<1>5. Sole' /\ Lease' /\ Entries' /\ SameStanding
  BY <1>2, <1>4, RecordStep
<1>6. Owned'
  BY <1>2, <1>4 DEF IInv, Owned, Soft, Retained
<1>7. Quiet'
  BY <1>2, <1>4 DEF IInv, Quiet, Soft
<1>8. TypeOK'
  BY <1>1, <1>2, <1>4 DEF TypeOK, SameSlots
<1> QED BY <1>5, <1>6, <1>7, <1>8 DEF IInv

(* The rest of a Stop only empties slots, and no session is publishing. *)
LEMMA StopFinishStep ==
    ASSUME IInv, StopFinish
    PROVE  IInv' /\ SameStanding
<1>1. /\ att \in [Attachments -> Records] /\ sup \in Supervisors /\ TypeOK
      /\ children \subseteq Attachments
  BY DEF IInv, TypeOK
<1>2. /\ att' = att /\ task' = task /\ frame' = frame /\ api' = api
      /\ invalidated' = invalidated /\ stopping' = FALSE /\ stopping
      /\ proc' \in {proc, "STOPPED"}
  BY DEF StopFinish
<1>3. \A b \in Attachments : att[b].reg = "open" => att[b].closing
  BY <1>2 DEF IInv, Quiet
<1>4. PICK z : z = ChildClosed
  OBVIOUS
<1>5. /\ z \in Supervisors /\ z.pending = sup.pending /\ z.writer = sup.writer
      /\ z.handle \in {None, sup.handle}
      /\ z.proven = sup.proven \/ (z.proven = sup.handle /\ sup.handle # None)
  BY <1>1, <1>4, ZenonT(30) DEF ChildClosed, Supervisors
<1>6. /\ sup' \in Supervisors /\ sup'.pending = sup.pending
      /\ sup'.writer \in {None, sup.writer} /\ sup'.handle \in {None, sup.handle}
      /\ sup'.proven = sup.proven \/ (sup'.proven = sup.handle /\ sup.handle # None)
      /\ children' \subseteq children
  <2>1. CASE sup' = [sup EXCEPT !.state = "BROKEN"] /\ children' = children
    BY <1>1, <2>1 DEF Supervisors
  <2>2. CASE /\ \E state \in {"BROKEN", "RECONCILIATION_REQUIRED"} :
                    sup' = [z EXCEPT !.state = state]
             /\ children' = children \ {sup'.proven}
    BY <1>5, <2>2 DEF Supervisors
  <2>3. CASE /\ sup' = [z EXCEPT !.state = "STOPPED", !.writer = None]
             /\ children' = children \ {sup'.proven}
    BY <1>5, <2>3, ZenonT(30) DEF Supervisors
  <2> QED BY <1>4, <2>1, <2>2, <2>3 DEF StopFinish
<1>7. Sole' /\ Owned' /\ SameStanding
  BY <1>2 DEF IInv, Sole, Owned, SameStanding
<1>8. Lease'
  BY <1>2, <1>6 DEF IInv, Lease
<1>9. Quiet'
  BY <1>2, <1>3 DEF Quiet
<1>10. Entries'
  <2> SUFFICES ASSUME NEW b \in Attachments
               PROVE  Entry(sup', att[b], task[b], frame[b], b)
    BY <1>2, ZenonT(30) DEF Entries
  <2>1. Entry(sup, att[b], task[b], frame[b], b) /\ b # None
    BY NoneAssumption DEF IInv, Entries
  <2>2. att[b].reg = "open" => att[b].closing
    BY <1>3
  <2>3. sup.handle = b => att[b].reg = "open"
    BY <2>1 DEF IInv, Lease
  <2>4. att[b].phase = "COMMITTED" => att[b].closing
    <3>1. att[b] \in Records
      BY <1>1
    <3> QED BY <2>1, <2>2, <3>1 DEF Entry, Records
  <2> QED BY <1>6, <2>1, <2>2, <2>3, <2>4 DEF Entry
<1>11. TypeOK'
  BY <1>1, <1>2, <1>6, ZenonT(30) DEF TypeOK
<1> QED BY <1>7, <1>8, <1>9, <1>10, <1>11 DEF IInv
(* The record of the old process is gone, or no process is bound. *)
LEMMA TransferStep ==
    ASSUME IInv, Transfer
    PROVE  IInv' /\ (SameStanding \/ \E a \in Attachments : ClosesOnly(a))
<1>1. /\ TypeOK /\ att \in [Attachments -> Records]
      /\ api \in [gen: 1..MaxAuthority, alive: BOOLEAN, poisoned: BOOLEAN]
  BY DEF IInv, TypeOK
<1>2. /\ UNCHANGED <<task, frame>> /\ proc' = proc /\ stopping' = stopping
      /\ invalidated' = invalidated /\ api.gen < MaxAuthority /\ ~api.alive
  BY DEF Transfer
<1>0. api.gen + 1 \in 1 .. MaxAuthority
  BY <1>1, <1>2, BoundsAssumption
<1>3. CASE /\ \A a \in Attachments : ~Retained(att[a])
           /\ api' = [api EXCEPT !.gen = @ + 1, !.alive = TRUE]
           /\ UNCHANGED <<sup, children, att>>
  <2>1. api' \in [gen: 1..MaxAuthority, alive: BOOLEAN, poisoned: BOOLEAN]
    BY <1>0, <1>1, <1>3, ZenonT(30)
  <2>2. TypeOK'
    BY <1>1, <1>2, <1>3, <2>1 DEF TypeOK
  <2>3. Sole' /\ Lease' /\ Quiet' /\ SameStanding
    BY <1>2, <1>3 DEF IInv, Sole, Lease, Quiet, SameStanding
  <2>4. Entries'
    BY <1>2, <1>3 DEF IInv, Entries
  <2>5. Owned'
    BY <1>3 DEF Owned
  <2> QED BY <2>2, <2>3, <2>4, <2>5 DEF IInv
<1>4. CASE \E a \in Attachments :
              /\ CleanupRecord(a)
              /\ api' = IF Retained(att'[a]) THEN [api EXCEPT !.poisoned = TRUE]
                        ELSE [api EXCEPT !.gen = @ + 1, !.alive = TRUE]
  <2>1. PICK a \in Attachments :
           /\ CleanupRecord(a)
           /\ api' = IF Retained(att'[a]) THEN [api EXCEPT !.poisoned = TRUE]
                     ELSE [api EXCEPT !.gen = @ + 1, !.alive = TRUE]
    BY <1>4
  <2>2. /\ sup' \in Supervisors /\ children' \subseteq Attachments
        /\ att' \in [Attachments -> Records] /\ Sole' /\ Lease' /\ Entries'
        /\ Retained(att[a]) /\ (SameStanding \/ ClosesOnly(a))
        /\ \A b \in Attachments :
              /\ Retained(att'[b]) => Retained(att[b]) /\ att'[b].owner = att[b].owner
              /\ att'[b].reg = "open" =>
                    att[b].reg = "open" /\ (att[b].closing => att'[b].closing)
    BY <1>2, <2>1, CleanupStep
  <2>3. /\ api' \in [gen: 1..MaxAuthority, alive: BOOLEAN, poisoned: BOOLEAN]
        /\ Retained(att'[a]) => ~api'.alive
    <3>1. CASE Retained(att'[a])
      BY <1>1, <1>2, <2>1, <3>1, ZenonT(30)
    <3>2. CASE ~Retained(att'[a])
      BY <1>0, <1>1, <2>1, <3>2, ZenonT(30)
    <3> QED BY <3>1, <3>2
  <2>4. \A b \in Attachments : Retained(att'[b]) => b = a
    BY <2>2 DEF IInv, Sole
  <2>5. Owned'
    BY <2>3, <2>4 DEF Owned
  <2>6. Quiet'
    BY <1>2, <2>2 DEF IInv, Quiet
  <2>7. TypeOK'
    BY <1>1, <1>2, <2>2, <2>3 DEF TypeOK
  <2> QED BY <2>2, <2>5, <2>6, <2>7 DEF IInv
<1> QED BY <1>3, <1>4 DEF Transfer

(* The bound process dies, a bind is refused, the process changes. *)
LEMMA HostStep ==
    ASSUME IInv, ApiDies \/ TransferRefused \/ ProcessChanges
    PROVE  IInv' /\ SameStanding
<1>1. UNCHANGED <<sup, children, att, task, frame, stopping, invalidated>>
  BY DEF ApiDies, TransferRefused, ProcessChanges
<1>2. /\ api' \in [gen: 1..MaxAuthority, alive: BOOLEAN, poisoned: BOOLEAN]
      /\ api'.gen = api.gen /\ (api'.alive => api.alive)
  <2>1. api \in [gen: 1..MaxAuthority, alive: BOOLEAN, poisoned: BOOLEAN]
    BY DEF IInv, TypeOK
  <2>2. CASE api' = [api EXCEPT !.alive = FALSE]
    BY <2>1, <2>2, ZenonT(30)
  <2>3. CASE api' = [api EXCEPT !.poisoned = TRUE]
    BY <2>1, <2>3, ZenonT(30)
  <2>4. CASE api' = api
    BY <2>1, <2>4
  <2> QED BY <2>2, <2>3, <2>4 DEF ApiDies, TransferRefused, ProcessChanges
<1>3. /\ proc' \in {"RUNNING", "NEEDS_INTERACTION", "UNKNOWN", "EXITED", "STOPPED"}
      /\ proc' = "STOPPED" => proc = "STOPPED"
  BY ProcessAssumption DEF ApiDies, TransferRefused, ProcessChanges, IInv, TypeOK
<1>4. TypeOK'
  BY <1>1, <1>2, <1>3 DEF IInv, TypeOK
<1>5. Sole' /\ Lease' /\ SameStanding
  BY <1>1 DEF IInv, Sole, Lease, SameStanding
<1>6. Entries'
  BY <1>1 DEF IInv, Entries
<1>7. Owned' /\ Quiet'
  BY <1>1, <1>2, <1>3 DEF IInv, Owned, Quiet
<1> QED BY <1>4, <1>5, <1>6, <1>7 DEF IInv

(* A poisoned listener invalidates the sessions it serves. *)
LEMMA PoisonStep ==
    ASSUME IInv, Poison
    PROVE  IInv' /\ SameStanding
<1>1. TypeOK /\ att \in [Attachments -> Records]
  BY DEF IInv, TypeOK
<1>2. /\ UNCHANGED <<children, task, frame>> /\ sup' = sup /\ proc' = proc
      /\ stopping' = stopping /\ api' = api /\ invalidated' = TRUE
  BY DEF Poison
<1>3. PICK shut \in SUBSET Attachments : att' = Invalidations(shut)
  BY DEF Poison, Served
<1>4. \A b \in Attachments :
         /\ att'[b] \in Records /\ Soft(att[b], att'[b]) /\ att'[b].phase = att[b].phase
         /\ att'[b].reg = att[b].reg
         /\ task[b] = "none" => att'[b].closing = att[b].closing
  BY <1>1, <1>3, InvalidationsAre
<1>5. att' \in [Attachments -> Records] /\ SameSlots
  BY <1>1, <1>2, <1>3, <1>4 DEF SameSlots, TypeOK, Invalidations
<1>6. Sole' /\ Lease' /\ Entries' /\ SameStanding
  BY <1>2, <1>4, <1>5, RecordStep
<1>7. Owned' /\ Quiet'
  BY <1>2, <1>4 DEF IInv, Owned, Quiet, Soft, Retained
<1>8. TypeOK'
  BY <1>1, <1>2, <1>5 DEF TypeOK, SameSlots
<1> QED BY <1>6, <1>7, <1>8 DEF IInv

-----------------------------------------------------------------------------
(* The invariant.                                                          *)

LEMMA InitIInv ==
    ASSUME Init
    PROVE  IInv
<1>1. NoRecord \in Records
  BY BoundsAssumption DEF NoRecord, Records
<1>2. TypeOK
  <2>1. 1 \in 1 .. MaxAuthority
    BY BoundsAssumption
  <2>2. api \in [gen: 1..MaxAuthority, alive: BOOLEAN, poisoned: BOOLEAN]
    BY <2>1 DEF Init
  <2>3. sup \in Supervisors
    BY DEF Init, Supervisors
  <2>4. /\ att \in [Attachments -> Records]
        /\ task \in [Attachments -> Tasks] /\ frame \in [Attachments -> Frames]
    BY <1>1 DEF Init, Tasks, Frames
  <2> QED BY <2>2, <2>3, <2>4, ZenonT(30) DEF Init, TypeOK
<1>3. \A a \in Attachments :
         /\ att[a].reg = "none" /\ att[a].cleaned = "none" /\ att[a].proof = "none"
         /\ att[a].phase = "NONE" /\ ~att[a].closing /\ task[a] = "none"
         /\ frame[a] = "none" /\ a # None
  BY NoneAssumption DEF Init, NoRecord
<1>4. /\ sup.pending = None /\ sup.writer = None /\ sup.handle = None /\ sup.proven = None
      /\ children = {} /\ ~stopping /\ proc = "RUNNING"
  BY DEF Init
<1>5. Sole /\ Lease /\ Owned /\ Quiet
  BY <1>3, <1>4 DEF Sole, Lease, Owned, Quiet, Retained
<1>6. Entries
  BY <1>3, <1>4 DEF Entries, Entry
<1> QED BY <1>2, <1>5, <1>6 DEF IInv
(* What a step does to the registry: nothing, or one record is added while *)
(* there is none, or one session is closed.                                *)
SlotMoves == SameStanding \/ \E a \in Attachments : Reserves(a) \/ ClosesOnly(a)

(* The key exchange and the commit keep their record in the registry. *)
LEMMA SessionStands ==
    ASSUME IInv, NEW a \in Attachments,
           KeyExchange(a) \/ StreamReady(a) \/ AdmissionCommit(a)
    PROVE  SameStanding
<1>1. att \in [Attachments -> Records]
  BY DEF IInv, TypeOK
<1>2. PICK to : att' = [att EXCEPT ![a].phase = to]
  BY DEF KeyExchange, StreamReady, AdmissionCommit
<1>3. \A b \in Attachments : att'[b].reg = att[b].reg
  BY <1>1, <1>2 DEF Records
<1> QED BY <1>3 DEF SameStanding, Retained

LEMMA HandlerIInv ==
    ASSUME IInv, NEW a \in Attachments, Handler(a)
    PROVE  IInv' /\ SlotMoves
<1>1. CASE KeyExchange(a)
  BY <1>1, KeyExchangeStep, SessionStands DEF SlotMoves
<1>2. CASE StreamReady(a)
  BY <1>2, StreamReadyStep, SessionStands DEF SlotMoves
<1>3. CASE AdmissionCommit(a)
  BY <1>3, AdmissionCommitStep, SessionStands DEF SlotMoves
<1>4. CASE CommitFails(a)
  BY <1>4, CommitFailsStep DEF SlotMoves
<1>5. CASE ResizeFails(a)
  BY <1>5, ResizeFailsStep DEF SlotMoves
<1>6. CASE Input(a) \/ Flush(a)
  BY <1>6, InputStep DEF SlotMoves, SameStanding
<1>7. CASE InputLost(a) \/ Detach(a) \/ CloseFrame(a) \/ Refuse(a)
  BY <1>7, EndStep DEF SlotMoves
<1>8. CASE Tick(a)
  BY <1>8, TickStep DEF SlotMoves, SameStanding
<1>9. CASE Output(a)
  BY <1>9, OutputStep DEF SlotMoves, SameStanding
<1>10. CASE Resize(a) \/ Leave(a) \/ PublishFails(a)
  BY <1>10, MoveStep DEF SlotMoves, SameStanding
<1>11. CASE Publish(a)
  BY <1>11, PublishStep DEF SlotMoves, SameStanding
<1>12. CASE FailureProfile(a)
  BY <1>12, FailureProfileStep DEF SlotMoves, SameStanding
<1>13. CASE Finally(a)
  BY <1>13, FinallyStep DEF SlotMoves
<1>14. CASE FinalClose(a)
  BY <1>14, FinalCloseStep DEF SlotMoves
<1> QED BY <1>1, <1>2, <1>3, <1>4, <1>5, <1>6, <1>7, <1>8, <1>9, <1>10, <1>11,
           <1>12, <1>13, <1>14 DEF Handler

LEMMA NextIInv ==
    ASSUME IInv, [Next]_vars
    PROVE  IInv' /\ SlotMoves
<1>1. ASSUME NEW a \in Attachments, Prepare(a)
      PROVE  IInv' /\ SlotMoves
  BY <1>1, PrepareStep DEF SlotMoves
<1>2. ASSUME NEW a \in Attachments, Open(a)
      PROVE  IInv' /\ SlotMoves
  BY <1>2, OpenStep DEF SlotMoves
<1>3. ASSUME NEW a \in Attachments, OpenFails(a) \/ OpenClosed(a) \/ OpenTimesOut(a)
      PROVE  IInv' /\ SlotMoves
  BY <1>3, OpenFailsStep, OpenClosedStep, OpenTimesOutStep DEF SlotMoves
<1>4. ASSUME NEW a \in Attachments, Handler(a)
      PROVE  IInv' /\ SlotMoves
  BY <1>4, HandlerIInv
<1>5. ASSUME NEW a \in Attachments, ApiDetach(a)
      PROVE  IInv' /\ SlotMoves
  BY <1>5, ApiDetachStep DEF SlotMoves
<1>6. ASSUME NEW a \in Attachments, Expire(a) \/ DrainOver(a)
      PROVE  IInv' /\ SlotMoves
  BY <1>6, TimeStep DEF SlotMoves
<1>7. CASE StopBegin
  BY <1>7, StopBeginStep DEF SlotMoves
<1>8. CASE StopFinish
  BY <1>8, StopFinishStep DEF SlotMoves
<1>9. CASE Transfer
  BY <1>9, TransferStep DEF SlotMoves
<1>10. CASE ApiDies \/ TransferRefused \/ ProcessChanges
  BY <1>10, HostStep DEF SlotMoves
<1>11. CASE Poison
  BY <1>11, PoisonStep DEF SlotMoves
<1>12. CASE UNCHANGED vars
  <2>1. /\ sup' = sup /\ children' = children /\ att' = att /\ task' = task
        /\ frame' = frame /\ UNCHANGED hostVars
    BY <1>12 DEF vars, hostVars
  <2>2. Sole' /\ Lease' /\ SameStanding
    BY <2>1 DEF IInv, Sole, Lease, SameStanding
  <2>3. Entries'
    BY <2>1 DEF IInv, Entries
  <2>4. Owned' /\ Quiet'
    BY <2>1, HostKept
  <2>5. TypeOK'
    BY <2>1, HostTypes DEF IInv, TypeOK
  <2> QED BY <2>2, <2>3, <2>4, <2>5 DEF IInv, SlotMoves
<1> QED BY <1>1, <1>2, <1>3, <1>4, <1>5, <1>6, <1>7, <1>8, <1>9, <1>10, <1>11,
           <1>12 DEF Next

(* The invariant holds in every behaviour: the pending, writer and handle  *)
(* slots and the attach child all belong to the one retained record.       *)
THEOREM InvHolds == Spec => []IInv
<1>1. Init => IInv
  BY InitIInv
<1>2. IInv /\ [Next]_vars => IInv'
  BY NextIInv
<1> QED BY <1>1, <1>2, PTL DEF Spec

(* Every variable keeps its type. *)
THEOREM TypeCorrect == Spec => []TypeOK
<1>1. IInv => TypeOK
  BY DEF IInv
<1> QED BY <1>1, InvHolds, PTL

-----------------------------------------------------------------------------
(* What the runs check.                                                    *)

LEMMA Fenced ==
    ASSUME IInv
    PROVE  ReleasedIsFenced
<1> SUFFICES ASSUME NEW a \in Attachments, att[a].reg = "gone"
             PROVE  att[a].fenced /\ ~MayPublish(a)
  BY DEF ReleasedIsFenced
<1>1. att[a].fenced
  BY DEF IInv, Entries, Entry
<1> QED BY <1>1 DEF MayPublish

(* A session leaves the registry only with its socket shut for writing, so *)
(* nothing of it is published once the workspace is free for the next one. *)
THEOREM ReleasedStaysFenced == Spec => []ReleasedIsFenced
<1>1. IInv => ReleasedIsFenced
  BY Fenced
<1> QED BY <1>1, InvHolds, PTL

LEMMA CleanTransfer ==
    ASSUME IInv
    PROVE  TransferIsClean
<1> SUFFICES ASSUME api.alive, NEW a \in Attachments,
                    att[a].reg # "none", att[a].owner # api.gen
             PROVE  /\ ~Retained(att[a]) /\ a \notin children
                    /\ task[a] # "none" => att[a].fenced
  BY DEF TransferIsClean
<1>1. ~Retained(att[a])
  BY DEF IInv, Owned
<1>2. a \notin children
  BY <1>1 DEF IInv, Lease, Retained
<1>3. att[a].reg = "gone"
  BY <1>1 DEF IInv, TypeOK, Records, Retained
<1>4. att[a].fenced
  BY <1>3 DEF IInv, Entries, Entry
<1> QED BY <1>1, <1>2, <1>4

(* Once a new API process is bound, nothing of the old one is left: its    *)
(* records are released, their children closed and their sockets fenced.   *)
THEOREM TransferStaysClean == Spec => []TransferIsClean
<1>1. IInv => TransferIsClean
  BY CleanTransfer
<1> QED BY <1>1, InvHolds, PTL
-----------------------------------------------------------------------------
(* Terminal output.                                                        *)

(* A connection begins. *)
Opens(b) == Open(b) \/ OpenClosed(b) \/ OpenTimesOut(b)

(* A handler changes its own frame only, and only publishing takes a frame *)
(* away while the handler stays where it is.                               *)
LEMMA HandlerFrame ==
    ASSUME TypeOK, NEW b \in Attachments, Opens(b) \/ Handler(b)
    PROVE  /\ \A a \in Attachments \ {b} : frame'[a] = frame[a]
           /\ frame[b] # "none" => Opens(b) \/ Publish(b) \/ task'[b] = "finally"
<1>1. /\ frame \in [Attachments -> Frames] /\ task \in [Attachments -> Tasks]
  BY DEF TypeOK
<1>2. CASE \/ KeyExchange(b) \/ StreamReady(b) \/ AdmissionCommit(b)
           \/ CommitFails(b) \/ Resize(b) \/ ResizeFails(b)
  BY <1>1, <1>2, ZenonT(30) DEF KeyExchange, StreamReady, AdmissionCommit, CommitFails,
     MayCommit, Resize, ResizeFails, Go, At
<1>3. CASE Input(b) \/ Flush(b) \/ Tick(b) \/ Output(b)
  <2>1. frame[b] = "none" /\ \E where, kind : Go(b, where, kind)
    BY <1>3, ZenonT(30) DEF Input, Flush, Tick, Output, ProcessState, At
  <2> QED BY <1>1, <2>1 DEF Go
<1>4. CASE \/ InputLost(b) \/ Detach(b) \/ CloseFrame(b) \/ Refuse(b) \/ Leave(b)
           \/ FailureProfile(b) \/ Finally(b) \/ FinalClose(b)
  BY <1>1, <1>4, ZenonT(30) DEF InputLost, Detach, CloseFrame, Refuse, Leave, FailureProfile,
     Finally, FinalClose, Go, At
<1>5. CASE Publish(b) \/ PublishFails(b)
  BY <1>1, <1>5 DEF Publish, PublishFails, Go
<1>6. CASE Opens(b)
  BY <1>1, <1>6, ZenonT(30) DEF Opens, Open, OpenClosed, OpenTimesOut, Go
<1> QED BY <1>2, <1>3, <1>4, <1>5, <1>6, ZenonT(30) DEF Handler

LEMMA OutputLeaves ==
    ASSUME IInv, [Next]_vars, NEW a \in Attachments,
           frame[a] = "output", frame'[a] = "none", task'[a] = task[a]
    PROVE  Publish(a)
<1>1. task[a] = "read" /\ att[a].reg # "prepared" /\ TypeOK
  BY DEF IInv, Entries, Entry
<1>2. frame' # frame
  OBVIOUS
<1>3. PICK b \in Attachments : Opens(b) \/ Handler(b)
  BY <1>2, ZenonT(30) DEF Next, vars, Opens, Prepare, OpenFails, ApiDetach, Expire, DrainOver,
     StopBegin,
     StopFinish, ApiDies, Transfer, TransferRefused, Poison, ProcessChanges
<1>4. b = a
  BY <1>1, <1>3, HandlerFrame
<1>5. Opens(a) \/ Publish(a) \/ task'[a] = "finally"
  BY <1>1, <1>3, <1>4, HandlerFrame
<1> QED BY <1>1, <1>5 DEF Opens, Open, OpenClosed, OpenTimesOut

LEMMA OutputAllowed ==
    ASSUME IInv, NEW a \in Attachments, frame[a] = "output", MayPublish(a)
    PROVE  /\ sup.writer = a /\ sup.pending = a
           /\ Current(a) /\ ~stopping /\ proc # "STOPPED"
<1>1. ~att[a].closing /\ Current(a)
  BY DEF MayPublish, Check, Fresh
<1>2. Entry(sup, att[a], task[a], frame[a], a) /\ a # None
  BY NoneAssumption DEF IInv, Entries
<1>3. sup.writer = a
  BY <1>1, <1>2 DEF Entry
<1>4. sup.pending = a /\ Retained(att[a])
  BY <1>2, <1>3 DEF IInv, Lease
<1>5. att[a].reg = "open"
  BY <1>2, <1>4 DEF Entry, Retained
<1>6. ~stopping /\ proc # "STOPPED"
  BY <1>1, <1>5 DEF IInv, Quiet
<1> QED BY <1>1, <1>3, <1>4, <1>6

(* Terminal output reaches a socket only while its session is the          *)
(* committed writer of the bound API process and no Stop has begun, however *)
(* long the frame waited after it was built.                               *)
THEOREM OutputStaysCurrent == Spec => OutputIsCurrent
<1> DEFINE Sent == \A a \in Attachments :
              frame[a] = "output" /\ frame'[a] = "none" /\ task'[a] = task[a]
                 => /\ sup.writer = a /\ sup.pending = a
                    /\ Current(a) /\ ~stopping /\ proc # "STOPPED"
<1>1. IInv /\ [Next]_vars => Sent
  <2> SUFFICES ASSUME IInv, [Next]_vars, NEW a \in Attachments,
                      frame[a] = "output", frame'[a] = "none", task'[a] = task[a]
               PROVE  /\ sup.writer = a /\ sup.pending = a
                      /\ Current(a) /\ ~stopping /\ proc # "STOPPED"
    OBVIOUS
  <2>1. MayPublish(a)
    BY OutputLeaves DEF Publish
  <2> QED BY <2>1, OutputAllowed
<1>2. IInv /\ [Next]_vars => [Sent]_vars
  BY <1>1
<1> HIDE DEF Sent
<1>3. Spec => [][Sent]_vars
  BY <1>2, InvHolds, PTL DEF Spec
<1> QED BY <1>3 DEF OutputIsCurrent, Sent
-----------------------------------------------------------------------------
(* The refinement of WriterSlot.                                           *)

LEMMA HolderIs ==
    ASSUME Sole, NEW a \in Attachments, Retained(att[a])
    PROVE  Holder = a
  BY DEF Sole, Holder

LEMMA HolderNext ==
    ASSUME Sole', NEW a \in Attachments, Retained(att'[a])
    PROVE  Holder' = a
<1>1. \A b \in Attachments : Retained(att'[b]) => b = a
  BY DEF Sole
<1>2. Holder' = CHOOSE b \in Attachments : Retained(att'[b])
  BY DEF Holder
<1> QED BY <1>1, <1>2

LEMMA NoHolder ==
    ASSUME \A a \in Attachments : ~Retained(att[a])
    PROVE  Holder = None
  BY DEF Holder

LEMMA NoHolderNext ==
    ASSUME \A a \in Attachments : ~Retained(att'[a])
    PROVE  Holder' = None
  BY DEF Holder

(* An attach child belongs to the holder. *)
LEMMA ChildIsHolders ==
    ASSUME IInv
    PROVE  \A a \in children : a \in Attachments /\ Retained(att[a])
  BY DEF IInv, TypeOK, Lease, Retained

LEMMA SlotStep ==
    ASSUME IInv, IInv', SlotMoves
    PROVE  [Slot!Next]_(Slot!vars)
<1> DEFINE Gone == {b \in Attachments : att[b].reg = "gone"}
<1>1. Sole /\ Sole'
  BY DEF IInv
<1>2. /\ \A b \in children : b \in Attachments /\ Retained(att[b])
      /\ \A b \in children' : b \in Attachments /\ Retained(att'[b])
  <2>1. \A b \in children' : b \in Attachments /\ Retained(att'[b])
    BY DEF IInv, TypeOK, Lease, Retained
  <2> QED BY <2>1, ChildIsHolders
<1>3. CASE SameStanding
  <2>1. Gone' = Gone
    BY <1>3 DEF SameStanding
  <2>2. CASE \A b \in Attachments : ~Retained(att[b])
    <3>1. Holder = None /\ Holder' = None
      BY <1>3, <2>2, NoHolder, NoHolderNext DEF SameStanding
    <3>2. children = {} /\ children' = {}
      BY <1>2, <1>3, <2>2 DEF SameStanding
    <3> QED BY <2>1, <3>1, <3>2 DEF Slot!vars
  <2>3. ASSUME NEW a \in Attachments, Retained(att[a])
        PROVE  [Slot!Next]_(Slot!vars)
    <3>1. Retained(att'[a])
      BY <1>3, <2>3 DEF SameStanding
    <3>2. Holder = a /\ Holder' = a
      BY <1>1, <2>3, <3>1, HolderIs, HolderNext
    <3>3. children \subseteq {a} /\ children' \subseteq {a}
      BY <1>1, <1>2, <2>3, <3>1 DEF Sole
    <3>4. CASE children' = children
      BY <2>1, <3>2, <3>4 DEF Slot!vars
    <3>5. CASE children = {} /\ children' = {a}
      BY <2>1, <3>2, <3>5 DEF Slot!Next, Slot!Attach
    <3>6. CASE children = {a} /\ children' = {}
      BY <2>1, <3>2, <3>6 DEF Slot!Next, Slot!Detach
    <3> QED BY <3>3, <3>4, <3>5, <3>6
  <2> QED BY <2>2, <2>3
<1>4. ASSUME NEW a \in Attachments, Reserves(a)
      PROVE  [Slot!Next]_(Slot!vars)
  <2>1. Holder = None /\ Holder' = a
    BY <1>1, <1>4, NoHolder, HolderNext DEF Reserves
  <2>2. a \notin Gone /\ Gone' = Gone /\ children' = children
    BY <1>4 DEF Reserves, Retained
  <2>3. Slot!Reserve(a)
    BY <2>1, <2>2 DEF Slot!Reserve
  <2> QED BY <2>3 DEF Slot!Next
<1>5. ASSUME NEW a \in Attachments, ClosesOnly(a)
      PROVE  [Slot!Next]_(Slot!vars)
  <2>1. CASE att'[a].reg = att[a].reg
    <3>1. SameStanding
      BY <1>5, <2>1 DEF ClosesOnly, SameStanding, Retained
    <3> QED BY <3>1, <1>3
  <2>2. CASE att[a].reg = "open" /\ att'[a].reg = "gone"
    <3>1. Holder = a
      BY <1>1, <2>2, HolderIs DEF Retained
    <3>2. \A b \in Attachments : ~Retained(att'[b])
      BY <1>1, <1>5, <2>2 DEF Sole, ClosesOnly, Retained
    <3>3. Holder' = None /\ children' = {}
      BY <1>2, <3>2, NoHolderNext
    <3>4. Gone' = Gone \cup {a}
      BY <1>5, <2>2 DEF ClosesOnly
    <3>5. Slot!Release(a)
      BY <3>1, <3>3, <3>4 DEF Slot!Release
    <3> QED BY <3>5 DEF Slot!Next
  <2> QED BY <1>5, <2>1, <2>2 DEF ClosesOnly
<1> QED BY <1>3, <1>4, <1>5 DEF SlotMoves

LEMMA SlotInit ==
    ASSUME Init
    PROVE  Slot!Init
<1>1. \A a \in Attachments : att[a].reg = "none"
  BY DEF Init, NoRecord
<1>2. Holder = None
  BY <1>1, NoHolder DEF Retained
<1> QED BY <1>1, <1>2 DEF Init, Slot!Init

(* The registry, the supervisor and the transport implement one writer     *)
(* slot: it is reserved for one attachment at a time, only its holder has  *)
(* an attach child, and it is given back only when the child is gone.      *)
THEOREM StreamRefinesSlot == Spec => ImplementsSlot
<1>1. Init => Slot!Init
  BY SlotInit
<1>2. IInv /\ IInv' /\ [Next]_vars => [Slot!Next]_(Slot!vars)
  BY NextIInv, SlotStep
<1> QED BY <1>1, <1>2, InvHolds, PTL DEF Spec, ImplementsSlot, Slot!Spec
=============================================================================
