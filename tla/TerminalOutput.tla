--------------------------- MODULE TerminalOutput ---------------------------
(***************************************************************************)
(* Terminal output on its way to a reader: the PTY is read into a bounded  *)
(* ring of frames with cursors (OutputRing of waw_pty.py, the producer     *)
(* behind replay_output() of waw_supervisor.py), and a session             *)
(* (waw_encrypted_stream.py) sends a baseline and then what is new, with a *)
(* GAP for what the ring no longer holds.  The reader may lose the         *)
(* connection at any frame and attach again, with a fresh redraw or        *)
(* resuming at its cursor.                                                 *)
(*                                                                         *)
(* Sessions follow each other (RuntimeStream shows there is one writer),   *)
(* and the PTY is read only for a committed session.  A payload is its     *)
(* length, its line breaks and whether it ends inside a line.              *)
(***************************************************************************)
EXTENDS Integers, Sequences, SequencesExt, FiniteSetsExt

CONSTANTS
    Capacity,   \* capacity_bytes of the ring
    LineLimit,  \* lines the ring retains (2000 in the code)
    MaxRead,    \* most bytes one producer read returns (32 KiB)
    Budget,     \* maximum_encoded_bytes of one output()
    Overhead,   \* encoded bytes a record or a GAP adds
    MaxCursor   \* bound on the cursors a behaviour allocates

ASSUME SizesAssumption ==
    /\ {Capacity, LineLimit, MaxRead, Budget, Overhead, MaxCursor} \subseteq Nat
    /\ 1 <= MaxRead /\ MaxRead <= Capacity
    /\ MaxRead + 2 * Overhead <= Budget

VARIABLES
    ring,    \* retained frames, next cursor, last cursor dropped
    sess,    \* output side of the current session
    wire,    \* frames sent and not yet received
    reader,  \* what the client received, since its last redraw
    bursts   \* cursors read in payloads no ring could hold

vars == <<ring, sess, wire, reader, bursts>>

Payloads ==
    {p \in [len: 1..MaxRead, breaks: 0..MaxRead, tail: 0..1] :
        p.breaks \in (1 - p.tail)..(p.len - p.tail)}

(* A redraw is at most two chunks of a screen. *)
Row == [len |-> 1, breaks |-> 0, tail |-> 1]
Redraws == {<<>>, <<Row>>, <<Row, Row>>}

NoGap == [from |-> 0, to |-> 0, reason |-> "none"]

NoSession ==
    [phase |-> "none", cursor |-> 0, baseline |-> 0, records |-> <<>>,
     gap |-> NoGap, sent |-> FALSE]

Init ==
    /\ ring = [frames |-> <<>>, next |-> 1, dropped |-> 0]
    /\ sess = NoSession
    /\ wire = <<>>
    /\ reader = [from |-> 0, cursor |-> 0, seen |-> {}, told |-> {}]
    /\ bursts = {}

-----------------------------------------------------------------------------
(* The ring.                                                               *)

Length(f) == f.last - f.first + 1

Bytes(frames) == FoldLeft(LAMBDA n, f : n + Length(f), 0, frames)

(* _retained_line_count(): line breaks, and an unterminated tail. *)
Lines(frames) ==
    FoldLeft(LAMBDA n, f : n + f.breaks, 0, frames)
    + IF frames = <<>> THEN 0 ELSE Last(frames).tail

(* The frames from position k on. *)
From(frames, k) == SubSeq(frames, k, Len(frames))

(* append(): the oldest frames are evicted until the rest fits; the frame  *)
(* just appended may be the last of them.                                  *)
Appended(o, p) ==
    LET all == Append(o.frames, [first |-> o.next, last |-> o.next + p.len - 1,
                                 breaks |-> p.breaks, tail |-> p.tail])
        evicted == Min({k \in 0..Len(all) : /\ Bytes(From(all, k + 1)) <= Capacity
                                            /\ Lines(From(all, k + 1)) <= LineLimit})
    IN [frames |-> From(all, evicted + 1),
        next |-> o.next + p.len,
        dropped |-> IF evicted = 0 THEN o.dropped ELSE all[evicted].last]

Cleared(o) == [o EXCEPT !.frames = <<>>, !.dropped = o.next - 1]

(* Mutant: the frame that ends at the cursor is replayed again. *)
Replay_Inclusive(o, after) ==
    IF after < o.dropped
    THEN [kind |-> "gap", frames |-> <<>>, from |-> after + 1, to |-> o.dropped]
    ELSE [kind |-> "frames", from |-> 0, to |-> 0,
          frames |-> SelectSeq(o.frames, LAMBDA f : f.last >= after)]

(* replay(): the frames after a cursor, or the gap that precedes them. *)
Replay(o, after) ==
    LET oldest == IF o.frames = <<>> THEN o.next ELSE Head(o.frames).first
    IN CASE after < o.dropped ->
              [kind |-> "gap", frames |-> <<>>, from |-> after + 1, to |-> o.dropped]
         [] after >= o.dropped /\ o.frames # <<>> /\ after < oldest - 1 ->
              [kind |-> "gap", frames |-> <<>>, from |-> after + 1, to |-> oldest - 1]
         [] OTHER ->
              [kind |-> "frames", from |-> 0, to |-> 0,
               frames |-> SelectSeq(o.frames, LAMBDA f : f.last > after)]

-----------------------------------------------------------------------------
(* What fits into one output().                                            *)

Encoded(records, gap) ==
    Bytes(records) + Overhead * (Len(records) + IF gap = NoGap THEN 0 ELSE 1)

(* The gap once the first k records are omitted. *)
Omitting(records, gap, k) ==
    IF k = 0 THEN gap
    ELSE [from |-> IF gap = NoGap THEN records[1].first ELSE gap.from,
          to |-> records[k].last + 1, reason |-> "slow_client"]

(* How many of the oldest records _select() may omit, and which of these   *)
(* numbers make the rest fit.                                              *)
Omissions(records, gap) ==
    {k \in 0..Len(records) :
        /\ k > 0 => k < Len(records) /\ gap.reason # "baseline_redraw"
        /\ Encoded(From(records, k + 1), Omitting(records, gap, k)) <= Budget}

(* Mutant: records that do not fit are omitted without a GAP. *)
Select_Silent(records, gap) ==
    [records |-> From(records, Min(Omissions(records, gap)) + 1), gap |-> gap]

(* _select(): the fewest are omitted, and the gap says so. *)
Select(records, gap) ==
    LET k == Min(Omissions(records, gap))
    IN [records |-> From(records, k + 1), gap |-> Omitting(records, gap, k)]

Emitted(chosen) ==
    (IF chosen.gap = NoGap THEN <<>>
     ELSE <<[kind |-> "gap", first |-> chosen.gap.from, last |-> chosen.gap.to - 1]>>)
    \o [i \in DOMAIN chosen.records |-> [kind |-> "output",
                                         first |-> chosen.records[i].first,
                                         last |-> chosen.records[i].last]]

-----------------------------------------------------------------------------
(* Attaching.  _prepare_output() runs when the session is opened.          *)

Opened(base, cursor, records, gap) ==
    LET chosen == Select(records, gap)
    IN [phase |-> "open", cursor |-> cursor, baseline |-> base,
        records |-> chosen.records, gap |-> chosen.gap, sent |-> FALSE]

(* A fresh attachment: a redraw is captured and appended to the ring. *)
OpenFresh ==
    /\ sess.phase = "none"
    /\ \E redraw \in Redraws, hasMore \in BOOLEAN :
          LET o == FoldLeft(Appended, ring, redraw)
              first == ring.next
              frames == [i \in DOMAIN redraw |->
                            [first |-> first + i - 1, last |-> first + i - 1,
                             breaks |-> 0, tail |-> 1]]
              gap == IF hasMore THEN [NoGap EXCEPT !.reason = "baseline_redraw"] ELSE NoGap
          IN /\ o.next <= MaxCursor + 1
             /\ Omissions(frames, gap) # {}
             /\ ring' = o
             /\ sess' = Opened(o.next - 1, 0, frames, gap)
    /\ reader' = [from |-> ring.next - 1, cursor |-> 0, seen |-> {}, told |-> {}]
    /\ UNCHANGED <<wire, bursts>>

(* An attachment that resumes at the reader's cursor. *)
OpenResume ==
    /\ sess.phase = "none" /\ reader.cursor > 0
    /\ LET first == Replay(ring, reader.cursor)
           gap == IF first.kind = "gap"
                  THEN [from |-> first.from, to |-> first.to + 1, reason |-> "cursor_expired"]
                  ELSE NoGap
           frames == IF first.kind = "gap" THEN Replay(ring, first.to).frames
                     ELSE first.frames
       IN /\ Omissions(frames, gap) # {}
          /\ sess' = Opened(ring.next - 1, reader.cursor, frames, gap)
    /\ UNCHANGED <<ring, wire, reader, bursts>>

(* ADMISSION_COMMIT: the baseline must still fit with what came since. *)
Commit ==
    /\ sess.phase = "open"
    /\ LET live == Replay(ring, sess.baseline)
       IN /\ live.kind = "frames"
          /\ Encoded(sess.records \o live.frames, sess.gap) <= Budget
          /\ sess' = [sess EXCEPT !.phase = "committed", !.records = @ \o live.frames]
    /\ UNCHANGED <<ring, wire, reader, bursts>>

-----------------------------------------------------------------------------
(* output().                                                               *)

SendBaseline ==
    /\ sess.phase = "committed" /\ ~sess.sent
    /\ Omissions(sess.records, sess.gap) # {}
    /\ LET chosen == Select(sess.records, sess.gap)
       IN /\ wire' = wire \o Emitted(chosen)
          /\ sess' = [sess EXCEPT !.sent = TRUE, !.records = <<>>, !.gap = NoGap,
                                  !.cursor = IF chosen.records = <<>> THEN sess.baseline
                                             ELSE Last(chosen.records).last]
    /\ UNCHANGED <<ring, reader, bursts>>

(* replay_output() reads the PTY before it replays; there may be nothing. *)
Reads == {<<>>} \cup {<<p>> : p \in Payloads}
Read(o, r) == FoldLeft(Appended, o, r)

(* Cursors of a read that the line limit alone keeps out of the ring. *)
Burst(o, r) ==
    IF r # <<>> /\ r[1].breaks + r[1].tail > LineLimit
    THEN o.next..(o.next + r[1].len - 1) ELSE {}

(* The second read happens only when the first replay is a gap. *)
SecondReads(r1) ==
    IF Replay(Read(ring, r1), sess.cursor).kind = "gap" THEN Reads ELSE {<<>>}

(* What output() replays and how it leaves the ring. *)
Output(r1, r2) ==
    LET o1 == Read(ring, r1)
        p1 == Replay(o1, sess.cursor)
        o2 == Read(o1, r2)
        p2 == Replay(o2, p1.to)
        gap == [from |-> p1.from, to |-> p1.to + 1, reason |-> "ring_overflow"]
    IN IF p1.kind = "gap"
       THEN [ring |-> o2, frames |-> p2.frames, gap |-> gap,
             bursts |-> Burst(ring, r1) \cup Burst(o1, r2)]
       ELSE [ring |-> o1, frames |-> p1.frames, gap |-> NoGap, bursts |-> Burst(ring, r1)]

SendNew ==
    /\ sess.phase = "committed" /\ sess.sent
    /\ \E r1 \in Reads : \E r2 \in SecondReads(r1) :
          LET out == Output(r1, r2)
          IN /\ out.ring.next <= MaxCursor + 1
             /\ Omissions(out.frames, out.gap) # {}
             /\ ring' = out.ring
             /\ bursts' = bursts \cup out.bursts
             /\ wire' = wire \o Emitted(Select(out.frames, out.gap))
             /\ sess' = [sess EXCEPT !.cursor = out.ring.next - 1]
    /\ UNCHANGED reader

(* output() fails after it read: the session closes, and if a record could *)
(* not be encrypted it clears the ring.                                    *)
SendFails ==
    /\ sess.phase = "committed" /\ sess.sent
    /\ \E r1 \in Reads, clears \in BOOLEAN : \E r2 \in SecondReads(r1) :
          LET out == Output(r1, r2)
          IN /\ out.ring.next <= MaxCursor + 1
             /\ ring' = IF clears THEN Cleared(out.ring) ELSE out.ring
             /\ bursts' = bursts \cup out.bursts
    /\ sess' = NoSession
    /\ wire' = <<>>
    /\ UNCHANGED reader

(* receive() cannot agree on keys or decrypt an input: the session closes, *)
(* the ring is cleared.                                                    *)
CryptoFailure ==
    /\ sess.phase # "none"
    /\ ring' = Cleared(ring)
    /\ sess' = NoSession
    /\ wire' = <<>>
    /\ UNCHANGED <<reader, bursts>>

(* The session ends; frames on their way to the reader are lost with it. *)
Disconnect ==
    /\ sess.phase # "none"
    /\ sess' = NoSession
    /\ wire' = <<>>
    /\ UNCHANGED <<ring, reader, bursts>>

(* A protocol-following client takes the next frame. *)
Receive ==
    /\ wire # <<>>
    /\ LET f == Head(wire)
           cursors == f.first..f.last
       IN reader' = IF f.last < f.first THEN reader
                    ELSE [reader EXCEPT
                            !.cursor = f.last,
                            !.seen = IF f.kind = "output" THEN @ \cup cursors ELSE @,
                            !.told = IF f.kind = "gap" THEN @ \cup cursors ELSE @]
    /\ wire' = Tail(wire)
    /\ UNCHANGED <<ring, sess, bursts>>

Next ==
    \/ OpenFresh \/ OpenResume \/ Commit \/ SendBaseline \/ SendNew
    \/ SendFails \/ CryptoFailure \/ Disconnect \/ Receive

Spec == Init /\ [][Next]_vars

-----------------------------------------------------------------------------
(* Properties.                                                             *)

(* Over every sequence of attachments, redraws and resumptions, the frames *)
(* a reader receives cover rising cursors: no byte is sent twice or out of *)
(* order, and no GAP covers a byte that was sent (replay(), _select() and  *)
(* the cursor output() keeps).                                             *)
OutputIsInOrder ==
    LET covering == SelectSeq(wire, LAMBDA f : f.first <= f.last)
    IN \A i \in DOMAIN covering :
          covering[i].first > IF i = 1 THEN Max({reader.from, reader.cursor})
                              ELSE covering[i - 1].last

(* Every byte up to the reader's cursor was sent, or lies in a GAP that    *)
(* was sent, or was read in a burst of more lines than the ring retains:   *)
(* eviction, a cleared ring, a slow client, a lost connection and a        *)
(* resumption in any order lose nothing else in silence.                   *)
OnlyBurstsAreLost ==
    (reader.from + 1)..reader.cursor \subseteq reader.seen \cup reader.told \cup bursts

(* "emit an exact cursor GAP": every byte up to the reader's cursor was    *)
(* sent or lies in a GAP that was sent.                                    *)
GapIsExact ==
    (reader.from + 1)..reader.cursor \subseteq reader.seen \cup reader.told
=============================================================================
