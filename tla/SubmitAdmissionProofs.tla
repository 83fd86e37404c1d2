----------------------- MODULE SubmitAdmissionProofs -----------------------
(***************************************************************************)
(* Proofs about SubmitAdmission for any processes, requests, slots and      *)
(* executions: at most one consumption, truthful records, exclusive slots. *)
(***************************************************************************)
EXTENDS SubmitAdmission, TLAPS

(* The provers every leaf below is tried with, in this order, and their    *)
(* time limits in seconds, unless the leaf names one itself.               *)
USE SMTT(15), ZenonT(30), SMTT(20)

(* The body of r in custody at p is one whose request was accepted there. *)
Accepted(p, r) == entries[p][r] # NoEntry /\ entries[p][r].accepted

(* The revision of a record counts the phases it went through. *)
RevisionFits(record) ==
    /\ record.phase = "accepted" => record.rev = 1
    /\ record.phase = "dispatch_fenced" => record.rev = 2
    /\ record.phase = "acknowledged" => record.rev = 3

(* A request without record was accepted by nobody. *)
UnclaimedInv ==
    \A r \in Requests : records[r] = NoRecord =>
        \A p \in Processes :
            r \notin store[p].live /\ tasks[p][r] = "none" /\ ~Accepted(p, r)

(* The claim, the custody and the worker of a request are one process's. *)
ClaimInv ==
    \A r \in Requests : \A p, q \in Processes :
        /\ Accepted(p, r) /\ Accepted(q, r) => p = q
        /\ Accepted(p, r) /\ tasks[q][r] # "none" => p = q
        /\ tasks[p][r] # "none" /\ r \in store[q].live => p = q

(* What the phase of the record, the worker and the entry of a request say *)
(* of its effect.                                                          *)
EffectInv ==
    \A r \in Requests :
        /\ effects[r] \in {0, 1}
        /\ records[r] = NoRecord => effects[r] = 0
        /\ \A p \in Processes :
              /\ Accepted(p, r) /\ ~entries[p][r].used => effects[r] = 0
              /\ tasks[p][r] = "effected" => effects[r] = 1
              /\ tasks[p][r] \in {"checked", "effected"}
                    => records[r].phase \in {"dispatch_fenced", "unknown"}

(* No two unfinished records share a slot. *)
SlotInv ==
    \A r, q \in Requests :
        r # q /\ Unfinished(r) /\ Unfinished(q) => SlotOf[r] # SlotOf[q]

RevisionInv == \A r \in Requests : records[r] # NoRecord => RevisionFits(records[r])

IInv == /\ TypeOK /\ RevisionInv /\ UnclaimedInv /\ ClaimInv
        /\ EffectInv /\ RecordIsTruthful /\ SlotInv

-----------------------------------------------------------------------------
(* A phase only moves to one the table of transition() allows, and its     *)
(* revision grows by one: the result is again a well-formed record.        *)
LEMMA MovedRecord ==
    ASSUME NEW record \in Records, RevisionFits(record),
           NEW phase, phase \in Allowed(record.phase)
    PROVE  /\ Moved(record, phase) \in Records
           /\ Moved(record, phase) # NoRecord
           /\ Moved(record, phase).phase = phase
           /\ RevisionFits(Moved(record, phase))
           /\ Moved(record, phase).rev = 4 => record.phase = "acknowledged"
           /\ record.phase \notin FinishedPhases
  <1>1. record.phase \in {"accepted", "dispatch_fenced", "acknowledged"}
    BY DEF Records, Phases, Allowed
  <1>2. phase \in Phases \ {"accepted"} /\ record.rev + 1 \in 1..4
    BY <1>1 DEF Records, Phases, Allowed, RevisionFits
  <1>3. /\ Moved(record, phase) \in Records
        /\ Moved(record, phase).phase = phase
        /\ Moved(record, phase).rev = record.rev + 1
    BY <1>2, ZenonT(30) DEF Moved, Records
  <1>4. phase = "dispatch_fenced" => record.phase = "accepted"
    BY <1>1 DEF Allowed
  <1>5. phase = "acknowledged" => record.phase = "dispatch_fenced"
    BY <1>1 DEF Allowed
  <1>6. RevisionFits(Moved(record, phase))
    BY <1>2, <1>3, <1>4, <1>5 DEF RevisionFits
  <1>7. Moved(record, phase).rev = 4 => record.phase = "acknowledged"
    BY <1>1, <1>3 DEF RevisionFits
  <1>8. Moved(record, phase) # NoRecord
    <2>1. NoRecord.phase \notin Phases
      BY DEF NoRecord, Phases
    <2> QED BY <1>2, <1>3, <2>1
  <1> QED BY <1>1, <1>3, <1>6, <1>7, <1>8 DEF FinishedPhases

(* How a step of the journal may change the records: not at all, or by one *)
(* legal move of a request this process has a claim on.                    *)
JournalStep(p, r, phase) ==
    /\ store' \in [Processes -> [status: {"closed", "reader", "writer", "fenced"},
                                 live: SUBSET Requests]]
    /\ \A q \in Processes : store'[q].live \subseteq store[q].live
    /\ \/ records' = records
       \/ /\ records[r] # NoRecord /\ r \in store[p].live
          /\ phase \in Allowed(records[r].phase)
          /\ records' = After(r, phase)

LEMMA FenceStep ==
    ASSUME TypeOK, NEW p \in Processes, Fence(p)
    PROVE  /\ store' \in [Processes -> [status: {"closed", "reader", "writer", "fenced"},
                                        live: SUBSET Requests]]
           /\ \A q \in Processes : store'[q].live = store[q].live
  BY ZenonT(30) DEF TypeOK, Fence

LEMMA TransitionStep ==
    ASSUME TypeOK, NEW p \in Processes, NEW r \in Requests, NEW rev, NEW phase,
           Transition(p, r, rev, phase) \/ TransitionFails(p, r, rev, phase)
    PROVE  JournalStep(p, r, phase)
  <1>1. CASE Transition(p, r, rev, phase)
    <2> DEFINE kept == IF phase \in FinishedPhases \cup {"unknown"}
                       THEN store[p].live \ {r} ELSE store[p].live
    <2>1. kept \in SUBSET Requests /\ kept \subseteq store[p].live
      BY DEF TypeOK
    <2>2. store' = [store EXCEPT ![p].live = kept]
      BY <1>1 DEF Transition
    <2> HIDE DEF kept
    <2>3. store' \in [Processes -> [status: {"closed", "reader", "writer", "fenced"},
                                    live: SUBSET Requests]]
      <3> DEFINE Stores == [status: {"closed", "reader", "writer", "fenced"},
                            live: SUBSET Requests]
      <3>1. store \in [Processes -> Stores]
        BY DEF TypeOK
      <3>2. store[p] \in Stores
        BY <3>1
      <3>3. [store[p] EXCEPT !.live = kept] \in Stores
        BY <2>1, <3>2
      <3>4. store' = [store EXCEPT ![p] = [store[p] EXCEPT !.live = kept]]
        BY <2>2
      <3> HIDE DEF Stores
      <3>5. store' \in [Processes -> Stores]
        BY <3>1, <3>3, <3>4
      <3> QED BY <3>5 DEF Stores
    <2>4. \A q \in Processes : store'[q].live \subseteq store[q].live
      BY <2>1, <2>2 DEF TypeOK
    <2> QED BY <1>1, <2>3, <2>4 DEF Transition, MayMove, JournalStep
  <1>2. CASE TransitionFails(p, r, rev, phase)
    <2>1. CASE MayMove(p, r, rev, phase) /\ Fence(p)
               /\ records' \in {records, After(r, phase)}
      BY <2>1, FenceStep DEF MayMove, JournalStep
    <2>2. CASE UNCHANGED <<records, store>>
      BY <2>2 DEF JournalStep, TypeOK
    <2> QED BY <1>2, <2>1, <2>2, FenceStep DEF TransitionFails, WriteFails, Writable, JournalStep
  <1> QED BY <1>1, <1>2

(* What a move of the record of r may do to the invariant. *)
LEMMA MoveStep ==
    ASSUME IInv, NEW p \in Processes, NEW r \in Requests, NEW phase,
           JournalStep(p, r, phase),
           effects' = effects,
           phase = "acknowledged" => effects[r] = 1
    PROVE  /\ records' \in [Requests -> Records \cup {NoRecord}]
           /\ \A q \in Requests : records'[q] = NoRecord <=> records[q] = NoRecord
           /\ \A q \in Requests : Unfinished(q)' => Unfinished(q)
           /\ RevisionInv' /\ RecordIsTruthful' /\ SlotInv'
           /\ \A q \in Requests \ {r} : records'[q] = records[q]
           /\ records'[r] # records[r] => records'[r].phase = phase
  <1>1. CASE records' = records
    <2>1. RevisionInv'
      BY <1>1 DEF IInv, RevisionInv
    <2>2. RecordIsTruthful'
      BY <1>1 DEF IInv, RecordIsTruthful
    <2>3. SlotInv' /\ \A q \in Requests : Unfinished(q)' => Unfinished(q)
      BY <1>1 DEF IInv, SlotInv, Unfinished
    <2> QED BY <1>1, <2>1, <2>2, <2>3 DEF IInv, TypeOK
  <1>2. CASE /\ records[r] # NoRecord /\ r \in store[p].live
             /\ phase \in Allowed(records[r].phase)
             /\ records' = After(r, phase)
    <2>1. records[r] \in Records /\ RevisionFits(records[r])
      BY <1>2 DEF IInv, TypeOK, RevisionInv
    <2>2. /\ Moved(records[r], phase) \in Records
          /\ Moved(records[r], phase) # NoRecord
          /\ Moved(records[r], phase).phase = phase
          /\ RevisionFits(Moved(records[r], phase))
          /\ Moved(records[r], phase).rev = 4 => records[r].phase = "acknowledged"
          /\ records[r].phase \notin FinishedPhases
      BY <1>2, <2>1, MovedRecord
    <2>3. records' = [records EXCEPT ![r] = Moved(records[r], phase)]
      BY <1>2 DEF After
    <2> HIDE DEF Moved
    <2>4. records' \in [Requests -> Records \cup {NoRecord}]
          /\ records'[r] = Moved(records[r], phase)
          /\ \A q \in Requests \ {r} : records'[q] = records[q]
      BY <2>2, <2>3 DEF IInv, TypeOK
    <2>5. \A q \in Requests : Unfinished(q)' => Unfinished(q)
      BY <1>2, <2>2, <2>4 DEF Unfinished
    <2>6. SlotInv'
      BY <2>5 DEF IInv, SlotInv
    <2>7. RevisionInv'
      BY <2>2, <2>4 DEF IInv, RevisionInv
    <2>8. records[r].phase = "accepted" => effects[r] = 0
      BY DEF IInv, RecordIsTruthful
    <2>9. phase = "rejected_before_dispatch" => effects[r] = 0
      <3>1. records[r].phase \in Phases
        BY <2>1 DEF Records
      <3> QED BY <1>2, <2>8, <3>1 DEF Allowed, Phases
    <2>10. phase \notin {"none", "accepted"}
      BY <1>2 DEF Allowed
    <2>11. records'[r].rev = 4 => effects[r] = 1
      BY <2>2, <2>4 DEF IInv, RecordIsTruthful
    <2>12. RecordIsTruthful'
      BY <2>2, <2>4, <2>9, <2>10, <2>11 DEF IInv, RecordIsTruthful
    <2> QED BY <1>2, <2>2, <2>4, <2>5, <2>6, <2>7, <2>12
  <1> QED BY <1>1, <1>2 DEF JournalStep

(* A step that accepts nothing and consumes nothing: claims, accepted      *)
(* entries and workers may only go away.                                   *)
Quiet ==
    /\ effects' = effects
    /\ \A r \in Requests : records'[r] = NoRecord => records[r] = NoRecord
    /\ \A p \in Processes, r \in Requests :
          /\ r \in store'[p].live => r \in store[p].live
          /\ Accepted(p, r)' => /\ Accepted(p, r)
                                /\ entries[p][r].used => entries'[p][r].used
          /\ tasks'[p][r] # "none" => tasks[p][r] # "none"
          /\ tasks'[p][r] = "effected" => tasks[p][r] = "effected"
          /\ tasks'[p][r] \in {"checked", "effected"}
                => records'[r].phase \in {"dispatch_fenced", "unknown"}

LEMMA QuietStep ==
    ASSUME IInv, Quiet
    PROVE  UnclaimedInv' /\ ClaimInv' /\ EffectInv'
  <1>1. UnclaimedInv'
    BY DEF IInv, Quiet, UnclaimedInv
  <1>2. ClaimInv'
    <2>1. ASSUME NEW r \in Requests, NEW p \in Processes, NEW q \in Processes
          PROVE  /\ Accepted(p, r)' /\ Accepted(q, r)' => p = q
                 /\ Accepted(p, r)' /\ tasks'[q][r] # "none" => p = q
                 /\ tasks'[p][r] # "none" /\ r \in store'[q].live => p = q
      BY DEF IInv, Quiet, ClaimInv
    <2> QED BY <2>1 DEF ClaimInv
  <1>3. EffectInv'
    <2> SUFFICES ASSUME NEW r \in Requests
                 PROVE  /\ effects'[r] \in {0, 1}
                        /\ records'[r] = NoRecord => effects'[r] = 0
                        /\ \A p \in Processes :
                              /\ Accepted(p, r)' /\ ~entries'[p][r].used => effects'[r] = 0
                              /\ tasks'[p][r] = "effected" => effects'[r] = 1
                              /\ tasks'[p][r] \in {"checked", "effected"}
                                    => records'[r].phase \in {"dispatch_fenced", "unknown"}
      BY DEF EffectInv
    <2>1. effects'[r] \in {0, 1} /\ (records'[r] = NoRecord => effects'[r] = 0)
      BY DEF IInv, Quiet, EffectInv
    <2>2. ASSUME NEW p \in Processes
          PROVE  /\ Accepted(p, r)' /\ ~entries'[p][r].used => effects'[r] = 0
                 /\ tasks'[p][r] = "effected" => effects'[r] = 1
                 /\ tasks'[p][r] \in {"checked", "effected"}
                       => records'[r].phase \in {"dispatch_fenced", "unknown"}
      BY DEF IInv, Quiet, EffectInv
    <2> QED BY <2>1, <2>2
  <1> QED BY <1>1, <1>2, <1>3

(* The record of a request whose worker is in the synchronous section of p *)
(* can only be moved to UNKNOWN, by a recovery: the claim is p's.          *)
LEMMA SectionIsKept ==
    ASSUME IInv, NEW p \in Processes, NEW r \in Requests, NEW phase,
           JournalStep(p, r, phase), effects' = effects,
           phase = "acknowledged" => effects[r] = 1,
           tasks[p][r] \in {"checked", "effected"}
              => tasks'[p][r] \notin {"checked", "effected"},
           NEW pc, tasks' = tasks \/ tasks' = [tasks EXCEPT ![p][r] = pc],
           pc \notin {"checked", "effected"},
           NEW q \in Processes, NEW s \in Requests,
           tasks'[q][s] \in {"checked", "effected"}
    PROVE  records'[s].phase \in {"dispatch_fenced", "unknown"}
  <1>1. tasks[q][s] \in {"checked", "effected"} /\ <<q, s>> # <<p, r>>
    BY DEF IInv, TypeOK
  <1>2. records[s].phase \in {"dispatch_fenced", "unknown"}
    BY <1>1 DEF IInv, EffectInv
  <1>3. s # r => records'[s] = records[s]
    BY MoveStep
  <1>4. CASE s = r
    <2>1. r \notin store[p].live
      BY <1>1, <1>4 DEF IInv, ClaimInv
    <2>2. records' = records
      BY <2>1 DEF JournalStep
    <2> QED BY <1>2, <2>2
  <1> QED BY <1>2, <1>3, <1>4

-----------------------------------------------------------------------------
(* The actions that leave the records alone.                               *)

LEMMA SameRecords ==
    ASSUME IInv, records' = records, effects' = effects
    PROVE  RevisionInv' /\ RecordIsTruthful' /\ SlotInv'
  <1>1. RevisionInv'
    BY DEF IInv, RevisionInv
  <1>2. RecordIsTruthful'
    BY DEF IInv, RecordIsTruthful
  <1>3. SlotInv'
    BY DEF IInv, SlotInv, Unfinished
  <1> QED BY <1>1, <1>2, <1>3

LEMMA ReplaceOwnerKeeps ==
    ASSUME IInv, NEW p \in Processes, ReplaceOwner(p)
    PROVE  IInv'
  <1> USE DEF ReplaceOwner
  <1>1. TypeOK'
    BY DEF IInv, TypeOK
  <1>2. Quiet
    BY DEF IInv, Quiet, EffectInv, Accepted
  <1> QED BY <1>1, <1>2, QuietStep, SameRecords DEF IInv

LEMMA PrepareKeeps ==
    ASSUME IInv, NEW p \in Processes, NEW r \in Requests, Prepare(p, r)
    PROVE  IInv'
  <1> DEFINE entry == [ref |-> refs + 1, exec |-> owner[p], accepted |-> FALSE,
                       worker |-> FALSE, available |-> TRUE, used |-> FALSE]
  <1>1. entry \in Entries /\ ~entry.accepted
    BY BoundsAssumption DEF IInv, TypeOK, Entries, Prepare
  <1>2. entries' = [entries EXCEPT ![p][r] = entry]
    BY DEF Prepare
  <1> HIDE DEF entry
  <1>3. TypeOK'
    <2>1. entries' \in [Processes -> [Requests -> Entries \cup {NoEntry}]]
      BY <1>1, <1>2 DEF IInv, TypeOK
    <2>2. refs' \in 0..MaxRefs
      BY BoundsAssumption DEF IInv, TypeOK, Prepare
    <2> QED BY <2>1, <2>2 DEF IInv, TypeOK, Prepare
  <1>4. ASSUME NEW q \in Processes, NEW s \in Requests, Accepted(q, s)'
        PROVE  entries'[q][s] = entries[q][s]
    BY <1>1, <1>2, <1>4 DEF IInv, TypeOK, Accepted
  <1>5. Quiet
    BY <1>4, ZenonT(30) DEF IInv, Quiet, EffectInv, Accepted, Prepare
  <1> QED BY <1>3, <1>5, QuietStep, SameRecords DEF IInv, Prepare

LEMMA ClosedEntry ==
    ASSUME NEW entry \in Entries \cup {NoEntry}
    PROVE  /\ Closed(entry) \in Entries \cup {NoEntry}
           /\ Closed(entry) # NoEntry =>
                 /\ entry # NoEntry
                 /\ Closed(entry).accepted = entry.accepted
                 /\ Closed(entry).used = entry.used
  BY ZenonT(30) DEF Closed, Entries

LEMMA RetiredEntry ==
    ASSUME NEW p, NEW entry \in Entries \cup {NoEntry}
    PROVE  /\ WorkerRetired(p, entry) \in Entries \cup {NoEntry}
           /\ WorkerRetired(p, entry) # NoEntry =>
                 /\ entry # NoEntry
                 /\ WorkerRetired(p, entry).accepted = entry.accepted
                 /\ WorkerRetired(p, entry).used = entry.used
  BY ZenonT(30) DEF WorkerRetired, Entries

LEMMA CloseSourceKeeps ==
    ASSUME IInv, NEW p \in Processes, CloseSource(p)
    PROVE  IInv'
  <1>1. entries' = [entries EXCEPT ![p] = [r \in Requests |-> Closed(entries[p][r])]]
    BY DEF CloseSource
  <1>2. \A r \in Requests : entries[p][r] \in Entries \cup {NoEntry}
    BY DEF IInv, TypeOK
  <1>3. TypeOK'
    BY <1>1, <1>2, ClosedEntry DEF IInv, TypeOK, CloseSource
  <1>4. ASSUME NEW q \in Processes, NEW s \in Requests, Accepted(q, s)'
        PROVE  Accepted(q, s) /\ entries'[q][s].used = entries[q][s].used
    <2>1. CASE q = p
      BY <1>1, <1>2, <1>4, <2>1, ClosedEntry DEF IInv, TypeOK, Accepted
    <2>2. CASE q # p
      BY <1>1, <1>4, <2>2 DEF IInv, TypeOK, Accepted
    <2> QED BY <2>1, <2>2
  <1>5. Quiet
    BY <1>4 DEF IInv, Quiet, EffectInv, CloseSource
  <1> QED BY <1>3, <1>5, QuietStep, SameRecords DEF IInv, CloseSource

LEMMA CloseKeeps ==
    ASSUME IInv, NEW p \in Processes, Close(p)
    PROVE  IInv'
  <1>1. TypeOK'
    <2>1. store' \in [Processes -> [status: {"closed", "reader", "writer", "fenced"},
                                    live: SUBSET Requests]]
      BY DEF IInv, TypeOK, Close
    <2>2. owner' \in [Processes -> Executions \cup {Unavailable}]
      BY DEF IInv, TypeOK, Close
    <2> QED BY <2>1, <2>2 DEF IInv, TypeOK, Close
  <1>2. \A q \in Processes : store'[q].live \subseteq store[q].live
    BY DEF IInv, TypeOK, Close
  <1>3. Quiet
    BY <1>2 DEF IInv, Quiet, EffectInv, Accepted, Close
  <1> QED BY <1>1, <1>3, QuietStep, SameRecords DEF IInv, Close

LEMMA ReadKeeps ==
    ASSUME IInv, NEW p \in Processes, Read(p)
    PROVE  IInv'
  <1>1. /\ store' \in [Processes -> [status: {"closed", "reader", "writer", "fenced"},
                                     live: SUBSET Requests]]
        /\ \A q \in Processes : store'[q].live = store[q].live
    BY FenceStep DEF Read, IInv
  <1>2. TypeOK'
    BY <1>1 DEF IInv, TypeOK, Read
  <1>3. Quiet
    BY <1>1 DEF IInv, Quiet, EffectInv, Accepted, Read
  <1> QED BY <1>2, <1>3, QuietStep, SameRecords DEF IInv, Read

LEMMA CrashKeeps ==
    ASSUME IInv, NEW p \in Processes, Crash(p)
    PROVE  IInv'
  <1>1. TypeOK'
    <2>1. store' \in [Processes -> [status: {"closed", "reader", "writer", "fenced"},
                                    live: SUBSET Requests]]
      BY DEF IInv, TypeOK, Crash
    <2>2. entries' \in [Processes -> [Requests -> Entries \cup {NoEntry}]]
      BY DEF IInv, TypeOK, Crash
    <2>3. tasks' \in [Processes -> [Requests -> TaskStates]]
      BY DEF IInv, TypeOK, TaskStates, Crash
    <2>4. orphan' \in BOOLEAN
      BY ZenonT(30) DEF IInv, TypeOK, Crash
    <2>5. /\ source' \in [Processes -> {"open", "closed"}]
          /\ owner' \in [Processes -> Executions \cup {Unavailable}]
      BY DEF IInv, TypeOK, Crash
    <2> QED BY <2>1, <2>2, <2>3, <2>4, <2>5 DEF IInv, TypeOK, Crash
  <1>2. \A q \in Processes : store'[q].live \subseteq store[q].live
    BY DEF IInv, TypeOK, Crash
  <1>3. ASSUME NEW q \in Processes, NEW s \in Requests
        PROVE  /\ q = p => entries'[q][s] = NoEntry /\ tasks'[q][s] = "none"
               /\ q # p => entries'[q][s] = entries[q][s] /\ tasks'[q][s] = tasks[q][s]
    BY DEF IInv, TypeOK, Crash
  <1>4. Quiet
    BY <1>2, <1>3 DEF IInv, Quiet, EffectInv, Accepted, Crash
  <1> QED BY <1>1, <1>4, QuietStep, SameRecords DEF IInv, Crash

-----------------------------------------------------------------------------
(* The actions that write the journal.                                     *)

(* A journal step whose worker and custody only move towards the end. *)
LEMMA JournalKeeps ==
    ASSUME IInv, NEW p \in Processes, NEW r \in Requests, NEW phase,
           JournalStep(p, r, phase),
           phase = "acknowledged" => effects[r] = 1,
           NEW pc, tasks' = tasks \/ tasks' = [tasks EXCEPT ![p][r] = pc],
           pc \in {"none", "failed", "dispatching"},
           tasks[p][r] \in {"none", "checked", "effected"}
              => tasks'[p][r] = "none" \/ (tasks' # tasks /\ tasks[p][r] # "none"),
           NEW entry \in Entries \cup {NoEntry},
           entries' = entries \/ entries' = [entries EXCEPT ![p][r] = entry],
           entry # NoEntry => /\ entries[p][r] # NoEntry
                              /\ entry.accepted = entries[p][r].accepted
                              /\ entry.used = entries[p][r].used,
           UNCHANGED <<orphan, source, owner, refs, effects>>
    PROVE  IInv'
  <1>1. /\ records' \in [Requests -> Records \cup {NoRecord}]
        /\ \A q \in Requests : records'[q] = NoRecord <=> records[q] = NoRecord
        /\ RevisionInv' /\ RecordIsTruthful' /\ SlotInv'
    BY MoveStep
  <1>2. tasks' \in [Processes -> [Requests -> TaskStates]]
    <2>1. tasks \in [Processes -> [Requests -> TaskStates]] /\ pc \in TaskStates
      BY DEF IInv, TypeOK, TaskStates
    <2> QED BY <2>1
  <1>3. entries' \in [Processes -> [Requests -> Entries \cup {NoEntry}]]
    <2>1. entries \in [Processes -> [Requests -> Entries \cup {NoEntry}]]
      BY DEF IInv, TypeOK
    <2> QED BY <2>1
  <1>4. TypeOK'
    BY <1>1, <1>2, <1>3 DEF IInv, TypeOK, JournalStep
  <1>5. ASSUME NEW q \in Processes, NEW s \in Requests, Accepted(q, s)'
        PROVE  Accepted(q, s) /\ entries'[q][s].used = entries[q][s].used
    <2>1. entries \in [Processes -> [Requests -> Entries \cup {NoEntry}]]
      BY DEF IInv, TypeOK
    <2>2. entries'[q][s] = entries[q][s] \/ (q = p /\ s = r /\ entries'[q][s] = entry)
      BY <2>1
    <2> QED BY <1>5, <2>2 DEF Accepted
  <1>6. ASSUME NEW q \in Processes, NEW s \in Requests, tasks'[q][s] # "none"
        PROVE  tasks[q][s] # "none" /\ (tasks'[q][s] = "effected" => tasks[q][s] = "effected")
    BY <1>6 DEF IInv, TypeOK
  <1>7. tasks[p][r] \in {"checked", "effected"} => tasks'[p][r] \notin {"checked", "effected"}
    BY DEF IInv, TypeOK
  <1>8. ASSUME NEW q \in Processes, NEW s \in Requests,
               tasks'[q][s] \in {"checked", "effected"}
        PROVE  records'[s].phase \in {"dispatch_fenced", "unknown"}
    BY <1>7, <1>8, SectionIsKept
  <1>9. Quiet
    BY <1>1, <1>5, <1>6, <1>8 DEF Quiet, JournalStep
  <1> QED BY <1>1, <1>4, <1>9, QuietStep DEF IInv

LEMMA RunFenceKeeps ==
    ASSUME IInv, NEW p \in Processes, NEW r \in Requests, RunFence(p, r)
    PROVE  IInv'
  <1>1. JournalStep(p, r, "dispatch_fenced")
    <2>1. CASE UNCHANGED <<records, store>>
      BY <2>1 DEF JournalStep, IInv, TypeOK
    <2> QED BY <2>1, TransitionStep DEF RunFence, IInv
  <1>2. PICK pc \in {"failed", "dispatching"} : tasks' = [tasks EXCEPT ![p][r] = pc]
    BY DEF RunFence, Fail
  <1>3. tasks[p][r] = "ready"
    BY DEF RunFence
  <1>4. UNCHANGED <<orphan, source, entries, owner, refs, effects>>
    BY DEF RunFence
  <1> QED BY <1>1, <1>2, <1>3, <1>4, JournalKeeps, ZenonT(30)

LEMMA RunSettleKeeps ==
    ASSUME IInv, NEW p \in Processes, NEW r \in Requests, RunSettle(p, r)
    PROVE  IInv'
  <1>1. JournalStep(p, r, "unknown")
    BY TransitionStep DEF RunSettle, IInv
  <1>2. tasks' = [tasks EXCEPT ![p][r] = "none"] /\ tasks[p][r] = "failed"
    BY DEF RunSettle
  <1> DEFINE revoked == IF entries[p][r] = NoEntry THEN entries[p][r]
                        ELSE [entries[p][r] EXCEPT !.available = FALSE]
             entry == WorkerRetired(p, revoked)
  <1>3. entries' = [entries EXCEPT ![p][r] = entry]
    BY DEF RunSettle
  <1>4. /\ revoked \in Entries \cup {NoEntry}
        /\ revoked # NoEntry => /\ entries[p][r] # NoEntry
                                /\ revoked.accepted = entries[p][r].accepted
                                /\ revoked.used = entries[p][r].used
    <2>1. entries[p][r] \in Entries \cup {NoEntry}
      BY DEF IInv, TypeOK
    <2> QED BY <2>1, ZenonT(30) DEF Entries
  <1>5. /\ entry \in Entries \cup {NoEntry}
        /\ entry # NoEntry => /\ revoked # NoEntry
                              /\ entry.accepted = revoked.accepted
                              /\ entry.used = revoked.used
    BY <1>4, RetiredEntry, ZenonT(30)
  <1>6. UNCHANGED <<orphan, source, owner, refs, effects>>
    BY DEF RunSettle
  <1> HIDE DEF entry, revoked
  <1> QED BY <1>1, <1>2, <1>3, <1>4, <1>5, <1>6, JournalKeeps, ZenonT(30)

LEMMA RunAcknowledgeKeeps ==
    ASSUME IInv, NEW p \in Processes, NEW r \in Requests, RunAcknowledge(p, r)
    PROVE  IInv'
  <1>1. JournalStep(p, r, "acknowledged")
    BY TransitionStep DEF RunAcknowledge, IInv
  <1>2. tasks[p][r] = "effected" /\ effects[r] = 1
    BY DEF RunAcknowledge, IInv, EffectInv
  <1>3. UNCHANGED <<orphan, source, owner, refs, effects>>
    BY DEF RunAcknowledge
  <1>4. entries[p][r] \in Entries \cup {NoEntry}
    BY DEF IInv, TypeOK
  <1>5. CASE /\ tasks' = [tasks EXCEPT ![p][r] = "none"]
             /\ entries' = [entries EXCEPT ![p][r] = WorkerRetired(p, entries[p][r])]
    <2> DEFINE entry == WorkerRetired(p, entries[p][r])
    <2>1. /\ entry \in Entries \cup {NoEntry}
          /\ entry # NoEntry => /\ entries[p][r] # NoEntry
                                /\ entry.accepted = entries[p][r].accepted
                                /\ entry.used = entries[p][r].used
      BY <1>4, RetiredEntry
    <2>2. entries' = [entries EXCEPT ![p][r] = entry]
      BY <1>5
    <2> HIDE DEF entry
    <2>3. tasks' = [tasks EXCEPT ![p][r] = "none"] /\ tasks' # tasks
      BY <1>2, <1>5 DEF IInv, TypeOK
    <2> QED BY <1>1, <1>2, <1>3, <2>1, <2>2, <2>3, JournalKeeps, ZenonT(30)
  <1>6. CASE tasks' = [tasks EXCEPT ![p][r] = "failed"] /\ UNCHANGED entries
    <2>1. tasks' # tasks
      BY <1>2, <1>6 DEF IInv, TypeOK
    <2> QED BY <1>1, <1>2, <1>3, <1>6, <2>1, JournalKeeps, ZenonT(30)
  <1> QED BY <1>5, <1>6 DEF RunAcknowledge, Fail

LEMMA ConcludeKeeps ==
    ASSUME IInv, NEW p \in Processes, NEW r \in Requests, NEW phase,
           phase \in {"terminal", "rejected_before_dispatch"}, Conclude(p, r, phase)
    PROVE  IInv'
  <1>1. JournalStep(p, r, phase)
    BY TransitionStep DEF Conclude, IInv
  <1>2. phase # "acknowledged"
    OBVIOUS
  <1>3. tasks' = tasks /\ tasks[p][r] \notin {"checked", "effected"}
    BY DEF Conclude, Free
  <1>4. UNCHANGED <<orphan, source, entries, owner, refs, effects>>
    BY DEF Conclude
  <1> QED BY <1>1, <1>2, <1>3, <1>4, JournalKeeps

LEMMA RunCheckKeeps ==
    ASSUME IInv, NEW p \in Processes, NEW r \in Requests, RunCheck(p, r)
    PROVE  IInv'
  <1>1. PICK pc \in {"checked", "failed"} :
           /\ tasks' = [tasks EXCEPT ![p][r] = pc]
           /\ pc = "checked" => records[r].phase = "dispatch_fenced"
    BY DEF RunCheck, Fail
  <1>2. /\ store' \in [Processes -> [status: {"closed", "reader", "writer", "fenced"},
                                     live: SUBSET Requests]]
        /\ \A q \in Processes : store'[q].live = store[q].live
    <2>1. CASE UNCHANGED store
      BY <2>1 DEF IInv, TypeOK
    <2> QED BY <2>1, FenceStep DEF RunCheck, IInv
  <1>3. tasks' \in [Processes -> [Requests -> TaskStates]]
    <2>1. tasks \in [Processes -> [Requests -> TaskStates]] /\ pc \in TaskStates
      BY DEF IInv, TypeOK, TaskStates
    <2> QED BY <1>1, <2>1
  <1>4. TypeOK'
    BY <1>2, <1>3 DEF IInv, TypeOK, RunCheck
  <1>5. ASSUME NEW q \in Processes, NEW s \in Requests
        PROVE  \/ tasks'[q][s] = tasks[q][s]
               \/ q = p /\ s = r /\ tasks'[q][s] = pc /\ tasks[q][s] = "dispatching"
    BY <1>1 DEF IInv, TypeOK, RunCheck
  <1>6. Quiet
    BY <1>1, <1>2, <1>5 DEF IInv, Quiet, EffectInv, Accepted, RunCheck
  <1> QED BY <1>4, <1>6, QuietStep, SameRecords DEF IInv, RunCheck

LEMMA OpenKeeps ==
    ASSUME IInv, NEW p \in Processes, Open(p)
    PROVE  IInv'
  <1>1. ASSUME NEW r \in Requests, Unfinished(r), records[r].phase # "unknown"
        PROVE  records[r] \in Records /\ RevisionFits(records[r])
               /\ "unknown" \in Allowed(records[r].phase)
    <2>1. records[r] \in Records /\ RevisionFits(records[r])
      BY <1>1 DEF IInv, TypeOK, RevisionInv, Unfinished
    <2>2. records[r].phase \in {"accepted", "dispatch_fenced", "acknowledged"}
      BY <1>1, <2>1 DEF Records, Phases, Unfinished, FinishedPhases
    <2> QED BY <2>1, <2>2 DEF Allowed
  <1>2. ASSUME NEW r \in Requests
        PROVE  \/ Recovered[r] = records[r]
               \/ /\ Recovered[r] \in Records /\ Recovered[r] # NoRecord
                  /\ Recovered[r].phase = "unknown" /\ RevisionFits(Recovered[r])
                  /\ Recovered[r].rev = 4 => records[r].phase = "acknowledged"
                  /\ Unfinished(r)
    BY <1>1, MovedRecord DEF Recovered
  <1>3. records' = records \/ records' = Recovered
    BY DEF Open
  <1>4. ASSUME NEW r \in Requests
        PROVE  \/ records'[r] = records[r]
               \/ /\ records'[r] \in Records /\ records'[r] # NoRecord
                  /\ records'[r].phase = "unknown" /\ RevisionFits(records'[r])
                  /\ records'[r].rev = 4 => records[r].phase = "acknowledged"
                  /\ Unfinished(r)
    BY <1>2, <1>3
  <1>5. records' \in [Requests -> Records \cup {NoRecord}]
    <2>1. CASE records' = Recovered
      <3>1. \A r \in Requests : Recovered[r] \in Records \cup {NoRecord}
        BY <1>2 DEF IInv, TypeOK
      <3> QED BY <2>1, <3>1 DEF Recovered
    <2> QED BY <1>3, <2>1 DEF IInv, TypeOK
  <1>6. RevisionInv' /\ SlotInv' /\ RecordIsTruthful'
    <2>1. RevisionInv'
      BY <1>4 DEF IInv, RevisionInv
    <2>2. \A r \in Requests : Unfinished(r)' => Unfinished(r)
      BY <1>4 DEF Unfinished
    <2>3. SlotInv'
      BY <2>2 DEF IInv, SlotInv
    <2>4. RecordIsTruthful'
      BY <1>4 DEF IInv, RecordIsTruthful, Open
    <2> QED BY <2>1, <2>3, <2>4
  <1>7. /\ store' \in [Processes -> [status: {"closed", "reader", "writer", "fenced"},
                                     live: SUBSET Requests]]
        /\ \A q \in Processes : store'[q].live \subseteq store[q].live
    <2>1. store \in [Processes -> [status: {"closed", "reader", "writer", "fenced"},
                                   live: SUBSET Requests]]
      BY DEF IInv, TypeOK
    <2>2. \/ store' = store
          \/ store' = [store EXCEPT ![p] = [status |-> "writer", live |-> {}]]
          \/ store' = [store EXCEPT ![p] = [status |-> "reader", live |-> {}]]
      BY DEF Open
    <2> QED BY <2>1, <2>2
  <1>8. /\ source' \in [Processes -> {"open", "closed"}]
        /\ owner' \in [Processes -> Executions \cup {Unavailable}]
    <2>1. /\ source \in [Processes -> {"open", "closed"}]
          /\ owner \in [Processes -> Executions \cup {Unavailable}]
      BY DEF IInv, TypeOK
    <2>2. source' = source \/ source' = [source EXCEPT ![p] = "open"]
      BY DEF Open
    <2>3. owner' = owner \/ \E e \in Executions : owner' = [owner EXCEPT ![p] = e]
      BY DEF Open
    <2> QED BY <2>1, <2>2, <2>3
  <1>9. TypeOK'
    BY <1>5, <1>7, <1>8 DEF IInv, TypeOK, Open
  <1>10. Quiet
    <2>1. ASSUME NEW q \in Processes, NEW r \in Requests,
                 tasks'[q][r] \in {"checked", "effected"}
          PROVE  records'[r].phase \in {"dispatch_fenced", "unknown"}
      BY <1>4, <2>1 DEF IInv, EffectInv, Open
    <2> QED BY <1>4, <1>7, <2>1 DEF Quiet, Accepted, Open
  <1> QED BY <1>6, <1>9, <1>10, QuietStep DEF IInv

(* accept() adds a record for a request that had none, in a free slot. *)
LEMMA AcceptStep ==
    ASSUME IInv, NEW p \in Processes, NEW r \in Requests,
           entries[p][r] \in Entries, Acceptable(r),
           records' = [records EXCEPT ![r] = AcceptedRecord(p, r)], effects' = effects
    PROVE  /\ records' \in [Requests -> Records \cup {NoRecord}]
           /\ RevisionInv' /\ RecordIsTruthful' /\ SlotInv'
           /\ records[r] = NoRecord /\ records'[r] # NoRecord
           /\ \A q \in Requests \ {r} : records'[q] = records[q]
  <1> DEFINE new == AcceptedRecord(p, r)
  <1>1. new \in Records /\ new.phase = "accepted" /\ new.rev = 1
    BY DEF AcceptedRecord, Records, Entries, Phases
  <1>2. new # NoRecord
    BY <1>1 DEF NoRecord
  <1> HIDE DEF new
  <1>3. records' = [records EXCEPT ![r] = new]
    BY DEF new
  <1>4. /\ records' \in [Requests -> Records \cup {NoRecord}]
        /\ records'[r] = new
        /\ \A q \in Requests \ {r} : records'[q] = records[q]
    BY <1>1, <1>3 DEF IInv, TypeOK
  <1>5. RevisionInv'
    BY <1>1, <1>4 DEF IInv, RevisionInv, RevisionFits
  <1>6. effects[r] = 0 /\ records[r] = NoRecord
    BY DEF IInv, EffectInv, Acceptable
  <1>7. RecordIsTruthful'
    BY <1>1, <1>4, <1>6 DEF IInv, RecordIsTruthful
  <1>8. \A q \in Requests \ {r} : Unfinished(q)' <=> Unfinished(q)
    BY <1>4 DEF Unfinished
  <1>9. SlotInv'
    BY <1>8 DEF IInv, SlotInv, Acceptable
  <1> QED BY <1>2, <1>4, <1>5, <1>6, <1>7, <1>9

LEMMA SubmitFailsKeeps ==
    ASSUME IInv, NEW p \in Processes, NEW r \in Requests, SubmitFails(p, r)
    PROVE  IInv'
  <1>1. entries[p][r] \in Entries /\ ~entries[p][r].accepted
    BY DEF IInv, TypeOK, SubmitFails
  <1>2. /\ store' \in [Processes -> [status: {"closed", "reader", "writer", "fenced"},
                                     live: SUBSET Requests]]
        /\ \A q \in Processes : store'[q].live = store[q].live
    <2>1. CASE UNCHANGED store
      BY <2>1 DEF IInv, TypeOK
    <2> QED BY <2>1, FenceStep DEF SubmitFails, WriteFails, IInv
  <1>3. \/ records' = records
        \/ Acceptable(r) /\ records' = [records EXCEPT ![r] = AcceptedRecord(p, r)]
    BY DEF SubmitFails, WriteFails, Writable
  <1>4. /\ records' \in [Requests -> Records \cup {NoRecord}]
        /\ RevisionInv' /\ RecordIsTruthful' /\ SlotInv'
        /\ \A q \in Requests : \/ records'[q] = records[q]
                               \/ records[q] = NoRecord /\ records'[q] # NoRecord
    BY <1>1, <1>3, AcceptStep, SameRecords DEF SubmitFails, IInv, TypeOK
  <1>5. entries' \in [Processes -> [Requests -> Entries \cup {NoEntry}]]
    BY DEF IInv, TypeOK, SubmitFails
  <1>6. TypeOK'
    BY <1>2, <1>4, <1>5 DEF IInv, TypeOK, SubmitFails
  <1>7. ASSUME NEW q \in Processes, NEW s \in Requests, Accepted(q, s)'
        PROVE  Accepted(q, s) /\ entries'[q][s].used = entries[q][s].used
    BY <1>7 DEF IInv, TypeOK, Accepted, SubmitFails
  <1>8. ASSUME NEW q \in Processes, NEW s \in Requests,
               tasks'[q][s] \in {"checked", "effected"}
        PROVE  records'[s].phase \in {"dispatch_fenced", "unknown"}
    <2>1. tasks[q][s] \in {"checked", "effected"}
      BY <1>8 DEF SubmitFails
    <2>2. records[s] # NoRecord
      BY <2>1 DEF IInv, UnclaimedInv
    <2> QED BY <1>4, <2>1, <2>2 DEF IInv, EffectInv
  <1>9. Quiet
    BY <1>2, <1>4, <1>7, <1>8 DEF Quiet, SubmitFails
  <1> QED BY <1>4, <1>6, <1>9, QuietStep DEF IInv

LEMMA SubmitKeeps ==
    ASSUME IInv, NEW p \in Processes, NEW r \in Requests, Submit(p, r)
    PROVE  IInv'
  <1>1. entries[p][r] \in Entries
    BY DEF IInv, TypeOK, Submit, Held
  <1>2. /\ records' \in [Requests -> Records \cup {NoRecord}]
        /\ RevisionInv' /\ RecordIsTruthful' /\ SlotInv'
        /\ records[r] = NoRecord /\ records'[r] # NoRecord
        /\ \A q \in Requests \ {r} : records'[q] = records[q]
    BY <1>1, AcceptStep, ZenonT(30) DEF Submit
  <1>3. effects[r] = 0 /\ effects' = effects
    BY <1>2 DEF Submit, IInv, EffectInv
  <1>4. \A q \in Processes : r \notin store[q].live /\ tasks[q][r] = "none" /\ ~Accepted(q, r)
    BY <1>2 DEF IInv, UnclaimedInv
  <1>5. PICK pc \in {"ready", "failed"} : tasks' = [tasks EXCEPT ![p][r] = pc]
    BY ZenonT(30) DEF Submit
  <1> DEFINE entry == [entries[p][r] EXCEPT !.accepted = TRUE, !.worker = TRUE]
  <1>6. entry \in Entries
    BY <1>1, ZenonT(30) DEF Entries
  <1>7. entries' = [entries EXCEPT ![p][r] = entry]
    BY DEF Submit, IInv, TypeOK
  <1> HIDE DEF entry
  <1>8. TypeOK'
    <2>1. store' \in [Processes -> [status: {"closed", "reader", "writer", "fenced"},
                                    live: SUBSET Requests]]
      <3> DEFINE claims == store[p].live \cup {r}
      <3>1. claims \in SUBSET Requests
        BY DEF IInv, TypeOK
      <3>2. store' = [store EXCEPT ![p].live = claims]
        BY DEF Submit
      <3> HIDE DEF claims
      <3>3. [store[p] EXCEPT !.live = claims] \in
               [status: {"closed", "reader", "writer", "fenced"}, live: SUBSET Requests]
        <4>1. store[p] \in [status: {"closed", "reader", "writer", "fenced"},
                            live: SUBSET Requests]
          BY DEF IInv, TypeOK
        <4> QED BY <3>1, <4>1
      <3> QED BY <3>2, <3>3 DEF IInv, TypeOK
    <2>2. entries' \in [Processes -> [Requests -> Entries \cup {NoEntry}]]
      BY <1>6, <1>7 DEF IInv, TypeOK
    <2>3. tasks' \in [Processes -> [Requests -> TaskStates]]
      <3>1. tasks \in [Processes -> [Requests -> TaskStates]] /\ pc \in TaskStates
        BY DEF IInv, TypeOK, TaskStates
      <3> QED BY <1>5, <3>1
    <2> QED BY <1>2, <2>1, <2>2, <2>3 DEF IInv, TypeOK, Submit
  <1>9. ASSUME NEW q \in Processes, NEW s \in Requests
        PROVE  /\ s # r \/ q # p => /\ entries'[q][s] = entries[q][s]
                                    /\ tasks'[q][s] = tasks[q][s]
                                    /\ s \in store'[q].live <=> s \in store[q].live
               /\ tasks'[p][r] = pc
    BY <1>5, <1>7 DEF IInv, TypeOK, Submit
  <1>10. UnclaimedInv'
    BY <1>2, <1>9 DEF IInv, UnclaimedInv, Accepted
  <1>11. ClaimInv'
    <2>1. ASSUME NEW s \in Requests, NEW q \in Processes, NEW u \in Processes
          PROVE  /\ Accepted(q, s)' /\ Accepted(u, s)' => q = u
                 /\ Accepted(q, s)' /\ tasks'[u][s] # "none" => q = u
                 /\ tasks'[q][s] # "none" /\ s \in store'[u].live => q = u
      BY <1>4, <1>9 DEF IInv, ClaimInv, Accepted
    <2> QED BY <2>1 DEF ClaimInv
  <1>12. EffectInv'
    <2>1. ASSUME NEW s \in Requests, NEW q \in Processes
          PROVE  /\ Accepted(q, s)' /\ ~entries'[q][s].used => effects'[s] = 0
                 /\ tasks'[q][s] = "effected" => effects'[s] = 1
                 /\ tasks'[q][s] \in {"checked", "effected"}
                       => records'[s].phase \in {"dispatch_fenced", "unknown"}
      <3>1. CASE s = r
        BY <1>3, <1>4, <1>9, <3>1
      <3>2. CASE s # r
        BY <1>2, <1>3, <1>9, <3>2 DEF IInv, EffectInv, Accepted
      <3> QED BY <3>1, <3>2
    <2>2. ASSUME NEW s \in Requests
          PROVE  effects'[s] \in {0, 1} /\ (records'[s] = NoRecord => effects'[s] = 0)
      BY <1>2, <1>3 DEF IInv, EffectInv
    <2> QED BY <2>1, <2>2 DEF EffectInv
  <1> QED BY <1>2, <1>8, <1>10, <1>11, <1>12 DEF IInv

(* The one step that consumes a body: nobody consumed it before. *)
LEMMA ConsumeKeeps ==
    ASSUME IInv, NEW p \in Processes, NEW r \in Requests,
           tasks[p][r] = "checked", Accepted(p, r), ~entries[p][r].used,
           entries' = [entries EXCEPT ![p][r].used = TRUE],
           effects' = [effects EXCEPT ![r] = @ + 1],
           tasks' = [tasks EXCEPT ![p][r] = "effected"],
           UNCHANGED <<records, orphan, store, source, owner, refs>>
    PROVE  IInv'
  <1>1. effects[r] = 0 /\ records[r].phase \in {"dispatch_fenced", "unknown"}
        /\ records[r] # NoRecord
    BY DEF IInv, EffectInv, UnclaimedInv
  <1>2. effects'[r] = 1 /\ \A s \in Requests \ {r} : effects'[s] = effects[s]
    BY <1>1 DEF IInv, TypeOK
  <1> DEFINE entry == [entries[p][r] EXCEPT !.used = TRUE]
  <1>3. entry \in Entries /\ entry.accepted /\ entry.used
    <2>1. entries[p][r] \in Entries /\ entries[p][r].accepted
      BY DEF IInv, TypeOK, Accepted
    <2> QED BY <2>1, ZenonT(30) DEF Entries
  <1>4. entries' = [entries EXCEPT ![p][r] = entry]
    BY DEF IInv, TypeOK
  <1> HIDE DEF entry
  <1>5. ASSUME NEW q \in Processes, NEW s \in Requests
        PROVE  /\ s # r \/ q # p => /\ entries'[q][s] = entries[q][s]
                                    /\ tasks'[q][s] = tasks[q][s]
               /\ tasks'[p][r] = "effected" /\ entries'[p][r] = entry
    BY <1>4 DEF IInv, TypeOK
  <1>6. TypeOK'
    <2>1. entries' \in [Processes -> [Requests -> Entries \cup {NoEntry}]]
      <3>1. entries \in [Processes -> [Requests -> Entries \cup {NoEntry}]]
        BY DEF IInv, TypeOK
      <3>2. [entries[p] EXCEPT ![r] = entry] \in [Requests -> Entries \cup {NoEntry}]
        BY <1>3, <3>1
      <3>3. entries' = [entries EXCEPT ![p] = [entries[p] EXCEPT ![r] = entry]]
        BY <1>4, ZenonT(30)
      <3> QED BY <3>1, <3>2, <3>3, ZenonT(30)
    <2>2. tasks' \in [Processes -> [Requests -> TaskStates]]
      BY DEF IInv, TypeOK, TaskStates
    <2>3. effects' \in [Requests -> Nat]
      BY DEF IInv, TypeOK
    <2> QED BY <2>1, <2>2, <2>3 DEF IInv, TypeOK
  <1>7. RevisionInv' /\ SlotInv'
    BY DEF IInv, RevisionInv, SlotInv, Unfinished
  <1>8. RecordIsTruthful'
    BY <1>1, <1>2 DEF IInv, RecordIsTruthful
  <1>9. \A q \in Processes, s \in Requests : Accepted(q, s)' <=> Accepted(q, s)
    BY <1>3, <1>5 DEF Accepted, Entries, NoEntry
  <1>10. UnclaimedInv'
    BY <1>1, <1>5, <1>9 DEF IInv, UnclaimedInv
  <1>11. ClaimInv'
    <2>1. \A q \in Processes, s \in Requests : tasks'[q][s] # "none" <=> tasks[q][s] # "none"
      BY <1>5
    <2> QED BY <1>9, <2>1 DEF IInv, ClaimInv
  <1>12. EffectInv'
    <2>1. ASSUME NEW s \in Requests, NEW q \in Processes
          PROVE  /\ Accepted(q, s)' /\ ~entries'[q][s].used => effects'[s] = 0
                 /\ tasks'[q][s] = "effected" => effects'[s] = 1
                 /\ tasks'[q][s] \in {"checked", "effected"}
                       => records'[s].phase \in {"dispatch_fenced", "unknown"}
      <3>1. CASE s = r
        <4>1. Accepted(q, s) => q = p
          BY <3>1 DEF IInv, ClaimInv
        <4> QED BY <1>1, <1>2, <1>3, <1>5, <1>9, <3>1, <4>1 DEF IInv, EffectInv
      <3>2. CASE s # r
        BY <1>2, <1>5, <1>9, <3>2 DEF IInv, EffectInv
      <3> QED BY <3>1, <3>2
    <2>2. ASSUME NEW s \in Requests
          PROVE  effects'[s] \in {0, 1} /\ (records'[s] = NoRecord => effects'[s] = 0)
      BY <1>1, <1>2 DEF IInv, EffectInv
    <2> QED BY <2>1, <2>2 DEF EffectInv
  <1> QED BY <1>6, <1>7, <1>8, <1>10, <1>11, <1>12 DEF IInv

LEMMA RunEffectKeeps ==
    ASSUME IInv, NEW p \in Processes, NEW r \in Requests, RunEffect(p, r)
    PROVE  IInv'
  <1>1. CASE effects' = [effects EXCEPT ![r] = @ + 1] /\ UNCHANGED source
             /\ Held(p, r) /\ entries[p][r].accepted /\ ~entries[p][r].used
             /\ entries' = [entries EXCEPT ![p][r].used = TRUE]
             /\ tasks' = [tasks EXCEPT ![p][r] = "effected"]
    BY <1>1, ConsumeKeeps, ZenonT(30) DEF RunEffect, Held, Accepted
  <1>3. CASE /\ UNCHANGED <<effects, source>> /\ Fail(p, r)
             /\ Held(p, r) /\ entries[p][r].accepted
             /\ entries' = [entries EXCEPT ![p][r].used = TRUE]
    <2> DEFINE entry == [entries[p][r] EXCEPT !.used = TRUE]
    <2>1. entry \in Entries /\ entry.used
      <3>1. entries[p][r] \in Entries
        BY <1>3 DEF IInv, TypeOK, Held
      <3> QED BY <3>1, ZenonT(30) DEF Entries
    <2>2. entries' = [entries EXCEPT ![p][r] = entry]
      BY <1>3 DEF IInv, TypeOK
    <2> HIDE DEF entry
    <2>3. entries' \in [Processes -> [Requests -> Entries \cup {NoEntry}]]
      BY <2>1, <2>2 DEF IInv, TypeOK
    <2>4. tasks' \in [Processes -> [Requests -> TaskStates]]
      BY <1>3 DEF IInv, TypeOK, TaskStates, Fail
    <2>5. TypeOK'
      BY <1>3, <2>3, <2>4 DEF IInv, TypeOK, RunEffect
    <2>6. ASSUME NEW q \in Processes, NEW s \in Requests
          PROVE  \/ entries'[q][s] = entries[q][s]
                 \/ q = p /\ s = r /\ entries'[q][s] = entry
      BY <2>2 DEF IInv, TypeOK
    <2>7. ASSUME NEW q \in Processes, NEW s \in Requests, Accepted(q, s)'
          PROVE  Accepted(q, s) /\ (entries[q][s].used => entries'[q][s].used)
      BY <1>3, <2>1, <2>6, <2>7 DEF Accepted, Held
    <2>8. ASSUME NEW q \in Processes, NEW s \in Requests
          PROVE  \/ tasks'[q][s] = tasks[q][s]
                 \/ q = p /\ s = r /\ tasks'[q][s] = "failed"
      BY <1>3 DEF IInv, TypeOK, Fail
    <2>9. tasks[p][r] = "checked" /\ UNCHANGED <<records, store>>
      BY DEF RunEffect
    <2>10. Quiet
      BY <1>3, <2>7, <2>8, <2>9 DEF IInv, Quiet, EffectInv
    <2> QED BY <1>3, <2>5, <2>9, <2>10, QuietStep, SameRecords DEF IInv
  <1>2. CASE /\ source' = [source EXCEPT ![p] = "closed"]
             /\ entries' = [entries EXCEPT ![p] = [q \in Requests |-> Closed(entries[p][q])]]
             /\ Fail(p, r) /\ UNCHANGED effects
    <2>1. \A q \in Requests : entries[p][q] \in Entries \cup {NoEntry}
      BY DEF IInv, TypeOK
    <2>2. entries' \in [Processes -> [Requests -> Entries \cup {NoEntry}]]
      BY <1>2, <2>1, ClosedEntry DEF IInv, TypeOK
    <2>3. tasks' \in [Processes -> [Requests -> TaskStates]]
      BY <1>2 DEF IInv, TypeOK, TaskStates, Fail
    <2>4. TypeOK'
      BY <1>2, <2>2, <2>3 DEF IInv, TypeOK, RunEffect
    <2>5. ASSUME NEW q \in Processes, NEW s \in Requests, Accepted(q, s)'
          PROVE  Accepted(q, s) /\ entries'[q][s].used = entries[q][s].used
      <3>1. CASE q = p
        BY <1>2, <2>1, <2>5, <3>1, ClosedEntry DEF IInv, TypeOK, Accepted
      <3>2. CASE q # p
        BY <1>2, <2>5, <3>2 DEF IInv, TypeOK, Accepted
      <3> QED BY <3>1, <3>2
    <2>6. ASSUME NEW q \in Processes, NEW s \in Requests
          PROVE  \/ tasks'[q][s] = tasks[q][s]
                 \/ q = p /\ s = r /\ tasks'[q][s] = "failed"
      BY <1>2 DEF IInv, TypeOK, Fail
    <2>7. Quiet
      BY <1>2, <2>5, <2>6 DEF IInv, Quiet, EffectInv, RunEffect
    <2> QED BY <1>2, <2>4, <2>7, QuietStep, SameRecords DEF IInv, RunEffect
  <1> QED BY <1>1, <1>2, <1>3 DEF RunEffect

-----------------------------------------------------------------------------
LEMMA InitHolds ==
    Init => IInv
  <1> SUFFICES ASSUME Init PROVE IInv
    OBVIOUS
  <1>1. TypeOK
    <2>1. refs \in 0..MaxRefs /\ effects \in [Requests -> Nat]
      BY BoundsAssumption DEF Init
    <2>2. store \in [Processes -> [status: {"closed", "reader", "writer", "fenced"},
                                   live: SUBSET Requests]]
      BY DEF Init
    <2>3. /\ tasks \in [Processes -> [Requests -> TaskStates]]
          /\ entries \in [Processes -> [Requests -> Entries \cup {NoEntry}]]
      BY DEF Init, TaskStates
    <2> QED BY <2>1, <2>2, <2>3, ZenonT(30) DEF Init, TypeOK
  <1>2. UnclaimedInv /\ ClaimInv
    BY DEF Init, UnclaimedInv, ClaimInv, Accepted
  <1>3. EffectInv
    BY DEF Init, EffectInv, Accepted
  <1>4. RevisionInv /\ SlotInv
    BY DEF Init, RevisionInv, SlotInv, Unfinished
  <1>5. RecordIsTruthful
    BY DEF Init, RecordIsTruthful, NoRecord
  <1> QED BY <1>1, <1>2, <1>3, <1>4, <1>5 DEF IInv

LEMMA NextKeeps ==
    IInv /\ [Next]_vars => IInv'
  <1> SUFFICES ASSUME IInv, [Next]_vars PROVE IInv'
    OBVIOUS
  <1>1. CASE UNCHANGED vars
    <2>1. TypeOK'
      BY <1>1 DEF IInv, TypeOK, vars
    <2>2. Quiet
      BY <1>1 DEF IInv, Quiet, EffectInv, Accepted, vars
    <2> QED BY <1>1, <2>1, <2>2, QuietStep, SameRecords DEF IInv, vars
  <1>2. CASE Next
    <2> PICK p \in Processes :
          \/ Open(p) \/ Read(p) \/ ReplaceOwner(p) \/ CloseSource(p) \/ Close(p) \/ Crash(p)
          \/ \E r \in Requests :
                \/ Prepare(p, r) \/ Submit(p, r) \/ SubmitFails(p, r)
                \/ RunFence(p, r) \/ RunCheck(p, r) \/ RunEffect(p, r)
                \/ RunAcknowledge(p, r) \/ RunSettle(p, r)
                \/ Reject(p, r) \/ Terminate(p, r)
      BY <1>2 DEF Next
    <2>1. CASE Open(p) \/ Read(p) \/ ReplaceOwner(p) \/ CloseSource(p) \/ Close(p) \/ Crash(p)
      BY <2>1, OpenKeeps, ReadKeeps, ReplaceOwnerKeeps, CloseSourceKeeps, CloseKeeps, CrashKeeps
    <2>2. ASSUME NEW r \in Requests,
                 \/ Prepare(p, r) \/ Submit(p, r) \/ SubmitFails(p, r)
                 \/ RunFence(p, r) \/ RunCheck(p, r) \/ RunEffect(p, r)
                 \/ RunAcknowledge(p, r) \/ RunSettle(p, r)
                 \/ Reject(p, r) \/ Terminate(p, r)
          PROVE  IInv'
      <3>1. CASE Reject(p, r) \/ Terminate(p, r)
        BY <3>1, ConcludeKeeps DEF Reject, Terminate
      <3> QED BY <2>2, <3>1, PrepareKeeps, SubmitKeeps, SubmitFailsKeeps, RunFenceKeeps,
                 RunCheckKeeps, RunEffectKeeps, RunAcknowledgeKeeps, RunSettleKeeps
    <2> QED BY <2>1, <2>2
  <1> QED BY <1>1, <1>2

(* The invariant of the admission: claims are one process's, the record    *)
(* tells what was consumed, and unfinished records do not share a slot.    *)
THEOREM AdmissionInvariant == Spec => []IInv
  BY InitHolds, NextKeeps, PTL DEF Spec

(* A body is consumed at most once (effect_used, the content reference and *)
(* the record committed by accept() together), through any crash, recovery *)
(* or retry, for any number of processes and requests.                     *)
THEOREM ConsumedOnce == Spec => []EffectAtMostOnce
  <1>1. IInv => EffectAtMostOnce
    BY DEF IInv, EffectInv, EffectAtMostOnce
  <1> QED BY <1>1, AdmissionInvariant, PTL

(* The durable record of a request never lies about its consumption: what  *)
(* accept(), transition() and a recovery commit is true of the body.       *)
THEOREM TruthfulRecords == Spec => []RecordIsTruthful
  <1>1. IInv => RecordIsTruthful
    BY DEF IInv
  <1> QED BY <1>1, AdmissionInvariant, PTL

(* The turn a worker is consuming is the only unfinished one of its slot,  *)
(* for any assignment of requests to slots.                                *)
THEOREM ExclusiveTurns == Spec => []TurnHoldsSlot
  <1>1. IInv => TurnHoldsSlot
    <2> SUFFICES ASSUME IInv, NEW p \in Processes, NEW r \in Requests,
                        tasks[p][r] \in {"checked", "effected"}
                 PROVE  /\ Unfinished(r)
                        /\ \A q \in Requests \ {r} : Unfinished(q) => SlotOf[q] # SlotOf[r]
      BY DEF TurnHoldsSlot
    <2>1. records[r].phase \in {"dispatch_fenced", "unknown"} /\ records[r] # NoRecord
      BY DEF IInv, EffectInv, UnclaimedInv
    <2>2. Unfinished(r)
      BY <2>1 DEF Unfinished, FinishedPhases
    <2> QED BY <2>2 DEF IInv, SlotInv
  <1> QED BY <1>1, AdmissionInvariant, PTL

(* Only _effect() consumes.                                                *)
LEMMA OnlyRunEffectConsumes ==
    ASSUME [Next]_vars
    PROVE  effects' = effects \/ \E p \in Processes, r \in Requests : RunEffect(p, r)
  <1>1. CASE UNCHANGED vars
    BY <1>1 DEF vars
  <1>2. CASE Next
    <2> PICK p \in Processes :
          \/ Open(p) \/ Read(p) \/ ReplaceOwner(p) \/ CloseSource(p) \/ Close(p) \/ Crash(p)
          \/ \E r \in Requests :
                \/ Prepare(p, r) \/ Submit(p, r) \/ SubmitFails(p, r)
                \/ RunFence(p, r) \/ RunCheck(p, r) \/ RunEffect(p, r)
                \/ RunAcknowledge(p, r) \/ RunSettle(p, r)
                \/ Reject(p, r) \/ Terminate(p, r)
      BY <1>2 DEF Next
    <2>1. CASE Open(p) \/ Read(p) \/ ReplaceOwner(p) \/ CloseSource(p) \/ Close(p) \/ Crash(p)
      BY <2>1, ZenonT(30) DEF Open, Read, ReplaceOwner, CloseSource, Close, Crash
    <2>2. ASSUME NEW r \in Requests,
                 \/ Prepare(p, r) \/ Submit(p, r) \/ SubmitFails(p, r)
                 \/ RunFence(p, r) \/ RunCheck(p, r) \/ RunAcknowledge(p, r)
                 \/ RunSettle(p, r) \/ Reject(p, r) \/ Terminate(p, r)
          PROVE  effects' = effects
      BY <2>2, ZenonT(30) DEF Prepare, Submit, SubmitFails, RunFence, RunCheck,
         RunAcknowledge, RunSettle, Reject, Terminate, Conclude
    <2> QED BY <2>1, <2>2, ZenonT(30)
  <1> QED BY <1>1, <1>2

(* A finished record is final for the body as well.                        *)
NoLateEffect ==
    [][\A r \in Requests : records[r].phase \in FinishedPhases => effects'[r] = effects[r]]_vars

(* Once a record is TERMINAL or rejected, acknowledge_terminal() during    *)
(* readiness included, the worker that still holds the body never consumes *)
(* it: the re-read of _run() after its last await.                         *)
THEOREM FinishedIsFinal == Spec => NoLateEffect
  <1>1. ASSUME IInv, [Next]_vars, NEW r \in Requests, records[r].phase \in FinishedPhases
        PROVE  effects'[r] = effects[r]
    <2>1. CASE effects' = effects
      BY <2>1
    <2>2. ASSUME NEW p \in Processes, NEW q \in Requests, RunEffect(p, q)
          PROVE  effects'[r] = effects[r]
      <3>1. tasks[p][q] = "checked"
        BY <2>2 DEF RunEffect
      <3>2. records[q].phase \in {"dispatch_fenced", "unknown"}
        BY <1>1, <3>1 DEF IInv, EffectInv
      <3>3. r # q
        BY <1>1, <3>2 DEF FinishedPhases
      <3>4. effects' = effects \/ effects' = [effects EXCEPT ![q] = @ + 1]
        BY <2>2 DEF RunEffect
      <3> QED BY <1>1, <3>3, <3>4 DEF IInv, TypeOK
    <2> QED BY <1>1, <2>1, <2>2, OnlyRunEffectConsumes
  <1>2. IInv /\ [Next]_vars =>
           [\A r \in Requests : records[r].phase \in FinishedPhases
                                  => effects'[r] = effects[r]]_vars
    BY <1>1
  <1> QED BY <1>2, AdmissionInvariant, PTL DEF Spec, NoLateEffect
=============================================================================
