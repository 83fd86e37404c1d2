--------------------------- MODULE ApprovalsProofs ---------------------------
(***************************************************************************)
(* Proofs about the administrator's sessions and the approvals that hang   *)
(* on them, for any number of callers, sessions, challenges and credentials*)
(* and any settings.                                                       *)
(*                                                                         *)
(* The inductive invariant adds to the properties what the transactions    *)
(* rely on without checking it: a caller past authentication holds a       *)
(* session, a caller past verification read a hash, a row in the database  *)
(* was written after a password was proved, and no row outlives a row that *)
(* names it.                                                               *)
(***************************************************************************)
EXTENDS Approvals, TLAPS

(* The provers every leaf below is tried with, in this order, and their    *)
(* time limits in seconds, unless the leaf names one itself.               *)
USE SMTT(15), ZenonT(30), SMTT(20)

\* What a caller carries belongs to what it is doing.
CallOK(call) ==
    /\ call.op \in {"request", "logout", "reauthenticate"} => call.handle \in Handles
    /\ call.op \in {"login", "change", "reauthenticate"} => call.hash # NoAdmin
CallsOK == \A p \in Callers : CallOK(calls[p])

RowsOK == \A s \in Sessions : sessions[s].state = "present" => sessions[s].provenGen # -1

\* A challenge that is in the database names a session that is, and an attempt
\* that is in the database names a consumed challenge: neither pruning nor the
\* order of a maintenance batch leaves a row that names a deleted one.
Kept(c) == challenges[c].state \notin {"unused", "deleted"}
ReferencesHold ==
    \A c \in Challenges :
        /\ Kept(c) => /\ challenges[c].session \in Sessions
                      /\ sessions[challenges[c].session].state = "present"
        /\ HasAttempt(c) => challenges[c].state = "consumed"

IInv ==
    /\ TypeOK /\ CallsOK /\ RowsOK
    /\ SessionsKnowThePassword /\ IssuedIsLive
    /\ OneOpenAuthorization /\ ReferencesHold

\* The conjuncts that do not depend on the callers, and the two that do.
StoreTypes ==
    /\ hash \in Hashes
    /\ sessions \in [Sessions -> Rows]
    /\ challenges \in [Challenges -> ChallengeRows]
    /\ attempts \in [Challenges -> AttemptRows]
StoreInv ==
    /\ StoreTypes /\ RowsOK
    /\ SessionsKnowThePassword /\ IssuedIsLive
    /\ OneOpenAuthorization /\ ReferencesHold
CallInv == calls \in [Callers -> Calls] /\ CallsOK

LEMMA InvParts == IInv <=> StoreInv /\ CallInv
  BY DEF IInv, StoreInv, CallInv, TypeOK, StoreTypes

LEMMA InvPartsNext == IInv' <=> StoreInv' /\ CallInv'
  BY DEF IInv, StoreInv, CallInv, TypeOK, StoreTypes
-----------------------------------------------------------------------------
LEMMA BecomeKeepsCalls ==
    ASSUME CallInv, NEW p \in Callers, NEW q \in Calls, CallOK(q), Become(p, q)
    PROVE  CallInv'
  <1>1. calls' \in [Callers -> Calls]
    BY DEF CallInv, Become
  <1>2. ASSUME NEW r \in Callers PROVE CallOK(calls'[r])
    BY DEF CallInv, CallsOK, Become
  <1> QED BY <1>1, <1>2 DEF CallInv, CallsOK, CallOK

LEMMA IdleIsOK == Idle \in Calls /\ CallOK(Idle)
  BY DEF Idle, Call, Calls, CallOK, Operations, Hashes

LEMMA DoneKeepsCalls ==
    ASSUME CallInv, NEW p \in Callers, Done(p)
    PROVE  CallInv'
  BY IdleIsOK, BecomeKeepsCalls DEF Done

LEMMA StoreUnchanged ==
    ASSUME StoreInv, UNCHANGED <<hash, sessions, challenges, attempts>>
    PROVE  StoreInv'
  BY DEF StoreInv, StoreTypes, RowsOK, SessionsKnowThePassword, IssuedIsLive,
         OneOpenAuthorization, Open, ReferencesHold, Kept, HasAttempt
-----------------------------------------------------------------------------
(* The steps that open nothing.                                            *)
LEMMA NothingOpened ==
    ASSUME OneOpenAuthorization,
           \A c \in Challenges :
               Open(c)' => Open(c) /\ challenges'[c].cred = challenges[c].cred
    PROVE  OneOpenAuthorization'
  BY DEF OneOpenAuthorization

LEMMA NothingIssued ==
    ASSUME IssuedIsLive,
           \A c \in Challenges : challenges'[c].state = "issued" =>
               /\ challenges'[c] = challenges[c]
               /\ LET s == challenges[c].session IN
                  /\ Unrevoked(sessions[s]) => Unrevoked(sessions'[s])
                  /\ sessions'[s].epoch = sessions[s].epoch
    PROVE  IssuedIsLive'
  BY DEF IssuedIsLive, Unrevoked

(* _cancel_session_challenges ends challenges and touches no attempt.      *)
LEMMA CancelledRow ==
    ASSUME NEW row \in ChallengeRows, row.state = "issued", NEW now \in Times
    PROVE  /\ CancelledAt(row, now) \in ChallengeRows
           /\ CancelledAt(row, now).state = "cancelled"
           /\ CancelledAt(row, now).session = row.session
           /\ CancelledAt(row, now).cred = row.cred
  <1>1. row \in [state: {"issued", "consumed", "cancelled", "expired"},
                 session: Sessions, cred: Credentials, epoch: 0..MaxEpoch,
                 issued: Times, ended: Times]
    BY DEF ChallengeRows, NoChallenge, DeletedChallenge
  <1>2. Larger(now, row.issued) \in Times
    BY <1>1 DEF Larger
  <1> QED BY <1>1, <1>2, ZenonT(30) DEF CancelledAt, ChallengeRows

\* What every cancellation of open challenges leaves true.
Cancelling ==
    /\ challenges' \in [Challenges -> ChallengeRows]
    /\ \A c \in Challenges :
        \/ challenges'[c] = challenges[c]
        \/ /\ challenges[c].state = "issued"
           /\ challenges'[c].state = "cancelled"
           /\ challenges'[c].session = challenges[c].session
           /\ challenges'[c].cred = challenges[c].cred

LEMMA CancelledCancels ==
    ASSUME StoreTypes, NEW ids, NEW now \in Times, challenges' = Cancelled(ids, now)
    PROVE  /\ Cancelling
           /\ \A c \in Challenges : challenges'[c].state = "issued" =>
                  challenges'[c] = challenges[c] /\ challenges[c].session \notin ids
  <1>1. \A c \in Challenges :
            challenges'[c] = IF challenges[c].state = "issued" /\ challenges[c].session \in ids
                             THEN CancelledAt(challenges[c], now) ELSE challenges[c]
    BY DEF Cancelled
  <1>2. \A c \in Challenges : challenges[c] \in ChallengeRows
    BY DEF StoreTypes
  <1>3. challenges' = [c \in Challenges |-> challenges'[c]]
    BY DEF Cancelled
  <1> QED BY <1>1, <1>2, <1>3, CancelledRow DEF Cancelling

LEMMA CancelledEpochCancels ==
    ASSUME StoreTypes, NEW s, NEW epoch, NEW now \in Times,
           challenges' = CancelledEpoch(s, epoch, now)
    PROVE  /\ Cancelling
           /\ \A c \in Challenges : challenges'[c].state = "issued" =>
                  /\ challenges'[c] = challenges[c]
                  /\ ~(challenges[c].session = s /\ challenges[c].epoch = epoch)
  <1>1. \A c \in Challenges :
            challenges'[c] = IF /\ challenges[c].state = "issued"
                                /\ challenges[c].session = s /\ challenges[c].epoch = epoch
                             THEN CancelledAt(challenges[c], now) ELSE challenges[c]
    BY DEF CancelledEpoch
  <1>2. \A c \in Challenges : challenges[c] \in ChallengeRows
    BY DEF StoreTypes
  <1>3. challenges' = [c \in Challenges |-> challenges'[c]]
    BY DEF CancelledEpoch
  <1> QED BY <1>1, <1>2, <1>3, CancelledRow DEF Cancelling

LEMMA CancellingKeepsOpen ==
    ASSUME OneOpenAuthorization, Cancelling, UNCHANGED attempts
    PROVE  OneOpenAuthorization'
  <1>1. ASSUME NEW c \in Challenges, Open(c)'
        PROVE  Open(c) /\ challenges'[c].cred = challenges[c].cred
    BY <1>1 DEF Cancelling, Open
  <1> QED BY <1>1, NothingOpened

LEMMA CancellingKeepsReferences ==
    ASSUME ReferencesHold, Cancelling, UNCHANGED attempts,
           \A s \in Sessions : sessions[s].state = "present" => sessions'[s].state = "present"
    PROVE  ReferencesHold'
  <1> SUFFICES ASSUME NEW c \in Challenges
               PROVE  /\ Kept(c)' => /\ challenges'[c].session \in Sessions
                                     /\ sessions'[challenges'[c].session].state = "present"
                      /\ HasAttempt(c)' => challenges'[c].state = "consumed"
    BY DEF ReferencesHold
  <1> QED BY DEF ReferencesHold, Cancelling, Kept, HasAttempt
-----------------------------------------------------------------------------
(* Revocation: logout, eviction, password change and revoke_sessions.      *)
LEMMA RevokedRowsFacts ==
    ASSUME StoreTypes, NEW ids, NEW now \in Times
    PROVE  /\ RevokedRows(ids, now) \in [Sessions -> Rows]
           /\ \A s \in Sessions :
               /\ RevokedRows(ids, now)[s].state = sessions[s].state
               /\ RevokedRows(ids, now)[s].epoch = sessions[s].epoch
               /\ RevokedRows(ids, now)[s].provenGen = sessions[s].provenGen
               /\ RevokedRows(ids, now)[s].seen = sessions[s].seen
               /\ RevokedRows(ids, now)[s].recent = sessions[s].recent
               /\ s \in ids => RevokedRows(ids, now)[s].revoked # Never
               /\ s \notin ids => RevokedRows(ids, now)[s] = sessions[s]
  <1>1. now # Never
    BY SettingsAssumption DEF Times, Never
  <1>2. \A s \in Sessions : sessions[s] \in Rows
    BY DEF StoreTypes
  <1>3. \A s \in Sessions : [sessions[s] EXCEPT !.revoked = now] \in Rows
    BY <1>2 DEF Rows
  <1> QED BY <1>1, <1>2, <1>3 DEF RevokedRows, Rows

LEMMA RevocationKeepsStore ==
    ASSUME StoreInv, NEW ids, NEW now \in Times,
           challenges' = Cancelled(ids, now), sessions' = RevokedRows(ids, now),
           UNCHANGED attempts, hash' \in Hashes,
           hash'.gen = hash.gen \/ UnrevokedIds \subseteq ids
    PROVE  StoreInv'
  <1> USE DEF StoreInv
  <1>1. Cancelling
    BY CancelledCancels
  <1>2. StoreTypes'
    BY <1>1, RevokedRowsFacts DEF Cancelling, StoreTypes
  <1>3. RowsOK'
    BY RevokedRowsFacts DEF RowsOK
  <1>4. SessionsKnowThePassword'
    BY RevokedRowsFacts DEF SessionsKnowThePassword, Unrevoked, UnrevokedIds
  <1>5. IssuedIsLive'
    <2>1. ASSUME NEW c \in Challenges, challenges'[c].state = "issued"
          PROVE  /\ challenges'[c] = challenges[c]
                 /\ sessions'[challenges[c].session] = sessions[challenges[c].session]
      BY <2>1, CancelledCancels, RevokedRowsFacts DEF IssuedIsLive
    <2> QED BY <2>1, NothingIssued
  <1>6. OneOpenAuthorization' /\ ReferencesHold'
    BY <1>1, CancellingKeepsOpen, CancellingKeepsReferences, RevokedRowsFacts
  <1> QED BY <1>2, <1>3, <1>4, <1>5, <1>6
-----------------------------------------------------------------------------
(* The operations of AdminSessions.                                        *)
LEMMA HashParts ==
    /\ \A h \in Hashes : h # NoAdmin => h.gen \in 0..MaxChanges /\ h.gen # -1
    /\ NoAdmin.gen = -1
  BY SettingsAssumption DEF Hashes, NoAdmin

LEMMA InitializeInv == ASSUME IInv, Initialize PROVE IInv'
  <1> USE InvParts
  <1>1. CallInv'
    BY DEF CallInv, CallsOK, Initialize
  <1>2. hash' \in Hashes
    BY SettingsAssumption DEF Initialize, Hashes
  <1>3. \A s \in Sessions : ~Unrevoked(sessions[s])
    BY DEF Initialize, StoreInv, SessionsKnowThePassword, RowsOK, Unrevoked, NoAdmin
  <1>4. StoreInv'
    BY <1>2, <1>3 DEF Initialize, StoreInv, StoreTypes, RowsOK, SessionsKnowThePassword,
       IssuedIsLive, OneOpenAuthorization, Open, ReferencesHold, Kept, HasAttempt, Unrevoked
  <1> QED BY <1>1, <1>4, InvPartsNext

LEMMA AbandonInv ==
    ASSUME IInv, NEW p \in Callers, Abandon(p) \/ HashLost(p)
    PROVE  IInv'
  BY InvParts, InvPartsNext, StoreUnchanged, DoneKeepsCalls DEF Abandon, HashLost

LEMMA VerifyInv ==
    ASSUME IInv, NEW p \in Callers, NEW op \in {"login", "change", "revokeAll"}, Verify(p, op)
    PROVE  IInv'
  <1> DEFINE q == Call(op, IF op = "revokeAll" THEN NoAdmin ELSE hash, NoHandle)
  <1>1. q \in Calls /\ CallOK(q)
    BY DEF Verify, Call, Calls, CallOK, Operations, IInv, TypeOK, Hashes
  <1> QED BY <1>1, InvParts, InvPartsNext, StoreUnchanged, BecomeKeepsCalls DEF Verify

LEMMA ValidateCsrfInv ==
    ASSUME IInv, NEW p \in Callers, ValidateCsrf(p)
    PROVE  IInv'
  <1> DEFINE q == Call("logout", NoAdmin, calls[p].handle)
  <1>1. q \in Calls /\ CallOK(q)
    BY DEF ValidateCsrf, Call, Calls, CallOK, CallsOK, Operations, IInv, Hashes
  <1> QED BY <1>1, InvParts, InvPartsNext, StoreUnchanged, BecomeKeepsCalls, DoneKeepsCalls
          DEF ValidateCsrf

\* A caller in an authenticated operation holds a session of the table.
LEMMA HandleFacts ==
    ASSUME IInv, NEW p \in Callers,
           calls[p].op \in {"request", "logout", "reauthenticate"}
    PROVE  /\ calls[p].handle \in Handles
           /\ calls[p].handle.sid \in Sessions
           /\ Row(p) = sessions[calls[p].handle.sid]
           /\ Row(p) \in Rows
  BY DEF IInv, TypeOK, CallsOK, CallOK, Handles, Row

LEMMA ReauthVerifyInv ==
    ASSUME IInv, NEW p \in Callers, NEW now \in Times, ReauthVerify(p, now)
    PROVE  IInv'
  <1> DEFINE q == Call("reauthenticate", hash, calls[p].handle)
  <1>1. CASE ContextHolds(p, now)
    <2>1. hash # NoAdmin
      BY <1>1, HandleFacts DEF ReauthVerify, ContextHolds, Acceptable, Live, Unrevoked, IInv,
         SessionsKnowThePassword, RowsOK, NoAdmin
    <2>2. q \in Calls /\ CallOK(q)
      BY <2>1, HandleFacts DEF ReauthVerify, Call, Calls, CallOK, Operations, IInv, TypeOK
    <2> QED BY <1>1, <2>2, InvParts, InvPartsNext, StoreUnchanged, BecomeKeepsCalls
            DEF ReauthVerify
  <1>2. CASE ~ContextHolds(p, now)
    BY <1>2, InvParts, InvPartsNext, StoreUnchanged, DoneKeepsCalls DEF ReauthVerify
  <1> QED BY <1>1, <1>2

LEMMA ChangePasswordInv ==
    ASSUME IInv, NEW p \in Callers, NEW now \in Times, ChangePassword(p, now)
    PROVE  IInv'
  <1>1. hash # NoAdmin
    BY DEF ChangePassword, HashHolds, IInv, CallsOK, CallOK
  <1>2. hash' \in Hashes
    BY <1>1, HashParts, SettingsAssumption DEF ChangePassword, IInv, TypeOK, Hashes
  <1> QED BY <1>2, InvParts, InvPartsNext, RevocationKeepsStore, DoneKeepsCalls, ZenonT(30)
          DEF ChangePassword

LEMMA RevokeSessionsInv ==
    ASSUME IInv, NEW p \in Callers, NEW now \in Times, RevokeSessions(p, now)
    PROVE  IInv'
  BY InvParts, InvPartsNext, RevocationKeepsStore, DoneKeepsCalls
     DEF RevokeSessions, StoreInv, StoreTypes

LEMMA RevokeInv ==
    ASSUME IInv, NEW p \in Callers, NEW now \in Times, Revoke(p, now)
    PROVE  IInv'
  <1> DEFINE s == calls[p].handle.sid
  <1>1. CASE Unrevoked(sessions[s])
    BY <1>1, InvParts, InvPartsNext, RevocationKeepsStore, DoneKeepsCalls, ZenonT(30)
       DEF Revoke, StoreInv, StoreTypes
  <1>2. CASE ~Unrevoked(sessions[s])
    BY <1>2, InvParts, InvPartsNext, StoreUnchanged, DoneKeepsCalls DEF Revoke
  <1> QED BY <1>1, <1>2

LEMMA AuthenticateInv ==
    ASSUME IInv, NEW p \in Callers, NEW s \in Sessions, NEW now \in Times,
           Authenticate(p, s, now)
    PROVE  IInv'
  <1> DEFINE q == Call("request", NoAdmin, [sid |-> s, epoch |-> sessions[s].epoch])
  <1> USE InvParts DEF StoreInv
  <1>1. sessions[s] \in Rows
    BY DEF StoreTypes
  <1>2. q \in Calls /\ CallOK(q)
    BY <1>1 DEF Call, Calls, CallOK, Operations, Hashes, Handles, Rows
  <1>3. CallInv'
    BY <1>2, BecomeKeepsCalls DEF Authenticate
  <1>4. sessions' \in [Sessions -> Rows]
    BY <1>1 DEF Authenticate, StoreTypes, Rows
  <1>5. \A t \in Sessions : /\ sessions'[t].state = sessions[t].state
                            /\ sessions'[t].epoch = sessions[t].epoch
                            /\ sessions'[t].revoked = sessions[t].revoked
                            /\ sessions'[t].provenGen = sessions[t].provenGen
    BY <1>1 DEF Authenticate, StoreTypes, Rows
  <1>6. StoreTypes' /\ RowsOK' /\ SessionsKnowThePassword'
    BY <1>4, <1>5 DEF Authenticate, StoreTypes, RowsOK, SessionsKnowThePassword, Unrevoked
  <1>7. IssuedIsLive' /\ ReferencesHold' /\ OneOpenAuthorization'
    BY <1>5 DEF Authenticate, IssuedIsLive, Unrevoked, ReferencesHold, Kept, HasAttempt,
       OneOpenAuthorization, Open
  <1> QED BY <1>3, <1>6, <1>7, InvPartsNext

LEMMA LoginInv ==
    ASSUME IInv, NEW p \in Callers, NEW now \in Times, Login(p, now)
    PROVE  IInv'
  <1> USE InvParts DEF StoreInv
  <1>1. PICK s \in Sessions, E \in Evictions(now) :
            /\ sessions[s].state = "unused"
            /\ sessions' = [RevokedRows(E, now) EXCEPT ![s] = NewRow(p, now)]
            /\ challenges' = Cancelled(E, now)
    BY ZenonT(30) DEF Login
  <1>2. hash # NoAdmin /\ hash = calls[p].hash /\ hash' \in Hashes /\ hash'.gen = hash.gen
    BY ZenonT(30) DEF Login, HashHolds, IInv, CallsOK, CallOK, StoreTypes, Hashes
  <1>3. NewRow(p, now) \in Rows
    BY <1>2, HashParts, SettingsAssumption DEF NewRow, Rows, StoreTypes
  <1>4. CallInv'
    BY DoneKeepsCalls DEF Login
  <1>5. Cancelling /\ UNCHANGED attempts
    BY <1>1, CancelledCancels DEF Login
  <1>6. /\ sessions' \in [Sessions -> Rows]
        /\ sessions'[s] = NewRow(p, now)
        /\ \A t \in Sessions \ {s} : sessions'[t] = RevokedRows(E, now)[t]
    BY <1>1, <1>3, RevokedRowsFacts
  <1>7. StoreTypes'
    BY <1>2, <1>5, <1>6 DEF StoreTypes, Cancelling
  <1>8. RowsOK' /\ SessionsKnowThePassword'
    BY <1>2, <1>6, HashParts, RevokedRowsFacts
       DEF RowsOK, SessionsKnowThePassword, Unrevoked, NewRow, StoreTypes
  <1>9. IssuedIsLive'
    <2>1. ASSUME NEW c \in Challenges, challenges'[c].state = "issued"
          PROVE  /\ challenges'[c] = challenges[c]
                 /\ sessions'[challenges[c].session] = sessions[challenges[c].session]
      BY <2>1, <1>1, <1>6, CancelledCancels, RevokedRowsFacts DEF IssuedIsLive, Unrevoked
    <2> QED BY <2>1, NothingIssued
  <1>10. \A t \in Sessions : sessions[t].state = "present" => sessions'[t].state = "present"
    BY <1>1, <1>6, RevokedRowsFacts
  <1>11. OneOpenAuthorization' /\ ReferencesHold'
    BY <1>5, <1>10, CancellingKeepsOpen, CancellingKeepsReferences
  <1> QED BY <1>4, <1>7, <1>8, <1>9, <1>11, InvPartsNext

\* A row after a rotation at `now' that proved generation gen.
RotatedAt(row, epoch, now, gen) ==
    [row EXCEPT !.epoch = epoch, !.recent = now, !.seen = now, !.provenGen = gen]

LEMMA RotatedRow ==
    ASSUME NEW row \in Rows, NEW epoch \in 0..MaxEpoch, NEW now \in Times,
           NEW gen \in -1..MaxChanges
    PROVE  /\ RotatedAt(row, epoch, now, gen) \in Rows
           /\ RotatedAt(row, epoch, now, gen).state = row.state
           /\ RotatedAt(row, epoch, now, gen).revoked = row.revoked
           /\ RotatedAt(row, epoch, now, gen).provenGen = gen
           /\ RotatedAt(row, epoch, now, gen).epoch = epoch
           /\ RotatedAt(row, epoch, now, gen).seen = now
           /\ RotatedAt(row, epoch, now, gen).recent = now
  BY ZenonT(30) DEF Rows, RotatedAt

LEMMA ReauthenticateInv ==
    ASSUME IInv, NEW p \in Callers, NEW now \in Times, Reauthenticate(p, now)
    PROVE  IInv'
  <1> DEFINE s == calls[p].handle.sid
  <1> USE InvParts DEF StoreInv
  <1>1. CallInv'
    BY DoneKeepsCalls DEF Reauthenticate
  <1>2. CASE ~(ContextHolds(p, now) /\ HashHolds(p))
    BY <1>1, <1>2, InvPartsNext, StoreUnchanged DEF Reauthenticate
  <1>3. CASE ContextHolds(p, now) /\ HashHolds(p)
    <2>1. /\ s \in Sessions /\ sessions[s] \in Rows /\ Row(p) = sessions[s]
          /\ hash # NoAdmin /\ calls[p].hash = hash
          /\ sessions[s].epoch < MaxEpoch
      BY <1>3, HandleFacts DEF Reauthenticate, HashHolds, CallInv, CallsOK, CallOK
    <2>2. /\ Rotated(p, now) \in Rows
          /\ Rotated(p, now).state = sessions[s].state
          /\ Rotated(p, now).revoked = sessions[s].revoked
          /\ Rotated(p, now).provenGen = hash.gen
      <3>1. hash.gen \in -1..MaxChanges
        BY <2>1, HashParts, SettingsAssumption DEF StoreTypes
      <3>2. sessions[s].epoch + 1 \in 0..MaxEpoch
        BY <2>1, SettingsAssumption DEF Rows
      <3>3. Rotated(p, now) = RotatedAt(sessions[s], sessions[s].epoch + 1, now, hash.gen)
        BY <2>1 DEF Rotated, RotatedAt
      <3> HIDE DEF s
      <3> QED BY <2>1, <3>1, <3>2, <3>3, RotatedRow
    <2>4. /\ sessions' = [sessions EXCEPT ![s] = Rotated(p, now)]
          /\ challenges' = CancelledEpoch(s, sessions[s].epoch, now)
          /\ UNCHANGED <<hash, attempts>>
      BY <1>3, <2>1 DEF Reauthenticate
    <2> HIDE DEF s
    <2>3. /\ sessions' \in [Sessions -> Rows]
          /\ sessions'[s] = Rotated(p, now)
          /\ \A t \in Sessions \ {s} : sessions'[t] = sessions[t]
      BY <2>4, <2>1, <2>2 DEF StoreTypes
    <2>5. Cancelling
      BY <2>4, CancelledEpochCancels
    <2>6. StoreTypes'
      BY <2>3, <2>4, <2>5 DEF StoreTypes, Cancelling
    <2>9. RowsOK' /\ SessionsKnowThePassword'
      BY <2>1, <2>2, <2>3, <2>4, HashParts
         DEF StoreTypes, RowsOK, SessionsKnowThePassword, Unrevoked
    <2>7. IssuedIsLive'
      <3>1. ASSUME NEW c \in Challenges, challenges'[c].state = "issued"
            PROVE  /\ challenges'[c] = challenges[c]
                   /\ sessions'[challenges[c].session] = sessions[challenges[c].session]
        <4>1. /\ challenges'[c] = challenges[c]
              /\ ~(challenges[c].session = s /\ challenges[c].epoch = sessions[s].epoch)
          BY <3>1, <2>4, CancelledEpochCancels
        <4>2. /\ challenges[c].session \in Sessions
              /\ sessions[challenges[c].session].epoch = challenges[c].epoch
          BY <3>1, <4>1 DEF IssuedIsLive
        <4> QED BY <4>1, <4>2, <2>3
      <3> QED BY <3>1, NothingIssued
    <2>8. OneOpenAuthorization' /\ ReferencesHold'
      BY <2>2, <2>3, <2>4, <2>5, CancellingKeepsOpen, CancellingKeepsReferences
    <2> QED BY <1>1, <2>6, <2>7, <2>8, <2>9, InvPartsNext
  <1> QED BY <1>2, <1>3

\* Pruning takes only sessions that no challenge names.
LEMMA PrunedFacts ==
    ASSUME StoreTypes, NEW ids
    PROVE  /\ Pruned(ids) \in [Sessions -> Rows]
           /\ \A s \in Sessions :
               /\ s \in ids => Pruned(ids)[s].state = "deleted"
               /\ s \notin ids => Pruned(ids)[s] = sessions[s]
  <1>1. DeletedRow \in Rows /\ DeletedRow.state = "deleted"
    BY SettingsAssumption DEF DeletedRow, NoRow, Rows, Times, Never
  <1> QED BY <1>1 DEF Pruned, StoreTypes

LEMMA CleanupInv ==
    ASSUME IInv, NEW now \in Times, Cleanup(now)
    PROVE  IInv'
  <1> DEFINE ids == {s \in Sessions : Prunable(s, now)}
  <1> USE InvParts DEF StoreInv
  <1>1. CallInv'
    BY DEF CallInv, CallsOK, Cleanup
  <1>2. \A s \in ids, c \in Challenges : challenges[c].session # s
    BY DEF Prunable, Referenced
  <1>3. sessions' = Pruned(ids) /\ UNCHANGED <<hash, challenges, attempts>>
    BY DEF Cleanup
  <1>4. StoreTypes' /\ RowsOK' /\ SessionsKnowThePassword'
    BY <1>3, PrunedFacts DEF StoreTypes, RowsOK, SessionsKnowThePassword, Unrevoked
  <1>5. IssuedIsLive' /\ OneOpenAuthorization' /\ ReferencesHold'
    BY <1>2, <1>3, PrunedFacts
       DEF IssuedIsLive, OneOpenAuthorization, Open, ReferencesHold, Kept, HasAttempt
  <1> QED BY <1>1, <1>4, <1>5, InvPartsNext

LEMMA SessionNextInv == ASSUME IInv, SessionNext PROVE IInv'
  BY InitializeInv, CleanupInv, AbandonInv, ValidateCsrfInv, VerifyInv, LoginInv,
     ChangePasswordInv, RevokeSessionsInv, AuthenticateInv, RevokeInv, ReauthVerifyInv,
     ReauthenticateInv DEF SessionNext
-----------------------------------------------------------------------------
(* The operations of Approvals.                                            *)
LEMMA IssueInv ==
    ASSUME IInv, NEW p \in Callers, NEW now \in Times, Issue(p, now)
    PROVE  IInv'
  <1> USE InvParts DEF StoreInv
  <1>1. CallInv'
    BY DoneKeepsCalls DEF Issue
  <1>2. PICK cred \in Credentials :
            IF RecentlyProved(p, now) /\ ~Conflict(cred)
            THEN \E c \in Challenges :
                    /\ challenges[c].state = "unused"
                    /\ challenges' = [challenges EXCEPT ![c] = Issued(p, cred, now)]
            ELSE UNCHANGED challenges
    BY DEF Issue
  <1>3. CASE ~(RecentlyProved(p, now) /\ ~Conflict(cred))
    BY <1>1, <1>2, <1>3, StoreUnchanged, InvPartsNext DEF Issue
  <1>4. CASE RecentlyProved(p, now) /\ ~Conflict(cred)
    <2>1. PICK c \in Challenges :
                    /\ challenges[c].state = "unused"
                    /\ challenges' = [challenges EXCEPT ![c] = Issued(p, cred, now)]
      BY <1>2, <1>4
    <2>2. Row(p) = sessions[calls[p].handle.sid] /\ calls[p].handle.sid \in Sessions
          /\ Row(p) \in Rows /\ Unrevoked(Row(p))
      BY <1>4, HandleFacts DEF Issue, RecentlyProved, Live
    <2>3. /\ Issued(p, cred, now) \in ChallengeRows
          /\ Issued(p, cred, now).state = "issued"
          /\ Issued(p, cred, now).cred = cred
          /\ Issued(p, cred, now).session = calls[p].handle.sid
          /\ Issued(p, cred, now).epoch = Row(p).epoch
      BY <2>2, SettingsAssumption DEF Issued, ChallengeRows, Rows, Times
    <2>4. UNCHANGED <<hash, sessions, attempts>>
      BY DEF Issue
    <2>5. /\ challenges' \in [Challenges -> ChallengeRows]
          /\ challenges'[c] = Issued(p, cred, now)
          /\ \A d \in Challenges \ {c} : challenges'[d] = challenges[d]
      BY <2>1, <2>3 DEF StoreTypes
    <2>6. StoreTypes' /\ RowsOK' /\ SessionsKnowThePassword'
      BY <2>4, <2>5 DEF StoreTypes, RowsOK, SessionsKnowThePassword
    <2>7. IssuedIsLive'
      BY <2>2, <2>3, <2>4, <2>5 DEF IssuedIsLive
    <2>8. OneOpenAuthorization'
      BY <1>4, <2>3, <2>4, <2>5 DEF OneOpenAuthorization, Conflict, Open
    <2>9. ReferencesHold'
      BY <2>1, <2>2, <2>3, <2>4, <2>5 DEF ReferencesHold, Kept, HasAttempt, Unrevoked
    <2> QED BY <1>1, <2>6, <2>7, <2>8, <2>9, InvPartsNext
  <1> QED BY <1>3, <1>4

\* A challenge that ends, in a state of its own session's choosing.
LEMMA EndedRow ==
    ASSUME NEW row \in ChallengeRows, row.state = "issued", NEW at \in Times,
           NEW state \in {"consumed", "cancelled", "expired"}
    PROVE  /\ Ended(row, state, at) \in ChallengeRows
           /\ Ended(row, state, at).state = state
           /\ Ended(row, state, at).session = row.session
           /\ Ended(row, state, at).cred = row.cred
  <1>1. row \in [state: {"issued", "consumed", "cancelled", "expired"},
                 session: Sessions, cred: Credentials, epoch: 0..MaxEpoch,
                 issued: Times, ended: Times]
    BY DEF ChallengeRows, NoChallenge, DeletedChallenge
  <1> QED BY <1>1, ZenonT(30) DEF Ended, ChallengeRows

\* One challenge ends; its attempt is created exactly if it was consumed.
LEMMA EndingKeepsStore ==
    ASSUME StoreInv, NEW c \in Challenges, challenges[c].state = "issued",
           NEW at \in Times, NEW state \in {"consumed", "cancelled", "expired"},
           challenges' = [challenges EXCEPT ![c] = Ended(challenges[c], state, at)],
           NEW now \in Times,
           attempts' = IF state = "consumed"
                       THEN [attempts EXCEPT ![c] = [state |-> "authorized", at |-> now]]
                       ELSE attempts,
           UNCHANGED <<hash, sessions>>
    PROVE  StoreInv'
  <1> USE DEF StoreInv
  <1> DEFINE new == Ended(challenges[c], state, at)
  <1>1. /\ new \in ChallengeRows /\ new.state = state
        /\ new.session = challenges[c].session /\ new.cred = challenges[c].cred
    BY EndedRow DEF StoreTypes
  <1>2. /\ challenges' \in [Challenges -> ChallengeRows]
        /\ challenges'[c] = new
        /\ \A d \in Challenges \ {c} : challenges'[d] = challenges[d]
    BY <1>1 DEF StoreTypes
  <1>3. /\ attempts' \in [Challenges -> AttemptRows]
        /\ \A d \in Challenges \ {c} : attempts'[d] = attempts[d]
        /\ attempts'[c] # attempts[c] => state = "consumed"
    BY DEF StoreTypes, AttemptRows
  <1> HIDE DEF new
  <1>4. StoreTypes' /\ RowsOK' /\ SessionsKnowThePassword'
    BY <1>2, <1>3 DEF StoreTypes, RowsOK, SessionsKnowThePassword
  <1>5. IssuedIsLive'
    BY <1>1, <1>2 DEF IssuedIsLive
  <1>6. OneOpenAuthorization'
    <2>1. ASSUME NEW d \in Challenges, Open(d)'
          PROVE  Open(d) /\ challenges'[d].cred = challenges[d].cred
      BY <2>1, <1>1, <1>2, <1>3 DEF Open
    <2> QED BY <2>1, NothingOpened
  <1>7. ReferencesHold'
    BY <1>1, <1>2, <1>3 DEF ReferencesHold, Kept, HasAttempt
  <1> QED BY <1>4, <1>5, <1>6, <1>7

LEMMA IssuedAt ==
    ASSUME StoreTypes, NEW c \in Challenges, NEW now \in Times, challenges[c].state = "issued"
    PROVE  Larger(now, challenges[c].issued) \in Times
  BY DEF StoreTypes, ChallengeRows, NoChallenge, DeletedChallenge, Larger

LEMMA ConsumeInv ==
    ASSUME IInv, NEW p \in Callers, NEW c \in Challenges, NEW confirmed \in BOOLEAN,
           NEW now \in Times, Consume(p, c, confirmed, now)
    PROVE  IInv'
  <1> USE InvParts
  <1> DEFINE verdict == ConsumeVerdict(p, c, now, confirmed)
  <1>1. CallInv'
    BY DoneKeepsCalls DEF Consume
  <1>2. verdict \in {"consumed", "cancelled", "expired"}
    BY DEF ConsumeVerdict
  <1>3. CASE SameActor(p, c) /\ challenges[c].state = "issued"
    <2>1. Larger(now, challenges[c].issued) \in Times
      BY <1>3, IssuedAt DEF StoreInv
    <2>2. StoreInv'
      BY <1>2, <1>3, <2>1, EndingKeepsStore DEF Consume
    <2> QED BY <1>1, <2>2, InvPartsNext
  <1>4. CASE ~(SameActor(p, c) /\ challenges[c].state = "issued")
    BY <1>1, <1>4, StoreUnchanged, InvPartsNext DEF Consume
  <1> QED BY <1>3, <1>4

LEMMA CancelChallengeInv ==
    ASSUME IInv, NEW p \in Callers, NEW c \in Challenges, NEW now \in Times,
           CancelChallenge(p, c, now)
    PROVE  IInv'
  <1> USE InvParts
  <1> DEFINE verdict == IF Live(Row(p), now) /\ now >= ExpiresAt(c)
                        THEN "expired" ELSE "cancelled"
  <1>1. CallInv'
    BY DoneKeepsCalls DEF CancelChallenge
  <1>2. verdict \in {"cancelled", "expired"}
    OBVIOUS
  <1>3. CASE SameActor(p, c) /\ challenges[c].state = "issued"
    <2>1. Larger(now, challenges[c].issued) \in Times
      BY <1>3, IssuedAt DEF StoreInv
    <2>2. challenges' = [challenges EXCEPT ![c] =
              Ended(challenges[c], verdict, Larger(now, challenges[c].issued))]
      BY <1>3 DEF CancelChallenge
    <2> HIDE DEF verdict
    <2>3. StoreInv'
      BY <1>2, <1>3, <2>1, <2>2, EndingKeepsStore, ZenonT(30) DEF CancelChallenge
    <2> QED BY <1>1, <2>3, InvPartsNext
  <1>4. CASE ~(SameActor(p, c) /\ challenges[c].state = "issued")
    BY <1>1, <1>4, StoreUnchanged, InvPartsNext DEF CancelChallenge
  <1> QED BY <1>3, <1>4

\* Attempts end, or leave the table once they have ended.
AttemptEnds(c) ==
    /\ attempts'[c].state \in {"cancelled", "expired", "deleted"}
    /\ attempts'[c].state # "deleted" => attempts[c].state = "authorized"

LEMMA CancelAttemptInv ==
    ASSUME IInv, NEW p \in Callers, NEW c \in Challenges, NEW now \in Times,
           CancelAuthorizedAttempt(p, c, now)
    PROVE  IInv'
  <1> USE InvParts DEF StoreInv
  <1>1. CallInv'
    BY DoneKeepsCalls DEF CancelAuthorizedAttempt
  <1>2. CASE UNCHANGED attempts
    BY <1>1, <1>2, StoreUnchanged, InvPartsNext DEF CancelAuthorizedAttempt
  <1>3. CASE attempts[c].state = "authorized" /\ ~UNCHANGED attempts
    <2>1. /\ UNCHANGED <<hash, sessions, challenges>>
          /\ attempts' \in [Challenges -> AttemptRows]
          /\ \A d \in Challenges \ {c} : attempts'[d] = attempts[d]
          /\ AttemptEnds(c)
      BY <1>3 DEF CancelAuthorizedAttempt, StoreTypes, AttemptRows, AttemptEnds
    <2>2. StoreTypes' /\ RowsOK' /\ SessionsKnowThePassword' /\ IssuedIsLive'
      BY <2>1 DEF StoreTypes, RowsOK, SessionsKnowThePassword, IssuedIsLive
    <2>3. OneOpenAuthorization'
      <3>1. ASSUME NEW d \in Challenges, Open(d)'
            PROVE  Open(d) /\ challenges'[d].cred = challenges[d].cred
        BY <3>1, <2>1 DEF Open, AttemptEnds
      <3> QED BY <3>1, NothingOpened
    <2>4. ReferencesHold'
      BY <1>3, <2>1 DEF ReferencesHold, Kept, HasAttempt, AttemptEnds
    <2> QED BY <1>1, <2>2, <2>3, <2>4, InvPartsNext
  <1> QED BY <1>2, <1>3 DEF CancelAuthorizedAttempt
-----------------------------------------------------------------------------
(* The maintenance batch: what was chosen was due.                         *)
LEMMA ChosenWasDue ==
    ASSUME NEW now \in Times, NEW batch \in SUBSET Due(now), NEW id
    PROVE  /\ Chosen(batch, <<1, "challenge">>, id) => id \in ToExpire(now)
           /\ Chosen(batch, <<1, "attempt">>, id) => id \in ToEnd(now)
           /\ Chosen(batch, <<2, "attempt">>, id) => id \in OldAttempts(now)
           /\ Chosen(batch, <<3, "challenge">>, id) => id \in OldChallenges(now)
           /\ Chosen(batch, <<4, "session">>, id) => id \in Sessions /\ Prunable(id, now)
  <1>1. ASSUME NEW i \in Due(now)
        PROVE  \/ i.priority = <<1, "challenge">> /\ i.id \in ToExpire(now)
               \/ i.priority = <<1, "attempt">> /\ i.id \in ToEnd(now)
               \/ i.priority = <<2, "attempt">> /\ i.id \in OldAttempts(now)
               \/ i.priority = <<3, "challenge">> /\ i.id \in OldChallenges(now)
               \/ i.priority = <<4, "session">> /\ i.id \in Sessions /\ Prunable(i.id, now)
    BY DEF Due, Item
  <1> QED BY <1>1 DEF Chosen

LEMMA MaintenanceInv ==
    ASSUME IInv, NEW now \in Times, Maintenance(now)
    PROVE  IInv'
  <1> USE InvParts DEF StoreInv
  <1>1. PICK batch \in SUBSET Due(now) :
        /\ challenges' = [c \in Challenges |->
             IF Chosen(batch, <<1, "challenge">>, c) THEN Ended(challenges[c], "expired", now)
             ELSE IF Chosen(batch, <<3, "challenge">>, c)
             THEN DeletedChallenge ELSE challenges[c]]
        /\ attempts' = [c \in Challenges |->
             IF Chosen(batch, <<1, "attempt">>, c) THEN [state |-> "expired", at |-> now]
             ELSE IF Chosen(batch, <<2, "attempt">>, c)
             THEN DeletedAttempt ELSE attempts[c]]
        /\ sessions' = Pruned({s \in Sessions : Chosen(batch, <<4, "session">>, s)})
    BY ZenonT(30) DEF Maintenance, Batches
  <1> DEFINE ids == {s \in Sessions : Chosen(batch, <<4, "session">>, s)}
  <1>2. CallInv'
    BY DEF CallInv, CallsOK, Maintenance
  <1>3. \A s \in ids, c \in Challenges : challenges[c].session # s
    BY ChosenWasDue, ZenonT(30) DEF Prunable, Referenced
  <1>4. ASSUME NEW c \in Challenges
        PROVE  /\ challenges'[c] \in ChallengeRows
               /\ \/ challenges'[c] = challenges[c]
                  \/ /\ challenges[c].state = "issued" /\ challenges'[c].state = "expired"
                     /\ challenges'[c].session = challenges[c].session
                     /\ challenges'[c].cred = challenges[c].cred
                  \/ challenges'[c].state = "deleted" /\ ~HasAttempt(c) /\ ChallengeOver(c)
    <2>1. CASE Chosen(batch, <<1, "challenge">>, c)
      <3>1. challenges[c] \in ChallengeRows /\ challenges[c].state = "issued"
        BY <2>1, ChosenWasDue DEF ToExpire, StoreTypes
      <3>2. challenges'[c] = Ended(challenges[c], "expired", now)
        BY <1>1, <2>1
      <3> QED BY <3>1, <3>2, EndedRow
    <2>2. CASE ~Chosen(batch, <<1, "challenge">>, c) /\ Chosen(batch, <<3, "challenge">>, c)
      <3>1. challenges'[c] = DeletedChallenge /\ ~HasAttempt(c) /\ ChallengeOver(c)
        BY <1>1, <2>2, ChosenWasDue DEF OldChallenges
      <3>2. DeletedChallenge \in ChallengeRows /\ DeletedChallenge.state = "deleted"
        BY DEF ChallengeRows, DeletedChallenge, NoChallenge
      <3> QED BY <3>1, <3>2
    <2>3. CASE ~Chosen(batch, <<1, "challenge">>, c) /\ ~Chosen(batch, <<3, "challenge">>, c)
      BY <1>1, <2>3 DEF StoreTypes
    <2> QED BY <2>1, <2>2, <2>3
  <1>5. ASSUME NEW c \in Challenges
        PROVE  /\ attempts'[c] \in AttemptRows
               /\ attempts'[c] = attempts[c] \/ AttemptEnds(c)
    <2>1. attempts[c] \in AttemptRows /\ DeletedAttempt \in AttemptRows
      BY SettingsAssumption DEF StoreTypes, AttemptRows, DeletedAttempt, Times
    <2> QED BY <1>1, <2>1, ChosenWasDue
            DEF AttemptEnds, AttemptRows, DeletedAttempt, ToEnd
  <1>6. /\ sessions' \in [Sessions -> Rows]
        /\ \A s \in Sessions : /\ s \in ids => sessions'[s].state = "deleted"
                               /\ s \notin ids => sessions'[s] = sessions[s]
    BY <1>1, PrunedFacts
  <1>7. hash' = hash
    BY DEF Maintenance
  <1> HIDE DEF ids
  <1>8. StoreTypes'
    <2>1. /\ challenges' = [c \in Challenges |-> challenges'[c]]
          /\ attempts' = [c \in Challenges |-> attempts'[c]]
      BY <1>1
    <2> QED BY <2>1, <1>4, <1>5, <1>6, <1>7 DEF StoreTypes
  <1>9. RowsOK' /\ SessionsKnowThePassword'
    BY <1>6, <1>7 DEF RowsOK, SessionsKnowThePassword, Unrevoked
  <1>10. IssuedIsLive'
    BY <1>3, <1>4, <1>6 DEF IssuedIsLive
  <1>11. OneOpenAuthorization'
    <2>1. ASSUME NEW c \in Challenges, Open(c)'
          PROVE  Open(c) /\ challenges'[c].cred = challenges[c].cred
      BY <2>1, <1>4, <1>5 DEF Open, AttemptEnds, HasAttempt
    <2> QED BY <2>1, NothingOpened
  <1>12. ReferencesHold'
    <2> SUFFICES ASSUME NEW c \in Challenges
                 PROVE  /\ Kept(c)' => /\ challenges'[c].session \in Sessions
                                       /\ sessions'[challenges'[c].session].state = "present"
                        /\ HasAttempt(c)' => challenges'[c].state = "consumed"
      BY DEF ReferencesHold
    <2>1. Kept(c)' => /\ challenges'[c].session \in Sessions
                      /\ sessions'[challenges'[c].session].state = "present"
      BY <1>3, <1>4, <1>6 DEF ReferencesHold, Kept
    <2>2. HasAttempt(c)' => HasAttempt(c)
      BY <1>5 DEF HasAttempt, AttemptEnds
    <2>3. HasAttempt(c) => challenges[c].state = "consumed" /\ challenges'[c] = challenges[c]
      BY <1>4 DEF ReferencesHold
    <2> QED BY <2>1, <2>2, <2>3
  <1> QED BY <1>2, <1>8, <1>9, <1>10, <1>11, <1>12, InvPartsNext
-----------------------------------------------------------------------------
LEMMA InitInv == Init => IInv
  <1> SUFFICES ASSUME Init PROVE IInv
    OBVIOUS
  <1>1. NoRow \in Rows /\ NoRow.state = "unused"
    BY SettingsAssumption DEF NoRow, Rows, Times, Never
  <1>2. /\ NoChallenge \in ChallengeRows /\ NoChallenge.state = "unused"
        /\ NoAttempt \in AttemptRows /\ NoAttempt.state = "none"
    BY SettingsAssumption DEF NoChallenge, ChallengeRows, NoAttempt, AttemptRows, Times
  <1>3. CallInv
    BY IdleIsOK DEF Init, SessionInit, CallInv, CallsOK
  <1>4. StoreTypes
    BY <1>1, <1>2 DEF Init, SessionInit, StoreTypes, Hashes
  <1>5. RowsOK /\ SessionsKnowThePassword /\ IssuedIsLive /\ OneOpenAuthorization /\ ReferencesHold
    BY <1>1, <1>2 DEF Init, SessionInit, RowsOK, SessionsKnowThePassword, Unrevoked,
       IssuedIsLive, OneOpenAuthorization, Open, ReferencesHold, Kept, HasAttempt
  <1> QED BY <1>3, <1>4, <1>5, InvParts DEF StoreInv

LEMMA NextInv == IInv /\ [Next]_vars => IInv'
  <1> SUFFICES ASSUME IInv, [Next]_vars PROVE IInv'
    OBVIOUS
  <1>1. CASE Next
    BY <1>1, SessionNextInv, MaintenanceInv, IssueInv, ConsumeInv, CancelChallengeInv,
       CancelAttemptInv DEF Next
  <1>2. CASE UNCHANGED vars
    BY <1>2, InvParts, InvPartsNext, StoreUnchanged DEF vars, CallInv, CallsOK
  <1> QED BY <1>1, <1>2

\* The inductive invariant holds through every order in which the transactions
\* of sessions and approvals commit.
THEOREM Invariance == Spec => []IInv
  BY InitInv, NextInv, PTL DEF Spec

\* No session survives the password it was opened with: login and
\* reauthenticate compare the hash they verified inside their transaction, and
\* change_password revokes what was there before.
THEOREM SessionsProvePassword == Spec => []SessionsKnowThePassword
  BY Invariance, PTL DEF IInv

\* Whoever ends a session, rotates or prunes it leaves no ISSUED challenge of
\* it: _cancel_session_challenges runs first, and reaches all of them.
THEOREM ChallengesAreLive == Spec => []IssuedIsLive
  BY Invariance, PTL DEF IInv

\* ApprovalService.issue refuses a credential that has an open challenge or
\* attempt, and nothing else opens one.
THEOREM OneAuthorizationPerCredential == Spec => []OneOpenAuthorization
  BY Invariance, PTL DEF IInv

\* SessionService.cleanup and maintenance delete attempts before challenges
\* and challenges before sessions, so the foreign keys never refuse them.
THEOREM ReferencesAreKept == Spec => []ReferencesHold
  BY Invariance, PTL DEF IInv
-----------------------------------------------------------------------------
(* The action property: what a step may do to a session that stays.        *)
Advances(old, new) ==
    old.state = "present" /\ new.state = "present" =>
        /\ old.seen <= new.seen
        /\ old.recent <= new.recent
        /\ old.epoch <= new.epoch
        /\ old.revoked # Never => new.revoked # Never
AllAdvance == \A s \in Sessions : Advances(sessions[s], sessions'[s])

LEMMA SameAdvances == ASSUME NEW row \in Rows PROVE Advances(row, row)
  BY DEF Advances, Rows, Times

LEMMA RevocationAdvances ==
    ASSUME StoreTypes, NEW ids, NEW now \in Times, NEW s \in Sessions
    PROVE  Advances(sessions[s], RevokedRows(ids, now)[s])
  <1>1. Advances(sessions[s], sessions[s])
    BY SameAdvances DEF StoreTypes
  <1> QED BY <1>1, RevokedRowsFacts DEF Advances

LEMMA StepAdvances ==
    ASSUME IInv, Next
    PROVE  AllAdvance
  <1> USE InvParts DEF StoreInv
  <1>1. \A s \in Sessions : sessions[s] \in Rows /\ Advances(sessions[s], sessions[s])
    BY SameAdvances DEF StoreTypes
  <1>2. ASSUME UNCHANGED sessions PROVE AllAdvance
    BY <1>1, <1>2 DEF AllAdvance
  <1>3. ASSUME NEW ids, NEW now \in Times, sessions' = RevokedRows(ids, now) PROVE AllAdvance
    BY <1>3, RevocationAdvances DEF AllAdvance
  <1>4. ASSUME NEW ids, sessions' = Pruned(ids) PROVE AllAdvance
    BY <1>1, <1>4, PrunedFacts DEF AllAdvance, Advances
  <1>5. ASSUME NEW p \in Callers, NEW now \in Times, Login(p, now) PROVE AllAdvance
    <2>1. PICK s \in Sessions, E \in Evictions(now) :
            /\ sessions[s].state = "unused"
            /\ sessions' = [RevokedRows(E, now) EXCEPT ![s] = NewRow(p, now)]
      BY <1>5, ZenonT(30) DEF Login
    <2>2. \A t \in Sessions \ {s} : sessions'[t] = RevokedRows(E, now)[t]
      BY <2>1, RevokedRowsFacts
    <2>3. \A t \in Sessions \ {s} : Advances(sessions[t], sessions'[t])
      BY <2>2, RevocationAdvances
    <2>4. Advances(sessions[s], sessions'[s])
      BY <2>1 DEF Advances
    <2> QED BY <2>3, <2>4 DEF AllAdvance
  <1>6. ASSUME NEW p \in Callers, NEW s \in Sessions, NEW now \in Times, Authenticate(p, s, now)
        PROVE  AllAdvance
    <2>1. /\ sessions'[s] = [sessions[s] EXCEPT !.seen = now]
          /\ \A t \in Sessions \ {s} : sessions'[t] = sessions[t]
          /\ ~(now < sessions[s].seen)
      BY <1>6 DEF Authenticate, Acceptable, Behind, StoreTypes
    <2>2. Advances(sessions[s], [sessions[s] EXCEPT !.seen = now])
      BY <1>1, <2>1 DEF Advances, Rows, Times
    <2> QED BY <1>1, <2>1, <2>2 DEF AllAdvance
  <1>7. ASSUME NEW p \in Callers, NEW now \in Times, Reauthenticate(p, now) PROVE AllAdvance
    <2> DEFINE s == calls[p].handle.sid
    <2>1. CASE UNCHANGED sessions
      BY <2>1, <1>2
    <2>2. CASE ContextHolds(p, now) /\ HashHolds(p)
      <3>1. /\ s \in Sessions /\ Row(p) = sessions[s]
            /\ sessions' = [sessions EXCEPT ![s] = Rotated(p, now)]
            /\ ~Behind(sessions[s], now)
        BY <1>7, <2>2, HandleFacts, ZenonT(30) DEF Reauthenticate, ContextHolds, Acceptable
      <3>2. /\ sessions'[s] = Rotated(p, now)
            /\ \A t \in Sessions \ {s} : sessions'[t] = sessions[t]
        BY <3>1 DEF StoreTypes
      <3>3. /\ Rotated(p, now).seen = now /\ Rotated(p, now).recent = now
            /\ Rotated(p, now).epoch = sessions[s].epoch + 1
            /\ Rotated(p, now).revoked = sessions[s].revoked
        BY <1>1, <3>1 DEF Rotated, Rows
      <3>4. Advances(sessions[s], Rotated(p, now))
        BY <1>1, <3>1, <3>3 DEF Advances, Behind, Rows, Times
      <3> QED BY <1>1, <3>2, <3>4 DEF AllAdvance
    <2> QED BY <1>7, <2>1, <2>2 DEF Reauthenticate
  <1>8. ASSUME SessionNext PROVE AllAdvance
    <2>1. CASE Initialize
      BY <2>1, <1>2 DEF Initialize
    <2>2. CASE \E now \in Times : Cleanup(now)
      BY <2>2, <1>4 DEF Cleanup
    <2>3. ASSUME NEW p \in Callers,
                 Abandon(p) \/ HashLost(p) \/ ValidateCsrf(p)
                 \/ \E op \in {"login", "change", "revokeAll"} : Verify(p, op)
          PROVE  AllAdvance
      BY <2>3, <1>2 DEF Abandon, HashLost, ValidateCsrf, Verify
    <2>4. ASSUME NEW p \in Callers, NEW now \in Times,
                 ChangePassword(p, now) \/ RevokeSessions(p, now)
          PROVE  AllAdvance
      BY <2>4, <1>3 DEF ChangePassword, RevokeSessions
    <2>5. ASSUME NEW p \in Callers, NEW now \in Times, Revoke(p, now) \/ ReauthVerify(p, now)
          PROVE  AllAdvance
      BY <2>5, <1>2, <1>3 DEF Revoke, ReauthVerify
    <2> QED BY <1>8, <2>1, <2>2, <2>3, <2>4, <2>5, <1>5, <1>6, <1>7 DEF SessionNext
  <1>9. ASSUME NEW now \in Times, Maintenance(now) PROVE AllAdvance
    BY <1>9, <1>4 DEF Maintenance
  <1>10. ASSUME NEW p \in Callers, NEW now \in Times,
                Issue(p, now) \/ \E c \in Challenges :
                    \/ \E confirmed \in BOOLEAN : Consume(p, c, confirmed, now)
                    \/ CancelChallenge(p, c, now) \/ CancelAuthorizedAttempt(p, c, now)
         PROVE  AllAdvance
    BY <1>10, <1>2, ZenonT(30) DEF Issue, Consume, CancelChallenge, CancelAuthorizedAttempt
  <1> QED BY <1>8, <1>9, <1>10 DEF Next

\* last_seen_at, recent_authenticated_at and the epoch of a session never go
\* back and a revoked session stays revoked, whatever order transactions
\* commit in and whatever the clock does: authenticate and reauthenticate
\* refuse a time before what the row records.
THEOREM ActivityAdvances == Spec => ActivityOnlyAdvances
  <1>1. IInv /\ [Next]_vars =>
            [\A s \in Sessions :
                sessions[s].state = "present" /\ sessions'[s].state = "present" =>
                /\ sessions[s].seen <= sessions'[s].seen
                /\ sessions[s].recent <= sessions'[s].recent
                /\ sessions[s].epoch <= sessions'[s].epoch
                /\ sessions[s].revoked # Never => sessions'[s].revoked # Never]_vars
    BY StepAdvances DEF AllAdvance, Advances
  <1> QED BY <1>1, Invariance, PTL DEF Spec, ActivityOnlyAdvances
=============================================================================
