------------------------------ MODULE Approvals ------------------------------
(***************************************************************************)
(* The approval authority (approvals.py): challenges that an administrator *)
(* session issues for a provider credential, the one provisioning attempt  *)
(* a challenge may become, cancellation, and the worker's maintenance      *)
(* batch.  It shares the sessions of AdminSessions: every path there that  *)
(* ends a session or rotates its credentials also ends its challenges.     *)
(*                                                                         *)
(* The consumption of a challenge by the database trigger that follows the *)
(* insert of its attempt is part of the consume step.  No code moves an    *)
(* attempt past AUTHORIZED other than to CANCELLED or EXPIRED yet.         *)
(***************************************************************************)
EXTENDS AdminSessions

CONSTANT MaxBatch   \* LIMIT of one maintenance batch

ASSUME BatchAssumption == MaxBatch \in Nat

vars == <<hash, sessions, challenges, attempts, calls>>

NoChallenge == [state |-> "unused", session |-> "none", cred |-> "none",
                epoch |-> 0, issued |-> 0, ended |-> 0]
DeletedChallenge == [NoChallenge EXCEPT !.state = "deleted"]
ChallengeRows ==
    [state: {"issued", "consumed", "cancelled", "expired"},
     session: Sessions, cred: Credentials, epoch: 0..MaxEpoch,
     issued: Times, ended: Times]
    \cup {NoChallenge, DeletedChallenge}
NoAttempt == [state |-> "none", at |-> 0]
DeletedAttempt == [state |-> "deleted", at |-> 0]
\* `at' is updated_at, which is also terminal_at once the attempt has ended.
AttemptRows == [state: {"none", "authorized", "cancelled", "expired", "deleted"},
                at: Times]

TypeOK ==
    /\ hash \in Hashes
    /\ sessions \in [Sessions -> Rows]
    /\ challenges \in [Challenges -> ChallengeRows]
    /\ attempts \in [Challenges -> AttemptRows]
    /\ calls \in [Callers -> Calls]

Init ==
    /\ SessionInit
    /\ challenges = [c \in Challenges |-> NoChallenge]
    /\ attempts = [c \in Challenges |-> NoAttempt]
-----------------------------------------------------------------------------
ExpiresAt(c) == challenges[c].issued + ApprovalTtl
Ended(row, state, now) == [row EXCEPT !.state = state, !.ended = now]
SameActor(p, c) == challenges[c].session = calls[p].handle.sid

\* The session is the one that authenticated, unrotated and recently proved.
RecentlyProved(p, now) ==
    /\ Live(Row(p), now)
    /\ Row(p).epoch = calls[p].handle.epoch
    /\ now >= Row(p).recent
    /\ now - Row(p).recent <= ApprovalTtl

\* A credential with an ISSUED challenge or an unresolved attempt takes none.
Open(c) == challenges[c].state = "issued" \/ attempts[c].state = "authorized"
Conflict(cred) == \E c \in Challenges : challenges[c].cred = cred /\ Open(c)

Issued(p, cred, now) ==
    [state |-> "issued", session |-> calls[p].handle.sid, cred |-> cred,
     epoch |-> Row(p).epoch, issued |-> now, ended |-> 0]
Issue(p, now) ==
    /\ calls[p].op = "request"
    /\ \E cred \in Credentials :
        IF RecentlyProved(p, now) /\ ~Conflict(cred)
        THEN \E c \in Challenges :
                /\ challenges[c].state = "unused"
                /\ challenges' = [challenges EXCEPT ![c] = Issued(p, cred, now)]
        ELSE UNCHANGED challenges
    /\ Done(p)
    /\ UNCHANGED <<hash, sessions, attempts>>

\* consume ends every ISSUED challenge of its own session: as CONSUMED, with
\* an AUTHORIZED attempt, only when its session still holds and it is
\* confirmed: the typed text is right, and Runtime, Provider and Credential are
\* at the revisions and in the states the challenge names.
StillHolds(p, c, now) ==
    RecentlyProved(p, now) /\ Row(p).epoch = challenges[c].epoch
ConsumeVerdict(p, c, now, confirmed) ==
    IF now < challenges[c].issued THEN "cancelled"
    ELSE IF now >= ExpiresAt(c) THEN "expired"
    ELSE IF StillHolds(p, c, now) /\ confirmed THEN "consumed" ELSE "cancelled"
Consume(p, c, confirmed, now) ==
    LET verdict == ConsumeVerdict(p, c, now, confirmed) IN
    /\ calls[p].op = "request"
    /\ IF SameActor(p, c) /\ challenges[c].state = "issued"
       THEN /\ challenges' = [challenges EXCEPT ![c] =
                    Ended(challenges[c], verdict, Larger(now, challenges[c].issued))]
            /\ attempts' = IF verdict = "consumed"
                           THEN [attempts EXCEPT ![c] = [state |-> "authorized", at |-> now]]
                           ELSE attempts
       ELSE UNCHANGED <<challenges, attempts>>
    /\ Done(p)
    /\ UNCHANGED <<hash, sessions>>

\* cancel_challenge
CancelChallenge(p, c, now) ==
    LET expired == Live(Row(p), now) /\ now >= ExpiresAt(c) IN
    /\ calls[p].op = "request"
    /\ IF SameActor(p, c) /\ challenges[c].state = "issued"
       THEN challenges' = [challenges EXCEPT ![c] =
                Ended(challenges[c], IF expired THEN "expired" ELSE "cancelled",
                      Larger(now, challenges[c].issued))]
       ELSE UNCHANGED challenges
    /\ Done(p)
    /\ UNCHANGED <<hash, sessions, attempts>>

\* cancel_authorized_attempt; a trigger refuses a time before updated_at.
CancelAuthorizedAttempt(p, c, now) ==
    /\ calls[p].op = "request"
    /\ IF /\ SameActor(p, c) /\ attempts[c].state = "authorized"
          /\ Live(Row(p), now) /\ now >= attempts[c].at
       THEN attempts' = [attempts EXCEPT ![c] =
                [state |-> IF now >= ExpiresAt(c) THEN "expired" ELSE "cancelled",
                 at |-> now]]
       ELSE UNCHANGED attempts
    /\ Done(p)
    /\ UNCHANGED <<hash, sessions, challenges>>
-----------------------------------------------------------------------------
\* maintenance: what is due, with its priority and the time it is ordered by.
Item(priority, at, id) == [priority |-> priority, at |-> at, id |-> id]
ChallengeOver(c) == challenges[c].state \in {"consumed", "cancelled", "expired"}
AttemptOver(c) == attempts[c].state \in {"cancelled", "expired"}
HasAttempt(c) == attempts[c].state \notin {"none", "deleted"}
SessionEnd(row) ==
    IF row.revoked # Never /\ row.revoked < IdleExpires(row)
    THEN row.revoked ELSE IdleExpires(row)
ToExpire(now) ==
    {c \in Challenges : challenges[c].state = "issued" /\ ExpiresAt(c) <= now}
ToEnd(now) ==
    {c \in Challenges : attempts[c].state = "authorized" /\ ExpiresAt(c) <= now}
OldAttempts(now) ==
    {c \in Challenges : AttemptOver(c) /\ attempts[c].at + ApprovalRetention <= now}
OldChallenges(now) ==
    {c \in Challenges : /\ ChallengeOver(c) /\ ~HasAttempt(c)
                        /\ challenges[c].ended + ApprovalRetention <= now}
Due(now) ==
    {Item(<<1, "challenge">>, ExpiresAt(c), c) : c \in ToExpire(now)} \cup
    {Item(<<1, "attempt">>, ExpiresAt(c), c) : c \in ToEnd(now)} \cup
    {Item(<<2, "attempt">>, attempts[c].at, c) : c \in OldAttempts(now)} \cup
    {Item(<<3, "challenge">>, challenges[c].ended, c) : c \in OldChallenges(now)} \cup
    {Item(<<4, "session">>, SessionEnd(sessions[s]), s) :
        s \in {t \in Sessions : Prunable(t, now)}}
\* ORDER BY priority, eligible_at: ties are broken by id, in any order here.
Before(i, j) ==
    \/ i.priority[1] < j.priority[1]
    \/ i.priority[1] = j.priority[1] /\ i.at <= j.at
Batches(now) ==
    {B \in SUBSET Due(now) :
        /\ \/ B = Due(now)
           \/ Cardinality(B) = MaxBatch
        /\ Cardinality(B) <= MaxBatch
        /\ \A i \in B, j \in Due(now) \ B : Before(i, j)}
Chosen(batch, priority, id) == \E i \in batch : i.priority = priority /\ i.id = id
Maintenance(now) ==
    /\ \E batch \in Batches(now) :
        /\ challenges' = [c \in Challenges |->
             IF Chosen(batch, <<1, "challenge">>, c) THEN Ended(challenges[c], "expired", now)
             ELSE IF Chosen(batch, <<3, "challenge">>, c)
             THEN DeletedChallenge ELSE challenges[c]]
        /\ attempts' = [c \in Challenges |->
             IF Chosen(batch, <<1, "attempt">>, c) THEN [state |-> "expired", at |-> now]
             ELSE IF Chosen(batch, <<2, "attempt">>, c)
             THEN DeletedAttempt ELSE attempts[c]]
        /\ sessions' = Pruned({s \in Sessions : Chosen(batch, <<4, "session">>, s)})
    /\ UNCHANGED <<hash, calls>>

Next ==
    \/ SessionNext
    \/ \E now \in Times :
        \/ Maintenance(now)
        \/ \E p \in Callers :
            \/ Issue(p, now)
            \/ \E c \in Challenges :
                \/ \E confirmed \in BOOLEAN : Consume(p, c, confirmed, now)
                \/ CancelChallenge(p, c, now) \/ CancelAuthorizedAttempt(p, c, now)

Spec == Init /\ [][Next]_vars
-----------------------------------------------------------------------------
\* Every session that is not revoked has proved the administrator's current
\* password: a login or a reauthentication that verified a password before
\* change_password committed never leaves a usable session behind.
SessionsKnowThePassword ==
    \A s \in Sessions : Unrevoked(sessions[s]) => sessions[s].provenGen = hash.gen

\* An ISSUED challenge belongs to a session that is present, unrevoked and
\* still in the epoch it was issued in: logout, eviction, password change,
\* revocation, rotation and pruning all leave no live approval behind, although
\* rotation cancels only the challenges of the epoch it ends.
IssuedIsLive ==
    \A c \in Challenges : challenges[c].state = "issued" =>
        \E s \in Sessions : /\ s = challenges[c].session
                            /\ Unrevoked(sessions[s])
                            /\ sessions[s].epoch = challenges[c].epoch

\* A credential never has two open authorizations, an ISSUED challenge or an
\* AUTHORIZED attempt, whoever asked for them and in whatever order the
\* challenges were consumed, cancelled, expired and pruned.
OneOpenAuthorization ==
    \A c, d \in Challenges :
        Open(c) /\ Open(d) /\ challenges[c].cred = challenges[d].cred => c = d

\* Activity of a session is never undone: with transactions that commit in
\* another order than they read the clock, and a clock that is set back,
\* last_seen_at, recent_authenticated_at and the epoch only advance, and a
\* revoked session stays revoked.
ActivityOnlyAdvances ==
    [][\A s \in Sessions :
        sessions[s].state = "present" /\ sessions'[s].state = "present" =>
        /\ sessions[s].seen <= sessions'[s].seen
        /\ sessions[s].recent <= sessions'[s].recent
        /\ sessions[s].epoch <= sessions'[s].epoch
        /\ sessions[s].revoked # Never => sessions'[s].revoked # Never]_vars
=============================================================================
