---------------------------- MODULE AdminSessions ----------------------------
(***************************************************************************)
(* The administrator's password and browser sessions (services.py):        *)
(* initialize, login, authenticate, reauthenticate, logout, the password   *)
(* change and the global revocation of the CLI, eviction and cleanup.      *)
(*                                                                         *)
(* Every mutation is one BEGIN IMMEDIATE transaction, so its body is one   *)
(* step.  Two things are read before that step and used in it.  The        *)
(* password is verified against a hash read in an earlier transaction.     *)
(* And the transaction's `now' is pinned by SQLAlchemy's begin event,      *)
(* before BEGIN IMMEDIATE waits for the write lock (database.py), so       *)
(* transactions commit in another order than they read the clock; and the  *)
(* wall clock may be set back.  A step therefore runs at any time `now'.   *)
(*                                                                         *)
(* A refused request (wrong password, rate limit, invalid token) changes   *)
(* no row of this model and has no action.  The audit rows are left out.   *)
(* A bearer token is named by its session and epoch: reauthenticate        *)
(* replaces the token exactly when it advances the epoch.                  *)
(***************************************************************************)
EXTENDS Integers, FiniteSets

CONSTANTS
    Callers,          \* request threads, CLI commands and the worker
    Sessions,         \* session ids, each used once
    Challenges,       \* approval challenge ids, each used once
    Credentials,      \* provider credentials
    SessionTtl, IdleTtl, SessionRetention, MaxActive,  \* settings
    ApprovalTtl, ApprovalRetention,                    \* APPROVAL_TTL, RETENTION
    MaxTime, MaxEpoch, MaxChanges                      \* bounds

ASSUME SettingsAssumption ==
    /\ SessionTtl \in Nat /\ IdleTtl \in Nat /\ SessionRetention \in Nat
    /\ ApprovalTtl \in Nat \ {0} /\ ApprovalRetention \in Nat
    /\ MaxActive \in Nat \ {0}
    /\ MaxTime \in Nat /\ MaxEpoch \in Nat \ {0} /\ MaxChanges \in Nat

VARIABLES
    hash,        \* password hash of the one administrator
    sessions,    \* rows of `sessions'
    challenges,  \* rows of `confirmation_challenges'
    attempts,    \* the provisioning attempt of each challenge
    calls        \* what each caller is doing

Times == 0..MaxTime
Never == MaxTime + 1
NoAdmin == [gen |-> -1, outdated |-> FALSE]
\* gen counts the password changes; the administrator's hash of a generation
\* is made again, with current parameters, by the first login that finds it
\* outdated.
Hashes == [gen: 0..MaxChanges, outdated: BOOLEAN] \cup {NoAdmin}

\* provenGen is history: the password generation this session last proved.
Rows == [state: {"unused", "present", "deleted"}, epoch: 0..MaxEpoch,
         created: Times, recent: Times, seen: Times,
         revoked: Times \cup {Never}, provenGen: -1..MaxChanges]
NoRow == [state |-> "unused", epoch |-> 0, created |-> 0, recent |-> 0,
          seen |-> 0, revoked |-> Never, provenGen |-> -1]
DeletedRow == [NoRow EXCEPT !.state = "deleted"]

\* The password was verified for the first four; a route that authenticated is
\* a "request", and a "logout" once its CSRF token was checked.
Operations == {"login", "change", "revokeAll", "reauthenticate",
               "request", "logout", "idle"}

Expires(row) == row.created + SessionTtl
IdleExpires(row) ==
    IF row.seen + IdleTtl < Expires(row) THEN row.seen + IdleTtl ELSE Expires(row)
Unrevoked(row) == row.state = "present" /\ row.revoked = Never
Live(row, now) ==
    Unrevoked(row) /\ now < Expires(row) /\ now < IdleExpires(row)
\* the clock is behind something this row has already recorded
Behind(row, now) == now < row.recent \/ now < row.seen

Larger(a, b) == IF a < b THEN b ELSE a
-----------------------------------------------------------------------------
\* _cancel_session_challenges: the ISSUED challenges of these sessions end
\* before the sessions do.  last_observed_at of an ISSUED challenge is its
\* issued_at, so the terminal time is the larger of that and now.
CancelledAt(row, now) ==
    [row EXCEPT !.state = "cancelled", !.ended = Larger(now, row.issued)]
Cancelled(ids, now) ==
    [c \in Challenges |->
        IF challenges[c].state = "issued" /\ challenges[c].session \in ids
        THEN CancelledAt(challenges[c], now) ELSE challenges[c]]
\* Mutant: the epoch is read after it was advanced.
CancelledEpoch_NewEpoch(s, epoch, now) ==
    [c \in Challenges |->
        IF /\ challenges[c].state = "issued"
           /\ challenges[c].session = s /\ challenges[c].epoch = epoch + 1
        THEN CancelledAt(challenges[c], now) ELSE challenges[c]]
CancelledEpoch(s, epoch, now) ==
    [c \in Challenges |->
        IF /\ challenges[c].state = "issued"
           /\ challenges[c].session = s /\ challenges[c].epoch = epoch
        THEN CancelledAt(challenges[c], now) ELSE challenges[c]]

RevokedRows(ids, now) ==
    [s \in Sessions |-> IF s \in ids THEN [sessions[s] EXCEPT !.revoked = now]
                        ELSE sessions[s]]
UnrevokedIds == {s \in Sessions : Unrevoked(sessions[s])}

\* SessionService.issue evicts the oldest live sessions beyond the limit.
LiveIds(now) == {s \in Sessions : Live(sessions[s], now)}
Excess(now) == Larger(0, Cardinality(LiveIds(now)) - MaxActive + 1)
Evictions(now) ==
    {E \in SUBSET LiveIds(now) :
        /\ Cardinality(E) = Excess(now)
        /\ \A e \in E, s \in LiveIds(now) \ E :
               sessions[e].created <= sessions[s].created}
-----------------------------------------------------------------------------
\* What a caller carries: the hash it read and the AuthenticatedSession.
\* Its authenticated_at is that of its epoch: both change together.
NoHandle == [sid |-> "none", epoch |-> 0]
Handles == [sid: Sessions, epoch: 0..MaxEpoch]
Calls == [op: Operations, hash: Hashes, handle: Handles \cup {NoHandle}]
Call(op, read, handle) == [op |-> op, hash |-> read, handle |-> handle]
Idle == Call("idle", NoAdmin, NoHandle)
Become(p, call) == calls' = [calls EXCEPT ![p] = call]
Done(p) == Become(p, Idle)
Row(p) == sessions[calls[p].handle.sid]
NewRow(p, now) ==
    [state |-> "present", epoch |-> 1, created |-> now, recent |-> now,
     seen |-> now, revoked |-> Never, provenGen |-> calls[p].hash.gen]

SessionInit ==
    /\ hash = NoAdmin
    /\ sessions = [s \in Sessions |-> NoRow]
    /\ calls = [p \in Callers |-> Idle]

\* The caller stops: the request ends, its transaction cannot get the write
\* lock in time and rolls back, or its process ends.
Abandon(p) ==
    /\ calls[p] # Idle
    /\ Done(p)
    /\ UNCHANGED <<hash, sessions, challenges, attempts>>

\* AdminService.initialize
Initialize ==
    /\ hash = NoAdmin
    /\ \E outdated \in BOOLEAN : hash' = [gen |-> 0, outdated |-> outdated]
    /\ UNCHANGED <<sessions, challenges, attempts, calls>>

\* login, change_password and revoke_sessions first read the hash and verify
\* the password against it, outside any transaction.
Verify(p, op) ==
    /\ calls[p] = Idle
    /\ hash # NoAdmin
    /\ Become(p, Call(op, IF op = "revokeAll" THEN NoAdmin ELSE hash, NoHandle))
    /\ UNCHANGED <<hash, sessions, challenges, attempts>>

\* Mutant: the transaction checks the account and not the hash.
HashHolds_Active(p) == hash # NoAdmin
\* The transaction of login: the hash must still be the one verified.
HashHolds(p) == calls[p].hash = hash
Login(p, now) ==
    /\ calls[p].op = "login"
    /\ HashHolds(p)
    /\ \E s \in Sessions, E \in Evictions(now) :
        /\ sessions[s].state = "unused"
        /\ sessions' = [RevokedRows(E, now) EXCEPT ![s] = NewRow(p, now)]
        /\ challenges' = Cancelled(E, now)
    /\ hash' = [hash EXCEPT !.outdated = FALSE]
    /\ Done(p)
    /\ UNCHANGED attempts

\* change_password: a new hash, and every unrevoked session is revoked.
ChangePassword(p, now) ==
    /\ calls[p].op = "change"
    /\ HashHolds(p)
    /\ hash.gen < MaxChanges
    /\ hash' = [gen |-> hash.gen + 1, outdated |-> FALSE]
    /\ challenges' = Cancelled(UnrevokedIds, now)
    /\ sessions' = RevokedRows(UnrevokedIds, now)
    /\ Done(p)
    /\ UNCHANGED attempts

\* Both refuse when the hash changed after the password was verified.
HashLost(p) ==
    /\ calls[p].op \in {"login", "change"}
    /\ ~HashHolds(p)
    /\ Done(p)
    /\ UNCHANGED <<hash, sessions, challenges, attempts>>

\* revoke_sessions: the same revocation; the hash is not compared again.
RevokeSessions(p, now) ==
    /\ calls[p].op = "revokeAll"
    /\ challenges' = Cancelled(UnrevokedIds, now)
    /\ sessions' = RevokedRows(UnrevokedIds, now)
    /\ Done(p)
    /\ UNCHANGED <<hash, attempts>>

\* SessionService.authenticate, with the current token of a session.
Acceptable(row, now) == Live(row, now) /\ ~Behind(row, now)
Authenticate(p, s, now) ==
    /\ calls[p] = Idle
    /\ Acceptable(sessions[s], now)
    /\ sessions' = [sessions EXCEPT ![s].seen = now]
    /\ Become(p, Call("request", NoAdmin,
                      [sid |-> s, epoch |-> sessions[s].epoch]))
    /\ UNCHANGED <<hash, challenges, attempts>>

\* Logout: validate_csrf, where the stored verifier is that of the current
\* token, then SessionService.revoke, which takes any epoch.
ValidateCsrf(p) ==
    /\ calls[p].op = "request"
    /\ IF Row(p).state = "present" /\ Row(p).epoch = calls[p].handle.epoch
       THEN Become(p, Call("logout", NoAdmin, calls[p].handle))
       ELSE Done(p)
    /\ UNCHANGED <<hash, sessions, challenges, attempts>>

Revoke(p, now) ==
    LET s == calls[p].handle.sid IN
    /\ calls[p].op = "logout"
    /\ IF Unrevoked(sessions[s])
       THEN /\ challenges' = Cancelled({s}, now)
            /\ sessions' = RevokedRows({s}, now)
       ELSE UNCHANGED <<sessions, challenges>>
    /\ Done(p)
    /\ UNCHANGED <<hash, attempts>>

\* reauthenticate: the context is checked and the hash read in one
\* transaction, the password verified outside, and everything checked again.
\* The route's validate_csrf before it asks no more than the epoch does.
ContextHolds(p, now) ==
    /\ Acceptable(Row(p), now)
    /\ Row(p).epoch = calls[p].handle.epoch
ReauthVerify(p, now) ==
    /\ calls[p].op = "request"
    /\ IF ContextHolds(p, now)
       THEN Become(p, Call("reauthenticate", hash, calls[p].handle))
       ELSE Done(p)
    /\ UNCHANGED <<hash, sessions, challenges, attempts>>
Rotated(p, now) ==
    [Row(p) EXCEPT !.epoch = @ + 1, !.recent = now, !.seen = now,
                   !.provenGen = calls[p].hash.gen]
Reauthenticate(p, now) ==
    LET s == calls[p].handle.sid IN
    /\ calls[p].op = "reauthenticate"
    /\ IF ContextHolds(p, now) /\ HashHolds(p)
       THEN /\ sessions[s].epoch < MaxEpoch
            /\ sessions' = [sessions EXCEPT ![s] = Rotated(p, now)]
            /\ challenges' = CancelledEpoch(s, sessions[s].epoch, now)
       ELSE UNCHANGED <<sessions, challenges>>
    /\ Done(p)
    /\ UNCHANGED <<hash, attempts>>

\* Sessions that ended long ago and that no challenge or attempt names; an
\* attempt names the session of its challenge.
Referenced(s) == \E c \in Challenges : challenges[c].session = s
Prunable(s, now) ==
    /\ sessions[s].state = "present"
    /\ \/ IdleExpires(sessions[s]) <= now - SessionRetention
       \/ /\ sessions[s].revoked # Never
          /\ sessions[s].revoked <= now - SessionRetention
    /\ ~Referenced(s)
Pruned(ids) ==
    [s \in Sessions |-> IF s \in ids THEN DeletedRow ELSE sessions[s]]

\* SessionService.cleanup
Cleanup(now) ==
    /\ sessions' = Pruned({s \in Sessions : Prunable(s, now)})
    /\ UNCHANGED <<hash, challenges, attempts, calls>>

SessionNext ==
    \/ Initialize
    \/ \E now \in Times : Cleanup(now)
    \/ \E p \in Callers :
        \/ Abandon(p) \/ HashLost(p) \/ ValidateCsrf(p)
        \/ \E op \in {"login", "change", "revokeAll"} : Verify(p, op)
        \/ \E now \in Times :
            \/ Login(p, now) \/ ChangePassword(p, now) \/ RevokeSessions(p, now)
            \/ \E s \in Sessions : Authenticate(p, s, now)
            \/ Revoke(p, now) \/ ReauthVerify(p, now) \/ Reauthenticate(p, now)
=============================================================================
