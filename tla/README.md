# AgentBox: TLA+ verification project

AgentBox is a single-host control plane for coding agents: a FastAPI process and
a CLI accept requests, a SQLite database holds durable state, a worker process
executes queued Jobs, and a Runtime process owns the Project directories, the
agents' processes and their terminals. This directory holds TLA+ models of the
parts of it that are hard to test, the TLC configurations that check them on
small instances, and proofs that TLAPS checks for every instance. Paths below
are relative to `src/`; core, runtime and api stand for
`packages/agentbox-core/src/agentbox_core`,
`packages/agentbox-runtime/src/agentbox_runtime` and `apps/api/src/agentbox_api`.

`PROJECT.json` is the machine-readable index: components, runs, mutants, the
map from definitions to source lines, findings, hazards and theorems.

## The system and its parts

| Part | Source | Modules | Proofs |
| --- | --- | --- | --- |
| Job queue, worker, Project requests and directories | core `jobs.py`, `projects.py`; `apps/worker`; api `projects.py`; runtime `workspace.py` | `JobModel`, `JobService`, `JobLifecycle`, `RuntimeWorkspace`, `ProjectJobs` | `ProjectJobsProofs` |
| Workspace rows, handlers, bind coordinator, API startup | core `waw_sessions.py`, `waw.py`, `waw_project_bindings.py`; api `workspaces.py`, `waw_binding.py`, `waw_application.py` | `WorkspaceSessions`, `WorkspaceControl` | `WorkspaceControlProofs` |
| Runtime lifecycle of a workspace | runtime `waw_lifecycle.py`, `waw_supervisor.py`, `waw_runtime_executor.py`, the attestation stores | `WorkspaceRuntime`, `WorkspaceProcesses` | `WorkspaceRuntimeProofs` |
| Attachment tickets and writer leases | core `waw_tickets.py` | `AttachmentAuthority` | `AttachmentAuthorityProofs` |
| WebSocket routes: admission and relay | api `waw_admission_coordinator.py`, `waw_relay.py` | `AttachmentRoutes` | |
| Encrypted terminal stream in the Runtime | runtime `waw_encrypted_stream.py`, `waw_encrypted_server.py`, `waw_fixed_transport.py` | `RuntimeStream`, `WriterSlot` | `RuntimeStreamProofs` |
| Terminal output ring | runtime `waw_pty.py`, `waw_encrypted_stream.py` | `TerminalOutput` | |
| Admission of conversation turns | runtime `kebui_admission*.py`, `kebui_content_admission.py` | `SubmitAdmission` | `SubmitAdmissionProofs` |
| Administrator sessions and approvals | core `services.py`, `approvals.py` | `AdminSessions`, `Approvals` | `ApprovalsProofs` |
| Installer | `installer/.../lifecycle.py`, `retention.py`, `backup.py` | `InstallerLifecycle` | `InstallerProofs` |

The `MC...` modules give the constants of these modules values for TLC.

How they interact. A create or clone request reserves a Project row, then
enqueues a Job. A worker claims the Job, asks the Runtime over a Unix socket to
make the directory, marks the Project ready, finalizes the directory, writes an
audit event and ends the Job; every failure leads to a rollback or to the state
`needs_attention`. Git Jobs go the same way without the Project transitions.
An agent of a ready Project runs in a workspace: the first Start registers the
Project's binding with the Runtime and creates a row, later ones raise its
generation; Start, Stop and status are RPCs through one coordinator, which binds
to the Runtime's current epoch first. In the Runtime a Start burns its
generation on disk, launches a supervised process in a cgroup of its own and
attests it; a Stop is answered when the cgroup is recorded empty. A browser that
wants to type into an agent's terminal gets a one-use ticket; a WebSocket route
turns it into the single writer lease of a workspace through a staged admission,
while the Runtime reserves its writer slot and opens an attach child. Terminal
output goes through a bounded ring to that writer. Conversation turns, the
administrator's sessions with their approvals, and the installer share nothing
with these protocols but the host.

Composition. `ProjectJobs` composes the Job table, the directories and the
workers; `AttachmentRoutes` drives an instance of `AttachmentAuthority`;
`Approvals` extends `AdminSessions`. The API's model of the Runtime in
`WorkspaceControl` (any answer may come) and the Runtime's model of the API in
`WorkspaceRuntime` (any generation may be asked for) are each wider than the
other side, so the results do not depend on a composition of the two.

## Job queue, worker and directories

`JobService` is the Job table: one operator per SQLite transaction. Methods that
open with `BEGIN IMMEDIATE` are one step. `progress`, `heartbeat` and `_finish`
read the status first and get their write lock at the UPDATE, so they are a
check (`Running`) and a later write by primary key (`RenewWrite`,
`FinishWrite`). `RuntimeWorkspace` is the Project root on disk: for each key, who
made the directory and whether its marker is there; the staging directories;
and, for each Job, the operation the server runs for it. `create`, `finalize` and
`rollback` have no await and are one step each, with one operator per outcome
(complete, half done, refused; a clean-up that fails may leave the staging
directory behind); clone and Git operations start and end in different steps. `ProjectJobs` composes both with the request handlers and the
workers. A worker's program counter follows `execute_job`; `Raised` is where an
exception leads from each place. Crashes of the API, a worker and the Runtime,
stops, failing statements, lost requests and replies and steps of the host clock
happen between any two steps, within the budget `MaxFaults`. `JobLifecycle` is
what the queue promises: queued once, run at most once and alone on its lock,
ended once, forgotten only after a clean end. `docs/ARCHITECTURE.md:518` and
`docs/MVP_SCOPE.md:134` also speak of Jobs that are safe to requeue; no Job type is
one of these, as `recover_expired` requeues nothing, so the promise has no requeue.

| Run | Instance | Shows |
| --- | --- | --- |
| `jobs_one_worker` | a clone and a Git Job on one Project, 1 worker, 2 faults, clock steps back, fairness; 527,406 states | an orphan's lock keeps the next Job out; creating Projects and leftover directories are always accounted for; the table implements `JobLifecycle`; every queued Job ends unless a process or its database fails |
| `jobs_two_workers` | a clone and a create for one key, 2 overlapping workers, 2 faults; 283,836 states | no replay; `succeeded` and `failed` are true on disk and in the row |
| `jobs_orphan` | 1 Git Job, 1 worker, 1 fault, fairness | violated: an orphan whose lease expires after the restart stays running (see Findings) |

Bounds. Two Jobs are enough for every conflict the lock and the directories
know, as each is between a pair; a lease of 1 and a clock of 3 let it expire
both before and after a restart; two faults allow a crash during the recovery of
a crash. Deadlock is not checked: the instance stops when the clock and the
fault budget are used up.

Fairness. systemd restarts a worker, an idle worker polls, and a worker's steps
are plain code: weak fairness. Every RPC has a timeout, so a call ends after
finitely many heartbeats: strong fairness of its end. Git subprocesses have a
timeout, so tasks end.

## Workspace rows and handlers

`WorkspaceSessions` has the rows and one operator per change a service method
makes to them; `Transitions` is the table of `waw.py`. `WorkspaceControl` is the
API over them. Routes are coroutines on one event loop, so a handler is atomic
from one await to the next, and each of its awaits is an RPC of the coordinator:
`req[r].pc` names it, `snap`, `digest` and `epoch` are what the handler holds
across it. `queue` is the coordinator's `asyncio.Lock`, which is first in, first
out; its head binds (`BindAndSend`, which classifies a new Runtime epoch) and
then gets an answer or an error. `bound` is the attestation, which an error
drops. A Project's binding is its first one; the chain of predecessors that a
second registration extends is not modelled. `Boot...` is the startup of the API:
bind, replay of the bindings, finalize. `ApiCrash` and `RuntimeRestart` come between any two steps.

Run `sessions` (1 agent, 2 requests, 2 digests, 2 generations, 2 epochs, 1 failed
RPC, 1 crash; 218,988 states): a PENDING stop and a STOPPING row are one fact; a
row that says running is proven for this epoch, generation and binding; an
acknowledged stop is final; stops settle and requests end while the API lives.
Two requests give every pair of handlers around one row; two generations allow
an old request to meet a restarted row, two epochs a request of the old Runtime
to meet the new, two digests a binding that drifts. `MaxGen` is the code's
"generation sequence exhausted" at a small number. Deadlock is checked.

Fairness. The control client bounds every exchange with a deadline, so the
lock's owner is answered or fails, and the service manager starts an API that is
down: weak fairness of `Rpc` and `Boot`.

`StoppingSettles` excepts a Stop whose API goes down, and has to: the intent is
durable, but no startup step resumes it, `begin_start` refuses a STOPPING row
and a second `begin_stop` violates `uq_waw_stops_generation`, so under the same
Runtime epoch the row stays STOPPING. The same happens when the database refuses a
write inside a Stop: `workspaces.py:1455` catches errors of the control client only,
and the completion runs under `suppress(Exception)`. The model assumes that
transactions do not fail short of a crash, so this case is outside it. In the same way an API that dies between
`reserve` and `enqueue` leaves a creating Project without a Job, which
`CreatingIsAccountedFor` names as a case of its own.

## Runtime lifecycle of a workspace

`WorkspaceRuntime` is one workspace inside the Runtime. `floor` and `attest` are
the two durable stores, `alive` and `groups` the kernel's cgroups, `current`,
`genFloor`, `recovered`, `quarantine` and `detached` the registry's memory,
`supervisor` and `inflight` the executor. `op` is the request that holds the
registry's lock; a step of it ends where `_lifecycle` awaits a thread or makes a
durable write. Worker threads outlive a request that its deadline cancels
(`Cancel`); `Restart` loses the memory and keeps disk and kernel. A durable write
that fails may or may not have reached the disk, and the step that made it is taken
back: the acknowledgement of a cleanup, the migration of a recovered floor, the
burning of a generation.
`WorkspaceProcesses` is the promise: processes of one workspace are launched one
generation at a time, in increasing order.

Run `runtime_lifecycle` (3 generations, 3 epochs, fairness; 66,273 states): the
promise is implemented; an EMPTY_DURABLE record is never written for a populated
cgroup and stays true; STOPPED and RUNNING are answered only when true; the lock
is always released. Three generations let one be running, one be recorded and
one be asked for; three epochs let a recovery be interrupted by a second
restart. Fairness is weak fairness of the event loop (`Registry`) and of the
worker threads, whose waits the process port bounds. Deadlock is checked.

## Attachments: authority, routes, stream and output

`AttachmentAuthority` has one action per public method, as each holds the
authority's lock throughout. `slot` is, for a workspace, its entries in
`_active`, `_staged` and `_cleanup_pending`. `pty` and `closed` stand for the
Runtime: which terminals may be open, and for which leases it proved them
closed. Opening may come after the API fenced the admission. `consume`,
`acknowledge_cleanup`, `revoke_session` and `invalidate_all` have no production
caller today and are modelled as the interface they are.

`AttachmentRoutes` is its client: one route per connection from `hello` through
the ten steps of an admission, the relay and the cleanup both end in. Whatever
an await may do (answer, fail, be cancelled, time out) is a choice. A cleanup is
attempted once, with a bound of one second; without proof the slot stays fenced
until the API restarts; the route ends all the same (`Settle`). The PTY opens
at ADMISSION_COMMIT.

`RuntimeStream` is the Runtime's side: registry records and sessions (`att`),
connection handlers (`task`, `frame`), the supervisor with its transport handle
(`sup`, `children`), the Stop and the transfer to a restarted API. A registry or
session operation holds the registry lock and is one step; the chunks a handler
writes, the fence a Stop puts on a socket and a poisoned listener interleave with
everything. A session may be closed while it is being made, or finished by a worker
after its handler gave up (`OpenClosed`, `OpenTimesOut`); the keys, the output, the
socket and the attach child may each refuse to be cleared, shut or closed.
`WriterSlot` is the promise. `TerminalOutput` follows bytes, by
cursor, from the PTY through the ring and one session after another to a reader
that resumes or redraws.

| Run | Instance | Shows |
| --- | --- | --- |
| `attachments` | 2 workspaces (symmetric), 2 sessions of one administrator, limits 3/1/2, 4 lease numbers, clock 2; 757,668 states | no sequence of calls passes a limit; a PTY that may be open keeps its slot |
| `attachment_routes` | 1 workspace, 2 connections, clock 2, fairness; 454,437 states | every admission in progress has its route; nothing is served unaudited; the routes implement `AttachmentAuthority`; admissions end and shutdown drains whatever the Runtime, the browser and the audit do |
| `runtime_stream` | 2 attachments (symmetric), 2 API processes, 3 process states; 1,198,716 states | registry, supervisor and transport implement `WriterSlot`; a released session is fenced; a transfer leaves nothing of the old API; output is published only by the current writer |
| `terminal_output` | ring of 3 bytes and 1 line, reads of up to 2 bytes, 6 cursors; 23,015 states | no byte twice or out of order; only a burst beyond the line limit can be lost without a GAP |

Bounds. Lease numbers are per ticket; four allow a ticket, an admission, a
successor and the exhausted counter. One writer for two workspaces, two records
for the administrator and three in all (a ticket without context counts only
there) put every limit within reach, and the clock passes every deadline. Two connections give the writer and its rival; two attachments
and two API processes the old and the new holder of the slot. In the ring, three
frames without a line break fill it and a read of two lines is a burst.
`WithinCapacity` and `OpenPtyHoldsSlot` are about all interleavings of calls, so
deadlock is not checked where the clock or the lease numbers run out.

Fairness of `attachment_routes`: the event loop runs its ready tasks and timers,
time passes, and a shutdown cancels the routes. Nothing is assumed of the
Runtime, the browser or the audit threads.

## Admission of conversation turns

`SubmitAdmission` has the durable journal (`records`, with `orphan` for the
temporary file a crash leaves), the journal instance, content issuer, custody and
worker tasks of each process, and the owner that the current-owner guard yields.
A journal operation runs under a file lock and is one step; a commit may end
uncertain; a process may stop between any two steps. `effects` counts how often a
body was consumed. Run `submit_admission` (2 processes, 2 requests for one turn
slot, 1 execution, 2 references; 281,225 states): a body is consumed at most
once, the record tells the truth about it, its turn holds the slot, and custody
ends once the source is closed. What the record can tell: one that is absent,
accepted or rejected has no effect behind it; one that was acknowledged has, also
after it became TERMINAL or UNKNOWN, which its fourth revision shows. A terminal
receipt is no evidence of an effect: `acknowledge_terminal` takes it for a record
that is only fenced, so a TERMINAL record of the third revision says nothing. Such
a receipt frees the slot while a worker may still wait for readiness; that worker
is stopped because it reads its record again before the effect, and the mutant of
`TurnHoldsSlot` drops that read. Two processes are what a restart beside a
lingering process gives, two requests what a slot conflict needs. Fairness: the
event loop keeps running the workers of a closed source, whose close wakes the
wait they may be in. Deadlock is not checked: references run out.

## Administrator sessions and approvals

`AdminSessions` has the password hash, the session rows and what each caller
holds between two transactions; `Approvals` adds challenges, their provisioning
attempts and the maintenance batch. Every mutation is one `BEGIN IMMEDIATE`
transaction, hence one step, but the password was verified against a hash read
before it, and its `now` is pinned by SQLAlchemy's begin event before the write
lock is had (core `database.py:113-117`): a step runs at any time `now`. Run
`approvals` (2 callers, 2 sessions, 1 challenge, symmetric, 1 active session, 1
password change, times 0 and 1; 473,597 states): no usable session rests on an
old password, no open challenge outlives its session or epoch. Two callers and
two sessions give every race of a login, an eviction and a change; with lifetimes
of 1 both times can be before and after an expiry.

Consequence of the pinned `now`, visible in the model and safe: a live session
may be refused, or a challenge cancelled as CLOCK_ROLLBACK_DETECTED, although the
clock never went back. `issue`, `consume` and the two cancellations, and
`SessionService.cleanup`, have no production caller yet; maintenance does.

## Installer

`InstallerLifecycle` is `agentbox-install` under its lifecycle lock: journal,
receipt, `current` link, releases, units, backups and database on disk, services
on the host, and `op`, the command and its step. Every step may raise before its
effect, the installer or the host may die between any two, and `recover` and
`resume` start from what is on disk. Undoing a first installation is four steps
(stop, disable, unlink, remove the database it created), each of which may fail and
leave the rest to `recover`; database files that are not those the migration left
are refused and stay. An uninstall stops the services, unlinks, then removes
the program. Run `installer` (3 releases, 3 backups,
retention of 2 and 2, 2 distinguishable writes; 1,526,642 states): what is called
installed has its units and its own database revision; a failed upgrade is undone
exactly; a committed one can be rolled back; no database is removed but one the
same transaction created. Three releases give an upgrade after an upgrade, which
is what retention needs to have something to remove. Deadlock is checked.

An observation: when the receipt was replaced and the final journal write of a
rollback fails, the installation is reported partial or broken although its
rollback was verified.

## What is proved

All theorems hold for every value of the constants under the named assumptions,
which say that constants are numbers or functions of the right kind, that limits
the code requires to be positive are positive, and that null values are not
members of the sets they extend (`RowAssumption`, `NoneAssumption` and the like).
`ReleaseLimit` of at least 2 is what `retention.py` requires. The bounds on
clocks, generations, epochs, faults and backups are constants too, so the
theorems hold for behaviours of every length.

Every safety theorem goes through the inductive invariant of its module. Each module
of proofs starts with a `USE` of the two provers and their time limits; a leaf that
only Zenon proves names it.

* `ProjectJobsProofs`. `IInv` = types, `JobsInv` and `Held`. `JobsInv` is
  inductive for the Job table with arbitrary clients (`JobsInvariance`): exclusive
  locks alone are not, one needs that queued rows were never claimed and that a
  late write can only reach a row that was. `Held` says that a worker that
  executes a Job claimed it, alone, and that before the mutating RPC the Runtime
  has not seen the Job. Every step of the composition is a step of the table
  (`ImplementsJobService`). From it: `JobsNeverReplayed`, `LocksStayDistinct`,
  `RunningStaysLeased`, `JobsClaimedOnce` and the two directory properties.
  For what the end of a Job says about its Project, `OInv` adds `Reservations` (a
  Project row in creation has one reservation and is "creating" until its Job begins), `Stages` (what a worker
  at each step of `execute_job` has established, the branch of its exception
  handler included) and `Outcomes` (what a status says about row, directory,
  staging and audits). From it: succeeded is complete, failed is undone, creating
  Projects and leftovers are accounted for, for any number of overlapping workers.
  With one worker process, `ExecutedIsRunning` is inductive as well and every step
  is one of `JobLifecycle` (`OneWorkerImplementsLifecycle`). The hypothesis is
  needed: with two, a late `_finish` leaves a terminal state (see Findings).
* `WorkspaceControlProofs`. `IInv` says what each row and its stop records may be
  under the host epoch and the binding, and that a handler whose snapshot has the
  row's revision has the row's value. From it `PendingStopsOwnRows` and
  `LiveRowsAreProven`. `StopsAreFinal` needs `QueueOK` besides: in the
  coordinator's queue a Start is ahead of every Stop of its generation, which
  holds because the lock is first come, first served.
* `WorkspaceRuntimeProofs`. `IInv` says that only the last launched generation can
  have processes, that nothing above it is recorded, that the executor's
  supervisor is that of the last launch, that a start in flight is newer than
  every launch and, without a supervisor, meets an empty kernel, and that a
  recovered floor is recorded empty. From it `EmptinessIsTrue`,
  `RuntimeAnswersAreTrue`, `EmptinessIsKept` (nothing recorded empty is ever
  recorded otherwise) and the refinement `RuntimeImplementsProcesses`. Finding the
  invariant showed where the argument rests on one check: after a failed
  attestation whose cleanup fails too, the registry is not quarantined and may
  burn a newer generation; it is the executor's start-map guard (`Startable`)
  alone that then keeps the kernel to one generation.
* `RuntimeStreamProofs`. Seen alone, the four properties of the run are not
  inductive: whether a record may leave the registry depends on what supervisor and
  transport remember. `IInv` ties them together. The registry retains one record
  (`Sole`); pending, writer and handle slots and the attach child belong to that
  record, and its cleanup is not confirmed (`Lease`); per attachment, `Entry` relates
  record, session, handler and frame: a session that is not closing holds the pending
  slot and, once committed, the writer slot, nothing is proven closed about an
  attachment that was never opened, and a record that left was fenced and cleaned up
  first. `Owned` says that a bound API process prepared whatever is retained, `Quiet`
  that after the fence of a Stop every open session is closing. The proof has one
  lemma for a close (`CloseStep`), whichever operation calls it and whatever
  supervisor it starts from, one for a session that is made (`SessionOpens`), and one
  for the steps that leave every record in its place (`SoftStep`). From `IInv`: `ReleasedStaysFenced`, `TransferStaysClean`, the
  action property `OutputStaysCurrent`, and the refinement `StreamRefinesSlot`, whose
  step cases are that no record is added or leaves, that one is added to an empty
  registry, or that one session leaves it.
* `AttachmentAuthorityProofs`. `IInv` joins the type, `SlotsConsistent`,
  `OpenPtyHoldsSlot`, `ShutdownIsFinal` and the fact that a lease proved closed
  has no open PTY, which is what makes a release safe. `CapacityIsKept` is an
  argument about cardinalities: the three sets `_admin_count` adds up are disjoint,
  a busy workspace is charged to one context, and reserve and consume turn a
  ticket into a writer of the same context. `LeasesAreBounded` is the action
  property of the absolute lease bound.
* `SubmitAdmissionProofs`. The claim, the custody and the worker of a request are
  one process's (`ClaimInv`), and record phase, worker and entry each bound the
  number of consumptions (`EffectInv`). From it `ConsumedOnce`, `TruthfulRecords`,
  `ExclusiveTurns` and `FinishedIsFinal`: no body is consumed once its record is
  terminal or rejected.
* `ApprovalsProofs`. The two properties are nearly inductive; the invariant adds
  what the transactions rely on without checking it: a caller past authentication
  holds a session, a caller past verification read a hash, and no row outlives a
  row that names it. Also proved: one open authorization per credential, foreign
  keys, and the action property `ActivityAdvances`.
* `InstallerProofs`. `IInv` says that a link implies units, that a closed journal
  implies a receipt whose release is the database's revision, and, per step of each
  command, what it has established; its core is that the backup of an upgrade is
  the database as the stopped services left it. From it the four properties of the
  run. The proof attempt found two operators of the model whose CASE guards
  overlapped, which leaves the value open; they are now IF chains in the order of
  the code.

Only model-checked:

* liveness (`QueuedJobsEnd`, `StoppingSettles`, `RequestsEnd`, `LockIsReleased`,
  `AdmissionsEnd`, `RoutesDrain`, `BodiesAreReleased`): outside the prover's reach;
* `TerminalOutput`: its operators fold over sequences, and facts about folds need
  induction over data, which the installed provers cannot do;
* `AttachmentRoutes`, its refinement included: an inductive invariant for it has to
  say, for each step of a route, what slot, audit and Runtime attachment may be, and
  is not worked out; the authority the routes drive is proved on its own, and so is
  the Runtime's side of an attachment.

## Findings

`jobs_orphan` is violated: `recover_expired` runs once, when the worker starts,
and a worker restarted before the lease of its crashed Job expires never looks
again (`apps/worker/.../main.py:333`); `docs/ARCHITECTURE.md:348-350` says that "a
crashed or expired running mutation becomes `needs_attention`".

Some modules also define a property that a document or comment states and that
TLC refutes on a small instance. They are kept beside the passing ones, because
each explains why its neighbour is stated as it is:

| Property | Module | What happens |
| --- | --- | --- |
| `TerminalIsFinal` | `ProjectJobs` | with two workers, `_finish` of a slow one overwrites the `needs_attention` of a recovery (`jobs.py:220`) |
| `MutationsSerialized` | `ProjectJobs` | the lock ends with the worker's RPC timeout while the Runtime goes on, so two Git operations of a Project overlap |
| `FirstUseConverges` | `WorkspaceControl` | a first Start after a dropped attestation answers RUNTIME_INSTALLATION_UNTRUSTED until the API restarts, however often it is repeated (`workspaces.py:589`) |
| `StopTimeoutIsRetryable` | `WorkspaceControl` | the second Stop violates a unique constraint and is not sent (`waw_sessions.py:563`) |
| `RecoveryIsOffered` | `WorkspaceRuntime` | a Runtime that dies between burning a generation and attesting it leaves a floor that recovery does not look at (`waw_lifecycle.py:1965`) |
| `PositiveCleanupReleases` | `RuntimeStream` | when an open or resize of a committed attachment fails, the supervisor releases its reservation first and the registry's record stays UNCERTAIN (`waw_supervisor.py:559`) |
| `GapIsExact` | `TerminalOutput` | a burst read by the second replay of one `output()` is lost without a GAP |
| `PinnedIsProtected` | `InstallerLifecycle` | retention runs before the receipt is written, so an upgrade undone after it keeps a receipt whose backup may be gone (`lifecycle.py:1693`) |

## Not modelled, and why

Wire codecs, the native launcher, the Git, tmux, Claude and Codex adapters, the
privileged helper and rendering in the web client have no protocol state or are
pure I/O. Cryptography of the encrypted stream is beyond a model checker. The
relay's two frame pumps carry data; input is one write whose outcome may be
uncertain. SQLite's transactions are assumed to be serializable with write locks
as documented and not to fail. Project changes under live workspaces, bindings past revision 1,
providers, rate limits, labels and favourites are single-row edits in one
transaction. The Job event stream reads and changes nothing. The list of
components in `PROJECT.json` names every part with its status.

## Running

`tlc -config X.cfg M` for a run, with module and configuration as `PROJECT.json`
names them; `tlapm M.tla` for a module of proofs.
