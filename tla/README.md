# Save Sync: verification project

Save Sync keeps one authoritative copy of a game world and lets several hosts
take turns at running it: a host takes a lock, downloads the current version,
plays, and publishes the next version. This directory holds TLA+ models of that
service, the TLC configurations that check them and the TLAPS proofs about
them. Line numbers refer to the files under `src/`.

## The system

| Component | Source | State | Operations |
|---|---|---|---|
| Publication and restore | `save_sync/publications.py` | `versions`, `current_save`, `active_lock`, `pending_backups`; ZIPs in `backups/` | publish, restore |
| History | `save_sync/app.py:914-1082` | the same tables and files | download, history download, delete |
| Retention | `save_sync/retention.py`, `app.py:192-220` | `versions`, `pending_backups`, `users.slot`, ZIPs | prune metadata, reconcile files |
| Backup supervisor | `save_sync/backup_supervisor.py` | `pending_backups`, its child process, heartbeat file, singleton flock | pick, mark, run hook, finalize, reconcile, stop |
| Session lock | `save_sync/sessions.py` | `active_lock` with expiry, token, computer | acquire, heartbeat, unlock, expiry |
| Managed access | `save_sync/managed.py`, `admin.py` | `users`, `authorized_hosts`, `api_tokens` | create and change users, computers and tokens; force-unlock |
| Authentication, rate limit | `app.py:406-531` | `api_tokens.last_used_at`, `rate_limits` | every request |
| Backup status, health | `app.py:568-652`, `backup_supervisor.py:440-450` | derived from `audit`, `pending_backups`, clocks | status |
| Schema and bootstrap | `save_sync/database.py` | `PRAGMA user_version`, columns, triggers | migrate, bootstrap users and tokens |
| Clients | `client/adapters/{palworld,valheim}/Adapter.ps1` | local world, `state.json`, pending session, heartbeat job, game server | one session from status to publication |
| Deployment | `config/*.sh`, `config/render_route.py` | the Traefik route file | publish, verify, roll back |

Several processes share one SQLite database (WAL, `busy_timeout` 30 s) and one
directory of ZIPs: gunicorn runs 2 workers of 4 threads each, and the backup
supervisor is a process of its own. Nothing but SQLite's write lock
(`BEGIN IMMEDIATE`) orders them, and the ZIPs are outside every transaction.
Clients reach the workers over HTTP: an answer can be lost and a request
repeated.

What is hard about it: files change at once and rows at a COMMIT, so every
order of a move, a COMMIT, a ROLLBACK, an unlink and a crash must leave no row
without its ZIP; a restore works between two transactions; cleanups run from
every worker and from the supervisor while others publish; backups lag behind
publications and protect what retention wants to drop; locks expire while
requests are under way. `PROJECT.json` lists these hazards at their lines with
the properties that cover them.

What makes each component correct:

- publication and restore: no version is lost or overwritten, a number denotes
  one save for ever, versions of different worlds never mix;
- files: a row always has its ZIP, and a download never answers with another;
- retention: the N newest of every slot, the head and every pending version
  stay; nothing else does;
- supervisor: every pending version is resolved, at least once, and its ZIP is
  there while the hook runs;
- session lock: one holder at a time; a lease lasts as long as it was promised
  or is given back;
- managed access: an active administrator always remains; a disabled computer
  or a revoked token can change nothing any more;
- clients: local progress is never destroyed, and never published over a
  version its host had not seen;
- bootstrap: any interleaving of starts ends in the current schema.

## Modules

| Module | Models | Extends, instantiates |
|---|---|---|
| `SaveLedger` | the abstract promise: an append-only ledger of versions with one lease | |
| `Retention` | the retention rule, declaratively | |
| `RetentionTheorems` | what the rule keeps and drops | `Retention` |
| `RetentionTable` | the pruning loop of `retention.py:17-31`, a row a step, inside its transaction | `Retention` |
| `RetentionProof` | the theorems about `RetentionTable` | `RetentionTable`, `RetentionTheorems` |
| `SaveStore` | tables, files, request handlers, supervisor, failures and crashes | `Retention`, instantiates `SaveLedger` |
| `SaveStoreProof` | the theorems about `SaveStore` | `SaveStore`, `RetentionTheorems`, instantiates `Lease` |
| `Lease` | the abstract lock: one term for each session, at most one version | |
| `Sessions` | the session lock with its clock, credentials and computers | |
| `SessionsProof` | the theorems about `Sessions` | `Sessions`, instantiates `Lease` |
| `ManagedAccess` | users, computers and tokens, their administrators and the workers that seed them | |
| `ManagedAccessProof` | the theorems about `ManagedAccess` | `ManagedAccess` |
| `Bootstrap` | the start of the web workers: schema script, migration, checks, flock | |
| `BackupSupervisor` | the queue of backups, its supervisors and their hooks, the backup status | `Bootstrap` |
| `Service` | the composition of the two, and its properties | `BackupSupervisor` |
| `ServiceProof` | the theorems about `Service` | `Service` |
| `GameClient` | the Palworld and Valheim clients on several hosts | instantiates `SaveLedger` |
| `GameClientProof` | the theorems about `GameClient` | `GameClient` |
| `HostLease` | one host's lease in time: heartbeat job, state file, client, game server | |
| `HostLeaseProof` | the theorems about `HostLease` | `HostLease` |
| `MC...` | constants for TLC | |

### SaveStore

State: `row` and `live` are the table `versions` (what was inserted under each
number, and which numbers still have their row), `current` is `current_save`,
`lock` is `active_lock`, `pending` is `pending_backups`, `files` is
`backups/save-vNNNNNN.zip`. `opened` is a history variable: the base version
`POST /lock` answered each session. `writer` is the handler inside a
`BEGIN IMMEDIATE` that has moved a file; `req` and `sup` are the program
counters and local variables of the handlers and of the supervisor.

Granularity: a transaction that touches no file is one step, because SQLite
makes it atomic and durable. A transaction that moves a ZIP is two, the move
and the COMMIT (`Publish`/`PublishCommit`, `Restore`/`RestoreCommit`), with a
ROLLBACK (`Abort`), the unlink that follows it (`Compensate`) and a crash
(`WorkerCrash`) as the other outcomes. Everything a handler does outside
transactions (copying a restore's source, unlinking a deleted version's file,
opening a download, the two phases of a cleanup) is a step of its own. A
request that is refused changes only the audit log, which is not modelled, so
it is no step; the exception is `RestoreRefused`, which ends a handler that has
begun.

An element of `Saves` stands for an upload: the ZIP and the save identity sent
with it. Streaming, the SHA-256 comparison and `validate_zip` come before any
step: an upload that fails them touches nothing that is modelled. The
expiry of a lock, `POST /unlock` and a forced unlock are one action,
`ReleaseLock`, possible at any time between transactions, so every behaviour of
the clock is included.

`SaveStore` prunes in one step, by the retention rule (`Retained`), with each
version's slot fixed. `RetentionTable` justifies this: there the loop deletes
row by row.

### RetentionTable

State: `rows`, `updatedBy` and `pending` are `versions` and `pending_backups`,
`slot` is `users.slot`, `head` is `current_save`. A cleanup is a transaction
(`txn` holds the rows it found, for a ROLLBACK): `Cleanup` selects the rows
newest first (`todo`), each `Visit` counts a row for its slot
(`keptPerSlot`) or deletes it, `Commit` and `Rollback` end it, the latter at
any row. Inserts, deletions by an administrator and users who are moved
between slots come between two transactions, since all of them write; a backup
that is resolved removes its marker and prunes in the same transaction
(`Finalize`).

### Sessions

State: `clock`; `lock`, the row `active_lock` (session, credential, computer,
expiry); `revoked`, `hosts` and `users`, the tokens with a `revoked_at` and the
computers and users with `active=1`; `req`, where each request is and the clock
it read. Histories: `told`, the latest `expiresAt` a session was answered;
`closed` and `published`, how it ended; `barred`, since when the credential of
the lock has no access.

A request takes three steps, because the code does: `Authenticate` in a
transaction of its own, `ReadClock`, and after the wait for `BEGIN IMMEDIATE`
the action itself, in which the row's expiry is compared with the clock of that
moment but the new expiry is computed from the old one. Between them anything
may happen: another request, an expiry, a revocation, a disabled computer. A
request that is refused, or dies, is `Fail`; if its transaction found an expired
row it deleted it, which is `ClearExpired`. `Tick` respects the busy timeout: a
request waits `MaxWait` at most between reading the clock and its transaction
(`database.py:58-61`). `publish` does not read the clock before its
transaction, and its upload may take any time. `/presence` changes nothing and
is left out; `/status` may only clear an expired row.

`SaveStore` sees of all this that a lock is taken when there is none and is
lost at some time: its `AcquireLock` and `ReleaseLock` are the steps of
`Sessions` that change the holder. `Sessions` leaves out the base version,
which `SaveStore` has. What the two must agree on is `Lease`: a session has one
term, and publishes at most once, at its end. Both are proved to implement it.

### ManagedAccess

State: `role` and `active` are the table `users`, `owner` and `enabled` are
`authorized_hosts`, `holder`, `bound` and `revoked` are `api_tokens`; `req` says
which requests were authenticated as an administrator's.

An administrator's request is two steps, as in the code: `AuthenticateAdmin` in
a transaction of its own, then the handler's transaction (`CreateUser`,
`UpdateUser`, `CreateComputer`, `UpdateComputer`, `CreateToken`, `RevokeToken`)
or nothing (`Refused`). The handler does not look at its administrator again, so
one who was demoted after he was admitted still acts once; the model has that
behaviour, and no document excludes it. A worker that starts seeds users and bootstrap
tokens one INSERT at a time (`SeedUser`, `SeedToken`), at any moment and with any
configuration, because another worker may be serving and a restart may bring a
new configuration. Names, labels and slots, which an administrator may also
change, are left out. `AccessAssumption` asks that the first configuration
names an administrator; the code does not check this, and without one nobody
could administer the game.

`Sessions` has what a revoked token, a disabled computer or a disabled user
mean to a lock; its `RevokeToken`, `DisableHost`, `EnableHost` and `SetUserActive` are the actions
`RevokeToken`, `UpdateComputer` and `UpdateUser` of this module.

### Bootstrap, BackupSupervisor, Service

`Bootstrap`: `version` is `PRAGMA user_version`; `tables`, `columns` and
`triggers` are what the schema has, columns only where some schema lacks them;
`rows` says whether the stored save identities are valid; `migrator` holds
`<database>.migration.lock`; `worker` is each worker's program counter and the
version it read. A start finds a new database, one of Palworld Sync v1, an
unversioned one, schema 3, 4 or 5, or a newer one (`BootInit`). The schema
script commits table by table (`CreateTable`); the migration is one step,
because it is one transaction; every `RuntimeError` is an action
(`RefuseNewer`, `RefuseVersion1`, `RefuseIdentity`), and `WorkerKilled` may come
anywhere. A worker that ended is started again.

`BackupSupervisor`: `queue` is the table `pending_backups` in the order of
`next_job`, so the clock is modelled by what it does to the order: a publication
goes to the end, and an attempt puts its row behind those that were queued when
`mark_attempt_started` read the clock, which is before it waited for the write
lock (`Requeued`). `outcome` is the last audit event of each version,
`singleton` the flock, `sup` each supervisor's program counter and local
variables, `hook` its child process, `orphans` the hooks of a supervisor whose
heartbeat file could not be touched: `run_once` gives the job up and the process
goes on. Histories: `armed`, `succeeded`, `failed`. Each transaction of the
supervisor has a failing twin (`MarkFails`, `FinalizeFails`). `BackupState` is
the state `GET /backup-status` answers, for any set of jobs that have waited too
long.

`SaveStore` has the files a hook reads and the reconciliation; this module has
the order, the flock and the outcomes. `Service` puts workers and supervisors on
one database and states the properties.

### HostLease

Time is a counter, and what the code does after a delay is done by then: `Tick`
does not pass the end of a sleep, of a request's timeout, of the wait between
two looks at the heartbeat (`Poll`), or of a shutdown. State: `expiry` is
`active_lock.expires_at`; `job`, `since`, `failures` and `known` are the
heartbeat job and what it writes to its state file; `client`, `checked` and
`game` are the main script, when it last looked, and its game server.

A heartbeat is served at any moment between its begin and its timeout, with any
clock it may have read meanwhile (`Serve`); or it fails (`RequestFails`), and
then it may still be served, as may others that were given up before it
(`ServeStray`; `stray` counts them), which can set the expiry back. The
client's clock is `behind` the service's by up to `Skew`; a clock that is ahead
only ends a session early. While the job rewrites its file in place
(`WriteAllText`) a look may find it torn, and Valheim's client takes that for a
lost lease (`MayReadFatal`). That ends a healthy session, safely;
`HealthyLeaseLasts` speaks of every other moment. The two adapters differ in `RequestTimeout`,
`RequestFails`, `LeaseLost`, `HeartbeatFits` and `StartServer`. A game server that does not
end within its shutdown timeout, a signal that cannot be delivered and a client
window that is closed while it runs are left out: the code leaves the server
running then, and says so (`valheim/Adapter.ps1:869`, `875`).

### GameClient

The hosts' clients are checked against what the service promises, not against
how it keeps the promise: the service's steps are those of `SaveLedger`, which
`SaveStore` is shown to implement. `game` is the deployment's game; the two
adapters differ in four places, which are actions of their own: what a pending
session is compared with, when the pending file is written, when the lock may
be given back, and whether a server that ended by itself is published.

State of a host: `pc`, where its client is; `session`, the client's latest
lock; `world`, `pending` and `state`, the local world, `pending-session.json`
and `state.json`; `server`, whether its game server runs, which may outlive the
client. A world is the set of the sessions that changed it, which is what
losing or overwriting progress is about. `sent` holds the uploads: the service
may commit one when its client has long given up. Histories: `protected`, the
sessions that a server saved while a pending file was there; `misled`, the
hosts that took another version than their own for theirs, and `blind`, the
sessions played there.

A client's requests, its files and its server are steps of their own, in the
order of the script, and at each of them the client may fail or be killed
(`Ends`). A refused lock, a lost heartbeat, a failed download, a world of the
wrong identity and a server that does not answer all lead there. The local
backups and `pending-uploads` are written and never read by a client; a user
may need them, and they are left out. So is a user who edits the client's files.

## Runs

Bounds are the constants `MaxVersion`, `MaxFaults` (failed transactions) and
`MaxCrashes`. Sessions, versions, faults and clocks are bounded,
so these systems may stop and deadlock is not checked, except in
`RetentionTable`, which never stops.

| Run | Instance | What it shows |
|---|---|---|
| `retention` | 2 users, 2 slots, 4 versions, 2 kept per slot | after every row the loop has kept exactly what the rule says of those it has seen; a row goes only when 2 newer rows of its slot stay; the head stays; whether the transaction commits or rolls back |
| `store` | 2 handlers, 2 sessions, 3 versions, 3 different uploads (two of one world, one of another), 1 crash, 1 kept per slot | one save identity, rows and files agree, the hook finds its ZIP, no lost update, no stale commit, downloads are faithful, numbers are for ever, a cleanup removes only what is surplus in its slot, the ledger is implemented |
| `store_faults` | 2 handlers, 1 session, 2 versions, 2 failed transactions, 1 crash, fairness | only an except clause's unlink loses a ZIP; every backup is resolved, every request ends |
| `store_race` | 2 handlers, 1 failed transaction | **violation**: a committed row loses its ZIP |
| `sessions` | managed game, 2 requests, 2 sessions, 2 computers of a user, TTL 2, wait 1, clock to 4 | a session has the lock as long as it was told, less the wait; without access it is not extended, ends within a TTL and does not publish |
| `sessions_revoked` | unmanaged game, 2 tokens | **violation**: a token revoked during its upload still publishes |
| `access` | 2 administrators, a third name, 2 computers, 2 tokens, 2 requests | an administrator remains, a token's computer is its user's, no start of a worker undoes an administrator's decision |
| `client` | 2 hosts, 3 sessions, 3 versions, both games | pending progress stays; a version contains what it follows unless a host was misled; a modified session keeps its lock; `ClientInv`, from which this is proved, holds |
| `client_pending` | the same, Palworld | **violation**: a pending session overwrites a version published before its lock |
| `service` | 2 workers, 2 supervisors, 2 versions, 1 fault (kill, stop or failed heartbeat file), any initial database, fairness | a half-made schema is never declared, refused or newer databases are left alone, no backup is lost or decided twice, hooks run one at a time, the status is true; every worker serves and every queued version is attempted |
| `lease` | Valheim: TTL 16, heartbeat 2 or 4, reserve 5 (slack 2), wait 5, skew, poll and signal 1, clock to 31 | the game outlives the lease by less than the delays the reserve does not name, less its slack; a healthy session is not ended |
| `lease_palworld` | Palworld, in units of 30 s: TTL 10, heartbeat 2, request 3, grace and shutdown 4 | **violation**: the game still runs when the lease has expired |

Two different uploads of one world are what a file at the wrong path, or a
reused number, can be told by. Three versions are the smallest number at which retention of one per slot drops
a version while another's backup is pending and a third is being published; two
handlers and the supervisor give every pairwise race, and a crash at any step
leaves every mixture of rows and files to those that start again. Handlers and
sessions (in `client` hosts and sessions, in `access` requests, computers,
tokens and the two administrators) are interchangeable in the runs that declare
symmetry; the runs with a liveness property declare none.

A clock that runs for two TTLs lets a lease be taken, extended, expire and be
taken again; two requests let one heartbeat overtake another, and two sessions
let one succeed the other. With a wait of 1 the expiry can go back.

Two admitted requests of two administrators are what it takes to demote both;
the third name is one that no worker has seeded yet.

Three sessions let a host leave a pending world, another publish, and the
first come back; three versions let a restore or another host's version come
in between.

One fault is enough to kill a worker between its script and its migration, or a
supervisor in the middle of a job, with a second one there to go on; two
versions are what it takes for a job to be overtaken. Faults that the code
handles without a limit, failed transactions of the supervisor, are not bounded.
The clock of `lease` runs for 1.5 TTLs: heartbeats fail three times or wait,
several that were given up are served late and set the row back, and the
shutdown begins at the last moment. The wait for the write lock and the reserve's slack are
5 and 2, as 30 s and 12 s are in the code. `OverrunIsBounded` is tight there: with
a bound one unit smaller TLC finds it violated.

Fairness (`FairSpec` of `SaveStore`) is weak fairness of each handler's progress once it has
started and of the supervisor: threads are scheduled, SQLite's busy timeout
waits for a write lock that every holder gives back, and the hook has a
deadline (`backup_supervisor.py:307-325`). Clients, expiry, failures and
crashes are not fair. The busy timeout itself (30 s, then an error) is not
modelled: a handler waits as long as it has to. In `Service`, workers and
supervisors are restarted by gunicorn and the container and go on (weak
fairness of `BootProgress` and `SupProgress`), and the claim of a job does not
fail for ever (strong fairness of `Mark`, `backup_supervisor.py:420-431`).
Finalizing may fail for ever: `NoStarvation` says that the other jobs are
attempted all the same. Publications, kills, stops and hooks are not fair.

### The race found

`publish` and `restore` undo the move of their ZIP in an `except` clause
(`publications.py:455-457`, `651-653`). The exception leaves the transaction's
context manager first, which rolls back and closes the connection
(`app.py:157-161`). From then on another handler may publish: it gets the same
version number, hence the same path, replaces the file there and commits. The
unlink then deletes the ZIP of a committed version. `store_race` reaches this;
`store_faults` and the theorem `CompensationIsTheOnlyThreat` show that it is
the only way; `store` and `FilesAreThere` show that the store is safe without
failed transactions.
`docs/RELEASE-NOTES-v2.2.1.md:18` excludes this outcome.

### Leases can shrink, tokens can outlive revocation

Two overlapping heartbeats of one session may commit in the order opposite to
that in which they read the clock; the row then expires earlier than the client
was told. `PromiseKept` states what remains true: by `MaxWait`, the 30 s of the
busy timeout, at most. The clients' reserves (a heartbeat every 60 s against a
TTL of 300 s) are larger.

In a game without managed computers the token is not looked at again in the
transaction that publishes (`publications.py:157-158`): `sessions_revoked`
shows a publication with a token that was revoked meanwhile, which
`docs/ARCHITECTURE.md:30-32` excludes. In a managed game `ActsOnlyWithAccess`
holds.

### Clients that take another version for theirs

`client_pending`: the Palworld client compares its pending session with a status
it read before it had the lock (`palworld/Adapter.ps1:1158-1166`), and never
with the lock's `baseVersion`. A version published in between is overwritten by
the pending world. The Valheim client checks again
(`valheim/Adapter.ps1:667-678`).

Both clients read the status twice after a lost answer and record the version
of the second (`palworld/Adapter.ps1:1321-1325`, `valheim/Adapter.ps1:1036-1038`).
If another host published in between, `state.json` names a version the local
world is not, and the next session starts from it without a download.
`OnlyMisledOverwrite` shows that these two are the only ways to overwrite.

A Palworld server that runs but does not answer is not yet a session: the
client gives the lock back (`1360-1363`) although the world may be modified and
the server, if it could not be stopped, still runs. `ModifiedIsNotReleased`
exempts exactly this case. What remains true of it is part of `ClientInv`
(`ServerOk`): such a server keeps its host out of the next session, because the
status check refuses to begin beside it (`1152-1155`). And `protected` does not count what such a server saved: it stays in
the world until the next download, and then in the local backups only.

### A Palworld host outlives its lease

`lease_palworld`: the Palworld client learns that its lease is gone from the
third heartbeat in a row that fails (`palworld/Adapter.ps1:851-859`), never from
the clock. With the defaults this takes at least 180 s, and saving and stopping
the server up to 130 s more; the lease is 300 s from the last heartbeat that was
served. `docs/AGENT-HANDOFF.md:30` excludes a game that runs when another host
may have the lock. The Valheim client measures what is left of the lease against
the time it needs to stop (`valheim/Adapter.ps1:630-635`, `707`). This reserve
has a slack of 12 s with the defaults beyond the shutdown itself, for what it
does not name: the interval between two looks, the delivery of CTRL+C, a clock
that runs behind the service's, and the wait of a heartbeat for the write lock.
`LeaseOutlivesGame` gives what follows without assuming that the slack is enough:
the game outlives the lease by less than these delays less the slack. The wait
alone may be 30 s. It counts when a heartbeat that was given up is served after a
later one, with the clock it read up to 30 s earlier: the row is set back and the client does
not learn of it. A shutdown that takes all its time then ends up to 18 s, plus the
other delays, after the row has expired, which the comment at
`valheim/Adapter.ps1:631-632` does not expect.

### Hooks that are lost sight of

If `touch_heartbeat` raises while a hook runs (a full disk), the supervisor takes
the next job, or the same again, while the hook still runs:
`OneHookAtATime` speaks of the hooks a supervisor waits for. The job stays
queued, so nothing is lost (`QueuedOrDecided`), and a hook must tolerate
repetition anyway (`docs/ARCHITECTURE.md:93-95`).

## Proofs

`SaveStoreProof` proves, for every value of the constants (any number of
handlers, sessions, saves, versions, failures and crashes) and from
`StoreAssumption` alone, which asks for distinct model values, a retention of
at least 1 (`app.py:105-106`, `backup_supervisor.py:73`) and natural numbers as
bounds:

- `StoreInvariant`: `Spec => []StoreInv`. None of the properties is inductive.
  `StoreInv` adds to the types: the numbers given out are exactly those up to
  the head (`HeadInv`); the write lock is held exactly while a ZIP is in place
  and uncommitted, and what its holder read stays true (`WriterInv`); the head
  does not move under a lock (`LockInv`); what a handler remembers of a version
  stays true of that number (`HandlerInv`); the supervisor's job keeps its
  marker (`SupInv`); one identity (`IdentityInv`); the path of a number holds
  that version or nothing (`PathInv`). Each part is preserved by a lemma of its
  own, over the kinds of step (`StepKinds`) rather than the 25 actions.
- From it, `TypeCorrect`, `HeadIsNewest`, `NoLostUpdate`, `NoStaleCommit`,
  `DownloadIsFaithful`, `OneIdentityOnly`, and the action properties
  `NumbersAreForever` and `ProtectedStay`. The latter says of every row that
  goes that it is neither the head nor pending, and that either an
  administrator deleted it or `RetentionPerSlot` newer rows of its slot stay;
  this part is `RuleKeepsNewest` (below).
- `CompensationIsTheOnlyThreat`: whatever fails, only the unlink of an except
  clause (`Compensate`) takes away a ZIP that a row or an open transaction counts on. With `MaxFaults = 0` this
  gives `FilesAreThere` and `BackupHasItsVersion`.
- `StoreImplementsLedger`: the refinement of `SaveLedger`. A COMMIT is the
  ledger's `Publish` or `Restore`; taking and losing the lock are `Open` and
  `Close`; every other step stutters.
- `StoreImplementsLease`: the refinement of `Lease`, with the sessions that
  have a row as those that published.

`RetentionTheorems` and `RetentionProof` prove that the loop computes the rule,
from `TableAssumption` (there is a user, NULL is no slot, the configuration gives
every user one, and at least one row is kept per slot):

- `RuleKeepsNewest`, of the rule alone: a row it drops gives way to
  `RetentionPerSlot` newer rows of its slot that it keeps. Its proof takes the
  newest row that does not, a least element of `m - v`.
- `TableInvariant`: `TableInv` says what the open transaction has done to the
  rows it found (`UndoInv`), that those still to be visited are older than all
  others and that the counters count the kept rows of each slot (`LoopInv`).
  What a recursive definition of the loop would need induction over the rows
  for becomes an induction over steps: `VisitStep`, the step of one row, with
  one lemma for each part of `TableInv`.
- From it `LoopComputesRule`, `NewestOfSlotStay`, `CurrentRowStays`, and the
  action property `CommitsTheRule`: a COMMIT leaves exactly `Retained` of the
  rows the transaction found, which is what `Prune` of `SaveStore` does at once.

`SessionsProof` proves, from `SessionsAssumption` (distinct model values, a TTL
of at least 1, natural bounds) and for every value of the constants:

- `SessionsInvariant`: `SessionsInv` adds to the promises that a waiting request
  read the clock at most `MaxWait` ago (`RequestInv`), that the row's expiry is
  within `MaxWait` of the latest one its session was told and no session was
  told more than a TTL (`TermInv`), and that a managed lock was taken with a
  token of its computer (`AccessInv`). It is preserved by one lemma for each
  kind of action; `NobodyLosesByExpiry` is the heart of it: who finds no row, or
  an expired one, finds nobody within what it was told.
- From it `SessionsTyped`, `LeaseIsKept`, mutual exclusion as the hosts see it
  (`NoTwoHosts`), `NoAccessNoExtension` and the action property
  `AccessIsRevalidated`.
- `SessionsImplementLease`: the refinement of `Lease`. `Begun`, the sessions
  that were ever told an expiry, stands for those that had a term, and a second
  invariant (`EndedInv`) says that a session that ended never has the lock
  again. An `Acquire` that finds an expired row ends one term and begins the
  next in one step; a heartbeat changes no term.

`ManagedAccessProof` proves, from `AccessAssumption`, `AccessInvariant`
(`ManagedAccessInv`, which is inductive: it adds to the types that who is active
has a row and that only tokens with a row are bound or revoked),
`LastAdministratorStays` and the action property `StartsOverwriteNothing`.

`ServiceProof` proves, from `WorkersAssumption` and `SupervisorsAssumption`
(distinct model values, natural bounds):

- `ServiceInvariant`: `ServiceInv` says who holds the flock (`FlockInv`), what a
  worker knows of the schema at each of its steps (`WorkerInv`), that schema 5
  is complete (`DatabaseInv`), that only the holder of the singleton works and
  has a hook (`SingletonInv`), that the job at hand is queued until its outcome
  is recorded and that what is known of the attempt happened (`JobInv`).
  `Bootstrap` and the queue are proved apart (`BootInv`, `QueueInv`): neither
  needs the other but for the version, which the supervisor only reads and a
  start never lowers. Lemmas on sequences say what removing, inserting and
  appending do to a queue without repetitions.
- From it `SchemaIsComplete`, `WorkersServeSchema5`, `HooksRunOneAtATime`,
  `SupervisorWaitsForSchema`, `NoBackupIsLost`, `OutcomesAreReal`,
  `StatusTellsTheTruth` and the action property `NothingIsDowngraded`.

`HostLeaseProof` proves, for the Valheim client and from `LeaseAssumption`
(natural numbers):

- `LeaseInvariant`: the row's expiry is at most `MaxWait` below the newest one
  the client knows (`KnownInv`), and what the client saw at its last look covers
  the reserve (`LookInv`).
- `LeaseOutlivesGame`, for every setting of the times: `OverrunIsBounded`, that
  is, while the game runs, `now + Slack < expiry + Delays`, where `Slack` is
  `Grace + Margin` and `Delays` is `Poll + Signal + MaxWait + Skew`. Where the
  slack covers the delays, the game has ended when the lease expires.
- `HealthySessionGoesOn`, from an invariant of its own (`HealthyInv`): the check
  of the configuration (`valheim/Adapter.ps1:694`) leaves room for a heartbeat
  and its answer before the lease is down to the reserve.

`GameClientProof` proves, from `ClientAssumption` and for any number of hosts,
sessions and versions of either game:

- `ClientInvariant`: `ClientInv` says what the ledger and the uploads have to do
  with each other (`LedgerInv`); for each host, whose session it plays
  (`SessionOk`), when its server may run (`ServerOk`), that its files name what
  is there (`FilesOk`) and its upload is what it has (`UploadOk`), and that,
  unless it was misled, its world contains the version its files name
  (`CopyOk`); that what a session sent contains its base (`SentInv`); that
  nobody has the progress of a session whose server did not start
  (`UnplayedInv`); and where protected progress is (`ProgressInv`). A host's
  step is proved once to leave the other hosts alone (`HostStepFrame`,
  `OtherHosts`), then one lemma for each kind of step of its own; the service's
  commit of a late upload (`AppendStep`) is the hard case, since it moves the
  head under every host at once.
- From it `ProgressIsKept`, `OnlyMisledHostsOverwrite`, `LocalCopiesAreCurrent`,
  and the action property `OnlyUnplayedIsReleased`.
- `ClientsUseTheLedger`: the clients' behaviours are behaviours of `SaveLedger`.
  With `StoreImplementsLedger`, the clients rely on nothing of the service that
  the store is not proved to provide.

Only model-checked: the liveness properties `EveryBackupIsResolved`,
`EveryRequestEnds`, `EveryWorkerServes` and `NoStarvation`, because fairness and
ENABLED are beyond the prover; and what the four violation runs show, which are behaviours,
not theorems. Every safety property of the passing runs is a theorem. Where it
differs from what a run checks: `FilesAreThere` and `BackupHasItsVersion` need
`MaxFaults = 0`, and the theorems of `HostLeaseProof` are about Valheim.

## Not modelled

The audit log, HTTP, HTML panels, string formats, ZIP inspection, game
configuration parsing and release scripts keep no state that other steps depend
on. SQLite is modelled from what its callers rely on: `BEGIN IMMEDIATE`
excludes other writers, COMMIT is atomic and durable, a killed process's
transaction never happened.

Left out as well: the health check (the age of a file); a hook that survives
SIGKILL in an uninterruptible wait; clocks that jump, which would reorder the
queue; users' `display_name` and `slot`, which the migration fills; the tables
that the schema script adds to a v1 database before it is refused change
nothing in it. The rate limit's three statements (`app.py:514`) let parallel
requests count each other, which no document excludes. The publication of the
Traefik route is a shell script run by one operator.

## Plan

What is left, in this order:

1. Theorem: the queue of `Service` implements the marker of `SaveStore`.
2. `Deploy`: publication of the route, its verification and its restoration on
   error.
3. `RateLimit`: the three statements that count a request.
