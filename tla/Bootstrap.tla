------------------------------ MODULE Bootstrap ------------------------------
(***************************************************************************)
(* The start of the web workers on one SQLite database: the schema script, *)
(* the migration to schema 5 and the checks that let a worker serve        *)
(* (save_sync/database.py).                                                *)
(*                                                                         *)
(* Several workers start at once (gunicorn runs two) and any of them may   *)
(* be killed anywhere: the script commits table by table, the migration is *)
(* one transaction, and a flock lets one worker at a time through.         *)
(***************************************************************************)
EXTENDS Naturals, Sequences

CONSTANTS Workers,
          NoWorker,
          MaxFaults      \* bound: processes killed or told to stop, heartbeats that fail

ASSUME WorkersAssumption == NoWorker \notin Workers /\ MaxFaults \in Nat

VARIABLES
  version,     \* PRAGMA user_version
  tables,      \* the tables that exist
  columns,     \* the columns of theirs that not every schema has
  triggers,    \* the triggers on save identities exist
  rows,        \* what the rows of versions say of their save identity
  migrator,    \* the worker that holds <database>.migration.lock
  worker,      \* what each worker does, and the version it has read
  faults

database == <<version, tables, columns, triggers, rows>>
bootVars == <<version, tables, columns, triggers, rows, migrator, worker, faults>>

SchemaVersion == 5

\* SCHEMA, in the order in which executescript creates its tables.
SchemaTables ==
  <<"users", "authorized_hosts", "api_tokens", "versions", "current_save",
    "active_lock", "audit", "rate_limits", "pending_backups">>
Tables == {SchemaTables[i] : i \in 1..9}

\* The columns of SCHEMA that some earlier schema lacks.
LastIp == <<"authorized_hosts", "last_ip">>
AddedColumns ==
  {<<"users", "display_name">>, <<"users", "slot">>, <<"api_tokens", "host_id">>,
   <<"active_lock", "token_id">>, <<"active_lock", "host_id">>,
   <<"versions", "save_identity">>, <<"versions", "host_id">>}
Columns == AddedColumns \union {LastIp}
ColumnsOf(t) == {c \in Columns : c[1] = t}

\* What tells a database of Palworld Sync v1.
WorldGuid == <<"versions", "world_guid">>

Complete == Tables \subseteq tables /\ Columns \subseteq columns /\ triggers

\* "down" is a worker that is not running or waits for the flock.
WorkerPC == {"down", "opening", "script", "migrate", "validate", "serving"}

BootTypeOK ==
  /\ version \in Nat
  /\ tables \subseteq Tables
  /\ columns \subseteq Columns \union {WorldGuid}
  /\ triggers \in BOOLEAN
  /\ rows \in {"none", "valid", "invalid"}
  /\ migrator \in Workers \union {NoWorker}
  /\ worker \in [Workers -> [pc : WorkerPC, seen : Nat]]
  /\ faults \in 0..MaxFaults

-----------------------------------------------------------------------------
(* The databases a start may find.                                         *)

BaseTables == Tables \ {"authorized_hosts", "pending_backups"}

NewDatabase == version = 0 /\ tables = {} /\ columns = {} /\ triggers = FALSE
Version1 ==
  version = 0 /\ tables = BaseTables /\ columns = {WorldGuid} /\ triggers = FALSE
Unversioned ==
  /\ version = 0 /\ tables = BaseTables /\ triggers \in BOOLEAN
  /\ columns \in {{}, {<<"versions", "save_identity">>}}
Schema3 ==
  /\ version = 3 /\ tables = BaseTables \union {"pending_backups"} /\ triggers \in BOOLEAN
  /\ columns = {<<"versions", "save_identity">>, <<"active_lock", "token_id">>}
Schema4 ==
  version = 4 /\ tables = Tables /\ columns = AddedColumns /\ triggers \in BOOLEAN
Schema5Or(newer) ==
  version \in {5, newer} /\ tables = Tables /\ columns = Columns /\ triggers = TRUE

\* A row without the column has no save identity.
StoredRows ==
  rows \in IF "versions" \notin tables THEN {"none"}
           ELSE IF <<"versions", "save_identity">> \notin columns THEN {"none", "invalid"}
           ELSE {"none", "valid", "invalid"}

BootInit ==
  /\ NewDatabase \/ Version1 \/ Unversioned \/ Schema3 \/ Schema4 \/ Schema5Or(6)
  /\ StoredRows
  /\ migrator = NoWorker
  /\ worker = [w \in Workers |-> [pc |-> "down", seen |-> 0]]
  /\ faults = 0

-----------------------------------------------------------------------------
(* bootstrap_database.                                                     *)

WorkerAt(w, pc) == worker' = [worker EXCEPT ![w].pc = pc]

\* bootstrap_database returns or raises.
WorkerLeaves(w, pc) == worker' = [worker EXCEPT ![w] = [pc |-> pc, seen |-> 0]]

\* Mutant: a worker does not wait for the flock.
BootLockShared(w) ==
  /\ worker[w].pc = "down"
  /\ migrator' = w
  /\ WorkerAt(w, "opening")
  /\ UNCHANGED <<database, faults>>

\* gunicorn, or the container, has started the worker, which takes the flock of
\* schema_lock; until it is free the worker only waits.
BootLock(w) ==
  /\ worker[w].pc = "down"
  /\ migrator = NoWorker
  /\ migrator' = w
  /\ WorkerAt(w, "opening")
  /\ UNCHANGED <<database, faults>>

\* The RuntimeError ends the worker, which gives up the flock; it is started again.
Refuse(w) ==
  /\ WorkerLeaves(w, "down")
  /\ migrator' = NoWorker
  /\ UNCHANGED <<database, faults>>

\* Mutant: a newer schema is taken for an older one.
BootOpenAny(w) ==
  /\ worker[w].pc = "opening"
  /\ worker' = [worker EXCEPT ![w] = [pc |-> "script", seen |-> version]]
  /\ UNCHANGED <<database, migrator, faults>>

BootOpen(w) ==
  /\ worker[w].pc = "opening"
  /\ version <= SchemaVersion
  /\ worker' = [worker EXCEPT ![w] = [pc |-> "script", seen |-> version]]
  /\ UNCHANGED <<database, migrator, faults>>

RefuseNewer(w) ==
  /\ worker[w].pc = "opening"
  /\ version > SchemaVersion
  /\ Refuse(w)

\* One CREATE TABLE IF NOT EXISTS of SCHEMA, committed on its own; the tables
\* that exist are left as they are.
CreateTable(w, i) ==
  /\ worker[w].pc = "script"
  /\ SchemaTables[i] \notin tables
  /\ \A j \in 1..(i - 1) : SchemaTables[j] \in tables
  /\ tables' = tables \union {SchemaTables[i]}
  /\ columns' = columns \union ColumnsOf(SchemaTables[i])
  /\ UNCHANGED <<version, triggers, rows, migrator, worker, faults>>

\* Mutant: the script declares the version itself, before the migration.
ScriptEndsDeclaring(w) ==
  /\ worker[w].pc = "script"
  /\ Tables \subseteq tables
  /\ WorkerAt(w, "migrate")
  /\ version' = SchemaVersion
  /\ UNCHANGED <<tables, columns, triggers, rows, migrator, faults>>

ScriptEnds(w) ==
  /\ worker[w].pc = "script"
  /\ Tables \subseteq tables
  /\ WorkerAt(w, "migrate")
  /\ UNCHANGED <<database, migrator, faults>>

\* BEGIN IMMEDIATE ... COMMIT: the missing columns, the triggers and the
\* version, all or nothing.  last_ip is added only to schemas before 5.
Migrate(w) ==
  /\ worker[w].pc = "migrate"
  /\ WorldGuid \notin columns
  /\ columns' = columns \union AddedColumns
                        \union (IF worker[w].seen < 5 THEN {LastIp} ELSE {})
  /\ triggers' = TRUE
  /\ version' = SchemaVersion
  /\ WorkerAt(w, "validate")
  /\ UNCHANGED <<tables, rows, migrator, faults>>

RefuseVersion1(w) ==
  /\ worker[w].pc = "migrate"
  /\ WorldGuid \in columns
  /\ Refuse(w)

\* Mutant: the flock outlives the start.
BootServeLocked(w) ==
  /\ worker[w].pc = "validate"
  /\ rows # "invalid"
  /\ WorkerLeaves(w, "serving")
  /\ UNCHANGED <<database, migrator, faults>>

\* Mutant: the identities are not checked.
BootServeUnchecked(w) ==
  /\ worker[w].pc = "validate"
  /\ WorkerLeaves(w, "serving")
  /\ migrator' = NoWorker
  /\ UNCHANGED <<database, faults>>

\* Every save identity is valid: users and tokens are seeded (ManagedAccess),
\* the flock is released and the worker serves.
BootServe(w) ==
  /\ worker[w].pc = "validate"
  /\ rows # "invalid"
  /\ WorkerLeaves(w, "serving")
  /\ migrator' = NoWorker
  /\ UNCHANGED <<database, faults>>

RefuseIdentity(w) ==
  /\ worker[w].pc = "validate"
  /\ rows = "invalid"
  /\ Refuse(w)

\* The worker is killed, or a statement fails and it ends: an open transaction
\* is rolled back and the kernel releases the flock.
WorkerKilled(w) ==
  /\ faults < MaxFaults
  /\ worker[w].pc # "down"
  /\ faults' = faults + 1
  /\ WorkerLeaves(w, "down")
  /\ migrator' = IF migrator = w THEN NoWorker ELSE migrator
  /\ UNCHANGED database

BootProgress(w) ==
  \/ BootLock(w) \/ BootOpen(w) \/ RefuseNewer(w)
  \/ \E i \in 1..9 : CreateTable(w, i)
  \/ ScriptEnds(w) \/ Migrate(w) \/ RefuseVersion1(w) \/ BootServe(w) \/ RefuseIdentity(w)

BootNext == \E w \in Workers : BootProgress(w) \/ WorkerKilled(w)
=============================================================================
