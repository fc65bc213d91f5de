------------------------------ MODULE SaveStore ------------------------------
(***************************************************************************)
(* The authoritative store of Save Sync: the SQLite tables `versions`,     *)
(* `current_save`, `active_lock` and `pending_backups`, the ZIP files under *)
(* backups/, the request handlers of the web workers that publish,         *)
(* restore, delete and download versions, the cleanup every worker runs,   *)
(* and the backup supervisor, a process of its own.                        *)
(*                                                                         *)
(* The tables change only at a COMMIT; files change the moment a handler   *)
(* touches them.  BEGIN IMMEDIATE gives one handler at a time the write    *)
(* lock.  A transaction that touches no file is therefore one step, and    *)
(* one that moves a ZIP into place is two: the move, then the COMMIT or    *)
(* the ROLLBACK.                                                           *)
(*                                                                         *)
(* Time is not modelled here: `lock` is the row active_lock() returns to the *)
(* next transaction that looks, and an expired row is no row.              *)
(***************************************************************************)
EXTENDS Integers, Retention

CONSTANTS Requests,         \* threads of the web workers that run handlers
          Sessions,         \* sessions ever opened; each has its own token
          NoSession,
          NoWriter,         \* nobody holds the write lock
          Saves,            \* uploads: a ZIP and the save identity sent with it
          NoSave,           \* no file
          Identities,       \* save identities: world GUID, world name
          IdentityOf,       \* the save_identity of an upload
          Slots,            \* retention slots
          SlotOf,           \* the slot of a session's user
          AdminSlot,        \* the slot of the administrator who restores
          RetentionPerSlot, \* SAVE_SYNC_RETENTION_PER_SLOT
          BackupEnabled,    \* SAVE_SYNC_POST_PUBLISH_COMMAND is not empty
          MaxVersion,       \* bound: versions ever published
          MaxFaults,        \* bound: transactions the database fails
          MaxCrashes        \* bound: workers or supervisors killed

ASSUME StoreAssumption ==
  /\ NoSession \notin Sessions
  /\ NoWriter \notin Requests
  /\ NoSave \notin Saves
  /\ IdentityOf \in [Saves -> Identities]
  /\ SlotOf \in [Sessions -> Slots]
  /\ AdminSlot \in Slots
  /\ RetentionPerSlot \in Nat \ {0}
  /\ BackupEnabled \in BOOLEAN
  /\ MaxVersion \in Nat
  /\ MaxFaults \in Nat
  /\ MaxCrashes \in Nat

VARIABLES
  row,      \* what was inserted into `versions` under each number
  live,     \* the numbers whose row is still in the table
  current,  \* current_save.version, 0 before the first publication
  lock,     \* active_lock
  opened,   \* the base version POST /lock answered each session, or Never
  pending,  \* pending_backups
  files,    \* backups/save-vNNNNNN.zip
  writer,   \* the handler inside a BEGIN IMMEDIATE that moved a file
  req,      \* where each handler is, and what it keeps in local variables
  sup,      \* where the supervisor is, and its job
  faults, crashes

store == <<row, live, current, lock, opened, pending>>
vars == <<store, files, writer, req, sup, faults, crashes>>

Versions == 1..MaxVersion
Never    == MaxVersion + 1
NoRow    == [session |-> NoSession, save |-> NoSave, from |-> 0]
NoLock   == [session |-> NoSession, base |-> 0]

RequestPC == {"idle", "publishing", "copying", "copied", "restoring",
              "compensating", "unlinking", "downloading",
              "pruning", "reconciling", "booting"}
SupervisorPC == {"booting", "idle", "picked", "hook", "finalizing", "reconciling"}

\* The local variables of a handler: the version it works on, the version and
\* current version it read first, its ZIP and its session.
Working(pc, ver, from, seen, save, session) ==
  [pc |-> pc, ver |-> ver, from |-> from, seen |-> seen,
   save |-> save, session |-> session]

\* A handler that keeps none of them, or only the number of its version.
At(pc)       == Working(pc, 0, 0, 0, NoSave, NoSession)
On(pc, ver)  == Working(pc, ver, 0, 0, NoSave, NoSession)

Row == [session : Sessions \union {NoSession}, save : Saves \union {NoSave},
        from : 0..MaxVersion]
Lock == [session : Sessions \union {NoSession}, base : 0..MaxVersion]
Handler == [pc : RequestPC, ver : 0..MaxVersion, from : 0..MaxVersion,
            seen : 0..MaxVersion, save : Saves \union {NoSave},
            session : Sessions \union {NoSession}]
Supervisor == [pc : SupervisorPC, job : 0..MaxVersion]

Init ==
  /\ row     = [v \in Versions |-> NoRow]
  /\ live    = {}
  /\ current = 0
  /\ lock    = NoLock
  /\ opened  = [s \in Sessions |-> Never]
  /\ pending = {}
  /\ files   = [v \in Versions |-> NoSave]
  /\ writer  = NoWriter
  /\ req     = [r \in Requests |-> At("booting")]
  /\ sup     = [pc |-> "booting", job |-> 0]
  /\ faults  = 0
  /\ crashes = 0

Step(r, h) == req' = [req EXCEPT ![r] = h]

\* Nobody is inside a write transaction, so BEGIN IMMEDIATE succeeds.
CanWrite == writer = NoWriter

SlotOfRow ==
  [v \in Versions |-> IF row[v].session = NoSession THEN AdminSlot
                      ELSE SlotOf[row[v].session]]

\* Mutants: the cleanup forgets the markers, or walks the rows oldest first.
PrunedIgnoringMarkers(rows, marked) ==
  Retained(rows, SlotOfRow, {}, RetentionPerSlot)
PrunedOldestFirst(rows, marked) ==
  {v \in rows : \/ v \in marked
                \/ Cardinality({w \in rows : w < v /\ SlotOfRow[w] = SlotOfRow[v]})
                     < RetentionPerSlot}

\* retention.prune_canonical_versions_locked
Pruned(rows, marked) == Retained(rows, SlotOfRow, marked, RetentionPerSlot)

-----------------------------------------------------------------------------
(* Sessions, as far as the store sees them.                                *)

\* POST /lock: the lock is free, and the session learns the current version.
AcquireLock(s) ==
  /\ CanWrite
  /\ lock = NoLock
  /\ opened[s] = Never
  /\ lock'   = [session |-> s, base |-> current]
  /\ opened' = [opened EXCEPT ![s] = current]
  /\ UNCHANGED <<row, live, current, pending, files, writer, req, sup, faults, crashes>>

\* POST /unlock, POST /admin/force-unlock, or the lock has expired.
ReleaseLock ==
  /\ CanWrite
  /\ lock # NoLock
  /\ lock' = NoLock
  /\ UNCHANGED <<row, live, current, opened, pending, files, writer, req, sup, faults, crashes>>

-----------------------------------------------------------------------------
(* Publication: PublicationService.publish.                                *)

\* Mutant: the identity is not compared.
AnyIdentity(save) == TRUE

\* save_identity is that of the current version, if there is one.
SameIdentity(save) ==
  current # 0 => IdentityOf[save] = IdentityOf[row[current].save]

\* Mutant: publish accepts any session that was opened, not the lock's.
MayPublishForAnySession(s, base, save) ==
  /\ SameIdentity(save)
  /\ base = current
  /\ opened[s] # Never
  /\ lock.base = current

\* The checks of publish in their order: the identity, the client's base, the
\* session, the session's base.
MayPublish(s, base, save) ==
  /\ SameIdentity(save)
  /\ base = current
  /\ lock.session = s
  /\ lock.base = current

\* Mutant: the next number counts the rows.
NextVersionByCount == Cardinality(live) + 1

NextVersion == current + 1

\* The validated temporary ZIP replaces whatever an earlier failure left at the
\* path of the next version.
MoveIntoPlace(r, save) ==
  /\ NextVersion <= MaxVersion
  /\ files'  = [files EXCEPT ![NextVersion] = save]
  /\ writer' = r

\* A client publishes with the session and the base version it claims.  Unlike
\* restore, publish refuses a path that a row references (version_path_exists).
Publish(r, s, base, save) ==
  /\ req[r].pc = "idle"
  /\ CanWrite
  /\ MayPublish(s, base, save)
  /\ NextVersion \notin live
  /\ MoveIntoPlace(r, save)
  /\ Step(r, Working("publishing", NextVersion, 0, base, save, s))
  /\ UNCHANGED <<store, sup, faults, crashes>>

\* Mutant: the connection goes back with its transaction still open.
InsertVersionHoldingLock(r, session, from) ==
  /\ row'     = [row EXCEPT ![req[r].ver] =
                   [session |-> session, save |-> req[r].save, from |-> from]]
  /\ live'    = live \union {req[r].ver}
  /\ current' = req[r].ver
  /\ pending' = IF BackupEnabled THEN pending \union {req[r].ver} ELSE pending
  /\ Step(r, At("pruning"))
  /\ UNCHANGED <<opened, files, writer, sup, faults, crashes>>

\* INSERT INTO versions, current_save, the backup marker, COMMIT.
InsertVersion(r, session, from) ==
  /\ row'     = [row EXCEPT ![req[r].ver] =
                   [session |-> session, save |-> req[r].save, from |-> from]]
  /\ live'    = live \union {req[r].ver}
  /\ current' = req[r].ver
  /\ pending' = IF BackupEnabled THEN pending \union {req[r].ver} ELSE pending
  /\ writer'  = NoWriter
  /\ Step(r, At("pruning"))
  /\ UNCHANGED <<opened, files, sup, faults, crashes>>

PublishCommit(r) ==
  /\ req[r].pc = "publishing"
  /\ InsertVersion(r, req[r].session, 0)
  /\ lock' = NoLock

-----------------------------------------------------------------------------
(* Restore: PublicationService.restore, two transactions around a copy.    *)

RestoreBegin(r, v) ==
  /\ req[r].pc = "idle"
  /\ CanWrite
  /\ current < MaxVersion
  /\ lock = NoLock
  /\ v \in live
  /\ SameIdentity(row[v].save)
  /\ Step(r, Working("copying", 0, v, current, row[v].save, NoSession))
  /\ UNCHANGED <<store, files, writer, sup, faults, crashes>>

\* No transaction is open.  The copy is good if its SHA-256 is the recorded
\* one; a missing or different file is answered with 503.
RestoreCopy(r) ==
  /\ req[r].pc = "copying"
  /\ IF files[req[r].from] = req[r].save
       THEN Step(r, Working("copied", 0, req[r].from, req[r].seen, req[r].save, NoSession))
       ELSE Step(r, At("idle"))
  /\ UNCHANGED <<store, files, writer, sup, faults, crashes>>

\* Mutants: the second transaction trusts what the first one saw of the head,
\* or of the lock.
MayRestoreOnAnyHead(r) ==
  /\ lock = NoLock
  /\ SameIdentity(req[r].save)
  /\ req[r].from \in live
  /\ row[req[r].from].save = req[r].save
MayRestoreDuringSession(r) ==
  /\ SameIdentity(req[r].save)
  /\ current = req[r].seen
  /\ req[r].from \in live
  /\ row[req[r].from].save = req[r].save

\* What the second transaction re-checks.
MayRestore(r) ==
  /\ lock = NoLock
  /\ SameIdentity(req[r].save)
  /\ current = req[r].seen
  /\ req[r].from \in live
  /\ row[req[r].from].save = req[r].save

Restore(r) ==
  /\ req[r].pc = "copied"
  /\ CanWrite
  /\ MayRestore(r)
  /\ MoveIntoPlace(r, req[r].save)
  /\ Step(r, Working("restoring", NextVersion, req[r].from, req[r].seen, req[r].save, NoSession))
  /\ UNCHANGED <<store, sup, faults, crashes>>

RestoreRefused(r) ==
  /\ req[r].pc = "copied"
  /\ CanWrite
  /\ ~MayRestore(r)
  /\ Step(r, At("idle"))
  /\ UNCHANGED <<store, files, writer, sup, faults, crashes>>

RestoreCommit(r) ==
  /\ req[r].pc = "restoring"
  /\ InsertVersion(r, NoSession, req[r].from)
  /\ UNCHANGED lock

-----------------------------------------------------------------------------
(* The database fails a transaction whose ZIP is already in place.         *)

\* ROLLBACK frees the write lock; only then does the except clause run.  A
\* publication whose directory fsync failed has no published_final yet.
Abort(r) ==
  /\ writer = r
  /\ faults < MaxFaults
  /\ faults' = faults + 1
  /\ writer' = NoWriter
  /\ \/ Step(r, On("compensating", req[r].ver))
     \/ req[r].pc = "publishing" /\ Step(r, At("idle"))
  /\ UNCHANGED <<store, files, sup, crashes>>

\* final.unlink(missing_ok=True), outside any transaction.
Compensate(r) ==
  /\ req[r].pc = "compensating"
  /\ files' = [files EXCEPT ![req[r].ver] = NoSave]
  /\ Step(r, At("idle"))
  /\ UNCHANGED <<store, writer, sup, faults, crashes>>

-----------------------------------------------------------------------------
(* Cleanup: cleanup_canonical_versions, after every publication and        *)
(* restore and whenever a worker starts.                                   *)

Prune(r) ==
  /\ req[r].pc \in {"pruning", "booting"}
  /\ CanWrite
  /\ live' = Pruned(live, pending)
  /\ Step(r, At("reconciling"))
  /\ UNCHANGED <<row, current, lock, opened, pending, files, writer, sup, faults, crashes>>

\* The caller swallows the exception; the new version is already committed.
PruneFails(r) ==
  /\ req[r].pc = "pruning"
  /\ Step(r, At("idle"))
  /\ UNCHANGED <<store, files, writer, sup, faults, crashes>>

Orphans == {v \in Versions : files[v] # NoSave} \ live

UnlinkOrphans ==
  \E stuck \in SUBSET Orphans :
    files' = [v \in Versions |-> IF v \in Orphans \ stuck THEN NoSave ELSE files[v]]

\* Mutant: the second phase runs without BEGIN IMMEDIATE.
ReconcileFilesUnlocked == UnlinkOrphans

\* Under a write lock of its own, unlink what no row references; an unlink
\* that fails is logged and left to a later cleanup.
ReconcileFiles ==
  /\ CanWrite
  /\ UnlinkOrphans

Reconcile(r) ==
  /\ req[r].pc = "reconciling"
  /\ ReconcileFiles
  /\ Step(r, At("idle"))
  /\ UNCHANGED <<store, writer, sup, faults, crashes>>

-----------------------------------------------------------------------------
(* DELETE /history/<version>: the row in a transaction, the file after it. *)

\* Mutant: a version whose backup is pending may be deleted.
MayDeletePending(v) == v \in live /\ v # current

MayDelete(v) == v \in live /\ v # current /\ v \notin pending

DeleteVersion(r, v) ==
  /\ req[r].pc = "idle"
  /\ CanWrite
  /\ MayDelete(v)
  /\ live' = live \ {v}
  /\ Step(r, On("unlinking", v))
  /\ UNCHANGED <<row, current, lock, opened, pending, files, writer, sup, faults, crashes>>

DeleteFile(r) ==
  /\ req[r].pc = "unlinking"
  /\ files' = [files EXCEPT ![req[r].ver] = NoSave]
  /\ Step(r, At("idle"))
  /\ UNCHANGED <<store, writer, sup, faults, crashes>>

-----------------------------------------------------------------------------
(* GET /download and GET /history/<version>/download: the row is read and  *)
(* the download audited in a transaction, the file is opened after it.     *)

Download(r, v) ==
  /\ req[r].pc = "idle"
  /\ CanWrite
  /\ v \in live
  /\ Step(r, On("downloading", v))
  /\ UNCHANGED <<store, files, writer, sup, faults, crashes>>

\* 200 with whatever the path holds, or 503 when it holds nothing.
SendFile(r) ==
  /\ req[r].pc = "downloading"
  /\ Step(r, At("idle"))
  /\ UNCHANGED <<store, files, writer, sup, faults, crashes>>

-----------------------------------------------------------------------------
(* The backup supervisor.                                                  *)

SupStep(pc, job) == sup' = [pc |-> pc, job |-> job]

\* next_job reads without a transaction.  It takes the job that has waited
\* longest; which one that is depends on clocks, so any may be taken here.
SupPick(v) ==
  /\ sup.pc = "idle"
  /\ BackupEnabled
  /\ v \in pending
  /\ SupStep("picked", v)
  /\ UNCHANGED <<store, files, writer, req, faults, crashes>>

\* mark_attempt_started; the hook is launched after its COMMIT.
SupMark ==
  /\ sup.pc = "picked"
  /\ CanWrite
  /\ IF sup.job \in pending THEN SupStep("hook", sup.job) ELSE SupStep("idle", 0)
  /\ UNCHANGED <<store, files, writer, req, faults, crashes>>

\* The hook exits, is killed at its deadline, or could not be launched.
SupHookEnds ==
  /\ sup.pc = "hook"
  /\ SupStep("finalizing", sup.job)
  /\ UNCHANGED <<store, files, writer, req, faults, crashes>>

\* Mutant: the marker survives, as if only a success removed it.
SupFinalizeKeepingMarker ==
  /\ sup.pc = "finalizing"
  /\ CanWrite
  /\ live' = Pruned(live, pending)
  /\ SupStep("reconciling", 0)
  /\ UNCHANGED <<row, current, lock, opened, pending, files, writer, req, faults, crashes>>

\* finalize_job: marker, audit and metadata retention in one transaction.
SupFinalize ==
  /\ sup.pc = "finalizing"
  /\ CanWrite
  /\ pending' = pending \ {sup.job}
  /\ live' = Pruned(live, pending')
  /\ SupStep("reconciling", 0)
  /\ UNCHANGED <<row, current, lock, opened, files, writer, req, faults, crashes>>

\* Marking or finalizing fails; run_forever swallows the exception.
SupFails ==
  /\ sup.pc \in {"picked", "finalizing"}
  /\ faults < MaxFaults
  /\ faults' = faults + 1
  /\ SupStep("idle", 0)
  /\ UNCHANGED <<store, files, writer, req, crashes>>

SupReconcile ==
  /\ sup.pc \in {"booting", "reconciling"}
  /\ ReconcileFiles
  /\ SupStep("idle", 0)
  /\ UNCHANGED <<store, writer, req, faults, crashes>>

-----------------------------------------------------------------------------
(* Crashes.                                                                *)

\* A worker is killed: its transaction never commits, its local variables are
\* gone, and the worker that replaces it starts with a cleanup.
WorkerCrash(r) ==
  /\ crashes < MaxCrashes
  /\ req[r].pc # "booting"
  /\ crashes' = crashes + 1
  /\ writer' = IF writer = r THEN NoWriter ELSE writer
  /\ Step(r, At("booting"))
  /\ UNCHANGED <<store, files, sup, faults>>

\* The supervisor is killed, or stopped while the hook runs: either way the
\* marker stays and the next one starts over.
SupCrash ==
  /\ crashes < MaxCrashes
  /\ sup.pc # "booting"
  /\ crashes' = crashes + 1
  /\ SupStep("booting", 0)
  /\ UNCHANGED <<store, files, writer, req, faults>>

-----------------------------------------------------------------------------
SessionStep == ReleaseLock \/ \E s \in Sessions : AcquireLock(s)

Arrival(r) ==
  \/ \E s \in Sessions, base \in 0..MaxVersion, save \in Saves : Publish(r, s, base, save)
  \/ \E v \in live : RestoreBegin(r, v) \/ DeleteVersion(r, v) \/ Download(r, v)

\* What a handler does next once it has started.
Progress(r) ==
  \/ PublishCommit(r)
  \/ RestoreCopy(r)
  \/ Restore(r)
  \/ RestoreRefused(r)
  \/ RestoreCommit(r)
  \/ Compensate(r)
  \/ Prune(r)
  \/ PruneFails(r)
  \/ Reconcile(r)
  \/ DeleteFile(r)
  \/ SendFile(r)

Supervise ==
  \/ \E v \in pending : SupPick(v)
  \/ SupMark
  \/ SupHookEnds
  \/ SupFinalize
  \/ SupReconcile

Next ==
  \/ SessionStep
  \/ \E r \in Requests : Arrival(r) \/ Progress(r) \/ Abort(r) \/ WorkerCrash(r)
  \/ Supervise
  \/ SupFails
  \/ SupCrash

Spec == Init /\ [][Next]_vars

\* A started handler and the supervisor keep running: threads are scheduled,
\* SQLite's busy_timeout waits for the write lock, and the hook has a deadline.
Fairness == WF_vars(Supervise) /\ \A r \in Requests : WF_vars(Progress(r))

FairSpec == Spec /\ Fairness

-----------------------------------------------------------------------------
(* Properties.                                                             *)

\* Every variable holds what its column, path or local variable can hold.
TypeOK ==
  /\ row \in [Versions -> Row]
  /\ live \subseteq Versions
  /\ current \in 0..MaxVersion
  /\ lock \in Lock
  /\ opened \in [Sessions -> 0..Never]
  /\ pending \subseteq Versions
  /\ files \in [Versions -> Saves \union {NoSave}]
  /\ writer \in Requests \union {NoWriter}
  /\ req \in [Requests -> Handler]
  /\ sup \in Supervisor
  /\ faults \in 0..MaxFaults
  /\ crashes \in 0..MaxCrashes

\* A committed row never points to a missing or different ZIP, whatever the
\* cleanups, deletions and crashes around it do (retention.py:37-41,
\* docs/RELEASE-NOTES-v2.2.1.md:18 "never committed SQLite metadata pointing
\* at a ZIP deleted by a transaction that later rolled back").
EveryVersionHasItsFile == \A v \in live : files[v] = row[v].save

\* The ZIPs that rows or an open transaction count on, with what they hold.
InPlace ==
  {<<v, row[v].save>> : v \in live}
    \union {<<req[r].ver, req[r].save>> : r \in Requests \intersect {writer}}

\* Without assuming that transactions never fail: the only step that can take
\* away a ZIP that a row or an open transaction counts on is the unlink of an
\* except clause (publications.py:455-457, 651-653).
OnlyCompensationLosesFiles ==
  [][\A z \in InPlace' :
       \/ files'[z[1]] = z[2]
       \/ z \in InPlace /\ files[z[1]] # z[2]
       \/ \E r \in Requests : Compensate(r) /\ req[r].ver = z[1]]_vars

\* Every version of a store carries the save identity of the first, although a
\* restore checks it in one transaction and commits in another
\* (publications.py:271-292, 490-509, 550-572).
OneIdentity ==
  \A v \in Versions :
    row[v] # NoRow => IdentityOf[row[v].save] = IdentityOf[row[1].save]

\* The current version has a row and no row is newer: retention and deletion
\* never take the head away (docs/ARCHITECTURE.md:26).
CurrentIsNewest ==
  /\ current # 0 => current \in live
  /\ \A v \in live : v <= current

\* While the hook runs, the row and the ZIP it was given are there and are the
\* ones that were published (app.py:192-198, backup_supervisor.py:346-353).
BackupReadsItsVersion ==
  sup.pc = "hook" => /\ sup.job \in live
                     /\ files[sup.job] = row[sup.job].save

\* A handler with a ZIP in place commits on top of the head it, or its client,
\* last saw; in particular a restore never buries a publication that its
\* administrator did not know of (publications.py:573-607).
CommitsOnTheHeadItSaw ==
  \A r \in Requests :
    req[r].pc \in {"publishing", "restoring"} => req[r].seen = current

\* The version a session publishes directly follows the one it was given when
\* it took the lock, so nobody's version is lost between the two, and a
\* repeated upload never becomes a second version (publications.py:293-380).
PublishedOnTopOfItsBase ==
  \A v \in Versions :
    row[v].session # NoSession => opened[row[v].session] = v - 1

\* A download begun for a version is answered with that version's bytes or
\* with 503, never with another version's (app.py:914-936, 1016-1040).
DownloadServesItsVersion ==
  \A r \in Requests :
    req[r].pc = "downloading" =>
      files[req[r].ver] \in {NoSave, row[req[r].ver].save}

\* A version number never comes to denote another save, deleted or not:
\* clients skip the download when the number is the one they have.
NumberNeverReused ==
  [][\A v \in Versions : row[v] # NoRow => row'[v] = row[v]]_vars

\* No step removes the row of the current version or of a version whose backup
\* is still pending after it; and only an administrator's deletion removes one of
\* the newest of a slot (retention.py:11-31, app.py:1063-1078).
NeverDropsProtected ==
  [][\A v \in live \ live' :
       /\ v # current' /\ v \notin pending'
       /\ \/ \E r \in Requests : DeleteVersion(r, v)
          \/ Cardinality(NewerInSlot(live', SlotOfRow, v)) >= RetentionPerSlot]_vars

\* Tables, files, threads, crashes and backups implement the ledger.
Ledger == INSTANCE SaveLedger WITH entry <- row, head <- current, lease <- lock
ImplementsLedger == Ledger!Spec

\* Every armed marker is resolved, by a success or by a recorded failure, once
\* crashes and database failures stop (docs/ARCHITECTURE.md:74-89).
EveryBackupIsResolved ==
  \A v \in Versions : v \in pending ~> v \notin pending

\* Every request that starts ends: no handler waits for ever for a write lock,
\* not even its own, as publish opens a second transaction after its COMMIT.
EveryRequestEnds ==
  \A r \in Requests : req[r].pc # "idle" ~> req[r].pc = "idle"

-----------------------------------------------------------------------------
(* The inductive invariant behind the properties.  Only FileInv supposes    *)
(* that the database fails no transaction.                                 *)

Moving(r) == req[r].pc \in {"publishing", "restoring"}

\* The numbers up to current have been given out, and no other; the head's row
\* and the rows with a marker are there.
HeadInv ==
  /\ current # 0 => current \in live
  /\ \A v \in live : v <= current
  /\ pending \subseteq live
  /\ \A v \in Versions : IF v <= current THEN row[v].save \in Saves ELSE row[v] = NoRow

\* The write lock is held exactly while a ZIP is in place and uncommitted, and
\* what its holder read of the head stays true until it commits.
WriterInv ==
  /\ writer # NoWriter => writer \in Requests /\ Moving(writer)
  /\ \A r \in Requests : Moving(r) =>
       /\ writer = r
       /\ req[r].ver = current + 1
       /\ req[r].ver \in Versions
       /\ req[r].seen = current
       /\ req[r].save \in Saves

\* The head does not move while the save is locked.
LockInv ==
  /\ lock # NoLock => /\ lock.session \in Sessions
                      /\ lock.base = current
                      /\ opened[lock.session] = current
  /\ \A r \in Requests :
       /\ req[r].pc = "publishing" => lock # NoLock /\ lock.session = req[r].session
       /\ req[r].pc = "restoring" => lock = NoLock
  /\ \A v \in Versions :
       row[v].session # NoSession => opened[row[v].session] = v - 1

\* What a handler remembers of a version stays true of that number.
HandlerInv ==
  \A r \in Requests :
    /\ req[r].pc \in {"copying", "copied", "restoring"} =>
         /\ req[r].from \in Versions
         /\ req[r].from <= current
         /\ row[req[r].from].save = req[r].save
    /\ req[r].pc \in {"downloading", "unlinking"} =>
         req[r].ver \in Versions /\ req[r].ver <= current
    /\ req[r].pc = "unlinking" => req[r].ver \notin live

\* The supervisor's job keeps its marker until the supervisor removes it.
SupInv == sup.pc \in {"picked", "hook", "finalizing"} => sup.job \in pending

\* One identity: the committed saves and the one about to be committed.
IdentityInv ==
  /\ \A v \in Versions :
       v <= current => IdentityOf[row[v].save] = IdentityOf[row[1].save]
  /\ \A r \in Requests :
       Moving(r) /\ current # 0 => IdentityOf[req[r].save] = IdentityOf[row[1].save]

\* The path of a number that was given out holds that version or nothing.
PathInv ==
  /\ \A v \in Versions : v <= current => files[v] \in {NoSave, row[v].save}
  /\ \A r \in Requests : Moving(r) => files[req[r].ver] \in {NoSave, req[r].save}

StoreInv ==
  /\ TypeOK
  /\ HeadInv
  /\ WriterInv
  /\ LockInv
  /\ HandlerInv
  /\ SupInv
  /\ IdentityInv
  /\ PathInv

\* Without failed transactions no except clause unlinks anything.
FileInv ==
  /\ faults = 0
  /\ \A r \in Requests : req[r].pc # "compensating"
  /\ EveryVersionHasItsFile
  /\ \A r \in Requests : Moving(r) => files[req[r].ver] = req[r].save
=============================================================================
