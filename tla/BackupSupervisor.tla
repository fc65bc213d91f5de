--------------------------- MODULE BackupSupervisor ---------------------------
(***************************************************************************)
(* The backup supervisor (save_sync/backup_supervisor.py): the durable     *)
(* queue of versions to back up, the singleton flock, the hook and the     *)
(* outcomes a status request reports.                                      *)
(*                                                                         *)
(* The queue is the table pending_backups in the order of next_job, that   *)
(* is by (started_at, version).  A supervisor may share its storage with   *)
(* another one that is still stopping; it may be stopped or killed         *)
(* anywhere; and every transaction of it may fail, some of them each time. *)
(***************************************************************************)
EXTENDS Bootstrap, SequencesExt

CONSTANTS Supervisors,
          NoSupervisor,
          MaxVersion      \* bound: versions ever published

ASSUME SupervisorsAssumption ==
  /\ NoSupervisor \notin Supervisors
  /\ MaxVersion \in Nat

VARIABLES
  enabled,     \* SAVE_SYNC_POST_PUBLISH_COMMAND is set
  head,        \* the current version
  queue,       \* pending_backups, the next job first
  outcome,     \* what the audit log says of each version's backup
  singleton,   \* the supervisor that holds backup-supervisor.lock
  sup,         \* what each supervisor does
  hook,        \* the process each supervisor runs
  orphans,     \* hooks a supervisor started and lost sight of
  armed,       \* versions that were ever queued
  succeeded,   \* versions a hook of which has exited 0
  failed       \* versions a hook of which failed, or ran into its deadline

supVars == <<enabled, head, queue, outcome, singleton, sup, hook, orphans, armed, succeeded, failed>>
ledger == <<head, queue, outcome>>
ghosts == <<armed, succeeded, failed>>

Versions == 1..MaxVersion
Queued == ToSet(queue)

\* "down" is a supervisor that is not running or waits for the flock.
SupPC == {"down", "schema", "idle", "claiming", "launching", "hook",
          "terminating", "finalizing"}
Result == {"none", "completed", "failed", "interrupted"}
\* seen: how many jobs were queued when the job's new started_at was read.
SupState == [pc : SupPC, stop : BOOLEAN, job : 0..MaxVersion, seen : Nat, result : Result]

NoJob(pc, stop) == [pc |-> pc, stop |-> stop, job |-> 0, seen |-> 0, result |-> "none"]
Down == NoJob("down", FALSE)

SupTypeOK ==
  /\ enabled \in BOOLEAN
  /\ head \in 0..MaxVersion
  /\ queue \in Seq(1..MaxVersion)
  /\ outcome \in [Versions -> {"none", "completed", "failed"}]
  /\ singleton \in Supervisors \union {NoSupervisor}
  /\ sup \in [Supervisors -> SupState]
  /\ hook \in [Supervisors -> {"none", "running", "exit0", "exit1"}]
  /\ orphans \in [Supervisors -> SUBSET Versions]
  /\ armed \subseteq Versions
  /\ succeeded \subseteq Versions
  /\ failed \subseteq Versions

\* A new database has no version; another may have its head queued still.
SupInit ==
  /\ enabled \in BOOLEAN
  /\ head \in IF rows = "none" THEN {0} ELSE Versions
  /\ queue \in IF head # 0 /\ "pending_backups" \in tables
               THEN {<<>>, <<head>>} ELSE {<<>>}
  /\ outcome = [v \in Versions |-> "none"]
  /\ singleton = NoSupervisor
  /\ sup = [s \in Supervisors |-> Down]
  /\ hook = [s \in Supervisors |-> "none"]
  /\ orphans = [s \in Supervisors |-> {}]
  /\ armed = Queued
  /\ succeeded = {}
  /\ failed = {}

-----------------------------------------------------------------------------
(* What the web workers do with the queue.                                 *)

\* arm_backup_marker, in the transaction that publishes or restores.
Publish ==
  /\ \E w \in Workers : worker[w].pc = "serving"
  /\ head < MaxVersion
  /\ head' = head + 1
  /\ queue' = IF enabled THEN Append(queue, head + 1) ELSE queue
  /\ armed' = IF enabled THEN armed \union {head + 1} ELSE armed
  /\ rows' = "valid"
  /\ UNCHANGED <<version, tables, columns, triggers, migrator, worker, faults>>
  /\ UNCHANGED <<enabled, outcome, singleton, sup, hook, orphans, succeeded, failed>>

\* Mutant: the last attempt counts, whichever version it was of.
BackupStateOfLastAttempt(stale) ==
  LET decided == {v \in Versions : outcome[v] # "none"}
  IN  IF head = 0 THEN "not_initialized"
      ELSE IF head \in Queued \ stale THEN "pending"
      ELSE IF decided # {} THEN outcome[Max(decided)]
      ELSE IF enabled THEN "unknown" ELSE "disabled"

\* GET /backup-status, when the queued versions in stale have waited too long.
BackupState(stale) ==
  IF head = 0 THEN "not_initialized"
  ELSE IF head \in Queued \ stale THEN "pending"
  ELSE IF outcome[head] # "none" THEN outcome[head]
  ELSE IF enabled THEN "unknown" ELSE "disabled"

-----------------------------------------------------------------------------
(* The supervisor's own life.                                              *)

SupAt(s, pc) == sup' = [sup EXCEPT ![s].pc = pc]

\* run_once returns to the loop of run_forever, by the end or by an exception.
SupIdle(s) == sup' = [sup EXCEPT ![s] = NoJob("idle", sup[s].stop)]

\* Mutant: no singleton.
SupLockShared(s) ==
  /\ sup[s].pc = "down"
  /\ singleton' = s
  /\ SupAt(s, "schema")
  /\ UNCHANGED <<enabled, ledger, hook, orphans, ghosts, faults>>

\* The supervisor has started and acquire_singleton_lock takes the flock; until
\* it is free the supervisor only waits, also when it is told to stop.
SupLock(s) ==
  /\ sup[s].pc = "down"
  /\ singleton = NoSupervisor
  /\ singleton' = s
  /\ SupAt(s, "schema")
  /\ UNCHANGED <<enabled, ledger, hook, orphans, ghosts, faults>>

\* schema_ready.
SchemaReady ==
  /\ version = SchemaVersion
  /\ {"versions", "users", "audit", "pending_backups"} \subseteq tables

SchemaFound(s) ==
  /\ sup[s].pc = "schema"
  /\ ~sup[s].stop
  /\ SchemaReady
  /\ SupAt(s, "idle")
  /\ UNCHANGED <<enabled, ledger, singleton, hook, orphans, ghosts, faults>>

\* SIGTERM or SIGINT.
StopRequest(s) ==
  /\ faults < MaxFaults
  /\ sup[s].pc # "down"
  /\ ~sup[s].stop
  /\ faults' = faults + 1
  /\ sup' = [sup EXCEPT ![s].stop = TRUE]
  /\ UNCHANGED <<enabled, ledger, singleton, hook, orphans, ghosts>>

\* The loops of run_forever end, the flock is released, and the container's
\* other processes end with its first.
SupExit(s) ==
  /\ sup[s].pc \in {"schema", "idle"}
  /\ sup[s].stop
  /\ sup' = [sup EXCEPT ![s] = Down]
  /\ singleton' = NoSupervisor
  /\ orphans' = [orphans EXCEPT ![s] = {}]
  /\ UNCHANGED <<enabled, ledger, hook, ghosts, faults>>

SupKilled(s) ==
  /\ faults < MaxFaults
  /\ sup[s].pc # "down"
  /\ faults' = faults + 1
  /\ sup' = [sup EXCEPT ![s] = Down]
  /\ singleton' = IF singleton = s THEN NoSupervisor ELSE singleton
  /\ hook' = [hook EXCEPT ![s] = "none"]
  /\ orphans' = [orphans EXCEPT ![s] = {}]
  /\ UNCHANGED <<enabled, ledger, ghosts>>

-----------------------------------------------------------------------------
(* One job: run_once.                                                      *)

\* next_job reads without a transaction; mark_attempt_started reads the clock
\* before it waits for the write lock.
Pick(s) ==
  /\ sup[s].pc = "idle"
  /\ ~sup[s].stop
  /\ SchemaReady
  /\ enabled
  /\ queue # <<>>
  /\ sup' = [sup EXCEPT ![s] = [pc |-> "claiming", stop |-> FALSE, job |-> Head(queue),
                                seen |-> Len(queue), result |-> "none"]]
  /\ UNCHANGED <<enabled, ledger, singleton, hook, orphans, ghosts, faults>>

\* Mutant: the attempt is audited and started_at kept.
NotRequeued(job, seen) == queue

\* The new started_at puts the job behind those that were queued when it was
\* read, and before the ones published since.
Requeued(job, seen) ==
  LET i == CHOOSE k \in 1..Len(queue) : queue[k] = job
  IN  InsertAt(RemoveAt(queue, i), seen, job)

Mark(s) ==
  /\ sup[s].pc = "claiming"
  /\ IF sup[s].job \in Queued
     THEN queue' = Requeued(sup[s].job, sup[s].seen) /\ SupAt(s, "launching")
     ELSE queue' = queue /\ SupIdle(s)
  /\ UNCHANGED <<enabled, head, outcome, singleton, hook, orphans, ghosts, faults>>

\* The transaction is rolled back; the loop of run_forever goes on.
MarkFails(s) ==
  /\ sup[s].pc = "claiming"
  /\ SupIdle(s)
  /\ UNCHANGED <<enabled, ledger, singleton, hook, orphans, ghosts, faults>>

Launch(s) ==
  /\ sup[s].pc = "launching"
  /\ SupAt(s, "hook")
  /\ hook' = [hook EXCEPT ![s] = "running"]
  /\ UNCHANGED <<enabled, ledger, singleton, orphans, ghosts, faults>>

LaunchFails(s) ==
  /\ sup[s].pc = "launching"
  /\ sup' = [sup EXCEPT ![s].pc = "finalizing", ![s].result = "failed"]
  /\ failed' = failed \union {sup[s].job}
  /\ UNCHANGED <<enabled, ledger, singleton, hook, orphans, armed, succeeded, faults>>

\* The hook exits by itself, at any moment, also while it is being terminated.
HookExits(s) ==
  /\ hook[s] = "running"
  /\ \/ /\ hook' = [hook EXCEPT ![s] = "exit0"]
        /\ succeeded' = succeeded \union {sup[s].job}
        /\ UNCHANGED <<armed, failed>>
     \/ /\ hook' = [hook EXCEPT ![s] = "exit1"]
        /\ failed' = failed \union {sup[s].job}
        /\ UNCHANGED <<armed, succeeded>>
  /\ UNCHANGED <<enabled, ledger, singleton, sup, orphans, faults>>

\* wait_for_process: process.wait returns.
SeeExit(s) ==
  /\ sup[s].pc = "hook"
  /\ hook[s] \in {"exit0", "exit1"}
  /\ sup' = [sup EXCEPT ![s].pc = "finalizing",
               ![s].result = IF hook[s] = "exit0" THEN "completed" ELSE "failed"]
  /\ hook' = [hook EXCEPT ![s] = "none"]
  /\ UNCHANGED <<enabled, ledger, singleton, orphans, ghosts, faults>>

SeeStop(s) ==
  /\ sup[s].pc = "hook"
  /\ sup[s].stop
  /\ sup' = [sup EXCEPT ![s].pc = "terminating", ![s].result = "interrupted"]
  /\ UNCHANGED <<enabled, ledger, singleton, hook, orphans, ghosts, faults>>

\* The hook has not exited when wait returns; it may have when it is terminated.
Deadline(s) ==
  /\ sup[s].pc = "hook"
  /\ sup' = [sup EXCEPT ![s].pc = "terminating", ![s].result = "failed"]
  /\ failed' = failed \union {sup[s].job}
  /\ UNCHANGED <<enabled, ledger, singleton, hook, orphans, armed, succeeded, faults>>

\* touch_heartbeat raises in wait_for_process: the job is given up, its process
\* is not.
HeartbeatFails(s) ==
  /\ faults < MaxFaults
  /\ sup[s].pc = "hook"
  /\ faults' = faults + 1
  /\ SupIdle(s)
  /\ hook' = [hook EXCEPT ![s] = "none"]
  /\ orphans' = IF hook[s] = "running"
                THEN [orphans EXCEPT ![s] = @ \union {sup[s].job}] ELSE orphans
  /\ UNCHANGED <<enabled, ledger, singleton, ghosts>>

OrphanExits(s, v) ==
  /\ v \in orphans[s]
  /\ orphans' = [orphans EXCEPT ![s] = @ \ {v}]
  /\ UNCHANGED <<enabled, ledger, singleton, sup, hook, ghosts, faults>>

\* Mutant: a stop counts as a failed attempt.
TerminatedFinal(s) ==
  /\ sup[s].pc = "terminating"
  /\ sup' = [sup EXCEPT ![s].pc = "finalizing", ![s].result = "failed"]
  /\ hook' = [hook EXCEPT ![s] = "none"]
  /\ UNCHANGED <<enabled, ledger, singleton, orphans, ghosts, faults>>

\* terminate_process_group: SIGTERM, then SIGKILL.  A stop leaves the job as it
\* is; a deadline is an outcome.
Terminated(s) ==
  /\ sup[s].pc = "terminating"
  /\ IF sup[s].result = "interrupted" THEN SupIdle(s) ELSE SupAt(s, "finalizing")
  /\ hook' = [hook EXCEPT ![s] = "none"]
  /\ UNCHANGED <<enabled, ledger, singleton, orphans, ghosts, faults>>

\* finalize_job: one transaction; the files are SaveStore's.
Finalize(s) ==
  /\ sup[s].pc = "finalizing"
  /\ queue' = IF sup[s].job \in Queued
              THEN RemoveAt(queue, CHOOSE k \in 1..Len(queue) : queue[k] = sup[s].job)
              ELSE queue
  /\ outcome' = [outcome EXCEPT ![sup[s].job] = sup[s].result]
  /\ SupIdle(s)
  /\ UNCHANGED <<enabled, head, singleton, hook, orphans, ghosts, faults>>

\* Mutant: the row is gone although its outcome could not be recorded.
FinalizeFailsForgetting(s) ==
  /\ sup[s].pc = "finalizing"
  /\ queue' = SelectSeq(queue, LAMBDA v : v # sup[s].job)
  /\ SupIdle(s)
  /\ UNCHANGED <<enabled, head, outcome, singleton, hook, orphans, ghosts, faults>>

\* Rolled back: the row stays and the hook will run again.
FinalizeFails(s) ==
  /\ sup[s].pc = "finalizing"
  /\ SupIdle(s)
  /\ UNCHANGED <<enabled, ledger, singleton, hook, orphans, ghosts, faults>>

SupProgress(s) ==
  \/ SupLock(s) \/ SchemaFound(s) \/ SupExit(s) \/ Pick(s)
  \/ Mark(s) \/ MarkFails(s) \/ Launch(s) \/ LaunchFails(s)
  \/ SeeExit(s) \/ SeeStop(s) \/ Deadline(s) \/ Terminated(s)
  \/ Finalize(s) \/ FinalizeFails(s)

SupNext ==
  \E s \in Supervisors :
    \/ SupProgress(s) \/ StopRequest(s) \/ SupKilled(s) \/ HookExits(s) \/ HeartbeatFails(s)
    \/ \E v \in Versions : OrphanExits(s, v)
=============================================================================
