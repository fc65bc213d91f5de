------------------------------- MODULE Service -------------------------------
(***************************************************************************)
(* The service as it is deployed (docker-compose.yml): web workers that    *)
(* migrate the database and then publish, and a backup supervisor that     *)
(* waits for the migrated database and works off what they queue.          *)
(***************************************************************************)
EXTENDS BackupSupervisor

vars == <<bootVars, supVars>>

Init == BootInit /\ SupInit

Next ==
  \/ BootNext /\ UNCHANGED supVars
  \/ SupNext /\ UNCHANGED <<database, migrator, worker>>
  \/ Publish

Spec == Init /\ [][Next]_vars

\* Workers and supervisors are restarted and go on; a hook that does not exit
\* meets its deadline; claims do not fail for ever.  Finalizing may.
Fairness ==
  /\ \A w \in Workers : WF_vars(BootProgress(w) /\ UNCHANGED supVars)
  /\ \A s \in Supervisors :
       /\ WF_vars(SupProgress(s) /\ UNCHANGED <<database, migrator, worker>>)
       /\ SF_vars(Mark(s) /\ UNCHANGED <<database, migrator, worker>>)

FairSpec == Spec /\ Fairness

TypeOK == BootTypeOK /\ SupTypeOK

-----------------------------------------------------------------------------
(* The database.                                                           *)

\* A database that says schema 5 has all of schema 5, wherever a start was
\* killed: the script commits piecemeal, the version does not
\* (database.py:105-190; docs/ARCHITECTURE.md:102).
CurrentSchemaIsComplete == version = SchemaVersion => Complete

\* A worker serves only the current schema, with valid save identities, and
\* never a database of Palworld Sync v1 (docs/MIGRATIONS.md:13-14).
ServesWhatItUnderstands ==
  (\E w \in Workers : worker[w].pc = "serving") =>
    /\ version = SchemaVersion
    /\ Complete
    /\ WorldGuid \notin columns
    /\ rows # "invalid"

\* A newer database is left as it is and no version is ever lowered
\* (docs/MIGRATIONS.md:13).
NoDowngrade ==
  [][/\ version > SchemaVersion => UNCHANGED <<database, ledger>>
     /\ version' >= version
     /\ tables \subseteq tables' /\ columns \subseteq columns']_vars

\* A worker that is down serves in the end, whoever else starts or dies at the
\* same time, if the database can be migrated: nobody keeps the flock.
Servable == version <= SchemaVersion /\ WorldGuid \notin columns /\ rows # "invalid"
EveryWorkerServes ==
  \A w \in Workers : Servable ~> worker[w].pc = "serving"

-----------------------------------------------------------------------------
(* The queue.                                                              *)

\* Hooks run one at a time, except those a supervisor lost sight of, even while
\* an old supervisor is still ending (docs/ARCHITECTURE.md:97).
OneHookAtATime ==
  \A s, t \in Supervisors : hook[s] # "none" /\ hook[t] # "none" => s = t

\* Nothing is claimed, run or recorded before the database is migrated, whatever
\* the queue held then (backup_supervisor.py:118-140, 419-421).
WorksOnMigratedDatabase ==
  \A s \in Supervisors : sup[s].pc \notin {"down", "schema"} => Complete

\* A version that was queued is queued once or has its outcome, never both and
\* never neither: no failure, stop or crash loses a backup or decides it twice
\* (docs/AGENT-HANDOFF.md:32, docs/API.md:260).
QueuedOrDecided ==
  LET decided == {v \in Versions : outcome[v] # "none"}
  IN  /\ IsInjective(queue)
      /\ Queued \intersect decided = {}
      /\ Queued \union decided = armed

\* What was recorded did happen: a completed backup had a hook that exited 0, a
\* failed one a hook that failed, or was not launched, or met its deadline; a
\* stop of the supervisor is neither (docs/ARCHITECTURE.md:93-95).
OutcomeIsReal ==
  \A v \in Versions : /\ outcome[v] = "completed" => v \in succeeded
                      /\ outcome[v] = "failed" => v \in failed

\* What GET /backup-status says of the current version is true, whichever jobs
\* count as stale: "completed" and "failed" report what happened to it, and with
\* backups enabled it is "unknown" only if its job is stale or it was published
\* while they were not (docs/API.md:256-262).
StatusIsHonest ==
  \A stale \in SUBSET Queued :
    LET state == BackupState(stale)
    IN  /\ state = "completed" => head \in succeeded
        /\ state = "failed" => head \in failed
        /\ state = "unknown" => head \in stale \/ head \notin armed

\* A queued version is attempted in the end, even if the outcome of another one
\* can never be recorded: a job that was attempted waits behind the others
\* (backup_supervisor.py:182-190).
Attempted(v) == \E s \in Supervisors : sup[s].job = v /\ sup[s].pc = "launching"
NoStarvation ==
  \A v \in Versions :
    enabled /\ Servable /\ v \in Queued ~> Attempted(v) \/ v \notin Queued

-----------------------------------------------------------------------------
(* Why it holds: what every step preserves.                                *)

\* Only the worker that holds the flock changes the schema.
FlockInv == \A w \in Workers : worker[w].pc \notin {"down", "serving"} <=> migrator = w

WorkerOk(w) ==
  /\ worker[w].pc \in {"script", "migrate"} =>
       version <= SchemaVersion /\ worker[w].seen = version
  /\ worker[w].pc = "migrate" => Tables \subseteq tables
  /\ worker[w].pc \in {"validate", "serving"} => version = SchemaVersion
  /\ worker[w].pc = "serving" => rows # "invalid"

WorkerInv == \A w \in Workers : WorkerOk(w)

DatabaseInv ==
  /\ CurrentSchemaIsComplete
  /\ WorldGuid \in columns => version = 0

BusyPC == {"claiming", "launching", "hook", "terminating", "finalizing"}

SingletonOk(s) ==
  /\ sup[s].pc # "down" <=> singleton = s
  /\ hook[s] # "none" => sup[s].pc \in {"hook", "terminating"}
  /\ sup[s].pc \notin {"down", "schema"} => version = SchemaVersion

SingletonInv == \A s \in Supervisors : SingletonOk(s)

\* The job at hand is queued until its outcome is, and what is known of the
\* attempt is what happened.
JobOk(s) ==
  /\ sup[s].pc \in BusyPC => sup[s].job \in Queued
  /\ sup[s].pc = "claiming" => sup[s].seen \in 1..Len(queue)
  /\ hook[s] = "exit0" => sup[s].job \in succeeded
  /\ hook[s] = "exit1" => sup[s].job \in failed
  /\ sup[s].pc = "terminating" => sup[s].result \in {"interrupted", "failed"}
  /\ sup[s].pc = "finalizing" => sup[s].result \in {"completed", "failed"}
  /\ sup[s].pc \in {"terminating", "finalizing"} /\ sup[s].result = "failed" =>
       sup[s].job \in failed
  /\ sup[s].pc = "finalizing" /\ sup[s].result = "completed" =>
       sup[s].job \in succeeded

JobInv == \A s \in Supervisors : JobOk(s)

ServiceInv ==
  /\ TypeOK
  /\ FlockInv /\ WorkerInv /\ DatabaseInv
  /\ SingletonInv /\ JobInv
  /\ QueuedOrDecided /\ armed \subseteq 1..head
  /\ OutcomeIsReal
=============================================================================
