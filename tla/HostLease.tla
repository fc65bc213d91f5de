------------------------------ MODULE HostLease ------------------------------
(***************************************************************************)
(* A host's lease while its game server runs: the heartbeat job of the     *)
(* client, the row of active_lock it extends, and the client that watches  *)
(* the job and stops the game (client/adapters/valheim/Adapter.ps1 and     *)
(* client/adapters/palworld/Adapter.ps1).                                  *)
(*                                                                         *)
(* Time is a counter.  What the code does after a delay is done by then:   *)
(* the clock does not pass a deadline of the client, of its job or of a    *)
(* game server that was told to end.  A request may be served late, or     *)
(* after the client has given it up; its answer may be late or lost.       *)
(***************************************************************************)
EXTENDS Integers

CONSTANTS
  Game,         \* "valheim" or "palworld"
  Ttl,          \* SAVE_SYNC_LOCK_TTL_SECONDS
  Intervals,    \* values of HeartbeatSeconds
  RequestCap,   \* longest heartbeat request: 30 s; Palworld leaves it to the transport
  Shutdown,     \* ShutdownTimeoutSeconds, before it SaveGraceSeconds in Palworld
  Grace,        \* PostExitGraceSeconds
  Margin,       \* the 10 s of Get-ShutdownSafetyReserveSeconds
  FitsMargin,   \* the 5 s of Assert-HeartbeatFitsLockTtl
  Poll,         \* most time between two looks at the heartbeat
  Signal,       \* most time until the game server is told to end
  MaxWait,      \* most time a request waits for the write lock
  Skew,         \* most that the client's clock is behind the service's
  MaxTime       \* bound: the clock

ASSUME LeaseAssumption ==
  /\ Game \in {"valheim", "palworld"}
  /\ Intervals \subseteq Nat \ {0}
  /\ {Ttl, RequestCap, Shutdown, Grace, Margin, FitsMargin, Poll, Signal, MaxWait, Skew, MaxTime}
       \subseteq Nat

VARIABLES
  now,
  expiry,     \* expires_at of the row
  stray,      \* how many requests the client gave up may still be served
  interval,   \* HeartbeatSeconds
  behind,     \* how far the client's clock is behind
  job,        \* the heartbeat job
  since,      \* when it began what it does
  failures,   \* consecutiveFailures
  answer,     \* the expiresAt that is on its way to it
  took,       \* how long its last successful request took
  known,      \* the last expiresAt the client was told
  client,     \* the client's main script
  checked,    \* when it last looked at the heartbeat, or began to stop the game
  game        \* the game server runs

row == <<expiry, stray>>
config == <<interval, behind>>
heartbeat == <<job, since, failures, answer, took, known>>
host == <<client, checked, game>>
vars == <<now, row, config, heartbeat, host>>

Valheim == Game = "valheim"

JobState == {"off", "asleep", "asking", "served", "writing", "fatal"}
ClientState == {"locked", "preparing", "running", "stopping", "ended"}

TypeOK ==
  /\ now \in Nat /\ expiry \in Nat /\ stray \in Nat
  /\ interval \in Intervals /\ behind \in Nat
  /\ job \in JobState /\ since \in Nat /\ failures \in Nat
  /\ answer \in Nat /\ took \in Nat /\ known \in Nat
  /\ client \in ClientState /\ checked \in Nat /\ game \in BOOLEAN

\* Get-HeartbeatRequestTimeoutSeconds.
RequestTimeout ==
  IF ~Valheim \/ interval \div 2 > RequestCap THEN RequestCap
  ELSE IF interval < 2 THEN 1 ELSE interval \div 2

\* Get-ShutdownSafetyReserveSeconds.
Reserve == Shutdown + Grace + Margin

\* What the client's clock leaves of the lease it knows of.
Remaining == known - (now - behind)

-----------------------------------------------------------------------------
(* The service: POST /heartbeat reads the clock, waits for the write lock   *)
(* and extends the row, if it has not expired by then, from what it read.   *)

Extend(r) ==
  /\ now < expiry
  /\ r >= now - MaxWait
  /\ expiry' = r + Ttl

Serve ==
  /\ job = "asking"
  /\ \E r \in since..now : Extend(r) /\ answer' = r + Ttl
  /\ job' = "served"
  /\ UNCHANGED <<now, stray, config, since, failures, took, known, host>>

\* The request that was given up extends the row all the same.
ServeStray ==
  /\ stray > 0
  /\ \E r \in 0..now : Extend(r)
  /\ stray' = stray - 1
  /\ UNCHANGED <<now, config, heartbeat, host>>

-----------------------------------------------------------------------------
(* The job of Start-HeartbeatJob.                                           *)

Beat ==
  /\ job = "asleep"
  /\ now >= since + interval
  /\ job' = "asking"
  /\ since' = now
  /\ UNCHANGED <<now, row, config, failures, answer, took, known, host>>

Answered ==
  /\ job = "served"
  /\ job' = "writing"
  /\ known' = answer
  /\ failures' = 0
  /\ answer' = 0
  /\ took' = now - since
  /\ since' = now
  /\ UNCHANGED <<now, row, config, host>>

\* No answer in time, no connection, a 5xx; or, final in the Valheim client, a
\* 4xx: the session is gone, or its token or computer was revoked.
RequestFails(terminal) ==
  /\ job \in {"asking", "served"}
  /\ job' = "writing"
  /\ failures' = IF terminal /\ Valheim THEN 3 ELSE failures + 1
  /\ stray' = IF job = "asking" THEN stray + 1 ELSE stray
  /\ answer' = 0
  /\ since' = now
  /\ UNCHANGED <<now, expiry, config, took, known, host>>

\* WriteAllText has truncated the state file in place and now ends.
Written ==
  /\ job = "writing"
  /\ job' = IF failures >= 3 THEN "fatal" ELSE "asleep"
  /\ UNCHANGED <<now, row, config, since, failures, answer, took, known, host>>

-----------------------------------------------------------------------------
(* Get-HeartbeatStatus.                                                     *)

\* Mutant: the Valheim client, too, waits for the job to give up.
LostAfterThreeFailures == job = "fatal"

LeaseLost == job = "fatal" \/ (Valheim /\ (failures >= 3 \/ Remaining <= Reserve))

\* The Valheim client takes a file it cannot read for a lost lease.
MayReadFatal == LeaseLost \/ (Valheim /\ job = "writing")

-----------------------------------------------------------------------------
(* The client, from the lock it was given to the end of its game server.    *)

\* Mutant: the reserve alone has to fit.
ReserveFits == Valheim => Reserve < Remaining - FitsMargin

\* Assert-HeartbeatFitsLockTtl; the Palworld client does not look at the lease.
HeartbeatFits ==
  Valheim => Remaining > FitsMargin /\ interval + RequestTimeout + Reserve < Remaining - FitsMargin

Prepare ==
  /\ client = "locked"
  /\ HeartbeatFits
  /\ client' = "preparing"
  /\ job' = "asleep"
  /\ since' = now
  /\ UNCHANGED <<now, row, config, failures, answer, took, known, checked, game>>

\* The local world is in place.  Only the Valheim client looks before it leaps.
StartServer ==
  /\ client = "preparing"
  /\ Valheim => ~LeaseLost
  /\ client' = "running"
  /\ checked' = now
  /\ game' = TRUE
  /\ UNCHANGED <<now, row, config, heartbeat>>

\* Wait-ForValheimReady, Wait-ForPalRestInfo and Wait-ForSessionEndRequest.
Look ==
  /\ client = "running"
  /\ ~LeaseLost
  /\ checked' = now
  /\ UNCHANGED <<now, row, config, heartbeat, client, game>>

\* The status reads fatal, somebody presses ENTER or the start fails.
StopGame ==
  /\ client = "running"
  /\ client' = "stopping"
  /\ checked' = now
  /\ UNCHANGED <<now, row, config, heartbeat, game>>

\* The game server ends by itself or as it was told, or was never started.
End ==
  /\ client # "ended"
  /\ client' = "ended"
  /\ game' = FALSE
  /\ UNCHANGED <<now, row, config, heartbeat, checked>>

-----------------------------------------------------------------------------
\* acquire read the clock, waited and committed; the answer took its time.
Init ==
  /\ now = MaxWait + RequestCap
  /\ expiry \in Ttl..(now + Ttl)
  /\ known = expiry
  /\ stray = 0
  /\ interval \in Intervals
  /\ behind \in 0..Skew
  /\ job = "off" /\ since = now /\ failures = 0 /\ answer = 0 /\ took = 0
  /\ client = "locked" /\ checked = now /\ game = FALSE

\* Nothing is overdue.
Tick ==
  /\ now < MaxTime
  /\ client \notin {"locked", "ended"}
  /\ job = "asleep" => now < since + interval
  /\ job \in {"asking", "served"} => now < since + RequestTimeout
  /\ job # "writing"
  /\ client = "running" => now < checked + Poll
  /\ client = "stopping" => now < checked + Signal + Shutdown
  /\ now' = now + 1
  /\ UNCHANGED <<row, config, heartbeat, host>>

Next ==
  \/ Tick
  \/ /\ client # "ended"
     /\ \/ Serve \/ ServeStray
        \/ Beat \/ Answered \/ Written \/ \E terminal \in BOOLEAN : RequestFails(terminal)
        \/ Prepare \/ StartServer \/ Look \/ StopGame \/ End

Spec == Init /\ [][Next]_vars

-----------------------------------------------------------------------------
\* No other host can be given the lock while this one's game server runs, even
\* while it is shutting down (docs/AGENT-HANDOFF.md:30, docs/ARCHITECTURE.md:111).
GameEndsBeforeLease == game => now < expiry

\* What the reserve has beyond the shutdown, and the delays it does not name.
Slack  == Grace + Margin
Delays == Poll + Signal + MaxWait + Skew

\* Whatever becomes of the heartbeats, a row set back by one that was given up
\* included, the game server has ended when the lease expires, with Slack to
\* spare but for the delays that nothing in the reserve is for: it outlives the
\* lease by less than Delays - Slack (valheim/Adapter.ps1:630-635, 707;
\* database.py:58-61).
OverrunIsBounded == game => now + Slack < expiry + Delays

\* Nobody is sent away for a configuration: until a heartbeat fails, or its
\* answer takes longer than the margin, the lease is never taken for lost but by
\* a look at the state file while the job rewrites it
\* (valheim/Adapter.ps1:629-634, 694-697, 707-709).
HealthyLeaseLasts ==
  client \in {"preparing", "running"} /\ failures = 0 /\ took <= FitsMargin /\ job # "writing"
    => ~MayReadFatal

-----------------------------------------------------------------------------
(* Why they hold: what every step preserves.                               *)

\* A request that is served late may set the row back, but not by more than it
\* waited; and the client is told of newer and newer leases.
KnownInv ==
  /\ since <= now
  /\ known <= since + Ttl
  /\ expiry >= known - MaxWait
  /\ job = "served" => /\ answer \in (since + Ttl)..(now + Ttl)
                       /\ expiry >= answer - MaxWait

\* What the client last saw of the lease covers the end of the game.
LookInv ==
  /\ behind <= Skew
  /\ game => client \in {"running", "stopping"}
  /\ client = "running" =>
       /\ now <= checked + Poll
       /\ known > checked - behind + Reserve
  /\ client = "stopping" =>
       /\ now <= checked + Signal + Shutdown
       /\ known > checked - Poll - behind + Reserve

LeaseInv == TypeOK /\ KnownInv /\ LookInv

\* As long as heartbeats succeed, the next one is answered before the lease is
\* down to the reserve.
HealthyInv ==
  /\ client \in {"preparing", "running"} /\ job # "off" =>
       Ttl + behind > interval + RequestTimeout + Reserve + FitsMargin
  /\ job = "writing" => now = since
  /\ job = "asleep" => now <= since + interval
  /\ job \in {"asking", "served"} => now <= since + RequestTimeout
  /\ client \in {"preparing", "running"} /\ failures = 0 /\ took <= FitsMargin =>
       /\ job \in {"asleep", "writing"} =>
            known - since + behind > interval + RequestTimeout + Reserve
       /\ job \in {"asking", "served"} => known - since + behind > RequestTimeout + Reserve
  /\ client \in {"preparing", "running"} => job # "off" /\ (failures = 0 => job # "fatal")
=============================================================================
