----------------------------- MODULE GameClient -----------------------------
(***************************************************************************)
(* The Windows clients of the two games on several hosts, against the      *)
(* promise of the service, SaveLedger: check the status, take the lock,    *)
(* bring the local world up to date, run the game server, archive, upload, *)
(* and find out what became of an upload whose answer was lost.            *)
(*                                                                         *)
(* A world is the set of the sessions in which a game server changed it.   *)
(* The clients share most of their flow: a definition that says nothing of *)
(* the game translates palworld/Adapter.ps1, of which valheim/Adapter.ps1  *)
(* has a copy.                                                             *)
(***************************************************************************)
EXTENDS Naturals

CONSTANTS Hosts, Sessions, NoSession, MaxVersion,
          Games        \* the games considered, of which one is played

ASSUME ClientAssumption ==
  /\ Games \subseteq {"palworld", "valheim"}
  /\ MaxVersion \in Nat
  /\ NoSession \notin Sessions

VARIABLES
  game,       \* the game of this deployment
  entry, head, lease, opened,   \* the service, as in SaveLedger
  sent,       \* the archive a session uploaded; the service may still be busy with it
  pc,         \* where each host's client is, "off" when it does not run
  session,    \* $sessionId of the client's latest lock
  world,      \* the local world
  pending,    \* baseVersion of pending-session.json
  state,      \* version of state.json, 0 without the file
  server,     \* hosts whose game server runs
  protected,  \* history: sessions saved by a server while there was a pending file
  misled,     \* history: hosts that started from, or recorded, another version than theirs
  blind       \* history: sessions played on a misled host

service == <<entry, head, lease, opened>>
local   == <<session, world, pending, state>>
history == <<protected, misled, blind>>
vars    == <<game, service, sent, pc, local, server, history>>

Worlds    == SUBSET Sessions
NoWorld   == {NoSession}        \* no folder of the world
NoPending == MaxVersion + 1     \* no pending-session.json

Service == INSTANCE SaveLedger WITH Saves <- Worlds, NoSave <- NoWorld

base(h) == opened[session[h]]

Published(s) == {v \in 1..head : entry[v].session = s}

Init ==
  /\ game \in Games
  /\ Service!Init
  /\ sent      = [s \in Sessions |-> NoWorld]
  /\ pc        = [h \in Hosts |-> "off"]
  /\ session   = [h \in Hosts |-> NoSession]
  /\ world     \in [Hosts -> {NoWorld, {}}]
  /\ pending   = [h \in Hosts |-> NoPending]
  /\ state     = [h \in Hosts |-> 0]
  /\ server    = {}
  /\ protected = {}
  /\ misled    = {}
  /\ blind     = {}

At(h, here, there) ==
  /\ pc[h] = here
  /\ pc' = [pc EXCEPT ![h] = there]

-----------------------------------------------------------------------------
(* The service, its administrators and the clock.                          *)

\* An upload arrives and becomes a version, whether or not its client is there.
ServicePublishes(s) ==
  /\ sent[s] # NoWorld
  /\ Service!Publish(s, sent[s])
  /\ UNCHANGED <<game, sent, pc, local, server, history>>

\* A lock expires or is forced, a version is restored.
ServiceChanges ==
  /\ Service!Close \/ \E v \in 1..head : Service!Restore(v)
  /\ UNCHANGED <<game, sent, pc, local, server, history>>

-----------------------------------------------------------------------------
(* Before the game server starts.                                          *)

\* GET /status, before the lock: a pending session must be of that version.
CheckStatus(h) ==
  /\ At(h, "off", "checked")
  /\ h \notin server
  /\ pending[h] \in {NoPending, head}
  /\ UNCHANGED <<game, service, sent, local, server, history>>

\* POST /lock.
TakeLock(h, s) ==
  /\ At(h, "checked", "locked")
  /\ Service!Open(s)
  /\ session' = [session EXCEPT ![h] = s]
  /\ UNCHANGED <<game, sent, world, pending, state, server, history>>

\* The answer to POST /lock is lost: the client ends and the lock stays.
LockAnswerLost(h, s) ==
  /\ At(h, "checked", "off")
  /\ Service!Open(s)
  /\ UNCHANGED <<game, sent, local, server, history>>

\* The session starts with the local world as it is.
KeepLocalWorld(h, led) ==
  /\ At(h, "locked", "prepared")
  /\ world[h] # NoWorld
  /\ misled' = led
  /\ blind' = IF h \in led THEN blind \union {session[h]} ELSE blind
  /\ UNCHANGED <<game, service, sent, local, server, protected>>

HasPending(h) == pc[h] = "locked" /\ pending[h] # NoPending
NoneIsPending(h) == pc[h] = "locked" /\ pending[h] = NoPending

\* Mutant: Valheim does not compare either.
ResumePendingUnchecked(h) ==
  /\ game = "valheim"
  /\ HasPending(h)
  /\ KeepLocalWorld(h, misled)

\* Valheim compares the pending session with the lock it was given.
ResumePendingValheim(h) ==
  /\ game = "valheim"
  /\ HasPending(h)
  /\ pending[h] = base(h)
  /\ KeepLocalWorld(h, misled)

\* Palworld relies on the status it read before the lock.
ResumePendingPalworld(h) ==
  /\ game = "palworld"
  /\ HasPending(h)
  /\ KeepLocalWorld(h, IF pending[h] = base(h) THEN misled ELSE misled \union {h})

\* The first session of all initializes the service with the local world.
InitializeRemote(h) ==
  /\ NoneIsPending(h)
  /\ base(h) = 0
  /\ KeepLocalWorld(h, misled)

\* Mutant: any recorded version will do.
HasAnyVersion(h) == state[h] > 0 /\ world[h] # NoWorld

LocalMatches(h) == state[h] = base(h) /\ world[h] # NoWorld

UseLocalCopy(h) ==
  /\ NoneIsPending(h)
  /\ base(h) > 0
  /\ LocalMatches(h)
  /\ KeepLocalWorld(h, misled)

\* GET /download, whose version must be the lock's.
Download(h) ==
  /\ NoneIsPending(h)
  /\ base(h) > 0
  /\ ~LocalMatches(h)
  /\ head = base(h)

\* The downloaded world replaces the local one.
Install(h) ==
  /\ Download(h)
  /\ At(h, "locked", "installed")
  /\ world' = [world EXCEPT ![h] = entry[head].save]
  /\ misled' = misled \ {h}
  /\ UNCHANGED <<game, service, sent, session, pending, state, server, protected, blind>>

\* The client dies between the two moves of the installation.
DiesInInstall(h) ==
  /\ Download(h)
  /\ At(h, "locked", "off")
  /\ world' = [world EXCEPT ![h] = NoWorld]
  /\ UNCHANGED <<game, service, sent, session, pending, state, server, history>>

RecordInstalled(h) ==
  /\ At(h, "installed", "prepared")
  /\ state' = [state EXCEPT ![h] = base(h)]
  /\ UNCHANGED <<game, service, sent, session, world, pending, server, history>>

\* Mutant: the lock is given back after any failure.
AnyStep == {"locked", "installed", "prepared", "starting", "entered", "playing"}

\* $lockHeld -and -not $sessionEntered, in the catch clause: Palworld enters the
\* session when its server answers, Valheim just before it starts the server.
NotEntered == {"locked", "installed", "prepared", "starting", "entered"}

\* The run fails before its session was entered, and gives back the lock; the
\* server was stopped (ServerExits), or it could not be.
FailsAndUnlocks(h) ==
  /\ pc[h] \in NotEntered
  /\ pc' = [pc EXCEPT ![h] = "off"]
  /\ lease.session = session[h]
  /\ Service!Close
  /\ UNCHANGED <<game, sent, local, server, history>>

\* The run ends in any other way: the client fails or is killed.  An archive that
\* could not be confirmed is kept in pending-uploads, which no client reads.
Ends(h) ==
  /\ pc[h] # "off"
  /\ pc' = [pc EXCEPT ![h] = "off"]
  /\ UNCHANGED <<game, service, sent, local, server, history>>

-----------------------------------------------------------------------------
(* The game server runs.                                                   *)

WritePending(h) == pending' = [pending EXCEPT ![h] = base(h)]

\* Palworld starts the server, and writes pending-session.json once it answers.
StartPalworld(h) ==
  /\ game = "palworld"
  /\ At(h, "prepared", "starting")
  /\ server' = server \union {h}
  /\ UNCHANGED <<game, service, sent, local, history>>

EnterPalworld(h) ==
  /\ game = "palworld"
  /\ At(h, "starting", "playing")
  /\ h \in server
  /\ WritePending(h)
  /\ UNCHANGED <<game, service, sent, session, world, state, server, history>>

\* Valheim writes pending-session.json, and then starts the server.
EnterValheim(h) ==
  /\ game = "valheim"
  /\ At(h, "prepared", "entered")
  /\ WritePending(h)
  /\ UNCHANGED <<game, service, sent, session, world, state, server, history>>

StartValheim(h) ==
  /\ game = "valheim"
  /\ At(h, "entered", "playing")
  /\ server' = server \union {h}
  /\ UNCHANGED <<game, service, sent, local, history>>

\* The server writes the world, whether or not its client still runs.
ServerSaves(h) ==
  /\ h \in server
  /\ world' = [world EXCEPT ![h] = @ \union {session[h]}]
  /\ protected' = protected \union {s \in {session[h]} : pending[h] # NoPending}
  /\ UNCHANGED <<game, service, sent, pc, session, pending, state, server, misled, blind>>

\* The server ends by itself, or is ended by somebody.
ServerExits(h) ==
  /\ h \in server
  /\ server' = server \ {h}
  /\ UNCHANGED <<game, service, sent, pc, local, history>>

-----------------------------------------------------------------------------
(* The upload.                                                             *)

\* The closed world is archived, and the archive sent.
ArchiveAndUpload(h) ==
  /\ At(h, "playing", "uploading")
  /\ WritePending(h)
  /\ sent' = [sent EXCEPT ![session[h]] = world[h]]
  /\ UNCHANGED <<game, service, session, world, state, history>>

\* Palworld archives the world of a server that has ended, for whatever reason.
UploadPalworld(h) ==
  /\ game = "palworld"
  /\ h \notin server
  /\ ArchiveAndUpload(h)
  /\ UNCHANGED server

\* Valheim only if the server ends at the client's request.
UploadValheim(h) ==
  /\ game = "valheim"
  /\ h \in server
  /\ ArchiveAndUpload(h)
  /\ server' = server \ {h}

\* The answer: the version published, which state.json then names.
Confirmed(h) ==
  /\ At(h, "uploading", "recorded")
  /\ \E v \in Published(session[h]) : state' = [state EXCEPT ![h] = v]
  /\ misled' = misled \ {h}
  /\ UNCHANGED <<game, service, sent, session, world, pending, server, protected, blind>>

\* Mutant: the version is compared, the SHA-256 and its author are not.
HeadAdvanced(h) == head = base(h) + 1

\* The status shows this upload: a ZIP's SHA-256 is its own, because its
\* manifest names its host and the time.
HeadIsUpload(h) == head = base(h) + 1 /\ entry[head].session = session[h]

\* The answer does not come, or cannot be recorded, and GET /status shows the upload.
Reconciles(h) ==
  /\ At(h, "uploading", "reconciled")
  /\ HeadIsUpload(h)
  /\ UNCHANGED <<game, service, sent, local, server, history>>

\* A second GET /status; state.json names what that one shows.
RecordReconciled(h) ==
  /\ At(h, "reconciled", "recorded")
  /\ state' = [state EXCEPT ![h] = head]
  /\ misled' = IF head = base(h) + 1 THEN misled \ {h} ELSE misled \union {h}
  /\ UNCHANGED <<game, service, sent, session, world, pending, server, protected, blind>>

\* pending-session.json is removed; the run is complete.
Completes(h) ==
  /\ At(h, "recorded", "off")
  /\ pending' = [pending EXCEPT ![h] = NoPending]
  /\ UNCHANGED <<game, service, sent, session, world, state, server, history>>

-----------------------------------------------------------------------------

Prepare(h) ==
  \/ CheckStatus(h)
  \/ \E s \in Sessions : TakeLock(h, s) \/ LockAnswerLost(h, s)
  \/ ResumePendingValheim(h) \/ ResumePendingPalworld(h)
  \/ InitializeRemote(h) \/ UseLocalCopy(h)
  \/ Install(h) \/ DiesInInstall(h) \/ RecordInstalled(h)

Play(h) ==
  \/ StartPalworld(h) \/ EnterPalworld(h)
  \/ EnterValheim(h) \/ StartValheim(h)
  \/ ServerSaves(h) \/ ServerExits(h)

Publish(h) ==
  \/ UploadPalworld(h) \/ UploadValheim(h) \/ Confirmed(h)
  \/ Reconciles(h) \/ RecordReconciled(h) \/ Completes(h)

HostStep(h) == Prepare(h) \/ Play(h) \/ Publish(h) \/ FailsAndUnlocks(h) \/ Ends(h)

Next ==
  \/ \E h \in Hosts : HostStep(h)
  \/ \E s \in Sessions : ServicePublishes(s)
  \/ ServiceChanges

Spec == Init /\ [][Next]_vars

-----------------------------------------------------------------------------
(* Properties.                                                             *)

Steps == {"off", "checked", "locked", "installed", "prepared", "starting", "entered",
          "playing", "uploading", "reconciled", "recorded"}

Bases == 0..MaxVersion

TypeOK ==
  /\ game \in Games
  /\ entry \in [1..MaxVersion -> [session : Sessions \union {NoSession},
                                   save : Worlds \union {NoWorld}, from : Bases]]
  /\ head \in Bases
  /\ lease \in [session : Sessions \union {NoSession}, base : Bases]
  /\ opened \in [Sessions -> 0..(MaxVersion + 1)]
  /\ sent \in [Sessions -> Worlds \union {NoWorld}]
  /\ pc \in [Hosts -> Steps]
  /\ session \in [Hosts -> Sessions \union {NoSession}]
  /\ world \in [Hosts -> Worlds \union {NoWorld}]
  /\ pending \in [Hosts -> Bases \union {NoPending}]
  /\ state \in [Hosts -> Bases]
  /\ server \subseteq Hosts
  /\ protected \subseteq Sessions
  /\ misled \subseteq Hosts
  /\ blind \subseteq Sessions

\* What a session played under a pending-session.json is in some local world or
\* in a version, whatever fails and whoever dies (docs/AGENT-HANDOFF.md:31): a
\* pending world is never replaced, and stays pending until it is published.
ProtectedProgressStays ==
  \A s \in protected :
    \/ \E h \in Hosts : world[h] # NoWorld /\ s \in world[h]
    \/ \E v \in 1..head : s \in entry[v].save

\* A version published by a session contains the version it follows: the
\* progress of other hosts is carried on ("Nothing will be overwritten.",
\* palworld/Adapter.ps1:1165).
NothingOverwritten ==
  \A v \in 2..head :
    entry[v].session # NoSession => entry[v - 1].save \subseteq entry[v].save

\* Where it does not, the client had taken another version for its own: a
\* Palworld pending session that it compared with a status from before the lock
\* (Adapter.ps1:1160-1193), or a second status after a lost answer (1321-1325).
OnlyMisledOverwrite ==
  \A v \in 2..head :
    \/ entry[v].session = NoSession
    \/ entry[v].session \in blind
    \/ entry[v - 1].save \subseteq entry[v].save

\* A world that state.json or pending-session.json takes for the head contains it.
LocalCopyIsCurrent ==
  \A h \in Hosts \ misled :
    head > 0 /\ head \in {state[h], pending[h]} /\ world[h] # NoWorld
    => entry[head].save \subseteq world[h]

\* Only a Palworld client that did not get its server to answer gives back the
\* lock of a session that changed the world, or whose server still runs
\* (docs/ADAPTING-OTHER-GAMES.md, "do not release a modified session that was
\* not published").
ModifiedIsNotReleased ==
  [][ \A h \in Hosts :
        FailsAndUnlocks(h) /\ ~(game = "palworld" /\ pc[h] = "starting")
        => session[h] \notin world[h] /\ h \notin server' ]_vars

-----------------------------------------------------------------------------
(* The inductive invariant.                                                *)

\* The steps of a session, from its lock to the end of its upload.
Playable == {"prepared", "starting", "entered", "playing"}
Unsent   == {"locked", "installed"} \union Playable
Uploaded == {"uploading", "reconciled", "recorded"}

\* The steps of a session whose game server has not been started.
NotStarted == {"locked", "installed", "prepared", "entered"}

\* A version of a session is what the session sent, on top of its base.
VersionOf(v, s) ==
  entry[v].session = s => opened[s] = v - 1 /\ entry[v].save = sent[s]

LedgerInv ==
  /\ \A v \in 1..head : entry[v].save \in Worlds
  /\ \A v \in 1..head, s \in Sessions : VersionOf(v, s)
  /\ \A s \in Sessions :
       /\ opened[s] \in 0..head \union {NoPending}
       /\ sent[s] # NoWorld \/ s \in blind => opened[s] # NoPending

\* A session that was opened is of one host, or of none that knows of it.
SessionOk(h) ==
  /\ session[h] = NoSession => pc[h] \in {"off", "checked"} /\ h \notin server
  /\ session[h] # NoSession => opened[session[h]] # NoPending
  /\ \A k \in Hosts : session[k] = session[h] => k = h \/ session[h] = NoSession

\* The archive is of a world that nobody writes (docs/AGENT-HANDOFF.md:28): a
\* server runs only before its session's upload.
ServerOk(h) ==
  /\ h \in server => pc[h] \in {"off", "starting", "playing"}
  /\ pc[h] = "starting" => game = "palworld"
  /\ pc[h] \in Unsent \/ h \in server => sent[session[h]] = NoWorld
  /\ pc[h] \in Uploaded => sent[session[h]] = world[h]

\* A pending world is there, and the files name versions that exist.
FilesOk(h) ==
  /\ pc[h] \in {"installed"} \union Playable \union Uploaded \/ h \in server
     \/ pending[h] # NoPending => world[h] # NoWorld
  /\ pending[h] \in 0..head \union {NoPending}
  /\ state[h] \in 0..head

\* An upload is of a pending world, and what the client takes for its version is it.
UploadOk(h) ==
  /\ pc[h] \in Uploaded => pending[h] = base(h)
  /\ pc[h] = "reconciled" =>
       base(h) + 1 \in 1..head /\ entry[base(h) + 1].session = session[h]
  /\ pc[h] = "recorded" => \E v \in 1..head : entry[v].session = session[h]

\* The local world contains version b, if b is the head, or the base that the
\* client has locked.
Carries(h, b) ==
  b > 0 /\ (b = head \/ (pc[h] = "locked" /\ b = base(h))) /\ world[h] # NoWorld
  => entry[b].save \subseteq world[h]

\* A host that is not misled has what its files say, and one that was not misled
\* plays on, and sends, what contains its base.
CopyOk(h) ==
  /\ h \notin misled => Carries(h, state[h]) /\ Carries(h, pending[h])
  /\ pc[h] \in {"locked", "installed"} => session[h] \notin blind
  /\ pc[h] \in Playable /\ session[h] \in blind => h \in misled
  /\ pc[h] \in {"installed"} \union Playable /\ session[h] \notin blind /\ base(h) > 0
     => entry[base(h)].save \subseteq world[h]

SentInv ==
  \A s \in Sessions :
    sent[s] # NoWorld /\ s \notin blind /\ opened[s] > 0 => entry[opened[s]].save \subseteq sent[s]

\* Nobody has saved anything in a session whose game server has not started.
Unplayed(s) ==
  \/ opened[s] = NoPending
  \/ \E h \in Hosts : session[h] = s /\ pc[h] \in NotStarted

UnplayedInv ==
  \A s \in Sessions : Unplayed(s) =>
    /\ \A h \in Hosts : s \notin world[h]
    /\ \A t \in Sessions : s \notin sent[t]
    /\ \A v \in 1..head : s \notin entry[v].save

\* Protected progress is in a world that is still pending, or in a version.
ProgressInv ==
  \A s \in protected :
    \/ \E h \in Hosts : pending[h] # NoPending /\ s \in world[h]
    \/ \E v \in 1..head : s \in entry[v].save

HostOk(h) ==
  SessionOk(h) /\ ServerOk(h) /\ FilesOk(h) /\ UploadOk(h) /\ CopyOk(h)

ClientInv ==
  /\ TypeOK
  /\ LedgerInv
  /\ \A h \in Hosts : HostOk(h)
  /\ SentInv
  /\ OnlyMisledOverwrite
  /\ UnplayedInv
  /\ ProgressInv
=============================================================================
