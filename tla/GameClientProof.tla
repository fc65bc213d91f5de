--------------------------- MODULE GameClientProof ---------------------------
(***************************************************************************)
(* ClientInv is an invariant of GameClient for any number of hosts,        *)
(* sessions and versions, and with it the safety properties the run        *)
(* `client` checks.                                                        *)
(***************************************************************************)
EXTENDS GameClient, TLAPS

-----------------------------------------------------------------------------
(* The initial state.                                                      *)

LEMMA InitClient == Init => ClientInv
<1> SUFFICES ASSUME Init PROVE ClientInv
  OBVIOUS
<1> USE ClientAssumption DEF Init, Service!Init, NoWorld, NoPending, Worlds
<1>1. TypeOK
  <2>1. /\ entry \in [1..MaxVersion -> [session : Sessions \union {NoSession},
                                        save : Worlds \union {NoWorld}, from : Bases]]
        /\ lease \in [session : Sessions \union {NoSession}, base : Bases]
    BY DEF Bases, Service!NoEntry, Service!NoLease
  <2>2. game \in Games /\ head \in Bases /\ opened \in [Sessions -> 0..(MaxVersion + 1)]
    BY DEF Bases, Service!Never
  <2>3. /\ sent \in [Sessions -> Worlds \union {NoWorld}]
        /\ world \in [Hosts -> Worlds \union {NoWorld}]
        /\ server \subseteq Hosts /\ protected \subseteq Sessions
        /\ misled \subseteq Hosts /\ blind \subseteq Sessions
    OBVIOUS
  <2>4. /\ pc \in [Hosts -> Steps]
        /\ session \in [Hosts -> Sessions \union {NoSession}]
        /\ pending \in [Hosts -> Bases \union {NoPending}]
        /\ state \in [Hosts -> Bases]
    BY DEF Steps, Bases
  <2> QED
    BY <2>1, <2>2, <2>3, <2>4 DEF TypeOK
<1>2. LedgerInv
  BY DEF LedgerInv, VersionOf, Service!Never
<1>3. ASSUME NEW h \in Hosts PROVE HostOk(h)
  <2>1. SessionOk(h) /\ ServerOk(h)
    BY DEF SessionOk, ServerOk, Unsent, Uploaded, Playable
  <2>2. FilesOk(h) /\ UploadOk(h)
    BY DEF FilesOk, UploadOk, Uploaded, Playable
  <2>3. CopyOk(h)
    BY DEF CopyOk, Carries, Playable
  <2> QED
    BY <2>1, <2>2, <2>3 DEF HostOk
<1>4. SentInv /\ OnlyMisledOverwrite /\ ProgressInv
  BY DEF SentInv, OnlyMisledOverwrite, ProgressInv
<1>5. UnplayedInv
  BY DEF UnplayedInv
<1> QED
  BY <1>1, <1>2, <1>3, <1>4, <1>5 DEF ClientInv

-----------------------------------------------------------------------------
(* What a step of a host leaves alone.                                     *)

\* The local variables of another host.
SameHost(k) ==
  /\ pc'[k] = pc[k] /\ session'[k] = session[k] /\ world'[k] = world[k]
  /\ pending'[k] = pending[k] /\ state'[k] = state[k]
  /\ k \in server' <=> k \in server
  /\ k \in misled' <=> k \in misled

\* A step of host h: no version changes, a session is opened at most once, and an
\* archive is sent only by its own host, at the end of its session.
HostFrame(h) ==
  /\ UNCHANGED <<game, entry, head>>
  /\ \A k \in Hosts \ {h} : SameHost(k)
  /\ \A s \in Sessions :
       \/ opened'[s] = opened[s]
       \/ opened[s] = NoPending /\ opened'[s] = head
  /\ \A s \in Sessions :
       \/ sent'[s] = sent[s]
       \/ s = session[h] /\ pc[h] = "playing" /\ sent'[s] = world[h]
  /\ blind \subseteq blind'
  /\ \/ blind' = blind
     \/ blind' = blind \union {session[h]} /\ pc[h] = "locked"
  /\ \/ session'[h] = session[h]
     \/ session'[h] \in Sessions /\ opened[session'[h]] = NoPending /\ pc'[h] = "locked"
  /\ pc'[h] \in NotStarted => pc[h] \in NotStarted \/ opened[session'[h]] = NoPending

LEMMA HostStepFrame ==
  ASSUME TypeOK, NEW h \in Hosts, HostStep(h)
  PROVE  HostFrame(h)
<1> USE DEF TypeOK, HostFrame, SameHost, At, local, service, history,
            NotStarted, Service!Open, Service!Close, Service!Never, NoPending
<1>1. CASE CheckStatus(h) \/ \E s \in Sessions : LockAnswerLost(h, s)
  BY <1>1 DEF CheckStatus, LockAnswerLost
<1>2. CASE \E s \in Sessions : TakeLock(h, s)
  BY <1>2 DEF TakeLock
<1>3. CASE ResumePendingValheim(h) \/ ResumePendingPalworld(h) \/ InitializeRemote(h)
           \/ UseLocalCopy(h)
  BY <1>3 DEF ResumePendingValheim, ResumePendingPalworld, InitializeRemote, UseLocalCopy, KeepLocalWorld
<1>4. CASE Install(h) \/ DiesInInstall(h) \/ RecordInstalled(h)
  BY <1>4 DEF Install, DiesInInstall, RecordInstalled
<1>5. CASE Play(h)
  BY <1>5 DEF Play, StartPalworld, EnterPalworld, EnterValheim, StartValheim, ServerSaves,
              ServerExits, WritePending
<1>6. CASE UploadPalworld(h) \/ UploadValheim(h)
  BY <1>6 DEF UploadPalworld, UploadValheim, ArchiveAndUpload, WritePending
<1>7. CASE Confirmed(h) \/ Reconciles(h) \/ RecordReconciled(h) \/ Completes(h)
  BY <1>7 DEF Confirmed, Reconciles, RecordReconciled, Completes
<1>8. CASE FailsAndUnlocks(h) \/ Ends(h)
  BY <1>8 DEF FailsAndUnlocks, Ends
<1> QED
  BY <1>1, <1>2, <1>3, <1>4, <1>5, <1>6, <1>7, <1>8 DEF HostStep, Prepare, Publish

-----------------------------------------------------------------------------
(* Types.                                                                  *)

\* What ClientInv says of a host's session and worlds, at the steps that need it.
LEMMA Sessioned ==
  ASSUME ClientInv, NEW h \in Hosts, pc[h] \notin {"off", "checked"} \/ h \in server
  PROVE  /\ session[h] \in Sessions
         /\ base(h) \in 0..head
         /\ base(h) \in Bases
         /\ base(h) # NoPending
<1>1. session[h] \in Sessions
  BY DEF ClientInv, TypeOK, HostOk, SessionOk
<1>2. opened[session[h]] \in 0..head
  BY <1>1, ClientAssumption DEF ClientInv, LedgerInv, HostOk, SessionOk
<1>3. head \in 0..MaxVersion
  BY DEF ClientInv, TypeOK, Bases
<1> QED
  BY <1>1, <1>2, <1>3, ClientAssumption DEF base, Bases, NoPending

\* The local variables of the service keep their types under a host's step.
LEMMA ServiceTypes ==
  ASSUME ClientInv, NEW h \in Hosts, HostStep(h)
  PROVE  /\ lease' \in [session : Sessions \union {NoSession}, base : Bases]
         /\ opened' \in [Sessions -> 0..(MaxVersion + 1)]
         /\ sent' \in [Sessions -> Worlds \union {NoWorld}]
<1> USE ClientAssumption DEF ClientInv, TypeOK, Bases, service, Service!Open, Service!Close
<1>1. ASSUME NEW s \in Sessions, Service!Open(s), sent' = sent
      PROVE  /\ lease' \in [session : Sessions \union {NoSession}, base : Bases]
             /\ opened' \in [Sessions -> 0..(MaxVersion + 1)]
             /\ sent' \in [Sessions -> Worlds \union {NoWorld}]
  <2>1. head \in Bases /\ head \in 0..(MaxVersion + 1)
    OBVIOUS
  <2> QED
    BY <1>1, <2>1
<1>10. CASE \E s \in Sessions : LockAnswerLost(h, s) \/ TakeLock(h, s)
  BY <1>1, <1>10 DEF LockAnswerLost, TakeLock
<1>2. CASE FailsAndUnlocks(h)
  BY <1>2 DEF FailsAndUnlocks, Service!NoLease
<1>3. CASE UploadPalworld(h) \/ UploadValheim(h)
  BY <1>3 DEF UploadPalworld, UploadValheim, ArchiveAndUpload
<1>4. ASSUME UNCHANGED <<lease, opened, sent>>
      PROVE  /\ lease' \in [session : Sessions \union {NoSession}, base : Bases]
             /\ opened' \in [Sessions -> 0..(MaxVersion + 1)]
             /\ sent' \in [Sessions -> Worlds \union {NoWorld}]
  BY <1>4
<1>5. CASE CheckStatus(h) \/ ResumePendingValheim(h) \/ ResumePendingPalworld(h)
           \/ InitializeRemote(h) \/ UseLocalCopy(h) \/ Install(h) \/ DiesInInstall(h)
           \/ RecordInstalled(h) \/ Ends(h)
  BY <1>4, <1>5 DEF CheckStatus, ResumePendingValheim, ResumePendingPalworld, InitializeRemote,
     UseLocalCopy, KeepLocalWorld, Install, DiesInInstall, RecordInstalled, Ends
<1>6. CASE Play(h) \/ Confirmed(h) \/ Reconciles(h) \/ RecordReconciled(h) \/ Completes(h)
  BY <1>4, <1>6 DEF Play, StartPalworld, EnterPalworld, EnterValheim, StartValheim, ServerSaves,
     ServerExits, Confirmed, Reconciles, RecordReconciled, Completes
<1> QED
  BY <1>2, <1>3, <1>5, <1>6, <1>10 DEF HostStep, Prepare, Publish

LEMMA HostTypes ==
  ASSUME ClientInv, NEW h \in Hosts, HostStep(h)
  PROVE  /\ pc' \in [Hosts -> Steps]
         /\ session' \in [Hosts -> Sessions \union {NoSession}]
         /\ pending' \in [Hosts -> Bases \union {NoPending}]
         /\ state' \in [Hosts -> Bases]
         /\ server' \subseteq Hosts
<1>1. /\ pc \in [Hosts -> Steps]
      /\ session \in [Hosts -> Sessions \union {NoSession}]
      /\ pending \in [Hosts -> Bases \union {NoPending}]
      /\ state \in [Hosts -> Bases]
      /\ server \subseteq Hosts
      /\ head \in Bases
      /\ 1..head \subseteq Bases
  BY ClientAssumption DEF ClientInv, TypeOK, Bases
<1>2. pc[h] \notin {"off", "checked"} => base(h) \in Bases
  BY Sessioned
<1> USE <1>1 DEF Steps, At, local
<1>3. CASE CheckStatus(h) \/ \E s \in Sessions : LockAnswerLost(h, s)
  BY <1>3 DEF CheckStatus, LockAnswerLost
<1>4. CASE \E s \in Sessions : TakeLock(h, s)
  BY <1>4 DEF TakeLock
<1>5. CASE ResumePendingValheim(h) \/ ResumePendingPalworld(h) \/ InitializeRemote(h)
           \/ UseLocalCopy(h)
  BY <1>5 DEF ResumePendingValheim, ResumePendingPalworld, InitializeRemote, UseLocalCopy, KeepLocalWorld
<1>6. CASE Install(h) \/ DiesInInstall(h)
  BY <1>6 DEF Install, DiesInInstall
<1>7. CASE RecordInstalled(h)
  BY <1>2, <1>7 DEF RecordInstalled
<1>8. CASE StartPalworld(h) \/ StartValheim(h) \/ ServerSaves(h) \/ ServerExits(h)
  BY <1>8 DEF StartPalworld, StartValheim, ServerSaves, ServerExits
<1>9. CASE EnterPalworld(h) \/ EnterValheim(h)
  BY <1>2, <1>9 DEF EnterPalworld, EnterValheim, WritePending
<1>10. CASE UploadPalworld(h) \/ UploadValheim(h)
  BY <1>2, <1>10 DEF UploadPalworld, UploadValheim, ArchiveAndUpload, WritePending
<1>11. CASE Completes(h)
  BY <1>11 DEF Completes
<1>12. CASE Confirmed(h)
  BY <1>12 DEF Confirmed, Published
<1>13. CASE Reconciles(h) \/ RecordReconciled(h)
  BY <1>13 DEF Reconciles, RecordReconciled
<1>14. CASE FailsAndUnlocks(h) \/ Ends(h)
  BY <1>14 DEF FailsAndUnlocks, Ends
<1> QED
  BY <1>3, <1>4, <1>5, <1>6, <1>7, <1>8, <1>9, <1>10, <1>11, <1>12, <1>13, <1>14
     DEF HostStep, Prepare, Play, Publish

LEMMA WorldTypes ==
  ASSUME ClientInv, NEW h \in Hosts, HostStep(h)
  PROVE  /\ world' \in [Hosts -> Worlds \union {NoWorld}]
         /\ protected' \subseteq Sessions
         /\ misled' \subseteq Hosts
         /\ blind' \subseteq Sessions
<1> USE DEF ClientInv, TypeOK, local, history
<1>1. CASE CheckStatus(h) \/ \E s \in Sessions : LockAnswerLost(h, s) \/ TakeLock(h, s)
  BY <1>1 DEF CheckStatus, LockAnswerLost, TakeLock
<1>2. CASE ResumePendingValheim(h) \/ ResumePendingPalworld(h) \/ InitializeRemote(h)
           \/ UseLocalCopy(h)
  BY <1>2, Sessioned DEF ResumePendingValheim, ResumePendingPalworld, InitializeRemote, UseLocalCopy,
     KeepLocalWorld, At
<1>3. CASE Install(h) \/ DiesInInstall(h) \/ RecordInstalled(h)
  <2>1. Install(h) => head \in 1..head
    BY <1>3, Sessioned, ClientAssumption DEF Install, Download, NoneIsPending, Bases
  <2> QED
    BY <1>3, <2>1, ClientAssumption DEF Install, DiesInInstall, RecordInstalled, LedgerInv
<1>4. CASE ServerSaves(h)
  BY <1>4, Sessioned DEF ServerSaves, HostOk, FilesOk, Worlds
<1>5. CASE StartPalworld(h) \/ EnterPalworld(h) \/ EnterValheim(h) \/ StartValheim(h) \/ ServerExits(h)
  BY <1>5 DEF StartPalworld, EnterPalworld, EnterValheim, StartValheim, ServerExits
<1>6. CASE UploadPalworld(h) \/ UploadValheim(h) \/ Confirmed(h) \/ Reconciles(h)
           \/ RecordReconciled(h) \/ Completes(h)
  BY <1>6 DEF UploadPalworld, UploadValheim, ArchiveAndUpload, Confirmed, Reconciles,
     RecordReconciled, Completes
<1>7. CASE FailsAndUnlocks(h) \/ Ends(h)
  BY <1>7 DEF FailsAndUnlocks, Ends
<1> QED
  BY <1>1, <1>2, <1>3, <1>4, <1>5, <1>6, <1>7 DEF HostStep, Prepare, Play, Publish

LEMMA HostTypeOK ==
  ASSUME ClientInv, NEW h \in Hosts, HostStep(h)
  PROVE  TypeOK'
<1>1. UNCHANGED <<game, entry, head>>
  BY HostStepFrame DEF ClientInv, HostFrame
<1> QED
  BY <1>1, ServiceTypes, HostTypes, WorldTypes DEF ClientInv, TypeOK

-----------------------------------------------------------------------------
(* What follows from the frame alone.                                      *)

\* A session that a host has opened keeps its base.
LEMMA OpenedStays ==
  ASSUME NEW h \in Hosts, HostFrame(h), NEW s \in Sessions, opened[s] # NoPending
  PROVE  opened'[s] = opened[s]
BY DEF HostFrame

\* An archive that was sent is not replaced.
LEMMA SentStays ==
  ASSUME ClientInv, NEW h \in Hosts, HostFrame(h), NEW s \in Sessions, sent[s] # NoWorld
  PROVE  sent'[s] = sent[s]
<1>1. sent[session[h]] = NoWorld \/ pc[h] # "playing"
  BY DEF ClientInv, HostOk, ServerOk, Unsent, Playable
<1> QED
  BY <1>1 DEF HostFrame

LEMMA HostLedger ==
  ASSUME ClientInv, NEW h \in Hosts, HostStep(h)
  PROVE  LedgerInv'
<1>1. HostFrame(h)
  BY HostStepFrame DEF ClientInv
<1>2. UNCHANGED <<entry, head>> /\ head \in Nat
  BY <1>1 DEF HostFrame, ClientInv, TypeOK, Bases
<1>3. \A v \in 1..head : entry[v].save \in Worlds /\ entry[v].save # NoWorld
  BY ClientAssumption DEF ClientInv, LedgerInv, Worlds, NoWorld
<1>4. ASSUME NEW v \in 1..head, NEW s \in Sessions, entry[v].session = s
      PROVE  opened'[s] = v - 1 /\ entry[v].save = sent'[s]
  <2>1. opened[s] = v - 1 /\ entry[v].save = sent[s] /\ sent[s] # NoWorld
    BY <1>3, <1>4 DEF ClientInv, LedgerInv, VersionOf
  <2>2. opened[s] # NoPending
    BY <2>1 DEF ClientInv, LedgerInv
  <2> QED
    BY <1>1, <2>1, <2>2, OpenedStays, SentStays
<1>5. ASSUME NEW s \in Sessions
      PROVE  opened'[s] \in 0..head \union {NoPending}
  BY <1>1, <1>2 DEF HostFrame, ClientInv, LedgerInv
<1>6. ASSUME NEW s \in Sessions, opened'[s] = NoPending
      PROVE  sent'[s] = NoWorld /\ s \notin blind'
  <2>1. opened[s] = NoPending
    BY <1>1, <1>6, OpenedStays
  <2>2. sent[s] = NoWorld /\ s \notin blind
    BY <2>1 DEF ClientInv, LedgerInv
  <2>3. pc[h] \in {"playing", "locked"} => session[h] # s
    BY <2>1 DEF ClientInv, HostOk, SessionOk
  <2> QED
    BY <1>1, <2>2, <2>3 DEF HostFrame
<1> QED
  BY <1>2, <1>3, <1>4, <1>5, <1>6 DEF LedgerInv, VersionOf

LEMMA HostSent ==
  ASSUME ClientInv, NEW h \in Hosts, HostStep(h)
  PROVE  SentInv'
<1>1. HostFrame(h)
  BY HostStepFrame DEF ClientInv
<1> SUFFICES ASSUME NEW s \in Sessions, sent'[s] # NoWorld, s \notin blind', opened'[s] > 0
             PROVE  entry'[opened'[s]].save \subseteq sent'[s]
  BY DEF SentInv
<1>2. entry' = entry /\ s \notin blind
  BY <1>1 DEF HostFrame
<1>3. CASE sent[s] # NoWorld
  <2>1. opened'[s] = opened[s] /\ sent'[s] = sent[s]
    BY <1>1, <1>3, OpenedStays, SentStays DEF ClientInv, LedgerInv
  <2> QED
    BY <1>2, <1>3, <2>1 DEF ClientInv, SentInv
<1>4. CASE sent[s] = NoWorld
  <2>1. s = session[h] /\ pc[h] = "playing" /\ sent'[s] = world[h]
    BY <1>1, <1>4 DEF HostFrame
  <2>2. opened[s] # NoPending
    BY <2>1, Sessioned DEF base
  <2>3. opened'[s] = opened[s]
    BY <1>1, <2>2, OpenedStays
  <2> QED
    BY <1>2, <2>1, <2>3 DEF ClientInv, HostOk, CopyOk, Playable, base
<1> QED
  BY <1>3, <1>4

LEMMA HostOverwrite ==
  ASSUME ClientInv, NEW h \in Hosts, HostStep(h)
  PROVE  OnlyMisledOverwrite'
BY HostStepFrame DEF ClientInv, HostFrame, OnlyMisledOverwrite

\* What is known of the other hosts stays true.
LEMMA OtherHosts ==
  ASSUME ClientInv, NEW h \in Hosts, HostStep(h), NEW k \in Hosts \ {h}
  PROVE  HostOk(k)'
<1>1. HostFrame(h) /\ SameHost(k) /\ HostOk(k)
  BY HostStepFrame DEF ClientInv, HostFrame
<1>2. UNCHANGED <<game, entry, head>>
  BY <1>1 DEF HostFrame
<1>3. pc[k] \notin {"off", "checked"} \/ k \in server => session[k] \in Sessions
  BY Sessioned
<1>4. ASSUME session[k] # NoSession
      PROVE  /\ session[k] \in Sessions
             /\ opened[session[k]] # NoPending
             /\ opened'[session[k]] = opened[session[k]]
             /\ session[k] # session[h]
  <2>1. session[k] \in Sessions /\ opened[session[k]] # NoPending
    BY <1>4, <1>1 DEF ClientInv, TypeOK, HostOk, SessionOk
  <2>2. session[k] # session[h]
    BY <1>4 DEF ClientInv, HostOk, SessionOk
  <2> QED
    BY <1>1, <2>1, <2>2, OpenedStays
<1>5. session[k] # NoSession =>
        /\ sent'[session[k]] = sent[session[k]]
        /\ session[k] \in blind' <=> session[k] \in blind
        /\ session'[h] # session[k]
  BY <1>1, <1>4 DEF HostFrame
<1>6. SessionOk(k)'
  <2>1. ASSUME NEW j \in Hosts, session'[j] = session'[k], j # k
        PROVE  session'[k] = NoSession
    <3>1. CASE j = h
      BY <1>1, <1>5, <2>1, <3>1 DEF SameHost
    <3>2. CASE j # h
      BY <1>1, <2>1, <3>2 DEF SameHost, HostFrame, HostOk, SessionOk
    <3> QED
      BY <3>1, <3>2
  <2> QED
    BY <1>1, <1>4, <2>1 DEF SameHost, HostOk, SessionOk
<1>7. ServerOk(k)'
  BY <1>1, <1>2, <1>3, <1>5, ClientAssumption DEF SameHost, HostOk, ServerOk, Unsent, Uploaded, Playable
<1>8. FilesOk(k)'
  BY <1>1, <1>2 DEF SameHost, HostOk, FilesOk
<1>9. pc[k] \notin {"off", "checked"} => session[k] # NoSession
  BY <1>3, ClientAssumption
<1>10. UploadOk(k)'
  BY <1>1, <1>2, <1>4, <1>9 DEF SameHost, HostOk, UploadOk, Uploaded, base
<1>11. CopyOk(k)'
  BY <1>1, <1>2, <1>4, <1>5, <1>9 DEF SameHost, HostOk, CopyOk, Carries, Playable, base
<1> QED
  BY <1>6, <1>7, <1>8, <1>10, <1>11 DEF HostOk

-----------------------------------------------------------------------------
(* The host that takes the step.                                           *)

\* Its sessions: a lock is of a session that nobody has had.
LEMMA OwnSession ==
  ASSUME ClientInv, NEW h \in Hosts, HostStep(h)
  PROVE  SessionOk(h)'
<1>1. HostFrame(h) /\ SessionOk(h)
  BY HostStepFrame DEF ClientInv, HostOk
<1>2. CASE session'[h] = session[h]
  <2>1. ASSUME NEW k \in Hosts, session'[k] = session'[h], k # h
        PROVE  session'[h] = NoSession
    BY <1>1, <1>2, <2>1 DEF HostFrame, SameHost, SessionOk
  <2>2. session[h] # NoSession => opened'[session[h]] # NoPending
    BY <1>1, OpenedStays DEF SessionOk, ClientInv, TypeOK
  <2>3. ASSUME session[h] = NoSession
        PROVE  pc'[h] \in {"off", "checked"} /\ h \notin server'
    <3>1. pc[h] \in {"off", "checked"} /\ h \notin server
      BY <1>1, <2>3 DEF SessionOk
    <3>2. ~(\E s \in Sessions : TakeLock(h, s))
      BY <1>2, <2>3, ClientAssumption DEF TakeLock, ClientInv, TypeOK
    <3>3. CheckStatus(h) \/ Ends(h) \/ \E s \in Sessions : LockAnswerLost(h, s)
      BY <3>1, <3>2 DEF HostStep, Prepare, Play, Publish, At, KeepLocalWorld, ResumePendingValheim,
         ResumePendingPalworld, InitializeRemote, UseLocalCopy, Install, DiesInInstall, RecordInstalled,
         FailsAndUnlocks, NotEntered, StartPalworld, EnterPalworld, EnterValheim, StartValheim,
         ServerSaves, ServerExits, ArchiveAndUpload, UploadPalworld, UploadValheim, Confirmed,
         Reconciles, RecordReconciled, Completes
    <3> QED
      BY <3>1, <3>3 DEF CheckStatus, Ends, LockAnswerLost, At, ClientInv, TypeOK
  <2> QED
    BY <1>2, <2>1, <2>2, <2>3 DEF SessionOk
<1>3. CASE session'[h] # session[h]
  <2>1. PICK s \in Sessions : session'[h] = s /\ opened[s] = NoPending
    BY <1>1, <1>3 DEF HostFrame
  <2>2. TakeLock(h, s)
    BY <1>3, <2>1 DEF HostStep, Prepare, Play, Publish, local, KeepLocalWorld, CheckStatus, LockAnswerLost,
         ResumePendingValheim, ResumePendingPalworld, InitializeRemote, UseLocalCopy, Install,
         DiesInInstall, RecordInstalled, FailsAndUnlocks, Ends, StartPalworld, EnterPalworld,
         EnterValheim, StartValheim, ServerSaves, ServerExits, ArchiveAndUpload, UploadPalworld,
         UploadValheim, Confirmed, Reconciles, RecordReconciled, Completes, TakeLock, ClientInv, TypeOK
  <2>3. opened'[s] = head /\ head # NoPending
    BY <2>2, ClientAssumption DEF TakeLock, Service!Open, ClientInv, TypeOK, Bases, NoPending
  <2>4. ASSUME NEW k \in Hosts, session'[k] = s
        PROVE  k = h
    BY <1>1, <2>1, <2>4, ClientAssumption DEF HostFrame, SameHost, ClientInv, HostOk, SessionOk
  <2> QED
    BY <2>1, <2>3, <2>4, ClientAssumption DEF SessionOk
<1> QED
  BY <1>2, <1>3

\* The steps after which no session is under way.
Leaves(h) ==
  \/ CheckStatus(h) \/ Ends(h) \/ FailsAndUnlocks(h) \/ DiesInInstall(h) \/ Completes(h)
  \/ \E s \in Sessions : LockAnswerLost(h, s)

\* They leave the files as they are, or without a pending session.
LEMMA LeavesLocal ==
  ASSUME TypeOK, NEW h \in Hosts, Leaves(h)
  PROVE  /\ HostStep(h)
         /\ pc'[h] \in {"off", "checked"}
         /\ UNCHANGED <<session, state, sent, server, misled, blind>>
         /\ pc'[h] = "checked" => h \notin server
         /\ pending'[h] \in {pending[h], NoPending}
         /\ \/ world'[h] = world[h]
            \/ world'[h] = NoWorld /\ pending'[h] = NoPending /\ pc[h] = "locked"
<1> USE DEF TypeOK, local, history, At
<1>1. CASE CheckStatus(h) \/ \E s \in Sessions : LockAnswerLost(h, s)
  BY <1>1 DEF CheckStatus, LockAnswerLost, HostStep, Prepare
<1>2. CASE Ends(h) \/ FailsAndUnlocks(h)
  BY <1>2 DEF Ends, FailsAndUnlocks, HostStep
<1>3. CASE DiesInInstall(h)
  BY <1>3 DEF DiesInInstall, Download, NoneIsPending, HostStep, Prepare
<1>4. CASE Completes(h)
  BY <1>4 DEF Completes, HostStep, Publish
<1> QED
  BY <1>1, <1>2, <1>3, <1>4 DEF Leaves

LEMMA LeavesStep ==
  ASSUME ClientInv, NEW h \in Hosts, Leaves(h)
  PROVE  HostOk(h)'
<1>1. /\ HostStep(h)
      /\ pc'[h] \in {"off", "checked"}
      /\ UNCHANGED <<session, state, sent, server, misled, blind>>
      /\ pc'[h] = "checked" => h \notin server
      /\ pending'[h] \in {pending[h], NoPending}
      /\ \/ world'[h] = world[h]
         \/ world'[h] = NoWorld /\ pending'[h] = NoPending /\ pc[h] = "locked"
  BY LeavesLocal DEF ClientInv
<1>2. HostOk(h) /\ UNCHANGED <<entry, head>> /\ head \in 0..MaxVersion
  BY <1>1, HostStepFrame DEF ClientInv, HostFrame, TypeOK, Bases
<1>3. SessionOk(h)'
  BY <1>1, OwnSession
<1>4. ServerOk(h)'
  BY <1>1, <1>2 DEF HostOk, ServerOk, Unsent, Uploaded, Playable
<1>5. FilesOk(h)'
  BY <1>1, <1>2 DEF HostOk, ServerOk, FilesOk, Playable, Uploaded
<1>6. UploadOk(h)'
  BY <1>1 DEF UploadOk, Uploaded
<1>7. CopyOk(h)'
  BY <1>1, <1>2, ClientAssumption DEF HostOk, CopyOk, Carries, Playable, NoPending
<1> QED
  BY <1>3, <1>4, <1>5, <1>6, <1>7 DEF HostOk

\* A lock is of a new session, whose base is the head.
LEMMA TakeLockStep ==
  ASSUME ClientInv, NEW h \in Hosts, NEW s \in Sessions, TakeLock(h, s)
  PROVE  HostOk(h)'
<1>1. HostStep(h)
  BY DEF HostStep, Prepare, Play, Publish
<1>2. SessionOk(h)'
  BY <1>1, OwnSession
<1>3. HostOk(h) /\ HostFrame(h)
  BY <1>1, HostStepFrame DEF ClientInv
<1> USE ClientAssumption, Sessioned DEF ClientInv, TypeOK, TakeLock, At, history, Service!Open
<1>4. ServerOk(h)'
  <2>1. sent[s] = NoWorld
    BY DEF LedgerInv, Service!Never, NoPending
  <2> QED
    BY <1>3, <2>1 DEF HostOk, ServerOk, Unsent, Uploaded, Playable
<1>5. FilesOk(h)'
  BY <1>3 DEF HostOk, ServerOk, FilesOk, Uploaded, Playable
<1>6. UploadOk(h)'
  BY <1>3 DEF HostOk, UploadOk, Uploaded, Playable, base
<1>7. CopyOk(h)'
  <2>1. s \notin blind
    BY DEF LedgerInv, Service!Never, NoPending
  <2>2. base(h)' = head /\ pc'[h] = "locked" /\ session'[h] = s
    BY DEF base
  <2>3. UNCHANGED <<world, state, pending, entry, head, misled, blind>>
    OBVIOUS
  <2> QED
    BY <1>3, <2>1, <2>2, <2>3 DEF HostOk, CopyOk, Carries, Playable
<1> QED
  BY <1>2, <1>4, <1>5, <1>6, <1>7 DEF HostOk

\* The local world is played on: a pending one, the first of all, or the head.
LEMMA KeepStep ==
  ASSUME ClientInv, NEW h \in Hosts, 
         \/ ResumePendingValheim(h) \/ ResumePendingPalworld(h)
         \/ InitializeRemote(h) \/ UseLocalCopy(h)
  PROVE  HostOk(h)'
<1>1. HostStep(h)
  BY DEF HostStep, Prepare, Play, Publish
<1>2. SessionOk(h)'
  BY <1>1, OwnSession
<1>3. HostOk(h) /\ HostFrame(h)
  BY <1>1, HostStepFrame DEF ClientInv
<1> USE ClientAssumption, Sessioned DEF ClientInv, TypeOK, ResumePendingValheim, ResumePendingPalworld, InitializeRemote,
     UseLocalCopy, LocalMatches, HasPending, NoneIsPending, KeepLocalWorld, At, service, local
<1>4. ServerOk(h)'
  BY <1>3 DEF HostOk, SessionOk, ServerOk, Unsent, Uploaded, Playable
<1>5. FilesOk(h)'
  BY <1>3 DEF HostOk, ServerOk, FilesOk, Uploaded, Playable
<1>6. UploadOk(h)'
  BY <1>3 DEF HostOk, UploadOk, Uploaded, Playable, base
<1>7. CopyOk(h)'
  BY <1>3 DEF HostOk, FilesOk, CopyOk, Carries, Playable, base
<1> QED
  BY <1>2, <1>4, <1>5, <1>6, <1>7 DEF HostOk

\* The head replaces the local world.
LEMMA InstallStep ==
  ASSUME ClientInv, NEW h \in Hosts, Install(h)
  PROVE  HostOk(h)'
<1>1. HostStep(h)
  BY DEF HostStep, Prepare
<1>2. SessionOk(h)' /\ HostOk(h)
  BY <1>1, OwnSession DEF ClientInv
<1>3. /\ pc[h] = "locked" /\ pc'[h] = "installed"
      /\ pending[h] = NoPending
      /\ head = base(h) /\ base(h) > 0
      /\ world'[h] = entry[head].save
      /\ h \notin misled'
      /\ UNCHANGED <<entry, head, opened, sent, session, pending, state, server, blind>>
  BY DEF Install, Download, NoneIsPending, At, service, ClientInv, TypeOK
<1>4. head \in 1..head /\ head # NoPending /\ session[h] \in Sessions
  <2>1. session[h] \in Sessions /\ base(h) \in Bases /\ base(h) # NoPending
    BY <1>3, Sessioned
  <2> QED
    BY <1>3, <2>1, ClientAssumption DEF Bases
<1>5. entry[head].save # NoWorld
  BY <1>4, ClientAssumption DEF ClientInv, LedgerInv, Worlds, NoWorld
<1>6. ServerOk(h)'
  BY <1>2, <1>3 DEF HostOk, ServerOk, Unsent, Uploaded, Playable
<1>7. FilesOk(h)'
  BY <1>2, <1>3, <1>5 DEF HostOk, FilesOk
<1>8. UploadOk(h)'
  BY <1>3 DEF UploadOk, Uploaded
<1>9. CopyOk(h)'
  <2>1. base(h)' = base(h)
    BY <1>3 DEF base
  <2>2. Carries(h, state[h])' /\ Carries(h, pending[h])'
    BY <1>3, <2>1 DEF Carries
  <2> QED
    BY <1>2, <1>3, <2>1, <2>2 DEF HostOk, CopyOk, Playable
<1> QED
  BY <1>2, <1>6, <1>7, <1>8, <1>9 DEF HostOk

\* Then state.json names it.
LEMMA RecordInstalledStep ==
  ASSUME ClientInv, NEW h \in Hosts, RecordInstalled(h)
  PROVE  HostOk(h)'
<1>1. HostStep(h)
  BY DEF HostStep, Prepare, Play, Publish
<1>2. SessionOk(h)'
  BY <1>1, OwnSession
<1>3. HostOk(h) /\ HostFrame(h)
  BY <1>1, HostStepFrame DEF ClientInv
<1> USE ClientAssumption, Sessioned DEF ClientInv, TypeOK, RecordInstalled, At, service, history
<1>4. ServerOk(h)'
  BY <1>3 DEF HostOk, SessionOk, ServerOk, Unsent, Uploaded, Playable
<1>5. FilesOk(h)'
  <2>1. /\ FilesOk(h) /\ pc[h] = "installed" /\ pc'[h] = "prepared"
        /\ state'[h] = base(h)
        /\ UNCHANGED <<head, world, pending, server>>
    BY <1>3 DEF HostOk
  <2>2. base(h) \in 0..head
    BY <2>1, Sessioned
  <2> QED
    BY <2>1, <2>2 DEF FilesOk
<1>6. UploadOk(h)'
  BY <1>3 DEF HostOk, UploadOk, Uploaded, Playable, base
<1>7. CopyOk(h)'
  BY <1>3 DEF HostOk, FilesOk, CopyOk, Carries, Playable, base
<1> QED
  BY <1>2, <1>4, <1>5, <1>6, <1>7 DEF HostOk

\* A session is entered, its server started.
LEMMA EnterStep ==
  ASSUME ClientInv, NEW h \in Hosts,
         \/ StartPalworld(h) \/ EnterPalworld(h) \/ EnterValheim(h) \/ StartValheim(h)
  PROVE  HostOk(h)'
<1>1. HostStep(h)
  BY DEF HostStep, Play
<1>2. SessionOk(h)' /\ HostOk(h)
  BY <1>1, OwnSession DEF ClientInv
<1>3. /\ pc[h] \in Playable /\ pc'[h] \in Playable
      /\ pc'[h] \in {"starting", "playing"} \/ h \notin server'
      /\ pc'[h] = "starting" => game' = "palworld"
      /\ pending'[h] \in {pending[h], base(h)}
      /\ UNCHANGED <<entry, head, opened, sent, session, world, state, misled, blind>>
  BY <1>2 DEF StartPalworld, EnterPalworld, EnterValheim, StartValheim, WritePending, At, service,
     local, history, Playable, ClientInv, TypeOK, HostOk, ServerOk
<1>4. session[h] \in Sessions /\ base(h) \in 0..head
  BY <1>3, Sessioned DEF Playable
<1>5. sent[session[h]] = NoWorld /\ world[h] # NoWorld
  BY <1>2, <1>3 DEF HostOk, ServerOk, FilesOk, Unsent
<1>6. ServerOk(h)'
  BY <1>3, <1>5 DEF ServerOk, Unsent, Uploaded, Playable
<1>7. FilesOk(h)'
  BY <1>2, <1>3, <1>4, <1>5 DEF HostOk, FilesOk
<1>8. UploadOk(h)'
  BY <1>3 DEF UploadOk, Uploaded, Playable
<1>9. CopyOk(h)'
  <2>1. base(h)' = base(h)
    BY <1>3 DEF base
  <2>2. pc[h] # "locked" /\ pc'[h] \notin {"locked", "installed"}
    BY <1>3 DEF Playable
  <2>3. h \notin misled => Carries(h, state[h])'
    BY <1>2, <1>3, <2>2 DEF HostOk, CopyOk, Carries
  <2>4. h \notin misled => Carries(h, pending[h])'
    BY <1>2, <1>3, <1>4, <2>2 DEF HostOk, CopyOk, Carries
  <2> QED
    BY <1>2, <1>3, <2>1, <2>2, <2>3, <2>4 DEF HostOk, CopyOk
<1> QED
  BY <1>2, <1>6, <1>7, <1>8, <1>9 DEF HostOk

\* A world that is played only grows.
LEMMA ServerStep ==
  ASSUME ClientInv, NEW h \in Hosts, ServerSaves(h) \/ ServerExits(h)
  PROVE  HostOk(h)'
<1>1. HostStep(h)
  BY DEF HostStep, Play
<1>2. SessionOk(h)' /\ HostOk(h)
  BY <1>1, OwnSession DEF ClientInv
<1>3. /\ h \in server /\ server' \subseteq server
      /\ world'[h] \in {world[h], world[h] \union {session[h]}}
      /\ UNCHANGED <<game, entry, head, opened, sent, pc, session, pending, state, misled, blind>>
  BY DEF ServerSaves, ServerExits, service, local, history, ClientInv, TypeOK
<1>4. pc[h] \in {"off", "starting", "playing"} /\ world[h] # NoWorld
  BY <1>2, <1>3 DEF HostOk, ServerOk, FilesOk
<1>5. session[h] \in Sessions /\ world[h] \in Worlds
  BY <1>3, <1>4, Sessioned DEF ClientInv, TypeOK
<1>6. world'[h] \in Worlds /\ world'[h] # NoWorld /\ world[h] \subseteq world'[h]
  BY <1>3, <1>5, ClientAssumption DEF Worlds, NoWorld
<1>7. ServerOk(h)'
  BY <1>2, <1>3, <1>4 DEF HostOk, ServerOk, Unsent, Uploaded, Playable
<1>8. FilesOk(h)'
  BY <1>2, <1>3, <1>6 DEF HostOk, FilesOk
<1>9. UploadOk(h)'
  BY <1>3, <1>4 DEF UploadOk, Uploaded
<1>10. CopyOk(h)'
  <2>1. base(h)' = base(h)
    BY <1>3 DEF base
  <2>2. h \notin misled => Carries(h, state[h])' /\ Carries(h, pending[h])'
    BY <1>2, <1>3, <1>4, <1>6 DEF HostOk, CopyOk, Carries
  <2> QED
    BY <1>2, <1>3, <1>4, <1>6, <2>1, <2>2 DEF HostOk, CopyOk, Playable
<1> QED
  BY <1>2, <1>7, <1>8, <1>9, <1>10 DEF HostOk

\* The archive is the world, which no server writes from then on.
LEMMA UploadStep ==
  ASSUME ClientInv, NEW h \in Hosts, UploadPalworld(h) \/ UploadValheim(h)
  PROVE  HostOk(h)'
<1>1. HostStep(h)
  BY DEF HostStep, Publish
<1>2. SessionOk(h)' /\ HostOk(h)
  BY <1>1, OwnSession DEF ClientInv
<1>3. /\ pc[h] = "playing" /\ pc'[h] = "uploading" /\ h \notin server'
      /\ pending'[h] = base(h)
      /\ sent' = [sent EXCEPT ![session[h]] = world[h]]
      /\ UNCHANGED <<entry, head, opened, session, world, state, misled, blind>>
  BY DEF UploadPalworld, UploadValheim, ArchiveAndUpload, WritePending, At, service, history,
     ClientInv, TypeOK
<1>4. session[h] \in Sessions /\ base(h) \in 0..head
  BY <1>3, Sessioned
<1>5. sent'[session[h]] = world[h] /\ world[h] # NoWorld
  BY <1>2, <1>3, <1>4 DEF HostOk, FilesOk, Playable, ClientInv, TypeOK
<1>6. ServerOk(h)'
  BY <1>3, <1>5 DEF ServerOk, Unsent, Playable
<1>7. FilesOk(h)'
  BY <1>2, <1>3, <1>4, <1>5 DEF HostOk, FilesOk
<1>8. UploadOk(h)'
  BY <1>3 DEF UploadOk, base
<1>9. CopyOk(h)'
  <2>1. h \notin misled => Carries(h, state[h])'
    BY <1>2, <1>3 DEF HostOk, CopyOk, Carries
  <2>2. h \notin misled => Carries(h, pending[h])'
    BY <1>2, <1>3, <1>4 DEF HostOk, CopyOk, Carries, Playable
  <2> QED
    BY <1>3, <2>1, <2>2 DEF CopyOk, Playable
<1> QED
  BY <1>2, <1>6, <1>7, <1>8, <1>9 DEF HostOk

\* The version confirmed is the session's own.
LEMMA ConfirmedStep ==
  ASSUME ClientInv, NEW h \in Hosts, Confirmed(h)
  PROVE  HostOk(h)'
<1>1. HostStep(h)
  BY DEF HostStep, Publish
<1>2. SessionOk(h)' /\ HostOk(h)
  BY <1>1, OwnSession DEF ClientInv
<1>3. PICK v \in 1..head : entry[v].session = session[h] /\ state' = [state EXCEPT ![h] = v]
  BY DEF Confirmed, Published
<1>4. /\ pc[h] = "uploading" /\ pc'[h] = "recorded" /\ state'[h] = v /\ h \notin misled'
      /\ UNCHANGED <<entry, head, opened, sent, session, world, pending, server, blind>>
  BY <1>3 DEF Confirmed, At, service, ClientInv, TypeOK
<1>5. session[h] \in Sessions
  BY <1>4, Sessioned
<1>6. entry[v].save = world[h] /\ base(h) = v - 1
  BY <1>2, <1>3, <1>4, <1>5 DEF HostOk, ServerOk, Uploaded, ClientInv, LedgerInv, VersionOf, base
<1>7. ServerOk(h)'
  BY <1>2, <1>4 DEF HostOk, ServerOk, Unsent, Uploaded, Playable
<1>8. FilesOk(h)'
  <2>1. v \in 0..head
    BY DEF ClientInv, TypeOK, Bases
  <2> QED
    BY <1>2, <1>4, <2>1 DEF HostOk, FilesOk, Uploaded
<1>9. UploadOk(h)'
  BY <1>2, <1>3, <1>4 DEF HostOk, UploadOk, Uploaded, base
<1>10. CopyOk(h)'
  <2>1. Carries(h, state[h])'
    BY <1>4, <1>6 DEF Carries
  <2>2. Carries(h, pending[h])'
    <3>1. pending'[h] = v - 1
      BY <1>2, <1>4, <1>6 DEF HostOk, UploadOk, Uploaded
    <3> QED
      BY <1>4, <3>1 DEF Carries
  <2> QED
    BY <1>4, <2>1, <2>2 DEF CopyOk, Playable
<1> QED
  BY <1>2, <1>7, <1>8, <1>9, <1>10 DEF HostOk

\* A version found at the head is the session's own.
LEMMA ReconcilesStep ==
  ASSUME ClientInv, NEW h \in Hosts, Reconciles(h)
  PROVE  HostOk(h)'
<1>1. HostStep(h)
  BY DEF HostStep, Prepare, Play, Publish
<1>2. SessionOk(h)'
  BY <1>1, OwnSession
<1>3. HostOk(h) /\ HostFrame(h)
  BY <1>1, HostStepFrame DEF ClientInv
<1> USE ClientAssumption, Sessioned DEF ClientInv, TypeOK, Reconciles, HeadIsUpload, At, service, local, history
<1>4. ServerOk(h)'
  BY <1>3 DEF HostOk, SessionOk, ServerOk, Unsent, Uploaded, Playable
<1>5. FilesOk(h)'
  BY <1>3 DEF HostOk, ServerOk, FilesOk, Uploaded, Playable
<1>6. UploadOk(h)'
  BY <1>3 DEF HostOk, UploadOk, Uploaded, Playable, base
<1>7. CopyOk(h)'
  BY <1>3 DEF HostOk, FilesOk, CopyOk, Carries, Playable, base
<1> QED
  BY <1>2, <1>4, <1>5, <1>6, <1>7 DEF HostOk

\* The second status names that version, or misleads the client.
LEMMA RecordReconciledStep ==
  ASSUME ClientInv, NEW h \in Hosts, RecordReconciled(h)
  PROVE  HostOk(h)'
<1>1. HostStep(h)
  BY DEF HostStep, Publish
<1>2. SessionOk(h)' /\ HostOk(h)
  BY <1>1, OwnSession DEF ClientInv
<1>3. /\ pc[h] = "reconciled" /\ pc'[h] = "recorded" /\ state'[h] = head
      /\ h \notin misled' => head = base(h) + 1
      /\ UNCHANGED <<entry, head, opened, sent, session, world, pending, server, blind>>
  BY DEF RecordReconciled, At, service, ClientInv, TypeOK
<1>4. session[h] \in Sessions /\ base(h) \in 0..head
  BY <1>3, Sessioned
<1>5. base(h) + 1 \in 1..head /\ entry[base(h) + 1].session = session[h] /\ pending[h] = base(h)
  BY <1>2, <1>3 DEF HostOk, UploadOk, Uploaded
<1>6. entry[base(h) + 1].save = world[h]
  BY <1>2, <1>3, <1>4, <1>5 DEF HostOk, ServerOk, Uploaded, ClientInv, LedgerInv, VersionOf
<1>7. ServerOk(h)'
  BY <1>2, <1>3 DEF HostOk, ServerOk, Unsent, Uploaded, Playable
<1>8. FilesOk(h)'
  <2>1. head \in 0..head
    BY DEF ClientInv, TypeOK, Bases
  <2> QED
    BY <1>2, <1>3, <2>1 DEF HostOk, FilesOk, Uploaded
<1>9. UploadOk(h)'
  BY <1>2, <1>3, <1>5 DEF HostOk, UploadOk, Uploaded, base
<1>10. CopyOk(h)'
  <2>1. h \notin misled' => Carries(h, state[h])'
    BY <1>3, <1>6 DEF Carries
  <2>2. Carries(h, pending[h])'
    BY <1>3, <1>4, <1>5 DEF Carries
  <2> QED
    BY <1>3, <2>1, <2>2 DEF CopyOk, Playable
<1> QED
  BY <1>2, <1>7, <1>8, <1>9, <1>10 DEF HostOk

LEMMA OwnHost ==
  ASSUME ClientInv, NEW h \in Hosts, HostStep(h)
  PROVE  HostOk(h)'
BY LeavesStep, TakeLockStep, KeepStep, InstallStep, RecordInstalledStep, EnterStep, ServerStep,
   UploadStep, ConfirmedStep, ReconcilesStep, RecordReconciledStep
   DEF HostStep, Prepare, Play, Publish, Leaves

-----------------------------------------------------------------------------
(* Progress.                                                               *)

\* What a step of host h does to its world, and to the progress in it.
ProgressFrame(h) ==
  /\ \/ world'[h] = world[h]
     \/ world'[h] = NoWorld /\ pending[h] = NoPending
     \/ head \in 1..head /\ world'[h] = entry[head].save /\ pending[h] = NoPending
     \/ h \in server /\ world'[h] = world[h] \union {session[h]}
  /\ \/ pending'[h] # NoPending
     \/ pending'[h] = pending[h]
     \/ pc[h] = "recorded" /\ world'[h] = world[h]
  /\ \/ protected' = protected
     \/ protected' = protected \union {session[h]} /\ pending[h] # NoPending
        /\ pending' = pending /\ session[h] \in world'[h]

LEMMA HostStepProgress ==
  ASSUME ClientInv, NEW h \in Hosts, HostStep(h)
  PROVE  ProgressFrame(h)
<1>1. pc[h] \notin {"off", "checked"} => base(h) # NoPending
  BY Sessioned
<1>2. TypeOK /\ (h \in server => world[h] # NoWorld)
  BY DEF ClientInv, HostOk, FilesOk
<1> USE <1>2 DEF TypeOK, ProgressFrame, At, local, history
<1>3. CASE CheckStatus(h) \/ \E s \in Sessions : LockAnswerLost(h, s) \/ TakeLock(h, s)
  BY <1>3 DEF CheckStatus, LockAnswerLost, TakeLock
<1>4. CASE ResumePendingValheim(h) \/ ResumePendingPalworld(h) \/ InitializeRemote(h)
           \/ UseLocalCopy(h)
  BY <1>4 DEF ResumePendingValheim, ResumePendingPalworld, InitializeRemote, UseLocalCopy, KeepLocalWorld
<1>5. CASE Install(h) \/ DiesInInstall(h)
  <2>1. pc[h] = "locked" /\ pending[h] = NoPending
    BY <1>5 DEF Install, DiesInInstall, Download, NoneIsPending
  <2>2. Install(h) => head \in 1..head
    BY <2>1, Sessioned, ClientAssumption DEF Install, Download, Bases
  <2> QED
    BY <1>5, <2>1, <2>2 DEF Install, DiesInInstall
<1>6. CASE RecordInstalled(h) \/ StartPalworld(h) \/ StartValheim(h) \/ ServerExits(h)
  BY <1>6 DEF RecordInstalled, StartPalworld, StartValheim, ServerExits
<1>7. CASE EnterPalworld(h) \/ EnterValheim(h)
  BY <1>1, <1>7 DEF EnterPalworld, EnterValheim, WritePending
<1>8. CASE ServerSaves(h)
  <2>1. \/ protected' = protected
        \/ protected' = protected \union {session[h]} /\ pending[h] # NoPending
    BY <1>8 DEF ServerSaves
  <2> QED
    BY <1>8, <2>1 DEF ServerSaves
<1>9. CASE UploadPalworld(h) \/ UploadValheim(h)
  BY <1>1, <1>9 DEF UploadPalworld, UploadValheim, ArchiveAndUpload, WritePending
<1>10. CASE Confirmed(h) \/ Reconciles(h) \/ RecordReconciled(h) \/ Completes(h)
  BY <1>10 DEF Confirmed, Reconciles, RecordReconciled, Completes
<1>11. CASE FailsAndUnlocks(h) \/ Ends(h)
  BY <1>11 DEF FailsAndUnlocks, Ends
<1> QED
  BY <1>3, <1>4, <1>5, <1>6, <1>7, <1>8, <1>9, <1>10, <1>11 DEF HostStep, Prepare, Play, Publish

\* A session that has not been played after the step had not been played before.
LEMMA UnplayedBefore ==
  ASSUME ClientInv, NEW h \in Hosts, HostFrame(h), NEW s \in Sessions, Unplayed(s)'
  PROVE  Unplayed(s)
<1>1. CASE opened'[s] = NoPending
  BY <1>1, OpenedStays DEF Unplayed
<1>2. CASE \E k \in Hosts : session'[k] = s /\ pc'[k] \in NotStarted
  <2>1. PICK k \in Hosts : session'[k] = s /\ pc'[k] \in NotStarted
    BY <1>2
  <2>2. CASE k # h
    BY <2>1, <2>2 DEF HostFrame, SameHost, Unplayed
  <2>3. CASE k = h
    BY <2>1, <2>3 DEF HostFrame, Unplayed
  <2> QED
    BY <2>2, <2>3
<1> QED
  BY <1>1, <1>2 DEF Unplayed, NoPending

LEMMA HostUnplayed ==
  ASSUME ClientInv, NEW h \in Hosts, HostStep(h)
  PROVE  UnplayedInv'
<1>1. HostFrame(h) /\ ProgressFrame(h)
  BY HostStepFrame, HostStepProgress DEF ClientInv
<1> SUFFICES ASSUME NEW s \in Sessions, Unplayed(s)'
             PROVE  /\ \A k \in Hosts : s \notin world'[k]
                    /\ \A t \in Sessions : s \notin sent'[t]
                    /\ \A v \in 1..head' : s \notin entry'[v].save
  BY DEF UnplayedInv
<1>2. Unplayed(s)
  BY <1>1, UnplayedBefore
<1>3. /\ \A k \in Hosts : s \notin world[k]
      /\ \A t \in Sessions : s \notin sent[t]
      /\ \A v \in 1..head : s \notin entry[v].save
  BY <1>2 DEF ClientInv, UnplayedInv
<1>4. s \notin world'[h]
  <2>1. s \notin NoWorld
    BY ClientAssumption DEF NoWorld
  <2>2. h \in server => s # session[h]
    <3>1. SUFFICES ASSUME h \in server, s = session[h] PROVE FALSE
      OBVIOUS
    <3>2. opened[s] # NoPending /\ pc[h] \notin NotStarted
      BY <3>1, Sessioned DEF ClientInv, HostOk, ServerOk, base, NotStarted
    <3>3. PICK k \in Hosts : session[k] = s /\ pc[k] \in NotStarted
      BY <1>2, <3>2 DEF Unplayed
    <3> QED
      BY <3>1, <3>2, <3>3, ClientAssumption DEF ClientInv, HostOk, SessionOk
  <2> QED
    BY <1>1, <1>3, <2>1, <2>2 DEF ProgressFrame
<1> QED
  BY <1>1, <1>3, <1>4 DEF HostFrame, SameHost

LEMMA HostProgress ==
  ASSUME ClientInv, NEW h \in Hosts, HostStep(h)
  PROVE  ProgressInv'
<1>1. HostFrame(h) /\ ProgressFrame(h) /\ UNCHANGED <<entry, head>>
  BY HostStepFrame, HostStepProgress DEF ClientInv, HostFrame
<1> SUFFICES ASSUME NEW s \in protected'
             PROVE  \/ \E k \in Hosts : pending'[k] # NoPending /\ s \in world'[k]
                    \/ \E v \in 1..head : s \in entry[v].save
  BY <1>1 DEF ProgressInv
<1>2. CASE s \notin protected
  BY <1>1, <1>2 DEF ProgressFrame
<1>3. CASE s \in protected /\ \E v \in 1..head : s \in entry[v].save
  BY <1>3
<1>4. CASE s \in protected /\ \E k \in Hosts : pending[k] # NoPending /\ s \in world[k]
  <2>1. PICK k \in Hosts : pending[k] # NoPending /\ s \in world[k]
    BY <1>4
  <2>2. CASE k # h
    BY <1>1, <2>1, <2>2 DEF HostFrame, SameHost
  <2>3. CASE k = h /\ pc[h] = "recorded"
    <3>1. session[h] \in Sessions
      BY <2>3, Sessioned
    <3>2. PICK v \in 1..head : entry[v].session = session[h]
      BY <2>3 DEF ClientInv, HostOk, UploadOk
    <3>3. entry[v].save = world[h]
      BY <2>3, <3>1, <3>2 DEF ClientInv, LedgerInv, VersionOf, HostOk, ServerOk, Uploaded
    <3> QED
      BY <2>1, <2>3, <3>3
  <2>4. CASE k = h /\ pc[h] # "recorded"
    BY <1>1, <2>1, <2>4 DEF ProgressFrame
  <2> QED
    BY <2>2, <2>3, <2>4
<1> QED
  BY <1>2, <1>3, <1>4 DEF ClientInv, ProgressInv

\* Every step of a host preserves the invariant.
LEMMA HostStepInv ==
  ASSUME ClientInv, NEW h \in Hosts, HostStep(h)
  PROVE  ClientInv'
<1>1. ASSUME NEW k \in Hosts PROVE HostOk(k)'
  BY OwnHost, OtherHosts
<1> QED
  BY <1>1, HostTypeOK, HostLedger, HostSent, HostOverwrite, HostUnplayed, HostProgress DEF ClientInv

-----------------------------------------------------------------------------
(* The service.                                                            *)

\* A step of the service changes nothing on the hosts, and appends a version at
\* most: a session's archive on top of its base, or an earlier version again.
Appends(e) ==
  /\ head < MaxVersion
  /\ head' = head + 1
  /\ entry' = [entry EXCEPT ![head + 1] = e]
  /\ e \in [session : Sessions \union {NoSession}, save : Worlds, from : Bases]
  /\ \/ e.session = NoSession /\ \E v \in 1..head : e.save = entry[v].save
     \/ e.session \in Sessions /\ opened[e.session] = head /\ e.save = sent[e.session]

ServiceFrame ==
  /\ UNCHANGED <<game, opened, sent, pc, session, world, pending, state, server, protected,
                 misled, blind>>
  /\ lease' \in [session : Sessions \union {NoSession}, base : Bases]
  /\ UNCHANGED <<entry, head>> \/ \E e : Appends(e)

LEMMA ServiceStepFrame ==
  ASSUME ClientInv, ServiceChanges \/ \E s \in Sessions : ServicePublishes(s)
  PROVE  ServiceFrame
<1> USE ClientAssumption DEF ServiceFrame, Service!NoLease, Bases, local, history
<1>1. ASSUME NEW s \in Sessions, ServicePublishes(s)
      PROVE  ServiceFrame
  <2> DEFINE e == [session |-> s, save |-> sent[s], from |-> 0]
  <2>1. sent[s] \in Worlds
    BY <1>1 DEF ServicePublishes, ClientInv, TypeOK
  <2>2. e \in [session : Sessions \union {NoSession}, save : Worlds, from : Bases]
    BY <2>1
  <2>3. Appends(e)
    BY <1>1, <2>2 DEF Appends, ServicePublishes, Service!Publish, Service!Extend
  <2> QED
    BY <1>1, <2>3 DEF ServicePublishes, Service!Publish, Service!Extend
<1>2. CASE ServiceChanges /\ Service!Close
  BY <1>2 DEF ServiceChanges, Service!Close
<1>3. ASSUME NEW v \in 1..head, ServiceChanges, Service!Restore(v)
      PROVE  ServiceFrame
  <2> DEFINE e == [session |-> NoSession, save |-> entry[v].save, from |-> v]
  <2>1. e \in [session : Sessions \union {NoSession}, save : Worlds, from : Bases]
    BY DEF ClientInv, TypeOK, LedgerInv
  <2>2. Appends(e)
    BY <1>3, <2>1 DEF Appends, Service!Restore, Service!Extend
  <2> QED
    BY <1>3, <2>2 DEF ServiceChanges, Service!Restore, Service!Extend, ClientInv, TypeOK
<1> QED
  BY <1>1, <1>2, <1>3 DEF ServiceChanges

\* A new version: the earlier ones stay, and the hosts' files name only those.
LEMMA AppendStep ==
  ASSUME ClientInv, ServiceFrame, NEW e, Appends(e)
  PROVE  ClientInv'
<1>1. /\ UNCHANGED <<game, opened, sent, pc, session, world, pending, state, server, protected,
                     misled, blind>>
      /\ lease' \in [session : Sessions \union {NoSession}, base : Bases]
      /\ head \in Nat /\ head' = head + 1 /\ head' \in Bases /\ head + 1 \in 1..MaxVersion
      /\ head + 1 # NoPending
  BY ClientAssumption DEF ServiceFrame, Appends, ClientInv, TypeOK, Bases, NoPending
<1>2. /\ \A v \in 1..head : entry'[v] = entry[v]
      /\ entry'[head + 1] = e
      /\ e \in [session : Sessions \union {NoSession}, save : Worlds, from : Bases]
  BY <1>1 DEF Appends, ClientInv, TypeOK
<1>3. \A v \in 1..head' : v \in 1..head \/ v = head + 1
  BY <1>1
<1>4. \A v \in 1..head : v \in 1..head' /\ v # head + 1
  BY <1>1
<1>5. TypeOK'
  <2>1. entry' \in [1..MaxVersion -> [session : Sessions \union {NoSession},
                                      save : Worlds \union {NoWorld}, from : Bases]]
    <3>1. e \in [session : Sessions \union {NoSession}, save : Worlds \union {NoWorld}, from : Bases]
      BY <1>2
    <3> QED
      BY <1>1, <3>1 DEF Appends, ClientInv, TypeOK
  <2> QED
    BY <1>1, <2>1 DEF ClientInv, TypeOK
<1>6. LedgerInv'
  <2>1. ASSUME NEW v \in 1..head' PROVE entry'[v].save \in Worlds
    BY <1>2, <1>3 DEF ClientInv, LedgerInv
  <2>2. ASSUME NEW v \in 1..head', NEW s \in Sessions, entry'[v].session = s
        PROVE  opened[s] = v - 1 /\ entry'[v].save = sent[s]
    <3>1. CASE v \in 1..head
      BY <1>2, <2>2, <3>1 DEF ClientInv, LedgerInv, VersionOf
    <3>2. CASE v = head + 1
      BY <1>1, <1>2, <2>2, <3>2, ClientAssumption DEF Appends
    <3> QED
      BY <1>3, <3>1, <3>2
  <2>3. ASSUME NEW s \in Sessions
        PROVE  /\ opened[s] \in 0..head' \union {NoPending}
               /\ sent[s] # NoWorld \/ s \in blind => opened[s] # NoPending
    BY <1>1 DEF ClientInv, LedgerInv
  <2> QED
    BY <1>1, <2>1, <2>2, <2>3 DEF LedgerInv, VersionOf
<1>7. ASSUME NEW h \in Hosts PROVE HostOk(h)'
  <2>1. HostOk(h) /\ (pc[h] \notin {"off", "checked"} => base(h) \in 0..head)
    BY Sessioned DEF ClientInv
  <2>2. SessionOk(h)' /\ ServerOk(h)'
    BY <1>1, <2>1 DEF HostOk, SessionOk, ServerOk
  <2>3. FilesOk(h)'
    BY <1>1, <2>1 DEF HostOk, FilesOk
  <2>4. UploadOk(h)'
    BY <1>1, <1>2, <1>4, <2>1 DEF HostOk, UploadOk, base
  <2>5. CopyOk(h)'
    <3>1. ASSUME NEW b \in 0..head \union {NoPending}, Carries(h, b)
          PROVE  Carries(h, b)'
      <4>1. b # head + 1
        BY <1>1
      <4>2. CASE pc[h] = "locked" /\ b = base(h) /\ b > 0
        BY <1>1, <1>2, <2>1, <3>1, <4>1, <4>2 DEF Carries, base
      <4> QED
        BY <1>1, <4>1, <4>2 DEF Carries, base
    <3>2. pending[h] \in 0..head \union {NoPending} /\ state[h] \in 0..head \union {NoPending}
      BY <2>1 DEF HostOk, FilesOk
    <3>3. h \notin misled => Carries(h, state[h])' /\ Carries(h, pending[h])'
      BY <1>1, <2>1, <3>1, <3>2 DEF HostOk, CopyOk, Carries, base
    <3>4. pc[h] \in {"installed"} \union Playable /\ base(h) > 0 => entry'[base(h)] = entry[base(h)]
      BY <1>1, <1>2, <2>1 DEF Playable
    <3> QED
      BY <1>1, <2>1, <3>3, <3>4 DEF HostOk, CopyOk, base
  <2> QED
    BY <2>2, <2>3, <2>4, <2>5 DEF HostOk
<1>8. SentInv'
  <2>1. SUFFICES ASSUME NEW s \in Sessions, sent[s] # NoWorld, s \notin blind, opened[s] > 0
                 PROVE  entry'[opened[s]].save \subseteq sent[s]
    BY <1>1 DEF SentInv
  <2>2. opened[s] \in 1..head
    BY <1>1, <2>1 DEF ClientInv, LedgerInv
  <2> QED
    BY <1>2, <2>1, <2>2 DEF ClientInv, SentInv
<1>9. OnlyMisledOverwrite'
  <2>1. SUFFICES ASSUME NEW v \in 2..head', entry'[v].session # NoSession,
                        entry'[v].session \notin blind
                 PROVE  entry'[v - 1].save \subseteq entry'[v].save
    BY <1>1 DEF OnlyMisledOverwrite
  <2>2. v - 1 \in 1..head /\ (v \in 2..head \/ v = head + 1)
    BY <1>1
  <2>3. CASE v \in 2..head
    BY <1>1, <1>2, <2>1, <2>2, <2>3 DEF ClientInv, OnlyMisledOverwrite
  <2>4. CASE v = head + 1
    <3>1. PICK s \in Sessions : e.session = s /\ opened[s] = head /\ e.save = sent[s]
      BY <1>1, <1>2, <2>1, <2>4 DEF Appends
    <3>2. sent[s] # NoWorld /\ opened[s] > 0
      BY <1>1, <1>2, <2>2, <2>4, <3>1, ClientAssumption DEF Worlds, NoWorld
    <3>3. entry[head].save \subseteq sent[s]
      BY <1>2, <2>1, <2>4, <3>1, <3>2 DEF ClientInv, SentInv
    <3> QED
      BY <1>1, <1>2, <2>2, <2>4, <3>1, <3>3
  <2> QED
    BY <2>2, <2>3, <2>4
<1>10. UnplayedInv'
  <2>1. SUFFICES ASSUME NEW s \in Sessions, Unplayed(s)
                 PROVE  /\ \A h \in Hosts : s \notin world[h]
                        /\ \A t \in Sessions : s \notin sent[t]
                        /\ \A v \in 1..head' : s \notin entry'[v].save
    BY <1>1 DEF UnplayedInv, Unplayed
  <2>2. /\ \A h \in Hosts : s \notin world[h]
        /\ \A t \in Sessions : s \notin sent[t]
        /\ \A v \in 1..head : s \notin entry[v].save
    BY <2>1 DEF ClientInv, UnplayedInv
  <2>3. s \notin e.save
    BY <2>2 DEF Appends
  <2> QED
    BY <1>2, <1>3, <2>2, <2>3
<1>11. ProgressInv'
  BY <1>1, <1>2, <1>4 DEF ClientInv, ProgressInv
<1> QED
  BY <1>5, <1>6, <1>7, <1>8, <1>9, <1>10, <1>11 DEF ClientInv

\* A lock that ends without a version.
LEMMA LeaseStep ==
  ASSUME ClientInv, ServiceFrame, UNCHANGED <<entry, head>>
  PROVE  ClientInv'
<1>1. /\ UNCHANGED <<game, entry, head, opened, sent, pc, session, world, pending, state, server,
                     protected, misled, blind>>
      /\ lease' \in [session : Sessions \union {NoSession}, base : Bases]
  BY DEF ServiceFrame
<1>2. TypeOK' /\ LedgerInv'
  BY <1>1 DEF ClientInv, TypeOK, LedgerInv, VersionOf
<1>3. ASSUME NEW h \in Hosts PROVE HostOk(h)'
  <2>1. HostOk(h)
    BY DEF ClientInv
  <2> QED
    BY <1>1, <2>1 DEF HostOk, SessionOk, ServerOk, FilesOk, UploadOk, CopyOk, Carries, base
<1>4. SentInv' /\ OnlyMisledOverwrite' /\ ProgressInv'
  BY <1>1 DEF ClientInv, SentInv, OnlyMisledOverwrite, ProgressInv
<1>5. UnplayedInv'
  BY <1>1 DEF ClientInv, UnplayedInv, Unplayed
<1> QED
  BY <1>2, <1>3, <1>4, <1>5 DEF ClientInv

LEMMA ClientStep ==
  ASSUME ClientInv, [Next]_vars
  PROVE  ClientInv'
<1>1. CASE \E h \in Hosts : HostStep(h)
  BY <1>1, HostStepInv
<1>2. CASE ServiceChanges \/ \E s \in Sessions : ServicePublishes(s)
  BY <1>2, ServiceStepFrame, AppendStep, LeaseStep DEF ServiceFrame
<1>3. CASE UNCHANGED vars
  <2>1. ServiceFrame /\ UNCHANGED <<entry, head>>
    BY <1>3 DEF ServiceFrame, vars, service, local, history, ClientInv, TypeOK
  <2> QED
    BY <2>1, LeaseStep
<1> QED
  BY <1>1, <1>2, <1>3 DEF Next

-----------------------------------------------------------------------------
(* The theorems.                                                           *)

\* The invariant of the clients: however their runs, their game servers and the
\* service interleave, fail and die, the types are right, a session's archive is
\* of a world that no server writes, and the local files are what they say.
THEOREM ClientInvariant == Spec => []ClientInv
<1>1. Init => ClientInv
  BY InitClient
<1>2. ClientInv /\ [Next]_vars => ClientInv'
  BY ClientStep
<1> QED
  BY <1>1, <1>2, PTL DEF Spec

\* No session that was played under a pending-session.json is lost: it is in a
\* local world, or in a version (palworld/Adapter.ps1 and valheim/Adapter.ps1,
\* which never replace a pending world, and forget it only once it is published).
THEOREM ProgressIsKept == Spec => []ProtectedProgressStays
<1>1. ClientInv => ProtectedProgressStays
  BY DEF ClientInv, HostOk, FilesOk, ProgressInv, ProtectedProgressStays
<1> QED
  BY <1>1, ClientInvariant, PTL

\* Every version of a session contains the version before it, unless its client
\* had taken another version for its own, in one of the two ways the code leaves
\* open (palworld/Adapter.ps1, the status read before the lock, and the second
\* status after a lost answer).
THEOREM OnlyMisledHostsOverwrite == Spec => []OnlyMisledOverwrite
<1>1. ClientInv => OnlyMisledOverwrite
  BY DEF ClientInv
<1> QED
  BY <1>1, ClientInvariant, PTL

\* A client that is not misled, and whose state.json or pending-session.json
\* names the head, has the head's progress in its local world (Valheim's and
\* Palworld's Adapter.ps1, which then start the game with the local world).
THEOREM LocalCopiesAreCurrent == Spec => []LocalCopyIsCurrent
<1>1. ClientInv => LocalCopyIsCurrent
  BY DEF ClientInv, HostOk, CopyOk, Carries, LocalCopyIsCurrent
<1> QED
  BY <1>1, ClientInvariant, PTL

\* The catch clause of the run gives back the lock only of a session that changed
\* nothing and whose server does not run, but for a Palworld server that did not
\* answer.
THEOREM OnlyUnplayedIsReleased == Spec => ModifiedIsNotReleased
<1>1. ASSUME ClientInv, NEW h \in Hosts, FailsAndUnlocks(h), ~(game = "palworld" /\ pc[h] = "starting")
      PROVE  session[h] \notin world[h] /\ h \notin server'
  <2>1. pc[h] \in NotStarted /\ server' = server
    BY <1>1 DEF FailsAndUnlocks, NotEntered, NotStarted, ClientInv, HostOk, ServerOk
  <2>2. session[h] \in Sessions /\ h \notin server
    BY <1>1, <2>1, Sessioned DEF NotStarted, ClientInv, HostOk, ServerOk
  <2>3. Unplayed(session[h])
    BY <2>1 DEF Unplayed
  <2> QED
    BY <1>1, <2>1, <2>2, <2>3 DEF ClientInv, UnplayedInv
<1>2. ClientInv /\ [Next]_vars =>
        [ \A h \in Hosts :
            FailsAndUnlocks(h) /\ ~(game = "palworld" /\ pc[h] = "starting")
            => session[h] \notin world[h] /\ h \notin server' ]_vars
  BY <1>1
<1> QED
  BY <1>2, ClientInvariant, PTL DEF Spec, ModifiedIsNotReleased

\* The clients use the service as SaveLedger has it: whatever they and the
\* service do is a step of the ledger, or leaves it alone.  SaveStore implements
\* the ledger as well (StoreImplementsLedger), so what is shown here holds for
\* clients of the store.
THEOREM ClientsUseTheLedger == Spec => Service!Spec
<1>1. Init => Service!Init
  BY DEF Init
<1>2. ASSUME ClientInv, [Next]_vars PROVE [Service!Next]_(Service!ledgerVars)
  <2>1. ASSUME NEW h \in Hosts, HostStep(h)
        PROVE  \/ \E s \in Sessions : Service!Open(s)
               \/ Service!Close
               \/ UNCHANGED service
    <3>1. CASE FailsAndUnlocks(h)
      BY <3>1 DEF FailsAndUnlocks
    <3>2. CASE \E s \in Sessions : TakeLock(h, s) \/ LockAnswerLost(h, s)
      BY <3>2 DEF TakeLock, LockAnswerLost
    <3>3. CASE CheckStatus(h) \/ ResumePendingValheim(h) \/ ResumePendingPalworld(h)
               \/ InitializeRemote(h) \/ UseLocalCopy(h) \/ Install(h) \/ DiesInInstall(h)
               \/ RecordInstalled(h) \/ Ends(h)
      BY <3>3 DEF CheckStatus, ResumePendingValheim, ResumePendingPalworld, InitializeRemote,
         UseLocalCopy, KeepLocalWorld, Install, DiesInInstall, RecordInstalled, Ends
    <3>4. CASE Play(h)
      BY <3>4 DEF Play, StartPalworld, EnterPalworld, EnterValheim, StartValheim, ServerSaves, ServerExits
    <3>5. CASE Publish(h)
      BY <3>5 DEF Publish, UploadPalworld, UploadValheim, ArchiveAndUpload, Confirmed, Reconciles,
         RecordReconciled, Completes
    <3> QED
      BY <2>1, <3>1, <3>2, <3>3, <3>4, <3>5 DEF HostStep, Prepare
  <2>2. ASSUME NEW s \in Sessions, ServicePublishes(s)
        PROVE  \E c \in Worlds : Service!Publish(s, c)
    <3>1. sent[s] \in Worlds /\ Service!Publish(s, sent[s])
      BY <1>2, <2>2 DEF ServicePublishes, ClientInv, TypeOK
    <3> QED
      BY <3>1
  <2>3. ServiceChanges => Service!Close \/ \E v \in 1..head : Service!Restore(v)
    BY DEF ServiceChanges
  <2>4. UNCHANGED vars => UNCHANGED service
    BY DEF vars
  <2> QED
    BY <1>2, <2>1, <2>2, <2>3, <2>4 DEF Next, Service!Next, Service!ledgerVars, service
<1> QED
  BY <1>1, <1>2, ClientInvariant, PTL DEF Spec, Service!Spec

=============================================================================
