--------------------------- MODULE SaveStoreProof ---------------------------
(***************************************************************************)
(* StoreInv is an invariant of SaveStore for every value of its constants, *)
(* and with it the safety properties the runs check.                       *)
(***************************************************************************)
EXTENDS SaveStore, RetentionTheorems

-----------------------------------------------------------------------------
(* Retention.                                                              *)

\* A cleanup only removes rows, and never one that has a marker
\* (retention.py:28).
LEMMA PrunedSubset ==
  ASSUME NEW rows, NEW marked
  PROVE  /\ Pruned(rows, marked) \subseteq rows
         /\ rows \intersect marked \subseteq Pruned(rows, marked)
BY DEF Pruned, Retained

\* The newest row of all stays, as RetentionPerSlot is at least 1
\* (app.py:105-106).
LEMMA PrunedKeepsNewest ==
  ASSUME NEW rows \in SUBSET Int, NEW marked,
         NEW v \in rows, \A w \in rows : w <= v
  PROVE  v \in Pruned(rows, marked)
<1>1. \A w \in rows : ~(w > v)
  OBVIOUS
<1>2. NewerInSlot(rows, SlotOfRow, v) = {}
  BY <1>1 DEF NewerInSlot
<1>3. Cardinality(NewerInSlot(rows, SlotOfRow, v)) < RetentionPerSlot
  BY <1>2, FS_EmptySet, StoreAssumption
<1> QED
  BY <1>3 DEF Pruned, Retained

-----------------------------------------------------------------------------
(* The kinds of step.                                                      *)

\* The handler stops working on a version: it is answered, cleans up, undoes
\* its move or dies, and gives the write lock back if it has it.
SettledPC == {"idle", "reconciling", "booting", "compensating"}

Settles(r) ==
  /\ \E h \in Handler : h.pc \in SettledPC /\ req' = [req EXCEPT ![r] = h]
  /\ writer' = IF writer = r THEN NoWriter ELSE writer
  /\ UNCHANGED <<row, current, lock, opened>>

\* A handler starts work on a version, or goes on with it, without moving a
\* file or changing a row other than by deleting it.
Begins(r) ==
  \/ \E v \in live : RestoreBegin(r, v) \/ DeleteVersion(r, v) \/ Download(r, v)
  \/ RestoreCopy(r) /\ files[req[r].from] = req[r].save

Moves(r) ==
  \/ \E s \in Sessions, base \in 0..MaxVersion, save \in Saves : Publish(r, s, base, save)
  \/ Restore(r)

Commits(r) == PublishCommit(r) \/ RestoreCommit(r)

SupervisorOnly == UNCHANGED <<row, current, lock, opened, writer, req>>

\* The values At and On give a handler are values of its type.
LEMMA WorkingType ==
  ASSUME NEW pc \in RequestPC, NEW ver \in 0..MaxVersion, NEW from \in 0..MaxVersion,
         NEW seen \in 0..MaxVersion, NEW save \in Saves \union {NoSave},
         NEW session \in Sessions \union {NoSession}
  PROVE  Working(pc, ver, from, seen, save, session) \in Handler
BY DEF Working, Handler

LEMMA OnType ==
  ASSUME NEW pc \in RequestPC, NEW ver \in 0..MaxVersion
  PROVE  On(pc, ver) \in Handler /\ On(pc, ver).pc = pc
BY StoreAssumption DEF On, Working, Handler

LEMMA AtType ==
  ASSUME NEW pc \in RequestPC
  PROVE  At(pc) \in Handler /\ At(pc).pc = pc
BY StoreAssumption DEF At, Working, Handler

LEMMA SettlingSteps ==
  ASSUME StoreInv, NEW r \in Requests,
         \/ RestoreRefused(r) \/ Compensate(r) \/ Prune(r) \/ PruneFails(r)
         \/ Reconcile(r) \/ DeleteFile(r) \/ SendFile(r)
         \/ Abort(r) \/ WorkerCrash(r)
         \/ RestoreCopy(r) /\ files[req[r].from] # req[r].save
  PROVE  Settles(r)
<1>1. ASSUME NEW h \in Handler, h.pc \in SettledPC, Step(r, h),
             UNCHANGED <<row, current, lock, opened>>,
             writer' = IF writer = r THEN NoWriter ELSE writer
      PROVE  Settles(r)
  BY <1>1 DEF Settles, Step
<1>2. ~Moving(r) => writer # r
  BY StoreAssumption DEF StoreInv, WriterInv
<1>3. \A pc \in SettledPC : At(pc) \in Handler /\ At(pc).pc \in SettledPC
  BY AtType DEF RequestPC, SettledPC
<1>4. On("compensating", req[r].ver) \in Handler /\ On("compensating", req[r].ver).pc \in SettledPC
  <2>1. req[r].ver \in 0..MaxVersion
    BY DEF StoreInv, TypeOK, Handler
  <2> QED
    BY <2>1, OnType DEF RequestPC, SettledPC
<1>5. CASE Abort(r)
  BY <1>1, <1>3, <1>4, <1>5 DEF SettledPC, Abort, store
<1>6. CASE WorkerCrash(r)
  BY <1>1, <1>3, <1>6 DEF SettledPC, WorkerCrash, store
<1>7. CASE RestoreRefused(r) \/ (RestoreCopy(r) /\ files[req[r].from] # req[r].save)
  BY <1>1, <1>2, <1>3, <1>7 DEF SettledPC, RestoreRefused, RestoreCopy, Moving, store
<1>8. CASE Prune(r) \/ PruneFails(r) \/ Reconcile(r)
  BY <1>1, <1>2, <1>3, <1>8 DEF SettledPC, Prune, PruneFails, Reconcile, Moving, store
<1>9. CASE Compensate(r) \/ DeleteFile(r) \/ SendFile(r)
  BY <1>1, <1>2, <1>3, <1>9 DEF SettledPC, Compensate, DeleteFile, SendFile, Moving, store
<1> QED
  BY <1>5, <1>6, <1>7, <1>8, <1>9

\* Every step is of one of these kinds.
LEMMA StepKinds ==
  ASSUME StoreInv, Next
  PROVE  \/ SessionStep
         \/ \E r \in Requests : Begins(r) \/ Moves(r) \/ Commits(r) \/ Settles(r)
         \/ SupervisorOnly
<1>1. ASSUME NEW r \in Requests, Arrival(r)
      PROVE  Begins(r) \/ Moves(r)
  BY <1>1 DEF Arrival, Begins, Moves
<1>2. ASSUME NEW r \in Requests, Progress(r)
      PROVE  Begins(r) \/ Moves(r) \/ Commits(r) \/ Settles(r)
  BY <1>2, SettlingSteps DEF Progress, Begins, Moves, Commits
<1>3. ASSUME NEW r \in Requests, Abort(r) \/ WorkerCrash(r)
      PROVE  Settles(r)
  BY <1>3, SettlingSteps
<1>4. CASE Supervise \/ SupFails \/ SupCrash
  BY <1>4 DEF Supervise, SupPick, SupMark, SupHookEnds, SupFinalize, SupReconcile,
              SupFails, SupCrash, SupervisorOnly, store
<1> QED
  BY <1>1, <1>2, <1>3, <1>4 DEF Next

-----------------------------------------------------------------------------
(* HeadInv: what the tables say of the head.                               *)

\* Only these steps change the tables of versions and markers.
LEMMA TableSteps ==
  ASSUME Next
  PROVE  \/ \E r \in Requests : Commits(r) \/ Prune(r)
         \/ \E r \in Requests, v \in live : DeleteVersion(r, v)
         \/ SupFinalize
         \/ UNCHANGED <<row, live, current, pending>>
<1>1. CASE SessionStep
  BY <1>1 DEF SessionStep, AcquireLock, ReleaseLock
<1>2. ASSUME NEW r \in Requests, Arrival(r)
      PROVE  \/ \E v \in live : DeleteVersion(r, v)
             \/ UNCHANGED <<row, live, current, pending>>
  BY <1>2 DEF Arrival, Publish, RestoreBegin, Download, store
<1>3. ASSUME NEW r \in Requests, Progress(r)
      PROVE  \/ Commits(r) \/ Prune(r)
             \/ UNCHANGED <<row, live, current, pending>>
  BY <1>3 DEF Progress, Commits, RestoreCopy, Restore, RestoreRefused, Compensate,
              PruneFails, Reconcile, DeleteFile, SendFile, store
<1>4. ASSUME NEW r \in Requests, Abort(r) \/ WorkerCrash(r)
      PROVE  UNCHANGED <<row, live, current, pending>>
  BY <1>4 DEF Abort, WorkerCrash, store
<1>5. CASE Supervise \/ SupFails \/ SupCrash
  BY <1>5 DEF Supervise, SupPick, SupMark, SupHookEnds, SupReconcile, SupFails, SupCrash, store
<1> QED
  BY <1>1, <1>2, <1>3, <1>4, <1>5 DEF Next

\* What both commits do to the tables, and what their handler holds.
LEMMA CommitEffect ==
  ASSUME StoreInv, NEW r \in Requests, Commits(r)
  PROVE  /\ req[r].ver = current + 1
         /\ req[r].ver \in Versions
         /\ req[r].save \in Saves
         /\ \E e \in Row : e.save = req[r].save /\ row' = [row EXCEPT ![req[r].ver] = e]
         /\ live' = live \union {req[r].ver}
         /\ current' = req[r].ver
         /\ pending \subseteq pending'
         /\ pending' \subseteq pending \union {req[r].ver}
         /\ writer = r
         /\ writer' = NoWriter
         /\ req' = [req EXCEPT ![r] = At("pruning")]
         /\ UNCHANGED <<opened, files, sup, faults, crashes>>
<1>1. Moving(r)
  BY DEF Commits, PublishCommit, RestoreCommit, Moving
<1>2. req[r].ver = current + 1 /\ req[r].ver \in Versions /\ req[r].save \in Saves /\ writer = r
  BY <1>1 DEF StoreInv, WriterInv
<1>3. PICK session \in Sessions \union {NoSession}, from \in 0..MaxVersion :
         InsertVersion(r, session, from)
  <2>1. req[r].session \in Sessions \union {NoSession} /\ req[r].from \in 0..MaxVersion
        /\ NoSession \in Sessions \union {NoSession} /\ 0 \in 0..MaxVersion
    BY StoreAssumption DEF StoreInv, TypeOK, Handler
  <2> QED
    BY <2>1 DEF Commits, PublishCommit, RestoreCommit
<1>4. [session |-> session, save |-> req[r].save, from |-> from] \in Row
  BY <1>2 DEF Row
<1> QED
  BY <1>2, <1>3, <1>4 DEF InsertVersion, Step

LEMMA HeadStep ==
  ASSUME StoreInv, Next
  PROVE  HeadInv'
<1>1. ASSUME NEW r \in Requests, Commits(r)
      PROVE  HeadInv'
  <2>1. PICK e \in Row : e.save = req[r].save /\ row' = [row EXCEPT ![req[r].ver] = e]
    BY <1>1, CommitEffect
  <2>2. /\ req[r].ver = current + 1
        /\ req[r].ver \in Versions
        /\ req[r].save \in Saves
        /\ live' = live \union {req[r].ver}
        /\ current' = req[r].ver
        /\ pending' \subseteq pending \union {req[r].ver}
    BY <1>1, CommitEffect
  <2>3. ASSUME NEW v \in Versions
        PROVE  IF v <= current' THEN row'[v].save \in Saves ELSE row'[v] = NoRow
    BY <2>1, <2>2, StoreAssumption DEF StoreInv, HeadInv, TypeOK, Versions
  <2>4. (current # 0 => current \in live)' /\ (pending \subseteq live)'
    BY <2>2 DEF StoreInv, HeadInv
  <2>5. ASSUME NEW v \in live'
        PROVE  v <= current'
    BY <2>2, StoreAssumption DEF StoreInv, HeadInv, TypeOK, Versions
  <2> QED
    BY <2>3, <2>4, <2>5 DEF HeadInv
<1>2. ASSUME NEW marked, live' = Pruned(live, marked), pending' = marked, marked \subseteq pending,
             UNCHANGED <<row, current>>
      PROVE  HeadInv'
  <2>1. live' \subseteq live
    BY <1>2, PrunedSubset
  <2>2. live \in SUBSET Int
    BY StoreAssumption DEF StoreInv, TypeOK, Versions
  <2>3. ASSUME current # 0
        PROVE  current \in live'
    <3>1. current \in live /\ \A w \in live : w <= current
      BY <2>3 DEF StoreInv, HeadInv
    <3> QED
      BY <1>2, <2>2, <3>1, PrunedKeepsNewest
  <2>4. pending' \subseteq live'
    BY <1>2, PrunedSubset DEF StoreInv, HeadInv
  <2> QED
    BY <1>2, <2>1, <2>3, <2>4 DEF StoreInv, HeadInv
<1>3. ASSUME NEW r \in Requests, Prune(r)
      PROVE  HeadInv'
  BY <1>2, <1>3 DEF Prune
<1>4. CASE SupFinalize
  BY <1>2, <1>4 DEF SupFinalize
<1>5. ASSUME NEW r \in Requests, NEW v \in live, DeleteVersion(r, v)
      PROVE  HeadInv'
  BY <1>5 DEF DeleteVersion, MayDelete, StoreInv, HeadInv
<1>6. CASE UNCHANGED <<row, live, current, pending>>
  BY <1>6 DEF StoreInv, HeadInv
<1> QED
  BY <1>1, <1>3, <1>4, <1>5, <1>6, TableSteps

\* Rows only disappear or are inserted above the head.
LEMMA LiveStep ==
  ASSUME StoreInv, Next
  PROVE  live' \subseteq live \union {current + 1}
<1>1. ASSUME NEW r \in Requests, Commits(r)
      PROVE  live' \subseteq live \union {current + 1}
  BY <1>1, CommitEffect
<1>2. ASSUME NEW r \in Requests, Prune(r)
      PROVE  live' \subseteq live
  BY <1>2, PrunedSubset DEF Prune
<1>3. ASSUME NEW r \in Requests, NEW v \in live, DeleteVersion(r, v)
      PROVE  live' \subseteq live
  BY <1>3 DEF DeleteVersion
<1>4. CASE SupFinalize
  BY <1>4, PrunedSubset DEF SupFinalize
<1> QED
  BY <1>1, <1>2, <1>3, <1>4, TableSteps

-----------------------------------------------------------------------------
(* SupInv: the supervisor's job keeps its marker.                          *)

LEMMA SupStepInv ==
  ASSUME StoreInv, Next
  PROVE  SupInv'
<1> USE DEF SupInv
<1>1. SupInv
  BY DEF StoreInv
<1>2. CASE \E v \in pending : SupPick(v)
  BY <1>2 DEF SupPick, SupStep, store
<1>3. CASE SupMark
  BY <1>1, <1>3 DEF SupMark, SupStep, store
<1>4. CASE SupHookEnds
  BY <1>1, <1>4 DEF SupHookEnds, SupStep, store
<1>5. CASE SupFinalize \/ SupReconcile \/ SupFails \/ SupCrash
  BY <1>5 DEF SupFinalize, SupReconcile, SupFails, SupCrash, SupStep
<1>6. CASE UNCHANGED sup /\ pending \subseteq pending'
  BY <1>1, <1>6
<1>7. ASSUME NEW r \in Requests, Arrival(r) \/ Progress(r) \/ Abort(r) \/ WorkerCrash(r)
      PROVE  UNCHANGED sup /\ pending \subseteq pending'
  <2>1. CASE Arrival(r)
    BY <2>1 DEF Arrival, Publish, RestoreBegin, DeleteVersion, Download, store
  <2>2. CASE Commits(r)
    BY <2>2, CommitEffect
  <2>3. CASE Progress(r) /\ ~Commits(r)
    BY <2>3 DEF Progress, Commits, RestoreCopy, Restore, RestoreRefused, Compensate, Prune,
                PruneFails, Reconcile, DeleteFile, SendFile, store
  <2>4. CASE Abort(r) \/ WorkerCrash(r)
    BY <2>4 DEF Abort, WorkerCrash, store
  <2> QED
    BY <1>7, <2>1, <2>2, <2>3, <2>4
<1>8. CASE SessionStep
  BY <1>1, <1>8 DEF SessionStep, AcquireLock, ReleaseLock
<1> HIDE DEF SupInv
<1> QED
  BY <1>2, <1>3, <1>4, <1>5, <1>6, <1>7, <1>8 DEF Next, Supervise

-----------------------------------------------------------------------------
(* WriterInv: who holds the write lock.                                    *)

\* What a handler that moves its ZIP into place does and has checked.
LEMMA MoveEffect ==
  ASSUME StoreInv, NEW r \in Requests, Moves(r)
  PROVE  /\ writer = NoWriter
         /\ writer' = r
         /\ NextVersion \in Versions
         /\ NextVersion = current + 1
         /\ SameIdentity(req'[r].save)
         /\ req'[r].save \in Saves
         /\ req'[r].ver = NextVersion
         /\ req'[r].seen = current
         /\ Moving(r)'
         /\ \A q \in Requests : q # r => req'[q] = req[q]
         /\ files' = [files EXCEPT ![NextVersion] = req'[r].save]
         /\ UNCHANGED store
<1>1. req \in [Requests -> Handler]
  BY DEF StoreInv, TypeOK
<1>2. PICK pc \in {"publishing", "restoring"}, from \in 0..MaxVersion, save \in Saves,
          session \in Sessions \union {NoSession} :
        /\ req' = [req EXCEPT ![r] = Working(pc, NextVersion, from, current, save, session)]
        /\ SameIdentity(save)
        /\ MoveIntoPlace(r, save)
        /\ CanWrite
        /\ UNCHANGED store
  <2>1. ASSUME NEW s \in Sessions, NEW base \in 0..MaxVersion, NEW save \in Saves,
               Publish(r, s, base, save)
        PROVE  /\ req' = [req EXCEPT ![r] = Working("publishing", NextVersion, 0, current, save, s)]
               /\ SameIdentity(save) /\ MoveIntoPlace(r, save) /\ CanWrite /\ UNCHANGED store
               /\ 0 \in 0..MaxVersion
    BY <2>1, StoreAssumption DEF Publish, MayPublish, Step
  <2>2. ASSUME Restore(r)
        PROVE  /\ req' = [req EXCEPT ![r] =
                            Working("restoring", NextVersion, req[r].from, current, req[r].save, NoSession)]
               /\ req[r].save \in Saves /\ req[r].from \in 0..MaxVersion
               /\ SameIdentity(req[r].save) /\ MoveIntoPlace(r, req[r].save) /\ CanWrite /\ UNCHANGED store
    <3>1. /\ req[r].from \in Versions
          /\ req[r].from <= current
          /\ row[req[r].from].save = req[r].save
      BY <2>2 DEF Restore, StoreInv, HandlerInv
    <3>2. req[r].save \in Saves
      BY <3>1 DEF StoreInv, HeadInv
    <3> QED
      BY <2>2, <3>1, <3>2, StoreAssumption DEF Restore, MayRestore, Step, Versions
  <2>3. CASE Restore(r)
    BY <2>2, <2>3
  <2>4. CASE \E s \in Sessions, base \in 0..MaxVersion, save \in Saves : Publish(r, s, base, save)
    BY <2>1, <2>4
  <2> QED
    BY <2>3, <2>4 DEF Moves
<1>3. req'[r] = Working(pc, NextVersion, from, current, save, session)
  BY <1>1, <1>2
<1>4. NextVersion \in Versions
  BY <1>2, StoreAssumption DEF MoveIntoPlace, StoreInv, TypeOK, NextVersion, Versions
<1> QED
  BY <1>1, <1>2, <1>3, <1>4 DEF Working, Moving, MoveIntoPlace, CanWrite, NextVersion

\* A handler that begins or settles holds no ZIP in place afterwards, and the
\* others go on as they were.
LEMMA OtherHandlers ==
  ASSUME StoreInv, NEW r \in Requests, Begins(r) \/ Commits(r) \/ Settles(r)
  PROVE  /\ ~Moving(r)'
         /\ \A q \in Requests : q # r => req'[q] = req[q]
         /\ Begins(r) => ~Moving(r) /\ UNCHANGED <<row, current, lock, opened, writer, files>>
<1>1. req \in [Requests -> Handler]
  BY DEF StoreInv, TypeOK
<1>2. CASE Begins(r)
  BY <1>1, <1>2 DEF Begins, RestoreBegin, RestoreCopy, DeleteVersion, Download, Step,
                    At, On, Working, Moving, store
<1>3. CASE Commits(r)
  <2>1. req' = [req EXCEPT ![r] = At("pruning")] /\ ~Begins(r)
    BY <1>3, CommitEffect DEF Commits, PublishCommit, RestoreCommit, Begins, RestoreBegin,
                              RestoreCopy, DeleteVersion, Download
  <2> QED
    BY <1>1, <2>1 DEF At, Working, Moving
<1>4. CASE Settles(r)
  <2>1. PICK h \in Handler : h.pc \in SettledPC /\ req' = [req EXCEPT ![r] = h]
    BY <1>4 DEF Settles
  <2>2. CASE ~Begins(r)
    BY <1>1, <2>1, <2>2 DEF SettledPC, Moving
  <2> QED
    BY <1>2, <2>2
<1> QED
  BY <1>2, <1>3, <1>4

LEMMA WriterStep ==
  ASSUME StoreInv, Next
  PROVE  WriterInv'
<1>1. ASSUME NEW r \in Requests, Moves(r)
      PROVE  WriterInv'
  <2>1. \A q \in Requests : ~Moving(q)
    BY <1>1, MoveEffect, StoreAssumption DEF StoreInv, WriterInv
  <2>2. \A q \in Requests : q # r => ~Moving(q)'
    BY <1>1, <2>1, MoveEffect DEF Moving
  <2> QED
    BY <1>1, <2>2, MoveEffect DEF WriterInv, store
<1>2. ASSUME NEW r \in Requests, Commits(r)
      PROVE  WriterInv'
  <2>1. \A q \in Requests : ~Moving(q)'
    BY <1>2, CommitEffect, OtherHandlers DEF StoreInv, WriterInv, Moving
  <2> QED
    BY <1>2, <2>1, CommitEffect, StoreAssumption DEF WriterInv
<1>3. ASSUME NEW r \in Requests, Begins(r)
      PROVE  WriterInv'
  BY <1>3, OtherHandlers DEF StoreInv, WriterInv, Moving
<1>4. ASSUME NEW r \in Requests, Settles(r)
      PROVE  WriterInv'
  <2>1. writer' = IF writer = r THEN NoWriter ELSE writer
    BY <1>4 DEF Settles
  <2>2. current' = current
    BY <1>4 DEF Settles
  <2> QED
    BY <1>4, <2>1, <2>2, OtherHandlers, StoreAssumption DEF StoreInv, WriterInv, Moving
<1>5. CASE SessionStep
  BY <1>5 DEF SessionStep, AcquireLock, ReleaseLock, StoreInv, WriterInv, Moving
<1>6. CASE SupervisorOnly
  BY <1>6 DEF SupervisorOnly, StoreInv, WriterInv, Moving
<1> QED
  BY <1>1, <1>2, <1>3, <1>4, <1>5, <1>6, StepKinds

-----------------------------------------------------------------------------
(* LockInv: the head does not move under a lock.                           *)

LEMMA LockStep ==
  ASSUME StoreInv, Next
  PROVE  LockInv'
<1> USE DEF LockInv
<1>0. LockInv
  BY DEF StoreInv
<1>1. ASSUME NEW r \in Requests, Moves(r)
      PROVE  LockInv'
  <2>1. \/ req'[r].pc = "publishing" /\ lock # NoLock /\ lock.session = req'[r].session
        \/ req'[r].pc = "restoring" /\ lock = NoLock
    <3>1. req \in [Requests -> Handler]
      BY DEF StoreInv, TypeOK
    <3>2. CASE Restore(r)
      BY <3>1, <3>2 DEF Restore, MayRestore, Step, Working
    <3>3. ASSUME NEW s \in Sessions, NEW base \in 0..MaxVersion, NEW save \in Saves,
                 Publish(r, s, base, save)
          PROVE  req'[r].pc = "publishing" /\ lock # NoLock /\ lock.session = req'[r].session
      BY <3>1, <3>3, StoreAssumption DEF Publish, MayPublish, Step, Working, NoLock
    <3> QED
      BY <1>1, <3>2, <3>3 DEF Moves
  <2> QED
    BY <1>0, <1>1, <2>1, MoveEffect DEF store
<1>2. ASSUME NEW r \in Requests, Commits(r)
      PROVE  LockInv'
  <2>1. \A q \in Requests : req'[q].pc \notin {"publishing", "restoring"}
    BY <1>2, CommitEffect, OtherHandlers DEF StoreInv, WriterInv, Moving
  <2>2. lock' = NoLock
    BY <1>0, <1>2 DEF Commits, PublishCommit, RestoreCommit
  <2>3. req[r].ver \in Versions /\ req[r].ver = current + 1 /\ opened' = opened
    BY <1>2, CommitEffect
  <2>4. ASSUME NEW v \in Versions, row'[v].session # NoSession
        PROVE  opened[row'[v].session] = v - 1
    <3>1. row \in [Versions -> Row] /\ current \in Int
      BY DEF StoreInv, TypeOK
    <3>2. CASE PublishCommit(r)
      BY <1>0, <2>3, <2>4, <3>1, <3>2 DEF PublishCommit, InsertVersion
    <3>3. CASE RestoreCommit(r)
      BY <1>0, <2>3, <2>4, <3>1, <3>3 DEF RestoreCommit, InsertVersion
    <3> QED
      BY <1>2, <3>2, <3>3 DEF Commits
  <2> QED
    BY <2>1, <2>2, <2>3, <2>4
<1>3. ASSUME NEW r \in Requests, Begins(r) \/ Settles(r)
      PROVE  LockInv'
  <2>1. UNCHANGED <<row, current, lock, opened>>
    BY <1>3, OtherHandlers DEF Settles
  <2>2. \A q \in Requests : req'[q].pc \in {"publishing", "restoring"} => req'[q] = req[q]
    BY <1>3, OtherHandlers DEF Moving
  <2> QED
    BY <1>0, <2>1, <2>2
<1>4. ASSUME NEW s \in Sessions, AcquireLock(s)
      PROVE  LockInv'
  <2>1. \A q \in Requests : ~Moving(q)
    BY <1>4, StoreAssumption DEF AcquireLock, CanWrite, StoreInv, WriterInv
  <2>2. \A v \in Versions : row[v].session # s
    BY <1>0, <1>4, StoreAssumption DEF AcquireLock, Versions, Never
  <2>3. \A t \in Sessions : t # s => opened'[t] = opened[t]
    BY <1>4 DEF AcquireLock, StoreInv, TypeOK
  <2>4. opened'[s] = current
    BY <1>4 DEF AcquireLock, StoreInv, TypeOK
  <2>5. \A v \in Versions : row[v].session \in Sessions \union {NoSession}
    BY DEF StoreInv, TypeOK, Row
  <2> QED
    BY <1>0, <1>4, <2>1, <2>2, <2>3, <2>4, <2>5 DEF AcquireLock, Moving
<1>5. CASE ReleaseLock
  BY <1>0, <1>5, StoreAssumption DEF ReleaseLock, CanWrite, StoreInv, WriterInv, Moving
<1>6. CASE SupervisorOnly
  BY <1>0, <1>6 DEF SupervisorOnly
<1> QED
  BY <1>1, <1>2, <1>3, <1>4, <1>5, <1>6, StepKinds DEF SessionStep

-----------------------------------------------------------------------------
(* HandlerInv: what handlers remember of a version.                        *)

\* The part of HandlerInv that speaks of one handler.
Remembers(r) ==
  /\ req[r].pc \in {"copying", "copied", "restoring"} =>
       /\ req[r].from \in Versions
       /\ req[r].from <= current
       /\ row[req[r].from].save = req[r].save
  /\ req[r].pc \in {"downloading", "unlinking"} =>
       req[r].ver \in Versions /\ req[r].ver <= current
  /\ req[r].pc = "unlinking" => req[r].ver \notin live

\* A row inserted above the head and rows deleted below it leave true what a
\* handler remembers.
LEMMA RemembersStable ==
  ASSUME StoreInv, Next, NEW r \in Requests, req'[r] = req[r],
         current <= current',
         \A v \in Versions : v <= current => row'[v] = row[v]
  PROVE  Remembers(r)'
<1>1. Remembers(r)
  BY DEF StoreInv, HandlerInv, Remembers
<1>2. live' \subseteq live \union {current + 1}
  BY LiveStep
<1>3. current \in Int /\ current' \in Int
  <2>1. \/ current' = current
        \/ \E q \in Requests : current' = req[q].ver /\ req[q].ver \in Versions
    <3>1. CASE \E q \in Requests : Commits(q)
      BY <3>1, CommitEffect
    <3>2. CASE \E q \in Requests : Moves(q)
      BY <3>2, MoveEffect DEF store
    <3>3. CASE \E q \in Requests : Begins(q) \/ Settles(q)
      BY <3>3, OtherHandlers DEF Settles
    <3>4. CASE SessionStep \/ SupervisorOnly
      BY <3>4 DEF SessionStep, AcquireLock, ReleaseLock, SupervisorOnly
    <3> QED
      BY <3>1, <3>2, <3>3, <3>4, StepKinds
  <2> QED
    BY <2>1, StoreAssumption DEF StoreInv, TypeOK, Versions
<1> QED
  BY <1>1, <1>2, <1>3, StoreAssumption DEF Remembers, Versions

LEMMA HandlerStep ==
  ASSUME StoreInv, Next
  PROVE  HandlerInv'
<1>1. req \in [Requests -> Handler] /\ row \in [Versions -> Row] /\ current \in 0..MaxVersion
  BY DEF StoreInv, TypeOK
<1>2. SUFFICES ASSUME NEW q \in Requests
               PROVE  Remembers(q)'
  BY <1>2 DEF HandlerInv, Remembers
<1>3. ASSUME UNCHANGED <<row, current, req>>
      PROVE  Remembers(q)'
  BY <1>1, <1>3, RemembersStable
<1>4. ASSUME NEW r \in Requests, Moves(r)
      PROVE  Remembers(q)'
  <2>1. CASE q # r
    BY <1>1, <1>4, <2>1, MoveEffect, RemembersStable DEF store
  <2>2. CASE q = r /\ Restore(r)
    BY <1>1, <2>2 DEF Restore, Step, Working, StoreInv, HandlerInv, Remembers, store
  <2>3. CASE q = r /\ ~Restore(r)
    <3>1. req'[r].pc = "publishing"
      BY <1>1, <1>4, <2>3 DEF Moves, Publish, Step, Working
    <3> QED
      BY <2>3, <3>1 DEF Remembers
  <2> QED
    BY <2>1, <2>2, <2>3
<1>5. ASSUME NEW r \in Requests, Commits(r)
      PROVE  Remembers(q)'
  <2>1. CASE q = r
    BY <1>1, <1>5, <2>1, CommitEffect DEF At, Working, Remembers
  <2>2. CASE q # r
    <3>1. /\ req[r].ver = current + 1 /\ current' = req[r].ver
          /\ \E e \in Row : row' = [row EXCEPT ![req[r].ver] = e]
      BY <1>5, CommitEffect
    <3>2. current <= current' /\ \A v \in Versions : v <= current => row'[v] = row[v]
      BY <1>1, <3>1 DEF Versions
    <3> QED
      BY <1>5, <2>2, <3>2, OtherHandlers, RemembersStable
  <2> QED
    BY <2>1, <2>2
<1>6. ASSUME NEW r \in Requests, Begins(r)
      PROVE  Remembers(q)'
  <2>1. CASE q # r
    BY <1>1, <1>6, <2>1, OtherHandlers, RemembersStable
  <2>2. ASSUME q = r, NEW v \in live, RestoreBegin(r, v)
        PROVE  Remembers(q)'
    BY <1>1, <2>2 DEF RestoreBegin, Step, Working, Remembers, StoreInv, TypeOK, HeadInv, store
  <2>3. ASSUME q = r, NEW v \in live, DeleteVersion(r, v)
        PROVE  Remembers(q)'
    BY <1>1, <2>3 DEF DeleteVersion, Step, On, Working, Remembers, StoreInv, TypeOK, HeadInv
  <2>4. ASSUME q = r, NEW v \in live, Download(r, v)
        PROVE  Remembers(q)'
    BY <1>1, <2>4 DEF Download, Step, On, Working, Remembers, StoreInv, TypeOK, HeadInv, store
  <2>5. CASE q = r /\ RestoreCopy(r) /\ files[req[r].from] = req[r].save
    BY <1>1, <2>5 DEF RestoreCopy, Step, Working, Remembers, StoreInv, HandlerInv, store
  <2> QED
    BY <1>6, <2>1, <2>2, <2>3, <2>4, <2>5 DEF Begins
<1>7. ASSUME NEW r \in Requests, Settles(r)
      PROVE  Remembers(q)'
  <2>1. CASE q # r
    BY <1>1, <1>7, <2>1, OtherHandlers, RemembersStable DEF Settles
  <2>2. CASE q = r
    BY <1>1, <1>7, <2>2 DEF Settles, SettledPC, Remembers
  <2> QED
    BY <2>1, <2>2
<1>8. CASE SessionStep
  BY <1>3, <1>8 DEF SessionStep, AcquireLock, ReleaseLock
<1> QED
  BY <1>3, <1>4, <1>5, <1>6, <1>7, <1>8, StepKinds DEF SupervisorOnly

-----------------------------------------------------------------------------
(* IdentityInv: one save identity.                                         *)

LEMMA IdentityStep ==
  ASSUME StoreInv, Next
  PROVE  IdentityInv'
<1>1. /\ IdentityInv
      /\ row \in [Versions -> Row] /\ current \in 0..MaxVersion
      /\ MaxVersion \in Nat
  BY StoreAssumption DEF StoreInv, TypeOK
<1>2. ASSUME UNCHANGED <<row, current>>, \A q \in Requests : Moving(q)' => req'[q] = req[q]
      PROVE  IdentityInv'
  BY <1>1, <1>2 DEF IdentityInv, Moving
<1>3. ASSUME NEW r \in Requests, Moves(r)
      PROVE  IdentityInv'
  <2>1. current # 0 => IdentityOf[req'[r].save] = IdentityOf[row[1].save]
    <3>1. SameIdentity(req'[r].save)
      BY <1>3, MoveEffect
    <3>2. current # 0 => current \in Versions
      BY <1>1 DEF Versions
    <3> QED
      BY <1>1, <3>1, <3>2 DEF SameIdentity, IdentityInv
  <2>2. \A q \in Requests : q # r => req'[q] = req[q]
    BY <1>3, MoveEffect
  <2>3. UNCHANGED <<row, current>>
    BY <1>3, MoveEffect DEF store
  <2> QED
    BY <1>1, <2>1, <2>2, <2>3 DEF IdentityInv, Moving
<1>4. ASSUME NEW r \in Requests, Commits(r)
      PROVE  IdentityInv'
  <2>1. PICK e \in Row : e.save = req[r].save /\ row' = [row EXCEPT ![req[r].ver] = e]
    BY <1>4, CommitEffect
  <2>2. /\ req[r].ver = current + 1 /\ current' = req[r].ver /\ req[r].ver \in Versions
        /\ current # 0 => IdentityOf[req[r].save] = IdentityOf[row[1].save]
    BY <1>1, <1>4, CommitEffect DEF Commits, PublishCommit, RestoreCommit, Moving, IdentityInv
  <2>3. ASSUME NEW v \in Versions, v <= current'
        PROVE  IdentityOf[row'[v].save] = IdentityOf[row'[1].save]
    BY <1>1, <2>1, <2>2, <2>3 DEF IdentityInv, Versions
  <2>4. \A q \in Requests : ~Moving(q)'
    BY <1>4, CommitEffect, OtherHandlers DEF StoreInv, WriterInv, Moving
  <2> QED
    BY <2>3, <2>4 DEF IdentityInv, Moving
<1>5. ASSUME NEW r \in Requests, Begins(r) \/ Settles(r)
      PROVE  IdentityInv'
  BY <1>2, <1>5, OtherHandlers DEF Settles
<1>6. CASE SessionStep \/ SupervisorOnly
  BY <1>2, <1>6 DEF SessionStep, AcquireLock, ReleaseLock, SupervisorOnly
<1> QED
  BY <1>3, <1>4, <1>5, <1>6, StepKinds

-----------------------------------------------------------------------------
(* PathInv: what a path can hold.                                          *)

\* A ZIP appears only where it is moved into place; every other step removes
\* files or leaves them alone.
LEMMA FileSteps ==
  ASSUME StoreInv, Next
  PROVE  \/ \E r \in Requests : Moves(r)
         \/ \A v \in Versions : files'[v] \in {files[v], NoSave}
<1>1. files \in [Versions -> Saves \union {NoSave}]
  BY DEF StoreInv, TypeOK
<1>2. UnlinkOrphans => \A v \in Versions : files'[v] \in {files[v], NoSave}
  BY DEF UnlinkOrphans
<1>3. ASSUME NEW r \in Requests, Arrival(r)
      PROVE  Moves(r) \/ UNCHANGED files
  BY <1>3 DEF Arrival, Moves, RestoreBegin, DeleteVersion, Download
<1>4. ASSUME NEW r \in Requests, Progress(r)
      PROVE  Moves(r) \/ \A v \in Versions : files'[v] \in {files[v], NoSave}
  <2>1. CASE Compensate(r) \/ DeleteFile(r)
    BY <1>1, <2>1 DEF Compensate, DeleteFile
  <2>2. CASE Reconcile(r)
    BY <1>2, <2>2 DEF Reconcile, ReconcileFiles
  <2>3. CASE Commits(r)
    BY <2>3, CommitEffect
  <2>4. CASE Restore(r)
    BY <2>4 DEF Moves
  <2> QED
    BY <1>4, <2>1, <2>2, <2>3, <2>4 DEF Progress, Commits, RestoreCopy, RestoreRefused,
       Prune, PruneFails, SendFile
<1>5. ASSUME NEW r \in Requests, Abort(r) \/ WorkerCrash(r)
      PROVE  UNCHANGED files
  BY <1>5 DEF Abort, WorkerCrash
<1>6. CASE SupReconcile
  BY <1>2, <1>6 DEF SupReconcile, ReconcileFiles
<1>7. CASE SessionStep \/ SupFails \/ SupCrash \/ (Supervise /\ ~SupReconcile)
  BY <1>7 DEF SessionStep, AcquireLock, ReleaseLock, SupFails, SupCrash, Supervise, SupPick,
              SupMark, SupHookEnds, SupFinalize
<1> QED
  BY <1>3, <1>4, <1>5, <1>6, <1>7 DEF Next

LEMMA PathStep ==
  ASSUME StoreInv, Next
  PROVE  PathInv'
<1>1. /\ PathInv
      /\ row \in [Versions -> Row] /\ current \in 0..MaxVersion
      /\ files \in [Versions -> Saves \union {NoSave}]
      /\ MaxVersion \in Nat
  BY StoreAssumption DEF StoreInv, TypeOK
<1>2. ASSUME UNCHANGED <<row, current>>, \A q \in Requests : Moving(q)' => req'[q] = req[q],
             \A v \in Versions : files'[v] \in {files[v], NoSave}
      PROVE  PathInv'
  <2>1. \A q \in Requests : Moving(q)' => Moving(q) /\ req[q].ver \in Versions
    BY <1>2 DEF Moving, StoreInv, WriterInv
  <2> QED
    BY <1>1, <1>2, <2>1 DEF PathInv
<1>3. ASSUME NEW r \in Requests, Moves(r)
      PROVE  PathInv'
  <2>1. /\ NextVersion \in Versions /\ NextVersion = current + 1
        /\ req'[r].ver = NextVersion
        /\ files' = [files EXCEPT ![NextVersion] = req'[r].save]
        /\ UNCHANGED <<row, current>>
    BY <1>3, MoveEffect DEF store
  <2>2. \A q \in Requests : Moving(q)' => q = r
    BY <1>3, WriterStep, MoveEffect DEF WriterInv
  <2>3. \A v \in Versions : v <= current => files'[v] = files[v]
    BY <1>1, <2>1 DEF Versions
  <2>4. files'[req'[r].ver] = req'[r].save
    BY <1>1, <2>1
  <2> QED
    BY <1>1, <2>1, <2>2, <2>3, <2>4 DEF PathInv
<1>4. ASSUME NEW r \in Requests, Commits(r)
      PROVE  PathInv'
  <2>1. PICK e \in Row : e.save = req[r].save /\ row' = [row EXCEPT ![req[r].ver] = e]
    BY <1>4, CommitEffect
  <2>2. /\ req[r].ver = current + 1 /\ current' = req[r].ver /\ req[r].ver \in Versions
        /\ files' = files
        /\ files[req[r].ver] \in {NoSave, req[r].save}
    BY <1>1, <1>4, CommitEffect DEF Commits, PublishCommit, RestoreCommit, Moving, PathInv
  <2>3. ASSUME NEW v \in Versions, v <= current'
        PROVE  files'[v] \in {NoSave, row'[v].save}
    BY <1>1, <2>1, <2>2, <2>3 DEF PathInv, Versions
  <2>4. \A q \in Requests : ~Moving(q)'
    BY <1>4, CommitEffect, OtherHandlers DEF StoreInv, WriterInv, Moving
  <2> QED
    BY <2>3, <2>4 DEF PathInv
<1>5. CASE ~\E r \in Requests : Moves(r) \/ Commits(r)
  <2>1. \A v \in Versions : files'[v] \in {files[v], NoSave}
    BY <1>5, FileSteps
  <2>2. CASE \E r \in Requests : Begins(r) \/ Settles(r)
    BY <1>2, <2>1, <2>2, OtherHandlers DEF Settles
  <2>3. CASE SessionStep \/ SupervisorOnly
    BY <1>2, <2>1, <2>3 DEF SessionStep, AcquireLock, ReleaseLock, SupervisorOnly
  <2> QED
    BY <1>5, <2>2, <2>3, StepKinds
<1> QED
  BY <1>3, <1>4, <1>5

-----------------------------------------------------------------------------
(* TypeOK.                                                                 *)

\* The handlers keep local variables of their types.
LEMMA ReqType ==
  ASSUME StoreInv, Next
  PROVE  req' \in [Requests -> Handler]
<1>1. /\ req \in [Requests -> Handler] /\ row \in [Versions -> Row]
      /\ current \in 0..MaxVersion /\ live \subseteq Versions /\ MaxVersion \in Nat
  BY StoreAssumption DEF StoreInv, TypeOK
<1>2. ASSUME NEW r \in Requests, NEW h \in Handler, req' = [req EXCEPT ![r] = h]
      PROVE  req' \in [Requests -> Handler]
  BY <1>1, <1>2
<1>3. ASSUME NEW r \in Requests, Moves(r)
      PROVE  req' \in [Requests -> Handler]
  <2>1. NextVersion \in 0..MaxVersion /\ 0 \in 0..MaxVersion
    BY <1>1, <1>3, MoveEffect DEF Versions
  <2>2. ASSUME NEW s \in Sessions, NEW base \in 0..MaxVersion, NEW save \in Saves,
               Publish(r, s, base, save)
        PROVE  req' \in [Requests -> Handler]
    <3>1. Working("publishing", NextVersion, 0, base, save, s) \in Handler
      BY <1>1, <2>1, WorkingType DEF RequestPC
    <3> QED
      BY <1>2, <2>2, <3>1 DEF Publish, Step
  <2>3. CASE Restore(r)
    <3>1. req[r] \in Handler
      BY <1>1
    <3>2. Working("restoring", NextVersion, req[r].from, req[r].seen, req[r].save, NoSession)
            \in Handler
      BY <1>1, <2>1, <3>1, WorkingType DEF RequestPC, Handler
    <3> QED
      BY <1>2, <2>3, <3>2 DEF Restore, Step
  <2> QED
    BY <1>3, <2>2, <2>3 DEF Moves
<1>4. ASSUME NEW r \in Requests, Commits(r)
      PROVE  req' \in [Requests -> Handler]
  BY <1>2, <1>4, CommitEffect, AtType DEF RequestPC
<1>5. ASSUME NEW r \in Requests, Settles(r)
      PROVE  req' \in [Requests -> Handler]
  BY <1>2, <1>5 DEF Settles
<1>6. ASSUME NEW r \in Requests, Begins(r)
      PROVE  req' \in [Requests -> Handler]
  <2>1. ASSUME NEW v \in live, RestoreBegin(r, v)
        PROVE  req' \in [Requests -> Handler]
    <3>1. row[v].save \in Saves \union {NoSave} /\ v \in 0..MaxVersion
      BY <1>1 DEF Row, Versions
    <3>2. Working("copying", 0, v, current, row[v].save, NoSession) \in Handler
      BY <1>1, <3>1, WorkingType DEF RequestPC
    <3> QED
      BY <1>2, <2>1, <3>2 DEF RestoreBegin, Step
  <2>2. ASSUME NEW v \in live, DeleteVersion(r, v) \/ Download(r, v)
        PROVE  req' \in [Requests -> Handler]
    <3>1. On("unlinking", v) \in Handler /\ On("downloading", v) \in Handler
      BY <1>1, OnType DEF RequestPC, Versions
    <3> QED
      BY <1>2, <2>2, <3>1 DEF DeleteVersion, Download, Step
  <2>3. CASE RestoreCopy(r) /\ files[req[r].from] = req[r].save
    <3>1. req[r] \in Handler
      BY <1>1
    <3>2. /\ req[r].from \in 0..MaxVersion /\ req[r].seen \in 0..MaxVersion
          /\ req[r].save \in Saves \union {NoSave} /\ 0 \in 0..MaxVersion
      BY <1>1, <3>1 DEF Handler
    <3>3. Working("copied", 0, req[r].from, req[r].seen, req[r].save, NoSession) \in Handler
      BY <3>2, WorkingType DEF RequestPC
    <3> QED
      BY <1>2, <2>3, <3>3 DEF RestoreCopy, Step
  <2> QED
    BY <1>6, <2>1, <2>2, <2>3 DEF Begins
<1>7. CASE SessionStep \/ SupervisorOnly
  BY <1>1, <1>7 DEF SessionStep, AcquireLock, ReleaseLock, SupervisorOnly
<1> QED
  BY <1>3, <1>4, <1>5, <1>6, <1>7, StepKinds

\* The tables hold values of their columns.
LEMMA TableType ==
  ASSUME StoreInv, Next
  PROVE  /\ row' \in [Versions -> Row]
         /\ live' \subseteq Versions
         /\ current' \in 0..MaxVersion
         /\ pending' \subseteq Versions
<1>1. /\ row \in [Versions -> Row] /\ live \subseteq Versions
      /\ current \in 0..MaxVersion /\ pending \subseteq Versions /\ MaxVersion \in Nat
  BY StoreAssumption DEF StoreInv, TypeOK
<1>2. ASSUME NEW r \in Requests, Commits(r)
      PROVE  /\ row' \in [Versions -> Row] /\ live' \subseteq Versions
             /\ current' \in 0..MaxVersion /\ pending' \subseteq Versions
  <2>1. PICK e \in Row : row' = [row EXCEPT ![req[r].ver] = e]
    BY <1>2, CommitEffect
  <2>2. /\ req[r].ver \in Versions /\ live' = live \union {req[r].ver}
        /\ current' = req[r].ver /\ pending' \subseteq pending \union {req[r].ver}
    BY <1>2, CommitEffect
  <2>3. row' \in [Versions -> Row]
    BY <1>1, <2>1, <2>2
  <2>4. current' \in 0..MaxVersion
    BY <1>1, <2>2 DEF Versions
  <2> QED
    BY <1>1, <2>2, <2>3, <2>4
<1>3. ASSUME NEW r \in Requests, Prune(r)
      PROVE  live' \subseteq live /\ UNCHANGED <<row, current, pending>>
  BY <1>3, PrunedSubset DEF Prune
<1>4. ASSUME NEW r \in Requests, NEW v \in live, DeleteVersion(r, v)
      PROVE  live' \subseteq live /\ UNCHANGED <<row, current, pending>>
  BY <1>4 DEF DeleteVersion
<1>5. CASE SupFinalize
  <2>1. live' \subseteq live /\ pending' \subseteq pending /\ UNCHANGED <<row, current>>
    BY <1>5, PrunedSubset DEF SupFinalize
  <2> QED
    BY <1>1, <2>1
<1> QED
  BY <1>1, <1>2, <1>3, <1>4, <1>5, TableSteps

LEMMA LockType ==
  ASSUME StoreInv, Next
  PROVE  lock' \in Lock /\ opened' \in [Sessions -> 0..Never]
<1>1. lock \in Lock /\ opened \in [Sessions -> 0..Never] /\ current \in 0..MaxVersion
  BY DEF StoreInv, TypeOK
<1>2. NoLock \in Lock
  BY StoreAssumption DEF NoLock, Lock
<1>3. ASSUME NEW s \in Sessions, AcquireLock(s)
      PROVE  lock' \in Lock /\ opened' \in [Sessions -> 0..Never]
  <2>1. [session |-> s, base |-> current] \in Lock
    BY <1>1 DEF Lock
  <2>2. current \in 0..Never
    BY <1>1, StoreAssumption DEF Never
  <2> QED
    BY <1>1, <1>3, <2>1, <2>2 DEF AcquireLock
<1>4. CASE ReleaseLock
  BY <1>1, <1>2, <1>4 DEF ReleaseLock
<1>5. ASSUME NEW r \in Requests, Commits(r)
      PROVE  lock' \in {lock, NoLock} /\ opened' = opened
  BY <1>5, CommitEffect DEF Commits, PublishCommit, RestoreCommit
<1>6. ASSUME NEW r \in Requests, Moves(r) \/ Begins(r) \/ Settles(r)
      PROVE  UNCHANGED <<lock, opened>>
  BY <1>6, MoveEffect, OtherHandlers DEF Settles, store
<1>7. CASE SupervisorOnly
  BY <1>1, <1>7 DEF SupervisorOnly
<1> QED
  BY <1>1, <1>2, <1>3, <1>4, <1>5, <1>6, <1>7, StepKinds DEF SessionStep

LEMMA FileType ==
  ASSUME StoreInv, Next
  PROVE  files' \in [Versions -> Saves \union {NoSave}]
<1>1. files \in [Versions -> Saves \union {NoSave}]
  BY DEF StoreInv, TypeOK
<1>2. UnlinkOrphans => files' \in [Versions -> Saves \union {NoSave}]
  BY <1>1 DEF UnlinkOrphans
<1>3. ASSUME NEW r \in Requests, Moves(r)
      PROVE  files' \in [Versions -> Saves \union {NoSave}]
  BY <1>1, <1>3, MoveEffect
<1>4. ASSUME NEW r \in Requests, Commits(r)
      PROVE  files' \in [Versions -> Saves \union {NoSave}]
  BY <1>1, <1>4, CommitEffect
<1>5. ASSUME NEW r \in Requests, Begins(r)
      PROVE  files' \in [Versions -> Saves \union {NoSave}]
  BY <1>1, <1>5, OtherHandlers
<1>6. ASSUME NEW r \in Requests, Progress(r), ~Begins(r), ~Moves(r), ~Commits(r)
      PROVE  files' \in [Versions -> Saves \union {NoSave}]
  BY <1>1, <1>2, <1>6 DEF Progress, Moves, Commits, RestoreCopy, RestoreRefused, Compensate,
     Prune, PruneFails, Reconcile, ReconcileFiles, DeleteFile, SendFile
<1>7. ASSUME NEW r \in Requests, Abort(r) \/ WorkerCrash(r)
      PROVE  files' \in [Versions -> Saves \union {NoSave}]
  BY <1>1, <1>7 DEF Abort, WorkerCrash
<1>8. ASSUME NEW r \in Requests, Arrival(r)
      PROVE  Begins(r) \/ Moves(r)
  BY <1>8 DEF Arrival, Begins, Moves
<1>9. CASE Supervise \/ SupFails \/ SupCrash
  BY <1>1, <1>2, <1>9 DEF Supervise, SupPick, SupMark, SupHookEnds, SupFinalize, SupReconcile,
     ReconcileFiles, SupFails, SupCrash
<1>10. CASE SessionStep
  BY <1>1, <1>10 DEF SessionStep, AcquireLock, ReleaseLock
<1> QED
  BY <1>3, <1>4, <1>5, <1>6, <1>7, <1>8, <1>9, <1>10 DEF Next

LEMMA SupervisorType ==
  ASSUME StoreInv, Next
  PROVE  sup' \in Supervisor
<1>1. /\ sup \in Supervisor /\ pending \subseteq Versions /\ MaxVersion \in Nat
  BY StoreAssumption DEF StoreInv, TypeOK
<1>2. sup.job \in 0..MaxVersion
  BY <1>1 DEF Supervisor
<1>3. \A pc \in SupervisorPC, job \in 0..MaxVersion : SupStep(pc, job) => sup' \in Supervisor
  BY DEF SupStep, Supervisor
<1>4. ASSUME NEW v \in pending, SupPick(v)
      PROVE  sup' \in Supervisor
  <2>1. v \in 0..MaxVersion
    BY <1>1 DEF Versions
  <2> QED
    BY <1>3, <1>4, <2>1 DEF SupPick, SupervisorPC
<1>5. CASE SupMark \/ SupHookEnds \/ SupFinalize \/ SupReconcile \/ SupFails \/ SupCrash
  BY <1>1, <1>2, <1>3, <1>5 DEF SupMark, SupHookEnds, SupFinalize, SupReconcile, SupFails,
     SupCrash, SupervisorPC
<1>6. ASSUME NEW r \in Requests, Arrival(r) \/ Progress(r) \/ Abort(r) \/ WorkerCrash(r)
      PROVE  UNCHANGED sup
  BY <1>6 DEF Arrival, Publish, RestoreBegin, DeleteVersion, Download, Progress, PublishCommit,
     RestoreCopy, Restore, RestoreRefused, RestoreCommit, InsertVersion, Compensate, Prune,
     PruneFails, Reconcile, DeleteFile, SendFile, Abort, WorkerCrash
<1>7. CASE SessionStep
  BY <1>1, <1>7 DEF SessionStep, AcquireLock, ReleaseLock
<1> QED
  BY <1>1, <1>4, <1>5, <1>6, <1>7 DEF Next, Supervise

\* Counters only grow to their bounds.
LEMMA CounterType ==
  ASSUME StoreInv, Next
  PROVE  faults' \in 0..MaxFaults /\ crashes' \in 0..MaxCrashes
<1>1. faults \in 0..MaxFaults /\ crashes \in 0..MaxCrashes
      /\ MaxFaults \in Nat /\ MaxCrashes \in Nat
  BY StoreAssumption DEF StoreInv, TypeOK
<1>2. ASSUME NEW r \in Requests, Arrival(r) \/ Progress(r)
      PROVE  UNCHANGED <<faults, crashes>>
  BY <1>2 DEF Arrival, Publish, RestoreBegin, DeleteVersion, Download, Progress, PublishCommit,
     RestoreCopy, Restore, RestoreRefused, RestoreCommit, InsertVersion, Compensate, Prune,
     PruneFails, Reconcile, DeleteFile, SendFile
<1>3. ASSUME NEW r \in Requests, Abort(r) \/ WorkerCrash(r)
      PROVE  faults' \in 0..MaxFaults /\ crashes' \in 0..MaxCrashes
  BY <1>1, <1>3 DEF Abort, WorkerCrash
<1>4. CASE SupFails \/ SupCrash
  BY <1>1, <1>4 DEF SupFails, SupCrash
<1>5. CASE Supervise
  BY <1>1, <1>5 DEF Supervise, SupPick, SupMark, SupHookEnds, SupFinalize, SupReconcile
<1>6. CASE SessionStep
  BY <1>1, <1>6 DEF SessionStep, AcquireLock, ReleaseLock
<1> QED
  BY <1>1, <1>2, <1>3, <1>4, <1>5, <1>6 DEF Next

LEMMA TypeStep ==
  ASSUME StoreInv, Next
  PROVE  TypeOK'
<1>1. writer' \in Requests \union {NoWriter}
  <2>1. ASSUME writer' # NoWriter
        PROVE  writer' \in Requests
    BY <2>1, WriterStep DEF WriterInv
  <2> QED
    BY <2>1
<1> QED
  BY <1>1, ReqType, TableType, LockType, FileType, SupervisorType, CounterType DEF TypeOK

-----------------------------------------------------------------------------
(* The invariant.                                                          *)

LEMMA StoreInvInit ==
  ASSUME Init
  PROVE  StoreInv
<1>1. \A r \in Requests : req[r].pc = "booting"
  BY DEF Init, At, Working
<1>2. /\ current = 0 /\ live = {} /\ pending = {} /\ writer = NoWriter /\ lock = NoLock
      /\ row = [v \in Versions |-> NoRow] /\ files = [v \in Versions |-> NoSave]
      /\ \A v \in Versions : ~(v <= 0)
  BY StoreAssumption DEF Init, Versions
<1>3. TypeOK
  <2>1. At("booting") \in Handler
    BY AtType DEF RequestPC
  <2>2. NoRow \in Row /\ NoLock \in Lock
    BY StoreAssumption DEF NoRow, Row, NoLock, Lock
  <2>3. opened \in [Sessions -> 0..Never]
    BY StoreAssumption DEF Init, Never
  <2>4. sup \in Supervisor
    BY StoreAssumption DEF Init, Supervisor, SupervisorPC
  <2>5. faults \in 0..MaxFaults /\ crashes \in 0..MaxCrashes
    BY StoreAssumption DEF Init
  <2> QED
    BY <2>1, <2>2, <2>3, <2>4, <2>5, StoreAssumption DEF TypeOK, Init, Versions
<1>4. HeadInv
  BY <1>2 DEF HeadInv
<1>5. WriterInv /\ HandlerInv
  BY <1>1, <1>2 DEF WriterInv, HandlerInv, Moving
<1>6. LockInv
  BY <1>1, <1>2 DEF LockInv, NoRow
<1>7. SupInv
  BY DEF SupInv, Init
<1>8. IdentityInv /\ PathInv
  BY <1>1, <1>2 DEF IdentityInv, PathInv, Moving
<1> QED
  BY <1>3, <1>4, <1>5, <1>6, <1>7, <1>8 DEF StoreInv

LEMMA StoreInvStep ==
  ASSUME StoreInv, [Next]_vars
  PROVE  StoreInv'
<1>1. CASE Next
  BY <1>1, TypeStep, HeadStep, WriterStep, LockStep, HandlerStep, SupStepInv, IdentityStep, PathStep
     DEF StoreInv
<1>2. CASE UNCHANGED vars
  BY <1>2 DEF vars, store, StoreInv, TypeOK, HeadInv, WriterInv, LockInv, HandlerInv, SupInv,
              IdentityInv, PathInv, Moving
<1> QED
  BY <1>1, <1>2

\* Whatever the numbers of threads, sessions, versions, failed transactions
\* and killed processes, StoreInv holds in every state of the store.
THEOREM StoreInvariant == Spec => []StoreInv
<1>1. Init => StoreInv
  BY StoreInvInit
<1>2. StoreInv /\ [Next]_vars => StoreInv'
  BY StoreInvStep
<1> QED
  BY <1>1, <1>2, PTL DEF Spec

\* Every table, file and local variable holds what its column, path or type
\* allows (database.py:14-51, publications.py:201-674).
THEOREM TypeCorrect == Spec => []TypeOK
<1>1. StoreInv => TypeOK
  BY DEF StoreInv
<1> QED
  BY <1>1, StoreInvariant, PTL

\* Retention and deletion never take the head away: current_save always names
\* a version of the table, the newest (retention.py:24-31, app.py:1063-1078).
THEOREM HeadIsNewest == Spec => []CurrentIsNewest
<1>1. StoreInv => CurrentIsNewest
  BY DEF StoreInv, HeadInv, CurrentIsNewest
<1> QED
  BY <1>1, StoreInvariant, PTL

\* No lost update: a session's version directly follows the version it was
\* given with the lock (publications.py:293-380).
THEOREM NoLostUpdate == Spec => []PublishedOnTopOfItsBase
<1>1. StoreInv => PublishedOnTopOfItsBase
  BY DEF StoreInv, LockInv, PublishedOnTopOfItsBase
<1> QED
  BY <1>1, StoreInvariant, PTL

\* A handler commits on the head it checked, although a restore copies its ZIP
\* between two transactions (publications.py:536-607).
THEOREM NoStaleCommit == Spec => []CommitsOnTheHeadItSaw
<1>1. StoreInv => CommitsOnTheHeadItSaw
  BY DEF StoreInv, WriterInv, Moving, CommitsOnTheHeadItSaw
<1> QED
  BY <1>1, StoreInvariant, PTL

\* A download is answered with its version's bytes or with 503, even while the
\* version is deleted and its number's path is swept (app.py:914-936).
THEOREM DownloadIsFaithful == Spec => []DownloadServesItsVersion
<1>1. StoreInv => DownloadServesItsVersion
  BY DEF StoreInv, HandlerInv, PathInv, DownloadServesItsVersion
<1> QED
  BY <1>1, StoreInvariant, PTL

\* The store never mixes save identities, although a restore checks them in a
\* transaction before the one that commits (publications.py:274-292, 490-509).
THEOREM OneIdentityOnly == Spec => []OneIdentity
<1>1. StoreInv => OneIdentity
  <2>1. \A v \in Versions : row[v] # NoRow /\ StoreInv => v <= current
    BY DEF StoreInv, HeadInv
  <2> QED
    BY <2>1 DEF StoreInv, IdentityInv, OneIdentity
<1> QED
  BY <1>1, StoreInvariant, PTL

\* A number, once given out, denotes the same save for ever: retention and
\* deletion free rows and files, never numbers (publications.py:382-424).
THEOREM NumbersAreForever == Spec => NumberNeverReused
<1>1. ASSUME StoreInv, Next, NEW v \in Versions, row[v] # NoRow
      PROVE  row'[v] = row[v]
  <2>1. v <= current /\ current \in Int
    BY <1>1 DEF StoreInv, HeadInv, TypeOK
  <2>2. ASSUME NEW r \in Requests, Commits(r)
        PROVE  row'[v] = row[v]
    <3>1. req[r].ver = current + 1 /\ \E e \in Row : row' = [row EXCEPT ![req[r].ver] = e]
      BY <1>1, <2>2, CommitEffect
    <3> QED
      BY <1>1, <2>1, <3>1 DEF StoreInv, TypeOK, Versions
  <2>3. ASSUME NEW r \in Requests, Prune(r)
        PROVE  row' = row
    BY <2>3 DEF Prune
  <2>4. CASE SupFinalize
    BY <2>4 DEF SupFinalize
  <2>5. ASSUME NEW r \in Requests, NEW w \in live, DeleteVersion(r, w)
        PROVE  row' = row
    BY <2>5 DEF DeleteVersion
  <2> QED
    BY <1>1, <2>2, <2>3, <2>4, <2>5, TableSteps
<1>2. StoreInv /\ [Next]_vars => [\A v \in Versions : row[v] # NoRow => row'[v] = row[v]]_vars
  BY <1>1
<1> QED
  BY <1>2, StoreInvariant, PTL DEF Spec, NumberNeverReused

\* No cleanup and no deletion removes the current version's row, or the row of
\* a version whose backup is pending (retention.py:24-31, app.py:1063-1078), and a
\* cleanup leaves RetentionPerSlot newer rows in the slot of a row it removes.
THEOREM ProtectedStay == Spec => NeverDropsProtected
<1>1. ASSUME StoreInv, Next, NEW v \in live \ live'
      PROVE  v # current' /\ v \notin pending'
  <2>1. (current # 0 => current \in live)' /\ pending' \subseteq live' /\ current' \in 0..MaxVersion
    BY <1>1, HeadStep, TypeStep DEF HeadInv, TypeOK
  <2>2. v # 0
    BY <1>1 DEF StoreInv, TypeOK, Versions
  <2> QED
    BY <1>1, <2>1, <2>2
<1>2. ASSUME StoreInv, Next, NEW v \in live \ live',
             ~(\E r \in Requests : DeleteVersion(r, v))
      PROVE  Cardinality(NewerInSlot(live', SlotOfRow, v)) >= RetentionPerSlot
  <2>1. ASSUME NEW marked, live' = Pruned(live, marked)
        PROVE  Cardinality(NewerInSlot(live', SlotOfRow, v)) >= RetentionPerSlot
    <3>1. live \in SUBSET (1..MaxVersion) /\ MaxVersion \in Nat /\ RetentionPerSlot \in Nat
      BY <1>2, StoreAssumption DEF StoreInv, TypeOK, Versions
    <3>2. v \in live \ Retained(live, SlotOfRow, marked, RetentionPerSlot)
      BY <2>1 DEF Pruned
    <3> QED
      BY <2>1, <3>1, <3>2, RuleKeepsNewest DEF Pruned
  <2>2. ASSUME NEW r \in Requests, Commits(r)
        PROVE  live \subseteq live'
    BY <1>2, <2>2, CommitEffect
  <2>3. ASSUME NEW r \in Requests, NEW w \in live, DeleteVersion(r, w)
        PROVE  FALSE
    <3>1. w = v
      BY <2>3 DEF DeleteVersion
    <3> QED
      BY <1>2, <2>3, <3>1
  <2> QED
    BY <1>2, <2>1, <2>2, <2>3, TableSteps DEF Prune, SupFinalize
<1>3. StoreInv /\ [Next]_vars =>
        [\A v \in live \ live' :
           /\ v # current' /\ v \notin pending'
           /\ \/ \E r \in Requests : DeleteVersion(r, v)
              \/ Cardinality(NewerInSlot(live', SlotOfRow, v)) >= RetentionPerSlot]_vars
  BY <1>1, <1>2
<1> QED
  BY <1>3, StoreInvariant, PTL DEF Spec, NeverDropsProtected

-----------------------------------------------------------------------------
(* The files that rows and open transactions count on.                     *)

\* Cleanups and deletions spare a ZIP that a row or an open transaction counts
\* on: a cleanup unlinks under the write lock, a deletion below the head.
LEMMA FileKept ==
  ASSUME StoreInv, Next, NEW v \in Versions,
         v \in live \/ \E q \in Requests : Moving(q) /\ req[q].ver = v,
         \A q \in Requests : ~(Compensate(q) /\ req[q].ver = v)
  PROVE  files'[v] = files[v]
<1>1. /\ files \in [Versions -> Saves \union {NoSave}]
      /\ current \in 0..MaxVersion /\ MaxVersion \in Nat
      /\ \A w \in live : w <= current
      /\ \A q \in Requests : Moving(q) => writer = q /\ req[q].ver = current + 1
      /\ NoWriter \notin Requests
  BY StoreAssumption DEF StoreInv, TypeOK, HeadInv, WriterInv
<1>2. CanWrite => v \in live /\ v <= current
  BY <1>1 DEF CanWrite
<1>3. ReconcileFiles => files'[v] = files[v]
  BY <1>2 DEF ReconcileFiles, UnlinkOrphans, Orphans
<1>4. ASSUME NEW r \in Requests, Moves(r)
      PROVE  files'[v] = files[v]
  <2>1. CanWrite /\ NextVersion = current + 1 /\ files' = [files EXCEPT ![NextVersion] = req'[r].save]
    BY <1>4, MoveEffect DEF CanWrite
  <2> QED
    BY <1>1, <1>2, <2>1
<1>5. ASSUME NEW r \in Requests, Begins(r) \/ Commits(r)
      PROVE  files'[v] = files[v]
  BY <1>5, OtherHandlers, CommitEffect
<1>6. ASSUME NEW r \in Requests, Compensate(r)
      PROVE  files'[v] = files[v]
  BY <1>1, <1>6 DEF Compensate
<1>7. ASSUME NEW r \in Requests, DeleteFile(r)
      PROVE  files'[v] = files[v]
  <2>1. req[r].ver \notin live /\ req[r].ver <= current /\ req[r].ver \in Versions
    BY <1>7 DEF DeleteFile, StoreInv, HandlerInv
  <2>2. req[r].ver # v
    BY <1>1, <2>1 DEF Versions
  <2> QED
    BY <1>1, <1>7, <2>2 DEF DeleteFile
<1>8. ASSUME NEW r \in Requests, Arrival(r) \/ Progress(r)
      PROVE  files'[v] = files[v]
  BY <1>3, <1>4, <1>5, <1>6, <1>7, <1>8 DEF Arrival, Begins, Moves, Progress, Commits,
     RestoreCopy, RestoreRefused, Prune, PruneFails, Reconcile, SendFile
<1>9. ASSUME NEW r \in Requests, Abort(r) \/ WorkerCrash(r)
      PROVE  files'[v] = files[v]
  BY <1>9 DEF Abort, WorkerCrash
<1>10. CASE Supervise
  BY <1>3, <1>10 DEF Supervise, SupPick, SupMark, SupHookEnds, SupFinalize, SupReconcile
<1>11. CASE SupFails \/ SupCrash \/ SessionStep
  BY <1>11 DEF SupFails, SupCrash, SessionStep, AcquireLock, ReleaseLock
<1> QED
  BY <1>8, <1>9, <1>10, <1>11 DEF Next

\* A handler that holds a ZIP in place moved it there just now or held it, with
\* the same local variables, before the step.
LEMMA MovingBefore ==
  ASSUME StoreInv, Next, NEW q \in Requests, Moving(q)'
  PROVE  \/ Moves(q)
         \/ req'[q] = req[q] /\ Moving(q)
<1>1. ASSUME NEW r \in Requests, Begins(r) \/ Commits(r) \/ Settles(r)
      PROVE  req'[q] = req[q]
  BY <1>1, OtherHandlers
<1>2. ASSUME NEW r \in Requests, Moves(r), r # q
      PROVE  req'[q] = req[q]
  BY <1>2, MoveEffect
<1>3. SessionStep \/ SupervisorOnly => req'[q] = req[q]
  BY DEF SessionStep, AcquireLock, ReleaseLock, SupervisorOnly
<1>4. req'[q] = req[q] => Moving(q)
  BY DEF Moving
<1> QED
  BY <1>1, <1>2, <1>3, <1>4, StepKinds

\* A row in the table after a step was there before it, or is the row of a
\* handler that commits.
LEMMA RowBefore ==
  ASSUME StoreInv, Next, NEW v \in live'
  PROVE  \/ v \in live /\ row'[v] = row[v]
         \/ \E r \in Requests : /\ Moving(r) /\ req[r].ver = v
                                /\ row'[v].save = req[r].save
                                /\ files'[v] = files[v]
<1>1. row \in [Versions -> Row] /\ live \subseteq Versions /\ current \in 0..MaxVersion
      /\ \A w \in live : w <= current
  BY DEF StoreInv, TypeOK, HeadInv
<1>2. ASSUME NEW r \in Requests, Commits(r)
      PROVE  \/ v \in live /\ row'[v] = row[v]
             \/ /\ Moving(r) /\ req[r].ver = v
                /\ row'[v].save = req[r].save
                /\ files'[v] = files[v]
  <2>1. PICK e \in Row : e.save = req[r].save /\ row' = [row EXCEPT ![req[r].ver] = e]
    BY <1>2, CommitEffect
  <2>2. /\ req[r].ver = current + 1 /\ req[r].ver \in Versions
        /\ live' = live \union {req[r].ver} /\ files' = files /\ Moving(r)
    BY <1>2, CommitEffect DEF Commits, PublishCommit, RestoreCommit, Moving
  <2> QED
    BY <1>1, <2>1, <2>2 DEF Versions
<1>3. ASSUME NEW r \in Requests, Prune(r)
      PROVE  v \in live /\ row'[v] = row[v]
  BY <1>3, PrunedSubset DEF Prune
<1>4. ASSUME NEW r \in Requests, NEW w \in live, DeleteVersion(r, w)
      PROVE  v \in live /\ row'[v] = row[v]
  BY <1>4 DEF DeleteVersion
<1>5. CASE SupFinalize
  BY <1>5, PrunedSubset DEF SupFinalize
<1> QED
  BY <1>2, <1>3, <1>4, <1>5, TableSteps

\* The ZIP a handler has just moved into place is there.
LEMMA MovedFile ==
  ASSUME StoreInv, NEW r \in Requests, Moves(r)
  PROVE  files'[req'[r].ver] = req'[r].save
<1>1. files \in [Versions -> Saves \union {NoSave}]
  BY DEF StoreInv, TypeOK
<1> QED
  BY <1>1, MoveEffect

\* However many transactions fail, nothing but the unlink of an except clause
\* takes away a ZIP that a row or an open transaction counts on
\* (publications.py:455-457, 651-653; retention.py:37-54; app.py:1079-1081).
THEOREM CompensationIsTheOnlyThreat == Spec => OnlyCompensationLosesFiles
<1>1. ASSUME StoreInv, Next, NEW z \in InPlace'
      PROVE  \/ files'[z[1]] = z[2]
             \/ z \in InPlace /\ files[z[1]] # z[2]
             \/ \E r \in Requests : Compensate(r) /\ req[r].ver = z[1]
  <2>1. ASSUME NEW v \in Versions, NEW c, z = <<v, c>>, z \in InPlace,
               v \in live \/ \E q \in Requests : Moving(q) /\ req[q].ver = v
        PROVE  \/ files'[z[1]] = z[2]
               \/ z \in InPlace /\ files[z[1]] # z[2]
               \/ \E r \in Requests : Compensate(r) /\ req[r].ver = z[1]
    BY <1>1, <2>1, FileKept
  <2>2. /\ \A r \in Requests : Moving(r) => writer = r /\ req[r].ver \in Versions
        /\ live \subseteq Versions
    BY <1>1 DEF StoreInv, TypeOK, WriterInv
  <2>3. \A r \in Requests : Moving(r) => <<req[r].ver, req[r].save>> \in InPlace
    BY <2>2 DEF InPlace
  <2>4. \A v \in live : <<v, row[v].save>> \in InPlace
    BY DEF InPlace
  <2>5. ASSUME NEW v \in live', z = <<v, row'[v].save>>
        PROVE  z \in InPlace /\ v \in Versions
               /\ (v \in live \/ \E q \in Requests : Moving(q) /\ req[q].ver = v)
    BY <1>1, <2>2, <2>3, <2>4, <2>5, RowBefore
  <2>6. ASSUME NEW r \in Requests, r = writer', z = <<req'[r].ver, req'[r].save>>
        PROVE  \/ files'[z[1]] = z[2]
               \/ /\ z \in InPlace /\ req'[r].ver \in Versions
                  /\ \E q \in Requests : Moving(q) /\ req[q].ver = req'[r].ver
    <3>1. Moving(r)'
      BY <1>1, <2>6, WriterStep, StoreAssumption DEF WriterInv
    <3> QED
      BY <1>1, <2>2, <2>3, <2>6, <3>1, MovingBefore, MovedFile
  <2>7. \/ \E v \in live' : z = <<v, row'[v].save>>
        \/ \E r \in Requests : r = writer' /\ z = <<req'[r].ver, req'[r].save>>
    BY <1>1 DEF InPlace
  <2> QED
    BY <2>1, <2>5, <2>6, <2>7
<1>2. StoreInv /\ [Next]_vars =>
        [\A z \in InPlace' :
           \/ files'[z[1]] = z[2]
           \/ z \in InPlace /\ files[z[1]] # z[2]
           \/ \E r \in Requests : Compensate(r) /\ req[r].ver = z[1]]_vars
  BY <1>1
<1> QED
  BY <1>2, StoreInvariant, PTL DEF Spec, OnlyCompensationLosesFiles

\* With no failed transaction no handler ever compensates.
LEMMA NoCompensation ==
  ASSUME StoreInv, Next, MaxFaults = 0,
         \A r \in Requests : req[r].pc # "compensating"
  PROVE  /\ faults' = 0
         /\ \A r \in Requests : req'[r].pc # "compensating"
<1>1. req \in [Requests -> Handler]
  BY DEF StoreInv, TypeOK
<1>2. faults' = 0
  BY CounterType
<1>3. ASSUME NEW q \in Requests, NEW r \in Requests, NEW h \in Handler, Step(r, h),
             h.pc # "compensating"
      PROVE  req'[q].pc # "compensating"
  BY <1>1, <1>3 DEF Step
<1>4. ASSUME NEW q \in Requests, NEW r \in Requests, Begins(r) \/ Commits(r) \/ Moves(r)
      PROVE  req'[q].pc # "compensating"
  <2>1. CASE Moves(r)
    BY <1>1, <2>1, MoveEffect DEF Moving
  <2>2. CASE Commits(r)
    BY <1>1, <2>2, CommitEffect DEF At, Working
  <2>3. CASE Begins(r)
    BY <1>1, <2>3 DEF Begins, RestoreBegin, RestoreCopy, DeleteVersion, Download, Step, On, Working
  <2> QED
    BY <1>4, <2>1, <2>2, <2>3
<1>5. ASSUME NEW q \in Requests, NEW r \in Requests, Arrival(r) \/ Progress(r) \/ WorkerCrash(r)
      PROVE  req'[q].pc # "compensating"
  BY <1>1, <1>4, <1>5 DEF Arrival, Begins, Moves, Progress, Commits, RestoreCopy, RestoreRefused,
     Compensate, Prune, PruneFails, Reconcile, DeleteFile, SendFile, WorkerCrash, Step, At, Working
<1>6. ASSUME NEW r \in Requests, Abort(r)
      PROVE  FALSE
  BY <1>6 DEF Abort, StoreInv, TypeOK
<1>7. CASE SessionStep \/ Supervise \/ SupFails \/ SupCrash
  BY <1>2, <1>7 DEF SessionStep, AcquireLock, ReleaseLock, Supervise, SupPick, SupMark,
     SupHookEnds, SupFinalize, SupReconcile, SupFails, SupCrash
<1> QED
  BY <1>2, <1>5, <1>6, <1>7 DEF Next

LEMMA FileInvStep ==
  ASSUME StoreInv, FileInv, MaxFaults = 0, [Next]_vars
  PROVE  FileInv'
<1>1. CASE UNCHANGED vars
  BY <1>1 DEF vars, store, FileInv, EveryVersionHasItsFile, Moving
<1>2. CASE Next
  <2>1. faults' = 0 /\ \A r \in Requests : req'[r].pc # "compensating"
    BY <1>2, NoCompensation DEF FileInv
  <2>2. /\ \A r \in Requests : Moving(r) => req[r].ver \in Versions
        /\ live \subseteq Versions
    BY DEF StoreInv, TypeOK, WriterInv
  <2>5. \A q \in Requests : ~Compensate(q)
    BY DEF FileInv, Compensate
  <2>3. ASSUME NEW v \in live'
        PROVE  files'[v] = row'[v].save
    <3>1. CASE v \in live /\ row'[v] = row[v]
      BY <1>2, <2>5, <2>2, <3>1, FileKept DEF FileInv, EveryVersionHasItsFile
    <3>2. CASE \E r \in Requests : /\ Moving(r) /\ req[r].ver = v
                                   /\ row'[v].save = req[r].save
                                   /\ files'[v] = files[v]
      BY <3>2 DEF FileInv
    <3> QED
      BY <1>2, <3>1, <3>2, RowBefore
  <2>4. ASSUME NEW r \in Requests, Moving(r)'
        PROVE  files'[req'[r].ver] = req'[r].save
    <3>1. CASE Moves(r)
      BY <3>1, MovedFile
    <3>2. CASE req'[r] = req[r] /\ Moving(r)
      BY <1>2, <2>5, <2>2, <3>2, FileKept DEF FileInv
    <3> QED
      BY <1>2, <2>4, <3>1, <3>2, MovingBefore
  <2> QED
    BY <2>1, <2>3, <2>4 DEF FileInv, EveryVersionHasItsFile
<1> QED
  BY <1>1, <1>2

\* As long as the database fails no transaction, a committed row always has
\* its ZIP, through any crashes, cleanups and deletions
\* (retention.py:37-54, publications.py:382-424, app.py:1053-1082).
THEOREM FilesAreThere == MaxFaults = 0 /\ Spec => []EveryVersionHasItsFile
<1> SUFFICES ASSUME MaxFaults = 0
             PROVE  Spec => []EveryVersionHasItsFile
  OBVIOUS
<1>1. Init => FileInv
  BY DEF Init, At, Working, FileInv, EveryVersionHasItsFile, Moving
<1>2. StoreInv /\ FileInv /\ [Next]_vars => FileInv'
  BY FileInvStep
<1>3. FileInv => EveryVersionHasItsFile
  BY DEF FileInv
<1> QED
  BY <1>1, <1>2, <1>3, StoreInvariant, PTL DEF Spec

\* ... and while the backup hook runs, the version it was given is there with
\* its ZIP (app.py:192-198, backup_supervisor.py:346-353).
THEOREM BackupHasItsVersion == MaxFaults = 0 /\ Spec => []BackupReadsItsVersion
<1> SUFFICES ASSUME MaxFaults = 0
             PROVE  Spec => []BackupReadsItsVersion
  OBVIOUS
<1>1. StoreInv /\ EveryVersionHasItsFile => BackupReadsItsVersion
  BY DEF StoreInv, SupInv, HeadInv, EveryVersionHasItsFile, BackupReadsItsVersion
<1>2. Spec => []EveryVersionHasItsFile
  BY FilesAreThere
<1> QED
  BY <1>1, <1>2, StoreInvariant, PTL

-----------------------------------------------------------------------------
(* The store implements the ledger.                                        *)

\* A commit is the ledger's Publish or Restore.
LEMMA CommitImplements ==
  ASSUME StoreInv, NEW r \in Requests, Commits(r)
  PROVE  Ledger!Next
<1>1. /\ current \in 0..MaxVersion /\ MaxVersion \in Nat /\ lock \in Lock
      /\ lock # NoLock => /\ lock.session \in Sessions
                          /\ lock.base = current
                          /\ opened[lock.session] = current
      /\ req[r].pc = "publishing" => lock # NoLock /\ lock.session = req[r].session
      /\ req[r].pc = "restoring" => lock = NoLock
  BY StoreAssumption DEF StoreInv, TypeOK, LockInv
<1>2. /\ req[r].ver = current + 1 /\ req[r].ver \in Versions /\ req[r].save \in Saves
      /\ current' = req[r].ver /\ opened' = opened
  BY CommitEffect
<1>3. current < MaxVersion
  BY <1>1, <1>2 DEF Versions
<1>4. CASE PublishCommit(r)
  <2>1. lock = [session |-> req[r].session, base |-> current] /\ req[r].session \in Sessions
    BY <1>1, <1>4 DEF PublishCommit, Lock
  <2>2. row' = [row EXCEPT ![current + 1] =
                  [session |-> req[r].session, save |-> req[r].save, from |-> 0]]
    BY <1>2, <1>4 DEF PublishCommit, InsertVersion
  <2>3. Ledger!Publish(req[r].session, req[r].save)
    BY <1>1, <1>2, <1>3, <1>4, <2>1, <2>2 DEF PublishCommit, NoLock,
       Ledger!Publish, Ledger!Extend, Ledger!NoLease
  <2> QED
    BY <1>2, <2>1, <2>3 DEF Ledger!Next
<1>5. CASE RestoreCommit(r)
  <2>1. /\ req[r].from \in Versions /\ req[r].from <= current
        /\ row[req[r].from].save = req[r].save
    BY <1>5 DEF RestoreCommit, StoreInv, HandlerInv
  <2>2. row' = [row EXCEPT ![current + 1] =
                  [session |-> NoSession, save |-> row[req[r].from].save, from |-> req[r].from]]
    BY <1>2, <1>5, <2>1 DEF RestoreCommit, InsertVersion
  <2>3. Ledger!Restore(req[r].from)
    BY <1>1, <1>2, <1>3, <1>5, <2>2 DEF RestoreCommit, NoLock,
       Ledger!Restore, Ledger!Extend, Ledger!NoLease
  <2>4. req[r].from \in 1..current
    BY <1>1, <2>1 DEF Versions
  <2> QED
    BY <2>3, <2>4 DEF Ledger!Next
<1> QED
  BY <1>4, <1>5 DEF Commits

\* Every step of the store is a step of the ledger or changes nothing in it.
LEMMA StepImplements ==
  ASSUME StoreInv, [Next]_vars
  PROVE  [Ledger!Next]_(Ledger!ledgerVars)
<1>1. CASE UNCHANGED <<row, current, lock, opened>>
  BY <1>1 DEF Ledger!ledgerVars
<1>2. ASSUME NEW r \in Requests, Commits(r)
      PROVE  Ledger!Next
  BY <1>2, CommitImplements
<1>3. ASSUME NEW s \in Sessions, AcquireLock(s)
      PROVE  Ledger!Next
  BY <1>3 DEF AcquireLock, NoLock, Never, Ledger!Next, Ledger!Open, Ledger!NoLease, Ledger!Never
<1>4. CASE ReleaseLock
  BY <1>4 DEF ReleaseLock, NoLock, Ledger!Next, Ledger!Close, Ledger!NoLease
<1>5. ASSUME NEW r \in Requests, Begins(r) \/ Moves(r) \/ Settles(r)
      PROVE  UNCHANGED <<row, current, lock, opened>>
  BY <1>5, OtherHandlers, MoveEffect DEF Settles, store
<1>6. CASE Next
  BY <1>1, <1>2, <1>3, <1>4, <1>5, <1>6, StepKinds DEF SessionStep, SupervisorOnly
<1> QED
  BY <1>1, <1>6 DEF vars, store

\* The database, the files, the threads, the crashes and the backups together
\* behave as a ledger that only grows at its head, one lease at a time
\* (publications.py:201-674, sessions.py:119-201).
THEOREM StoreImplementsLedger == Spec => ImplementsLedger
<1>1. Init => Ledger!Init
  BY DEF Init, Versions, NoRow, NoLock, Never, Ledger!Init, Ledger!NoEntry, Ledger!NoLease,
         Ledger!Never
<1>2. StoreInv /\ [Next]_vars => [Ledger!Next]_(Ledger!ledgerVars)
  BY StepImplements
<1> QED
  BY <1>1, <1>2, StoreInvariant, PTL DEF Spec, ImplementsLedger, Ledger!Spec

-----------------------------------------------------------------------------
(* The lock of the store is the one Sessions implements.                   *)

Opened == {s \in Sessions : opened[s] # Never}
Authors == {s \in Sessions : \E v \in Versions : row[v].session = s}

StoreLease == INSTANCE Lease WITH holder <- lock.session, begun <- Opened, done <- Authors

\* A commit ends the lease with a version, or adds one that nobody published.
LEMMA CommitEndsLease ==
  ASSUME StoreInv, NEW r \in Requests, Commits(r)
  PROVE  [StoreLease!Next]_(StoreLease!leaseVars)
<1>1. /\ current \in 0..MaxVersion /\ MaxVersion \in Nat /\ lock \in Lock
      /\ row \in [Versions -> Row]
      /\ lock # NoLock => /\ lock.session \in Sessions
                          /\ opened[lock.session] = current
      /\ req[r].pc = "publishing" => lock # NoLock /\ lock.session = req[r].session
      /\ req[r].pc = "restoring" => lock = NoLock
      /\ \A v \in Versions :
           row[v].session # NoSession => opened[row[v].session] = v - 1
  BY StoreAssumption DEF StoreInv, TypeOK, LockInv
<1>2. /\ req[r].ver = current + 1 /\ req[r].ver \in Versions /\ UNCHANGED Opened
  BY CommitEffect DEF Opened
<1>3. row[req[r].ver].session = NoSession
  <2>1. row[req[r].ver] = NoRow
    BY <1>1, <1>2 DEF StoreInv, HeadInv
  <2> QED
    BY <2>1 DEF NoRow
<1>4. CASE PublishCommit(r)
  <2>1. /\ req[r].session \in Sessions /\ lock.session = req[r].session
        /\ lock' = NoLock
        /\ row' = [row EXCEPT ![req[r].ver] =
                     [session |-> req[r].session, save |-> req[r].save, from |-> 0]]
    BY <1>1, <1>4 DEF PublishCommit, InsertVersion
  <2>2. req[r].session \notin Authors
    <3>1. SUFFICES ASSUME NEW v \in Versions, row[v].session = req[r].session PROVE FALSE
      BY DEF Authors
    <3>2. req[r].session # NoSession /\ opened[req[r].session] = current
      BY <1>1, <1>4, <2>1, StoreAssumption DEF PublishCommit
    <3>3. v - 1 = current
      BY <1>1, <3>1, <3>2
    <3>4. v = req[r].ver
      BY <1>1, <1>2, <3>3 DEF Versions
    <3> QED
      BY <1>3, <3>1, <3>2, <3>4
  <2>3. Authors' = Authors \union {req[r].session}
    BY <1>1, <1>2, <1>3, <2>1, StoreAssumption DEF Authors
  <2> QED
    BY <1>2, <2>1, <2>2, <2>3 DEF NoLock, StoreLease!Next, StoreLease!Publish
<1>5. CASE RestoreCommit(r)
  <2>1. /\ lock' = lock
        /\ row' = [row EXCEPT ![req[r].ver] =
                     [session |-> NoSession, save |-> req[r].save, from |-> req[r].from]]
    BY <1>5 DEF RestoreCommit, InsertVersion
  <2>2. Authors' = Authors
    BY <1>1, <1>2, <1>3, <2>1, StoreAssumption DEF Authors
  <2> QED
    BY <1>2, <2>1, <2>2 DEF StoreLease!leaseVars
<1> QED
  BY <1>4, <1>5 DEF Commits

\* With versions, files, crashes and backups in place of the clock and the
\* access, the lock is still a lease with one term and at most one version for
\* each session (sessions.py:119-201, publications.py:318-437): what Sessions
\* is shown to implement.
THEOREM StoreImplementsLease == Spec => StoreLease!Spec
<1>1. Init => StoreLease!Init
  BY StoreAssumption DEF Init, NoLock, NoRow, Opened, Authors, StoreLease!Init
<1>2. StoreInv /\ [Next]_vars => [StoreLease!Next]_(StoreLease!leaseVars)
  <2> SUFFICES ASSUME StoreInv, [Next]_vars PROVE [StoreLease!Next]_(StoreLease!leaseVars)
    OBVIOUS
  <2>1. CASE UNCHANGED <<row, lock, opened>>
    BY <2>1 DEF StoreLease!leaseVars, Opened, Authors
  <2>2. ASSUME NEW s \in Sessions, AcquireLock(s)
        PROVE  StoreLease!Next
    <3>1. /\ opened[s] = Never /\ lock'.session = s /\ UNCHANGED row
          /\ opened' = [opened EXCEPT ![s] = current]
      BY <2>2 DEF AcquireLock
    <3>2. opened \in [Sessions -> 0..Never] /\ current # Never
      BY StoreAssumption DEF StoreInv, TypeOK, Never
    <3>3. Opened' = Opened \union {s} /\ s \notin Opened /\ UNCHANGED Authors
      BY <3>1, <3>2 DEF Opened, Authors
    <3> QED
      BY <3>1, <3>3 DEF StoreLease!Next, StoreLease!Take
  <2>3. CASE ReleaseLock
    <3>1. lock # NoLock /\ lock' = NoLock /\ UNCHANGED <<row, opened>>
      BY <2>3 DEF ReleaseLock
    <3>2. lock.session # NoSession
      BY <3>1, StoreAssumption DEF StoreInv, LockInv
    <3> QED
      BY <3>1, <3>2 DEF NoLock, Opened, Authors, StoreLease!Next, StoreLease!Lose
  <2>4. ASSUME NEW r \in Requests, Begins(r) \/ Moves(r) \/ Settles(r)
        PROVE  UNCHANGED <<row, lock, opened>>
    BY <2>4, OtherHandlers, MoveEffect DEF Settles, store
  <2>5. CASE Next
    BY <2>1, <2>2, <2>3, <2>4, <2>5, StepKinds, CommitEndsLease DEF SessionStep, SupervisorOnly
  <2> QED
    BY <2>1, <2>5 DEF vars, store
<1> QED
  BY <1>1, <1>2, StoreInvariant, PTL DEF Spec, StoreLease!Spec
=============================================================================
