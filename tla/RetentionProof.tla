--------------------------- MODULE RetentionProof ---------------------------
(***************************************************************************)
(* The loop of prune_canonical_versions_locked does what the rule says,    *)
(* for any number of users, slots and versions and any RetentionPerSlot.   *)
(* The loop is a state machine in RetentionTable, so the induction over    *)
(* its rows is the induction over the steps of a behaviour.                *)
(***************************************************************************)
EXTENDS RetentionTable, RetentionTheorems

-----------------------------------------------------------------------------
(* The order of the loop.                                                  *)

\* ORDER BY v.version DESC has a first row: the rows still to visit have a
\* newest one.
LEMMA NextIsNewest ==
  ASSUME NEW n \in Nat, NEW S \in SUBSET (1..n), S # {}
  PROVE  /\ NewestFirst(S) \in S
         /\ \A w \in S : w <= NewestFirst(S)
<1>1. \E v \in S : \A w \in S : w <= v
  BY NewestExists
<1> QED
  BY <1>1 DEF NewestFirst

-----------------------------------------------------------------------------
(* The state.                                                              *)

\* Every version has a slot (retention.py:26).
LEMMA SlotForType ==
  ASSUME TypeOK, NEW v \in Versions
  PROVE  SlotFor(v) \in Slots
BY TableAssumption DEF TypeOK, SlotFor

LEMMA InitTable == Init => TableInv
<1> SUFFICES ASSUME Init PROVE TableInv
  OBVIOUS
<1>1. (CHOOSE u \in Users : TRUE) \in Users
  BY TableAssumption
<1>2. TypeOK
  BY <1>1, TableAssumption DEF Init, TypeOK, Closed, NoneKept, Versions
<1> QED
  BY <1>2 DEF Init, Closed, TableInv, UndoInv, LoopInv, LoopMeetsRule,
              KeepsNewestOfEverySlot, HeadSurvives

\* With no transaction open, only the types and the head remain to be shown.
LEMMA ClosedTable ==
  ASSUME TypeOK', HeadSurvives', ~txn'.open, todo' = {}
  PROVE  TableInv'
BY DEF TableInv, UndoInv, LoopInv, LoopMeetsRule, KeepsNewestOfEverySlot

LEMMA InsertStep ==
  ASSUME TableInv, NEW u \in Users, NEW armed \in BOOLEAN, Insert(u, armed)
  PROVE  TableInv'
<1> USE TableAssumption DEF TableInv, TypeOK, Insert, loop, Versions
<1>1. head' \in 1..MaxVersion /\ head' = head + 1
  OBVIOUS
<1>2. rows' \subseteq 1..head' /\ pending' \subseteq rows'
  OBVIOUS
<1>3. txn' \in [open : BOOLEAN, rows : SUBSET (1..head'), pending : SUBSET (1..head')]
  BY <1>1
<1>4. TypeOK'
  BY <1>1, <1>2, <1>3
<1>5. HeadSurvives'
  BY DEF HeadSurvives
<1> QED
  BY <1>4, <1>5, ClosedTable DEF UndoInv

LEMMA DeleteStep ==
  ASSUME TableInv, NEW v \in rows, Delete(v)
  PROVE  TableInv'
<1>1. TypeOK'
  BY DEF TableInv, TypeOK, UndoInv, Delete, loop
<1>2. HeadSurvives'
  BY DEF TableInv, HeadSurvives, Delete
<1> QED
  BY <1>1, <1>2, ClosedTable DEF TableInv, UndoInv, Delete, loop

LEMMA MoveUserStep ==
  ASSUME TableInv, NEW u \in Users, NEW s \in Slots, MoveUser(u, s)
  PROVE  TableInv'
<1>1. TypeOK'
  BY DEF TableInv, TypeOK, MoveUser, loop
<1>2. HeadSurvives'
  BY DEF TableInv, HeadSurvives, MoveUser
<1> QED
  BY <1>1, <1>2, ClosedTable DEF TableInv, UndoInv, MoveUser, loop

LEMMA EndStep ==
  ASSUME TableInv, Commit \/ Rollback
  PROVE  TableInv'
<1>1. TypeOK'
  <2>1. rows' \subseteq 1..head /\ pending' \subseteq rows' /\ head' = head
    <3>1. CASE Commit
      BY <3>1 DEF TableInv, TypeOK, Commit, Close
    <3>2. CASE Rollback
      <4>1. txn.rows \subseteq 1..head /\ txn.pending \subseteq txn.rows
        BY <3>2 DEF TableInv, TypeOK, UndoInv, Rollback
      <4> QED
        BY <3>2, <4>1 DEF Rollback, Close
    <3> QED
      BY <3>1, <3>2
  <2>2. /\ txn' \in [open : BOOLEAN, rows : SUBSET (1..head), pending : SUBSET (1..head)]
        /\ todo' = {} /\ keptPerSlot' \in [Slots -> Nat]
    <3>1. txn' = Closed /\ todo' = {} /\ keptPerSlot' = NoneKept
      BY DEF Commit, Rollback, Close
    <3>2. Closed \in [open : BOOLEAN, rows : SUBSET (1..head), pending : SUBSET (1..head)]
      BY DEF Closed
    <3>3. NoneKept \in [Slots -> Nat]
      BY DEF NoneKept
    <3> QED
      BY <3>1, <3>2, <3>3
  <2> QED
    BY <2>1, <2>2 DEF TableInv, TypeOK, Commit, Rollback, Close
<1>2. HeadSurvives'
  BY DEF TableInv, UndoInv, HeadSurvives, Commit, Rollback, Close
<1> QED
  BY <1>1, <1>2, ClosedTable DEF Commit, Rollback, Close, Closed

\* A transaction begins with every row still to be visited.
LEMMA BeginStep ==
  ASSUME TableInv, NEW markers \in SUBSET pending, BeginPrune(markers)
  PROVE  TableInv'
<1> USE DEF BeginPrune
<1>1. TypeOK'
  BY DEF TableInv, TypeOK, NoneKept
<1>2. UndoInv' /\ HeadSurvives'
  BY DEF TableInv, TypeOK, UndoInv, HeadSurvives
<1>3. LoopInv'
  <2>1. \A s \in Slots : KeptOf(s)' = {}
    BY DEF KeptOf
  <2>2. \A s \in Slots : keptPerSlot'[s] = Cardinality(KeptOf(s)')
    BY <2>1, FS_EmptySet DEF NoneKept
  <2> QED
    BY <2>2 DEF LoopInv
<1>4. LoopMeetsRule' /\ KeepsNewestOfEverySlot'
  BY DEF LoopMeetsRule, KeepsNewestOfEverySlot, Retained
<1> QED
  BY <1>1, <1>2, <1>3, <1>4 DEF TableInv

-----------------------------------------------------------------------------
(* One iteration of the loop.                                              *)

\* The row it visits is newer than those to come and older than those before.
LEMMA VisitedRow ==
  ASSUME TableInv, txn.open, todo # {}, NEW v, v = NewestFirst(todo)
  PROVE  /\ v \in todo /\ v \in rows /\ v \in txn.rows /\ v \in Versions
         /\ \A w \in todo : w <= v
         /\ \A w \in txn.rows \ todo : v < w
         /\ SlotFor(v) \in Slots
<1>1. todo \in SUBSET (1..head) /\ head \in Nat
  BY DEF TableInv, TypeOK
<1>2. v \in todo /\ \A w \in todo : w <= v
  BY <1>1, NextIsNewest
<1>3. v \in rows /\ v \in txn.rows /\ v \in Versions
  BY <1>2, TableAssumption DEF TableInv, TypeOK, UndoInv, Versions
<1> QED
  BY <1>2, <1>3, SlotForType DEF TableInv, LoopInv

\* What the slot has kept is newer, and finite.
LEMMA KeptIsNewer ==
  ASSUME TableInv, txn.open, todo # {}, NEW v, v = NewestFirst(todo)
  PROVE  /\ KeptOf(SlotFor(v)) \subseteq NewerInSlot(rows \ {v}, SlotOfRow, v)
         /\ NewerInSlot(rows \ {v}, SlotOfRow, v) \subseteq NewerInSlot(txn.rows, SlotOfRow, v)
         /\ IsFiniteSet(NewerInSlot(txn.rows, SlotOfRow, v))
<1>1. rows \subseteq txn.rows /\ txn.rows \subseteq Versions
  BY TableAssumption DEF TableInv, TypeOK, UndoInv, Versions
<1>2. \A w \in rows \ todo : v < w /\ w \in Versions
  BY <1>1, VisitedRow
<1>3. v \in Versions /\ v \in todo
  BY VisitedRow
<1>4. KeptOf(SlotFor(v)) \subseteq NewerInSlot(rows \ {v}, SlotOfRow, v)
  BY <1>2, <1>3 DEF KeptOf, NewerInSlot, SlotOfRow, Versions
<1>5. NewerInSlot(rows \ {v}, SlotOfRow, v) \subseteq NewerInSlot(txn.rows, SlotOfRow, v)
  BY <1>1 DEF NewerInSlot
<1>6. NewerInSlot(txn.rows, SlotOfRow, v) \in SUBSET (1..MaxVersion)
  BY <1>1 DEF NewerInSlot, Versions
<1> QED
  BY <1>4, <1>5, <1>6, VersionsFinite, TableAssumption

\* A row that is deleted is one the rule does not retain.
LEMMA DeletedIsSurplus ==
  ASSUME TableInv, txn.open, todo # {}, NEW v, v = NewestFirst(todo),
         keptPerSlot[SlotFor(v)] >= RetentionPerSlot
  PROVE  /\ Cardinality(NewerInSlot(rows \ {v}, SlotOfRow, v)) >= RetentionPerSlot
         /\ Cardinality(NewerInSlot(txn.rows, SlotOfRow, v)) >= RetentionPerSlot
<1> DEFINE K == KeptOf(SlotFor(v))
           N == NewerInSlot(rows \ {v}, SlotOfRow, v)
           A == NewerInSlot(txn.rows, SlotOfRow, v)
<1>1. K \subseteq N /\ N \subseteq A /\ IsFiniteSet(A)
  BY KeptIsNewer
<1>2. Cardinality(K) >= RetentionPerSlot
  BY VisitedRow DEF TableInv, LoopInv
<1> HIDE DEF K, N, A
<1>3. IsFiniteSet(N) /\ Cardinality(N) <= Cardinality(A)
  BY <1>1, FS_Subset
<1>4. IsFiniteSet(K) /\ Cardinality(K) <= Cardinality(N)
  BY <1>1, <1>3, FS_Subset
<1>5. Cardinality(K) \in Nat /\ Cardinality(N) \in Nat /\ Cardinality(A) \in Nat
  BY <1>1, <1>3, <1>4, FS_CardinalityType
<1> QED
  BY <1>2, <1>3, <1>4, <1>5, TableAssumption DEF N, A

\* A slot that has room has lost no row, so the rule retains this one.
LEMMA KeptIsRetained ==
  ASSUME TableInv, txn.open, todo # {}, NEW v, v = NewestFirst(todo),
         ~(keptPerSlot[SlotFor(v)] >= RetentionPerSlot)
  PROVE  Cardinality(NewerInSlot(txn.rows, SlotOfRow, v)) < RetentionPerSlot
<1>1. txn.rows \subseteq Versions /\ v \in Versions
  BY VisitedRow, TableAssumption DEF TableInv, TypeOK, Versions
<1>2. NewerInSlot(txn.rows, SlotOfRow, v) \subseteq KeptOf(SlotFor(v))
  <2> SUFFICES ASSUME NEW w \in txn.rows, w > v, SlotFor(w) = SlotFor(v)
               PROVE  w \in rows \ todo
    BY <1>1 DEF NewerInSlot, KeptOf, SlotOfRow
  <2>1. w \notin todo
    BY <1>1, VisitedRow DEF Versions
  <2>2. w \in rows
    BY DEF TableInv, LoopInv
  <2> QED
    BY <2>1, <2>2
<1>3. KeptOf(SlotFor(v)) \in SUBSET (1..MaxVersion)
  <2>1. rows \subseteq 1..MaxVersion
    BY TableAssumption DEF TableInv, TypeOK
  <2> QED
    BY <2>1 DEF KeptOf
<1>4. IsFiniteSet(KeptOf(SlotFor(v)))
  BY <1>3, VersionsFinite, TableAssumption
<1>5. /\ IsFiniteSet(NewerInSlot(txn.rows, SlotOfRow, v))
      /\ Cardinality(NewerInSlot(txn.rows, SlotOfRow, v)) <= Cardinality(KeptOf(SlotFor(v)))
  BY <1>2, <1>4, FS_Subset
<1>6. /\ Cardinality(NewerInSlot(txn.rows, SlotOfRow, v)) \in Nat
      /\ Cardinality(KeptOf(SlotFor(v))) \in Nat
  BY <1>4, <1>5, FS_CardinalityType
<1>7. keptPerSlot[SlotFor(v)] = Cardinality(KeptOf(SlotFor(v)))
  BY VisitedRow DEF TableInv, LoopInv
<1> QED
  BY <1>5, <1>6, <1>7, TableAssumption

LEMMA VisitTypes ==
  ASSUME TableInv, Visit
  PROVE  TypeOK' /\ UndoInv'
<1> DEFINE v == NewestFirst(todo)
<1>1. v \in todo /\ v \in rows /\ SlotFor(v) \in Slots
  BY VisitedRow DEF Visit
<1>2. \/ rows' = rows \ {v} /\ keptPerSlot' = keptPerSlot /\ v \notin pending
      \/ rows' = rows /\ keptPerSlot' = [keptPerSlot EXCEPT ![SlotFor(v)] = @ + 1]
  BY DEF Visit, PruneStep, DeleteRow, KeepRow
<1>3. todo' = todo \ {v} /\ UNCHANGED <<head, updatedBy, pending, slot, txn>>
  BY DEF Visit
<1>4. keptPerSlot' \in [Slots -> Nat]
  BY <1>1, <1>2 DEF TableInv, TypeOK
<1> HIDE DEF v
<1>5. rows' \subseteq rows /\ pending \subseteq rows' /\ todo' \subseteq rows'
  BY <1>1, <1>2, <1>3 DEF TableInv, TypeOK
<1>6. TypeOK'
  BY <1>3, <1>4, <1>5 DEF TableInv, TypeOK
<1>7. txn.open
  BY DEF Visit
<1> QED
  BY <1>3, <1>5, <1>6, <1>7 DEF TableInv, UndoInv

\* The slots do not change under the loop.
LEMMA VisitSlots ==
  ASSUME Visit
  PROVE  SlotOfRow' = SlotOfRow /\ \A w : SlotFor(w)' = SlotFor(w)
BY DEF Visit, SlotOfRow, SlotFor

\* kept_per_slot goes on counting what stays.
LEMMA VisitCounts ==
  ASSUME TableInv, Visit, NEW s \in Slots
  PROVE  keptPerSlot'[s] = Cardinality(KeptOf(s)')
<1> DEFINE v == NewestFirst(todo)
<1>1. v \in todo /\ v \in rows /\ SlotFor(v) \in Slots
  BY VisitedRow DEF Visit
<1>2. todo' = todo \ {v}
  BY DEF Visit
<1>3. keptPerSlot[s] = Cardinality(KeptOf(s)) /\ keptPerSlot \in [Slots -> Nat]
  BY DEF Visit, TableInv, TypeOK, LoopInv
<1>4. CASE rows' = rows \ {v} /\ keptPerSlot' = keptPerSlot
  <2>1. KeptOf(s)' = KeptOf(s)
    BY <1>1, <1>2, <1>4, VisitSlots DEF KeptOf
  <2> QED
    BY <1>3, <1>4, <2>1
<1>5. CASE rows' = rows /\ keptPerSlot' = [keptPerSlot EXCEPT ![SlotFor(v)] = @ + 1]
  <2> HIDE DEF v
  <2>1. KeptOf(s)' = IF s = SlotFor(v) THEN KeptOf(s) \union {v} ELSE KeptOf(s)
    BY <1>1, <1>2, <1>5, VisitSlots DEF KeptOf
  <2>2. v \notin KeptOf(s)
    BY <1>1 DEF KeptOf
  <2>3. IsFiniteSet(KeptOf(s))
    <3>1. KeptOf(s) \in SUBSET (1..MaxVersion)
      <4>1. rows \subseteq 1..MaxVersion
        BY TableAssumption DEF TableInv, TypeOK
      <4> QED
        BY <4>1 DEF KeptOf
    <3> QED
      BY <3>1, VersionsFinite, TableAssumption
  <2>4. Cardinality(KeptOf(s) \union {v}) = Cardinality(KeptOf(s)) + 1
    BY <2>2, <2>3, FS_AddElement
  <2> QED
    BY <1>1, <1>3, <1>5, <2>1, <2>4
<1> QED
  BY <1>4, <1>5 DEF Visit, PruneStep, DeleteRow, KeepRow

LEMMA VisitLoop ==
  ASSUME TableInv, Visit
  PROVE  LoopInv'
<1> DEFINE v == NewestFirst(todo)
<1>1. /\ v \in todo /\ SlotFor(v) \in Slots
      /\ \A w \in todo : w <= v
      /\ \A w \in txn.rows \ todo : v < w
  BY VisitedRow DEF Visit
<1>2. /\ todo' = todo \ {v} /\ txn' = txn /\ txn.open
  BY DEF Visit
<1>3. txn.rows \subseteq Versions /\ todo \subseteq Versions
  BY TableAssumption DEF Visit, TableInv, TypeOK, Versions
<1> HIDE DEF v
<1>4. ASSUME NEW u \in txn.rows \ todo', NEW w \in todo'
      PROVE  w < u
  <2>1. u = v \/ u \in txn.rows \ todo
    BY <1>2
  <2>2. w \in todo /\ w # v /\ w <= v /\ w \in Int /\ u \in Int /\ v \in Int
    BY <1>1, <1>2, <1>3 DEF Versions
  <2> QED
    BY <1>1, <2>1, <2>2
<1>5. ASSUME NEW u \in txn.rows \ rows'
      PROVE  keptPerSlot'[SlotFor(u)'] >= RetentionPerSlot
  <2> USE DEF v
  <2>1. SlotFor(u) \in Slots /\ SlotFor(u)' = SlotFor(u)
    BY <1>3, SlotForType, VisitSlots DEF TableInv
  <2>2. keptPerSlot[SlotFor(u)] >= RetentionPerSlot
    BY <1>2 DEF Visit, PruneStep, DeleteRow, KeepRow, TableInv, LoopInv
  <2>3. keptPerSlot'[SlotFor(u)] \in Nat /\ keptPerSlot'[SlotFor(u)] >= keptPerSlot[SlotFor(u)]
    BY <2>1, <1>1 DEF Visit, PruneStep, DeleteRow, KeepRow, TableInv, TypeOK
  <2>4. keptPerSlot[SlotFor(u)] \in Nat
    BY <2>1 DEF TableInv, TypeOK
  <2> QED
    BY <2>1, <2>2, <2>3, <2>4, TableAssumption
<1> QED
  BY <1>2, <1>4, <1>5, VisitCounts DEF LoopInv

\* What the loop leaves is what the rule retains.
LEMMA VisitMeetsRule ==
  ASSUME TableInv, Visit
  PROVE  LoopMeetsRule'
<1> DEFINE v == NewestFirst(todo)
           R == Retained(txn.rows, SlotOfRow, pending, RetentionPerSlot)
<1>1. v \in todo /\ v \in rows /\ v \in txn.rows /\ txn.open /\ todo # {}
  BY VisitedRow DEF Visit
<1>2. todo' = todo \ {v} /\ UNCHANGED <<pending, txn>>
  BY DEF Visit
<1>3. rows = todo \union R
  BY <1>1 DEF TableInv, LoopMeetsRule
<1>4. Cardinality(NewerInSlot(txn.rows, SlotOfRow, v)) \in Nat
  BY <1>1, KeptIsNewer, FS_CardinalityType
<1>5. v \in R <=> rows' = rows
  <2>1. v \in R <=> \/ v \in pending
                    \/ Cardinality(NewerInSlot(txn.rows, SlotOfRow, v)) < RetentionPerSlot
    BY <1>1 DEF Retained
  <2>2. CASE keptPerSlot[SlotFor(v)] >= RetentionPerSlot /\ v \notin pending
    <3>1. rows' = rows \ {v}
      BY <2>2 DEF Visit, PruneStep, DeleteRow
    <3>2. Cardinality(NewerInSlot(txn.rows, SlotOfRow, v)) >= RetentionPerSlot
      BY <1>1, <2>2, DeletedIsSurplus
    <3> QED
      BY <1>1, <1>4, <2>1, <2>2, <3>1, <3>2, TableAssumption
  <2>3. CASE ~(keptPerSlot[SlotFor(v)] >= RetentionPerSlot /\ v \notin pending)
    <3>1. rows' = rows
      BY <2>3 DEF Visit, PruneStep, KeepRow
    <3>2. v \in R
      BY <1>1, <2>1, <2>3, KeptIsRetained
    <3> QED
      BY <3>1, <3>2
  <2> QED
    BY <2>2, <2>3
<1>6. rows' \in {rows, rows \ {v}}
  BY DEF Visit, PruneStep, DeleteRow, KeepRow
<1> HIDE DEF v, R
<1>7. rows' = todo' \union R
  BY <1>1, <1>2, <1>3, <1>5, <1>6
<1> USE DEF R
<1> QED
  BY <1>1, <1>2, <1>7, VisitSlots DEF LoopMeetsRule

\* The rows a deleted row gives way to stay.
LEMMA VisitKeepsNewest ==
  ASSUME TableInv, Visit
  PROVE  KeepsNewestOfEverySlot'
<1> DEFINE v == NewestFirst(todo)
<1>1. /\ v \in todo /\ v \in rows /\ v \in txn.rows /\ txn.open /\ todo # {}
      /\ \A w \in txn.rows \ todo : v < w
  BY VisitedRow DEF Visit
<1>2. UNCHANGED <<pending, txn>> /\ SlotOfRow' = SlotOfRow
  BY VisitSlots DEF Visit
<1>3. txn.rows \subseteq Versions /\ todo \subseteq rows
  BY TableAssumption DEF TableInv, TypeOK, Versions
<1>4. SUFFICES ASSUME NEW u \in txn.rows \ rows'
               PROVE  /\ u \notin pending
                      /\ Cardinality(NewerInSlot(rows', SlotOfRow, u)) >= RetentionPerSlot
  BY <1>2 DEF KeepsNewestOfEverySlot, NewerInSlot
<1>5. CASE u \notin rows
  <2>1. rows' \in {rows, rows \ {v}}
    BY DEF Visit, PruneStep, DeleteRow, KeepRow
  <2>2. ~(v > u)
    BY <1>1, <1>3, <1>5 DEF Versions
  <2>3. NewerInSlot(rows', SlotOfRow, u) = NewerInSlot(rows, SlotOfRow, u)
    BY <2>1, <2>2 DEF NewerInSlot
  <2> QED
    BY <1>1, <1>5, <2>3 DEF TableInv, KeepsNewestOfEverySlot
<1>6. CASE u \in rows
  <2>1. /\ u = v /\ rows' = rows \ {v} /\ v \notin pending
        /\ keptPerSlot[SlotFor(v)] >= RetentionPerSlot
    BY <1>6 DEF Visit, PruneStep, DeleteRow, KeepRow
  <2>2. Cardinality(NewerInSlot(rows \ {v}, SlotOfRow, v)) >= RetentionPerSlot
    BY <1>1, <2>1, DeletedIsSurplus
  <2> QED
    BY <2>1, <2>2
<1> QED
  BY <1>5, <1>6

LEMMA VisitStep ==
  ASSUME TableInv, Visit
  PROVE  TableInv'
<1>1. TypeOK' /\ UndoInv' /\ LoopInv' /\ LoopMeetsRule' /\ KeepsNewestOfEverySlot'
  BY VisitTypes, VisitLoop, VisitMeetsRule, VisitKeepsNewest
<1>2. HeadSurvives'
  <2> SUFFICES ASSUME head' # 0, head' \notin rows'
               PROVE  FALSE
    BY DEF HeadSurvives
  <2>1. txn'.open
    BY DEF Visit
  <2>2. head' \in txn'.rows \ rows'
    BY <1>1, <2>1 DEF UndoInv
  <2>3. Cardinality(NewerInSlot(rows', SlotOfRow', head')) >= RetentionPerSlot
    BY <1>1, <2>1, <2>2 DEF KeepsNewestOfEverySlot
  <2>4. \A w \in rows' : ~(w > head')
    BY <1>1, TableAssumption DEF TypeOK
  <2>5. NewerInSlot(rows', SlotOfRow', head') = {}
    BY <2>4 DEF NewerInSlot
  <2> QED
    BY <2>3, <2>5, FS_EmptySet, TableAssumption
<1> QED
  BY <1>1, <1>2 DEF TableInv

-----------------------------------------------------------------------------
(* The theorems.                                                           *)

\* The tables and the loop agree in every reachable state, for any number of
\* users, slots and versions and any RetentionPerSlot of at least 1.
THEOREM TableInvariant == Spec => []TableInv
<1>1. TableInv /\ [Next]_tableVars => TableInv'
  <2> SUFFICES ASSUME TableInv, [Next]_tableVars PROVE TableInv'
    OBVIOUS
  <2>1. ASSUME NEW u \in Users, NEW armed \in BOOLEAN, Insert(u, armed)
        PROVE  TableInv'
    BY <2>1, InsertStep
  <2>2. ASSUME NEW v \in rows, Delete(v)
        PROVE  TableInv'
    BY <2>2, DeleteStep
  <2>3. ASSUME NEW u \in Users, NEW s \in Slots, MoveUser(u, s)
        PROVE  TableInv'
    BY <2>3, MoveUserStep
  <2>4. CASE Cleanup
    BY <2>4, BeginStep DEF Cleanup
  <2>5. ASSUME NEW v \in pending, Finalize(v)
        PROVE  TableInv'
    <3>1. pending \ {v} \in SUBSET pending
      OBVIOUS
    <3> QED
      BY <2>5, <3>1, BeginStep DEF Finalize
  <2>6. CASE Visit
    BY <2>6, VisitStep
  <2>7. CASE Commit \/ Rollback
    BY <2>7, EndStep
  <2>8. CASE UNCHANGED tableVars
    <3>1. /\ UNCHANGED <<head, rows, updatedBy, pending, slot, txn, todo, keptPerSlot>>
          /\ \A v : SlotFor(v)' = SlotFor(v)
      BY <2>8 DEF tableVars, loop, SlotFor
    <3>2. SlotOfRow' = SlotOfRow /\ \A s : KeptOf(s)' = KeptOf(s)
      BY <3>1 DEF SlotOfRow, KeptOf
    <3>3. TypeOK' /\ UndoInv' /\ HeadSurvives'
      BY <3>1 DEF TableInv, TypeOK, UndoInv, HeadSurvives
    <3>4. LoopInv'
      BY <3>1, <3>2 DEF TableInv, LoopInv
    <3>5. LoopMeetsRule' /\ KeepsNewestOfEverySlot'
      BY <3>1, <3>2 DEF TableInv, LoopMeetsRule, KeepsNewestOfEverySlot
    <3> QED
      BY <3>3, <3>4, <3>5 DEF TableInv
  <2> QED
    BY <2>1, <2>2, <2>3, <2>4, <2>5, <2>6, <2>7, <2>8 DEF Next
<1> QED
  BY <1>1, InitTable, PTL DEF Spec

\* The loop of retention.py computes the rule that SaveStore prunes by.
THEOREM LoopComputesRule == Spec => []LoopMeetsRule
BY TableInvariant, PTL DEF TableInv

\* A cleanup removes a row only if its backup is resolved and RetentionPerSlot
\* newer rows of its slot stay.
THEOREM NewestOfSlotStay == Spec => []KeepsNewestOfEverySlot
BY TableInvariant, PTL DEF TableInv

\* The current version keeps its row, through every cleanup, deletion and
\* rollback.
THEOREM CurrentRowStays == Spec => []HeadSurvives
BY TableInvariant, PTL DEF TableInv

\* What a cleanup commits is what the rule says of the rows it found and the
\* markers it left: SaveStore, whose cleanups are one step by the rule, loses
\* nothing of the loop.
THEOREM CommitsTheRule ==
  Spec => [][Commit => rows' = Retained(txn.rows, SlotOfRow, pending', RetentionPerSlot)]_tableVars
<1>1. TableInv /\ [Next]_tableVars =>
        [Commit => rows' = Retained(txn.rows, SlotOfRow, pending', RetentionPerSlot)]_tableVars
  <2> SUFFICES ASSUME TableInv, Commit
               PROVE  rows' = Retained(txn.rows, SlotOfRow, pending', RetentionPerSlot)
    OBVIOUS
  <2>1. txn.open /\ todo = {} /\ rows' = rows /\ pending' = pending
    BY DEF Commit
  <2> QED
    BY <2>1 DEF TableInv, LoopMeetsRule
<1> QED
  BY <1>1, TableInvariant, PTL DEF Spec
=============================================================================
