-------------------------- MODULE RetentionTheorems --------------------------
(***************************************************************************)
(* What the rule of Retention promises of any set of rows, however many    *)
(* are protected by a pending backup.                                      *)
(***************************************************************************)
EXTENDS Retention, FiniteSetTheorems, TLAPS

\* Every set of versions is finite.
LEMMA VersionsFinite ==
  ASSUME NEW m \in Nat, NEW S \in SUBSET (1..m)
  PROVE  IsFiniteSet(S)
<1>1. IsFiniteSet(1..m)
  BY FS_Interval
<1> QED
  BY <1>1, FS_Subset

\* A set of versions has a newest one: its distance from m is minimal, and < is
\* well-founded on Nat.
LEMMA NewestExists ==
  ASSUME NEW m \in Nat, NEW S \in SUBSET (1..m), S # {}
  PROVE  \E v \in S : \A w \in S : w <= v
<1> DEFINE T == {m - v : v \in S}
<1>1. T \subseteq Nat
  OBVIOUS
<1>2. PICK d \in T : \A k \in T : <<k, d>> \notin OpToRel(<, Nat)
  <2>1. T # {}
    OBVIOUS
  <2> HIDE DEF T
  <2> QED
    BY <1>1, <2>1, NatLessThanWellFounded, WFMin
<1>3. \A k \in T : ~(k < d)
  BY <1>1, <1>2, Zenon DEF OpToRel
<1>4. PICK v \in S : d = m - v
  BY <1>2
<1>5. \A w \in S : w <= v
  <2>1. SUFFICES ASSUME NEW w \in S PROVE w <= v
    OBVIOUS
  <2>2. ~(m - w < m - v)
    BY <1>3, <1>4
  <2>3. w \in 1..m /\ v \in 1..m
    OBVIOUS
  <2> QED
    BY <2>2, <2>3
<1> QED
  BY <1>5

\* A row that the rule does not retain gives way to n newer rows of its slot that
\* it does retain (docs/ARCHITECTURE.md:153): the newest row of the slot that goes
\* has n newer ones, and all of those stay.
THEOREM RuleKeepsNewest ==
  ASSUME NEW m \in Nat, NEW rows \in SUBSET (1..m), NEW slotOf, NEW pending, NEW n \in Nat,
         NEW v \in rows \ Retained(rows, slotOf, pending, n)
  PROVE  /\ v \notin pending
         /\ Cardinality(NewerInSlot(Retained(rows, slotOf, pending, n), slotOf, v)) >= n
<1> DEFINE R == Retained(rows, slotOf, pending, n)
           K == NewerInSlot(R, slotOf, v)
           Gone == {w \in rows \ R : slotOf[w] = slotOf[v]}
<1>1. v \in Gone /\ Gone \in SUBSET (1..m) /\ v \notin pending
  BY DEF Retained
<1>2. PICK d \in Gone : \A w \in Gone : w <= d
  BY <1>1, NewestExists
<1>3. NewerInSlot(rows, slotOf, d) \subseteq K
  <2>1. SUFFICES ASSUME NEW w \in rows, w > d, slotOf[w] = slotOf[d]
                 PROVE  w \in R /\ w > v /\ slotOf[w] = slotOf[v]
    BY DEF NewerInSlot
  <2>2. w \in 1..m /\ d \in 1..m /\ v \in 1..m /\ v <= d
    BY <1>1, <1>2
  <2>3. w \notin Gone
    BY <1>2, <2>1, <2>2
  <2> QED
    BY <1>2, <2>1, <2>2, <2>3
<1>4. /\ IsFiniteSet(NewerInSlot(rows, slotOf, d))
      /\ K \in SUBSET (1..m)
  <2>1. NewerInSlot(rows, slotOf, d) \in SUBSET (1..m)
    BY DEF NewerInSlot
  <2> QED
    BY <2>1, VersionsFinite DEF NewerInSlot, Retained
<1>5. /\ Cardinality(NewerInSlot(rows, slotOf, d)) \in Nat
      /\ ~(Cardinality(NewerInSlot(rows, slotOf, d)) < n)
  BY <1>2, <1>4, FS_CardinalityType DEF Retained
<1>6. IsFiniteSet(K)
  BY <1>4, VersionsFinite
<1> HIDE DEF K
<1>7. Cardinality(NewerInSlot(rows, slotOf, d)) <= Cardinality(K) /\ Cardinality(K) \in Nat
  BY <1>3, <1>6, FS_Subset, FS_CardinalityType
<1> QED
  BY <1>1, <1>5, <1>7 DEF K
=============================================================================
