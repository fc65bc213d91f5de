--------------------------- MODULE RetentionTable ---------------------------
(***************************************************************************)
(* The `versions`, `pending_backups` and `users` tables as far as          *)
(* retention reads them: rows appear at the head, markers are armed with   *)
(* them and resolved later, the administrator moves a user to another      *)
(* slot, and a cleanup prunes.                                             *)
(*                                                                         *)
(* The prune is the loop of prune_canonical_versions_locked, one row a     *)
(* step, inside the write transaction of its caller: nobody else writes    *)
(* until it commits or is rolled back.  The properties compare what it     *)
(* leaves with the declarative rule that SaveStore and its proofs use.     *)
(***************************************************************************)
EXTENDS Retention

CONSTANTS Users,         \* rows of `users`
          Slots,         \* retention slots
          NoSlot,        \* a NULL users.slot
          DefaultSlot,   \* the slot SAVE_SYNC_USER_IDENTITIES_JSON gives a user
          RetentionPerSlot,
          MaxVersion     \* bound on the versions ever published

ASSUME TableAssumption ==
  /\ Users # {}
  /\ NoSlot \notin Slots
  /\ DefaultSlot \in [Users -> Slots]
  /\ RetentionPerSlot \in Nat \ {0}
  /\ MaxVersion \in Nat

VARIABLES head,        \* versions published so far
          rows,        \* versions with a row, as an open transaction sees them
          updatedBy,   \* the user of every version ever published
          pending,     \* pending_backups
          slot,        \* users.slot
          txn,         \* whether a cleanup's transaction is open, and what a
                       \* ROLLBACK restores: the rows fetched, the markers
          todo,        \* the rows its loop has still to visit
          keptPerSlot  \* kept_per_slot

loop      == <<txn, todo, keptPerSlot>>
tableVars == <<head, rows, updatedBy, pending, slot, loop>>

Versions == 1..MaxVersion
Closed   == [open |-> FALSE, rows |-> {}, pending |-> {}]
NoneKept == [s \in Slots |-> 0]

\* row["slot"] or identity_for_username(row["username"])["slot"]
SlotFor(v) ==
  LET u == updatedBy[v]
  IN IF slot[u] = NoSlot THEN DefaultSlot[u] ELSE slot[u]

SlotOfRow == [v \in Versions |-> SlotFor(v)]

-----------------------------------------------------------------------------
Init ==
  /\ head = 0
  /\ rows = {}
  /\ updatedBy = [v \in Versions |-> CHOOSE u \in Users : TRUE]
  /\ pending = {}
  /\ slot \in [Users -> Slots \union {NoSlot}]
  /\ txn = Closed
  /\ todo = {}
  /\ keptPerSlot = NoneKept

\* publish, and restore for its administrator.
Insert(u, armed) ==
  /\ ~txn.open
  /\ head < MaxVersion
  /\ head' = head + 1
  /\ rows' = rows \union {head'}
  /\ updatedBy' = [updatedBy EXCEPT ![head'] = u]
  /\ pending' = IF armed THEN pending \union {head'} ELSE pending
  /\ UNCHANGED <<slot, loop>>

\* delete_version: neither the current version nor a pending one.
Delete(v) ==
  /\ ~txn.open
  /\ v \in rows \ (pending \union {head})
  /\ rows' = rows \ {v}
  /\ UNCHANGED <<head, updatedBy, pending, slot, loop>>

\* PATCH /admin/users with a new slot.
MoveUser(u, s) ==
  /\ ~txn.open
  /\ slot' = [slot EXCEPT ![u] = s]
  /\ UNCHANGED <<head, rows, updatedBy, pending, loop>>

-----------------------------------------------------------------------------
(* The cleanup.                                                            *)

\* BEGIN IMMEDIATE, and the two SELECTs; kept_per_slot is empty.
BeginPrune(markers) ==
  /\ ~txn.open
  /\ txn' = [open |-> TRUE, rows |-> rows, pending |-> pending]
  /\ pending' = markers
  /\ todo' = rows
  /\ keptPerSlot' = NoneKept
  /\ UNCHANGED <<head, rows, updatedBy, slot>>

\* cleanup_canonical_versions.
Cleanup == BeginPrune(pending)

\* finalize_job deletes the marker in the transaction that prunes.
Finalize(v) == v \in pending /\ BeginPrune(pending \ {v})

\* Mutant: ORDER BY v.version.
OldestFirst(S) == CHOOSE v \in S : \A w \in S : v <= w

\* The next row in the order of ORDER BY v.version DESC.
NewestFirst(S) == CHOOSE v \in S : \A w \in S : w <= v

DeleteRow(v) == rows' = rows \ {v} /\ UNCHANGED keptPerSlot

KeepRow(v) ==
  /\ keptPerSlot' = [keptPerSlot EXCEPT ![SlotFor(v)] = @ + 1]
  /\ UNCHANGED rows

\* Mutants: rows kept for their backup do not count; one row too few is kept.
PruneStepNotCountingPending(v) ==
  IF v \in pending
    THEN UNCHANGED <<rows, keptPerSlot>>
    ELSE IF keptPerSlot[SlotFor(v)] >= RetentionPerSlot THEN DeleteRow(v) ELSE KeepRow(v)
PruneStepOneTooFew(v) ==
  IF keptPerSlot[SlotFor(v)] + 1 >= RetentionPerSlot /\ v \notin pending
    THEN DeleteRow(v) ELSE KeepRow(v)

\* One iteration: kept_per_slot counts what a slot has kept so far, pending
\* rows included, and a pending row is never deleted.
PruneStep(v) ==
  IF keptPerSlot[SlotFor(v)] >= RetentionPerSlot /\ v \notin pending
    THEN DeleteRow(v) ELSE KeepRow(v)

Visit ==
  /\ txn.open
  /\ todo # {}
  /\ PruneStep(NewestFirst(todo))
  /\ todo' = todo \ {NewestFirst(todo)}
  /\ UNCHANGED <<head, updatedBy, pending, slot, txn>>

Close ==
  /\ txn' = Closed
  /\ todo' = {}
  /\ keptPerSlot' = NoneKept
  /\ UNCHANGED <<head, updatedBy, slot>>

Commit ==
  /\ txn.open
  /\ todo = {}
  /\ Close
  /\ UNCHANGED <<rows, pending>>

\* A statement fails, or the process is killed.
Rollback ==
  /\ txn.open
  /\ Close
  /\ rows' = txn.rows
  /\ pending' = txn.pending

Next ==
  \/ \E u \in Users, armed \in BOOLEAN : Insert(u, armed)
  \/ \E v \in rows : Delete(v)
  \/ \E u \in Users, s \in Slots : MoveUser(u, s)
  \/ Cleanup
  \/ \E v \in pending : Finalize(v)
  \/ Visit \/ Commit \/ Rollback

Spec == Init /\ [][Next]_tableVars

-----------------------------------------------------------------------------
\* The loop, which counts as it goes and counts pending rows too, keeps
\* exactly the rows the declarative rule keeps, of those it has visited and,
\* when it has visited all, of all (retention.py:24-31).
LoopMeetsRule ==
  txn.open =>
    rows = todo \union Retained(txn.rows, SlotOfRow, pending, RetentionPerSlot)

\* A row goes only when RetentionPerSlot newer rows of its slot stay, however
\* many of those are protected by a pending backup and however often users
\* were moved between slots (docs/ARCHITECTURE.md:153 "keeps the newest N
\* versions for each retention slot").
KeepsNewestOfEverySlot ==
  txn.open =>
    \A v \in txn.rows \ rows :
      /\ v \notin pending
      /\ Cardinality(NewerInSlot(rows, SlotOfRow, v)) >= RetentionPerSlot

\* The current version, the newest of all, survives every step, so the foreign
\* key current_save.version never makes a cleanup fail (database.py:34-36).
HeadSurvives == head # 0 => head \in rows

-----------------------------------------------------------------------------
(* The inductive invariant.                                                *)

TypeOK ==
  /\ head \in 0..MaxVersion
  /\ rows \subseteq 1..head
  /\ updatedBy \in [Versions -> Users]
  /\ pending \subseteq rows
  /\ slot \in [Users -> Slots \union {NoSlot}]
  /\ txn \in [open : BOOLEAN, rows : SUBSET (1..head), pending : SUBSET (1..head)]
  /\ todo \subseteq rows
  /\ keptPerSlot \in [Slots -> Nat]

\* What ROLLBACK restores is what was committed: the head is among the rows, and
\* every marker has its row.
UndoInv ==
  /\ ~txn.open => todo = {}
  /\ txn.open => /\ rows \subseteq txn.rows
                 /\ pending \subseteq txn.pending
                 /\ txn.pending \subseteq txn.rows
                 /\ head # 0 => head \in txn.rows

\* The rows the loop has visited and kept, of one slot.
KeptOf(s) == {w \in rows \ todo : SlotFor(w) = s}

\* The rows visited are the newest; kept_per_slot counts those of them that stay;
\* and a slot that lost one had its number of rows before.
LoopInv ==
  txn.open => /\ \A v \in txn.rows \ todo, w \in todo : w < v
              /\ \A s \in Slots : keptPerSlot[s] = Cardinality(KeptOf(s))
              /\ \A v \in txn.rows \ rows : keptPerSlot[SlotFor(v)] >= RetentionPerSlot

TableInv ==
  /\ TypeOK
  /\ UndoInv
  /\ LoopInv
  /\ LoopMeetsRule
  /\ KeepsNewestOfEverySlot
  /\ HeadSurvives
=============================================================================
