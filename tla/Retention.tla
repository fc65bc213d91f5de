------------------------------ MODULE Retention ------------------------------
(***************************************************************************)
(* save_sync/retention.py: the rule by which a cleanup decides which rows  *)
(* of `versions` stay.  The loop that computes it is in RetentionTable,    *)
(* where the two are compared.                                             *)
(***************************************************************************)
EXTENDS Naturals, FiniteSets

\* The rows of v's slot that are newer than v.
NewerInSlot(rows, slotOf, v) ==
  {w \in rows : w > v /\ slotOf[w] = slotOf[v]}

\* A row stays if its backup is pending or it is among its slot's n newest.
Retained(rows, slotOf, pending, n) ==
  {v \in rows : \/ v \in pending
                \/ Cardinality(NewerInSlot(rows, slotOf, v)) < n}
=============================================================================
