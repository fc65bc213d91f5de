-------------------------- MODULE MCRetentionTable --------------------------
(***************************************************************************)
(* RetentionTable for TLC: two users who may share a slot or not.          *)
(***************************************************************************)
EXTENDS RetentionTable, TLC

CONSTANTS u1, u2, s1, s2

MCUsers == {u1, u2}
MCSlots == {s1, s2}
MCDefaultSlot == (u1 :> s1) @@ (u2 :> s2)
=============================================================================
