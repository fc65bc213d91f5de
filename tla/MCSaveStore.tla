----------------------------- MODULE MCSaveStore -----------------------------
(***************************************************************************)
(* SaveStore for TLC.                                                      *)
(***************************************************************************)
EXTENDS SaveStore, TLC

CONSTANTS r1, r2, s1, s2, a, b, foreign, here, elsewhere, hostSlot, adminSlot

MCSlots == {hostSlot, adminSlot}
MCSlotOf == [s \in Sessions |-> hostSlot]
MCOneIdentity == [x \in Saves |-> here]
\* One of the uploads belongs to another world.
MCTwoIdentities == [x \in Saves |-> IF x = foreign THEN elsewhere ELSE here]

Symmetry ==
  Permutations(Requests) \union Permutations(Sessions)
=============================================================================
