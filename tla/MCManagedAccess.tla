--------------------------- MODULE MCManagedAccess ---------------------------
(***************************************************************************)
(* ManagedAccess for TLC.                                                  *)
(***************************************************************************)
EXTENDS ManagedAccess, TLC

CONSTANTS r1, r2, ann, bob, cyd, pc1, pc2, t1, t2

\* Two administrators and a player whose name is not configured.
MCConfigured == [u \in {ann, bob} |-> "admin"]

Symmetry ==
  Permutations(Requests) \union Permutations(Computers) \union Permutations(Tokens)
    \union Permutations({ann, bob})
=============================================================================
