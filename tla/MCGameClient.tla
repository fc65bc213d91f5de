---------------------------- MODULE MCGameClient ----------------------------
(***************************************************************************)
(* GameClient for TLC.                                                     *)
(***************************************************************************)
EXTENDS GameClient, TLC

Symmetry == Permutations(Hosts) \union Permutations(Sessions)
=============================================================================
