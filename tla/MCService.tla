------------------------------ MODULE MCService ------------------------------
(***************************************************************************)
(* Service for TLC.                                                        *)
(***************************************************************************)
EXTENDS Service

CONSTANTS w1, w2, p1, p2
=============================================================================
