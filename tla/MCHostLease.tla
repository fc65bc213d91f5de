----------------------------- MODULE MCHostLease -----------------------------
(***************************************************************************)
(* HostLease for TLC.                                                      *)
(***************************************************************************)
EXTENDS HostLease
=============================================================================
