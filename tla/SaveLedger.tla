----------------------------- MODULE SaveLedger -----------------------------
(***************************************************************************)
(* What Save Sync promises its hosts, with no database, files or threads:  *)
(* a ledger of versions that only ever grows at its head, and one lease.   *)
(* A session publishes at most once, while it holds the lease, on top of   *)
(* the head it was given when the lease was opened; an administrator's     *)
(* restore appends a copy of an earlier version, and only when nobody      *)
(* holds the lease.  SaveStore is shown to implement this.                 *)
(***************************************************************************)
EXTENDS Naturals

CONSTANTS Sessions, NoSession, Saves, NoSave, MaxVersion

VARIABLES entry,    \* what each version number denotes
          head,     \* the number of the newest version, 0 before the first
          lease,    \* the session that may publish, and its base version
          opened    \* the base each session was given, Never before that

ledgerVars == <<entry, head, lease, opened>>

Never   == MaxVersion + 1
NoEntry == [session |-> NoSession, save |-> NoSave, from |-> 0]
NoLease == [session |-> NoSession, base |-> 0]

Init ==
  /\ entry  = [v \in 1..MaxVersion |-> NoEntry]
  /\ head   = 0
  /\ lease  = NoLease
  /\ opened = [s \in Sessions |-> Never]

\* A session gets the lease and learns the head.
Open(s) ==
  /\ lease = NoLease
  /\ opened[s] = Never
  /\ lease'  = [session |-> s, base |-> head]
  /\ opened' = [opened EXCEPT ![s] = head]
  /\ UNCHANGED <<entry, head>>

\* The lease ends without a version: given back, expired or forced.
Close ==
  /\ lease # NoLease
  /\ lease' = NoLease
  /\ UNCHANGED <<entry, head, opened>>

Extend(e) ==
  /\ head < MaxVersion
  /\ entry' = [entry EXCEPT ![head + 1] = e]
  /\ head'  = head + 1
  /\ UNCHANGED opened

\* The holder of the lease appends its save and the lease ends with it.
Publish(s, c) ==
  /\ lease = [session |-> s, base |-> head]
  /\ opened[s] = head
  /\ Extend([session |-> s, save |-> c, from |-> 0])
  /\ lease' = NoLease

\* An earlier version is appended again, byte for byte.
Restore(v) ==
  /\ lease = NoLease
  /\ Extend([session |-> NoSession, save |-> entry[v].save, from |-> v])
  /\ UNCHANGED lease

Next ==
  \/ \E s \in Sessions : Open(s) \/ \E c \in Saves : Publish(s, c)
  \/ Close
  \/ \E v \in 1..head : Restore(v)

Spec == Init /\ [][Next]_ledgerVars
=============================================================================
