-------------------------------- MODULE Lease --------------------------------
(***************************************************************************)
(* What a session's lock is, with no clock, credentials or versions: every *)
(* session has at most one term, and publishes at most once, at the end of *)
(* it.  Sessions, which has the clock and the access, and SaveStore, which *)
(* has the versions, are both shown to implement this.                     *)
(***************************************************************************)

CONSTANTS Sessions, NoSession

VARIABLES holder,  \* the session that has the lock, or NoSession
          begun,   \* the sessions that ever had it
          done     \* the sessions that published

leaseVars == <<holder, begun, done>>

\* A game may start with a lock that was taken before.
Init ==
  /\ done = {}
  /\ \/ holder = NoSession /\ begun = {}
     \/ \E s \in Sessions : holder = s /\ begun = {s}

\* A session's term begins, and whoever's term had run out is over.
Take(s) ==
  /\ s \notin begun
  /\ holder' = s
  /\ begun' = begun \union {s}
  /\ UNCHANGED done

\* A term ends without a version.
Lose ==
  /\ holder # NoSession
  /\ holder' = NoSession
  /\ UNCHANGED <<begun, done>>

\* A term ends with a version.
Publish(s) ==
  /\ holder = s
  /\ s \notin done
  /\ holder' = NoSession
  /\ done' = done \union {s}
  /\ UNCHANGED begun

Next ==
  \/ \E s \in Sessions : Take(s) \/ Publish(s)
  \/ Lose

Spec == Init /\ [][Next]_leaseVars
=============================================================================
