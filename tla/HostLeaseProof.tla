--------------------------- MODULE HostLeaseProof ---------------------------
(***************************************************************************)
(* What HostLease promises, for every setting of its times.                *)
(***************************************************************************)
EXTENDS HostLease, TLAPS

LEMMA Times ==
  /\ Ttl \in Nat /\ RequestCap \in Nat /\ Shutdown \in Nat /\ Grace \in Nat
  /\ Margin \in Nat /\ FitsMargin \in Nat /\ Poll \in Nat /\ Signal \in Nat
  /\ MaxWait \in Nat /\ Skew \in Nat /\ Intervals \subseteq Nat \ {0}
BY LeaseAssumption

LEMMA TimeoutIsTime == TypeOK => RequestTimeout \in Nat
BY Times, SMT DEF TypeOK, RequestTimeout

LEMMA TimeoutIsFixed == interval' = interval => RequestTimeout' = RequestTimeout
BY DEF RequestTimeout, Valheim

LEMMA ReserveIsTime == Reserve \in Nat
BY Times DEF Reserve

LEMMA InitLease == Init => LeaseInv
<1>. SUFFICES ASSUME Init PROVE LeaseInv
  OBVIOUS
<1>. USE Times DEF Init
<1>1. game \in BOOLEAN BY Zenon
<1>2. TypeOK BY <1>1, SMT DEF TypeOK, JobState, ClientState
<1>3. KnownInv BY SMT DEF KnownInv
<1>4. LookInv BY SMT DEF LookInv
<1>. QED BY <1>2, <1>3, <1>4 DEF LeaseInv

\* The types, step by step.
LEMMA StepType == TypeOK /\ KnownInv /\ [Next]_vars => TypeOK'
<1>. SUFFICES ASSUME TypeOK, KnownInv, [Next]_vars PROVE TypeOK'
  OBVIOUS
<1>. USE Times DEF TypeOK, JobState, ClientState, row, config, heartbeat, host
<1>1. CASE Tick BY <1>1, SMT DEF Tick
<1>2. CASE Serve
  <2>. PICK r \in since..now : Extend(r) /\ answer' = r + Ttl BY <1>2 DEF Serve
  <2>. QED BY <1>2, SMT DEF Serve, Extend
<1>3. CASE ServeStray
  <2>. PICK r \in 0..now : Extend(r) BY <1>3 DEF ServeStray
  <2>. QED BY <1>3, SMT DEF ServeStray, Extend
<1>4. CASE Beat BY <1>4, SMT DEF Beat
<1>5. CASE Answered BY <1>5, SMT DEF Answered, KnownInv
<1>6. CASE Written BY <1>6, SMT DEF Written
<1>7. ASSUME NEW terminal \in BOOLEAN, RequestFails(terminal) PROVE TypeOK'
  BY <1>7, SMT DEF RequestFails
<1>8. CASE Prepare BY <1>8, SMT DEF Prepare
<1>9. CASE StartServer BY <1>9, SMT DEF StartServer
<1>10. CASE Look BY <1>10, SMT DEF Look
<1>11. CASE StopGame BY <1>11, SMT DEF StopGame
<1>12. CASE End
  <2>1. game' \in BOOLEAN BY <1>12, Zenon DEF End
  <2>. QED BY <1>12, <2>1, SMT DEF End
<1>13. CASE UNCHANGED vars BY <1>13, SMT DEF vars
<1>. QED
  BY <1>1, <1>2, <1>3, <1>4, <1>5, <1>6, <1>7, <1>8, <1>9, <1>10, <1>11, <1>12, <1>13 DEF Next

\* What the client is told is at most MaxWait ahead of the row.
LEMMA StepKnown == LeaseInv /\ TypeOK' /\ [Next]_vars => KnownInv'
<1>. SUFFICES ASSUME TypeOK, KnownInv, TypeOK', [Next]_vars PROVE KnownInv'
  BY DEF LeaseInv
<1>. USE Times DEF TypeOK, KnownInv, row, config, heartbeat, host
<1>1. CASE Tick BY <1>1, SMT DEF Tick
<1>2. CASE Serve
  <2>. PICK r \in since..now : Extend(r) /\ answer' = r + Ttl BY <1>2 DEF Serve
  <2>. QED BY <1>2, SMT DEF Serve, Extend
<1>3. CASE ServeStray
  <2>. PICK r \in 0..now : Extend(r) BY <1>3 DEF ServeStray
  <2>. QED BY <1>3, SMT DEF ServeStray, Extend
<1>4. CASE Beat BY <1>4, SMT DEF Beat
<1>5. CASE Answered BY <1>5, SMT DEF Answered
<1>6. CASE Written BY <1>6, SMT DEF Written
<1>7. ASSUME NEW terminal \in BOOLEAN, RequestFails(terminal) PROVE KnownInv'
  BY <1>7, SMT DEF RequestFails
<1>8. CASE Prepare BY <1>8, SMT DEF Prepare
<1>9. CASE StartServer BY <1>9, SMT DEF StartServer
<1>10. CASE Look BY <1>10, SMT DEF Look
<1>11. CASE StopGame BY <1>11, SMT DEF StopGame
<1>12. CASE End BY <1>12, SMT DEF End
<1>13. CASE UNCHANGED vars BY <1>13, SMT DEF vars
<1>. QED
  BY <1>1, <1>2, <1>3, <1>4, <1>5, <1>6, <1>7, <1>8, <1>9, <1>10, <1>11, <1>12, <1>13 DEF Next

\* Only what the client is told, what it does and the clock matter here.
LEMMA StepLook ==
  ASSUME Valheim
  PROVE  LeaseInv /\ TypeOK' /\ [Next]_vars => LookInv'
<1>. SUFFICES ASSUME TypeOK, KnownInv, LookInv, TypeOK', [Next]_vars PROVE LookInv'
  BY DEF LeaseInv
<1>. USE Times, ReserveIsTime DEF TypeOK, LookInv, row, config, heartbeat, host
<1>0. Reserve' = Reserve BY DEF Reserve
<1>1. CASE Tick BY <1>0, <1>1, SMT DEF Tick
<1>2. CASE Serve BY <1>0, <1>2, SMT DEF Serve
<1>3. CASE ServeStray BY <1>0, <1>3, SMT DEF ServeStray
<1>4. CASE Beat BY <1>0, <1>4, SMT DEF Beat
<1>5. CASE Answered
  <2>1. known <= known' BY <1>5, SMT DEF Answered, KnownInv
  <2>. QED BY <1>0, <1>5, <2>1, SMT DEF Answered
<1>6. CASE Written BY <1>0, <1>6, SMT DEF Written
<1>7. ASSUME NEW terminal \in BOOLEAN, RequestFails(terminal) PROVE LookInv'
  BY <1>0, <1>7, SMT DEF RequestFails
<1>8. CASE Prepare BY <1>0, <1>8, SMT DEF Prepare
<1>9. CASE StartServer BY <1>0, <1>9, SMT DEF StartServer, LeaseLost, Remaining
<1>10. CASE Look BY <1>0, <1>10, SMT DEF Look, LeaseLost, Remaining
<1>11. CASE StopGame BY <1>0, <1>11, SMT DEF StopGame
<1>12. CASE End BY <1>0, <1>12, SMT DEF End
<1>13. CASE UNCHANGED vars BY <1>0, <1>13, SMT DEF vars
<1>. QED
  BY <1>1, <1>2, <1>3, <1>4, <1>5, <1>6, <1>7, <1>8, <1>9, <1>10, <1>11, <1>12, <1>13 DEF Next

\* Type correctness and the two invariants of the Valheim client
\* (valheim/Adapter.ps1:630-713).
THEOREM LeaseInvariant ==
  ASSUME Valheim
  PROVE  Spec => []LeaseInv
<1>1. LeaseInv /\ [Next]_vars => LeaseInv'
  BY StepType, StepKnown, StepLook DEF LeaseInv
<1>. QED BY InitLease, <1>1, PTL DEF Spec

\* For every setting of the times, those of the code included: a Valheim server
\* ends Slack before the lease expires, less the delays that the reserve has no
\* part for, whatever becomes of the heartbeats (valheim/Adapter.ps1:630-635).
THEOREM LeaseOutlivesGame ==
  ASSUME Valheim
  PROVE  Spec => []OverrunIsBounded
<1>1. LeaseInv => OverrunIsBounded
  BY Times, SMT
     DEF LeaseInv, TypeOK, KnownInv, LookInv, OverrunIsBounded, Slack, Delays, Reserve
<1>. QED BY LeaseInvariant, <1>1, PTL

-----------------------------------------------------------------------------
LEMMA InitHealthy == Init => HealthyInv
BY SMT DEF Init, HealthyInv

\* A heartbeat that succeeds gives the client the time for the next one.
LEMMA StepHealthy ==
  ASSUME Valheim
  PROVE  LeaseInv /\ HealthyInv /\ TypeOK' /\ [Next]_vars => HealthyInv'
<1>. SUFFICES ASSUME TypeOK, KnownInv, HealthyInv, TypeOK', [Next]_vars PROVE HealthyInv'
  BY DEF LeaseInv
<1>0. /\ Reserve \in Nat /\ Reserve' = Reserve
      /\ RequestTimeout \in Nat
      /\ interval' = interval => RequestTimeout' = RequestTimeout
      /\ interval \in Nat
  BY Times, ReserveIsTime, TimeoutIsTime, TimeoutIsFixed DEF Reserve, TypeOK
<1>. USE <1>0, Times DEF TypeOK, HealthyInv, row, config, heartbeat, host
<1>1. CASE Tick BY <1>1, SMT DEF Tick
<1>2. CASE Serve BY <1>2, SMT DEF Serve
<1>3. CASE ServeStray BY <1>3, SMT DEF ServeStray
<1>4. CASE Beat BY <1>4, SMT DEF Beat
<1>5. CASE Answered BY <1>5, SMT DEF Answered, KnownInv
<1>6. CASE Written BY <1>6, SMT DEF Written, KnownInv
<1>7. ASSUME NEW terminal \in BOOLEAN, RequestFails(terminal) PROVE HealthyInv'
  BY <1>7, SMT DEF RequestFails
<1>8. CASE Prepare
  BY <1>8, SMT DEF Prepare, HeartbeatFits, Remaining, KnownInv
<1>9. CASE StartServer BY <1>9, SMT DEF StartServer
<1>10. CASE Look BY <1>10, SMT DEF Look
<1>11. CASE StopGame BY <1>11, SMT DEF StopGame
<1>12. CASE End BY <1>12, SMT DEF End
<1>13. CASE UNCHANGED vars BY <1>13, SMT DEF vars
<1>. QED
  BY <1>1, <1>2, <1>3, <1>4, <1>5, <1>6, <1>7, <1>8, <1>9, <1>10, <1>11, <1>12, <1>13 DEF Next

\* With every configuration the Valheim client accepts, a session whose
\* heartbeats succeed in time is not ended for its lease
\* (valheim/Adapter.ps1:680-697).
THEOREM HealthySessionGoesOn ==
  ASSUME Valheim
  PROVE  Spec => []HealthyLeaseLasts
<1>1. LeaseInv /\ HealthyInv => HealthyLeaseLasts
  <2>. SUFFICES ASSUME TypeOK, KnownInv, HealthyInv PROVE HealthyLeaseLasts
    BY DEF LeaseInv
  <2>1. Reserve \in Nat /\ RequestTimeout \in Nat /\ interval \in Nat
    BY Times, ReserveIsTime, TimeoutIsTime DEF TypeOK
  <2>. QED
    BY <2>1, Times, SMT
       DEF TypeOK, KnownInv, HealthyInv, HealthyLeaseLasts, MayReadFatal, LeaseLost,
           Remaining, JobState
<1>2. LeaseInv /\ HealthyInv /\ [Next]_vars => HealthyInv'
  BY StepType, StepHealthy DEF LeaseInv
<1>. QED BY LeaseInvariant, InitHealthy, <1>1, <1>2, PTL DEF Spec
=============================================================================
