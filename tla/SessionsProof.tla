---------------------------- MODULE SessionsProof ----------------------------
(***************************************************************************)
(* SessionsInv is an invariant of Sessions for every value of its          *)
(* constants: no session loses what it was told to another, and a session  *)
(* without access ends within one TTL.                                     *)
(***************************************************************************)
EXTENDS Sessions, TLAPS

-----------------------------------------------------------------------------
(* The initial states.                                                     *)

\* The tables of a game that starts, with or without a lock from before its
\* computers were managed (docs/MIGRATIONS.md:12), satisfy the invariant.
LEMMA InitSatisfiesInv == Init => SessionsInv
<1> SUFFICES ASSUME Init PROVE SessionsInv
  OBVIOUS
<1> USE SessionsAssumption
<1>1. /\ req \in [Requests -> Request]
      /\ RequestInv
  BY DEF Init, Idle, Request, RequestInv
<1>2. CASE /\ lock = NoLock
           /\ told = [s \in Sessions |-> 0]
           /\ barred = Never
  BY <1>1, <1>2 DEF Init, SessionsInv, TypeOK, TermInv, AccessInv, PromiseKept,
     BarredSessionEnds, NoLock, Never
<1>3. ASSUME Managed, NEW s \in Sessions, NEW c \in Credentials, NEW e \in 1..TTL,
             lock = LegacyLock(s, c, e),
             told = [[x \in Sessions |-> 0] EXCEPT ![s] = e],
             barred = IF Authorized(c) THEN Never ELSE 0
      PROVE  SessionsInv
  <2>1. /\ lock \in Lock
        /\ lock.session = s /\ lock.cred = c /\ lock.host = NoHost /\ lock.expires = e
        /\ lock # NoLock
    BY <1>3 DEF LegacyLock, Lock, NoLock
  <2>2. /\ told \in [Sessions -> Nat]
        /\ told[s] = e
        /\ \A x \in Sessions : x # s => told[x] = 0
        /\ barred \in 0..Never
        /\ clock = 0
    BY <1>3 DEF Init, Never
  <2>3. TypeOK
    BY <1>1, <2>1, <2>2 DEF Init, TypeOK
  <2>4. TermInv /\ PromiseKept
    BY <2>1, <2>2 DEF TermInv, PromiseKept
  <2>5. AccessInv
    BY <1>3, <2>1, <2>2 DEF AccessInv, Never
  <2>6. BarredSessionEnds
    BY <1>3, <2>1, <2>2 DEF BarredSessionEnds, Never
  <2> QED
    BY <1>1, <2>3, <2>4, <2>5, <2>6 DEF SessionsInv
<1> QED
  BY <1>2, <1>3 DEF Init

-----------------------------------------------------------------------------
(* The steps.                                                              *)

\* Whoever finds the row gone or expired finds nobody within what it was told
\* (sessions.py:95): the row outlives every promise, less MaxWait.
LEMMA NobodyLosesByExpiry ==
  ASSUME SessionsInv, lock = NoLock \/ Expired,
         NEW s \in Sessions, clock < told[s] - MaxWait
  PROVE  s \in closed \union published
<1>1. SUFFICES ASSUME lock.session = s PROVE FALSE
  BY DEF SessionsInv, PromiseKept
<1>2. lock # NoLock
  BY <1>1, SessionsAssumption DEF NoLock
<1> QED
  BY <1>1, <1>2, SessionsAssumption
  DEF SessionsInv, TypeOK, Lock, TermInv, Expired

\* A request that ends leaves the others as they were.
LEMMA EndingKeepsRequests ==
  ASSUME SessionsInv, NEW r \in Requests, Step(r, Idle), clock' = clock
  PROVE  /\ req' \in [Requests -> Request]
         /\ RequestInv'
<1>1. Idle \in Request /\ Idle.pc = "idle"
  BY SessionsAssumption DEF Idle, Request
<1> QED
  BY <1>1 DEF SessionsInv, TypeOK, RequestInv, Step

\* What a request that waits may write as an expiry.
LEMMA RenewedIsFresh ==
  ASSUME SessionsInv, NEW r \in Requests, req[r].pc = "waiting"
  PROVE  /\ req[r].cred \in Credentials
         /\ Renewed(r) \in Nat
         /\ Renewed(r) # 0
         /\ Renewed(r) <= clock + TTL
         /\ clock + TTL - MaxWait <= Renewed(r)
BY SessionsAssumption DEF SessionsInv, TypeOK, Request, RequestInv, Renewed

\* POST /lock (sessions.py:119-201): nobody is within what it was told.
LEMMA AcquireKeepsInv ==
  ASSUME SessionsInv, NEW r \in Requests, NEW s \in Sessions, Acquire(r, s)
  PROVE  SessionsInv'
<1> USE SessionsAssumption
<1> DEFINE c == req[r].cred
           e == Renewed(r)
<1>1. /\ c \in Credentials
      /\ e \in Nat /\ e # 0 /\ e <= clock + TTL /\ clock + TTL - MaxWait <= e
      /\ clock \in 0..MaxTime /\ told \in [Sessions -> Nat]
  BY RenewedIsFresh DEF SessionsInv, TypeOK, Acquire
<1>2. /\ told' = [told EXCEPT ![s] = e]
      /\ lock' = [session |-> s, cred |-> c,
                  host |-> IF Managed THEN HostOf[c] ELSE NoHost, expires |-> e]
      /\ barred' = Never
      /\ UNCHANGED <<clock, revoked, hosts, users, closed, published>>
      /\ lock = NoLock \/ Expired
      /\ MayAcquire(c)
      /\ told[s] = 0
  BY DEF Acquire, Renewed, access, Free
<1>3. /\ lock' \in Lock /\ lock' # NoLock
      /\ lock'.session = s /\ lock'.cred = c /\ lock'.expires = e
      /\ lock'.host = IF Managed THEN HostOf[c] ELSE NoHost
  BY <1>1, <1>2 DEF Lock, NoLock
<1>4. req' \in [Requests -> Request] /\ RequestInv'
  BY <1>2, EndingKeepsRequests DEF Acquire
<1>5. told' \in [Sessions -> Nat] /\ told'[s] = e
      /\ \A x \in Sessions : x # s => told'[x] = told[x]
  BY <1>1, <1>2
<1>6. TypeOK'
  BY <1>2, <1>3, <1>4, <1>5 DEF SessionsInv, TypeOK, Never
<1>7. TermInv'
  BY <1>1, <1>2, <1>3, <1>5 DEF SessionsInv, TermInv
<1>8. AccessInv'
  BY <1>1, <1>2, <1>3 DEF AccessInv, MayAcquire, ManagedToken, Authorized, Never
<1>9. PromiseKept'
  <2>1. SUFFICES ASSUME NEW x \in Sessions, x # s, clock' < told'[x] - MaxWait
                 PROVE  x \in closed' \union published'
    BY <1>3 DEF PromiseKept
  <2> QED
    BY <2>1, <1>2, <1>5, NobodyLosesByExpiry
<1>10. BarredSessionEnds'
  BY <1>1, <1>2, <1>3 DEF BarredSessionEnds, Never
<1> QED
  BY <1>4, <1>6, <1>7, <1>8, <1>9, <1>10 DEF SessionsInv

\* POST /heartbeat (sessions.py:203-327): the expiry may go back, by MaxWait
\* at most, and is not extended without access.
LEMMA HeartbeatKeepsInv ==
  ASSUME SessionsInv, NEW r \in Requests, NEW s \in Sessions, Heartbeat(r, s)
  PROVE  SessionsInv'
<1> USE SessionsAssumption
<1> DEFINE e == Renewed(r)
<1>1. /\ req[r].cred \in Credentials
      /\ e \in Nat /\ e # 0 /\ e <= clock + TTL /\ clock + TTL - MaxWait <= e
      /\ clock \in 0..MaxTime /\ told \in [Sessions -> Nat]
  BY RenewedIsFresh DEF SessionsInv, TypeOK, Heartbeat
<1>2. lock \in Lock /\ lock.session = s
  BY DEF Heartbeat, HoldsLock, SessionsInv, TypeOK
<1>3. /\ lock' = [lock EXCEPT !.expires = e]
      /\ told' = [told EXCEPT ![s] = IF e > told[s] THEN e ELSE told[s]]
      /\ UNCHANGED <<clock, revoked, hosts, users, closed, published, barred>>
  BY <1>1 DEF Heartbeat, access
<1>4. /\ lock' \in Lock /\ lock' # NoLock
      /\ lock'.session = s /\ lock'.cred = lock.cred /\ lock'.host = lock.host
      /\ lock'.expires = e
  BY <1>1, <1>2, <1>3 DEF Lock, NoLock
<1>5. /\ told' \in [Sessions -> Nat]
      /\ told'[s] = IF e > told[s] THEN e ELSE told[s]
      /\ \A x \in Sessions : x # s => told'[x] = told[x]
  BY <1>1, <1>3
<1>6. req' \in [Requests -> Request] /\ RequestInv'
  BY <1>3, EndingKeepsRequests DEF Heartbeat
<1>7. TypeOK'
  BY <1>3, <1>4, <1>5, <1>6 DEF SessionsInv, TypeOK
<1>8. TermInv'
  BY <1>1, <1>2, <1>3, <1>4, <1>5 DEF SessionsInv, TermInv
<1>9. lock # NoLock
  BY DEF Heartbeat
<1>10. AccessInv'
  BY <1>3, <1>4, <1>9 DEF SessionsInv, AccessInv, Authorized, Never
<1>11. PromiseKept'
  BY <1>2, <1>3, <1>4, <1>5 DEF SessionsInv, PromiseKept
<1>12. BarredSessionEnds'
  <2>1. CASE ~Managed
    BY <2>1 DEF BarredSessionEnds
  <2>2. CASE Managed
    <3>1. lock.cred \in Bearer /\ lock.host = HostOf[lock.cred] /\ lock.cred = req[r].cred
      BY <2>2, <1>9 DEF Heartbeat, MayAct, HoldsLock, SessionsInv, AccessInv
    <3>2. Authorized(lock.cred)
      BY <2>2, <3>1 DEF Heartbeat, MayAct, ManagedToken, Authorized
    <3>3. barred = Never
      BY <2>2, <3>2, <1>9 DEF SessionsInv, AccessInv
    <3> QED
      BY <3>3, <1>1, <1>3, <1>4 DEF BarredSessionEnds, Never
  <2> QED
    BY <2>1, <2>2
<1> QED
  BY <1>6, <1>7, <1>8, <1>10, <1>11, <1>12 DEF SessionsInv

\* A lock that goes away without a promise being broken: given back, used for
\* a publication, taken by an administrator (admin.py:23-44), or expired.
LEMMA LosingLockKeepsInv ==
  ASSUME SessionsInv, LockGone,
         UNCHANGED <<clock, revoked, hosts, users, told>>,
         req' \in [Requests -> Request], RequestInv',
         closed \subseteq closed', published \subseteq published',
         closed' \subseteq Sessions, published' \subseteq Sessions,
         Expired \/ lock.session \in closed' \union published'
  PROVE  SessionsInv'
<1> USE SessionsAssumption
<1>1. TypeOK'
  BY DEF SessionsInv, TypeOK, LockGone, Never
<1>2. TermInv' /\ AccessInv' /\ BarredSessionEnds'
  BY DEF SessionsInv, TermInv, AccessInv, BarredSessionEnds, LockGone, Never
<1>3. PromiseKept'
  <2>1. SUFFICES ASSUME NEW x \in Sessions, clock < told[x] - MaxWait,
                        x \notin closed' \union published'
                 PROVE  FALSE
    BY DEF PromiseKept
  <2>2. lock.session = x
    BY <2>1 DEF SessionsInv, PromiseKept
  <2>3. CASE Expired
    BY <2>1, <2>3, NobodyLosesByExpiry
  <2> QED
    BY <2>1, <2>2, <2>3
<1> QED
  BY <1>1, <1>2, <1>3 DEF SessionsInv

\* POST /unlock and POST /publish: only the session that has the lock.
LEMMA GivingBackKeepsInv ==
  ASSUME SessionsInv, NEW r \in Requests, NEW s \in Sessions,
         Unlock(r, s) \/ Publish(r, s)
  PROVE  SessionsInv'
<1>1. /\ Step(r, Idle) /\ LockGone /\ lock.session = s
      /\ UNCHANGED <<clock, revoked, hosts, users, told>>
      /\ \/ closed' = closed \union {s} /\ published' = published
         \/ published' = published \union {s} /\ closed' = closed
  BY DEF Unlock, Publish, HoldsLock, access
<1>2. closed \subseteq Sessions /\ published \subseteq Sessions
  BY DEF SessionsInv, TypeOK
<1>3. req' \in [Requests -> Request] /\ RequestInv'
  BY <1>1, EndingKeepsRequests
<1> QED
  BY <1>1, <1>2, <1>3, LosingLockKeepsInv

\* active_lock deletes an expired row (sessions.py:95-105), or an administrator
\* takes the lock.
LEMMA ClearingKeepsInv ==
  ASSUME SessionsInv, ClearExpired \/ ForceUnlock
  PROVE  SessionsInv'
<1>1. /\ LockGone
      /\ UNCHANGED <<clock, revoked, hosts, users, told, req, published>>
      /\ \/ Expired /\ closed' = closed
         \/ closed' = closed \union {lock.session}
      /\ lock # NoLock
  BY DEF ClearExpired, ForceUnlock, access
<1>2. /\ closed \subseteq Sessions /\ published \subseteq Sessions
      /\ lock.session \in Sessions
      /\ req' \in [Requests -> Request] /\ RequestInv'
  BY <1>1 DEF SessionsInv, TypeOK, RequestInv, TermInv
<1> QED
  BY <1>1, <1>2, LosingLockKeepsInv

\* A request begins, reads the clock or fails: the lock is not concerned.
LEMMA RequestKeepsInv ==
  ASSUME SessionsInv, NEW r \in Requests,
         \/ \E c \in Credentials : Authenticate(r, c)
         \/ ReadClock(r)
         \/ Fail(r)
  PROVE  SessionsInv'
<1> USE SessionsAssumption
<1>1. UNCHANGED <<clock, lock, revoked, hosts, users, told, closed, published, barred>>
  BY DEF Authenticate, ReadClock, Fail, access
<1>2. req' \in [Requests -> Request] /\ RequestInv'
  <2>1. CASE Fail(r)
    BY <1>1, <2>1, EndingKeepsRequests DEF Fail
  <2>2. ASSUME NEW c \in Credentials, Authenticate(r, c)
        PROVE  req' \in [Requests -> Request] /\ RequestInv'
    <3>1. req' = [req EXCEPT ![r] = [pc |-> "authenticated", cred |-> c, now |-> 0]]
      BY <2>2 DEF Authenticate, Step
    <3>2. [pc |-> "authenticated", cred |-> c, now |-> 0] \in Request
      BY DEF Request
    <3> QED
      BY <1>1, <3>1, <3>2 DEF SessionsInv, TypeOK, RequestInv
  <2>3. CASE ReadClock(r)
    <3> DEFINE h == [pc |-> "waiting", cred |-> req[r].cred, now |-> clock]
    <3>1. req' = [req EXCEPT ![r] = h] /\ req[r].cred \in Credentials
      BY <2>3 DEF ReadClock, Step, SessionsInv, RequestInv
    <3>2. h \in Request /\ h.cred = req[r].cred /\ h.now = clock /\ clock \in Nat
      BY <3>1 DEF SessionsInv, TypeOK, Request
    <3> HIDE DEF h
    <3> QED
      BY <1>1, <3>1, <3>2 DEF SessionsInv, TypeOK, RequestInv
  <2> QED
    BY <2>1, <2>2, <2>3
<1>3. TypeOK' /\ TermInv' /\ AccessInv' /\ PromiseKept' /\ BarredSessionEnds'
  BY <1>1, <1>2 DEF SessionsInv, TypeOK, TermInv, AccessInv, PromiseKept,
     BarredSessionEnds, Authorized
<1> QED
  BY <1>2, <1>3 DEF SessionsInv

\* Tokens, computers and users change (admin.py:136-147, managed.py:160-219,
\* 305-346) without touching the lock: from now on it lasts one TTL at most.
LEMMA AccessKeepsInv ==
  ASSUME SessionsInv,
         \/ \E c \in Bearer : RevokeToken(c)
         \/ \E h \in Hosts : DisableHost(h) \/ EnableHost(h)
         \/ \E u \in Users, active \in BOOLEAN : SetUserActive(u, active)
  PROVE  SessionsInv'
<1> USE SessionsAssumption
<1>1. /\ UNCHANGED <<clock, lock, req, told, closed, published>>
      /\ NoteAccess
  BY DEF RevokeToken, DisableHost, EnableHost, SetUserActive, AccessOnly
<1>2. revoked' \subseteq Bearer /\ hosts' \subseteq Hosts /\ users' \subseteq Users
  BY DEF RevokeToken, DisableHost, EnableHost, SetUserActive, SessionsInv, TypeOK
<1>3. clock \in 0..MaxTime /\ barred \in 0..Never
  BY DEF SessionsInv, TypeOK
<1>4. barred' \in {Never, clock, barred}
  BY <1>1 DEF NoteAccess
<1>5. TypeOK'
  BY <1>1, <1>2, <1>3, <1>4 DEF SessionsInv, TypeOK, Never
<1>6. RequestInv' /\ TermInv' /\ PromiseKept'
  BY <1>1 DEF SessionsInv, RequestInv, TermInv, PromiseKept
<1>7. AccessInv'
  <2>1. barred' # Never => barred' <= clock'
    BY <1>1, <1>3, <1>4 DEF SessionsInv, AccessInv
  <2>2. lock' # NoLock => (Authorized(lock.cred)' <=> barred' = Never)
    BY <1>1, <1>3 DEF NoteAccess, Never
  <2>3. lock'.cred = lock.cred
    BY <1>1
  <2> QED
    BY <1>1, <2>1, <2>2, <2>3 DEF SessionsInv, AccessInv, Authorized
<1>8. BarredSessionEnds'
  <2>1. SUFFICES ASSUME Managed, lock # NoLock
                 PROVE  lock.expires <= barred' + TTL
    BY <1>1 DEF BarredSessionEnds
  <2>2. lock.expires \in Nat /\ lock.expires <= clock + TTL
    BY <2>1, <1>3 DEF SessionsInv, TypeOK, TermInv, Lock
  <2>3. lock.expires <= barred + TTL
    BY <2>1 DEF SessionsInv, BarredSessionEnds
  <2> QED
    BY <1>3, <1>4, <2>2, <2>3 DEF Never
<1> QED
  BY <1>5, <1>6, <1>7, <1>8 DEF SessionsInv

\* Time passes; no request waits beyond MaxWait.
LEMMA TickKeepsInv ==
  ASSUME SessionsInv, Tick
  PROVE  SessionsInv'
<1> USE SessionsAssumption
<1>1. /\ clock \in 0..MaxTime /\ clock < MaxTime /\ clock' = clock + 1
      /\ UNCHANGED <<lock, revoked, hosts, users, req, told, closed, published, barred>>
      /\ \A r \in Requests : req[r].pc = "waiting" => clock < req[r].now + MaxWait
  BY DEF Tick, access, SessionsInv, TypeOK
<1>2. \A r \in Requests : req[r].now \in Nat
  BY DEF SessionsInv, TypeOK, Request
<1>3. \A s \in Sessions : told[s] \in Nat
  BY DEF SessionsInv, TypeOK
<1>4. RequestInv'
  BY <1>1, <1>2 DEF SessionsInv, RequestInv
<1>5. TypeOK'
  BY <1>1 DEF SessionsInv, TypeOK
<1>6. TermInv' /\ PromiseKept'
  BY <1>1, <1>3 DEF SessionsInv, TermInv, PromiseKept
<1>7. barred \in 0..Never
  BY DEF SessionsInv, TypeOK
<1>8. AccessInv'
  BY <1>1, <1>7 DEF SessionsInv, AccessInv, Authorized, Never
<1>9. BarredSessionEnds'
  BY <1>1 DEF SessionsInv, BarredSessionEnds
<1> QED
  BY <1>4, <1>5, <1>6, <1>8, <1>9 DEF SessionsInv

LEMMA NextKeepsInv == SessionsInv /\ [Next]_vars => SessionsInv'
<1> SUFFICES ASSUME SessionsInv, [Next]_vars PROVE SessionsInv'
  OBVIOUS
<1>1. ASSUME NEW r \in Requests, RequestStep(r) PROVE SessionsInv'
  BY <1>1, RequestKeepsInv, AcquireKeepsInv, HeartbeatKeepsInv, GivingBackKeepsInv
  DEF RequestStep
<1>2. CASE ClearExpired
  BY <1>2, ClearingKeepsInv
<1>3. CASE AdminStep
  BY <1>3, ClearingKeepsInv, AccessKeepsInv DEF AdminStep
<1>4. CASE Tick
  BY <1>4, TickKeepsInv
<1>5. CASE UNCHANGED vars
  BY <1>5 DEF vars, access, SessionsInv, TypeOK, RequestInv, TermInv, AccessInv,
     PromiseKept, BarredSessionEnds, Authorized
<1> QED
  BY <1>1, <1>2, <1>3, <1>4, <1>5 DEF Next

-----------------------------------------------------------------------------
(* The theorems.                                                           *)

\* Every state of the session lock satisfies the inductive invariant.
THEOREM SessionsInvariant == Spec => []SessionsInv
<1> QED
  BY InitSatisfiesInv, NextKeepsInv, PTL DEF Spec

\* The tables and requests have their types.
THEOREM SessionsTyped == Spec => []TypeOK
<1>1. SessionsInv => TypeOK
  BY DEF SessionsInv
<1> QED
  BY <1>1, SessionsInvariant, PTL

\* A session has the lock for as long as it was told, less the longest wait for
\* the write lock (sessions.py:136, 210), unless it ended.
THEOREM LeaseIsKept == Spec => []PromiseKept
<1>1. SessionsInv => PromiseKept
  BY DEF SessionsInv
<1> QED
  BY <1>1, SessionsInvariant, PTL

\* At no time are two sessions both within what they were told, less the
\* longest wait: mutual exclusion as the hosts see it.
THEOREM NoTwoHosts ==
  Spec => [](\A s, t \in Sessions :
               /\ clock < told[s] - MaxWait /\ s \notin closed \union published
               /\ clock < told[t] - MaxWait /\ t \notin closed \union published
               => s = t)
<1>1. SessionsInv =>
        \A s, t \in Sessions :
          /\ clock < told[s] - MaxWait /\ s \notin closed \union published
          /\ clock < told[t] - MaxWait /\ t \notin closed \union published
          => s = t
  BY DEF SessionsInv, PromiseKept
<1> QED
  BY <1>1, SessionsInvariant, PTL

\* A session whose computer, token or user lost access ends within one TTL
\* (docs/API.md:222).
THEOREM NoAccessNoExtension == Spec => []BarredSessionEnds
<1>1. SessionsInv => BarredSessionEnds
  BY DEF SessionsInv
<1> QED
  BY <1>1, SessionsInvariant, PTL

\* In a managed game the access of the session is checked in the transaction
\* that extends the lease or publishes (sessions.py:225-286,
\* publications.py:138-199).
THEOREM AccessIsRevalidated == Spec => ActsOnlyWithAccess
<1>1. ASSUME SessionsInv, [Next]_vars, Managed,
             \/ lock'.session = lock.session /\ lock'.expires # lock.expires
             \/ published' # published
      PROVE  Authorized(lock.cred) /\ lock.host = HostOf[lock.cred]
  <2> USE <1>1, SessionsAssumption
  <2>1. CASE \E r \in Requests, s \in Sessions : Publish(r, s)
    BY <2>1 DEF Publish, MayPublish, ManagedToken, Authorized
  <2>2. CASE \E r \in Requests, s \in Sessions : Heartbeat(r, s)
    <3>1. PICK r \in Requests, s \in Sessions : Heartbeat(r, s)
      BY <2>2
    <3>2. /\ lock # NoLock /\ lock.host # NoHost /\ lock.host = HostOf[req[r].cred]
          /\ lock.host \in hosts
          /\ ManagedToken(req[r].cred)
          /\ lock.cred \in Bearer => lock.cred = req[r].cred
      BY <3>1 DEF Heartbeat, MayAct, HoldsLock
    <3>3. lock.cred \in Bearer
      BY <3>2 DEF SessionsInv, AccessInv
    <3> QED
      BY <3>2, <3>3 DEF ManagedToken, Authorized
  <2>3. CASE \E r \in Requests, s \in Sessions : Acquire(r, s)
    <3>1. PICK r \in Requests, s \in Sessions : Acquire(r, s)
      BY <2>3
    <3>2. lock'.session = s /\ told[s] = 0 /\ published' = published
      BY <3>1 DEF Acquire
    <3>3. lock.session = s
      BY <3>2
    <3>4. lock # NoLock
      BY <3>3 DEF NoLock
    <3> QED
      BY <3>2, <3>3, <3>4 DEF SessionsInv, TermInv
  <2>4. CASE LockGone /\ published' = published
    <3>1. lock.session \notin Sessions
      BY <2>4 DEF LockGone, NoLock
    <3>2. lock = NoLock
      BY <3>1 DEF SessionsInv, TermInv
    <3> QED
      BY <2>4, <3>2 DEF LockGone
  <2>5. CASE lock' = lock /\ published' = published
    BY <2>5
  <2> QED
    BY <2>1, <2>2, <2>3, <2>4, <2>5
    DEF Next, RequestStep, AdminStep, Authenticate, ReadClock, Fail, Unlock,
        ClearExpired, ForceUnlock, RevokeToken, DisableHost, EnableHost,
        SetUserActive, AccessOnly, Tick, vars
<1>2. SessionsInv /\ [Next]_vars =>
        [ /\ Managed
          /\ \/ lock'.session = lock.session /\ lock'.expires # lock.expires
             \/ published' # published
          => Authorized(lock.cred) /\ lock.host = HostOf[lock.cred] ]_vars
  BY <1>1
<1> QED
  BY <1>2, SessionsInvariant, PTL DEF Spec, ActsOnlyWithAccess

-----------------------------------------------------------------------------
(* The lock implements Lease.                                              *)

\* Whoever was told an expiry has had the lock.
Begun == {s \in Sessions : told[s] # 0}

SessionLease == INSTANCE Lease WITH holder <- lock.session, begun <- Begun, done <- published

\* What a step does to the row, and to the sessions that began and ended.
LEMMA StepsOfLease ==
  ASSUME SessionsInv, EndedInv, [Next]_vars
  PROVE  \/ /\ \E s \in Sessions :
                 told[s] = 0 /\ lock'.session = s /\ Begun' = Begun \union {s}
            /\ UNCHANGED <<closed, published>>
         \/ /\ lock # NoLock /\ lock' = NoLock /\ UNCHANGED Begun
            /\ \/ UNCHANGED <<closed, published>>
               \/ closed' = closed \union {lock.session} /\ UNCHANGED published
               \/ published' = published \union {lock.session} /\ UNCHANGED closed
         \/ UNCHANGED <<lock.session, Begun, closed, published>>
<1> USE SessionsAssumption
<1>1. ASSUME NEW r \in Requests, NEW s \in Sessions, Acquire(r, s)
      PROVE  /\ told[s] = 0 /\ lock'.session = s /\ Begun' = Begun \union {s}
             /\ UNCHANGED <<closed, published>>
  <2>1. /\ told' = [told EXCEPT ![s] = Renewed(r)] /\ told[s] = 0 /\ lock'.session = s
        /\ UNCHANGED <<closed, published>>
    BY <1>1 DEF Acquire, Renewed
  <2>2. Renewed(r) # 0
    BY <1>1, RenewedIsFresh DEF Acquire
  <2>3. told \in [Sessions -> Nat]
    BY DEF SessionsInv, TypeOK
  <2> QED
    BY <2>1, <2>2, <2>3 DEF Begun
<1>2. ASSUME NEW r \in Requests, NEW s \in Sessions, Heartbeat(r, s)
      PROVE  UNCHANGED <<lock.session, Begun, closed, published>>
  <2>1. /\ lock # NoLock /\ lock.session = s
        /\ lock' = [lock EXCEPT !.expires = Renewed(r)]
        /\ told' = [told EXCEPT ![s] = IF Renewed(r) > told[s] THEN Renewed(r) ELSE told[s]]
        /\ UNCHANGED <<closed, published>>
    BY <1>2 DEF Heartbeat, HoldsLock
  <2>2. Renewed(r) # 0 /\ told[s] # 0
    BY <1>2, <2>1, RenewedIsFresh DEF Heartbeat, SessionsInv, TermInv
  <2>3. told \in [Sessions -> Nat] /\ lock \in Lock
    BY <2>1 DEF SessionsInv, TypeOK
  <2>4. lock'.session = lock.session
    BY <2>1, <2>3 DEF Lock
  <2> QED
    BY <2>1, <2>2, <2>3, <2>4 DEF Begun
<1>3. ASSUME NEW r \in Requests, NEW s \in Sessions, Unlock(r, s) \/ Publish(r, s)
      PROVE  /\ lock # NoLock /\ lock' = NoLock /\ UNCHANGED told
             /\ \/ closed' = closed \union {lock.session} /\ UNCHANGED published
                \/ published' = published \union {lock.session} /\ UNCHANGED closed
  BY <1>3 DEF Unlock, Publish, HoldsLock, LockGone
<1>4. CASE ClearExpired \/ ForceUnlock
  BY <1>4 DEF ClearExpired, ForceUnlock, LockGone, Begun
<1>5. CASE UNCHANGED <<lock, told, closed, published>>
  BY <1>5 DEF Begun
<1> QED
  BY <1>1, <1>2, <1>3, <1>4, <1>5
  DEF Next, RequestStep, AdminStep, Authenticate, ReadClock, Fail, RevokeToken,
      DisableHost, EnableHost, SetUserActive, AccessOnly, Tick, vars, Begun

\* A session that ended does not come back.
LEMMA EndedKept ==
  ASSUME SessionsInv, EndedInv, [Next]_vars
  PROVE  EndedInv'
<1>1. lock # NoLock => lock.session \in Begun
  BY DEF SessionsInv, TermInv, Begun
<1>2. closed \union published \subseteq Begun
  BY DEF EndedInv, SessionsInv, TypeOK, Begun
<1>3. EndedInv' <=> \A s \in closed' \union published' : told'[s] # 0 /\ lock'.session # s
  BY DEF EndedInv
<1>4. \A s \in Begun' : told'[s] # 0
  BY DEF Begun
<1>5. \A s \in closed \union published : s \in Sessions /\ lock.session # s
  BY DEF EndedInv, SessionsInv, TypeOK
<1>6. NoLock.session \notin Sessions
  BY SessionsAssumption DEF NoLock
<1>7. \A s \in Begun : s \in Sessions /\ told[s] # 0
  BY DEF Begun
<1>8. CASE UNCHANGED <<lock.session, Begun, closed, published>>
  BY <1>2, <1>3, <1>4, <1>5, <1>8
<1>9. CASE /\ lock # NoLock /\ lock' = NoLock /\ UNCHANGED Begun
           /\ closed' \union published' = (closed \union published) \union {lock.session}
  BY <1>1, <1>2, <1>3, <1>4, <1>6, <1>7, <1>9
<1>10. CASE lock' = NoLock /\ UNCHANGED <<Begun, closed, published>>
  BY <1>2, <1>3, <1>4, <1>5, <1>6, <1>10
<1>11. ASSUME NEW t \in Sessions, told[t] = 0, lock'.session = t,
              Begun' = Begun \union {t}, UNCHANGED <<closed, published>>
       PROVE  EndedInv'
  BY <1>2, <1>3, <1>4, <1>7, <1>11
<1> QED
  BY <1>8, <1>9, <1>10, <1>11, StepsOfLease

\* The clock, the waiting requests and the access together give every session
\* one term, which ends for good with a publication, a return or an expiry
\* (sessions.py:89-327, publications.py:138-199): the lock SaveStore uses.
THEOREM SessionsImplementLease == Spec => SessionLease!Spec
<1>1. Init => EndedInv /\ SessionLease!Init
  <2> SUFFICES ASSUME Init PROVE EndedInv /\ SessionLease!Init
    OBVIOUS
  <2>1. closed = {} /\ published = {}
    BY DEF Init
  <2>2. CASE lock = NoLock /\ told = [s \in Sessions |-> 0]
    BY <2>1, <2>2 DEF EndedInv, NoLock, Begun, SessionLease!Init
  <2>3. ASSUME NEW s \in Sessions, NEW c \in Credentials, NEW e \in 1..TTL,
               lock = LegacyLock(s, c, e),
               told = [[x \in Sessions |-> 0] EXCEPT ![s] = e]
        PROVE  EndedInv /\ SessionLease!Init
    <3>1. lock.session = s /\ Begun = {s}
      BY <2>3, SessionsAssumption DEF LegacyLock, Begun
    <3> QED
      BY <2>1, <3>1 DEF EndedInv, SessionLease!Init
  <2> QED
    BY <2>2, <2>3 DEF Init
<1>2. SessionsInv /\ EndedInv /\ [Next]_vars => EndedInv'
  BY EndedKept
<1>3. SessionsInv /\ EndedInv /\ [Next]_vars => [SessionLease!Next]_(SessionLease!leaseVars)
  <2> SUFFICES ASSUME SessionsInv, EndedInv, [Next]_vars
               PROVE  [SessionLease!Next]_(SessionLease!leaseVars)
    OBVIOUS
  <2>1. CASE UNCHANGED <<lock.session, Begun, closed, published>>
    BY <2>1 DEF SessionLease!leaseVars
  <2>2. ASSUME NEW s \in Sessions, told[s] = 0, lock'.session = s,
               Begun' = Begun \union {s}, UNCHANGED published
        PROVE  SessionLease!Next
    BY <2>2 DEF Begun, SessionLease!Next, SessionLease!Take
  <2>3. CASE /\ lock # NoLock /\ lock' = NoLock /\ UNCHANGED Begun
    <3>1. /\ lock.session \in Sessions /\ lock.session # NoSession /\ lock'.session = NoSession
      BY <2>3, SessionsAssumption DEF SessionsInv, TermInv, NoLock
    <3>2. CASE UNCHANGED published
      BY <2>3, <3>1, <3>2 DEF SessionLease!Next, SessionLease!Lose
    <3>3. CASE published' = published \union {lock.session}
      <4>1. lock.session \notin published
        BY DEF EndedInv
      <4> QED
        BY <2>3, <3>1, <3>3, <4>1 DEF SessionLease!Next, SessionLease!Publish
    <3> QED
      BY <2>3, <3>2, <3>3, StepsOfLease
  <2> QED
    BY <2>1, <2>2, <2>3, StepsOfLease
<1> QED
  BY <1>1, <1>2, <1>3, SessionsInvariant, PTL DEF Spec, SessionLease!Spec
=============================================================================
