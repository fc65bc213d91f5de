------------------------------ MODULE Sessions ------------------------------
(***************************************************************************)
(* The session lock with its clock: POST /lock, /heartbeat, /unlock, the   *)
(* part of /publish that decides on the session, and what administrators   *)
(* do meanwhile to tokens, computers, users and the lock itself.           *)
(*                                                                         *)
(* A request is authenticated in one transaction, reads the clock, waits   *)
(* for the write lock, and acts in a second transaction.  Its credential   *)
(* may be revoked in between, and the clock it read is old when it writes  *)
(* the new expiry.                                                         *)
(*                                                                         *)
(* Versions and files are those of SaveStore, where losing the lock is     *)
(* ReleaseLock; here only the row `active_lock` and who may use it count.  *)
(***************************************************************************)
EXTENDS Integers

CONSTANTS Requests,     \* threads of the web workers
          Sessions,     \* sessions ever opened; each has its own session id
          NoSession,
          Credentials,  \* API tokens, and web identities checked by the proxy
          Bearer,       \* the API tokens among them
          NoCredential,
          Users,
          UserOf,       \* the user of a credential
          Hosts,        \* authorized computers
          NoHost,
          HostOf,       \* the computer a token is bound to, or NoHost
          Managed,      \* managedHosts of the game
          TTL,          \* SAVE_SYNC_LOCK_TTL_SECONDS
          MaxWait,      \* busy_timeout: from reading the clock to BEGIN IMMEDIATE
          MaxTime       \* bound: the clock

ASSUME SessionsAssumption ==
  /\ NoSession \notin Sessions
  /\ NoCredential \notin Credentials
  /\ Bearer \subseteq Credentials
  /\ UserOf \in [Credentials -> Users]
  /\ NoHost \notin Hosts
  /\ HostOf \in [Credentials -> Hosts \union {NoHost}]
  /\ Managed \in BOOLEAN
  /\ TTL \in Nat \ {0}
  /\ MaxWait \in Nat
  /\ MaxTime \in Nat

VARIABLES
  clock,
  lock,       \* active_lock
  revoked,    \* tokens with a revoked_at
  hosts,      \* authorized_hosts with active=1
  users,      \* users with active=1
  req,        \* where each request is, and the clock it read
  told,       \* history: the latest expiresAt answered to a session, or 0
  closed,     \* history: sessions given back, or taken by an administrator
  published,  \* history: sessions that published
  barred      \* history: when the lock's credential lost its access

access == <<revoked, hosts, users>>
vars == <<clock, lock, access, req, told, closed, published, barred>>

Never  == MaxTime + 1
NoLock == [session |-> NoSession, cred |-> NoCredential, host |-> NoHost, expires |-> 0]
Idle   == [pc |-> "idle", cred |-> NoCredential, now |-> 0]

Lock == [session : Sessions, cred : Credentials, host : Hosts \union {NoHost}, expires : Nat]
Request == [pc : {"idle", "authenticated", "waiting"},
            cred : Credentials \union {NoCredential}, now : 0..MaxTime]

\* The credential is a token that may act for its computer.
Authorized(c) ==
  /\ c \in Bearer
  /\ c \notin revoked
  /\ UserOf[c] \in users
  /\ HostOf[c] \in hosts

\* A managed game may start with a lock taken before computers were managed.
LegacyLock(s, c, e) == [session |-> s, cred |-> c, host |-> NoHost, expires |-> e]

Init ==
  /\ clock = 0
  /\ revoked = {}
  /\ hosts = Hosts
  /\ users = Users
  /\ req = [r \in Requests |-> Idle]
  /\ closed = {}
  /\ published = {}
  /\ \/ /\ lock = NoLock
        /\ told = [s \in Sessions |-> 0]
        /\ barred = Never
     \/ /\ Managed
        /\ \E s \in Sessions, c \in Credentials, e \in 1..TTL :
             /\ lock = LegacyLock(s, c, e)
             /\ told = [[x \in Sessions |-> 0] EXCEPT ![s] = e]
             /\ barred = IF Authorized(c) THEN Never ELSE 0

Step(r, h) == req' = [req EXCEPT ![r] = h]

\* Mutant: a row is taken for expired one unit too early.
ExpiredEarly == lock.expires <= clock + 1

\* SessionService.active_lock: the row has expired, by the clock of this moment.
Expired == lock.expires <= clock

\* The history of a lock that is gone.
LockGone ==
  /\ lock' = NoLock
  /\ barred' = Never

-----------------------------------------------------------------------------
(* Access, as checked.                                                     *)

\* SessionService.current_managed_token.
ManagedToken(c) ==
  /\ c \in Bearer
  /\ c \notin revoked
  /\ UserOf[c] \in users
  /\ HostOf[c] # NoHost

\* resolve_authorized_host; the client sends the clientId of its computer.
MayAcquire(c) == Managed => ManagedToken(c) /\ HostOf[c] \in hosts

\* Mutant: the computer was checked when the request was authenticated.
MayActUnlessRevoked(c) ==
  Managed => ManagedToken(c) /\ lock.host # NoHost /\ lock.host = HostOf[c]

\* The checks of SessionService.action.
MayAct(c) ==
  Managed => /\ ManagedToken(c)
             /\ lock.host # NoHost
             /\ lock.host = HostOf[c]
             /\ lock.host \in hosts

\* Mutant: the computer is checked, the token was when authenticated.
MayPublishFromActiveHost == Managed => lock.host # NoHost /\ lock.host \in hosts

\* PublicationService._validate_managed_publication: it asks for the
\* credential that took the lock, not for the one of the request.
MayPublish ==
  Managed => /\ lock.host # NoHost
             /\ ManagedToken(lock.cred)
             /\ HostOf[lock.cred] = lock.host
             /\ lock.host \in hosts

\* The session id, its user, and the token if the lock was taken with one.
HoldsLock(c, s) ==
  /\ lock.session = s
  /\ UserOf[lock.cred] = UserOf[c]
  /\ lock.cred \in Bearer => lock.cred = c

-----------------------------------------------------------------------------
(* A request.                                                              *)

\* authenticate: a token that is not revoked, of an active user, and not bound
\* to a disabled computer; or a user the proxy names.
Authenticate(r, c) ==
  /\ req[r].pc = "idle"
  /\ c \notin revoked
  /\ UserOf[c] \in users
  /\ Managed /\ c \in Bearer /\ HostOf[c] # NoHost => HostOf[c] \in hosts
  /\ Step(r, [pc |-> "authenticated", cred |-> c, now |-> 0])
  /\ UNCHANGED <<clock, lock, access, told, closed, published, barred>>

\* acquire and action read the clock before they wait for the write lock.
ReadClock(r) ==
  /\ req[r].pc = "authenticated"
  /\ Step(r, [pc |-> "waiting", cred |-> req[r].cred, now |-> clock])
  /\ UNCHANGED <<clock, lock, access, told, closed, published, barred>>

\* The request is refused, times out or dies with its worker; nothing changes.
Fail(r) ==
  /\ req[r].pc # "idle"
  /\ Step(r, Idle)
  /\ UNCHANGED <<clock, lock, access, told, closed, published, barred>>

\* No row, or one that active_lock deletes.
Free == lock = NoLock \/ Expired

\* POST /lock: a new session id, the expiry counted from the clock it read.
Acquire(r, s) ==
  LET c == req[r].cred
      expires == req[r].now + TTL
  IN  /\ req[r].pc = "waiting"
      /\ told[s] = 0
      /\ MayAcquire(c)
      /\ Free
      /\ lock' = [session |-> s, cred |-> c,
                  host |-> IF Managed THEN HostOf[c] ELSE NoHost, expires |-> expires]
      /\ told' = [told EXCEPT ![s] = expires]
      /\ barred' = Never
      /\ Step(r, Idle)
      /\ UNCHANGED <<clock, access, closed, published>>

\* Mutant: the lease grows by a term with every heartbeat.
RenewedFromExpiry(r) == lock.expires + TTL

Renewed(r) == req[r].now + TTL

\* POST /heartbeat.
Heartbeat(r, s) ==
  /\ req[r].pc = "waiting"
  /\ lock # NoLock /\ ~Expired
  /\ MayAct(req[r].cred)
  /\ HoldsLock(req[r].cred, s)
  /\ lock' = [lock EXCEPT !.expires = Renewed(r)]
  /\ told' = [told EXCEPT ![s] = IF Renewed(r) > @ THEN Renewed(r) ELSE @]
  /\ Step(r, Idle)
  /\ UNCHANGED <<clock, access, closed, published, barred>>

\* POST /unlock by the session s.
Unlock(r, s) ==
  /\ req[r].pc = "waiting"
  /\ lock # NoLock /\ ~Expired
  /\ MayAct(req[r].cred)
  /\ HoldsLock(req[r].cred, s)
  /\ LockGone
  /\ closed' = closed \union {s}
  /\ Step(r, Idle)
  /\ UNCHANGED <<clock, access, told, published>>

\* POST /publish by the session s, after the upload; the checks of the version
\* are those of SaveStore.
Publish(r, s) ==
  /\ req[r].pc = "authenticated"
  /\ lock # NoLock /\ ~Expired
  /\ MayPublish
  /\ HoldsLock(req[r].cred, s)
  /\ LockGone
  /\ published' = published \union {s}
  /\ Step(r, Idle)
  /\ UNCHANGED <<clock, access, told, closed>>

\* Any transaction that calls active_lock, of a request that is then refused
\* or of a status, a restore or a force-unlock, deletes a row that has expired.
ClearExpired ==
  /\ lock # NoLock
  /\ Expired
  /\ LockGone
  /\ UNCHANGED <<clock, access, req, told, closed, published>>

-----------------------------------------------------------------------------
(* Administrators, and time.                                               *)

\* POST /admin/force-unlock.
ForceUnlock ==
  /\ lock # NoLock
  /\ ~Expired
  /\ LockGone
  /\ closed' = closed \union {lock.session}
  /\ UNCHANGED <<clock, access, req, told, published>>

\* The history of a change of access.
NoteAccess ==
  barred' = IF lock = NoLock \/ Authorized(lock.cred)' THEN Never
            ELSE IF barred = Never THEN clock ELSE barred

AccessOnly ==
  /\ UNCHANGED <<clock, lock, req, told, closed, published>>
  /\ NoteAccess

\* DELETE /admin/tokens/<id>.
RevokeToken(c) ==
  /\ c \notin revoked
  /\ revoked' = revoked \union {c}
  /\ UNCHANGED <<hosts, users>>
  /\ AccessOnly

\* PATCH /admin/hosts/<id>; a computer is enabled only if its user is active.
DisableHost(h) ==
  /\ Managed
  /\ hosts' = hosts \ {h}
  /\ UNCHANGED <<revoked, users>>
  /\ AccessOnly

EnableHost(h) ==
  /\ Managed
  /\ \E c \in Credentials : HostOf[c] = h /\ UserOf[c] \in users
  /\ hosts' = hosts \union {h}
  /\ UNCHANGED <<revoked, users>>
  /\ AccessOnly

\* PATCH /admin/users/<id>.
SetUserActive(u, active) ==
  /\ Managed
  /\ users' = IF active THEN users \union {u} ELSE users \ {u}
  /\ UNCHANGED <<revoked, hosts>>
  /\ AccessOnly

\* A request waits for the write lock for MaxWait at most.
Tick ==
  /\ clock < MaxTime
  /\ \A r \in Requests : req[r].pc = "waiting" => clock < req[r].now + MaxWait
  /\ clock' = clock + 1
  /\ UNCHANGED <<lock, access, req, told, closed, published, barred>>

RequestStep(r) ==
  \/ \E c \in Credentials : Authenticate(r, c)
  \/ ReadClock(r)
  \/ Fail(r)
  \/ \E s \in Sessions : Acquire(r, s) \/ Heartbeat(r, s) \/ Unlock(r, s) \/ Publish(r, s)

AdminStep ==
  \/ ForceUnlock
  \/ \E c \in Bearer : RevokeToken(c)
  \/ \E h \in Hosts : DisableHost(h) \/ EnableHost(h)
  \/ \E u \in Users, active \in BOOLEAN : SetUserActive(u, active)

Next ==
  \/ \E r \in Requests : RequestStep(r)
  \/ ClearExpired
  \/ AdminStep
  \/ Tick

Spec == Init /\ [][Next]_vars

-----------------------------------------------------------------------------
(* Properties.                                                             *)

TypeOK ==
  /\ clock \in 0..MaxTime
  /\ lock \in Lock \union {NoLock}
  /\ revoked \subseteq Bearer
  /\ hosts \subseteq Hosts
  /\ users \subseteq Users
  /\ req \in [Requests -> Request]
  /\ told \in [Sessions -> Nat]
  /\ closed \subseteq Sessions
  /\ published \subseteq Sessions
  /\ barred \in 0..Never

\* A session that was told an expiry has the lock until then, but for the time
\* a request may wait with an old clock (sessions.py:210), unless it gave it
\* back, published, or an administrator took it.  Two sessions are therefore
\* never both within what they were told, less MaxWait.
PromiseKept ==
  \A s \in Sessions :
    /\ clock < told[s] - MaxWait
    /\ s \notin closed \union published
    => lock.session = s

\* A computer that is disabled, or whose token is revoked or whose user is
\* disabled, keeps the lock for one TTL at most (docs/API.md:222): requests
\* that were under way (sessions.py:211-286) do not extend it.
BarredSessionEnds ==
  Managed /\ lock # NoLock => lock.expires <= barred + TTL

\* In a managed game only a session whose own token and computer have access
\* at that moment is extended or publishes, however long ago its request was
\* authenticated (publications.py:138-199).
ActsOnlyWithAccess ==
  [][ /\ Managed
      /\ \/ lock'.session = lock.session /\ lock'.expires # lock.expires
         \/ published' # published
      => Authorized(lock.cred) /\ lock.host = HostOf[lock.cred] ]_vars

\* docs/ARCHITECTURE.md:30-32: a publication requires, at the same time as an
\* unexpired lock, an active token for the user that acquired the lock.
PublicationHasActiveToken ==
  [][ published' # published =>
        \E c \in Bearer \ revoked : UserOf[c] = UserOf[lock.cred] ]_vars

-----------------------------------------------------------------------------
(* The inductive invariant.                                                *)

\* A request under way has a credential; one that waits read the clock at most
\* MaxWait ago.
RequestInv ==
  \A r \in Requests :
    /\ req[r].pc # "idle" => req[r].cred \in Credentials
    /\ req[r].pc = "waiting" => req[r].now <= clock /\ clock <= req[r].now + MaxWait

\* What a session was told is not beyond a TTL; the row is not beyond what its
\* session was told, and at most MaxWait before it.
TermInv ==
  /\ \A s \in Sessions : told[s] <= clock + TTL
  /\ lock # NoLock =>
       /\ lock.session \in Sessions
       /\ told[lock.session] # 0
       /\ lock.expires <= told[lock.session]
       /\ told[lock.session] - MaxWait <= lock.expires

\* A managed lock with a computer was taken with a token of that computer, and
\* `barred` is noted exactly while its credential has no access.
AccessInv ==
  /\ barred # Never => barred <= clock
  /\ Managed /\ lock # NoLock =>
       /\ lock.host # NoHost => lock.cred \in Bearer /\ lock.host = HostOf[lock.cred]
       /\ Authorized(lock.cred) <=> barred = Never

\* A session that has ended had a term and never has the lock again.
EndedInv ==
  \A s \in closed \union published : told[s] # 0 /\ lock.session # s

SessionsInv ==
  /\ TypeOK
  /\ RequestInv
  /\ TermInv
  /\ AccessInv
  /\ PromiseKept
  /\ BarredSessionEnds
=============================================================================
