---------------------------- MODULE ManagedAccess ----------------------------
(***************************************************************************)
(* Who may use a game with managed computers: the tables `users`,          *)
(* `authorized_hosts` and `api_tokens`, the administrators' requests that  *)
(* change them, and the workers that seed them when they start.            *)
(*                                                                         *)
(* An administrator is authenticated in one transaction and acts in        *)
(* another; by then he may have been demoted, disabled, or overtaken by    *)
(* another administrator.  What sessions make of the tables is the subject *)
(* of Sessions.                                                            *)
(***************************************************************************)
EXTENDS Integers

CONSTANTS Requests,     \* threads of the web workers
          Users,        \* usernames
          NoUser,
          Computers,    \* client ids: a computer has one, and one has a computer
          NoComputer,
          Tokens,       \* token hashes
          Configured    \* SAVE_SYNC_WEB_USERS at the first start: name to role

Roles == {"admin", "player"}

ASSUME AccessAssumption ==
  /\ NoUser \notin Users
  /\ NoComputer \notin Computers
  /\ DOMAIN Configured \subseteq Users
  /\ \A u \in DOMAIN Configured : Configured[u] \in Roles
  /\ \E u \in DOMAIN Configured : Configured[u] = "admin"

VARIABLES
  role,      \* users.role, or "none" for a name that has no row
  active,    \* users with active=1
  owner,     \* authorized_hosts.user_id, NoUser for a client id without a row
  enabled,   \* computers with active=1
  holder,    \* api_tokens.user_id, NoUser for a token not created
  bound,     \* api_tokens.host_id
  revoked,   \* tokens with a revoked_at
  req        \* "admitted": authenticated as an administrator

vars == <<role, active, owner, enabled, holder, bound, revoked, req>>

Admins == {u \in active : role[u] = "admin"}

Init ==
  /\ role    = [u \in Users |-> IF u \in DOMAIN Configured THEN Configured[u] ELSE "none"]
  /\ active  = DOMAIN Configured
  /\ owner   = [c \in Computers |-> NoUser]
  /\ enabled = {}
  /\ holder  = [t \in Tokens |-> NoUser]
  /\ bound   = [t \in Tokens |-> NoComputer]
  /\ revoked = {}
  /\ req     = [r \in Requests |-> "idle"]

\* authenticate(require_admin=True): an active administrator, by the panel or
\* by a token that no computer is bound to.
AuthenticateAdmin(r) ==
  /\ req[r] = "idle"
  /\ Admins # {}
  /\ req' = [req EXCEPT ![r] = "admitted"]
  /\ UNCHANGED <<role, active, owner, enabled, holder, bound, revoked>>

\* The transaction of an admitted request.
Acts(r) ==
  /\ req[r] = "admitted"
  /\ req' = [req EXCEPT ![r] = "idle"]

\* The request is refused, fails or dies with its worker.
Refused(r) ==
  /\ Acts(r)
  /\ UNCHANGED <<role, active, owner, enabled, holder, bound, revoked>>

\* POST /admin/users.
CreateUser(r, u, newRole) ==
  /\ Acts(r)
  /\ role[u] = "none"
  /\ role' = [role EXCEPT ![u] = newRole]
  /\ active' = active \union {u}
  /\ UNCHANGED <<owner, enabled, holder, bound, revoked>>

\* Mutant: administrators who are disabled count.
AnyOtherAdmins(u) == {x \in Users \ {u} : role[x] = "admin"}

OtherAdmins(u) == Admins \ {u}

\* PATCH /admin/users/<id>: a field that is not sent keeps its value.
UpdateUser(r, u, newRole, newActive) ==
  /\ Acts(r)
  /\ role[u] # "none"
  /\ u \in Admins /\ (newRole # "admin" \/ ~newActive) => OtherAdmins(u) # {}
  /\ role' = [role EXCEPT ![u] = newRole]
  /\ active' = IF newActive THEN active \union {u} ELSE active \ {u}
  /\ UNCHANGED <<owner, enabled, holder, bound, revoked>>

\* POST /admin/hosts: client_id is UNIQUE.
CreateComputer(r, c, u) ==
  /\ Acts(r)
  /\ u \in active
  /\ owner[c] = NoUser
  /\ owner' = [owner EXCEPT ![c] = u]
  /\ enabled' = enabled \union {c}
  /\ UNCHANGED <<role, active, holder, bound, revoked>>

\* PATCH /admin/hosts/<id>.
UpdateComputer(r, c, newActive) ==
  /\ Acts(r)
  /\ owner[c] # NoUser
  /\ newActive => owner[c] \in active
  /\ enabled' = IF newActive THEN enabled \union {c} ELSE enabled \ {c}
  /\ UNCHANGED <<role, active, owner, holder, bound, revoked>>

\* Mutant: the computer is looked up by its id alone.
AnyEnabledComputer(c, u) == owner[c] # NoUser /\ c \in enabled

\* The computer of that user, enabled.
EnabledComputerOf(c, u) == owner[c] = u /\ c \in enabled

\* POST /admin/tokens: a new token for a user and one of his computers.
CreateToken(r, t, u, c) ==
  /\ Acts(r)
  /\ holder[t] = NoUser
  /\ u \in active
  /\ EnabledComputerOf(c, u)
  /\ holder' = [holder EXCEPT ![t] = u]
  /\ bound' = [bound EXCEPT ![t] = c]
  /\ UNCHANGED <<role, active, owner, enabled, revoked>>

\* DELETE /admin/tokens/<id>.
RevokeToken(r, t) ==
  /\ Acts(r)
  /\ holder[t] # NoUser
  /\ t \notin revoked
  /\ revoked' = revoked \union {t}
  /\ UNCHANGED <<role, active, owner, enabled, holder, bound>>

\* A worker starts, while others serve, and inserts a configured user who has
\* no row; each INSERT is a transaction of its own.
SeedUser(u, newRole) ==
  /\ role[u] = "none"
  /\ role' = [role EXCEPT ![u] = newRole]
  /\ active' = active \union {u}
  /\ UNCHANGED <<owner, enabled, holder, bound, revoked, req>>

\* Mutant: a bootstrap token that exists is written again.
SeedTokenAgain(t, u) ==
  /\ role[u] # "none"
  /\ holder' = [holder EXCEPT ![t] = u]
  /\ bound' = [bound EXCEPT ![t] = NoComputer]
  /\ revoked' = revoked \ {t}
  /\ UNCHANGED <<role, active, owner, enabled, req>>

\* It inserts a bootstrap token, unless the hash has a row, revoked or not.
SeedToken(t, u) ==
  /\ role[u] # "none"
  /\ holder[t] = NoUser
  /\ holder' = [holder EXCEPT ![t] = u]
  /\ UNCHANGED <<role, active, owner, enabled, bound, revoked, req>>

AdminStep(r) ==
  \/ AuthenticateAdmin(r)
  \/ Refused(r)
  \/ \E u \in Users, newRole \in Roles :
       \/ CreateUser(r, u, newRole)
       \/ \E newActive \in BOOLEAN : UpdateUser(r, u, newRole, newActive)
  \/ \E c \in Computers :
       \/ \E u \in Users : CreateComputer(r, c, u)
       \/ \E newActive \in BOOLEAN : UpdateComputer(r, c, newActive)
  \/ \E t \in Tokens :
       \/ \E u \in Users, c \in Computers : CreateToken(r, t, u, c)
       \/ RevokeToken(r, t)

Seed ==
  \/ \E u \in Users, newRole \in Roles : SeedUser(u, newRole)
  \/ \E t \in Tokens, u \in Users : SeedToken(t, u)

Next == (\E r \in Requests : AdminStep(r)) \/ Seed

Spec == Init /\ [][Next]_vars

-----------------------------------------------------------------------------
(* Properties.                                                             *)

TypeOK ==
  /\ role \in [Users -> Roles \union {"none"}]
  /\ active \subseteq Users
  /\ owner \in [Computers -> Users \union {NoUser}]
  /\ enabled \subseteq Computers
  /\ holder \in [Tokens -> Users \union {NoUser}]
  /\ bound \in [Tokens -> Computers \union {NoComputer}]
  /\ revoked \subseteq Tokens
  /\ req \in [Requests -> {"idle", "admitted"}]

\* However administrators demote and disable each other, with requests admitted
\* before, one who can act remains (managed.py:193-205).
AnAdminRemains == Admins # {}

\* A token's computer belongs to the token's user: resolve_authorized_host
\* (sessions.py:73-82) and the panel look computers up by both.
TokenOfItsComputer ==
  \A t \in Tokens : bound[t] # NoComputer => holder[t] = owner[bound[t]]

\* The rows of users who are or were active, of computers that are enabled, and
\* of tokens are consistent; the inductive invariant.
ManagedAccessInv ==
  /\ TypeOK
  /\ AnAdminRemains
  /\ TokenOfItsComputer
  /\ \A u \in active : role[u] # "none"
  /\ \A c \in enabled : owner[c] # NoUser
  /\ \A t \in Tokens : bound[t] # NoComputer \/ t \in revoked => holder[t] # NoUser

\* No start of a worker, at any time, overwrites what administrators have set
\* (docs/OPERATIONS.md:63): only an admitted request changes a user or a
\* computer that has a row; nobody gives back a revoked token or rebinds one.
AdministratorsHaveTheLastWord ==
  [][ /\ \/ \E u \in Users : /\ role[u] # "none"
                             /\ \/ role'[u] # role[u]
                                \/ (u \in active') # (u \in active)
         \/ \E c \in Computers : /\ owner[c] # NoUser
                                 /\ (c \in enabled') # (c \in enabled)
         => \E r \in Requests : req[r] = "admitted" /\ req'[r] = "idle"
      /\ revoked \subseteq revoked'
      /\ \A c \in Computers : owner[c] # NoUser => owner'[c] = owner[c]
      /\ \A t \in Tokens : holder[t] # NoUser =>
           holder'[t] = holder[t] /\ bound'[t] = bound[t] ]_vars
=============================================================================
