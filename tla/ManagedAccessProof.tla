------------------------- MODULE ManagedAccessProof -------------------------
(***************************************************************************)
(* An administrator always remains, for any number of administrators and   *)
(* requests, and no start of a worker undoes what they did.                *)
(***************************************************************************)
EXTENDS ManagedAccess, TLAPS

\* The tables after the first start (database.py:210-248).
LEMMA InitSatisfiesInv == Init => ManagedAccessInv
<1> SUFFICES ASSUME Init PROVE ManagedAccessInv
  OBVIOUS
<1> USE AccessAssumption
<1>1. TypeOK
  BY DEF Init, TypeOK, Roles
<1>2. AnAdminRemains
  <2>1. PICK u \in DOMAIN Configured : Configured[u] = "admin"
    OBVIOUS
  <2>2. u \in Admins
    BY <2>1 DEF Init, Admins
  <2> QED
    BY <2>2 DEF AnAdminRemains
<1>3. \A u \in active : role[u] # "none"
  BY DEF Init, Roles
<1> QED
  BY <1>1, <1>2, <1>3 DEF Init, ManagedAccessInv, TokenOfItsComputer

\* A request that only begins or ends changes no table.
LEMMA RequestKeepsInv ==
  ASSUME ManagedAccessInv, NEW r \in Requests, AuthenticateAdmin(r) \/ Refused(r)
  PROVE  ManagedAccessInv'
BY DEF ManagedAccessInv, TypeOK, AnAdminRemains, Admins, TokenOfItsComputer,
   AuthenticateAdmin, Refused, Acts

\* What a step does to `req` keeps its type.
LEMMA ActsKeepsType ==
  ASSUME TypeOK, NEW r \in Requests, Acts(r)
  PROVE  req' \in [Requests -> {"idle", "admitted"}]
BY DEF TypeOK, Acts

\* A name that had no row comes in, by an administrator (managed.py:133-141) or
\* by a worker that starts (database.py:217-224): nobody is replaced.
LEMMA NewUserKeepsInv ==
  ASSUME ManagedAccessInv, NEW u \in Users, NEW newRole \in Roles,
         role[u] = "none",
         role' = [role EXCEPT ![u] = newRole],
         active' = active \union {u},
         UNCHANGED <<owner, enabled, holder, bound, revoked>>,
         req' \in [Requests -> {"idle", "admitted"}]
  PROVE  ManagedAccessInv'
<1>1. TypeOK'
  BY DEF ManagedAccessInv, TypeOK
<1>2. Admins \subseteq Admins'
  BY DEF ManagedAccessInv, TypeOK, Admins
<1>3. AnAdminRemains'
  BY <1>2 DEF ManagedAccessInv, AnAdminRemains
<1>4. \A x \in active' : role'[x] # "none"
  BY DEF ManagedAccessInv, TypeOK, Roles
<1> QED
  BY <1>1, <1>3, <1>4 DEF ManagedAccessInv, TokenOfItsComputer

\* The last active administrator is neither demoted nor disabled, whoever was
\* admitted before (managed.py:187-210).
LEMMA UpdateUserKeepsInv ==
  ASSUME ManagedAccessInv, NEW r \in Requests, NEW u \in Users,
         NEW newRole \in Roles, NEW newActive \in BOOLEAN,
         UpdateUser(r, u, newRole, newActive)
  PROVE  ManagedAccessInv'
<1>1. /\ role' = [role EXCEPT ![u] = newRole]
      /\ active' = IF newActive THEN active \union {u} ELSE active \ {u}
      /\ UNCHANGED <<owner, enabled, holder, bound, revoked>>
  BY DEF UpdateUser
<1>2. TypeOK'
  BY <1>1, ActsKeepsType DEF ManagedAccessInv, TypeOK, UpdateUser
<1>3. AnAdminRemains'
  <2>1. Admins \ {u} \subseteq Admins'
    BY <1>1 DEF ManagedAccessInv, TypeOK, Admins
  <2>2. CASE newRole = "admin" /\ newActive
    <3>1. u \in Admins'
      BY <1>1, <2>2 DEF ManagedAccessInv, TypeOK, Admins
    <3> QED
      BY <3>1 DEF AnAdminRemains
  <2>3. CASE u \notin Admins
    BY <2>1, <2>3 DEF ManagedAccessInv, AnAdminRemains
  <2>4. CASE u \in Admins /\ (newRole # "admin" \/ ~newActive)
    BY <2>1, <2>4 DEF UpdateUser, OtherAdmins, AnAdminRemains
  <2> QED
    BY <2>2, <2>3, <2>4
<1>4. \A x \in active' : role'[x] # "none"
  BY <1>1 DEF ManagedAccessInv, TypeOK, Roles
<1> QED
  BY <1>1, <1>2, <1>3, <1>4 DEF ManagedAccessInv, TokenOfItsComputer

\* Computers and tokens are created, changed and revoked; no administrator is
\* concerned.
LEMMA ComputersKeepInv ==
  ASSUME ManagedAccessInv, NEW r \in Requests,
         \E c \in Computers :
           \/ \E u \in Users : CreateComputer(r, c, u)
           \/ \E newActive \in BOOLEAN : UpdateComputer(r, c, newActive)
  PROVE  ManagedAccessInv'
<1> PICK c \in Computers :
      \/ \E u \in Users : CreateComputer(r, c, u)
      \/ \E newActive \in BOOLEAN : UpdateComputer(r, c, newActive)
  OBVIOUS
<1>1. /\ UNCHANGED <<role, active, holder, bound, revoked>>
      /\ req' \in [Requests -> {"idle", "admitted"}]
  BY ActsKeepsType DEF CreateComputer, UpdateComputer, ManagedAccessInv
<1>2. /\ owner' \in [Computers -> Users \union {NoUser}]
      /\ enabled' \subseteq Computers
      /\ \A x \in Computers : owner[x] # NoUser => owner'[x] = owner[x]
      /\ \A x \in enabled' : owner'[x] # NoUser
  BY AccessAssumption DEF ManagedAccessInv, TypeOK, CreateComputer, UpdateComputer
<1>3. TypeOK' /\ AnAdminRemains'
  BY <1>1, <1>2 DEF ManagedAccessInv, TypeOK, AnAdminRemains, Admins
<1>4. TokenOfItsComputer'
  <2>1. SUFFICES ASSUME NEW t \in Tokens, bound[t] # NoComputer
                 PROVE  holder[t] = owner'[bound[t]]
    BY <1>1 DEF TokenOfItsComputer
  <2>2. bound[t] \in Computers /\ holder[t] = owner[bound[t]] /\ holder[t] # NoUser
    BY <2>1 DEF ManagedAccessInv, TypeOK, TokenOfItsComputer
  <2> QED
    BY <2>2, <1>2
<1> QED
  BY <1>1, <1>2, <1>3, <1>4 DEF ManagedAccessInv

LEMMA TokensKeepInv ==
  ASSUME ManagedAccessInv,
         \/ \E r \in Requests, t \in Tokens :
              \/ \E u \in Users, c \in Computers : CreateToken(r, t, u, c)
              \/ RevokeToken(r, t)
         \/ \E t \in Tokens, u \in Users : SeedToken(t, u)
  PROVE  ManagedAccessInv'
<1>1. PICK t \in Tokens :
        \/ \E r \in Requests :
             \/ \E u \in Users, c \in Computers : CreateToken(r, t, u, c)
             \/ RevokeToken(r, t)
        \/ \E u \in Users : SeedToken(t, u)
  OBVIOUS
<1>2. /\ UNCHANGED <<role, active, owner, enabled>>
      /\ req' \in [Requests -> {"idle", "admitted"}]
  BY <1>1, ActsKeepsType DEF CreateToken, RevokeToken, SeedToken, ManagedAccessInv, TypeOK
<1>3. AnAdminRemains'
  BY <1>2 DEF ManagedAccessInv, AnAdminRemains, Admins
<1>4. ASSUME NEW r \in Requests, NEW u \in Users, NEW c \in Computers, CreateToken(r, t, u, c)
      PROVE  ManagedAccessInv'
  <2>1. /\ holder' = [holder EXCEPT ![t] = u]
        /\ bound' = [bound EXCEPT ![t] = c]
        /\ revoked' = revoked
        /\ owner[c] = u
    BY <1>4 DEF CreateToken, EnabledComputerOf
  <2> QED
    BY <1>2, <1>3, <2>1, AccessAssumption DEF ManagedAccessInv, TypeOK, TokenOfItsComputer
<1>5. ASSUME NEW r \in Requests, RevokeToken(r, t)
      PROVE  ManagedAccessInv'
  BY <1>2, <1>3, <1>5 DEF ManagedAccessInv, TypeOK, TokenOfItsComputer, RevokeToken
<1>6. ASSUME NEW u \in Users, SeedToken(t, u)
      PROVE  ManagedAccessInv'
  <2>1. bound[t] = NoComputer /\ t \notin revoked
    BY <1>6 DEF SeedToken, ManagedAccessInv
  <2>2. holder' = [holder EXCEPT ![t] = u] /\ UNCHANGED <<bound, revoked>>
    BY <1>6 DEF SeedToken
  <2> QED
    BY <1>2, <1>3, <2>1, <2>2, AccessAssumption
    DEF ManagedAccessInv, TypeOK, TokenOfItsComputer
<1> QED
  BY <1>1, <1>4, <1>5, <1>6

LEMMA NextKeepsInv == ManagedAccessInv /\ [Next]_vars => ManagedAccessInv'
<1> SUFFICES ASSUME ManagedAccessInv, [Next]_vars PROVE ManagedAccessInv'
  OBVIOUS
<1>1. ASSUME NEW r \in Requests, NEW u \in Users, NEW newRole \in Roles,
             CreateUser(r, u, newRole)
      PROVE  ManagedAccessInv'
  <2>1. req' \in [Requests -> {"idle", "admitted"}]
    BY <1>1, ActsKeepsType DEF CreateUser, ManagedAccessInv
  <2> QED
    BY <1>1, <2>1, NewUserKeepsInv DEF CreateUser
<1>2. ASSUME NEW u \in Users, NEW newRole \in Roles, SeedUser(u, newRole)
      PROVE  ManagedAccessInv'
  <2>1. req' \in [Requests -> {"idle", "admitted"}]
    BY <1>2 DEF SeedUser, ManagedAccessInv, TypeOK
  <2> QED
    BY <1>2, <2>1, NewUserKeepsInv DEF SeedUser
<1>3. CASE UNCHANGED vars
  BY <1>3 DEF vars, ManagedAccessInv, TypeOK, AnAdminRemains, Admins, TokenOfItsComputer
<1>4. ASSUME NEW r \in Requests, AdminStep(r) PROVE ManagedAccessInv'
  BY <1>1, <1>4, RequestKeepsInv, UpdateUserKeepsInv, ComputersKeepInv, TokensKeepInv
  DEF AdminStep
<1>5. CASE Seed
  BY <1>2, <1>5, TokensKeepInv DEF Seed
<1> QED
  BY <1>3, <1>4, <1>5 DEF Next

-----------------------------------------------------------------------------
(* The theorems.                                                           *)

\* The tables of users, computers and tokens stay consistent.
THEOREM AccessInvariant == Spec => []ManagedAccessInv
<1> QED
  BY InitSatisfiesInv, NextKeepsInv, PTL DEF Spec

\* An active administrator always remains (managed.py:193-205), however many
\* requests were admitted before.
THEOREM LastAdministratorStays == Spec => []AnAdminRemains
<1>1. ManagedAccessInv => AnAdminRemains
  BY DEF ManagedAccessInv
<1> QED
  BY <1>1, AccessInvariant, PTL

\* No start of a worker overwrites what administrators have set
\* (database.py:216-224, 245-248).
THEOREM StartsOverwriteNothing == Spec => AdministratorsHaveTheLastWord
<1> DEFINE Preserved ==
      /\ \/ \E u \in Users : /\ role[u] # "none"
                             /\ \/ role'[u] # role[u]
                                \/ (u \in active') # (u \in active)
         \/ \E c \in Computers : /\ owner[c] # NoUser
                                 /\ (c \in enabled') # (c \in enabled)
         => \E r \in Requests : req[r] = "admitted" /\ req'[r] = "idle"
      /\ revoked \subseteq revoked'
      /\ \A c \in Computers : owner[c] # NoUser => owner'[c] = owner[c]
      /\ \A t \in Tokens : holder[t] # NoUser =>
           holder'[t] = holder[t] /\ bound'[t] = bound[t]
<1>1. ASSUME ManagedAccessInv, NEW r \in Requests, AdminStep(r) PROVE Preserved
  <2>1. AuthenticateAdmin(r) \/ (req[r] = "admitted" /\ req'[r] = "idle")
    <3>1. AuthenticateAdmin(r) \/ Acts(r)
      BY <1>1 DEF AdminStep, Refused, CreateUser, UpdateUser, CreateComputer,
         UpdateComputer, CreateToken, RevokeToken
    <3>2. CASE Acts(r)
      BY <1>1, <3>2 DEF Acts, ManagedAccessInv, TypeOK
    <3> QED
      BY <3>1, <3>2
  <2>2. /\ revoked \subseteq revoked'
        /\ \A c \in Computers : owner[c] # NoUser => owner'[c] = owner[c]
        /\ \A t \in Tokens : holder[t] # NoUser =>
             holder'[t] = holder[t] /\ bound'[t] = bound[t]
    BY <1>1 DEF AdminStep, AuthenticateAdmin, Acts, Refused, CreateUser, UpdateUser,
       CreateComputer, UpdateComputer, CreateToken, RevokeToken, ManagedAccessInv, TypeOK
  <2>3. CASE AuthenticateAdmin(r)
    BY <2>2, <2>3 DEF AuthenticateAdmin
  <2> QED
    BY <2>1, <2>2, <2>3
<1>2. ASSUME ManagedAccessInv, Seed PROVE Preserved
  <2>1. CASE \E u \in Users, newRole \in Roles : SeedUser(u, newRole)
    BY <1>2, <2>1 DEF SeedUser, ManagedAccessInv, TypeOK
  <2>2. CASE \E t \in Tokens, u \in Users : SeedToken(t, u)
    BY <1>2, <2>2 DEF SeedToken, ManagedAccessInv, TypeOK
  <2> QED
    BY <1>2, <2>1, <2>2 DEF Seed
<1>3. ManagedAccessInv /\ [Next]_vars => [Preserved]_vars
  BY <1>1, <1>2 DEF Next
<1> QED
  BY <1>3, AccessInvariant, PTL DEF Spec, AdministratorsHaveTheLastWord
=============================================================================
