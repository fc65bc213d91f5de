CONSTANTS
  r1 = r1  r2 = r2  s1 = s1  s2 = s2  tokenA = tokenA  tokenB = tokenB
  old = old  web = web  hostA = hostA  hostB = hostB  u1 = u1  u2 = u2
  Requests = {r1, r2}
  Sessions = {s1, s2}
  NoSession = NoSession
  Credentials = {tokenA, tokenB}
  Bearer = {tokenA, tokenB}
  NoCredential = NoCredential
  Users = {u1}
  UserOf <- MCUserOf
  Hosts = {hostA, hostB}
  NoHost = NoHost
  HostOf <- MCHostOf
  Managed = TRUE
  TTL = 2
  MaxWait = 1
  MaxTime = 4
SPECIFICATION Spec
SYMMETRY Symmetry
INVARIANTS
  SessionsInv
  PromiseKept
  BarredSessionEnds
PROPERTIES
  ActsOnlyWithAccess
CHECK_DEADLOCK FALSE
