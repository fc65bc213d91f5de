CONSTANTS
  r1 = r1  r2 = r2  ann = ann  bob = bob  cyd = cyd
  pc1 = pc1  pc2 = pc2  t1 = t1  t2 = t2
  Requests = {r1, r2}
  Users = {ann, bob, cyd}
  NoUser = NoUser
  Computers = {pc1, pc2}
  NoComputer = NoComputer
  Tokens = {t1, t2}
  Configured <- MCConfigured
SPECIFICATION Spec
SYMMETRY Symmetry
INVARIANTS
  ManagedAccessInv
  AnAdminRemains
PROPERTIES
  AdministratorsHaveTheLastWord
