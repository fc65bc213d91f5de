CONSTANTS
  r1 = r1  r2 = r2  s1 = s1  s2 = s2  a = a  b = b  foreign = foreign
  here = here  elsewhere = elsewhere  hostSlot = hostSlot  adminSlot = adminSlot
  Requests = {r1, r2}
  Sessions = {s1, s2}
  NoSession = NoSession
  NoWriter = NoWriter
  Saves = {a, b}
  NoSave = NoSave
  Identities = {here}
  IdentityOf <- MCOneIdentity
  Slots <- MCSlots
  SlotOf <- MCSlotOf
  AdminSlot = adminSlot
  RetentionPerSlot = 1
  BackupEnabled = TRUE
  MaxVersion = 3
  MaxFaults = 1
  MaxCrashes = 0
SPECIFICATION Spec
SYMMETRY Symmetry
INVARIANTS
  EveryVersionHasItsFile
CHECK_DEADLOCK FALSE
