CONSTANTS
  r1 = r1  r2 = r2  s1 = s1  s2 = s2  a = a  b = b  foreign = foreign
  here = here  elsewhere = elsewhere  hostSlot = hostSlot  adminSlot = adminSlot
  Requests = {r1, r2}
  Sessions = {s1}
  NoSession = NoSession
  NoWriter = NoWriter
  Saves = {a}
  NoSave = NoSave
  Identities = {here}
  IdentityOf <- MCOneIdentity
  Slots <- MCSlots
  SlotOf <- MCSlotOf
  AdminSlot = adminSlot
  RetentionPerSlot = 1
  BackupEnabled = TRUE
  MaxVersion = 2
  MaxFaults = 2
  MaxCrashes = 1
SPECIFICATION FairSpec
PROPERTIES
  OnlyCompensationLosesFiles
  EveryBackupIsResolved
  EveryRequestEnds
CHECK_DEADLOCK FALSE
