CONSTANTS
  r1 = r1  r2 = r2  s1 = s1  s2 = s2  a = a  b = b  foreign = foreign
  here = here  elsewhere = elsewhere  hostSlot = hostSlot  adminSlot = adminSlot
  Requests = {r1, r2}
  Sessions = {s1, s2}
  NoSession = NoSession
  NoWriter = NoWriter
  Saves = {a, b, foreign}
  NoSave = NoSave
  Identities = {here, elsewhere}
  IdentityOf <- MCTwoIdentities
  Slots <- MCSlots
  SlotOf <- MCSlotOf
  AdminSlot = adminSlot
  RetentionPerSlot = 1
  BackupEnabled = TRUE
  MaxVersion = 3
  MaxFaults = 0
  MaxCrashes = 1
SPECIFICATION Spec
SYMMETRY Symmetry
INVARIANTS
  StoreInv
  OneIdentity
  EveryVersionHasItsFile
  CurrentIsNewest
  BackupReadsItsVersion
  CommitsOnTheHeadItSaw
  PublishedOnTopOfItsBase
  DownloadServesItsVersion
PROPERTIES
  NumberNeverReused
  NeverDropsProtected
  ImplementsLedger
CHECK_DEADLOCK FALSE
