CONSTANTS
  u1 = u1  u2 = u2  s1 = s1  s2 = s2
  Users <- MCUsers
  Slots <- MCSlots
  NoSlot = NoSlot
  DefaultSlot <- MCDefaultSlot
  RetentionPerSlot = 2
  MaxVersion = 4
SPECIFICATION Spec
INVARIANTS LoopMeetsRule KeepsNewestOfEverySlot HeadSurvives
