CONSTANTS
  w1 = w1  w2 = w2  p1 = p1  p2 = p2
  Workers = {w1, w2}
  NoWorker = NoWorker
  MaxFaults = 1
  Supervisors = {p1, p2}
  NoSupervisor = NoSupervisor
  MaxVersion = 2
SPECIFICATION FairSpec
INVARIANTS
  ServiceInv
  CurrentSchemaIsComplete
  ServesWhatItUnderstands
  OneHookAtATime
  QueuedOrDecided
  OutcomeIsReal
  StatusIsHonest
PROPERTIES
  NoDowngrade
  EveryWorkerServes
  NoStarvation
CHECK_DEADLOCK FALSE
