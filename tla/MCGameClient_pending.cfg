CONSTANTS
  h1 = h1  h2 = h2  s1 = s1  s2 = s2  s3 = s3
  Hosts = {h1, h2}
  Sessions = {s1, s2, s3}
  NoSession = NoSession
  MaxVersion = 3
  Games = {"palworld"}
SPECIFICATION Spec
SYMMETRY Symmetry
CHECK_DEADLOCK FALSE
INVARIANTS
  NothingOverwritten
