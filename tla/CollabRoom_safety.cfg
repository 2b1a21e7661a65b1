CONSTANTS
  u1 = u1 u2 = u2 s1 = s1 s2 = s2 s3 = s3
  Users = {u1, u2}
  Owner = u1
  Sockets = {s1, s3}
  userOf <- OneEach
  Texts = {x, y}
  Empty = ""
  Activations = {a1, a2}
  None = None
  InitialDocs <- NewDocument
  MaxVersion = 2
  MaxTimers = 2
  Events = {"membership", "deletion", "dbError", "crash"}
SPECIFICATION Spec
CONSTRAINT FewFaults
SYMMETRY Symmetric
CHECK_DEADLOCK FALSE
INVARIANTS TypeOK VersionNamesLatest EditsAreKept
PROPERTIES RefinesDurable ClientsGoForward
