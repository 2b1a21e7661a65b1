CONSTANTS
  u1 = u1 u2 = u2 s1 = s1 s2 = s2 s3 = s3
  Users = {u1, u2}
  Owner = u1
  Sockets = {s1, s3}
  userOf <- OneEach
  Texts = {x}
  Empty = ""
  Activations = {a1, a2}
  None = None
  InitialDocs <- NewDocument
  MaxVersion = 1
  MaxTimers = 1
  Events = {}
SPECIFICATION Spec
CHECK_DEADLOCK FALSE
INVARIANT SomeLoadPromiseHolds
