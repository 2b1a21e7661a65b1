SPECIFICATION ChatSpec
CONSTANTS
  u1 = u1  r1 = r1  i1 = i1  i2 = i2
  Users = {u1}
  Rooms = {r1}
  Watched = r1
  Ids = {i1, i2, i3}
  Handlers = {h1, h2}
  Window = 2
  Max = 2
  PageSize = 1
  None = None
  Deleted = Deleted
  OldRows <- SomeRows
  MaxTime = 2
  MaxSent = 4
  MaxMishaps = 1
  Events = {"dbError", "restart", "membership"}
SYMMETRY Symmetric
CHECK_DEADLOCK FALSE
INVARIANTS ChatTypeOK RateHolds FewLateMessages ReaderMissesOnlyTies
