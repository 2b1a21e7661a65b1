SPECIFICATION FairSpec
CONSTANTS
  u1 = u1  r1 = r1  r2 = r2  p1 = p1  p2 = p2  i1 = i1
  Users = {u1}
  Rooms = {r1, r2}
  Watched = None
  Ids = {i1, i2}
  Handlers = {h1}
  Window = 1
  Max = 1
  PageSize = 1
  None = None
  Deleted = Deleted
  OldRows <- OneOldRow
  MaxTime = 3
  MaxSent = 1
  MaxMishaps = 2
  Events = {"dbError", "restart"}
  Plans = {p1, p2}
  planOf <- TwoPlans
  days <- TwoLimits
  Batch = 1
  Attempts = 2
CHECK_DEADLOCK FALSE
INVARIANTS TypeOK PassesComplete
PROPERTIES NothingEarly RetentionKept
