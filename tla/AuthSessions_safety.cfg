CONSTANTS
  u1 = u1 b1 = b1 b2 = b2
  Users = {u1}
  Browsers = {b1, b2}
  accountOf <- OneAccount
  Registered = {}
  Tokens = {t1, t2, t3}
  Requests = {q1, q2}
  MaxSessions = 1
  None = None
  Events = {"expiry", "dbError", "lost", "crash"}
SPECIFICATION Spec
CONSTRAINT FewFaults
SYMMETRY Symmetric
CHECK_DEADLOCK FALSE
INVARIANTS TypeOK SessionsExcess HeldIsHashed StaysSignedIn
PROPERTY RefinesPromise
