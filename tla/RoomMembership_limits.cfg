CONSTANTS
  Users = {u1, u2, u3}
  Rooms = {r1, r2}
  Public = {r1, r2}
  Requests = {q1, q2}
  Endpoints = {"id"}
  None = None
  MaxRooms = 1
  MaxMembers = 2
  MaxJoined = 1
SPECIFICATION Spec
SYMMETRY Symmetric
INVARIANT SomeLimitHolds
