CONSTANTS
  Users = {u1, u2, u3}
  Rooms = {r1, r2}
  Public = {r1}
  Requests = {q1, q2}
  Endpoints = {"join"}
  None = None
  MaxRooms = 1
  MaxMembers = 2
  MaxJoined = 2
SPECIFICATION FairSpec
PROPERTIES RefinesCapped RequestsEnd
