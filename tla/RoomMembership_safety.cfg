CONSTANTS
  Users = {u1, u2, u3}
  Rooms = {r1, r2}
  Public = {r1}
  Requests = {q1, q2}
  Endpoints = {"join", "invite", "id"}
  None = None
  MaxRooms = 1
  MaxMembers = 2
  MaxJoined = 1
SPECIFICATION Spec
SYMMETRY Symmetric
INVARIANTS TypeOK OwnerIsMember OwnedExcess MembersExcess JoinedExcess InvitesExcess NoStandstill
