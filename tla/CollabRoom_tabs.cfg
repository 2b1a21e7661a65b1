CONSTANTS
  u1 = u1 u2 = u2 s1 = s1 s2 = s2 s3 = s3
  Users = {u1, u2}
  Owner = u1
  Sockets = {s1, s2, s3}
  userOf <- TwoTabs
  Texts = {x}
  Empty = ""
  Activations = {a1, a2}
  None = None
  InitialDocs <- NewOrNoDocument
  MaxVersion = 1
  MaxTimers = 1
  Events = {"membership"}
SPECIFICATION Spec
CONSTRAINT FewFaults
SYMMETRY Symmetric
CHECK_DEADLOCK FALSE
INVARIANTS ParticipantsAgree PresenceIsSwept RoomsAreFreed EmptyIsLeaving
