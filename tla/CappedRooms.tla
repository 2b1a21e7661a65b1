---------------------------- MODULE CappedRooms ----------------------------
(* What the plan enforcement promises of the rows of rooms and memberships: *)
(* the owner of a room is one of its members, and a room never has more     *)
(* members than the plan of its owner allows.                               *)
EXTENDS Naturals, FiniteSets

CONSTANTS Users, Rooms, None, MaxMembers

VARIABLES owner, members

Open(u, r) ==
  /\ owner[r] = None
  /\ owner' = [owner EXCEPT ![r] = u]
  /\ members' = [members EXCEPT ![r] = {u}]

Admit(u, r) ==
  /\ owner[r] # None
  /\ u \notin members[r]
  /\ Cardinality(members[r]) < MaxMembers
  /\ members' = [members EXCEPT ![r] = @ \cup {u}]
  /\ UNCHANGED owner

Dismiss(u, r) ==
  /\ u \in members[r] \ {owner[r]}
  /\ members' = [members EXCEPT ![r] = @ \ {u}]
  /\ UNCHANGED owner

Close(r) ==
  /\ owner[r] # None
  /\ owner' = [owner EXCEPT ![r] = None]
  /\ members' = [members EXCEPT ![r] = {}]

Init ==
  /\ owner = [r \in Rooms |-> None]
  /\ members = [r \in Rooms |-> {}]

Next == \E r \in Rooms : \/ \E u \in Users : Open(u, r) \/ Admit(u, r) \/ Dismiss(u, r)
                         \/ Close(r)

Spec == Init /\ [][Next]_<<owner, members>>
=============================================================================
