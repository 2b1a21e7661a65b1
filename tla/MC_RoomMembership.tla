------------------------- MODULE MC_RoomMembership -------------------------
(* Small instances of RoomMembership for TLC.                              *)
EXTENDS RoomMembership, TLC

Symmetric == Permutations(Requests) \cup Permutations(Users)
=============================================================================
