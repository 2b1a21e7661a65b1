----------------------------- MODULE MC_RoomChat -----------------------------
(* Small instances of RoomChat for TLC.                                     *)
EXTENDS RoomChat, TLC

CONSTANTS u1, r1, i1, i2

\* A new server, and one with two messages of the same time.
NoRows == [i \in Ids |-> None]
Tie == [room |-> r1, user |-> u1, at |-> 0]
SomeRows == {NoRows, [NoRows EXCEPT ![i1] = Tie, ![i2] = Tie]}

Symmetric == Permutations(Handlers)
=============================================================================
