--------------------------- MODULE MC_CollabRoom ---------------------------
(* Small instances of CollabRoom for TLC: two users, the first of whom may  *)
(* have two tabs open.                                                      *)
EXTENDS CollabRoom, TLC

CONSTANTS u1, u2, s1, s2, s3

TwoTabs == (s1 :> u1) @@ (s2 :> u1) @@ (s3 :> u2)
OneEach == (s1 :> u1) @@ (s3 :> u2)
TabsOfOne == (s1 :> u1) @@ (s2 :> u1)
OneTab == s1 :> u1

\* The row createRoom inserts, and no row.
NewDocument == {Blank}
NewOrNoDocument == {Blank, None}

\* Bound: a behaviour is followed until a second mishap.
FewFaults == Cardinality(faults) <= 1

Symmetric == Permutations(Activations) \cup Permutations(Texts)
=============================================================================
