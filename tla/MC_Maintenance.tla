--------------------------- MODULE MC_Maintenance ---------------------------
(* Two rooms whose owners have different plans. *)
EXTENDS Maintenance, TLC

CONSTANTS u1, r1, r2, p1, p2, i1

TwoPlans == (r1 :> p1) @@ (r2 :> p2)
TwoLimits == (p1 :> 1) @@ (p2 :> 2)

\* A message is there when the server starts.
OneOldRow == {[i \in Ids |-> IF i = i1 THEN [room |-> r1, user |-> u1, at |-> 0] ELSE None]}
=============================================================================
