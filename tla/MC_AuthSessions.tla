--------------------------- MODULE MC_AuthSessions ---------------------------
(* Small instances of AuthSessions for TLC: one account, used in two        *)
(* browsers.                                                                *)
EXTENDS AuthSessions, TLC

CONSTANTS u1, b1, b2

OneAccount == (b1 :> u1) @@ (b2 :> u1)

\* Bound: a behaviour is followed until a second mishap.
FewFaults == Cardinality(faults) <= 1

Symmetric == Permutations(Tokens) \cup Permutations(Requests)
=============================================================================
