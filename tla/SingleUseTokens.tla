---------------------------- MODULE SingleUseTokens ----------------------------
(***************************************************************************)
(* What refresh tokens promise.  Whoever asks for a token has a grant: a   *)
(* password, or a token that is given up for it.  A grant is good for one  *)
(* new token, a token that has been given up or revoked never comes back,  *)
(* and so each token is given up at most once and has one heir at most.    *)
(***************************************************************************)
EXTENDS TLAPS

CONSTANTS Tokens, Requests, Password

VARIABLES
  issued,  \* the tokens that have been given out
  live,    \* those that may be given up
  grants   \* who may be issued a token, and for what: <<request, token or Password>>

vars == <<issued, live, grants>>

Init == issued = {} /\ live = {} /\ grants = {}

Authenticate(q) ==
  /\ grants' = grants \cup {<<q, Password>>}
  /\ UNCHANGED <<issued, live>>

Redeem(q, t) ==
  /\ t \in live
  /\ live' = live \ {t}
  /\ grants' = grants \cup {<<q, t>>}
  /\ UNCHANGED issued

Issue(g, t) ==
  /\ g \in grants
  /\ t \in Tokens \ issued
  /\ grants' = grants \ {g}
  /\ issued' = issued \cup {t}
  /\ live' = live \cup {t}

Revoke(S) ==
  /\ live' = live \ S
  /\ UNCHANGED <<issued, grants>>

\* Requests that are given up lose their grants.
Abandon(G) ==
  /\ grants' = grants \ G
  /\ UNCHANGED <<issued, live>>

Next ==
  \/ \E q \in Requests : Authenticate(q)
  \/ \E q \in Requests, t \in Tokens : Redeem(q, t)
  \/ \E g \in grants, t \in Tokens : Issue(g, t)
  \/ \E S \in SUBSET live : Revoke(S)
  \/ \E G \in SUBSET grants : Abandon(G)

Spec == Init /\ [][Next]_vars

-----------------------------------------------------------------------------
(* What follows from it *)

\* The requests that were given a grant for token t.
Heirs(t) == {q \in Requests : <<q, t>> \in grants}

\* Of the requests that present the same token one is given a grant at most, and
\* only by giving the token up.
OneGrant ==
  /\ live \subseteq issued
  /\ \A t \in Tokens : Heirs(t) # {} => t \in issued \ live
  /\ \A t \in Tokens : \A p, q \in Heirs(t) : p = q

\* A token that is gone stays gone, and when its grant has been used, or given
\* up, there is never another: with OneGrant, a token has one heir at most.
SpentIsSpent ==
  [][\A t \in Tokens \cap (issued \ live) : t \in issued' \ live' /\ Heirs(t)' \subseteq Heirs(t)]_vars

\* Password is no token, so a grant for a password is none for a token.
LEMMA GrantNext ==
  ASSUME Password \notin Tokens, OneGrant, [Next]_vars
  PROVE  /\ OneGrant'
         /\ \A t \in Tokens \cap (issued \ live) : t \in issued' \ live' /\ Heirs(t)' \subseteq Heirs(t)
<1>1. CASE UNCHANGED vars
  BY <1>1 DEF vars, OneGrant, Heirs
<1>2. ASSUME NEW q \in Requests, Authenticate(q)
      PROVE  \A t \in Tokens : Heirs(t)' = Heirs(t)
  BY <1>2 DEF Authenticate, Heirs
<1>3. CASE \E q \in Requests : Authenticate(q)
  BY <1>2, <1>3 DEF Authenticate, OneGrant
<1>4. ASSUME NEW q \in Requests, NEW u \in Tokens, Redeem(q, u)
      PROVE  /\ OneGrant'
             /\ \A t \in Tokens \cap (issued \ live) : t \in issued' \ live' /\ Heirs(t)' \subseteq Heirs(t)
  <2>1. Heirs(u) = {} /\ Heirs(u)' = {q}
    BY <1>4 DEF Redeem, OneGrant, Heirs
  <2>2. \A t \in Tokens \ {u} : Heirs(t)' = Heirs(t)
    BY <1>4 DEF Redeem, Heirs
  <2> QED  BY <1>4, <2>1, <2>2 DEF Redeem, OneGrant
<1>5. ASSUME NEW g \in grants, NEW u \in Tokens, Issue(g, u)
      PROVE  /\ OneGrant'
             /\ \A t \in Tokens \cap (issued \ live) : t \in issued' \ live' /\ Heirs(t)' \subseteq Heirs(t)
  <2>1. \A t \in Tokens : Heirs(t)' \subseteq Heirs(t)
    BY <1>5 DEF Issue, Heirs
  <2> QED  BY <1>5, <2>1 DEF Issue, OneGrant
<1>6. ASSUME NEW S, Revoke(S)
      PROVE  /\ OneGrant'
             /\ \A t \in Tokens \cap (issued \ live) : t \in issued' \ live' /\ Heirs(t)' \subseteq Heirs(t)
  <2>1. \A t \in Tokens : Heirs(t)' = Heirs(t)
    BY <1>6 DEF Revoke, Heirs
  <2> QED  BY <1>6, <2>1 DEF Revoke, OneGrant
<1>7. ASSUME NEW G, Abandon(G)
      PROVE  /\ OneGrant'
             /\ \A t \in Tokens \cap (issued \ live) : t \in issued' \ live' /\ Heirs(t)' \subseteq Heirs(t)
  <2>1. \A t \in Tokens : Heirs(t)' \subseteq Heirs(t)
    BY <1>7 DEF Abandon, Heirs
  <2> QED  BY <1>7, <2>1 DEF Abandon, OneGrant
<1> QED
  BY <1>1, <1>3, <1>4, <1>5, <1>6, <1>7 DEF Next

\* A token is given up once at most, and has one heir at most.
THEOREM EachTokenOnce ==
  ASSUME Password \notin Tokens
  PROVE  Spec => []OneGrant /\ SpentIsSpent
<1>1. Init => OneGrant
  BY DEF Init, OneGrant, Heirs
<1>2. OneGrant /\ [Next]_vars
        => OneGrant' /\ [\A t \in Tokens \cap (issued \ live) :
                            t \in issued' \ live' /\ Heirs(t)' \subseteq Heirs(t)]_vars
  BY GrantNext
<1> QED
  BY <1>1, <1>2, PTL DEF Spec, SpentIsSpent
=============================================================================
