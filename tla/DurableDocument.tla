-------------------------- MODULE DurableDocument --------------------------
(* What the debounced persistence promises of a document: edits are         *)
(* accepted one after the other; an accepted edit is in the row, or in a    *)
(* write that is on its way, or a write is due; a write carries the last    *)
(* accepted edit of the moment it starts, and the row never goes back.      *)
(* Once the promise is broken it says nothing more.                         *)
EXTENDS Naturals, TLAPS

CONSTANTS Texts, Empty

VARIABLES
  latest,   \* the document after the last accepted edit
  stored,   \* the document of the row
  pending,  \* a write is due
  writing,  \* the documents of the writes on their way
  broken

vars == <<latest, stored, pending, writing, broken>>

Document == [ver : Nat, text : Texts \cup {Empty}]

Init ==
  /\ stored \in Document
  /\ latest = stored
  /\ pending = FALSE
  /\ writing = {}
  /\ broken = FALSE

Accept(x) ==
  /\ latest' = [ver |-> latest.ver + 1, text |-> x]
  /\ pending' = TRUE
  /\ UNCHANGED <<stored, writing>>

Capture ==
  /\ writing' = writing \cup {latest}
  /\ pending' = FALSE
  /\ UNCHANGED <<latest, stored>>

Commit(d) ==
  /\ stored.ver <= d.ver
  /\ stored' = d
  /\ writing' \in {writing, writing \ {d}}
  /\ UNCHANGED <<latest, pending>>

\* Nothing is owed: what is due or on its way may be forgotten.
Settle ==
  /\ stored = latest
  /\ pending' = FALSE
  /\ writing' \in {writing, {}}
  /\ UNCHANGED <<latest, stored>>

Kept ==
  /\ ~broken
  /\ broken' = FALSE
  /\ (\E x \in Texts : Accept(x)) \/ Capture \/ (\E d \in writing : Commit(d)) \/ Settle

Next == Kept \/ broken'

Spec == Init /\ [][Next]_vars

-----------------------------------------------------------------------------
(* What follows from the promise *)

\* No accepted edit is forgotten.
NothingLost == ~broken => stored = latest \/ pending \/ latest \in writing

\* The row changes only to a document that was on its way, and never goes back.
RowGoesForward == [][~broken' /\ stored' # stored => stored' \in writing /\ stored.ver <= stored'.ver]_vars

\* What makes NothingLost inductive: nothing is ahead of the last accepted edit,
\* and what has its version is that edit, so that no write can undo it.
NothingAhead == ~broken =>
  /\ latest \in Document /\ stored \in Document /\ writing \subseteq Document
  /\ \A d \in writing \cup {stored} : d.ver <= latest.ver /\ (d.ver = latest.ver => d = latest)

LEMMA AheadNext == NothingAhead /\ [Next]_vars => NothingAhead'
<1> SUFFICES ASSUME NothingAhead, [Next]_vars, ~broken'
             PROVE  NothingAhead'
  BY DEF NothingAhead
<1>1. ASSUME ~broken, NEW x \in Texts, Accept(x)
      PROVE  NothingAhead'
  <2>1. latest.ver \in Nat /\ latest'.ver = latest.ver + 1 /\ latest' \in Document
    BY <1>1 DEF NothingAhead, Accept, Document
  <2>2. ASSUME NEW d \in writing \cup {stored}
        PROVE  d.ver <= latest'.ver /\ d.ver # latest'.ver
    <3>1. d.ver \in Nat /\ d.ver <= latest.ver
      BY <1>1 DEF NothingAhead, Document
    <3> QED  BY <2>1, <3>1
  <2> QED  BY <1>1, <2>1, <2>2 DEF NothingAhead, Accept
<1>2. ASSUME ~broken, Capture
      PROVE  NothingAhead'
  <2>1. latest.ver <= latest.ver
    BY <1>2 DEF NothingAhead, Document
  <2> QED  BY <1>2, <2>1 DEF NothingAhead, Capture
<1>3. ASSUME ~broken, NEW d \in writing, Commit(d)
      PROVE  NothingAhead'
  BY <1>3 DEF NothingAhead, Commit
<1>4. ASSUME ~broken, Settle
      PROVE  NothingAhead'
  BY <1>4 DEF NothingAhead, Settle
<1>5. CASE UNCHANGED vars
  BY <1>5 DEF vars, NothingAhead
<1> QED  BY <1>1, <1>2, <1>3, <1>4, <1>5 DEF Next, Kept

LEMMA LostNext == NothingAhead /\ NothingLost /\ [Next]_vars => NothingLost'
<1> SUFFICES ASSUME NothingAhead, NothingLost, [Next]_vars, ~broken'
             PROVE  (stored = latest \/ pending \/ latest \in writing)'
  BY DEF NothingLost
<1>1. ASSUME ~broken, NEW d \in writing, Commit(d)
      PROVE  (stored = latest \/ pending \/ latest \in writing)'
  <2>1. CASE stored = latest
    <3>1. d.ver \in Nat /\ latest.ver \in Nat /\ d.ver <= latest.ver /\ latest.ver <= d.ver
      BY <1>1, <2>1 DEF NothingAhead, Commit, Document
    <3>2. d = latest
      BY <1>1, <3>1 DEF NothingAhead
    <3> QED  BY <1>1, <3>2 DEF Commit
  <2>2. CASE pending
    BY <1>1, <2>2 DEF Commit
  <2>3. CASE latest \in writing
    BY <1>1, <2>3 DEF Commit
  <2> QED  BY <1>1, <2>1, <2>2, <2>3 DEF NothingLost
<1>2. CASE UNCHANGED vars
  BY <1>2 DEF vars, NothingLost
<1> QED  BY <1>1, <1>2 DEF Next, Kept, Accept, Capture, Settle

\* A document that is kept this way is never lost.
THEOREM NothingIsLost == Spec => []NothingLost
<1>1. Init => NothingAhead /\ NothingLost
  BY DEF Init, NothingAhead, NothingLost, Document
<1> QED  BY <1>1, AheadNext, LostNext, PTL DEF Spec

\* Nor does its row ever go back.
THEOREM RowIsMonotonic == Spec => RowGoesForward
<1>1. [Next]_vars => [~broken' /\ stored' # stored => stored' \in writing /\ stored.ver <= stored'.ver]_vars
  BY DEF Next, Kept, Accept, Capture, Commit, Settle, vars
<1> QED  BY <1>1, PTL DEF Spec, RowGoesForward
=============================================================================
