----------------------------- MODULE CountingLemmas -----------------------------
(* Limits that are checked by a count before an insert, with no lock between. *)
EXTENDS Integers, FiniteSets, FiniteSetTheorems, TLAPS

\* The ways in which what counts against a limit (A) and those of the requests R
\* that have passed its check (E) change: both shrink; a request inserts; a request
\* passes the check; the count starts with the first that is inserted; and nothing
\* is left.  The excess stays below the number of requests.
LEMMA ExcessSteps ==
  ASSUME NEW max \in Nat \ {0}, NEW T, IsFiniteSet(T), NEW R, IsFiniteSet(R),
         NEW A \in SUBSET T, NEW B \in SUBSET T,
         NEW E \in SUBSET R, NEW F \in SUBSET R,
         Cardinality(A) + Cardinality(E) <= (max - 1) + Cardinality(R),
         \/ B \subseteq A /\ F \subseteq E
         \/ \E x \in T, q \in E : B \subseteq A \cup {x} /\ F \subseteq E \ {q}
         \/ Cardinality(A) < max /\ B \subseteq A
         \/ \E x \in T, q \in R : B \subseteq {x} /\ F \subseteq R \ {q}
         \/ B = {}
  PROVE  Cardinality(B) + Cardinality(F) <= (max - 1) + Cardinality(R)
<1> DEFINE K == Cardinality(R)
           bound == (max - 1) + K
<1>1. ASSUME NEW S \in SUBSET T
      PROVE  IsFiniteSet(S) /\ Cardinality(S) \in Nat
    BY FS_Subset, FS_CardinalityType
<1>2. ASSUME NEW S \in SUBSET R
      PROVE  IsFiniteSet(S) /\ Cardinality(S) \in Nat /\ Cardinality(S) <= K
    BY FS_Subset, FS_CardinalityType
<1>3. /\ Cardinality(A) \in Nat /\ Cardinality(B) \in Nat
      /\ Cardinality(E) \in Nat /\ Cardinality(F) \in Nat
      /\ K \in Nat /\ Cardinality(F) <= K
  BY <1>1, <1>2, R \subseteq R
<1>4. CASE B \subseteq A /\ F \subseteq E
  <2>1. Cardinality(B) <= Cardinality(A) /\ Cardinality(F) <= Cardinality(E)
    BY <1>1, <1>2, <1>4, FS_Subset
  <2> QED  BY <1>3, <2>1
<1>5. ASSUME NEW x \in T, NEW q \in E, B \subseteq A \cup {x}, F \subseteq E \ {q}
      PROVE  Cardinality(B) + Cardinality(F) <= bound
  <2>1. IsFiniteSet(A \cup {x}) /\ Cardinality(A \cup {x}) <= Cardinality(A) + 1
    BY <1>1, <1>3, FS_AddElement
  <2>2. IsFiniteSet(E \ {q}) /\ Cardinality(E \ {q}) = Cardinality(E) - 1
    BY <1>2, FS_RemoveElement
  <2>3. Cardinality(B) <= Cardinality(A \cup {x}) /\ Cardinality(A \cup {x}) \in Nat
    BY <1>5, <2>1, FS_Subset, FS_CardinalityType
  <2>4. Cardinality(F) <= Cardinality(E \ {q})
    BY <1>5, <2>2, FS_Subset
  <2> QED  BY <1>3, <2>1, <2>2, <2>3, <2>4
<1>6. CASE Cardinality(A) < max /\ B \subseteq A
  <2>1. Cardinality(B) <= Cardinality(A)
    BY <1>1, <1>6, FS_Subset
  <2> QED  BY <1>3, <1>6, <2>1
<1>7. ASSUME NEW x \in T, NEW q \in R, B \subseteq {x}, F \subseteq R \ {q}
      PROVE  Cardinality(B) + Cardinality(F) <= bound
  <2>1. IsFiniteSet({x}) /\ Cardinality({x}) = 1
    BY FS_Singleton
  <2>2. Cardinality(B) <= 1
    BY <1>7, <2>1, FS_Subset
  <2>3. IsFiniteSet(R \ {q}) /\ Cardinality(R \ {q}) = K - 1
    BY FS_RemoveElement
  <2>4. Cardinality(F) <= K - 1
    BY <1>7, <2>3, FS_Subset
  <2> QED  BY <1>3, <2>2, <2>4
<1>8. CASE B = {}
  BY <1>3, <1>8, FS_EmptySet
<1> QED  BY <1>4, <1>5, <1>6, <1>7, <1>8
================================================================================
