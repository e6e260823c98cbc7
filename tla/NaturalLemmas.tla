---------------------------- MODULE NaturalLemmas ----------------------------
(***************************************************************************)
(* Induction over the natural numbers in a form that needs no operator as  *)
(* a parameter: a set of naturals has a least element, and a set that      *)
(* holds 0 and every successor is the whole of Nat.                        *)
(***************************************************************************)
EXTENDS Naturals, Integers, FiniteSetTheorems, TLAPS

\* The first n naturals are n.
LEMMA FirstNaturals ==
  ASSUME NEW n \in Nat
  PROVE  IsFiniteSet(0 .. (n - 1)) /\ Cardinality(0 .. (n - 1)) = n
<1>1. 0 \in Int /\ n - 1 \in Int
  OBVIOUS
<1>2. IsFiniteSet(0 .. (n - 1)) /\ Cardinality(0 .. (n - 1)) = IF 0 > n - 1 THEN 0 ELSE (n - 1) - 0 + 1
  BY <1>1, FS_Interval
<1> QED
  BY <1>2

\* By counting: the naturals below every element of T are as many as the least one.
LEMMA LeastNatural ==
  ASSUME NEW T \in SUBSET Nat, T # {}
  PROVE  \E n \in T : \A m \in T : n <= m
<1>1. PICK top \in T : TRUE
  OBVIOUS
<1> DEFINE Below == {m \in 0 .. (top - 1) : \A i \in 0 .. m : i \notin T}
           c == Cardinality(Below)
<1>2. IsFiniteSet(0 .. (top - 1)) /\ Cardinality(0 .. (top - 1)) = top
  BY FirstNaturals
<1>3. IsFiniteSet(Below) /\ c \in Nat
  BY <1>2, FS_Subset, FS_CardinalityType
<1>4. ASSUME NEW m \in Below
      PROVE  m \in 0 .. (c - 1)
  <2>1. 0 .. m \subseteq Below
    OBVIOUS
  <2>2. m + 1 \in Nat /\ (m + 1) - 1 = m
    OBVIOUS
  <2>3. Cardinality(0 .. m) = m + 1
    BY <2>2, FirstNaturals
  <2>4. m + 1 <= c
    BY <2>1, <2>3, <1>3, FS_Subset
  <2> QED
    BY <2>4, <1>3
<1>5. Below = 0 .. (c - 1)
  <2>1. IsFiniteSet(0 .. (c - 1)) /\ Cardinality(0 .. (c - 1)) = c
    BY <1>3, FirstNaturals
  <2>2. Below \in SUBSET (0 .. (c - 1))
    BY <1>4
  <2> QED
    BY <2>1, <2>2, FS_Subset
<1>6. \A m \in Nat : m \in Below <=> m < c
  <2> HIDE DEF Below, c
  <2> QED
    BY <1>3, <1>5
<1>7. c \in Nat
  BY <1>3
<1> HIDE DEF c
<1>8. \A i \in Nat : i < c => i \notin T
  BY <1>6
<1>9. c <= top
  BY <1>7, <1>8
<1>10. c \in T
  <2>1. CASE c = top
    BY <2>1
  <2>2. CASE c < top
    <3>1. c \notin Below
      BY <1>6, <1>7
    <3>2. \E i \in 0 .. c : i \in T
      BY <3>1, <2>2, <1>7
    <3> QED
      BY <3>2, <1>8, <1>7
  <2> QED
    BY <2>1, <2>2, <1>7, <1>9
<1> QED
  BY <1>7, <1>8, <1>10

\* Induction: a counterexample would have a least one.
LEMMA SetInduction ==
  ASSUME NEW T \in SUBSET Nat, 0 \in T, \A n \in T : n + 1 \in T
  PROVE  T = Nat
<1> DEFINE U == Nat \ T
<1>1. SUFFICES ASSUME U # {}
               PROVE  FALSE
  OBVIOUS
<1>2. PICK n \in U : \A m \in U : n <= m
  <2>1. U \in SUBSET Nat
    OBVIOUS
  <2> HIDE DEF U
  <2> QED
    BY <2>1, <1>1, LeastNatural
<1>3. n - 1 \in Nat /\ n - 1 \notin U
  BY <1>2
<1> QED
  BY <1>2, <1>3
=============================================================================
