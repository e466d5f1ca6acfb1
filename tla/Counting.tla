------------------------------ MODULE Counting ------------------------------
(***************************************************************************)
(* What the proofs about reference counts have in common: induction over   *)
(* the natural numbers, and how often a value is in a list.                *)
(***************************************************************************)
EXTENDS Integers, Sequences, FiniteSets, FiniteSetTheorems, SequenceTheorems,
        WellFoundedInduction, TLAPS

-----------------------------------------------------------------------------
(* Induction over the natural numbers, for sets                            *)

\* A set of numbers has a least element
LEMMA Least ==
    ASSUME NEW T \in SUBSET Nat, T # {}
    PROVE  \E m \in T : \A j \in T : m <= j
  <1>1. IsWellFoundedOn(OpToRel(<, Nat), Nat)
    BY NatLessThanWellFounded
  <1>2. PICK m \in T : \A j \in T : <<j, m>> \notin OpToRel(<, Nat)
    BY <1>1, WFMin
  <1>3. \A j \in T : ~ (j < m)
    BY <1>2 DEF OpToRel
  <1>4. QED
    BY <1>3

\* A set with zero and the successor of each of its elements is all of them
LEMMA Induction ==
    ASSUME NEW S \in SUBSET Nat, 0 \in S, \A n \in S : n + 1 \in S
    PROVE  S = Nat
  <1>1. SUFFICES ASSUME Nat \ S # {} PROVE FALSE
    OBVIOUS
  <1>2. PICK m \in Nat \ S : \A j \in Nat \ S : m <= j
    BY <1>1, Least
  <1>3. m # 0
    OBVIOUS
  <1>4. m - 1 \in Nat /\ (m - 1) + 1 = m /\ m - 1 < m
    BY <1>3
  <1>5. m - 1 \in S
    BY <1>2, <1>4
  <1>6. QED
    BY <1>4, <1>5

-----------------------------------------------------------------------------
(* Counting                                                                *)

\* The places of a value in a list
InList(vs, i) == {k \in DOMAIN vs : vs[k] = i}

\* A set of numbers that is moved has as many elements
IsMoved(S, T, d) ==
    /\ S \in SUBSET Int /\ T \in SUBSET Int /\ d \in Int
    /\ \A k \in S : k + d \in T
    /\ \A k \in T : k - d \in S

\* Two sets of numbers that are the same but for a distance have as many
\* members.
LEMMA Moved ==
    ASSUME NEW S, NEW T, NEW d, IsMoved(S, T, d), IsFiniteSet(S)
    PROVE  IsFiniteSet(T) /\ Cardinality(T) = Cardinality(S)
  <1> USE DEF IsMoved
  <1> DEFINE f == [k \in S |-> k + d]
  <1>1. f \in [S -> T] /\ IsInjective(f)
    BY DEF IsInjective
  <1>2. ASSUME NEW t \in T PROVE \E k \in S : f[k] = t
    <2>1. t - d \in S /\ (t - d) + d = t
      OBVIOUS
    <2>2. QED
      BY <2>1
  <1>3. f \in Bijection(S, T)
    BY <1>1, <1>2 DEF Bijection, Injection, Surjection
  <1>4. ExistsBijection(S, T)
    BY <1>3 DEF ExistsBijection
  <1>5. QED
    BY <1>4, FS_Bijection

\* Two sets that have no element in common
LEMMA Together ==
    ASSUME NEW S, NEW T, IsFiniteSet(S), IsFiniteSet(T), S \cap T = {}
    PROVE  IsFiniteSet(S \cup T) /\ Cardinality(S \cup T) = Cardinality(S) + Cardinality(T)
  <1>1. Cardinality(S \cap T) = 0
    BY FS_EmptySet
  <1>2. Cardinality(S) \in Nat /\ Cardinality(T) \in Nat
    BY FS_CardinalityType
  <1>3. /\ IsFiniteSet(S \cup T)
        /\ Cardinality(S \cup T) = Cardinality(S) + Cardinality(T) - Cardinality(S \cap T)
    BY FS_Union, Zenon
  <1>4. QED
    BY <1>1, <1>2, <1>3

\* The places of a value in a list are finitely many
LEMMA ListFinite ==
    ASSUME NEW S, NEW vs \in Seq(S), NEW i
    PROVE  /\ InList(vs, i) \in SUBSET (1..Len(vs)) /\ IsFiniteSet(InList(vs, i))
           /\ Cardinality(InList(vs, i)) \in Nat
  <1>1. InList(vs, i) \in SUBSET (1..Len(vs)) /\ Len(vs) \in Nat
    BY DEF InList
  <1>2. IsFiniteSet(1..Len(vs))
    BY <1>1, FS_Interval
  <1>3. QED
    BY <1>1, <1>2, FS_Subset, FS_CardinalityType

\* A value in two lists
LEMMA CountConcat ==
    ASSUME NEW S, NEW s \in Seq(S), NEW t \in Seq(S), NEW i
    PROVE  Cardinality(InList(s \o t, i)) = Cardinality(InList(s, i)) + Cardinality(InList(t, i))
  <1> DEFINE U == {k + Len(s) : k \in InList(t, i)}
  <1>1. /\ InList(s, i) \in SUBSET (1..Len(s)) /\ IsFiniteSet(InList(s, i))
        /\ InList(t, i) \in SUBSET (1..Len(t)) /\ IsFiniteSet(InList(t, i))
        /\ Len(s) \in Nat /\ Len(t) \in Nat
    BY ListFinite
  <1>2. IsMoved(InList(t, i), U, Len(s))
    BY <1>1 DEF IsMoved
  <1>3. IsFiniteSet(U) /\ Cardinality(U) = Cardinality(InList(t, i))
    <2> HIDE DEF U
    <2>1. QED
      BY <1>1, <1>2, Moved
  <1>4. InList(s, i) \cap U = {}
    BY <1>1
  <1>5. InList(s \o t, i) = InList(s, i) \cup U
    <2>1. DOMAIN (s \o t) = 1..(Len(s) + Len(t)) /\ DOMAIN s = 1..Len(s) /\ DOMAIN t = 1..Len(t)
      OBVIOUS
    <2>2. \A k \in 1..Len(s) : (s \o t)[k] = s[k]
      OBVIOUS
    <2>3. \A k \in 1..Len(t) : (s \o t)[k + Len(s)] = t[k]
      OBVIOUS
    <2>4. ASSUME NEW k \in InList(s \o t, i) PROVE k \in InList(s, i) \cup U
      <3>1. k \in 1..(Len(s) + Len(t)) /\ (s \o t)[k] = i
        BY <2>1 DEF InList
      <3>2. CASE k <= Len(s)
        <4>1. k \in 1..Len(s)
          BY <1>1, <3>1, <3>2
        <4>2. QED
          BY <2>1, <2>2, <3>1, <4>1 DEF InList
      <3>3. CASE k > Len(s)
        <4>1. k - Len(s) \in 1..Len(t) /\ (k - Len(s)) + Len(s) = k
          BY <1>1, <3>1, <3>3
        <4>2. k - Len(s) \in InList(t, i)
          BY <2>1, <2>3, <3>1, <4>1 DEF InList
        <4>3. QED
          BY <4>1, <4>2
      <3>4. QED
        BY <1>1, <3>1, <3>2, <3>3
    <2>5. ASSUME NEW k \in InList(s, i) PROVE k \in InList(s \o t, i)
      BY <1>1, <2>1, <2>2 DEF InList
    <2>6. ASSUME NEW k \in InList(t, i) PROVE k + Len(s) \in InList(s \o t, i)
      BY <1>1, <2>1, <2>3 DEF InList
    <2>7. QED
      BY <2>4, <2>5, <2>6
  <1>6. QED
    BY <1>1, <1>3, <1>4, <1>5, Together

\* A value in a list and in its tail
LEMMA CountTail ==
    ASSUME NEW S, NEW vs \in Seq(S), vs # <<>>, NEW i
    PROVE  Cardinality(InList(vs, i))
           = Cardinality(InList(Tail(vs), i)) + (IF Head(vs) = i THEN 1 ELSE 0)
  <1> DEFINE U == {k + 1 : k \in InList(Tail(vs), i)}
  <1>1. Tail(vs) \in Seq(S) /\ Len(vs) \in Nat /\ Len(vs) # 0 /\ Len(Tail(vs)) = Len(vs) - 1
    OBVIOUS
  <1>2. /\ InList(vs, i) \in SUBSET (1..Len(vs)) /\ IsFiniteSet(InList(vs, i))
        /\ InList(Tail(vs), i) \in SUBSET (1..(Len(vs) - 1)) /\ IsFiniteSet(InList(Tail(vs), i))
        /\ Cardinality(InList(Tail(vs), i)) \in Nat /\ Cardinality(InList(vs, i)) \in Nat
    BY <1>1, ListFinite
  <1>3. IsMoved(InList(Tail(vs), i), U, 1)
    BY <1>1, <1>2 DEF IsMoved
  <1>4. IsFiniteSet(U) /\ Cardinality(U) = Cardinality(InList(Tail(vs), i))
    <2> HIDE DEF U
    <2>1. QED
      BY <1>2, <1>3, Moved
  <1>5. 1 \notin U
    BY <1>1, <1>2
  <1>6. InList(vs, i) = IF Head(vs) = i THEN U \cup {1} ELSE U
    <2>1. DOMAIN vs = 1..Len(vs) /\ DOMAIN Tail(vs) = 1..(Len(vs) - 1) /\ Head(vs) = vs[1]
      OBVIOUS
    <2>2. \A k \in 1..(Len(vs) - 1) : Tail(vs)[k] = vs[k + 1]
      OBVIOUS
    <2>3. ASSUME NEW k \in InList(vs, i), k # 1 PROVE k \in U
      <3>1. k \in 1..Len(vs) /\ vs[k] = i
        BY <2>1 DEF InList
      <3>2. k - 1 \in 1..(Len(vs) - 1) /\ (k - 1) + 1 = k
        BY <1>1, <2>3, <3>1
      <3>3. k - 1 \in InList(Tail(vs), i)
        BY <2>1, <2>2, <3>1, <3>2 DEF InList
      <3>4. QED
        BY <3>2, <3>3
    <2>4. ASSUME NEW k \in InList(Tail(vs), i) PROVE k + 1 \in InList(vs, i)
      BY <1>1, <1>2, <2>1, <2>2 DEF InList
    <2>5. 1 \in InList(vs, i) <=> Head(vs) = i
      BY <1>1, <2>1 DEF InList
    <2>6. QED
      BY <2>3, <2>4, <2>5
  <1>7. Cardinality(U \cup {1}) = Cardinality(U) + 1
    BY <1>4, <1>5, FS_AddElement
  <1>8. QED
    BY <1>2, <1>4, <1>6, <1>7

\* The head and the tail of a list
LEMMA HeadAndTail ==
    ASSUME NEW S, NEW vs \in Seq(S), vs # <<>>
    PROVE  /\ Tail(vs) \in Seq(S) /\ Head(vs) \in S
           /\ Len(vs) \in Nat /\ Len(vs) > 0 /\ Len(Tail(vs)) = Len(vs) - 1
  OBVIOUS
=============================================================================
