--------------------------- MODULE ObjectsCounts ---------------------------
(***************************************************************************)
(* Proofs about the references to the instances of module Objects: that    *)
(* none is destroyed too early and none is kept too long, for any          *)
(* programs, any number of instances, activations, operands and calls from *)
(* the host.                                                               *)
(***************************************************************************)
EXTENDS ObjectsProofs

-----------------------------------------------------------------------------
(* Lists of references                                                     *)

\* How often a value is in a list
LEMMA CountIs ==
    ASSUME NEW S, NEW vs \in Seq(S), NEW i
    PROVE  /\ Count(i, vs) \in Nat
           /\ \A k \in 1..Len(vs) : vs[k] = i => Count(i, vs) >= 1
           /\ (\A k \in 1..Len(vs) : vs[k] # i) => Count(i, vs) = 0
  <1> DEFINE T == At(i, vs)
  <1>1. DOMAIN vs = 1..Len(vs) /\ T = InList(vs, i)
    BY DEF At, InList
  <1>2. IsFiniteSet(T) /\ Cardinality(T) \in Nat
    BY <1>1, ListFinite
  <1>3. Count(i, vs) = Cardinality(T)
    BY DEF Count
  <1>4. ASSUME NEW k \in 1..Len(vs), vs[k] = i PROVE Count(i, vs) >= 1
    <2>1. T # {}
      BY <1>1, <1>4 DEF At
    <2> HIDE DEF T
    <2>2. Cardinality(T) # 0
      BY <1>2, <2>1, FS_EmptySet
    <2>3. QED
      BY <1>2, <1>3, <2>2
  <1>5. ASSUME \A k \in 1..Len(vs) : vs[k] # i PROVE Count(i, vs) = 0
    <2>1. T = {}
      BY <1>1, <1>5 DEF At
    <2>2. QED
      BY <1>3, <2>1, FS_EmptySet
  <1>6. QED
    BY <1>2, <1>3, <1>4, <1>5

\* In two lists, one after the other
LEMMA CountTwo ==
    ASSUME NEW S, NEW q \in Seq(S), NEW r \in Seq(S), NEW i
    PROVE  Count(i, q \o r) = Count(i, q) + Count(i, r)
  <1>1. At(i, q \o r) = InList(q \o r, i) /\ At(i, q) = InList(q, i) /\ At(i, r) = InList(r, i)
    BY DEF At, InList
  <1>2. Cardinality(InList(q \o r, i)) = Cardinality(InList(q, i)) + Cardinality(InList(r, i))
    BY CountConcat
  <1>3. QED
    BY <1>1, <1>2 DEF Count

\* In a list of one, and in none
LEMMA CountOne ==
    ASSUME NEW v, NEW i
    PROVE  Count(i, <<v>>) = (IF v = i THEN 1 ELSE 0) /\ Count(i, <<>>) = 0
  <1>1. At(i, <<>>) = {} /\ At(i, <<v>>) = IF v = i THEN {1} ELSE {}
    BY DEF At
  <1>2. Cardinality({1}) = 1
    BY FS_Singleton
  <1>3. Cardinality({}) = 0
    BY FS_EmptySet
  <1>4. QED
    BY <1>1, <1>2, <1>3 DEF Count

\* In a list and its tail
LEMMA CountRest ==
    ASSUME NEW S, NEW vs \in Seq(S), vs # <<>>, NEW i
    PROVE  Count(i, vs) = Count(i, Tail(vs)) + (IF Head(vs) = i THEN 1 ELSE 0)
  <1>1. At(i, vs) = InList(vs, i) /\ At(i, Tail(vs)) = InList(Tail(vs), i)
    BY DEF At, InList
  <1>2. Cardinality(InList(vs, i)) = Cardinality(InList(Tail(vs), i)) + (IF Head(vs) = i THEN 1 ELSE 0)
    BY CountTail
  <1>3. QED
    BY <1>1, <1>2 DEF Count

\* In the two parts of a list
LEMMA CountParts ==
    ASSUME NEW S, NEW q \in Seq(S), NEW a \in 0..Len(q), NEW i
    PROVE  Count(i, q) = Count(i, SubSeq(q, 1, a)) + Count(i, SubSeq(q, a + 1, Len(q)))
  <1>1. SubSeq(q, 1, a) \in Seq(S) /\ SubSeq(q, a + 1, Len(q)) \in Seq(S)
    BY Slices
  <1>2. q = SubSeq(q, 1, a) \o SubSeq(q, a + 1, Len(q))
    <2>1. PICK l, u : l = SubSeq(q, 1, a) /\ u = SubSeq(q, a + 1, Len(q))
      OBVIOUS
    <2>2. Len(l) = a /\ \A k \in 1..a : l[k] = q[k]
      BY <2>1, Slices
    <2>3. Len(u) = Len(q) - a /\ \A k \in 1..(Len(q) - a) : u[k] = q[k + a]
      BY <2>1
    <2>4. l \in Seq(S) /\ u \in Seq(S) /\ Len(q) \in Nat /\ a \in Nat /\ a <= Len(q)
      BY <1>1, <2>1
    <2>5. /\ l \o u \in Seq(S) /\ Len(l \o u) = Len(l) + Len(u)
          /\ \A k \in 1..Len(l) : (l \o u)[k] = l[k]
          /\ \A k \in 1..Len(u) : (l \o u)[Len(l) + k] = u[k]
      BY <2>4, Joined
    <2>6. l \o u = q
      <3>1. PICK w : w = l \o u
        OBVIOUS
      <3>2. w \in Seq(S) /\ Len(w) = Len(q)
        BY <2>2, <2>3, <2>4, <2>5, <3>1
      <3>3. ASSUME NEW k \in 1..Len(q) PROVE w[k] = q[k]
        <4>1. CASE k <= a
          BY <2>2, <2>4, <2>5, <3>1, <4>1
        <4>2. CASE k > a
          <5>1. PICK j : j = k - a
            OBVIOUS
          <5>2. j \in 1..(Len(q) - a) /\ j + a = k /\ a + j = k
            BY <2>4, <4>2, <5>1
          <5>3. w[a + j] = u[j]
            BY <2>2, <2>3, <2>5, <3>1, <5>2
          <5>4. QED
            BY <2>3, <5>2, <5>3
        <4>3. QED
          BY <2>4, <4>1, <4>2
      <3>4. w = q
        BY <3>2, <3>3
      <3>5. QED
        BY <3>1, <3>4
    <2>7. QED
      BY <2>1, <2>6
  <1>3. QED
    BY <1>1, <1>2, CountTwo

\* In all but the last value of a list, and in a list with one more
LEMMA CountFront ==
    ASSUME NEW S, NEW q \in Seq(S), q # <<>>, NEW i
    PROVE  Count(i, q) = Count(i, Front(q)) + (IF q[Len(q)] = i THEN 1 ELSE 0)
  <1>1. Len(q) \in Nat /\ Len(q) >= 1
    OBVIOUS
  <1>2. PICK a : a = Len(q) - 1
    OBVIOUS
  <1>3. a \in 0..Len(q) /\ a + 1 = Len(q)
    BY <1>1, <1>2
  <1>4. Count(i, q) = Count(i, SubSeq(q, 1, a)) + Count(i, SubSeq(q, a + 1, Len(q)))
    BY <1>3, CountParts
  <1>5. SubSeq(q, a + 1, Len(q)) = <<q[Len(q)]>>
    <2>1. PICK u : u = SubSeq(q, Len(q), Len(q))
      OBVIOUS
    <2>2. u \in Seq(S) /\ Len(u) = 1 /\ u[1] = q[Len(q)]
      BY <1>1, <2>1
    <2>3. u = <<q[Len(q)]>>
      BY <2>2
    <2>4. QED
      BY <1>3, <2>1, <2>3
  <1>6. Front(q) = SubSeq(q, 1, a)
    BY <1>2 DEF Front
  <1>7. QED
    BY <1>4, <1>5, <1>6, CountOne

\* A value is appended.
LEMMA CountAppend ==
    ASSUME NEW S, NEW q \in Seq(S), NEW v \in S, NEW i
    PROVE  Count(i, Append(q, v)) = Count(i, q) + (IF v = i THEN 1 ELSE 0)
  <1>1. Append(q, v) = q \o <<v>> /\ <<v>> \in Seq(S)
    OBVIOUS
  <1>2. Count(i, q \o <<v>>) = Count(i, q) + Count(i, <<v>>)
    BY <1>1, CountTwo
  <1>3. QED
    BY <1>1, <1>2, CountOne

-----------------------------------------------------------------------------
(* References in fields                                                    *)

\* The places of i among the fields, but for those in P, and the fields of one
\* instance
FieldPlaces(h, i, P) == {p \in FieldsIn(h) \ P : h[p[1]].fields[p[2]] = i}
InFields(h, i, P)    == Cardinality(FieldPlaces(h, i, P))
Row(h, v)            == {v} \X (1..Len(h[v].fields))

\* A place is an instance and the number of a field
LEMMA PlaceIs ==
    ASSUME NEW C, NEW n \in Nat, NEW h \in Heaps(C, n)
    PROVE  /\ \A w \in 1..n : \A k \in 1..Len(h[w].fields) : <<w, k>> \in FieldsIn(h)
           /\ \A p \in FieldsIn(h) : /\ p[1] \in 1..n /\ p[2] \in 1..Len(h[p[1]].fields)
                                     /\ p = <<p[1], p[2]>>
           /\ \A w \in 1..n : Len(h[w].fields) \in Nat /\ DOMAIN h[w].fields = 1..Len(h[w].fields)
  <1>1. DOMAIN h = 1..n /\ \A w \in 1..n : h[w].fields \in Seq(0..n)
    BY HeapTypes
  <1>2. \A w \in 1..n : Len(h[w].fields) \in Nat /\ DOMAIN h[w].fields = 1..Len(h[w].fields)
    <2> TAKE w \in 1..n
    <2>1. PICK q \in Seq(0..n) : q = h[w].fields
      BY <1>1
    <2>2. Len(q) \in Nat /\ DOMAIN q = 1..Len(q)
      OBVIOUS
    <2>3. QED
      BY <2>1, <2>2
  <1>3. ASSUME NEW w \in 1..n, NEW k \in 1..Len(h[w].fields) PROVE <<w, k>> \in FieldsIn(h)
    BY <1>1, <1>2 DEF FieldsIn
  <1>4. ASSUME NEW p \in FieldsIn(h)
        PROVE  p[1] \in 1..n /\ p[2] \in 1..Len(h[p[1]].fields) /\ p = <<p[1], p[2]>>
    <2>1. PICK w \in 1..n : p \in {w} \X (DOMAIN h[w].fields)
      BY <1>1 DEF FieldsIn
    <2>2. PICK k \in DOMAIN h[w].fields : p = <<w, k>>
      BY <2>1
    <2>3. QED
      BY <1>2, <2>2
  <1>5. QED
    BY <1>2, <1>3, <1>4

\* They are finitely many
LEMMA FieldCount ==
    ASSUME NEW C, NEW n \in Nat, NEW h \in Heaps(C, n), NEW i, NEW P
    PROVE  /\ InFields(h, i, P) \in Nat /\ IsFiniteSet(FieldPlaces(h, i, P))
           /\ \A w \in 1..n : \A k \in 1..Len(h[w].fields) :
                 h[w].fields[k] = i /\ <<w, k>> \notin P => InFields(h, i, P) >= 1
  <1>1. <<>> \in Seq(0..n)
    OBVIOUS
  <1>2. IsFiniteSet(FieldsIn(h))
    BY <1>1, WorkNat
  <1>3. IsFiniteSet(FieldPlaces(h, i, P))
    <2>1. FieldPlaces(h, i, P) \subseteq FieldsIn(h)
      BY DEF FieldPlaces
    <2>2. QED
      BY <1>2, <2>1, FS_Subset
  <1>4. InFields(h, i, P) \in Nat
    BY <1>3, FS_CardinalityType DEF InFields
  <1>5. ASSUME NEW w \in 1..n, NEW k \in 1..Len(h[w].fields), h[w].fields[k] = i, <<w, k>> \notin P
        PROVE  InFields(h, i, P) >= 1
    <2>1. <<w, k>> \in FieldsIn(h)
      BY PlaceIs
    <2>2. PICK p : p = <<w, k>>
      OBVIOUS
    <2>3. p[1] = w /\ p[2] = k
      BY <2>2
    <2>4. p \in FieldPlaces(h, i, P)
      BY <1>5, <2>1, <2>2, <2>3 DEF FieldPlaces
    <2>5. InFields(h, i, P) # 0
      BY <1>3, <2>4, FS_EmptySet DEF InFields
    <2>6. QED
      BY <1>4, <2>5
  <1>6. QED
    BY <1>3, <1>4, <1>5

\* The references in the fields of one instance, and in the others
LEMMA RowCount ==
    ASSUME NEW C, NEW n \in Nat, NEW h \in Heaps(C, n), NEW i, NEW P, NEW v \in 1..n,
           P \cap Row(h, v) = {}
    PROVE  InFields(h, i, P) = InFields(h, i, P \cup Row(h, v)) + Count(i, h[v].fields)
  <1> DEFINE A == FieldPlaces(h, i, P)
             B == FieldPlaces(h, i, P \cup Row(h, v))
             T == At(i, h[v].fields)
             U == {v} \X T
  <1>1. h[v].fields \in Seq(0..n)
    BY HeapTypes
  <1>2. PICK f \in Seq(0..n) : f = h[v].fields
    BY <1>1
  <1>3. T = InList(f, i) /\ Len(f) \in Nat /\ DOMAIN f = 1..Len(f)
    BY <1>2 DEF At, InList
  <1>4. IsFiniteSet(T) /\ Cardinality(T) \in Nat /\ T \subseteq 1..Len(f)
    BY <1>3, ListFinite
  <1>5. IsFiniteSet(U) /\ Cardinality(U) = Cardinality(T)
    <2> HIDE DEF T
    <2>1. IsFiniteSet({v}) /\ Cardinality({v}) = 1
      BY FS_Singleton
    <2>2. IsFiniteSet(U) /\ Cardinality(U) = Cardinality({v}) * Cardinality(T)
      BY <1>4, <2>1, FS_Product
    <2>3. QED
      BY <1>4, <2>1, <2>2
  <1>6. IsFiniteSet(B) /\ IsFiniteSet(A)
    BY FieldCount
  <1>7. B \cap U = {}
    <2>1. U \subseteq Row(h, v)
      BY <1>2, <1>4 DEF Row
    <2>2. QED
      BY <2>1 DEF FieldPlaces
  <1>8. A = B \cup U
    <2>1. ASSUME NEW p \in A PROVE p \in B \cup U
      <3>1. /\ p \in FieldsIn(h) \ P /\ h[p[1]].fields[p[2]] = i
            /\ p[1] \in 1..n /\ p[2] \in 1..Len(h[p[1]].fields) /\ p = <<p[1], p[2]>>
        BY PlaceIs DEF FieldPlaces
      <3>2. CASE p[1] = v
        <4>1. p[2] \in T
          BY <1>2, <1>3, <3>1, <3>2 DEF At
        <4>2. QED
          BY <3>1, <3>2, <4>1
      <3>3. CASE p[1] # v
        <4>1. p \notin Row(h, v)
          BY <3>3 DEF Row
        <4>2. QED
          BY <3>1, <4>1 DEF FieldPlaces
      <3>4. QED
        BY <3>2, <3>3
    <2>2. B \subseteq A
      BY DEF FieldPlaces
    <2>3. ASSUME NEW k \in T PROVE <<v, k>> \in A
      <3>1. k \in 1..Len(h[v].fields) /\ h[v].fields[k] = i
        BY <1>2, <1>4 DEF At
      <3>2. PICK p : p = <<v, k>>
        OBVIOUS
      <3>3. p[1] = v /\ p[2] = k /\ p \in Row(h, v) /\ p \in FieldsIn(h)
        BY <3>1, <3>2, PlaceIs DEF Row
      <3>4. p \notin P
        BY <3>3
      <3>5. QED
        BY <3>1, <3>2, <3>3, <3>4 DEF FieldPlaces
    <2> HIDE DEF A, B, T
    <2>4. U \subseteq A
      BY <2>3
    <2>5. QED
      BY <2>1, <2>2, <2>4
  <1>9. Cardinality(A) = Cardinality(B) + Cardinality(U)
    <2> HIDE DEF A, B, U
    <2>1. QED
      BY <1>5, <1>6, <1>7, <1>8, Together
  <1>10. QED
    BY <1>5, <1>9 DEF InFields, Count

\* Whether an instance lives, whether all its fields are plain, and its count
Alive(h, i)   == h[i].live
Emptied(h, i) == \A k \in 1..Len(h[i].fields) : h[i].fields[k] = Plain
Tally(h, i)   == h[i].refcount

\* An instance that is destroyed, and one that has a reference less
LEMMA GoneIs ==
    ASSUME NEW C, NEW n \in Nat, NEW h \in Heaps(C, n), NEW v \in 1..n
    PROVE  /\ Gone(h, v) \in Heaps(C, n)
           /\ \A w \in 1..n : w # v => Gone(h, v)[w] = h[w]
           /\ ~Alive(Gone(h, v), v) /\ Emptied(Gone(h, v), v)
           /\ \A w \in 1..n : w # v => /\ Alive(Gone(h, v), w) <=> Alive(h, w)
                                       /\ Tally(Gone(h, v), w) = Tally(h, w)
                                       /\ Emptied(h, w) => Emptied(Gone(h, v), w)
           /\ Len(Gone(h, v)[v].fields) = Len(h[v].fields)
           /\ \A k \in 1..Len(h[v].fields) : Gone(h, v)[v].fields[k] = Plain
  <1>1. Gone(h, v) \in Heaps(C, n)
    BY LessTypes
  <1>2. v \in DOMAIN h /\ DOMAIN h = 1..n
    BY HeapTypes
  <1>3. PICK b : b = Bare(h[v])
    OBVIOUS
  <1>4. Gone(h, v) = [h EXCEPT ![v] = b]
    BY <1>3 DEF Gone
  <1>5. Gone(h, v)[v] = b /\ \A w \in 1..n : w # v => Gone(h, v)[w] = h[w]
    BY <1>2, <1>4
  <1>6. b.live = FALSE
    BY <1>3 DEF Bare
  <1>7. b.fields = [k \in DOMAIN h[v].fields |-> Plain]
    BY <1>3 DEF Bare
  <1>8. Len(b.fields) = Len(h[v].fields) /\ \A k \in 1..Len(h[v].fields) : b.fields[k] = Plain
    <2>1. PICK f, q : f = h[v].fields /\ q = b.fields
      OBVIOUS
    <2>2. f \in Seq(0..n)
      BY <2>1, HeapTypes
    <2>3. q = [k \in 1..Len(f) |-> Plain] /\ Len(f) \in Nat
      BY <1>7, <2>1, <2>2
    <2>4. Len(q) = Len(f) /\ \A k \in 1..Len(f) : q[k] = Plain
      BY <2>3
    <2>5. QED
      BY <2>1, <2>4
  <1>9. Gone(h, v)[v].fields = b.fields /\ ~Gone(h, v)[v].live
    BY <1>5, <1>6
  <1>10. Emptied(Gone(h, v), v)
    BY <1>8, <1>9 DEF Emptied
  <1>11. ~Alive(Gone(h, v), v)
    BY <1>9 DEF Alive
  <1>12. ASSUME NEW w \in 1..n, w # v
         PROVE  /\ Alive(Gone(h, v), w) <=> Alive(h, w)
                /\ Tally(Gone(h, v), w) = Tally(h, w)
                /\ Emptied(h, w) => Emptied(Gone(h, v), w)
    <2>1. Gone(h, v)[w] = h[w]
      BY <1>5, <1>12
    <2>2. QED
      BY <2>1, Zenon DEF Alive, Tally, Emptied
  <1>13. QED
    BY <1>1, <1>5, <1>8, <1>9, <1>10, <1>11, <1>12

\* One reference less, and all else as before
LEMMA LessIs ==
    ASSUME NEW C, NEW n \in Nat, NEW h \in Heaps(C, n), NEW v \in 1..n
    PROVE  /\ Less(h, v) \in Heaps(C, n)
           /\ \A w \in 1..n : w # v => Less(h, v)[w] = h[w]
           /\ \A w \in 1..n : /\ Alive(Less(h, v), w) <=> Alive(h, w)
                              /\ Less(h, v)[w].fields = h[w].fields
           /\ \A w \in 1..n : w # v => Tally(Less(h, v), w) = Tally(h, w)
           /\ Tally(Less(h, v), v) = Tally(h, v) - 1
  <1>1. Less(h, v) \in Heaps(C, n)
    BY LessTypes
  <1>2. v \in DOMAIN h /\ DOMAIN h = 1..n /\ h[v] \in Insts(C, n) /\ h[v].refcount - 1 \in Int
    BY HeapTypes
  <1>3. PICK y : y = [h[v] EXCEPT !.refcount = @ - 1]
    OBVIOUS
  <1>4. y.live = h[v].live /\ y.fields = h[v].fields /\ y.refcount = h[v].refcount - 1
    BY <1>2, <1>3, Recount
  <1>5. Less(h, v) = [h EXCEPT ![v] = y]
    BY <1>3 DEF Less
  <1>6. Less(h, v)[v] = y /\ \A w \in 1..n : w # v => Less(h, v)[w] = h[w]
    BY <1>2, <1>5
  <1>7. ASSUME NEW w \in 1..n
        PROVE  Less(h, v)[w].live = h[w].live /\ Less(h, v)[w].fields = h[w].fields
    BY <1>4, <1>6
  <1>8. \A w \in 1..n : Alive(Less(h, v), w) <=> Alive(h, w)
    BY <1>7, Zenon DEF Alive
  <1>9. \A w \in 1..n : w # v => Tally(Less(h, v), w) = Tally(h, w)
    BY <1>6 DEF Tally
  <1>10. Tally(Less(h, v), v) = Tally(h, v) - 1
    BY <1>4, <1>6 DEF Tally
  <1>11. QED
    BY <1>1, <1>6, <1>7, <1>8, <1>9, <1>10

\* The fields of two heaps that differ in one instance at most, whose fields
\* are all plain in the second, as it was destroyed
LEMMA FieldsGone ==
    ASSUME NEW C, NEW n \in Nat, NEW h \in Heaps(C, n), NEW i \in 1..n, NEW P, NEW v \in 1..n
    PROVE  InFields(Gone(h, v), i, P) = InFields(h, i, P \cup Row(h, v))
  <1> DEFINE g == Gone(h, v)
  <1>1. g \in Heaps(C, n) /\ \A w \in 1..n : w # v => g[w] = h[w]
    BY GoneIs
  <1>2. Len(g[v].fields) = Len(h[v].fields)
    BY GoneIs
  <1>3. \A k \in 1..Len(h[v].fields) : g[v].fields[k] = Plain
    BY GoneIs
  <1>4. i # Plain
    BY DEF Plain
  <1>5. FieldPlaces(g, i, P) \subseteq FieldPlaces(h, i, P \cup Row(h, v))
    <2> SUFFICES ASSUME NEW p \in FieldPlaces(g, i, P) PROVE p \in FieldPlaces(h, i, P \cup Row(h, v))
      OBVIOUS
    <2>1. p \in FieldsIn(g) /\ p \notin P /\ g[p[1]].fields[p[2]] = i
      BY DEF FieldPlaces
    <2>2. p[1] \in 1..n /\ p[2] \in 1..Len(g[p[1]].fields) /\ p = <<p[1], p[2]>>
      BY <1>1, <2>1, PlaceIs
    <2>3. p[1] # v
      BY <1>2, <1>3, <1>4, <2>1, <2>2
    <2>4. g[p[1]] = h[p[1]] /\ p \notin Row(h, v)
      BY <1>1, <2>2, <2>3 DEF Row
    <2>5. p \in FieldsIn(h)
      BY <2>2, <2>4, PlaceIs
    <2>6. QED
      BY <2>1, <2>4, <2>5 DEF FieldPlaces
  <1>6. FieldPlaces(h, i, P \cup Row(h, v)) \subseteq FieldPlaces(g, i, P)
    <2> SUFFICES ASSUME NEW p \in FieldPlaces(h, i, P \cup Row(h, v)) PROVE p \in FieldPlaces(g, i, P)
      OBVIOUS
    <2>1. p \in FieldsIn(h) /\ p \notin P /\ p \notin Row(h, v) /\ h[p[1]].fields[p[2]] = i
      BY DEF FieldPlaces
    <2>2. p[1] \in 1..n /\ p[2] \in 1..Len(h[p[1]].fields) /\ p = <<p[1], p[2]>>
      BY <2>1, PlaceIs
    <2>3. p[1] # v
      BY <2>1, <2>2 DEF Row
    <2>4. g[p[1]] = h[p[1]]
      BY <1>1, <2>2, <2>3
    <2>5. p \in FieldsIn(g)
      BY <1>1, <2>2, <2>4, PlaceIs
    <2>6. QED
      BY <2>1, <2>4, <2>5 DEF FieldPlaces
  <1>7. QED
    BY <1>5, <1>6 DEF InFields

\* Heaps whose instances have the same fields
LEMMA FieldsSame ==
    ASSUME NEW C, NEW n \in Nat, NEW h \in Heaps(C, n), NEW g \in Heaps(C, n), NEW i, NEW P,
           \A w \in 1..n : g[w].fields = h[w].fields
    PROVE  InFields(g, i, P) = InFields(h, i, P)
  <1>1. FieldPlaces(g, i, P) \subseteq FieldPlaces(h, i, P)
    <2> SUFFICES ASSUME NEW p \in FieldPlaces(g, i, P) PROVE p \in FieldPlaces(h, i, P)
      OBVIOUS
    <2>1. p \in FieldsIn(g) /\ p \notin P /\ g[p[1]].fields[p[2]] = i
      BY DEF FieldPlaces
    <2>2. p[1] \in 1..n /\ p[2] \in 1..Len(g[p[1]].fields) /\ p = <<p[1], p[2]>>
      BY <2>1, PlaceIs
    <2>3. p \in FieldsIn(h)
      BY <2>2, PlaceIs
    <2>4. QED
      BY <2>1, <2>2, <2>3 DEF FieldPlaces
  <1>2. FieldPlaces(h, i, P) \subseteq FieldPlaces(g, i, P)
    <2> SUFFICES ASSUME NEW p \in FieldPlaces(h, i, P) PROVE p \in FieldPlaces(g, i, P)
      OBVIOUS
    <2>1. p \in FieldsIn(h) /\ p \notin P /\ h[p[1]].fields[p[2]] = i
      BY DEF FieldPlaces
    <2>2. p[1] \in 1..n /\ p[2] \in 1..Len(h[p[1]].fields) /\ p = <<p[1], p[2]>>
      BY <2>1, PlaceIs
    <2>3. p \in FieldsIn(g)
      BY <2>2, PlaceIs
    <2>4. QED
      BY <2>1, <2>2, <2>3 DEF FieldPlaces
  <1>3. FieldPlaces(g, i, P) = FieldPlaces(h, i, P)
    BY <1>1, <1>2, Zenon
  <1>4. QED
    BY <1>3 DEF InFields

-----------------------------------------------------------------------------
(* What is counted                                                         *)

\* The references to i: those from outside of the heap, by o, those on a list
\* of values that are to be cleared, and those in fields, but for the fields P
Total(h, o, P, vs, i) == o[i] + Count(i, vs) + InFields(h, i, P)

\* The count of a living instance is the number of references to it, and there
\* is one; a destroyed one has none and refers to none.
Owed(n, h, o, P, vs) ==
    \A i \in 1..n :
        IF Alive(h, i) THEN Tally(h, i) = Total(h, o, P, vs, i) /\ Tally(h, i) > 0
        ELSE Total(h, o, P, vs, i) = 0 /\ Emptied(h, i)

\* The instances with fields in P have references from outside.
Anchored(n, h, o, P) == \A p \in P : p[1] \in 1..n /\ o[p[1]] >= 1

\* A total is a number
LEMMA TotalNat ==
    ASSUME NEW C, NEW n \in Nat, NEW h \in Heaps(C, n), NEW o \in [1..n -> Nat], NEW P,
           NEW vs \in Seq(0..n), NEW i \in 1..n
    PROVE  /\ o[i] \in Nat /\ Count(i, vs) \in Nat /\ InFields(h, i, P) \in Nat
           /\ Total(h, o, P, vs, i) \in Nat
           /\ Total(h, o, P, vs, i) = o[i] + Count(i, vs) + InFields(h, i, P)
  <1>1. o[i] \in Nat
    OBVIOUS
  <1>2. Count(i, vs) \in Nat
    BY CountIs
  <1>3. InFields(h, i, P) \in Nat
    BY FieldCount
  <1>4. QED
    BY <1>1, <1>2, <1>3 DEF Total

\* A value that is plain goes
LEMMA PlainOwed ==
    ASSUME NEW C, NEW n \in Nat, NEW h \in Heaps(C, n), NEW o \in [1..n -> Nat], NEW P,
           NEW vs \in Seq(0..n), vs # <<>>, Head(vs) = Plain, Owed(n, h, o, P, vs)
    PROVE  Owed(n, h, o, P, Tail(vs))
  <1>1. ASSUME NEW i \in 1..n PROVE Total(h, o, P, Tail(vs), i) = Total(h, o, P, vs, i)
    <2>1. Count(i, vs) = Count(i, Tail(vs)) + (IF Head(vs) = i THEN 1 ELSE 0)
      BY CountRest
    <2>2. Head(vs) # i
      BY DEF Plain
    <2>3. Count(i, vs) \in Nat
      BY CountIs
    <2>4. Tail(vs) \in Seq(0..n)
      BY HeadAndTail
    <2>5. Count(i, Tail(vs)) \in Nat
      BY <2>4, CountIs
    <2>6. Count(i, vs) = Count(i, Tail(vs))
      BY <2>1, <2>2, <2>3, <2>5
    <2>7. QED
      BY <2>6 DEF Total
  <1>2. QED
    BY <1>1 DEF Owed

\* A value that is cleared is that of a living instance
LEMMA HeadLives ==
    ASSUME NEW C, NEW n \in Nat, NEW h \in Heaps(C, n), NEW o \in [1..n -> Nat], NEW P,
           NEW vs \in Seq(0..n), vs # <<>>, NEW v \in 1..n, v = Head(vs), Owed(n, h, o, P, vs)
    PROVE  /\ Alive(h, v) /\ Tally(h, v) = Total(h, o, P, vs, v) /\ Tally(h, v) > 0
           /\ Count(v, vs) = Count(v, Tail(vs)) + 1 /\ Count(v, Tail(vs)) \in Nat
           /\ \A i \in 1..n : i # v => Count(i, vs) = Count(i, Tail(vs))
  <1>1. Tail(vs) \in Seq(0..n)
    BY HeadAndTail
  <1>2. \A i \in 1..n : Count(i, vs) \in Nat /\ Count(i, Tail(vs)) \in Nat
    <2> TAKE i \in 1..n
    <2>1. Count(i, vs) \in Nat
      BY CountIs
    <2>2. Count(i, Tail(vs)) \in Nat
      BY <1>1, CountIs
    <2>3. QED
      BY <2>1, <2>2
  <1>3. \A i \in 1..n : Count(i, vs) = Count(i, Tail(vs)) + (IF Head(vs) = i THEN 1 ELSE 0)
    BY CountRest
  <1>4. Count(v, vs) = Count(v, Tail(vs)) + 1
    BY <1>3
  <1>5. \A i \in 1..n : i # v => Count(i, vs) = Count(i, Tail(vs))
    BY <1>2, <1>3
  <1>6. Total(h, o, P, vs, v) = o[v] + Count(v, vs) + InFields(h, v, P)
    BY DEF Total
  <1>7. o[v] \in Nat /\ InFields(h, v, P) \in Nat
    BY TotalNat
  <1>8. Total(h, o, P, vs, v) > 0
    <2>1. Count(v, Tail(vs)) \in Nat /\ Count(v, vs) = Count(v, Tail(vs)) + 1
      BY <1>2, <1>4
    <2>2. QED
      BY <1>6, <1>7, <2>1
  <1>9. Alive(h, v) /\ Tally(h, v) = Total(h, o, P, vs, v)
    BY <1>8 DEF Owed
  <1>10. QED
    BY <1>2, <1>4, <1>5, <1>8, <1>9

\* One whose other references stay has one reference less
LEMMA LessOwed ==
    ASSUME NEW C, NEW n \in Nat, NEW h \in Heaps(C, n), NEW o \in [1..n -> Nat], NEW P,
           NEW vs \in Seq(0..n), vs # <<>>, NEW v \in 1..n, v = Head(vs), Owed(n, h, o, P, vs),
           ~(Tally(h, v) <= 1)
    PROVE  Owed(n, Less(h, v), o, P, Tail(vs))
  <1> DEFINE g == Less(h, v)
  <1>1. Tail(vs) \in Seq(0..n)
    BY HeadAndTail
  <1>2. /\ Alive(h, v) /\ Tally(h, v) = Total(h, o, P, vs, v) /\ Tally(h, v) > 0
        /\ Count(v, vs) = Count(v, Tail(vs)) + 1 /\ Count(v, Tail(vs)) \in Nat
        /\ \A i \in 1..n : i # v => Count(i, vs) = Count(i, Tail(vs))
    BY HeadLives
  <1>3. /\ g \in Heaps(C, n) /\ \A w \in 1..n : w # v => Tally(g, w) = Tally(h, w)
        /\ \A w \in 1..n : g[w].fields = h[w].fields
        /\ Tally(g, v) = Tally(h, v) - 1
    BY LessIs
  <1>4. \A w \in 1..n : Alive(g, w) <=> Alive(h, w)
    BY LessIs
  <1>5. \A w \in 1..n : Emptied(h, w) => Emptied(g, w)
    BY <1>3 DEF Emptied
  <1>6. \A i \in 1..n : InFields(g, i, P) = InFields(h, i, P)
    BY <1>3, FieldsSame
  <1> HIDE DEF g
  <1>7. ASSUME NEW i \in 1..n, i # v PROVE Total(g, o, P, Tail(vs), i) = Total(h, o, P, vs, i)
    BY <1>2, <1>6, <1>7 DEF Total
  <1>8. Total(h, o, P, vs, v) = Total(g, o, P, Tail(vs), v) + 1
    <2>1. o[v] \in Nat /\ InFields(h, v, P) \in Nat
      BY TotalNat
    <2>2. PICK a, b, c, d : /\ a = o[v] /\ b = Count(v, vs) /\ c = Count(v, Tail(vs))
                            /\ d = InFields(h, v, P)
      OBVIOUS
    <2>3. /\ Total(h, o, P, vs, v) = a + b + d
          /\ Total(g, o, P, Tail(vs), v) = a + c + d
      BY <1>6, <2>2 DEF Total
    <2>4. a \in Nat /\ c \in Nat /\ d \in Nat /\ b = c + 1
      BY <1>2, <2>1, <2>2
    <2>5. QED
      BY <2>3, <2>4
  <1>9. Total(g, o, P, Tail(vs), v) \in Nat
    BY <1>1, <1>3, TotalNat
  <1>10. Alive(g, v) /\ Tally(g, v) = Total(g, o, P, Tail(vs), v) /\ Tally(g, v) > 0
    BY <1>2, <1>3, <1>4, <1>8, <1>9
  <1>11. ASSUME NEW i \in 1..n, i # v
         PROVE  IF Alive(g, i) THEN Tally(g, i) = Total(g, o, P, Tail(vs), i) /\ Tally(g, i) > 0
                ELSE Total(g, o, P, Tail(vs), i) = 0 /\ Emptied(g, i)
    <2>1. IF Alive(h, i) THEN Tally(h, i) = Total(h, o, P, vs, i) /\ Tally(h, i) > 0
          ELSE Total(h, o, P, vs, i) = 0 /\ Emptied(h, i)
      BY DEF Owed
    <2>2. Tally(g, i) = Tally(h, i) /\ Total(g, o, P, Tail(vs), i) = Total(h, o, P, vs, i)
      BY <1>3, <1>7, <1>11
    <2>3. QED
      BY <1>4, <1>5, <2>1, <2>2
  <1>12. Owed(n, g, o, P, Tail(vs))
    BY <1>10, <1>11 DEF Owed
  <1>13. QED
    BY <1>12 DEF g

\* One whose last reference goes is destroyed, and its fields are cleared
LEMMA GoneOwed ==
    ASSUME NEW C, NEW n \in Nat, NEW h \in Heaps(C, n), NEW o \in [1..n -> Nat], NEW P,
           NEW vs \in Seq(0..n), vs # <<>>, NEW v \in 1..n, v = Head(vs), Owed(n, h, o, P, vs),
           Tally(h, v) <= 1, Anchored(n, h, o, P)
    PROVE  Owed(n, Gone(h, v), o, P, h[v].fields \o Tail(vs))
  <1> DEFINE g == Gone(h, v)
             us == h[v].fields \o Tail(vs)
             R == P \cup Row(h, v)
  <1>1. Tail(vs) \in Seq(0..n) /\ h[v].fields \in Seq(0..n)
    BY HeadAndTail, HeapTypes
  <1>2. /\ Alive(h, v) /\ Tally(h, v) = Total(h, o, P, vs, v) /\ Tally(h, v) > 0
        /\ Count(v, vs) = Count(v, Tail(vs)) + 1 /\ Count(v, Tail(vs)) \in Nat
        /\ \A i \in 1..n : i # v => Count(i, vs) = Count(i, Tail(vs))
    BY HeadLives
  <1>3. /\ o[v] \in Nat /\ InFields(h, v, P) \in Nat
        /\ Total(h, o, P, vs, v) = o[v] + Count(v, vs) + InFields(h, v, P)
    <2>1. InFields(h, v, P) \in Nat
      BY FieldCount
    <2>2. QED
      BY <2>1 DEF Total
  <1>4. Tally(h, v) \in Int
    BY HeapTypes DEF Tally
  <1>5. o[v] = 0 /\ Count(v, Tail(vs)) = 0 /\ InFields(h, v, P) = 0
    <2>1. PICK a, b, c, d, t : /\ a = o[v] /\ b = Count(v, vs) /\ c = Count(v, Tail(vs))
                               /\ d = InFields(h, v, P) /\ t = Tally(h, v)
      OBVIOUS
    <2>2. a \in Nat /\ c \in Nat /\ d \in Nat /\ b = c + 1 /\ t \in Int /\ t <= 1
      BY <1>2, <1>3, <1>4, <2>1
    <2>3. t = a + b + d
      BY <1>2, <1>3, <2>1
    <2>4. a = 0 /\ c = 0 /\ d = 0
      BY <2>2, <2>3
    <2>5. QED
      BY <2>1, <2>4
  <1>6. P \cap Row(h, v) = {}
    BY <1>5 DEF Anchored, Row
  <1>7. us \in Seq(0..n) /\ \A i \in 1..n : Count(i, us) = Count(i, h[v].fields) + Count(i, Tail(vs))
    BY <1>1, CountTwo, ConcatProperties
  <1>8. \A i \in 1..n : InFields(h, i, P) = InFields(h, i, R) + Count(i, h[v].fields)
    <2>1. ASSUME NEW i \in 1..n
          PROVE  InFields(h, i, P) = InFields(h, i, P \cup Row(h, v)) + Count(i, h[v].fields)
      BY <1>6, RowCount
    <2>2. QED
      BY <2>1
  <1>9. \A i \in 1..n : InFields(g, i, P) = InFields(h, i, R)
    BY FieldsGone
  <1>10. /\ g \in Heaps(C, n) /\ ~Alive(g, v)
         /\ \A w \in 1..n : w # v => Tally(g, w) = Tally(h, w) /\ (Alive(g, w) <=> Alive(h, w))
         /\ \A w \in 1..n : w # v => (Emptied(h, w) => Emptied(g, w))
    <2>1. g \in Heaps(C, n)
      BY GoneIs
    <2>2. ~Alive(g, v)
      BY GoneIs
    <2>3. \A w \in 1..n : w # v => /\ Alive(g, w) <=> Alive(h, w)
                                   /\ Tally(g, w) = Tally(h, w)
                                   /\ Emptied(h, w) => Emptied(g, w)
      BY GoneIs
    <2>4. \A w \in 1..n : w # v => Tally(g, w) = Tally(h, w)
      BY <2>3
    <2>5. \A w \in 1..n : w # v => (Alive(g, w) <=> Alive(h, w))
      BY <2>3
    <2>6. \A w \in 1..n : w # v => (Emptied(h, w) => Emptied(g, w))
      BY <2>3
    <2> HIDE DEF g
    <2>7. QED
      BY <2>1, <2>2, <2>4, <2>5, <2>6
  <1>11. Emptied(g, v)
    BY GoneIs
  <1> HIDE DEF g, us, R
  <1>12. ASSUME NEW i \in 1..n
         PROVE  Total(g, o, P, us, i) = o[i] + Count(i, Tail(vs)) + InFields(h, i, P)
    <2>1. PICK a, b, c, d, e, f : /\ a = InFields(h, i, P) /\ b = InFields(h, i, R)
                                  /\ c = Count(i, h[v].fields)
                                  /\ d = Count(i, us) /\ e = Count(i, Tail(vs)) /\ f = InFields(g, i, P)
      OBVIOUS
    <2>2. a \in Nat /\ b \in Nat /\ f \in Nat
      BY <1>10, <2>1, FieldCount
    <2>3. c \in Nat /\ d \in Nat /\ e \in Nat
      BY <1>1, <1>7, <2>1, CountIs
    <2>4. a = b + c /\ f = b /\ d = c + e
      BY <1>7, <1>8, <1>9, <2>1
    <2>5. o[i] \in Nat
      OBVIOUS
    <2>6. o[i] + d + f = o[i] + e + a
      BY <2>2, <2>3, <2>4, <2>5
    <2>7. QED
      BY <2>1, <2>6 DEF Total
  <1>13. Total(g, o, P, us, v) = 0
    BY <1>5, <1>12
  <1>14. ASSUME NEW i \in 1..n, i # v
         PROVE  IF Alive(g, i) THEN Tally(g, i) = Total(g, o, P, us, i) /\ Tally(g, i) > 0
                ELSE Total(g, o, P, us, i) = 0 /\ Emptied(g, i)
    <2>1. IF Alive(h, i) THEN Tally(h, i) = Total(h, o, P, vs, i) /\ Tally(h, i) > 0
          ELSE Total(h, o, P, vs, i) = 0 /\ Emptied(h, i)
      BY DEF Owed
    <2>2. Total(g, o, P, us, i) = Total(h, o, P, vs, i)
      BY <1>2, <1>12, <1>14 DEF Total
    <2>3. QED
      BY <1>10, <1>14, <2>1, <2>2
  <1>15. Owed(n, g, o, P, us)
    BY <1>10, <1>11, <1>13, <1>14 DEF Owed
  <1>16. QED
    BY <1>15 DEF g, us

\* The fields of the living instances, and the steps that a clearing has left
Living(h)     == {p \in FieldsIn(h) : Alive(h, p[1])}
Left(h, vs)   == Len(vs) + Cardinality(Living(h))

\* They are finitely many, and none but them
LEMMA LeftNat ==
    ASSUME NEW C, NEW n \in Nat, NEW h \in Heaps(C, n), NEW vs \in Seq(0..n)
    PROVE  /\ IsFiniteSet(Living(h)) /\ Left(h, vs) \in Nat /\ Cardinality(Living(h)) \in Nat
           /\ Left(h, vs) <= Len(vs) + Cardinality(FieldsIn(h))
  <1>1. IsFiniteSet(FieldsIn(h))
    BY WorkNat
  <1>2. Living(h) \subseteq FieldsIn(h)
    BY DEF Living
  <1>3. IsFiniteSet(Living(h)) /\ Cardinality(Living(h)) <= Cardinality(FieldsIn(h))
    BY <1>1, <1>2, FS_Subset
  <1>4. Cardinality(Living(h)) \in Nat /\ Cardinality(FieldsIn(h)) \in Nat
    BY <1>1, <1>3, FS_CardinalityType
  <1>5. Len(vs) \in Nat
    OBVIOUS
  <1>6. QED
    BY <1>3, <1>4, <1>5 DEF Left

\* A step with no instance destroyed leaves one less
LEMMA LeftLess ==
    ASSUME NEW C, NEW n \in Nat, NEW h \in Heaps(C, n), NEW g \in Heaps(C, n),
           NEW vs \in Seq(0..n), vs # <<>>,
           \A w \in 1..n : g[w].fields = h[w].fields /\ (Alive(g, w) <=> Alive(h, w))
    PROVE  Left(g, Tail(vs)) = Left(h, vs) - 1
  <1>1. FieldsIn(g) = FieldsIn(h)
    <2>1. ASSUME NEW p \in FieldsIn(g) PROVE p \in FieldsIn(h)
      <3>1. p[1] \in 1..n /\ p[2] \in 1..Len(g[p[1]].fields) /\ p = <<p[1], p[2]>>
        BY PlaceIs
      <3>2. QED
        BY <3>1, PlaceIs
    <2>2. ASSUME NEW p \in FieldsIn(h) PROVE p \in FieldsIn(g)
      <3>1. p[1] \in 1..n /\ p[2] \in 1..Len(h[p[1]].fields) /\ p = <<p[1], p[2]>>
        BY PlaceIs
      <3>2. QED
        BY <3>1, PlaceIs
    <2>3. QED
      BY <2>1, <2>2
  <1>2. \A p \in FieldsIn(h) : p[1] \in 1..n
    BY PlaceIs
  <1>3. Living(g) = Living(h)
    BY <1>1, <1>2 DEF Living
  <1>4. Cardinality(Living(h)) \in Nat
    BY LeftNat
  <1>5. Len(Tail(vs)) = Len(vs) - 1 /\ Len(vs) \in Nat
    BY HeadAndTail
  <1>6. QED
    BY <1>3, <1>4, <1>5 DEF Left

\* And so does one that destroys an instance, whose fields come on the list
LEMMA LeftGone ==
    ASSUME NEW C, NEW n \in Nat, NEW h \in Heaps(C, n), NEW vs \in Seq(0..n), vs # <<>>,
           NEW v \in 1..n, Alive(h, v)
    PROVE  Left(Gone(h, v), h[v].fields \o Tail(vs)) = Left(h, vs) - 1
  <1> DEFINE g == Gone(h, v)
             f == h[v].fields
  <1>1. f \in Seq(0..n)
    BY HeapTypes
  <1>2. /\ g \in Heaps(C, n) /\ ~Alive(g, v)
        /\ \A w \in 1..n : w # v => g[w] = h[w] /\ (Alive(g, w) <=> Alive(h, w))
    <2>1. g \in Heaps(C, n)
      BY GoneIs
    <2>2. ~Alive(g, v)
      BY GoneIs
    <2>3. \A w \in 1..n : w # v => g[w] = h[w]
      BY GoneIs
    <2>4. \A w \in 1..n : w # v => /\ Alive(g, w) <=> Alive(h, w)
                                   /\ Tally(g, w) = Tally(h, w)
                                   /\ Emptied(h, w) => Emptied(g, w)
      BY GoneIs
    <2> HIDE DEF g
    <2>5. QED
      BY <2>1, <2>2, <2>3, <2>4
  <1> HIDE DEF g, f
  <1>3. Len(f) \in Nat /\ IsFiniteSet(Row(h, v)) /\ Cardinality(Row(h, v)) = Len(f)
    <2>1. Len(f) \in Nat
      BY <1>1
    <2>2. IsFiniteSet(1..Len(f)) /\ Cardinality(1..Len(f)) = Len(f)
      <3>1. PICK m : m = Len(f)
        OBVIOUS
      <3>2. m \in Nat
        BY <2>1, <3>1
      <3>3. 1 \in Int /\ m \in Int
        BY <3>2
      <3>4. IsFiniteSet(1..m)
        BY <3>3, FS_Interval
      <3>5. Cardinality(1..m) = IF 1 > m THEN 0 ELSE m-1+1
        BY <3>3, FS_Interval
      <3>6. Cardinality(1..m) = m
        BY <3>2, <3>5
      <3>7. QED
        BY <3>1, <3>4, <3>6
    <2>3. IsFiniteSet({v}) /\ Cardinality({v}) = 1
      BY FS_Singleton
    <2>4. PICK T : T = 1..Len(f)
      OBVIOUS
    <2>5. IsFiniteSet({v} \X T) /\ Cardinality({v} \X T) = Cardinality({v}) * Cardinality(T)
      BY <2>2, <2>3, <2>4, FS_Product
    <2>6. Row(h, v) = {v} \X T
      BY <2>4 DEF Row, f
    <2>7. QED
      BY <2>1, <2>2, <2>3, <2>4, <2>5, <2>6
  <1>4. Living(h) = Living(g) \cup Row(h, v)
    <2>1. ASSUME NEW p \in Living(h) PROVE p \in Living(g) \cup Row(h, v)
      <3>1. p \in FieldsIn(h) /\ Alive(h, p[1])
        BY DEF Living
      <3>2. p[1] \in 1..n /\ p[2] \in 1..Len(h[p[1]].fields) /\ p = <<p[1], p[2]>>
        BY <3>1, PlaceIs
      <3>3. CASE p[1] = v
        BY <3>2, <3>3 DEF Row
      <3>4. CASE p[1] # v
        <4>1. g[p[1]] = h[p[1]] /\ Alive(g, p[1])
          BY <1>2, <3>1, <3>2, <3>4
        <4>2. p \in FieldsIn(g)
          BY <1>2, <3>2, <4>1, PlaceIs
        <4>3. QED
          BY <4>1, <4>2 DEF Living
      <3>5. QED
        BY <3>3, <3>4
    <2>2. ASSUME NEW p \in Living(g) PROVE p \in Living(h)
      <3>1. p \in FieldsIn(g) /\ Alive(g, p[1])
        BY DEF Living
      <3>2. p[1] \in 1..n /\ p[2] \in 1..Len(g[p[1]].fields) /\ p = <<p[1], p[2]>>
        BY <1>2, <3>1, PlaceIs
      <3>3. p[1] # v
        BY <1>2, <3>1
      <3>4. g[p[1]] = h[p[1]] /\ Alive(h, p[1])
        BY <1>2, <3>1, <3>2, <3>3
      <3>5. p \in FieldsIn(h)
        BY <3>2, <3>4, PlaceIs
      <3>6. QED
        BY <3>4, <3>5 DEF Living
    <2>3. ASSUME NEW p \in Row(h, v) PROVE p \in Living(h)
      <3>1. p[1] = v /\ p[2] \in 1..Len(h[v].fields) /\ p = <<v, p[2]>>
        BY DEF Row
      <3>2. p \in FieldsIn(h)
        BY <3>1, PlaceIs
      <3>3. QED
        BY <3>1, <3>2 DEF Living
    <2>4. QED
      BY <2>1, <2>2, <2>3
  <1>5. Living(g) \cap Row(h, v) = {}
    BY <1>2 DEF Living, Row
  <1>6. IsFiniteSet(Living(g)) /\ Cardinality(Living(g)) \in Nat
    BY <1>2, LeftNat
  <1>7. Cardinality(Living(h)) = Cardinality(Living(g)) + Len(f)
    <2>1. Cardinality(Living(g) \cup Row(h, v)) = Cardinality(Living(g)) + Cardinality(Row(h, v))
      BY <1>3, <1>5, <1>6, Together
    <2>2. QED
      BY <1>3, <1>4, <2>1
  <1>8. Len(f \o Tail(vs)) = Len(f) + (Len(vs) - 1) /\ Len(vs) \in Nat
    <2>1. Tail(vs) \in Seq(0..n) /\ Len(Tail(vs)) = Len(vs) - 1 /\ Len(vs) \in Nat
      BY HeadAndTail
    <2>2. Len(f \o Tail(vs)) = Len(f) + Len(Tail(vs))
      BY <1>1, <2>1, Joined
    <2>3. QED
      BY <2>1, <2>2
  <1>9. Left(g, f \o Tail(vs)) = Left(h, vs) - 1
    BY <1>3, <1>6, <1>7, <1>8 DEF Left
  <1>10. QED
    BY <1>9 DEF g, f

\* A state of a clearing: what is counted, and the steps that are left
Halfway(C, n, o, P, w, s) ==
    /\ s = [h |-> s.h, todo |-> s.todo]
    /\ s.h \in Heaps(C, n) /\ s.todo \in Seq(0..n)
    /\ Owed(n, s.h, o, P, s.todo)
    /\ s.todo = <<>> \/ Left(s.h, s.todo) <= w

\* What the first step of a clearing does to an instance
LEMMA NextLowers ==
    ASSUME NEW C, NEW n \in Nat, NEW h \in Heaps(C, n), NEW vs \in Seq(0..n), vs # <<>>,
           NEW v, v = Head(vs), v # Plain
    PROVE  /\ Tally(h, v) <= 1 /\ Alive(h, v) =>
                 ClearNext([h |-> h, todo |-> vs])
                 = [h |-> Gone(h, v), todo |-> h[v].fields \o Tail(vs)]
           /\ ~(Tally(h, v) <= 1) =>
                 ClearNext([h |-> h, todo |-> vs]) = [h |-> Less(h, v), todo |-> Tail(vs)]
  BY NextIs DEF Tally, Alive

\* One step
LEMMA HalfwayStep ==
    ASSUME NEW C, NEW n \in Nat, NEW o \in [1..n -> Nat], NEW P, NEW w \in Nat, NEW s,
           Halfway(C, n, o, P, w + 1, s), \A h : Anchored(n, h, o, P)
    PROVE  Halfway(C, n, o, P, w, Cleared(s))
  <1>1. CASE s.todo = <<>>
    BY <1>1 DEF Cleared, Halfway
  <1>2. CASE s.todo # <<>>
    <2>1. PICK h, vs : h = s.h /\ vs = s.todo
      OBVIOUS
    <2>2. /\ s = [h |-> h, todo |-> vs] /\ h \in Heaps(C, n) /\ vs \in Seq(0..n) /\ vs # <<>>
          /\ Owed(n, h, o, P, vs) /\ Left(h, vs) <= w + 1
      BY <1>2, <2>1 DEF Halfway
    <2>3. Cleared(s) = ClearNext([h |-> h, todo |-> vs])
      BY <1>2, <2>2 DEF Cleared
    <2>4. ASSUME NEW g \in Heaps(C, n), NEW us \in Seq(0..n), Owed(n, g, o, P, us),
                 Left(g, us) = Left(h, vs) - 1, Cleared(s) = [h |-> g, todo |-> us]
          PROVE  Halfway(C, n, o, P, w, Cleared(s))
      <3>1. Left(h, vs) \in Nat /\ Left(g, us) \in Nat
        BY <2>2, LeftNat
      <3>2. Left(g, us) <= w
        BY <2>2, <2>4, <3>1
      <3>3. QED
        BY <2>4, <3>2 DEF Halfway
    <2>5. PICK v : v = Head(vs)
      OBVIOUS
    <2>6. v \in 0..n /\ Tail(vs) \in Seq(0..n)
      BY <2>2, <2>5, HeadAndTail
    <2>7. CASE v = Plain
      <3>1. Cleared(s) = [h |-> h, todo |-> Tail(vs)]
        BY <2>2, <2>3, <2>5, <2>7, NextIs
      <3>2. Owed(n, h, o, P, Tail(vs))
        BY <2>2, <2>5, <2>7, PlainOwed
      <3>3. Left(h, Tail(vs)) = Left(h, vs) - 1
        BY <2>2, LeftLess
      <3>4. QED
        BY <2>2, <2>4, <2>6, <3>1, <3>2, <3>3
    <2>8. CASE v # Plain
      <3>1. v \in 1..n
        BY <2>6, <2>8 DEF Plain
      <3>2. Alive(h, v)
        BY <2>2, <2>5, <3>1, HeadLives
      <3>3. CASE Tally(h, v) <= 1
        <4>1. Cleared(s) = [h |-> Gone(h, v), todo |-> h[v].fields \o Tail(vs)]
          <5>1. ClearNext([h |-> h, todo |-> vs])
                = [h |-> Gone(h, v), todo |-> h[v].fields \o Tail(vs)]
            BY <2>2, <2>5, <2>8, <3>2, <3>3, NextLowers
          <5>2. QED
            BY <2>3, <5>1
        <4>2. Gone(h, v) \in Heaps(C, n)
          BY <2>2, <3>1, GoneIs
        <4>3. h[v].fields \o Tail(vs) \in Seq(0..n)
          <5>1. h[v].fields \in Seq(0..n)
            BY <2>2, <3>1, HeapTypes
          <5>2. QED
            BY <2>6, <5>1, Joined
        <4>4. Owed(n, Gone(h, v), o, P, h[v].fields \o Tail(vs))
          BY <2>2, <2>5, <3>1, <3>3, GoneOwed
        <4>5. Left(Gone(h, v), h[v].fields \o Tail(vs)) = Left(h, vs) - 1
          BY <2>2, <3>1, <3>2, LeftGone
        <4>6. QED
          BY <2>4, <4>1, <4>2, <4>3, <4>4, <4>5
      <3>4. CASE ~(Tally(h, v) <= 1)
        <4>1. Cleared(s) = [h |-> Less(h, v), todo |-> Tail(vs)]
          <5>1. ClearNext([h |-> h, todo |-> vs]) = [h |-> Less(h, v), todo |-> Tail(vs)]
            BY <2>2, <2>5, <2>8, <3>4, NextLowers
          <5>2. QED
            BY <2>3, <5>1
        <4>2. Less(h, v) \in Heaps(C, n)
          BY <2>2, <3>1, LessIs
        <4>3. Owed(n, Less(h, v), o, P, Tail(vs))
          BY <2>2, <2>5, <3>1, <3>4, LessOwed
        <4>4. \A i \in 1..n : Less(h, v)[i].fields = h[i].fields /\ (Alive(Less(h, v), i) <=> Alive(h, i))
          BY <2>2, <3>1, LessIs
        <4>5. Left(Less(h, v), Tail(vs)) = Left(h, vs) - 1
          <5>1. PICK g : g = Less(h, v)
            OBVIOUS
          <5>2. /\ g \in Heaps(C, n)
                /\ \A w2 \in 1..n : g[w2].fields = h[w2].fields /\ (Alive(g, w2) <=> Alive(h, w2))
            BY <4>2, <4>4, <5>1
          <5>3. Left(g, Tail(vs)) = Left(h, vs) - 1
            BY <2>2, <5>2, LeftLess
          <5>4. QED
            BY <5>1, <5>3
        <4>6. QED
          BY <2>4, <2>6, <4>1, <4>2, <4>3, <4>5
      <3>5. QED
        BY <3>3, <3>4
    <2>9. QED
      BY <2>7, <2>8
  <1>3. QED
    BY <1>1, <1>2

\* What was counted with a list is counted without it when it has been cleared.
LEMMA ClearOwed ==
    ASSUME NEW C, NEW n \in Nat, NEW h \in Heaps(C, n), NEW vs \in Seq(0..n),
           NEW o \in [1..n -> Nat], NEW P, Owed(n, h, o, P, vs), Anchored(n, h, o, P)
    PROVE  Owed(n, varClear(h, vs), o, P, <<>>)
  <1> DEFINE w == Len(vs) + Cardinality(FieldsIn(h))
             s == [h |-> h, todo |-> vs]
             r == Clearing(s, w)
             S == {k \in Nat : k <= w => Halfway(C, n, o, P, w - k, r[k])}
  <1>1. w \in Nat
    BY WorkNat
  <1>2. Left(h, vs) <= w
    BY LeftNat
  <1> HIDE DEF w
  <1>3. r[0] = s /\ \A k \in 0..(w - 1) : r[k + 1] = Cleared(r[k])
    BY <1>1, ClearingSteps
  <1>4. Halfway(C, n, o, P, w, s)
    BY <1>2 DEF Halfway
  <1>5. \A g : Anchored(n, g, o, P)
    BY DEF Anchored
  <1> HIDE DEF r, s
  <1>6. 0 \in S
    <2>1. w - 0 = w
      BY <1>1
    <2>2. QED
      BY <1>3, <1>4, <2>1
  <1>7. ASSUME NEW k \in S PROVE k + 1 \in S
    <2>1. SUFFICES ASSUME k + 1 <= w PROVE Halfway(C, n, o, P, w - (k + 1), r[k + 1])
      OBVIOUS
    <2>2. PICK m : m = w - (k + 1)
      OBVIOUS
    <2>3. k \in Nat /\ k \in 0..(w - 1) /\ k <= w /\ m \in Nat /\ m + 1 = w - k
      BY <1>1, <2>1, <2>2
    <2>4. r[k + 1] = Cleared(r[k]) /\ Halfway(C, n, o, P, m + 1, r[k])
      BY <1>3, <2>3
    <2>5. Halfway(C, n, o, P, m, Cleared(r[k]))
      BY <1>5, <2>3, <2>4, HalfwayStep
    <2>6. QED
      BY <2>2, <2>4, <2>5
  <1>8. S = Nat
    <2> HIDE DEF S
    <2>1. S \in SUBSET Nat
      BY DEF S
    <2>2. QED
      BY <1>6, <1>7, <2>1, Induction
  <1>9. w \in S /\ w <= w /\ w - w = 0
    BY <1>1, <1>8
  <1>10. Halfway(C, n, o, P, 0, r[w])
    BY <1>9
  <1>11. r[w].todo = <<>>
    <2>1. SUFFICES ASSUME r[w].todo # <<>> PROVE FALSE
      OBVIOUS
    <2>2. PICK g, us : g = r[w].h /\ us = r[w].todo
      OBVIOUS
    <2>3. g \in Heaps(C, n) /\ us \in Seq(0..n) /\ us # <<>> /\ Left(g, us) <= 0
      BY <1>10, <2>1, <2>2 DEF Halfway
    <2>4. Len(us) \in Nat /\ Len(us) > 0
      BY <2>3, HeadAndTail
    <2>5. Cardinality(Living(g)) \in Nat
      BY <2>3, LeftNat
    <2>6. QED
      BY <2>3, <2>4, <2>5 DEF Left
  <1>12. varClear(h, vs) = r[w].h
    BY DEF varClear, r, s, w
  <1>13. QED
    BY <1>10, <1>11, <1>12 DEF Halfway

-----------------------------------------------------------------------------
(* References that come and go                                             *)

\* What has a reference is alive
LEMMA NeededLives ==
    ASSUME NEW C, NEW n \in Nat, NEW h \in Heaps(C, n), NEW o \in [1..n -> Nat], NEW P,
           Owed(n, h, o, P, <<>>), NEW i \in 1..n, o[i] >= 1
    PROVE  Alive(h, i)
  <1>1. <<>> \in Seq(0..n)
    OBVIOUS
  <1>2. InFields(h, i, P) \in Nat
    BY FieldCount
  <1>3. Count(i, <<>>) = 0
    BY CountOne
  <1>4. o[i] \in Nat
    OBVIOUS
  <1>5. Total(h, o, P, <<>>, i) > 0
    BY <1>2, <1>3, <1>4 DEF Total
  <1>6. QED
    BY <1>5 DEF Owed

\* So is what is in a field
LEMMA FieldLives ==
    ASSUME NEW C, NEW n \in Nat, NEW h \in Heaps(C, n), NEW o \in [1..n -> Nat], NEW P,
           Owed(n, h, o, P, <<>>), NEW w \in 1..n, NEW k \in 1..Len(h[w].fields),
           h[w].fields[k] # Plain, <<w, k>> \notin P
    PROVE  h[w].fields[k] \in 1..n /\ Alive(h, h[w].fields[k])
  <1>1. PICK i : i = h[w].fields[k]
    OBVIOUS
  <1>2. i \in 1..n
    <2>1. PICK f : f = h[w].fields
      OBVIOUS
    <2>2. f \in Seq(0..n) /\ k \in 1..Len(f) /\ i = f[k]
      BY <1>1, <2>1, HeapTypes
    <2>3. i \in 0..n
      BY <2>2
    <2>4. QED
      BY <1>1, <2>3 DEF Plain
  <1>3. InFields(h, i, P) \in Nat /\ InFields(h, i, P) >= 1
    BY <1>1, FieldCount
  <1>4. Count(i, <<>>) = 0
    BY CountOne
  <1>5. o[i] \in Nat
    BY <1>2
  <1>6. Total(h, o, P, <<>>, i) > 0
    BY <1>3, <1>4, <1>5 DEF Total
  <1>7. Alive(h, i)
    BY <1>2, <1>6 DEF Owed
  <1>8. QED
    BY <1>1, <1>2, <1>7

\* The same instances with other counts
LEMMA RecountOwed ==
    ASSUME NEW C, NEW n \in Nat, NEW h \in Heaps(C, n), NEW g \in Heaps(C, n),
           NEW o \in [1..n -> Nat], NEW b \in [1..n -> Nat], NEW P, Owed(n, h, o, P, <<>>),
           \A w \in 1..n : /\ g[w].fields = h[w].fields
                           /\ Alive(g, w) <=> Alive(h, w)
                           /\ Tally(g, w) + o[w] = Tally(h, w) + b[w],
           \A w \in 1..n : b[w] >= o[w] /\ (b[w] > o[w] => Alive(h, w))
    PROVE  Owed(n, g, b, P, <<>>)
  <1>1. \A i \in 1..n : InFields(g, i, P) = InFields(h, i, P) /\ InFields(h, i, P) \in Nat
    <2> TAKE i \in 1..n
    <2>1. InFields(g, i, P) = InFields(h, i, P)
      BY FieldsSame
    <2>2. InFields(h, i, P) \in Nat
      BY FieldCount
    <2>3. QED
      BY <2>1, <2>2
  <1>2. \A i \in 1..n : Count(i, <<>>) = 0
    BY CountOne
  <1>3. ASSUME NEW i \in 1..n
        PROVE  IF Alive(g, i) THEN Tally(g, i) = Total(g, b, P, <<>>, i) /\ Tally(g, i) > 0
               ELSE Total(g, b, P, <<>>, i) = 0 /\ Emptied(g, i)
    <2>1. Tally(h, i) \in Int /\ Tally(g, i) \in Int
      BY HeapTypes DEF Tally
    <2>2. o[i] \in Nat /\ b[i] \in Nat
      OBVIOUS
    <2>3. /\ Total(h, o, P, <<>>, i) = o[i] + InFields(h, i, P)
          /\ Total(g, b, P, <<>>, i) = b[i] + InFields(h, i, P)
      BY <1>1, <1>2, <2>2 DEF Total
    <2>4. IF Alive(h, i) THEN Tally(h, i) = Total(h, o, P, <<>>, i) /\ Tally(h, i) > 0
          ELSE Total(h, o, P, <<>>, i) = 0 /\ Emptied(h, i)
      BY DEF Owed
    <2>5. CASE Alive(h, i)
      <3>1. PICK tg, th, oo, bb, ff : /\ tg = Tally(g, i) /\ th = Tally(h, i) /\ oo = o[i]
                                      /\ bb = b[i] /\ ff = InFields(h, i, P)
        OBVIOUS
      <3>2. tg \in Int /\ th \in Int /\ oo \in Nat /\ bb \in Nat /\ ff \in Nat
        BY <1>1, <2>1, <2>2, <3>1
      <3>3. tg + oo = th + bb /\ bb >= oo
        BY <3>1
      <3>4. th = oo + ff /\ th > 0
        BY <2>3, <2>4, <2>5, <3>1
      <3>5. tg = bb + ff /\ tg > 0
        BY <3>2, <3>3, <3>4
      <3>6. Tally(g, i) = b[i] + InFields(h, i, P) /\ Tally(g, i) > 0
        BY <3>1, <3>5
      <3>7. QED
        BY <2>3, <2>5, <3>6
    <2>6. CASE ~Alive(h, i)
      <3>1. b[i] = o[i] /\ Emptied(g, i)
        <4>1. b[i] = o[i]
          BY <2>2, <2>6
        <4>2. Emptied(h, i)
          BY <2>4, <2>6
        <4>3. Emptied(g, i)
          BY <4>2 DEF Emptied
        <4>4. QED
          BY <4>1, <4>3
      <3>2. Total(g, b, P, <<>>, i) = 0
        BY <2>3, <2>4, <2>6, <3>1
      <3>3. QED
        BY <2>6, <3>1, <3>2
    <2>7. QED
      BY <2>5, <2>6
  <1>4. QED
    BY <1>3 DEF Owed

\* jsinstRefs: a reference to each of a list of living instances
LEMMA RefsOwed ==
    ASSUME NEW C, NEW n \in Nat, NEW h \in Heaps(C, n), NEW vs \in Seq(0..n),
           NEW o \in [1..n -> Nat], NEW b \in [1..n -> Nat], NEW P, Owed(n, h, o, P, <<>>),
           \A i \in 1..n : b[i] = o[i] + Count(i, vs),
           \A k \in 1..Len(vs) : vs[k] # Plain => Alive(h, vs[k])
    PROVE  /\ jsinstRefs(h, vs) \in Heaps(C, n) /\ Owed(n, jsinstRefs(h, vs), b, P, <<>>)
           /\ \A w \in 1..n : Alive(jsinstRefs(h, vs), w) <=> Alive(h, w)
  <1> DEFINE g == jsinstRefs(h, vs)
  <1>1. g \in Heaps(C, n) /\ Same(g, h)
    BY RefsTypes
  <1>2. ASSUME NEW w \in 1..n
        PROVE  /\ g[w].fields = h[w].fields /\ (Alive(g, w) <=> Alive(h, w))
               /\ Tally(g, w) = Tally(h, w) + Count(w, vs)
    <2>1. w \in DOMAIN h /\ h[w] \in Insts(C, n) /\ h[w].refcount \in Int
      BY HeapTypes
    <2>2. PICK m, y : m = Count(w, vs) /\ y = [h[w] EXCEPT !.refcount = @ + m]
      OBVIOUS
    <2>3. m \in Nat
      BY <2>2, CountIs
    <2>4. g[w] = y
      BY <2>1, <2>2 DEF jsinstRefs
    <2>5. PICK z, r : z = h[w] /\ r = z.refcount + m
      OBVIOUS
    <2>6. r \in Int /\ z \in Insts(C, n) /\ y = [z EXCEPT !.refcount = r]
      BY <2>1, <2>2, <2>3, <2>5
    <2>7. y.fields = z.fields /\ y.live = z.live /\ y.refcount = r
      BY <2>6, Recount
    <2>8. g[w].fields = h[w].fields
      BY <2>4, <2>5, <2>7
    <2>9. g[w].live = h[w].live
      BY <2>4, <2>5, <2>7
    <2>10. g[w].refcount = h[w].refcount + Count(w, vs)
      BY <2>2, <2>4, <2>5, <2>7
    <2>11. QED
      BY <2>8, <2>9, <2>10, Zenon DEF Alive, Tally
  <1> HIDE DEF g
  <1>3. ASSUME NEW w \in 1..n
        PROVE  b[w] >= o[w] /\ (b[w] > o[w] => Alive(h, w)) /\ Tally(g, w) + o[w] = Tally(h, w) + b[w]
    <2>1. Count(w, vs) \in Nat /\ b[w] = o[w] + Count(w, vs) /\ o[w] \in Nat
      BY CountIs
    <2>2. (\A k \in 1..Len(vs) : vs[k] # w) => Count(w, vs) = 0
      BY CountIs
    <2>3. w # Plain
      BY DEF Plain
    <2>4. Count(w, vs) # 0 => Alive(h, w)
      BY <2>2, <2>3
    <2>5. Tally(h, w) \in Int
      BY HeapTypes DEF Tally
    <2>6. PICK x, y, z, t, u : /\ x = Count(w, vs) /\ y = b[w] /\ z = o[w] /\ t = Tally(h, w)
                               /\ u = Tally(g, w)
      OBVIOUS
    <2>7. x \in Nat /\ y = z + x /\ z \in Nat /\ t \in Int /\ u = t + x
      BY <1>2, <2>1, <2>5, <2>6
    <2>8. y >= z /\ (y > z => x # 0) /\ u + z = t + y
      BY <2>7
    <2>9. QED
      BY <2>4, <2>6, <2>8
  <1>4. Owed(n, g, b, P, <<>>)
    BY <1>1, <1>2, <1>3, RecountOwed
  <1>5. QED
    BY <1>1, <1>2, <1>4 DEF g

\* jsinstRef: a reference to one
LEMMA RefOwed ==
    ASSUME NEW C, NEW n \in Nat, NEW h \in Heaps(C, n), NEW v \in 0..n,
           NEW o \in [1..n -> Nat], NEW b \in [1..n -> Nat], NEW P, Owed(n, h, o, P, <<>>),
           \A i \in 1..n : b[i] = o[i] + (IF v = i THEN 1 ELSE 0),
           v # Plain => Alive(h, v)
    PROVE  /\ jsinstRef(h, v) \in Heaps(C, n) /\ Owed(n, jsinstRef(h, v), b, P, <<>>)
           /\ \A w \in 1..n : Alive(jsinstRef(h, v), w) <=> Alive(h, w)
  <1> DEFINE g == jsinstRef(h, v)
  <1>1. g \in Heaps(C, n)
    BY RefTypes
  <1>2. ASSUME NEW w \in 1..n
        PROVE  /\ g[w].fields = h[w].fields /\ (Alive(g, w) <=> Alive(h, w))
               /\ Tally(g, w) = Tally(h, w) + (IF v = w THEN 1 ELSE 0)
    <2>1. w \in DOMAIN h /\ h[w] \in Insts(C, n) /\ h[w].refcount \in Int
      BY HeapTypes
    <2>2. CASE v # w
      <3>1. g[w] = h[w]
        BY <2>1, <2>2 DEF jsinstRef
      <3>2. Tally(h, w) \in Int
        BY <2>1 DEF Tally
      <3>3. g[w].fields = h[w].fields
        BY <3>1
      <3>4. Alive(g, w) <=> Alive(h, w)
        BY <3>1, Zenon DEF Alive
      <3>5. Tally(g, w) = Tally(h, w)
        BY <3>1 DEF Tally
      <3>6. QED
        BY <2>2, <3>2, <3>3, <3>4, <3>5
    <2>3. CASE v = w
      <3>1. PICK z, r, y : z = h[w] /\ r = z.refcount + 1 /\ y = [z EXCEPT !.refcount = r]
        OBVIOUS
      <3>2. r \in Int /\ z \in Insts(C, n)
        BY <2>1, <3>1
      <3>3. y.fields = z.fields /\ y.live = z.live /\ y.refcount = r
        BY <3>1, <3>2, Recount
      <3>4. g[w] = y
        <4>1. v # Plain
          BY <2>3 DEF Plain
        <4>2. g = [h EXCEPT ![v].refcount = @ + 1]
          BY <4>1 DEF jsinstRef, IsInst
        <4>3. QED
          BY <2>1, <2>3, <3>1, <4>2
      <3>5. g[w].fields = h[w].fields
        BY <3>1, <3>3, <3>4
      <3>6. g[w].live = h[w].live
        BY <3>1, <3>3, <3>4
      <3>7. g[w].refcount = h[w].refcount + 1
        BY <3>1, <3>3, <3>4
      <3>8. Alive(g, w) <=> Alive(h, w)
        BY <3>6, Zenon DEF Alive
      <3>9. QED
        BY <2>3, <3>5, <3>7, <3>8 DEF Tally
    <2>4. QED
      BY <2>2, <2>3
  <1> HIDE DEF g
  <1>3. ASSUME NEW w \in 1..n
        PROVE  b[w] >= o[w] /\ (b[w] > o[w] => Alive(h, w)) /\ Tally(g, w) + o[w] = Tally(h, w) + b[w]
    <2>1. o[w] \in Nat
      OBVIOUS
    <2>2. Tally(h, w) \in Int
      BY HeapTypes DEF Tally
    <2>3. v = w => Alive(h, w)
      BY DEF Plain
    <2>4. PICK d : d = IF v = w THEN 1 ELSE 0
      OBVIOUS
    <2>5. b[w] = o[w] + d /\ Tally(g, w) = Tally(h, w) + d
      BY <1>2, <2>4
    <2>6. d \in {0, 1} /\ (d = 1 => Alive(h, w))
      BY <2>3, <2>4
    <2>7. PICK tg, th, oo, bb : tg = Tally(g, w) /\ th = Tally(h, w) /\ oo = o[w] /\ bb = b[w]
      OBVIOUS
    <2>8. th \in Int /\ oo \in Nat /\ d \in Nat /\ bb = oo + d /\ tg = th + d
      BY <2>1, <2>2, <2>5, <2>6, <2>7
    <2>9. bb >= oo /\ tg + oo = th + bb /\ (bb > oo => d # 0)
      BY <2>8
    <2>10. b[w] > o[w] => Alive(h, w)
      BY <2>6, <2>7, <2>9
    <2>11. QED
      BY <2>7, <2>9, <2>10
  <1>4. Owed(n, g, b, P, <<>>)
    BY <1>1, <1>2, <1>3, RecountOwed
  <1>5. QED
    BY <1>1, <1>2, <1>4 DEF g

\* varClear: the references of a list go
LEMMA DropOwed ==
    ASSUME NEW C, NEW n \in Nat, NEW h \in Heaps(C, n), NEW vs \in Seq(0..n),
           NEW o \in [1..n -> Nat], NEW b \in [1..n -> Nat], NEW P, Owed(n, h, b, P, <<>>),
           \A i \in 1..n : b[i] = o[i] + Count(i, vs), Anchored(n, h, o, P)
    PROVE  varClear(h, vs) \in Heaps(C, n) /\ Owed(n, varClear(h, vs), o, P, <<>>)
  <1>1. ASSUME NEW i \in 1..n PROVE Total(h, b, P, <<>>, i) = Total(h, o, P, vs, i)
    <2>1. Count(i, <<>>) = 0
      BY CountOne
    <2>2. Count(i, vs) \in Nat
      BY CountIs
    <2>3. InFields(h, i, P) \in Nat
      BY FieldCount
    <2>4. o[i] \in Nat /\ b[i] = o[i] + Count(i, vs)
      OBVIOUS
    <2>5. QED
      BY <2>1, <2>2, <2>3, <2>4 DEF Total
  <1>2. Owed(n, h, o, P, vs)
    BY <1>1 DEF Owed
  <1>3. Owed(n, varClear(h, vs), o, P, <<>>)
    BY <1>2, ClearOwed
  <1>4. varClear(h, vs) \in Heaps(C, n)
    BY ClearTypes
  <1>5. QED
    BY <1>3, <1>4

-----------------------------------------------------------------------------
(* References of activations                                               *)

\* The references that one activation holds, and all of them
Hand(ac, m, i)    == {m} \X At(i, Held(ac[m]))
HeldPlaces(ac, i) == UNION {Hand(ac, m, i) : m \in DOMAIN ac}
HeldBy(ac, i)     == Cardinality(HeldPlaces(ac, i))

\* What an activation holds is a list of instances
LEMMA HeldTypes ==
    ASSUME NEW C, NEW n \in Nat, NEW a \in Acts(C, n)
    PROVE  /\ Held(a) \in Seq(0..n)
           /\ a.k = "frame" => Held(a) = Owned(a)
           /\ a.k = "construct" => Held(a) = IF a.at = "called" THEN <<a.inst>> ELSE <<>>
           /\ a.k = "run" => Held(a) = <<>>
           /\ a.k \in {"internal", "host", "call"} => Held(a) = <<a.inst>>
  <1>0. a.k \in {"frame", "internal", "construct", "host", "call", "run"}
    BY ActTypes
  <1>1. /\ a.k = "frame" => Held(a) = Owned(a)
        /\ a.k = "construct" => Held(a) = IF a.at = "called" THEN <<a.inst>> ELSE <<>>
        /\ a.k = "run" => Held(a) = <<>>
        /\ a.k \in {"internal", "host", "call"} => Held(a) = <<a.inst>>
    <2>1. a.k = "frame" => Held(a) = Owned(a)
      BY DEF Held
    <2>2. a.k = "construct" => Held(a) = IF a.at = "called" THEN <<a.inst>> ELSE <<>>
      BY DEF Held
    <2>3. a.k = "run" => Held(a) = <<>>
      BY DEF Held
    <2>4. a.k = "internal" \/ a.k = "host" \/ a.k = "call" => Held(a) = <<a.inst>>
      BY DEF Held
    <2>5. QED
      BY <2>1, <2>2, <2>3, <2>4
  <1>2. CASE a.k = "frame"
    <2>1. a \in Frames(C, n)
      BY <1>2, ActTypes
    <2>2. a.locals \in Seq(0..n) /\ Len(a.locals) \in Nat /\ Len(a.locals) >= 2
      BY <2>1, FrameTypes
    <2>3. PICK q : q = a.locals
      OBVIOUS
    <2>4. q \in Seq(0..n) /\ q[Len(q)] \in 0..n
      BY <2>2, <2>3
    <2>5. <<q[Len(q)]>> \in Seq(0..n)
      BY <2>4
    <2>6. Owned(a) = IF a.owned THEN q ELSE <<q[Len(q)]>>
      BY <2>3 DEF Owned
    <2>7. Owned(a) \in Seq(0..n)
      BY <2>4, <2>5, <2>6
    <2>8. QED
      BY <1>1, <1>2, <2>7
  <1>3. CASE a.k # "frame"
    <2>1. a.k # "run" => a.inst \in 1..n
      <3>1. a.k = "internal" => a.inst \in 1..n
        BY ActTypes, InternalTypes
      <3>2. a.k = "construct" => a.inst \in 1..n
        BY ActTypes, WaitTypes
      <3>3. a.k = "host" => a.inst \in 1..n
        BY ActTypes, WaitTypes
      <3>4. a.k = "call" => a.inst \in 1..n
        BY ActTypes, WaitTypes
      <3>5. QED
        BY <1>0, <1>3, <3>1, <3>2, <3>3, <3>4
    <2>2. Held(a) = <<>> \/ (a.k # "run" /\ Held(a) = <<a.inst>>)
      BY <1>0, <1>1, <1>3
    <2>3. PICK v : v = a.inst
      OBVIOUS
    <2>4. v \in 1..n => <<v>> \in Seq(0..n)
      <3>1. v \in 1..n => v \in 0..n
        OBVIOUS
      <3>2. QED
        BY <3>1
    <2>5. <<>> \in Seq(0..n)
      OBVIOUS
    <2>6. Held(a) \in Seq(0..n)
      BY <2>1, <2>2, <2>3, <2>4, <2>5
    <2>7. QED
      BY <1>1, <2>6
  <1>4. QED
    BY <1>2, <1>3

\* The references of one activation are as many as are on its list.
LEMMA HandCount ==
    ASSUME NEW C, NEW n \in Nat, NEW ac \in Seq(Acts(C, n)), NEW m \in 1..Len(ac), NEW i
    PROVE  IsFiniteSet(Hand(ac, m, i)) /\ Cardinality(Hand(ac, m, i)) = Count(i, Held(ac[m]))
  <1>1. Held(ac[m]) \in Seq(0..n)
    BY HeldTypes
  <1>2. PICK f \in Seq(0..n) : f = Held(ac[m])
    BY <1>1
  <1>3. PICK T : T = At(i, f)
    OBVIOUS
  <1>4. T = InList(f, i)
    BY <1>3 DEF At, InList
  <1>5. IsFiniteSet(T) /\ Cardinality(T) \in Nat
    BY <1>4, ListFinite
  <1>6. IsFiniteSet({m}) /\ Cardinality({m}) = 1
    BY FS_Singleton
  <1>7. IsFiniteSet({m} \X T) /\ Cardinality({m} \X T) = Cardinality({m}) * Cardinality(T)
    BY <1>5, <1>6, FS_Product
  <1>8. Hand(ac, m, i) = {m} \X T /\ Count(i, Held(ac[m])) = Cardinality(T)
    BY <1>2, <1>3 DEF Hand, Count
  <1>9. QED
    BY <1>5, <1>6, <1>7, <1>8

\* All of them are finitely many
LEMMA HeldNat ==
    ASSUME NEW C, NEW n \in Nat, NEW ac \in Seq(Acts(C, n)), NEW i
    PROVE  /\ IsFiniteSet(HeldPlaces(ac, i)) /\ HeldBy(ac, i) \in Nat
           /\ \A m \in 1..Len(ac) : \A k \in 1..Len(Held(ac[m])) :
                 Held(ac[m])[k] = i => HeldBy(ac, i) >= 1
  <1> DEFINE D(m) == Hand(ac, m, i)
             T == {D(m) : m \in 1..Len(ac)}
  <1>1. Len(ac) \in Nat /\ DOMAIN ac = 1..Len(ac)
    OBVIOUS
  <1>2. \A m \in 1..Len(ac) : IsFiniteSet(D(m))
    BY HandCount
  <1>3. HeldPlaces(ac, i) = UNION T
    BY <1>1 DEF HeldPlaces
  <1> HIDE DEF D
  <1>4. IsFiniteSet(T)
    <2>1. PICK w : w = Len(ac)
      OBVIOUS
    <2>2. w \in Nat
      BY <1>1, <2>1
    <2>3. IsFiniteSet(1..w)
      BY <2>2, FS_Interval
    <2> DEFINE f == [m \in 1..Len(ac) |-> D(m)]
    <2>4. f \in Surjection(1..Len(ac), T)
      BY DEF Surjection
    <2>5. QED
      BY <2>1, <2>3, <2>4, FS_Surjection
  <1>5. IsFiniteSet(UNION T)
    BY <1>2, <1>4, FS_UNION
  <1>6. HeldBy(ac, i) \in Nat
    BY <1>3, <1>5, FS_CardinalityType DEF HeldBy
  <1>7. ASSUME NEW m \in 1..Len(ac), NEW k \in 1..Len(Held(ac[m])), Held(ac[m])[k] = i
        PROVE  HeldBy(ac, i) >= 1
    <2>1. k \in At(i, Held(ac[m]))
      <3>1. PICK f : f = Held(ac[m])
        OBVIOUS
      <3>2. f \in Seq(0..n)
        BY <3>1, HeldTypes
      <3>3. DOMAIN f = 1..Len(f)
        BY <3>2
      <3>4. QED
        BY <1>7, <3>1, <3>3 DEF At
    <2>2. <<m, k>> \in Hand(ac, m, i)
      BY <2>1 DEF Hand
    <2>3. <<m, k>> \in HeldPlaces(ac, i)
      BY <1>1, <2>2 DEF HeldPlaces
    <2>4. HeldPlaces(ac, i) # {}
      BY <2>3
    <2>5. HeldBy(ac, i) # 0
      BY <1>3, <1>5, <2>4, FS_EmptySet DEF HeldBy
    <2>6. QED
      BY <1>6, <2>5
  <1>8. QED
    BY <1>3, <1>5, <1>6, <1>7

\* The references of activations with one more on top
LEMMA HeldTop ==
    ASSUME NEW C, NEW n \in Nat, NEW ac \in Seq(Acts(C, n)), NEW bc \in Seq(Acts(C, n)),
           Len(bc) = Len(ac) + 1, \A m \in 1..Len(ac) : bc[m] = ac[m], NEW i
    PROVE  HeldBy(bc, i) = HeldBy(ac, i) + Count(i, Held(bc[Len(bc)]))
  <1> DEFINE w == Len(bc)
  <1>1. DOMAIN ac = 1..(w - 1) /\ DOMAIN bc = 1..w /\ w \in Nat /\ w >= 1 /\ w \in 1..Len(bc)
        /\ Len(ac) = w - 1
    OBVIOUS
  <1>2. \A m \in 1..(w - 1) : Hand(bc, m, i) = Hand(ac, m, i)
    BY <1>1 DEF Hand
  <1> HIDE DEF w
  <1>3. HeldPlaces(bc, i) = HeldPlaces(ac, i) \cup Hand(bc, w, i)
    <2>1. ASSUME NEW p \in HeldPlaces(bc, i) PROVE p \in HeldPlaces(ac, i) \cup Hand(bc, w, i)
      <3>1. PICK m \in 1..w : p \in Hand(bc, m, i)
        BY <1>1 DEF HeldPlaces
      <3>2. CASE m = w
        BY <3>1, <3>2
      <3>3. CASE m # w
        <4>1. m \in 1..(w - 1)
          BY <1>1, <3>3
        <4>2. QED
          BY <1>1, <1>2, <3>1, <4>1 DEF HeldPlaces
      <3>4. QED
        BY <3>2, <3>3
    <2>2. ASSUME NEW p \in HeldPlaces(ac, i) PROVE p \in HeldPlaces(bc, i)
      <3>1. PICK m \in 1..(w - 1) : p \in Hand(ac, m, i)
        BY <1>1 DEF HeldPlaces
      <3>2. m \in 1..w
        BY <1>1
      <3>3. QED
        BY <1>1, <1>2, <3>1, <3>2 DEF HeldPlaces
    <2>3. Hand(bc, w, i) \subseteq HeldPlaces(bc, i)
      <3>1. w \in DOMAIN bc
        BY <1>1
      <3>2. QED
        BY <3>1 DEF HeldPlaces
    <2>4. QED
      BY <2>1, <2>2, <2>3
  <1>4. HeldPlaces(ac, i) \cap Hand(bc, w, i) = {}
    <2>1. SUFFICES ASSUME NEW p \in HeldPlaces(ac, i), p \in Hand(bc, w, i) PROVE FALSE
      OBVIOUS
    <2>2. PICK m \in 1..(w - 1) : p \in Hand(ac, m, i)
      BY <1>1 DEF HeldPlaces
    <2>3. p[1] = m
      BY <2>2 DEF Hand
    <2>4. p[1] = w
      BY <2>1 DEF Hand
    <2>5. QED
      BY <1>1, <2>2, <2>3, <2>4
  <1>5. IsFiniteSet(HeldPlaces(ac, i))
    BY HeldNat
  <1>6. IsFiniteSet(Hand(bc, w, i)) /\ Cardinality(Hand(bc, w, i)) = Count(i, Held(bc[w]))
    BY <1>1, HandCount
  <1>7. Cardinality(HeldPlaces(bc, i)) = Cardinality(HeldPlaces(ac, i)) + Cardinality(Hand(bc, w, i))
    BY <1>3, <1>4, <1>5, <1>6, Together
  <1>8. QED
    BY <1>6, <1>7 DEF HeldBy, w

\* An activation that begins
LEMMA HeldPush ==
    ASSUME NEW C, NEW n \in Nat, NEW ac \in Seq(Acts(C, n)), NEW a \in Acts(C, n), NEW i
    PROVE  HeldBy(Append(ac, a), i) = HeldBy(ac, i) + Count(i, Held(a))
  <1>1. PICK bc : bc = Append(ac, a)
    OBVIOUS
  <1>2. /\ bc \in Seq(Acts(C, n)) /\ Len(bc) = Len(ac) + 1
        /\ \A m \in 1..Len(ac) : bc[m] = ac[m]
        /\ bc[Len(bc)] = a
    BY <1>1
  <1>3. HeldBy(bc, i) = HeldBy(ac, i) + Count(i, Held(bc[Len(bc)]))
    BY <1>2, HeldTop
  <1>4. QED
    BY <1>1, <1>2, <1>3

\* One that returns
LEMMA HeldPop ==
    ASSUME NEW C, NEW n \in Nat, NEW ac \in Seq(Acts(C, n)), ac # <<>>, NEW i
    PROVE  /\ HeldBy(ac, i) = HeldBy(SubSeq(ac, 1, Len(ac) - 1), i) + Count(i, Held(ac[Len(ac)]))
           /\ SubSeq(ac, 1, Len(ac) - 1) \in Seq(Acts(C, n))
  <1>1. PICK bc : bc = SubSeq(ac, 1, Len(ac) - 1)
    OBVIOUS
  <1>2. Len(ac) \in Nat /\ Len(ac) - 1 \in 0..Len(ac)
    OBVIOUS
  <1>3. bc \in Seq(Acts(C, n)) /\ Len(bc) = Len(ac) - 1 /\ \A m \in 1..(Len(ac) - 1) : bc[m] = ac[m]
    BY <1>1, <1>2, Slices
  <1>4. Len(ac) = Len(bc) + 1 /\ \A m \in 1..Len(bc) : ac[m] = bc[m]
    BY <1>2, <1>3
  <1>5. HeldBy(ac, i) = HeldBy(bc, i) + Count(i, Held(ac[Len(ac)]))
    BY <1>3, <1>4, HeldTop
  <1>6. QED
    BY <1>1, <1>3, <1>5

\* Activations with another one on top
Topped(ac, a) == [ac EXCEPT ![Len(ac)] = a]

\* The activation on top goes on, and holds something else
LEMMA HeldAlter ==
    ASSUME NEW C, NEW n \in Nat, NEW ac \in Seq(Acts(C, n)), ac # <<>>, NEW a \in Acts(C, n),
           NEW cc, cc = Topped(ac, a), NEW i
    PROVE  /\ HeldBy(cc, i) + Count(i, Held(ac[Len(ac)])) = HeldBy(ac, i) + Count(i, Held(a))
           /\ cc \in Seq(Acts(C, n)) /\ Len(cc) = Len(ac) /\ cc[Len(ac)] = a
  <1>1. PICK bc : bc = SubSeq(ac, 1, Len(ac) - 1)
    OBVIOUS
  <1>2. Len(ac) \in Nat /\ Len(ac) - 1 \in 0..Len(ac) /\ Len(ac) >= 1
    OBVIOUS
  <1>3. bc \in Seq(Acts(C, n)) /\ Len(bc) = Len(ac) - 1 /\ \A m \in 1..(Len(ac) - 1) : bc[m] = ac[m]
    BY <1>1, <1>2, Slices
  <1>4. /\ cc \in Seq(Acts(C, n)) /\ Len(cc) = Len(ac) /\ cc[Len(ac)] = a
        /\ \A m \in 1..(Len(ac) - 1) : cc[m] = ac[m]
    BY <1>2 DEF Topped
  <1>5. Len(cc) = Len(bc) + 1 /\ \A m \in 1..Len(bc) : cc[m] = bc[m]
    BY <1>2, <1>3, <1>4
  <1>6. HeldBy(cc, i) = HeldBy(bc, i) + Count(i, Held(a))
    <2>1. HeldBy(cc, i) = HeldBy(bc, i) + Count(i, Held(cc[Len(cc)]))
      BY <1>3, <1>4, <1>5, HeldTop
    <2>2. QED
      BY <1>4, <2>1
  <1>7. HeldBy(ac, i) = HeldBy(bc, i) + Count(i, Held(ac[Len(ac)]))
    BY <1>1, HeldPop
  <1>8. HeldBy(bc, i) \in Nat
    BY <1>3, HeldNat
  <1>9. Count(i, Held(a)) \in Nat /\ Count(i, Held(ac[Len(ac)])) \in Nat
    <2>1. Held(a) \in Seq(0..n)
      BY HeldTypes
    <2>2. ac[Len(ac)] \in Acts(C, n)
      BY <1>2
    <2>3. Held(ac[Len(ac)]) \in Seq(0..n)
      BY <2>2, HeldTypes
    <2>4. QED
      BY <2>1, <2>3, CountIs
  <1>10. PICK x, y, z, u, v : /\ x = HeldBy(cc, i) /\ y = HeldBy(bc, i) /\ z = HeldBy(ac, i)
                              /\ u = Count(i, Held(a)) /\ v = Count(i, Held(ac[Len(ac)]))
    OBVIOUS
  <1>11. x = y + u /\ z = y + v /\ y \in Nat /\ u \in Nat /\ v \in Nat
    BY <1>6, <1>7, <1>8, <1>9, <1>10
  <1>12. x + v = z + u
    BY <1>11
  <1>13. QED
    BY <1>4, <1>10, <1>12

\* None
LEMMA HeldNone ==
    ASSUME NEW i
    PROVE  HeldBy(<<>>, i) = 0
  <1>1. HeldPlaces(<<>>, i) = {}
    BY DEF HeldPlaces
  <1>2. QED
    BY <1>1, FS_EmptySet DEF HeldBy

-----------------------------------------------------------------------------
(* What accounts for all references                                        *)

\* The references of the host, and all that are not in a field.  In x are those
\* that were counted and lost.
HostBy(ho, i) == IF ho.inst = i THEN ho.refs ELSE 0
Roots(n, st, ac, ho, x) ==
    [i \in 1..n |-> Count(i, st) + HeldBy(ac, i) + HostBy(ho, i) + x[i]]

\* A frame that does not own its locals has copies of values on the stack.
Owns(f) == f.owned
Copy(st, f) ==
    /\ Len(f.locals) - 1 <= f.base
    /\ \A k \in 1..(Len(f.locals) - 1) : f.locals[k] = st[f.base - (Len(f.locals) - 1) + k]
Copied(st, ac) == \A m \in 1..Len(ac) : ac[m].k = "frame" /\ ~Owns(ac[m]) => Copy(st, ac[m])

\* The instance of the host is counted for it, or is on the stack below all
\* that methods may use.
Hosted(st, ac, ho) ==
    ho.inst # Plain /\ ~(ho.refs > 0) =>
        \E q \in 1..Len(st) : /\ st[q] = ho.inst
                              /\ \A m \in 1..Len(ac) : ac[m].k = "frame" => q <= ac[m].base

\* What the host with an instance does is run, or call a method of it.
Lent(ac, ho) ==
    /\ ho.inst # Plain /\ ac # <<>> => ac[1].k = "run" \/ ac[1].k = "call"
    /\ ac # <<>> /\ ac[1].k = "call" => ho.inst = ac[1].inst

\* What the stack, the activations and the host owe each other
Stands(st, ac, ho) == Copied(st, ac) /\ Hosted(st, ac, ho) /\ Lent(ac, ho)

\* References are lost only where a flaw says so.
Spare(fl, n, x) == x \in [1..n -> Nat] /\ (fl = {} => \A i \in 1..n : x[i] = 0)

\* The count of every living instance is the number of the references to it, in
\* the fields too, and there are none to an instance that is destroyed.
Counts(h, st, ac, ho, fl) ==
    \E x : Spare(fl, Len(h), x) /\ Owed(Len(h), h, Roots(Len(h), st, ac, ho, x), {}, <<>>)
Accounted(h, st, ac, ho, fl) == Counts(h, st, ac, ho, fl) /\ Stands(st, ac, ho)

\* The flaws with which an instance may be destroyed too early
Bad == {"parameter", "temporary", "uncounted"}

\* The inductive invariant about references
CountInv == flaws \cap Bad = {} => Accounted(heap, stack, acts, host, flaws)

\* The numbers of references
LEMMA RootsIs ==
    ASSUME NEW C, NEW n \in Nat, NEW st \in Seq(0..n), NEW ac \in Seq(Acts(C, n)),
           NEW ho \in [inst : 0..n, refs : Nat], NEW x \in [1..n -> Nat]
    PROVE  /\ Roots(n, st, ac, ho, x) \in [1..n -> Nat]
           /\ \A i \in 1..n :
                 /\ Count(i, st) \in Nat /\ HeldBy(ac, i) \in Nat /\ HostBy(ho, i) \in Nat
                 /\ x[i] \in Nat
                 /\ Roots(n, st, ac, ho, x)[i] = Count(i, st) + HeldBy(ac, i) + HostBy(ho, i) + x[i]
  <1>1. \A i \in 1..n : /\ Count(i, st) \in Nat /\ HeldBy(ac, i) \in Nat /\ HostBy(ho, i) \in Nat
                        /\ x[i] \in Nat
    <2> TAKE i \in 1..n
    <2>1. Count(i, st) \in Nat
      BY CountIs
    <2>2. HeldBy(ac, i) \in Nat
      BY HeldNat
    <2>3. HostBy(ho, i) \in Nat
      BY DEF HostBy
    <2>4. x[i] \in Nat
      OBVIOUS
    <2>5. QED
      BY <2>1, <2>2, <2>3, <2>4
  <1>2. \A i \in 1..n : Count(i, st) + HeldBy(ac, i) + HostBy(ho, i) + x[i] \in Nat
    <2> TAKE i \in 1..n
    <2>1. PICK a, b, c, d : a = Count(i, st) /\ b = HeldBy(ac, i) /\ c = HostBy(ho, i) /\ d = x[i]
      OBVIOUS
    <2>2. a \in Nat /\ b \in Nat /\ c \in Nat /\ d \in Nat
      BY <1>1, <2>1
    <2>3. a + b + c + d \in Nat
      BY <2>2
    <2>4. QED
      BY <2>1, <2>3
  <1>3. Roots(n, st, ac, ho, x) \in [1..n -> Nat]
    BY <1>2 DEF Roots
  <1>4. \A i \in 1..n : Roots(n, st, ac, ho, x)[i] = Count(i, st) + HeldBy(ac, i) + HostBy(ho, i) + x[i]
    BY DEF Roots
  <1>5. QED
    BY <1>1, <1>3, <1>4

\* References to living instances are counted, and a list is cleared
LEMMA Moves ==
    ASSUME NEW C, NEW n \in Nat, NEW h \in Heaps(C, n), NEW o \in [1..n -> Nat],
           NEW b \in [1..n -> Nat], Owed(n, h, o, {}, <<>>),
           NEW us \in Seq(0..n), NEW vs \in Seq(0..n),
           \A i \in 1..n : b[i] + Count(i, vs) = o[i] + Count(i, us),
           \A k \in 1..Len(us) : us[k] # Plain => Alive(h, us[k])
    PROVE  /\ varClear(jsinstRefs(h, us), vs) \in Heaps(C, n)
           /\ Owed(n, varClear(jsinstRefs(h, us), vs), b, {}, <<>>)
  <1>1. \A i \in 1..n : Count(i, us) \in Nat /\ Count(i, vs) \in Nat
    <2> TAKE i \in 1..n
    <2>1. Count(i, us) \in Nat
      BY CountIs
    <2>2. Count(i, vs) \in Nat
      BY CountIs
    <2>3. QED
      BY <2>1, <2>2
  <1>2. PICK m : m = [i \in 1..n |-> o[i] + Count(i, us)]
    OBVIOUS
  <1>3. m \in [1..n -> Nat] /\ \A i \in 1..n : m[i] = o[i] + Count(i, us)
    <2>1. \A i \in 1..n : o[i] + Count(i, us) \in Nat
      BY <1>1
    <2>2. QED
      BY <1>2, <2>1
  <1>4. jsinstRefs(h, us) \in Heaps(C, n) /\ Owed(n, jsinstRefs(h, us), m, {}, <<>>)
    BY <1>3, RefsOwed
  <1>5. \A i \in 1..n : m[i] = b[i] + Count(i, vs)
    BY <1>3
  <1>6. PICK g : g = jsinstRefs(h, us)
    OBVIOUS
  <1>7. Anchored(n, g, b, {})
    BY DEF Anchored
  <1>8. g \in Heaps(C, n) /\ Owed(n, g, m, {}, <<>>)
    BY <1>4, <1>6
  <1>9. varClear(g, vs) \in Heaps(C, n) /\ Owed(n, varClear(g, vs), b, {}, <<>>)
    BY <1>3, <1>5, <1>7, <1>8, DropOwed
  <1>10. QED
    BY <1>6, <1>9

\* A value has a reference from outside of the heap.
Rooted(n, o, v) == v \in 1..n /\ o[v] >= 1

\* So has what is on the stack, held by an activation or counted for the host.
LEMMA RootNeeds ==
    ASSUME NEW C, NEW n \in Nat, NEW st \in Seq(0..n),
           NEW ac \in Seq(Acts(C, n)), NEW ho \in [inst : 0..n, refs : Nat], NEW x \in [1..n -> Nat],
           NEW o, o = Roots(n, st, ac, ho, x)
    PROVE  /\ \A q \in 1..Len(st) : st[q] # Plain => Rooted(n, o, st[q])
           /\ \A m \in 1..Len(ac) : \A k \in 1..Len(Held(ac[m])) :
                 Held(ac[m])[k] # Plain => Rooted(n, o, Held(ac[m])[k])
           /\ ho.inst # Plain /\ ho.refs > 0 => Rooted(n, o, ho.inst)
  <1>1. ASSUME NEW i \in 1..n
        PROVE  /\ Count(i, st) \in Nat /\ HeldBy(ac, i) \in Nat /\ HostBy(ho, i) \in Nat
               /\ x[i] \in Nat
               /\ o[i] = Count(i, st) + HeldBy(ac, i) + HostBy(ho, i) + x[i]
    <2>1. /\ Count(i, st) \in Nat /\ HeldBy(ac, i) \in Nat /\ HostBy(ho, i) \in Nat
          /\ x[i] \in Nat
      BY RootsIs
    <2>2. o[i] = Count(i, st) + HeldBy(ac, i) + HostBy(ho, i) + x[i]
      BY DEF Roots
    <2>3. QED
      BY <2>1, <2>2
  <1>2. ASSUME NEW i \in 1..n, Count(i, st) >= 1 \/ HeldBy(ac, i) >= 1 \/ HostBy(ho, i) >= 1
        PROVE  Rooted(n, o, i)
    <2>1. PICK a, b, c, d : a = Count(i, st) /\ b = HeldBy(ac, i) /\ c = HostBy(ho, i) /\ d = x[i]
      OBVIOUS
    <2>2. a \in Nat /\ b \in Nat /\ c \in Nat /\ d \in Nat /\ o[i] = a + b + c + d
      BY <1>1, <2>1
    <2>3. a >= 1 \/ b >= 1 \/ c >= 1
      BY <1>2, <2>1
    <2>4. o[i] >= 1
      BY <2>2, <2>3
    <2>5. QED
      BY <2>4 DEF Rooted
  <1>3. ASSUME NEW q \in 1..Len(st), st[q] # Plain PROVE Rooted(n, o, st[q])
    <2>1. PICK i : i = st[q]
      OBVIOUS
    <2>2. i \in 1..n
      <3>1. i \in 0..n
        BY <2>1
      <3>2. QED
        BY <1>3, <2>1, <3>1 DEF Plain
    <2>3. Count(i, st) >= 1
      BY <2>1, CountIs
    <2>4. QED
      BY <1>2, <2>1, <2>2, <2>3
  <1>4. ASSUME NEW m \in 1..Len(ac), NEW k \in 1..Len(Held(ac[m])), Held(ac[m])[k] # Plain
        PROVE  Rooted(n, o, Held(ac[m])[k])
    <2>1. PICK i, f : i = Held(ac[m])[k] /\ f = Held(ac[m])
      OBVIOUS
    <2>2. i \in 1..n
      <3>1. f \in Seq(0..n)
        BY <2>1, HeldTypes
      <3>2. i \in 0..n
        BY <2>1, <3>1
      <3>3. QED
        BY <1>4, <2>1, <3>2 DEF Plain
    <2>3. HeldBy(ac, i) >= 1
      BY <2>1, HeldNat
    <2>4. QED
      BY <1>2, <2>1, <2>2, <2>3
  <1>5. ASSUME ho.inst # Plain, ho.refs > 0 PROVE Rooted(n, o, ho.inst)
    <2>1. PICK i : i = ho.inst
      OBVIOUS
    <2>2. i \in 1..n
      BY <1>5, <2>1 DEF Plain
    <2>3. HostBy(ho, i) >= 1
      BY <1>5, <2>1 DEF HostBy
    <2>4. QED
      BY <1>2, <2>1, <2>2, <2>3
  <1>6. QED
    BY <1>3, <1>4, <1>5

\* It is alive.
LEMMA RootLives ==
    ASSUME NEW C, NEW n \in Nat, NEW h \in Heaps(C, n), NEW st \in Seq(0..n),
           NEW ac \in Seq(Acts(C, n)), NEW ho \in [inst : 0..n, refs : Nat], NEW x \in [1..n -> Nat],
           Owed(n, h, Roots(n, st, ac, ho, x), {}, <<>>)
    PROVE  /\ \A q \in 1..Len(st) : st[q] # Plain => Alive(h, st[q])
           /\ \A m \in 1..Len(ac) : \A k \in 1..Len(Held(ac[m])) :
                 Held(ac[m])[k] # Plain => Alive(h, Held(ac[m])[k])
           /\ ho.inst # Plain /\ ho.refs > 0 => Alive(h, ho.inst)
  <1>1. PICK o : o = Roots(n, st, ac, ho, x)
    OBVIOUS
  <1>2. o \in [1..n -> Nat]
    BY <1>1, RootsIs
  <1>3. ASSUME NEW v, Rooted(n, o, v) PROVE Alive(h, v)
    <2>1. Owed(n, h, o, {}, <<>>)
      BY <1>1
    <2>2. QED
      BY <1>2, <1>3, <2>1, NeededLives DEF Rooted
  <1>4. \A q \in 1..Len(st) : st[q] # Plain => Rooted(n, o, st[q])
    BY <1>1, RootNeeds
  <1>5. \A m \in 1..Len(ac) : \A k \in 1..Len(Held(ac[m])) :
           Held(ac[m])[k] # Plain => Rooted(n, o, Held(ac[m])[k])
    BY <1>1, RootNeeds
  <1>6. ho.inst # Plain /\ ho.refs > 0 => Rooted(n, o, ho.inst)
    BY <1>1, RootNeeds
  <1>7. QED
    BY <1>3, <1>4, <1>5, <1>6

-----------------------------------------------------------------------------
(* What stands while activations come and go                               *)

\* The base of a frame is where its part of the stack begins
LEMMA BaseIs ==
    ASSUME NEW C, NEW n \in Nat, NEW a \in Acts(C, n), a.k = "frame"
    PROVE  /\ a.base \in Nat /\ Low(a) = a.base /\ a.locals \in Seq(0..n)
           /\ Len(a.locals) \in Nat /\ Len(a.locals) >= 2
  <1>1. a \in Frames(C, n)
    BY ActTypes
  <1>2. a.base \in Nat /\ a.locals \in Seq(0..n) /\ Len(a.locals) \in Nat /\ Len(a.locals) >= 2
    BY <1>1, FrameTypes
  <1>3. QED
    BY <1>2 DEF Low

\* The place of a copy
LEMMA CopyPlaces ==
    ASSUME NEW b \in Nat, NEW e \in Nat, e <= b, NEW w \in Nat, w <= e, NEW k \in 1..w
    PROVE  e - w + k \in 1..b
  OBVIOUS

\* The stack changes above what the activations have there
LEMMA StandStack ==
    ASSUME NEW C, NEW D, NEW h, NEW st, NEW ac, State(C, D, h, st, ac), NEW ho, Stands(st, ac, ho),
           NEW b \in Nat, NEW st2 \in Seq(0..Len(h)), b <= Len(st), b <= Len(st2),
           \A q \in 1..b : st2[q] = st[q],
           \A m \in 1..Len(ac) : Low(ac[m]) <= b,
           \/ ho.inst = Plain \/ ho.refs > 0 \/ b = Len(st)
           \/ \E m \in 1..Len(ac) : ac[m].k = "frame"
    PROVE  Stands(st2, ac, ho)
  <1>1. /\ Len(h) \in Nat /\ Len(st) \in Nat /\ Len(ac) \in Nat
        /\ \A m \in 1..Len(ac) : ac[m] \in Acts(C, Len(h))
    BY StateTypes
  <1>2. ASSUME NEW m \in 1..Len(ac), ac[m].k = "frame", ~Owns(ac[m]) PROVE Copy(st2, ac[m])
    <2>1. PICK f, w : f = ac[m] /\ w = Len(f.locals) - 1
      OBVIOUS
    <2>2. f.base \in Nat /\ Low(f) = f.base /\ Len(f.locals) \in Nat /\ Len(f.locals) >= 2
      BY <1>1, <1>2, <2>1, BaseIs
    <2>3. f.base <= b
      BY <2>1, <2>2
    <2>4. Copy(st, f)
      BY <1>2, <2>1 DEF Stands, Copied
    <2>5. w <= f.base /\ \A k \in 1..w : f.locals[k] = st[f.base - w + k]
      BY <2>1, <2>4 DEF Copy
    <2>6. ASSUME NEW k \in 1..w PROVE st2[f.base - w + k] = st[f.base - w + k]
      <3>1. w \in Nat
        BY <2>1, <2>2
      <3>2. f.base - w + k \in 1..b
        BY <2>2, <2>3, <2>5, <3>1, CopyPlaces
      <3>3. QED
        BY <3>2
    <2>7. w <= f.base /\ \A k \in 1..w : f.locals[k] = st2[f.base - w + k]
      BY <2>5, <2>6
    <2>8. QED
      BY <2>1, <2>7 DEF Copy
  <1>3. Copied(st2, ac)
    BY <1>2 DEF Copied
  <1>4. Hosted(st2, ac, ho)
    <2>1. SUFFICES ASSUME ho.inst # Plain, ~(ho.refs > 0)
                   PROVE  \E q \in 1..Len(st2) :
                             /\ st2[q] = ho.inst
                             /\ \A m \in 1..Len(ac) : ac[m].k = "frame" => q <= ac[m].base
      BY DEF Hosted
    <2>2. PICK q \in 1..Len(st) : /\ st[q] = ho.inst
                                  /\ \A m \in 1..Len(ac) : ac[m].k = "frame" => q <= ac[m].base
      BY <2>1 DEF Stands, Hosted
    <2>3. q <= b
      <3>1. CASE b = Len(st)
        BY <1>1, <3>1
      <3>2. CASE \E m \in 1..Len(ac) : ac[m].k = "frame"
        <4>1. PICK m \in 1..Len(ac) : ac[m].k = "frame"
          BY <3>2
        <4>2. PICK f : f = ac[m]
          OBVIOUS
        <4>3. f.base \in Nat /\ Low(f) = f.base
          BY <1>1, <4>1, <4>2, BaseIs
        <4>4. q <= f.base /\ Low(f) <= b
          BY <2>2, <4>1, <4>2
        <4>5. QED
          BY <4>3, <4>4
      <3>3. QED
        BY <2>1, <3>1, <3>2
    <2>4. q \in 1..b /\ q \in 1..Len(st2)
      <3>1. Len(st2) \in Nat
        OBVIOUS
      <3>2. QED
        BY <2>3, <3>1
    <2>5. st2[q] = ho.inst
      BY <2>2, <2>4
    <2>6. QED
      BY <2>2, <2>4, <2>5
  <1>5. Lent(ac, ho)
    BY DEF Stands
  <1>6. QED
    BY <1>3, <1>4, <1>5 DEF Stands

\* An activation begins
LEMMA StandPush ==
    ASSUME NEW C, NEW D, NEW h, NEW st, NEW ac, State(C, D, h, st, ac), NEW ho, Stands(st, ac, ho),
           NEW a, a.k = "frame" => a.base = Len(st), a.k = "frame" /\ ~Owns(a) => Copy(st, a),
           ac = <<>> => /\ ho.inst # Plain => a.k = "run" \/ a.k = "call"
                        /\ a.k = "call" => ho.inst = a.inst
    PROVE  Stands(st, Append(ac, a), ho)
  <1>1. Len(st) \in Nat /\ Len(ac) \in Nat /\ DOMAIN ac = 1..Len(ac)
    BY StateTypes
  <1>2. PICK bc : bc = Append(ac, a)
    OBVIOUS
  <1>3. /\ Len(bc) = Len(ac) + 1 /\ bc[Len(ac) + 1] = a /\ bc # <<>>
        /\ \A m \in 1..Len(ac) : bc[m] = ac[m]
    <2>1. ac \in Seq(Acts(C, Len(h)))
      BY DEF State
    <2>2. QED
      BY <1>2, <2>1
  <1>4. ASSUME NEW m \in 1..Len(bc) PROVE m \in 1..Len(ac) \/ m = Len(ac) + 1
    BY <1>1, <1>3
  <1>5. Copied(st, bc)
    <2>1. ASSUME NEW m \in 1..Len(bc), bc[m].k = "frame", ~Owns(bc[m]) PROVE Copy(st, bc[m])
      <3>1. CASE m \in 1..Len(ac)
        <4>1. bc[m] = ac[m]
          BY <1>3, <3>1
        <4>2. QED
          BY <2>1, <3>1, <4>1 DEF Stands, Copied
      <3>2. CASE m = Len(ac) + 1
        <4>1. bc[m] = a
          BY <1>3, <3>2
        <4>2. QED
          BY <2>1, <4>1
      <3>3. QED
        BY <1>4, <3>1, <3>2
    <2>2. QED
      BY <2>1 DEF Copied
  <1>6. Hosted(st, bc, ho)
    <2>1. SUFFICES ASSUME ho.inst # Plain, ~(ho.refs > 0)
                   PROVE  \E q \in 1..Len(st) :
                             /\ st[q] = ho.inst
                             /\ \A m \in 1..Len(bc) : bc[m].k = "frame" => q <= bc[m].base
      BY DEF Hosted
    <2>2. PICK q \in 1..Len(st) : /\ st[q] = ho.inst
                                  /\ \A m \in 1..Len(ac) : ac[m].k = "frame" => q <= ac[m].base
      BY <2>1 DEF Stands, Hosted
    <2>3. ASSUME NEW m \in 1..Len(bc), bc[m].k = "frame" PROVE q <= bc[m].base
      <3>1. CASE m \in 1..Len(ac)
        BY <1>3, <2>2, <2>3, <3>1
      <3>2. CASE m = Len(ac) + 1
        <4>1. bc[m] = a
          BY <1>3, <3>2
        <4>2. bc[m].base = Len(st)
          BY <2>3, <4>1
        <4>3. QED
          BY <1>1, <4>2
      <3>3. QED
        BY <1>4, <3>1, <3>2
    <2>4. QED
      BY <2>2, <2>3
  <1>7. Lent(bc, ho)
    <2>1. CASE ac = <<>>
      <3>1. bc[1] = a
        BY <1>1, <1>3, <2>1
      <3>2. QED
        BY <2>1, <3>1 DEF Lent
    <2>2. CASE ac # <<>>
      <3>1. bc[1] = ac[1]
        <4>1. Len(ac) # 0
          BY <2>2 DEF State
        <4>2. 1 \in 1..Len(ac)
          BY <1>1, <4>1
        <4>3. QED
          BY <1>3, <4>2
      <3>2. QED
        BY <2>2, <3>1 DEF Stands, Lent
    <2>3. QED
      BY <2>1, <2>2
  <1>8. QED
    BY <1>2, <1>5, <1>6, <1>7 DEF Stands

\* An activation returns
LEMMA StandPop ==
    ASSUME NEW C, NEW D, NEW h, NEW st, NEW ac, State(C, D, h, st, ac), ac # <<>>,
           NEW ho, Stands(st, ac, ho)
    PROVE  Stands(st, SubSeq(ac, 1, Len(ac) - 1), ho)
  <1>1. PICK bc : bc = SubSeq(ac, 1, Len(ac) - 1)
    OBVIOUS
  <1>2. Len(bc) = Len(ac) - 1 /\ \A m \in 1..(Len(ac) - 1) : bc[m] = ac[m]
    BY <1>1, PopTop
  <1>3. Len(ac) \in Nat /\ Len(st) \in Nat
    BY StateTypes
  <1>4. \A m \in 1..Len(bc) : m \in 1..Len(ac) /\ bc[m] = ac[m]
    BY <1>2, <1>3
  <1>5. Copied(st, bc)
    BY <1>4 DEF Stands, Copied
  <1>6. Hosted(st, bc, ho)
    BY <1>4 DEF Stands, Hosted
  <1>7. Lent(bc, ho)
    <2>1. SUFFICES ASSUME bc # <<>> PROVE Lent(bc, ho)
      BY DEF Lent
    <2>2. bc \in Seq(Acts(C, Len(h)))
      <3>1. ac \in Seq(Acts(C, Len(h)))
        BY DEF State
      <3>2. Len(ac) - 1 \in 0..Len(ac)
        BY <1>3, <3>1
      <3>3. QED
        BY <1>1, <3>1, <3>2, Slices
    <2>3. Len(bc) \in Nat /\ Len(bc) # 0
      BY <2>1, <2>2
    <2>4. bc[1] = ac[1]
      BY <1>4, <2>3
    <2>5. QED
      BY <2>4 DEF Stands, Lent
  <1>8. QED
    BY <1>1, <1>5, <1>6, <1>7 DEF Stands

\* The activation on top goes on
LEMMA StandAlter ==
    ASSUME NEW C, NEW D, NEW h, NEW st, NEW ac, State(C, D, h, st, ac), ac # <<>>,
           NEW ho, Stands(st, ac, ho), NEW t, t = ac[Len(ac)], NEW a, a.k = t.k,
           a.k = "frame" => a.base = t.base, a.k = "frame" /\ ~Owns(a) => Copy(st, a),
           a.k # "call"
    PROVE  Stands(st, [ac EXCEPT ![Len(ac)] = a], ho)
  <1>1. PICK bc : bc = [ac EXCEPT ![Len(ac)] = a]
    OBVIOUS
  <1>2. Len(ac) \in Nat /\ Len(st) \in Nat /\ DOMAIN ac = 1..Len(ac)
    BY StateTypes
  <1>3. ac \in Seq(Acts(C, Len(h)))
    BY DEF State
  <1>4. /\ Len(bc) = Len(ac) /\ bc # <<>> /\ bc[Len(ac)] = a
        /\ \A m \in 1..Len(ac) : m # Len(ac) => bc[m] = ac[m]
    <2>1. PICK w : w = Len(ac)
      OBVIOUS
    <2>2. w \in Nat /\ w # 0 /\ ac = [m \in 1..w |-> ac[m]]
      BY <1>2, <1>3, <2>1
    <2>3. bc = [m \in 1..w |-> IF m = w THEN a ELSE ac[m]]
      BY <1>1, <1>2, <2>1
    <2>4. Len(bc) = w
      BY <2>2, <2>3
    <2>5. bc[w] = a /\ \A m \in 1..w : m # w => bc[m] = ac[m]
      BY <2>2, <2>3
    <2>6. bc # <<>>
      BY <2>2, <2>4
    <2>7. QED
      BY <2>1, <2>4, <2>5, <2>6
  <1>5. Copied(st, bc)
    <2>1. ASSUME NEW m \in 1..Len(bc), bc[m].k = "frame", ~Owns(bc[m]) PROVE Copy(st, bc[m])
      <3>1. CASE m = Len(ac)
        <4>1. bc[m] = a
          BY <1>4, <3>1
        <4>2. QED
          BY <2>1, <4>1
      <3>2. CASE m # Len(ac)
        <4>1. bc[m] = ac[m]
          BY <1>4, <3>2
        <4>2. QED
          BY <1>4, <2>1, <4>1 DEF Stands, Copied
      <3>3. QED
        BY <3>1, <3>2
    <2>2. QED
      BY <2>1 DEF Copied
  <1>6. Hosted(st, bc, ho)
    <2>1. \A m \in 1..Len(ac) : bc[m].k = "frame" => ac[m].k = "frame" /\ bc[m].base = ac[m].base
      BY <1>4
    <2>2. QED
      BY <1>4, <2>1 DEF Stands, Hosted
  <1>7. Lent(bc, ho)
    <2>1. ac # <<>> => bc[1].k = ac[1].k /\ (bc[1].k = "call" => bc[1] = ac[1])
      <3>1. Len(ac) # 0
        BY <1>3
      <3>2. 1 \in 1..Len(ac)
        BY <1>2, <3>1
      <3>3. CASE Len(ac) = 1
        <4>1. bc[1] = a /\ ac[1] = t
          BY <1>4, <3>3
        <4>2. QED
          BY <4>1
      <3>4. CASE Len(ac) # 1
        <4>1. bc[1] = ac[1]
          BY <1>4, <3>2, <3>4
        <4>2. QED
          BY <4>1
      <3>5. QED
        BY <3>3, <3>4
    <2>2. QED
      BY <1>4, <2>1 DEF Stands, Lent
  <1>8. QED
    BY <1>1, <1>5, <1>6, <1>7 DEF Stands

-----------------------------------------------------------------------------
(* What every step has to account for                                      *)

\* What is known of the state that a step leads to
LEMMA NextTypes ==
    ASSUME Inv', prog' = prog
    PROVE  /\ Len(heap') \in Nat /\ heap' \in Heaps(Classes, Len(heap'))
           /\ stack' \in Seq(0..Len(heap')) /\ acts' \in Seq(Acts(Classes, Len(heap')))
           /\ host' \in [inst : 0..Len(heap'), refs : Nat]
           /\ State(Classes, Depths, heap', stack', acts')
  <1>1. Classes' = Classes /\ Depths' = Depths
    <2>1. Classes' = Classes /\ \A c \in Classes : Len(Chain(c))' = Len(Chain(c))
      BY ProgramStays
    <2>2. QED
      BY <2>1 DEF Depths
  <1>2. State(Classes', Depths', heap', stack', acts') /\ host' \in [inst : 0..Len(heap'), refs : Nat]
    BY DEF Inv, TypeInv
  <1>3. State(Classes, Depths, heap', stack', acts')
    BY <1>1, <1>2
  <1>4. Len(heap') \in Nat
    BY <1>3, StateTypes
  <1>5. /\ heap' \in Heaps(Classes, Len(heap')) /\ stack' \in Seq(0..Len(heap'))
        /\ acts' \in Seq(Acts(Classes, Len(heap')))
    BY <1>3 DEF State
  <1>6. QED
    BY <1>2, <1>3, <1>4, <1>5

\* What is known of the state before
LEMMA NowTypes ==
    ASSUME Inv
    PROVE  /\ Len(heap) \in Nat /\ heap \in Heaps(Classes, Len(heap))
           /\ stack \in Seq(0..Len(heap)) /\ acts \in Seq(Acts(Classes, Len(heap)))
           /\ host \in [inst : 0..Len(heap), refs : Nat]
           /\ State(Classes, Depths, heap, stack, acts)
  <1>1. State(Classes, Depths, heap, stack, acts) /\ host \in [inst : 0..Len(heap), refs : Nat]
    BY DEF Inv, TypeInv
  <1>2. Len(heap) \in Nat
    BY <1>1, StateTypes
  <1>3. /\ heap \in Heaps(Classes, Len(heap)) /\ stack \in Seq(0..Len(heap))
        /\ acts \in Seq(Acts(Classes, Len(heap)))
    BY <1>1 DEF State
  <1>4. QED
    BY <1>1, <1>2, <1>3

\* A step that changes nothing of what is counted
LEMMA CountsStay ==
    ASSUME CountInv, flaws' \cap Bad = {}, heap' = heap, stack' = stack, acts' = acts, host' = host,
           flaws' = flaws
    PROVE  Accounted(heap', stack', acts', host', flaws')
  BY DEF CountInv

\* The numbers of references before a step
Sum(st, ac, ho, x, i) == Count(i, st) + HeldBy(ac, i) + HostBy(ho, i) + x[i]

\* They are in o, and account for the counts of the instances.
Counted(n, h, st, ac, ho, x, o) ==
    /\ x \in [1..n -> Nat] /\ o \in [1..n -> Nat] /\ Owed(n, h, o, {}, <<>>)
    /\ \A i \in 1..n : /\ Count(i, st) \in Nat /\ HeldBy(ac, i) \in Nat /\ HostBy(ho, i) \in Nat
                       /\ x[i] \in Nat /\ o[i] = Sum(st, ac, ho, x, i)

\* They are those of the operands, the activations and the host.
LEMMA CountsSay ==
    ASSUME Inv, CountInv, flaws \cap Bad = {}
    PROVE  /\ Stands(stack, acts, host)
           /\ \E x, o : /\ Spare(flaws, Len(heap), x)
                        /\ Counted(Len(heap), heap, stack, acts, host, x, o)
                        /\ o = Roots(Len(heap), stack, acts, host, x)
  <1>1. Accounted(heap, stack, acts, host, flaws)
    BY DEF CountInv
  <1>2. PICK x : /\ Spare(flaws, Len(heap), x)
                 /\ Owed(Len(heap), heap, Roots(Len(heap), stack, acts, host, x), {}, <<>>)
    BY <1>1 DEF Accounted, Counts
  <1>3. PICK n, o : n = Len(heap) /\ o = Roots(Len(heap), stack, acts, host, x)
    OBVIOUS
  <1>4. /\ n \in Nat /\ stack \in Seq(0..n) /\ acts \in Seq(Acts(Classes, n))
        /\ host \in [inst : 0..n, refs : Nat] /\ x \in [1..n -> Nat]
    BY <1>2, <1>3, NowTypes DEF Spare
  <1>5. o \in [1..n -> Nat]
    BY <1>3, <1>4, RootsIs
  <1>6. ASSUME NEW i \in 1..n
        PROVE  /\ Count(i, stack) \in Nat /\ HeldBy(acts, i) \in Nat /\ HostBy(host, i) \in Nat
               /\ x[i] \in Nat /\ o[i] = Sum(stack, acts, host, x, i)
    <2>1. /\ Count(i, stack) \in Nat /\ HeldBy(acts, i) \in Nat /\ HostBy(host, i) \in Nat
          /\ x[i] \in Nat
      BY <1>4, RootsIs
    <2>2. o[i] = Count(i, stack) + HeldBy(acts, i) + HostBy(host, i) + x[i]
      BY <1>3 DEF Roots
    <2>3. QED
      BY <2>1, <2>2 DEF Sum
  <1>7. Owed(n, heap, o, {}, <<>>)
    BY <1>2, <1>3
  <1>8. Counted(n, heap, stack, acts, host, x, o)
    BY <1>4, <1>5, <1>6, <1>7 DEF Counted
  <1>9. Stands(stack, acts, host)
    BY <1>1 DEF Accounted
  <1>10. QED
    BY <1>2, <1>3, <1>8, <1>9

\* The numbers of references after a step
LEMMA NextRoots ==
    ASSUME Inv', prog' = prog, NEW n, n = Len(heap'), NEW y \in [1..n -> Nat]
    PROVE  \E b : /\ b = Roots(n, stack', acts', host', y) /\ b \in [1..n -> Nat]
                  /\ \A i \in 1..n : /\ Count(i, stack') \in Nat /\ HeldBy(acts', i) \in Nat
                                     /\ HostBy(host', i) \in Nat /\ y[i] \in Nat
                                     /\ b[i] = Sum(stack', acts', host', y, i)
  <1>1. PICK b : b = Roots(n, stack', acts', host', y)
    OBVIOUS
  <1>2. PICK st, ac, ho : st = stack' /\ ac = acts' /\ ho = host'
    OBVIOUS
  <1>3. /\ n \in Nat /\ st \in Seq(0..n) /\ ac \in Seq(Acts(Classes, n)) /\ ho \in [inst : 0..n, refs : Nat]
    BY <1>2, NextTypes
  <1>4. b = Roots(n, st, ac, ho, y)
    BY <1>1, <1>2
  <1>5. b \in [1..n -> Nat]
    BY <1>3, <1>4, RootsIs
  <1>6. ASSUME NEW i \in 1..n
        PROVE  /\ Count(i, st) \in Nat /\ HeldBy(ac, i) \in Nat /\ HostBy(ho, i) \in Nat /\ y[i] \in Nat
               /\ b[i] = Sum(st, ac, ho, y, i)
    <2>1. /\ Count(i, st) \in Nat /\ HeldBy(ac, i) \in Nat /\ HostBy(ho, i) \in Nat /\ y[i] \in Nat
      BY <1>3, RootsIs
    <2>2. b[i] = Count(i, st) + HeldBy(ac, i) + HostBy(ho, i) + y[i]
      BY <1>4 DEF Roots
    <2>3. QED
      BY <2>1, <2>2 DEF Sum
  <1>7. QED
    BY <1>1, <1>2, <1>5, <1>6

\* They account for the state that the step leads to.
LEMMA CountsBy ==
    ASSUME NEW n, n = Len(heap'), NEW y, Spare(flaws', n, y), Stands(stack', acts', host'),
           Owed(n, heap', Roots(n, stack', acts', host', y), {}, <<>>)
    PROVE  Accounted(heap', stack', acts', host', flaws')
  BY DEF Accounted, Counts

\* The locals of a frame have references: it owns them, or they are on the stack.
LEMMA LocalNeeds ==
    ASSUME Inv, Stands(stack, acts, host), NEW x, NEW o,
           Counted(Len(heap), heap, stack, acts, host, x, o),
           o = Roots(Len(heap), stack, acts, host, x),
           NEW m \in 1..Len(acts), acts[m].k = "frame", NEW j \in 1..Len(acts[m].locals),
           acts[m].locals[j] # Plain
    PROVE  Rooted(Len(heap), o, acts[m].locals[j])
  <1>1. PICK n, f, q : n = Len(heap) /\ f = acts[m] /\ q = f.locals
    OBVIOUS
  <1>2. /\ n \in Nat /\ heap \in Heaps(Classes, n) /\ stack \in Seq(0..n) /\ acts \in Seq(Acts(Classes, n))
        /\ host \in [inst : 0..n, refs : Nat] /\ x \in [1..n -> Nat]
        /\ o = Roots(n, stack, acts, host, x)
    BY <1>1, NowTypes DEF Counted
  <1>3. \A k \in 1..Len(stack) : stack[k] # Plain => Rooted(n, o, stack[k])
    BY <1>2, RootNeeds
  <1>4. \A k \in 1..Len(Held(f)) : Held(f)[k] # Plain => Rooted(n, o, Held(f)[k])
    BY <1>1, <1>2, RootNeeds
  <1>5. f \in Acts(Classes, n)
    BY <1>1, <1>2
  <1>6. Held(f) = Owned(f)
    BY <1>1, <1>5, HeldTypes
  <1>7. f.base \in Nat /\ Low(f) = f.base /\ q \in Seq(0..n) /\ Len(q) \in Nat /\ Len(q) >= 2
    BY <1>1, <1>5, BaseIs
  <1>8. CASE Owns(f)
    <2>1. Held(f) = q
      BY <1>1, <1>6, <1>8 DEF Owned, Owns
    <2>2. QED
      BY <1>1, <1>4, <2>1
  <1>9. CASE ~Owns(f)
    <2>1. Held(f) = <<q[Len(q)]>>
      BY <1>1, <1>6, <1>9 DEF Owned, Owns
    <2>2. CASE j = Len(q)
      <3>1. 1 \in 1..Len(Held(f)) /\ Held(f)[1] = q[j]
        BY <2>1, <2>2
      <3>2. QED
        BY <1>1, <1>4, <3>1
    <2>3. CASE j # Len(q)
      <3>1. Copy(stack, f)
        BY <1>1, <1>9 DEF Stands, Copied
      <3>2. PICK w, e : w = Len(q) - 1 /\ e = f.base
        OBVIOUS
      <3>3. w <= e /\ \A k \in 1..w : q[k] = stack[e - w + k]
        BY <1>1, <3>1, <3>2 DEF Copy
      <3>4. w \in Nat /\ e \in Nat /\ j \in 1..w
        BY <1>1, <1>7, <2>3, <3>2
      <3>5. e <= Len(stack) /\ Len(stack) \in Nat
        <4>1. Low(f) <= Len(stack)
          BY <1>1, NowTypes DEF State, Layered
        <4>2. QED
          BY <1>2, <1>7, <3>2, <4>1
      <3>6. e - w + j \in 1..Len(stack)
        BY <3>3, <3>4, <3>5, CopyPlaces
      <3>7. QED
        BY <1>1, <1>3, <3>3, <3>4, <3>6
    <2>4. QED
      BY <2>2, <2>3
  <1>10. QED
    BY <1>8, <1>9

\* They are alive.
LEMMA LocalLives ==
    ASSUME Inv, Stands(stack, acts, host), NEW x, NEW o,
           Counted(Len(heap), heap, stack, acts, host, x, o),
           o = Roots(Len(heap), stack, acts, host, x),
           NEW m \in 1..Len(acts), acts[m].k = "frame", NEW j \in 1..Len(acts[m].locals),
           acts[m].locals[j] # Plain
    PROVE  Alive(heap, acts[m].locals[j])
  <1>1. PICK n, v : n = Len(heap) /\ v = acts[m].locals[j]
    OBVIOUS
  <1>2. n \in Nat /\ heap \in Heaps(Classes, n)
    BY <1>1, NowTypes
  <1>3. o \in [1..n -> Nat] /\ Owed(n, heap, o, {}, <<>>)
    BY <1>1 DEF Counted
  <1>4. Rooted(n, o, v)
    BY <1>1, LocalNeeds
  <1>5. QED
    BY <1>1, <1>2, <1>3, <1>4, NeededLives DEF Rooted

\* The part of the stack of the frame on top is above those of the others.
LEMMA LowIs ==
    ASSUME NEW C, NEW D, NEW h, NEW st, NEW ac, State(C, D, h, st, ac), ac # <<>>,
           ac[Len(ac)].k = "frame"
    PROVE  \A m \in 1..Len(ac) : Low(ac[m]) <= ac[Len(ac)].base
  <1>1. /\ Len(ac) \in Nat /\ \A m \in 1..Len(ac) : ac[m] \in Acts(C, Len(h))
        /\ Len(h) \in Nat
    BY StateTypes
  <1>2. Len(ac) \in 1..Len(ac)
    <2>1. ac \in Seq(Acts(C, Len(h)))
      BY DEF State
    <2>2. QED
      BY <2>1
  <1>3. PICK f : f = ac[Len(ac)]
    OBVIOUS
  <1>4. f \in Acts(C, Len(h)) /\ f.k = "frame"
    BY <1>1, <1>2, <1>3
  <1>5. f.base \in Nat /\ Low(f) = f.base
    BY <1>1, <1>4, BaseIs
  <1>6. ASSUME NEW m \in 1..Len(ac) PROVE Low(ac[m]) <= f.base
    <2>1. CASE m = Len(ac)
      BY <1>3, <1>5, <2>1
    <2>2. CASE m # Len(ac)
      <3>1. m < Len(ac)
        BY <1>1, <2>2
      <3>2. QED
        BY <1>2, <1>3, <1>4, <3>1 DEF State, Layered
    <2>3. QED
      BY <2>1, <2>2
  <1>7. QED
    BY <1>3, <1>6

-----------------------------------------------------------------------------
(* The references of frames                                                *)

\* A frame is left: what it has on the stack and what it owns are cleared, and
\* its result, which is on the stack, is counted before that.
LEMMA LeaveAccounts ==
    ASSUME Inv, Inv', prog' = prog, CountInv, flaws' \cap Bad = {}, flaws' = flaws, host' = host,
           acts # <<>>, Top.k = "frame", NEW e, NEW rv \in 0..Len(heap),
           rv # Plain => \E q \in 1..Len(stack) : stack[q] = rv, leaveFrame(e, rv)
    PROVE  Accounted(heap', stack', acts', host', flaws')
  <1> DEFINE n == Len(heap)
             result == IF e = "EXCEPTION" \/ (e = "NONE" /\ Ret(Top.sig)) THEN <<rv>> ELSE <<>>
             V == 0..n
             low == SubSeq(stack, 1, Top.base)
             up == SubSeq(stack, Top.base + 1, Len(stack))
             own == Owned(Top)
  <1>1. /\ n \in Nat /\ heap \in Heaps(Classes, n) /\ stack \in Seq(V) /\ acts \in Seq(Acts(Classes, n))
        /\ host \in [inst : 0..n, refs : Nat] /\ State(Classes, Depths, heap, stack, acts)
        /\ Len(stack) \in Nat
    BY NowTypes, InvSays
  <1>2. /\ Top.base \in 0..Len(stack) /\ Low(Top) = Top.base /\ Top = acts[Len(acts)]
        /\ own \in Seq(V) /\ Len(acts) \in 1..Len(acts) /\ Top \in Acts(Classes, n)
    BY TopFrame, TopIs
  <1>3. result \in Seq(V) /\ \A k \in 1..Len(result) : result[k] = rv
    <2>1. <<rv>> \in Seq(V) /\ Len(<<rv>>) = 1 /\ <<rv>>[1] = rv /\ <<>> \in Seq(V) /\ Len(<<>>) = 0
      OBVIOUS
    <2>2. result = <<rv>> \/ result = <<>>
      OBVIOUS
    <2>3. PICK r, one : r = result /\ one = <<rv>>
      OBVIOUS
    <2> HIDE DEF result, V
    <2>4. one \in Seq(V) /\ Len(one) = 1 /\ one[1] = rv
      BY <2>1, <2>3
    <2>5. CASE r = one
      BY <2>3, <2>4, <2>5
    <2>6. CASE r = <<>>
      BY <2>1, <2>3, <2>6
    <2>7. QED
      BY <2>2, <2>3, <2>5, <2>6
  <1>4. /\ heap' = varClear(jsinstRefs(heap, result), up \o own) /\ stack' = low \o result
        /\ acts' = Below
    BY DEF leaveFrame
  <1> HIDE DEF result, V, own
  <1>5. low \in Seq(V) /\ Len(low) = Top.base /\ up \in Seq(V) /\ \A k \in 1..Top.base : low[k] = stack[k]
    BY <1>1, <1>2, Slices
  <1>6. \A i : Count(i, stack) = Count(i, low) + Count(i, up)
    BY <1>1, <1>2, CountParts
  <1> HIDE DEF low, up
  <1>7. up \o own \in Seq(V) /\ \A i : Count(i, up \o own) = Count(i, up) + Count(i, own)
    BY <1>2, <1>5, CountTwo, Joined
  <1>8. \A i : Count(i, stack') = Count(i, low) + Count(i, result)
    BY <1>3, <1>4, <1>5, CountTwo
  <1>9. \A i : HeldBy(acts, i) = HeldBy(acts', i) + Count(i, own)
    <2>1. Held(Top) = own
      BY <1>2, HeldTypes DEF own
    <2>2. QED
      BY <1>1, <1>2, <1>4, <2>1, HeldPop DEF Below
  <1>10. PICK x, o : /\ Spare(flaws, n, x) /\ Counted(n, heap, stack, acts, host, x, o)
                     /\ o = Roots(n, stack, acts, host, x)
    BY CountsSay
  <1>11. Stands(stack, acts, host)
    BY CountsSay
  <1>12. Len(heap') = n
    BY LeaveKeeps
  <1>13. x \in [1..n -> Nat]
    BY <1>10 DEF Counted
  <1>14. PICK b : /\ b = Roots(n, stack', acts', host', x) /\ b \in [1..n -> Nat]
                  /\ \A i \in 1..n : /\ Count(i, stack') \in Nat /\ HeldBy(acts', i) \in Nat
                                     /\ HostBy(host', i) \in Nat /\ x[i] \in Nat
                                     /\ b[i] = Sum(stack', acts', host', x, i)
    BY <1>12, <1>13, NextRoots
  <1>15. ASSUME NEW i \in 1..n PROVE b[i] + Count(i, up \o own) = o[i] + Count(i, result)
    <2>1. PICK lo, hi, re, ow, he, ht, xx :
              /\ lo = Count(i, low) /\ hi = Count(i, up) /\ re = Count(i, result) /\ ow = Count(i, own)
              /\ he = HeldBy(acts', i) /\ ht = HostBy(host, i) /\ xx = x[i]
      OBVIOUS
    <2>2. lo \in Nat /\ hi \in Nat /\ re \in Nat /\ ow \in Nat
      BY <1>2, <1>3, <1>5, <2>1, CountIs
    <2>3. he \in Nat /\ ht \in Nat /\ xx \in Nat
      BY <1>14, <2>1
    <2>4. o[i] = Count(i, stack) + HeldBy(acts, i) + HostBy(host, i) + x[i]
      BY <1>10 DEF Counted, Sum
    <2>5. b[i] = Count(i, stack') + HeldBy(acts', i) + HostBy(host', i) + x[i]
      BY <1>14 DEF Sum
    <2>6. Count(i, stack) = lo + hi /\ HeldBy(acts, i) = he + ow /\ Count(i, stack') = lo + re
          /\ Count(i, up \o own) = hi + ow
      BY <1>6, <1>7, <1>8, <1>9, <2>1
    <2>7. o[i] = lo + hi + (he + ow) + ht + xx /\ b[i] = lo + re + he + ht + xx
      BY <2>1, <2>4, <2>5, <2>6
    <2>8. b[i] + (hi + ow) = o[i] + re
      BY <2>2, <2>3, <2>7
    <2>9. QED
      BY <2>1, <2>6, <2>8
  <1>16. \A k \in 1..Len(result) : result[k] # Plain => Alive(heap, result[k])
    <2>1. Owed(n, heap, Roots(n, stack, acts, host, x), {}, <<>>)
      BY <1>10 DEF Counted
    <2>2. \A q \in 1..Len(stack) : stack[q] # Plain => Alive(heap, stack[q])
      BY <1>1, <1>13, <2>1, RootLives DEF V
    <2>3. QED
      BY <1>3, <2>2
  <1>17. Owed(n, heap', b, {}, <<>>)
    <2>1. o \in [1..n -> Nat] /\ Owed(n, heap, o, {}, <<>>)
      BY <1>10 DEF Counted
    <2>2. Owed(n, varClear(jsinstRefs(heap, result), up \o own), b, {}, <<>>)
      BY <1>1, <1>3, <1>7, <1>14, <1>15, <1>16, <2>1, Moves DEF V
    <2>3. QED
      BY <1>4, <2>2
  <1>18. Stands(stack', acts', host')
    <2>1. /\ stack' \in Seq(V) /\ Len(stack') >= Top.base
          /\ \A k \in 1..Top.base : stack'[k] = stack[k]
      <3>1. low \o result \in Seq(V) /\ Len(low \o result) = Len(low) + Len(result)
        BY <1>3, <1>5, Joined
      <3>2. \A k \in 1..Len(low) : (low \o result)[k] = low[k]
        BY <1>3, <1>5, Joined
      <3>3. Len(result) \in Nat /\ Len(low) \in Nat
        BY <1>3, <1>5
      <3>4. QED
        BY <1>4, <1>5, <3>1, <3>2, <3>3
    <2>2. State(Classes, Depths, heap, stack', acts)
      <3>1. Same(heap, heap)
        BY DEF Same
      <3>2. Fits(heap, stack', acts)
        BY <1>1, <2>1, <3>1, FrameChanges DEF V
      <3>3. QED
        BY <3>2 DEF Fits
    <2>3. \A m \in 1..Len(acts) : Low(acts[m]) <= Top.base
      BY <1>1, <1>2, LowIs
    <2>4. Stands(stack', acts, host)
      <3>1. PICK d : d = Top.base
        OBVIOUS
      <3>2. d \in Nat /\ d <= Len(stack) /\ d <= Len(stack') /\ stack' \in Seq(0..Len(heap))
        BY <1>1, <1>2, <2>1, <3>1 DEF V
      <3>3. \E m \in 1..Len(acts) : acts[m].k = "frame"
        BY <1>2
      <3>4. (\A q \in 1..d : stack'[q] = stack[q]) /\ \A m \in 1..Len(acts) : Low(acts[m]) <= d
        BY <2>1, <2>3, <3>1
      <3>5. QED
        BY <1>1, <1>11, <3>2, <3>3, <3>4, StandStack
    <2>5. QED
      BY <1>4, <2>2, <2>4, StandPop DEF Below
  <1>19. Spare(flaws', n, x)
    BY <1>10
  <1>20. QED
    BY <1>12, <1>14, <1>17, <1>18, <1>19, CountsBy

-----------------------------------------------------------------------------
(* Steps, by what they do to the heap                                      *)

\* What accounts for the state that a step leads to
LEMMA AccountBy ==
    ASSUME Inv', prog' = prog, NEW n, n = Len(heap'), NEW y, Spare(flaws', n, y),
           Stands(stack', acts', host'), NEW b \in [1..n -> Nat], Owed(n, heap', b, {}, <<>>),
           \A i \in 1..n : b[i] = Sum(stack', acts', host', y, i)
    PROVE  Accounted(heap', stack', acts', host', flaws')
  <1>1. y \in [1..n -> Nat]
    BY DEF Spare
  <1>2. PICK c : /\ c = Roots(n, stack', acts', host', y) /\ c \in [1..n -> Nat]
                 /\ \A i \in 1..n : /\ Count(i, stack') \in Nat /\ HeldBy(acts', i) \in Nat
                                    /\ HostBy(host', i) \in Nat /\ y[i] \in Nat
                                    /\ c[i] = Sum(stack', acts', host', y, i)
    BY <1>1, NextRoots
  <1>3. \A i \in 1..n : b[i] = c[i]
    BY <1>2
  <1>4. b = c
    BY <1>2, <1>3
  <1>5. QED
    BY <1>2, <1>4, CountsBy

\* The sums before a step are numbers
LEMMA SumNat ==
    ASSUME NEW n, NEW h, NEW st, NEW ac, NEW ho, NEW x, NEW o, Counted(n, h, st, ac, ho, x, o)
    PROVE  /\ \A i \in 1..n : Sum(st, ac, ho, x, i) \in Nat /\ o[i] = Sum(st, ac, ho, x, i)
           /\ o \in [1..n -> Nat] /\ Owed(n, h, o, {}, <<>>) /\ x \in [1..n -> Nat]
  BY DEF Counted

\* And so are those after it
LEMMA SumNext ==
    ASSUME Inv', prog' = prog, NEW n, n = Len(heap'), NEW y \in [1..n -> Nat]
    PROVE  /\ \A i \in 1..n : Sum(stack', acts', host', y, i) \in Nat
           /\ \E b \in [1..n -> Nat] : \A i \in 1..n : b[i] = Sum(stack', acts', host', y, i)
  <1>1. PICK b : /\ b = Roots(n, stack', acts', host', y) /\ b \in [1..n -> Nat]
                 /\ \A i \in 1..n : /\ Count(i, stack') \in Nat /\ HeldBy(acts', i) \in Nat
                                    /\ HostBy(host', i) \in Nat /\ y[i] \in Nat
                                    /\ b[i] = Sum(stack', acts', host', y, i)
    BY NextRoots
  <1>2. \A i \in 1..n : b[i] \in Nat
    BY <1>1
  <1>3. QED
    BY <1>1, <1>2

\* The heap stays
LEMMA StayAccounts ==
    ASSUME Inv', prog' = prog, heap' = heap, NEW n, n = Len(heap), NEW x, NEW o,
           Counted(n, heap, stack, acts, host, x, o), NEW y, Spare(flaws', n, y),
           Stands(stack', acts', host'),
           \A i \in 1..n : Sum(stack', acts', host', y, i) = Sum(stack, acts, host, x, i)
    PROVE  Accounted(heap', stack', acts', host', flaws')
  <1>1. /\ \A i \in 1..n : o[i] = Sum(stack', acts', host', y, i)
        /\ o \in [1..n -> Nat] /\ Owed(n, heap', o, {}, <<>>) /\ n = Len(heap')
    BY SumNat
  <1>2. QED
    BY <1>1, AccountBy

\* Values are counted
LEMMA RefsAccount ==
    ASSUME Inv, Inv', prog' = prog, NEW n, n = Len(heap), NEW us \in Seq(0..n),
           heap' = jsinstRefs(heap, us), \A k \in 1..Len(us) : us[k] # Plain => Alive(heap, us[k]),
           NEW x, NEW o, Counted(n, heap, stack, acts, host, x, o), NEW y, Spare(flaws', n, y),
           Stands(stack', acts', host'),
           \A i \in 1..n : Sum(stack', acts', host', y, i) = Sum(stack, acts, host, x, i) + Count(i, us)
    PROVE  Accounted(heap', stack', acts', host', flaws')
  <1>1. n \in Nat /\ heap \in Heaps(Classes, n)
    BY NowTypes
  <1>2. /\ \A i \in 1..n : o[i] = Sum(stack, acts, host, x, i)
        /\ o \in [1..n -> Nat] /\ Owed(n, heap, o, {}, <<>>)
    BY SumNat
  <1>3. n = Len(heap')
    BY <1>1, RefsTypes, HeapTypes
  <1>4. y \in [1..n -> Nat]
    BY DEF Spare
  <1>5. PICK b \in [1..n -> Nat] : \A i \in 1..n : b[i] = Sum(stack', acts', host', y, i)
    BY <1>3, <1>4, SumNext
  <1>6. \A i \in 1..n : b[i] = o[i] + Count(i, us)
    BY <1>2, <1>5
  <1>7. Owed(n, heap', b, {}, <<>>)
    BY <1>1, <1>2, <1>6, RefsOwed
  <1>8. QED
    BY <1>3, <1>5, <1>7, AccountBy

\* One value is counted
LEMMA RefAccounts ==
    ASSUME Inv, Inv', prog' = prog, NEW n, n = Len(heap), NEW v \in 0..n,
           heap' = jsinstRef(heap, v), v # Plain => Alive(heap, v),
           NEW x, NEW o, Counted(n, heap, stack, acts, host, x, o), NEW y, Spare(flaws', n, y),
           Stands(stack', acts', host'),
           \A i \in 1..n : Sum(stack', acts', host', y, i)
                           = Sum(stack, acts, host, x, i) + (IF v = i THEN 1 ELSE 0)
    PROVE  Accounted(heap', stack', acts', host', flaws')
  <1>1. n \in Nat /\ heap \in Heaps(Classes, n)
    BY NowTypes
  <1>2. /\ \A i \in 1..n : o[i] = Sum(stack, acts, host, x, i)
        /\ o \in [1..n -> Nat] /\ Owed(n, heap, o, {}, <<>>)
    BY SumNat
  <1>3. n = Len(heap')
    BY <1>1, RefTypes, HeapTypes
  <1>4. y \in [1..n -> Nat]
    BY DEF Spare
  <1>5. PICK b \in [1..n -> Nat] : \A i \in 1..n : b[i] = Sum(stack', acts', host', y, i)
    BY <1>3, <1>4, SumNext
  <1>6. \A i \in 1..n : b[i] = o[i] + (IF v = i THEN 1 ELSE 0)
    BY <1>2, <1>5
  <1>7. Owed(n, heap', b, {}, <<>>)
    BY <1>1, <1>2, <1>6, RefOwed
  <1>8. QED
    BY <1>3, <1>5, <1>7, AccountBy

\* Values are cleared
LEMMA DropAccounts ==
    ASSUME Inv, Inv', prog' = prog, NEW n, n = Len(heap), NEW vs \in Seq(0..n),
           heap' = varClear(heap, vs),
           NEW x, NEW o, Counted(n, heap, stack, acts, host, x, o), NEW y, Spare(flaws', n, y),
           Stands(stack', acts', host'),
           \A i \in 1..n : Sum(stack', acts', host', y, i) + Count(i, vs) = Sum(stack, acts, host, x, i)
    PROVE  Accounted(heap', stack', acts', host', flaws')
  <1>1. n \in Nat /\ heap \in Heaps(Classes, n)
    BY NowTypes
  <1>2. /\ \A i \in 1..n : o[i] = Sum(stack, acts, host, x, i)
        /\ o \in [1..n -> Nat] /\ Owed(n, heap, o, {}, <<>>)
    BY SumNat
  <1>3. n = Len(heap')
    BY <1>1, ClearTypes, HeapTypes
  <1>4. y \in [1..n -> Nat]
    BY DEF Spare
  <1>5. PICK b \in [1..n -> Nat] : \A i \in 1..n : b[i] = Sum(stack', acts', host', y, i)
    BY <1>3, <1>4, SumNext
  <1>6. \A i \in 1..n : o[i] = b[i] + Count(i, vs)
    BY <1>2, <1>5
  <1>7. Anchored(n, heap, b, {})
    BY DEF Anchored
  <1>8. Owed(n, heap', b, {}, <<>>)
    BY <1>1, <1>2, <1>6, <1>7, DropOwed
  <1>9. QED
    BY <1>3, <1>5, <1>8, AccountBy

\* A reference that is lost
Lost(n, x, v) == [i \in 1..n |-> x[i] + (IF v = i THEN 1 ELSE 0)]

\* It is counted among those that are lost
LEMMA LostIs ==
    ASSUME NEW n \in Nat, NEW fl, NEW x, Spare(fl, n, x), NEW v, NEW fl2, fl \subseteq fl2,
           fl2 = {} => v = Plain
    PROVE  Spare(fl2, n, Lost(n, x, v))
           /\ \A i \in 1..n : Lost(n, x, v)[i] = x[i] + (IF v = i THEN 1 ELSE 0)
  <1>1. x \in [1..n -> Nat] /\ (fl = {} => \A i \in 1..n : x[i] = 0)
    BY DEF Spare
  <1>2. \A i \in 1..n : Lost(n, x, v)[i] = x[i] + (IF v = i THEN 1 ELSE 0)
    BY DEF Lost
  <1>3. \A i \in 1..n : x[i] + (IF v = i THEN 1 ELSE 0) \in Nat
    <2> TAKE i \in 1..n
    <2>1. x[i] \in Nat
      BY <1>1
    <2>2. QED
      BY <2>1
  <1>4. Lost(n, x, v) \in [1..n -> Nat]
    BY <1>3 DEF Lost
  <1>5. ASSUME fl2 = {} PROVE \A i \in 1..n : Lost(n, x, v)[i] = 0
    <2>1. fl = {} /\ v = Plain
      BY <1>5
    <2>2. \A i \in 1..n : v # i
      BY <2>1 DEF Plain
    <2>3. ASSUME NEW i \in 1..n PROVE Lost(n, x, v)[i] = 0
      <3>1. x[i] = 0 /\ v # i
        BY <1>1, <2>1, <2>2
      <3>2. Lost(n, x, v)[i] = x[i] + 0
        BY <1>2, <3>1
      <3>3. QED
        BY <3>1, <3>2
    <2>4. QED
      BY <2>3
  <1>6. QED
    BY <1>2, <1>4, <1>5 DEF Spare

-----------------------------------------------------------------------------
(* Calls and loads                                                         *)

\* A frame that has been called with the values vs
CalledWith(f, vs) == f.k = "frame" /\ f.locals = vs \o <<Plain>>

\* A frame that owns the values it was called with holds them.
LEMMA FrameHeld ==
    ASSUME NEW n \in Nat, NEW vs \in Seq(0..n), NEW f, CalledWith(f, vs), Owns(f), NEW i \in 1..n
    PROVE  Count(i, Held(f)) = Count(i, vs)
  <1>1. Plain \in 0..n
    BY DEF Plain
  <1>2. PICK q, p : q = vs \o <<Plain>> /\ p = <<Plain>>
    OBVIOUS
  <1>3. p \in Seq(0..n) /\ q = vs \o p
    BY <1>1, <1>2
  <1>4. f.k = "frame" /\ f.locals = q
    BY <1>2 DEF CalledWith
  <1>5. Held(f) = q
    BY <1>4 DEF Held, Owned, Owns
  <1>6. Count(i, p) = 0
    <2>1. Plain # i
      BY DEF Plain
    <2>2. QED
      BY <1>2, <2>1, CountOne
  <1>7. Count(i, q) = Count(i, vs) + Count(i, p)
    BY <1>3, CountTwo
  <1>8. Count(i, vs) \in Nat
    BY CountIs
  <1>9. Count(i, q) = Count(i, vs)
    BY <1>6, <1>7, <1>8
  <1>10. QED
    BY <1>5, <1>9

\* One that does not own them holds its variable, which is plain.
LEMMA CopyHeld ==
    ASSUME NEW n \in Nat, NEW vs \in Seq(0..n), NEW f, CalledWith(f, vs), ~Owns(f), NEW i \in 1..n
    PROVE  Count(i, Held(f)) = 0
  <1>1. Plain \in 0..n
    BY DEF Plain
  <1>2. PICK q, p : q = vs \o <<Plain>> /\ p = <<Plain>>
    OBVIOUS
  <1>3. p \in Seq(0..n) /\ q = vs \o p /\ q \in Seq(0..n) /\ Len(q) = Len(vs) + 1
        /\ q[Len(q)] = Plain
    BY <1>1, <1>2
  <1>4. f.k = "frame" /\ f.locals = q
    BY <1>2 DEF CalledWith
  <1>5. <<f.locals[Len(f.locals)]>> = p
    BY <1>2, <1>3, <1>4
  <1>6. Held(f) = p
    BY <1>4, <1>5 DEF Held, Owned, Owns
  <1>7. Plain # i
    BY DEF Plain
  <1>8. QED
    BY <1>2, <1>6, <1>7, CountOne

\* A frame that owns the values it was called with, and one that does not
OwnFrame(ctx, def, sig, vs, base)  == Frame(ctx, def, sig, vs, TRUE, base)
CopyFrame(ctx, def, sig, vs, base) == Frame(ctx, def, sig, vs, FALSE, base)

\* What the first is
LEMMA FrameOwns ==
    ASSUME NEW ctx, NEW def, NEW sig, NEW vs, NEW base, NEW f, f = OwnFrame(ctx, def, sig, vs, base)
    PROVE  f.k = "frame" /\ f.base = base /\ Owns(f) /\ f.locals = vs \o <<Plain>>
  <1>1. f.k = "frame" /\ f.base = base /\ f.locals = vs \o <<Plain>>
    BY DEF OwnFrame, Frame
  <1>2. Owns(f)
    BY DEF OwnFrame, Frame, Owns
  <1>3. QED
    BY <1>1, <1>2

\* What the second is
IsCopy(f, vs, base) == f.k = "frame" /\ f.base = base /\ ~Owns(f) /\ f.locals = vs \o <<Plain>>

\* It is that
LEMMA FrameCopies ==
    ASSUME NEW ctx, NEW def, NEW sig, NEW vs, NEW base
    PROVE  IsCopy(CopyFrame(ctx, def, sig, vs, base), vs, base)
  <1>1. PICK f : f = CopyFrame(ctx, def, sig, vs, base)
    OBVIOUS
  <1>2. f.k = "frame" /\ f.base = base /\ f.locals = vs \o <<Plain>>
    BY <1>1 DEF CopyFrame, Frame
  <1>3. ~Owns(f)
    BY <1>1 DEF CopyFrame, Frame, Owns
  <1>4. QED
    BY <1>1, <1>2, <1>3 DEF IsCopy

\* The stack is longer
LEMMA StandMore ==
    ASSUME Inv, Stands(stack, acts, host), NEW st2 \in Seq(0..Len(heap)), Len(st2) >= Len(stack),
           \A q \in 1..Len(stack) : st2[q] = stack[q]
    PROVE  Stands(st2, acts, host)
  <1>1. State(Classes, Depths, heap, stack, acts) /\ Len(stack) \in Nat
    BY NowTypes, InvSays
  <1>2. \A m \in 1..Len(acts) : Low(acts[m]) <= Len(stack)
    BY <1>1 DEF State, Layered
  <1>3. Len(stack) <= Len(st2) /\ Len(stack) <= Len(stack)
    <2>1. Len(st2) \in Nat
      OBVIOUS
    <2>2. QED
      BY <1>1, <2>1
  <1>4. QED
    BY <1>1, <1>2, <1>3, StandStack

\* Values are pushed
LEMMA PushAccounts ==
    ASSUME Inv, Inv', prog' = prog, CountInv, flaws' \cap Bad = {}, flaws' = flaws, host' = host,
           NEW vs \in Seq(0..Len(heap)), heap' = jsinstRefs(heap, vs), stack' = stack \o vs,
           acts' = acts, \A k \in 1..Len(vs) : vs[k] # Plain => Alive(heap, vs[k])
    PROVE  Accounted(heap', stack', acts', host', flaws')
  <1>1. PICK n : n = Len(heap)
    OBVIOUS
  <1>2. n \in Nat /\ stack \in Seq(0..n) /\ vs \in Seq(0..n)
    BY <1>1, NowTypes
  <1>3. Stands(stack, acts, host)
    BY CountsSay
  <1>4. PICK x, o : Spare(flaws, n, x) /\ Counted(n, heap, stack, acts, host, x, o)
    BY <1>1, CountsSay
  <1>5. Stands(stack', acts', host')
    <2>1. PICK st : st = stack \o vs
      OBVIOUS
    <2>2. /\ st \in Seq(0..n) /\ Len(st) >= Len(stack)
          /\ \A q \in 1..Len(stack) : st[q] = stack[q]
      <3>1. st \in Seq(0..n) /\ Len(st) = Len(stack) + Len(vs)
        BY <1>2, <2>1, Joined
      <3>2. \A q \in 1..Len(stack) : st[q] = stack[q]
        BY <1>2, <2>1, Joined
      <3>3. Len(stack) \in Nat /\ Len(vs) \in Nat
        BY <1>2
      <3>4. QED
        BY <3>1, <3>2, <3>3
    <2>3. Stands(st, acts, host)
      BY <1>1, <1>3, <2>2, StandMore
    <2>4. QED
      BY <2>1, <2>3
  <1>6. ASSUME NEW i \in 1..n
        PROVE  Sum(stack', acts', host', x, i) = Sum(stack, acts, host, x, i) + Count(i, vs)
    <2>1. Count(i, stack') = Count(i, stack) + Count(i, vs)
      BY <1>2, CountTwo
    <2>2. Count(i, vs) \in Nat
      BY <1>2, CountIs
    <2>3. /\ Count(i, stack) \in Nat /\ HeldBy(acts, i) \in Nat /\ HostBy(host, i) \in Nat
          /\ x[i] \in Nat
      BY <1>4 DEF Counted
    <2>4. PICK a, b, c, d, e : /\ a = Count(i, stack) /\ b = HeldBy(acts, i) /\ c = HostBy(host, i)
                               /\ d = x[i] /\ e = Count(i, vs)
      OBVIOUS
    <2>5. (a + e) + b + c + d = (a + b + c + d) + e
      BY <2>2, <2>3, <2>4
    <2>6. QED
      BY <2>1, <2>4, <2>5 DEF Sum
  <1>7. QED
    BY <1>1, <1>2, <1>4, <1>5, <1>6, RefsAccount

\* A call, whose values become the locals of the frame, or stay on the stack
\* when there is no such method, the last of them excepted
LEMMA EnterAccounts ==
    ASSUME Inv, Inv', prog' = prog, CountInv, flaws' \cap Bad = {}, host' = host,
           acts # <<>>, Top.k = "frame", NEW vs \in Seq(0..Len(heap)), Len(vs) >= 1,
           \A k \in 1..Len(vs) : vs[k] # Plain => Alive(heap, vs[k]),
           NEW ctx \in Classes, NEW sig \in Signatures,
           Enter(jsinstRefs(heap, vs), stack, vs, ctx, sig)
    PROVE  Accounted(heap', stack', acts', host', flaws')
  <1>1. PICK n : n = Len(heap)
    OBVIOUS
  <1>2. /\ n \in Nat /\ stack \in Seq(0..n) /\ vs \in Seq(0..n) /\ acts \in Seq(Acts(Classes, n))
        /\ State(Classes, Depths, heap, stack, acts) /\ heap \in Heaps(Classes, n)
    BY <1>1, NowTypes
  <1>3. flaws \subseteq flaws'
    BY DEF Enter, history
  <1>4. flaws \cap Bad = {}
    BY <1>3
  <1>5. Stands(stack, acts, host)
    BY <1>4, CountsSay
  <1>6. PICK x, o : Spare(flaws, n, x) /\ Counted(n, heap, stack, acts, host, x, o)
    BY <1>1, <1>4, CountsSay
  <1>7. PICK def : def = jsclassFindMethod(ctx, sig)
    OBVIOUS
  <1>8. heap' = jsinstRefs(heap, vs)
    BY DEF Enter
  <1>9. ASSUME NEW i \in 1..n
        PROVE  /\ Count(i, stack) \in Nat /\ HeldBy(acts, i) \in Nat /\ HostBy(host, i) \in Nat
               /\ x[i] \in Nat /\ Count(i, vs) \in Nat
    <2>1. Count(i, vs) \in Nat
      BY <1>2, CountIs
    <2>2. QED
      BY <1>6, <2>1 DEF Counted
  <1>10. CASE def = None
    <2>1. PICK v : v = vs[Len(vs)]
      OBVIOUS
    <2>2. /\ stack' = stack \o Front(vs) /\ acts' = acts
          /\ flaws' = flaws \cup (IF IsInst(v) THEN {"leak"} ELSE {})
      BY <1>7, <1>10, <2>1 DEF Enter, Last
    <2>3. PICK y : y = Lost(n, x, v)
      OBVIOUS
    <2>4. flaws' = {} => v = Plain
      BY <2>2 DEF IsInst
    <2>5. Spare(flaws', n, y)
      BY <1>2, <1>3, <1>6, <2>3, <2>4, LostIs
    <2>6. \A i \in 1..n : y[i] = x[i] + (IF v = i THEN 1 ELSE 0)
      BY <2>3 DEF Lost
    <2>7. vs # <<>>
      BY <1>2
    <2>8. Front(vs) \in Seq(0..n)
      BY <1>2, <2>7, AllButLast
    <2>9. Stands(stack', acts', host')
      <3>1. PICK st, us : st = stack \o us /\ us = Front(vs)
        OBVIOUS
      <3>2. /\ st \in Seq(0..n) /\ Len(st) >= Len(stack)
            /\ \A q \in 1..Len(stack) : st[q] = stack[q]
        <4>1. us \in Seq(0..n)
          BY <2>8, <3>1
        <4>2. st \in Seq(0..n) /\ Len(st) = Len(stack) + Len(us)
          BY <1>2, <3>1, <4>1, Joined
        <4>3. \A q \in 1..Len(stack) : st[q] = stack[q]
          BY <1>2, <3>1, <4>1, Joined
        <4>4. Len(stack) \in Nat /\ Len(us) \in Nat
          BY <1>2, <4>1
        <4>5. QED
          BY <4>2, <4>3, <4>4
      <3>3. Stands(st, acts, host)
        BY <1>1, <1>5, <3>2, StandMore
      <3>4. QED
        BY <2>2, <3>1, <3>3
    <2>10. ASSUME NEW i \in 1..n
           PROVE  Sum(stack', acts', host', y, i) = Sum(stack, acts, host, x, i) + Count(i, vs)
      <3>1. Count(i, stack') = Count(i, stack) + Count(i, Front(vs))
        BY <1>2, <2>2, <2>8, CountTwo
      <3>2. Count(i, vs) = Count(i, Front(vs)) + (IF v = i THEN 1 ELSE 0)
        BY <1>2, <2>1, <2>7, CountFront
      <3>3. Count(i, Front(vs)) \in Nat
        BY <2>8, CountIs
      <3>4. PICK a, b, c, d, e, g : /\ a = Count(i, stack) /\ b = HeldBy(acts, i) /\ c = HostBy(host, i)
                                    /\ d = x[i] /\ e = Count(i, Front(vs)) /\ g = IF v = i THEN 1 ELSE 0
        OBVIOUS
      <3>5. a \in Nat /\ b \in Nat /\ c \in Nat /\ d \in Nat /\ e \in Nat /\ g \in Nat
        BY <1>9, <3>3, <3>4
      <3>6. (a + e) + b + c + (d + g) = (a + b + c + d) + (e + g)
        BY <3>5
      <3>7. QED
        BY <2>2, <2>6, <3>1, <3>2, <3>4, <3>6 DEF Sum
    <2>11. QED
      BY <1>1, <1>2, <1>6, <1>8, <2>5, <2>9, <2>10, RefsAccount
  <1>11. CASE def # None
    <2>1. def \in Classes
      <3>1. Ready /\ ClassInv
        BY TopIs
      <3>2. def \in Classes \cup {None}
        BY <1>7, <3>1, FindsNearest
      <3>3. QED
        BY <1>11, <3>2
    <2>2. PICK f : f = Frame(ctx, def, sig, vs, TRUE, Len(stack))
      OBVIOUS
    <2>3. stack' = stack /\ acts' = Append(acts, f) /\ flaws' = flaws
      BY <1>7, <1>11, <2>2 DEF Enter, history
    <2>4. f.k = "frame" /\ f.base = Len(stack) /\ Owns(f) /\ f.locals = vs \o <<Plain>>
      <3>1. f = OwnFrame(ctx, def, sig, vs, Len(stack))
        BY <2>2 DEF OwnFrame
      <3>2. QED
        BY <3>1, FrameOwns
    <2>5. \A i \in 1..n : Count(i, Held(f)) = Count(i, vs)
      <3>1. ASSUME NEW i \in 1..n PROVE Count(i, Held(f)) = Count(i, vs)
        <4>1. CalledWith(f, vs) /\ Owns(f)
          BY <2>4 DEF CalledWith
        <4>2. QED
          BY <1>2, <4>1, FrameHeld
      <3>2. QED
        BY <3>1
    <2>6. f \in Acts(Classes, n)
      <3>1. Len(stack) \in Nat
        BY <1>2
      <3>2. QED
        BY <1>2, <2>1, <2>2, <3>1, FrameIs
    <2>7. Stands(stack, Append(acts, f), host)
      BY <1>2, <1>5, <2>4, StandPush
    <2>8. ASSUME NEW i \in 1..n
          PROVE  Sum(stack', acts', host', x, i) = Sum(stack, acts, host, x, i) + Count(i, vs)
      <3>1. HeldBy(acts', i) = HeldBy(acts, i) + Count(i, vs)
        <4>1. HeldBy(Append(acts, f), i) = HeldBy(acts, i) + Count(i, Held(f))
          BY <1>2, <2>6, HeldPush
        <4>2. QED
          BY <2>3, <2>5, <4>1
      <3>2. PICK a, b, c, d, e : /\ a = Count(i, stack) /\ b = HeldBy(acts, i) /\ c = HostBy(host, i)
                                 /\ d = x[i] /\ e = Count(i, vs)
        OBVIOUS
      <3>3. a \in Nat /\ b \in Nat /\ c \in Nat /\ d \in Nat /\ e \in Nat
        BY <1>9, <3>2
      <3>4. a + (b + e) + c + d = (a + b + c + d) + e
        BY <3>3
      <3>5. QED
        BY <2>3, <3>1, <3>2, <3>4 DEF Sum
    <2>9. Spare(flaws', n, x) /\ Stands(stack', acts', host')
      BY <1>6, <2>3, <2>7
    <2>10. QED
      BY <1>1, <1>2, <1>6, <1>8, <2>8, <2>9, RefsAccount
  <1>12. QED
    BY <1>10, <1>11

-----------------------------------------------------------------------------
(* The steps of methods                                                    *)

\* The operands, what the activations hold, the locals of frames and the
\* fields are alive
LEMMA AllLive ==
    ASSUME Inv, CountInv, flaws \cap Bad = {}
    PROVE  /\ \A q \in 1..Len(stack) : stack[q] # Plain => Alive(heap, stack[q])
           /\ \A m \in 1..Len(acts) : \A k \in 1..Len(Held(acts[m])) :
                 Held(acts[m])[k] # Plain => Alive(heap, Held(acts[m])[k])
           /\ host.inst # Plain /\ host.refs > 0 => Alive(heap, host.inst)
           /\ \A m \in 1..Len(acts) : acts[m].k = "frame" =>
                 \A j \in 1..Len(acts[m].locals) :
                    acts[m].locals[j] # Plain => Alive(heap, acts[m].locals[j])
           /\ \A w \in 1..Len(heap) : \A k \in 1..Len(heap[w].fields) :
                 heap[w].fields[k] # Plain => Alive(heap, heap[w].fields[k])
  <1>1. PICK n : n = Len(heap)
    OBVIOUS
  <1>2. /\ n \in Nat /\ heap \in Heaps(Classes, n) /\ stack \in Seq(0..n)
        /\ acts \in Seq(Acts(Classes, n)) /\ host \in [inst : 0..n, refs : Nat]
    BY <1>1, NowTypes
  <1>3. Stands(stack, acts, host)
    BY CountsSay
  <1>4. PICK x, o : Counted(n, heap, stack, acts, host, x, o) /\ o = Roots(n, stack, acts, host, x)
    BY <1>1, CountsSay
  <1>5. x \in [1..n -> Nat] /\ o \in [1..n -> Nat] /\ Owed(n, heap, o, {}, <<>>)
    BY <1>4 DEF Counted
  <1>6. Owed(n, heap, Roots(n, stack, acts, host, x), {}, <<>>)
    BY <1>4, <1>5
  <1>7. \A q \in 1..Len(stack) : stack[q] # Plain => Alive(heap, stack[q])
    BY <1>2, <1>5, <1>6, RootLives
  <1>8. \A m \in 1..Len(acts) : \A k \in 1..Len(Held(acts[m])) :
           Held(acts[m])[k] # Plain => Alive(heap, Held(acts[m])[k])
    BY <1>2, <1>5, <1>6, RootLives
  <1>9. host.inst # Plain /\ host.refs > 0 => Alive(heap, host.inst)
    BY <1>2, <1>5, <1>6, RootLives
  <1>10. ASSUME NEW m \in 1..Len(acts), acts[m].k = "frame", NEW j \in 1..Len(acts[m].locals),
                acts[m].locals[j] # Plain
         PROVE  Alive(heap, acts[m].locals[j])
    BY <1>1, <1>3, <1>4, <1>10, LocalLives
  <1>11. ASSUME NEW w \in 1..n, NEW k \in 1..Len(heap[w].fields), heap[w].fields[k] # Plain
         PROVE  Alive(heap, heap[w].fields[k])
    <2>1. <<w, k>> \notin {}
      OBVIOUS
    <2>2. QED
      BY <1>2, <1>5, <1>11, <2>1, FieldLives
  <1>12. QED
    BY <1>1, <1>7, <1>8, <1>9, <1>10, <1>11

\* return, throw, and an exception or an error on its way
LEMMA LeavingAccounts ==
    ASSUME Inv, Inv', CountInv, flaws' \cap Bad = {}, Return \/ Throw \/ Unwind
    PROVE  Accounted(heap', stack', acts', host', flaws')
  <1>1. acts # <<>> /\ Top.k = "frame"
    BY DEF Return, Throw, Unwind, Running
  <1>2. prog' = prog /\ host' = host /\ flaws' = flaws
    BY DEF Return, Throw, Unwind, history, classVars
  <1>3. ASSUME stack # <<>>
        PROVE  Peek \in 0..Len(heap) /\ \E q \in 1..Len(stack) : stack[q] = Peek
    <2>1. stack \in Seq(0..Len(heap))
      BY NowTypes
    <2>2. Len(stack) \in 1..Len(stack) /\ stack[Len(stack)] \in 0..Len(heap)
      BY <1>3, <2>1, AllButLast
    <2>3. QED
      BY <2>2 DEF Peek
  <1>4. Len(stack) \in Nat /\ Top.base \in Nat /\ Plain \in 0..Len(heap) /\ stack \in Seq(0..Len(heap))
    BY <1>1, InvSays, TopFrame DEF Plain
  <1>5. Len(stack) > Top.base => stack # <<>>
    BY <1>4
  <1>6. PICK e, rv : /\ leaveFrame(e, rv)
                     /\ rv = Plain \/ (rv = Peek /\ stack # <<>>)
    <2>1. CASE Return
      <3>1. leaveFrame("NONE", IF Ret(Top.sig) /\ Len(stack) > Top.base THEN Peek ELSE Plain)
        BY <2>1 DEF Return
      <3>2. PICK rv : rv = IF Ret(Top.sig) /\ Len(stack) > Top.base THEN Peek ELSE Plain
        OBVIOUS
      <3>3. rv = Plain \/ (rv = Peek /\ stack # <<>>)
        BY <1>5, <3>2
      <3>4. QED
        BY <3>1, <3>2, <3>3
    <2>2. CASE Throw
      BY <1>5, <2>2 DEF Throw
    <2>3. CASE Unwind
      <3>1. leaveFrame(err, IF err = "EXCEPTION" THEN Peek ELSE Plain)
        BY <2>3 DEF Unwind
      <3>2. err = "EXCEPTION" => stack # <<>>
        BY DEF Inv, TypeInv
      <3>3. PICK rv : rv = IF err = "EXCEPTION" THEN Peek ELSE Plain
        OBVIOUS
      <3>4. rv = Plain \/ (rv = Peek /\ stack # <<>>)
        BY <3>2, <3>3
      <3>5. QED
        BY <3>1, <3>3, <3>4
    <2>4. QED
      BY <2>1, <2>2, <2>3
  <1>7. rv \in 0..Len(heap) /\ (rv # Plain => \E q \in 1..Len(stack) : stack[q] = rv)
    BY <1>3, <1>4, <1>6
  <1>8. QED
    BY <1>1, <1>2, <1>6, <1>7, LeaveAccounts

\* The values of a call are the instance and variables.
LEMMA ValueIs ==
    ASSUME Inv, acts # <<>>, Top.k = "frame", NEW x, NEW args \in Operands,
           NEW k \in 1..Len(Values(x, args))
    PROVE  Values(x, args)[k] = x \/ \E j \in 1..Len(Top.locals) : Values(x, args)[k] = Top.locals[j]
  <1>1. PICK vs, l : vs = Values(x, args) /\ l = Top.locals
    OBVIOUS
  <1>2. Len(args) \in Nat /\ \A m \in 1..Len(args) : args[m] \in 1..Len(l)
    <2>1. args = <<>> \/ \E v \in Vars : args = <<v>>
      BY DEF Operands
    <2>2. Vars = 2..Len(l) /\ Len(l) \in Nat
      BY <1>1, TopFrame DEF Vars
    <2>3. CASE args = <<>>
      BY <2>3
    <2>4. ASSUME NEW v \in Vars, args = <<v>>
          PROVE  Len(args) \in Nat /\ \A m \in 1..Len(args) : args[m] \in 1..Len(l)
      <3>1. v \in 1..Len(l)
        BY <2>2
      <3>2. Len(args) = 1 /\ args[1] = v
        BY <2>4
      <3>3. QED
        BY <3>1, <3>2
    <2>5. QED
      BY <2>1, <2>3, <2>4
  <1>3. vs = [m \in 1..(Len(args) + 1) |-> IF m = 1 THEN x ELSE l[args[m - 1]]]
    BY <1>1 DEF Values
  <1>4. Len(vs) = Len(args) + 1 /\ k \in 1..(Len(args) + 1)
    BY <1>1, <1>2, <1>3
  <1>5. vs[k] = IF k = 1 THEN x ELSE l[args[k - 1]]
    BY <1>3, <1>4
  <1>6. k # 1 => k - 1 \in 1..Len(args)
    BY <1>2, <1>4
  <1>7. QED
    BY <1>1, <1>2, <1>5, <1>6

\* They are alive.
LEMMA ValuesLive ==
    ASSUME Inv, CountInv, flaws \cap Bad = {}, acts # <<>>, Top.k = "frame",
           NEW x, x # Plain => Alive(heap, x), NEW args \in Operands,
           NEW vs, vs = Values(x, args), NEW k \in 1..Len(vs), vs[k] # Plain
    PROVE  Alive(heap, vs[k])
  <1>1. PICK m : m = Len(acts) /\ m \in 1..Len(acts) /\ Top = acts[m]
    BY TopFrame
  <1>2. \A j \in 1..Len(Top.locals) : Top.locals[j] # Plain => Alive(heap, Top.locals[j])
    BY <1>1, AllLive
  <1>3. vs[k] = x \/ \E j \in 1..Len(Top.locals) : vs[k] = Top.locals[j]
    BY ValueIs
  <1>4. QED
    BY <1>2, <1>3

\* A call of a method
LEMMA CallAccounts ==
    ASSUME Inv, Inv', CountInv, flaws' \cap Bad = {}, NEW o \in 1..Len(Top.locals),
           NEW sig \in Sigs, NEW args \in Operands, Call(o, sig, args)
    PROVE  Accounted(heap', stack', acts', host', flaws')
  <1>1. PICK v, vs : v = Top.locals[o] /\ vs = Values(v, args)
    OBVIOUS
  <1>2. acts # <<>> /\ Top.k = "frame" /\ prog' = prog /\ host' = host
    BY DEF Call, Running, classVars
  <1>3. /\ IsInst(vs[1]) => Enter(jsinstRefs(heap, vs), stack, vs, heap[vs[1]].cls, sig)
        /\ ~IsInst(vs[1]) => /\ heap' = jsinstRefs(heap, vs) /\ stack' = stack \o vs
                             /\ acts' = acts /\ flaws' = flaws
    BY <1>1 DEF Call, history, Values
  <1>4. v \in 0..Len(heap)
    BY <1>1, <1>2, TopFrame
  <1>5. vs \in Seq(0..Len(heap)) /\ Len(vs) >= 1 /\ vs[1] = v
    BY <1>1, <1>2, <1>4, OperandTypes
  <1>6. prog \in Programs /\ Len(heap) \in Nat /\ \A i \in 1..Len(heap) : heap[i].cls \in Classes
    BY InvSays
  <1>7. flaws \subseteq flaws'
    BY <1>3 DEF Enter, history
  <1>8. flaws \cap Bad = {}
    BY <1>7
  <1>9. v # Plain => Alive(heap, v)
    <2>1. Len(acts) \in 1..Len(acts) /\ Top = acts[Len(acts)]
      BY <1>2, TopFrame
    <2>2. QED
      BY <1>1, <1>2, <1>8, <2>1, AllLive
  <1>10. \A k \in 1..Len(vs) : vs[k] # Plain => Alive(heap, vs[k])
    BY <1>1, <1>2, <1>8, <1>9, ValuesLive
  <1>11. CASE IsInst(vs[1])
    <2>1. vs[1] \in 1..Len(heap)
      BY <1>4, <1>5, <1>6, <1>11 DEF IsInst, Plain
    <2>2. PICK c : c = heap[vs[1]].cls
      OBVIOUS
    <2>3. c \in Classes /\ sig \in Signatures
      BY <1>6, <2>1, <2>2, SigTypes
    <2>4. Enter(jsinstRefs(heap, vs), stack, vs, c, sig)
      BY <1>3, <1>11, <2>2
    <2>5. QED
      BY <1>2, <1>5, <1>10, <2>3, <2>4, EnterAccounts
  <1>12. CASE ~IsInst(vs[1])
    BY <1>2, <1>3, <1>5, <1>10, <1>12, PushAccounts
  <1>13. QED
    BY <1>11, <1>12

\* A call of a method of the base class
LEMMA BaseCallAccounts ==
    ASSUME Inv, Inv', CountInv, flaws' \cap Bad = {}, NEW sig \in Sigs, NEW args \in Operands,
           callBaseMethod(sig, args)
    PROVE  Accounted(heap', stack', acts', host', flaws')
  <1>1. PICK v, vs, c, ctx : /\ v = This /\ vs = Values(v, args) /\ c = heap[v].cls
                             /\ ctx = IF link[c] = None THEN c ELSE link[c]
    OBVIOUS
  <1>2. acts # <<>> /\ Top.k = "frame" /\ prog' = prog /\ host' = host /\ IsInst(v)
    BY <1>1 DEF callBaseMethod, Running, classVars
  <1>3. Enter(jsinstRefs(heap, vs), stack, vs, ctx, sig)
    BY <1>1 DEF callBaseMethod, Values
  <1>4. Len(acts) \in 1..Len(acts) /\ Top = acts[Len(acts)] /\ 1 \in 1..Len(Top.locals)
    BY <1>2, TopFrame
  <1>5. v \in 0..Len(heap) /\ Len(heap) \in Nat
    BY <1>1, <1>2, <1>4, TopFrame, InvSays DEF This
  <1>6. vs \in Seq(0..Len(heap)) /\ Len(vs) >= 1
    BY <1>1, <1>2, <1>5, OperandTypes
  <1>7. prog \in Programs /\ \A i \in 1..Len(heap) : heap[i].cls \in Classes
    BY InvSays
  <1>8. c \in Classes
    BY <1>1, <1>2, <1>5, <1>7 DEF IsInst, Plain
  <1>9. ctx \in Classes
    <2>1. Ready /\ ClassInv
      BY <1>2, TopFrame DEF Inv
    <2>2. link[c] = BaseOf(c)
      BY <1>8, <2>1, FindsNearest
    <2>3. QED
      BY <1>1, <1>8, <2>2 DEF BaseOf
  <1>10. sig \in Signatures
    BY <1>7, SigTypes
  <1>11. flaws \cap Bad = {}
    <2>1. flaws \subseteq flaws'
      BY <1>3 DEF Enter, history
    <2>2. QED
      BY <2>1
  <1>12. v # Plain => Alive(heap, v)
    BY <1>1, <1>2, <1>4, <1>11, AllLive DEF This
  <1>13. \A k \in 1..Len(vs) : vs[k] # Plain => Alive(heap, vs[k])
    BY <1>1, <1>2, <1>11, <1>12, ValuesLive
  <1>14. QED
    BY <1>2, <1>3, <1>6, <1>9, <1>10, <1>13, EnterAccounts

\* A value is loaded
LEMMA LoadAccounts ==
    ASSUME Inv, Inv', CountInv, flaws' \cap Bad = {}, NEW v \in 0..Len(heap),
           v # Plain => Alive(heap, v), Load(v)
    PROVE  Accounted(heap', stack', acts', host', flaws')
  <1>1. PICK n : n = Len(heap)
    OBVIOUS
  <1>2. /\ prog' = prog /\ host' = host /\ flaws' = flaws /\ acts' = acts
        /\ heap' = jsinstRef(heap, v) /\ stack' = Append(stack, v)
    BY DEF Load, history, classVars
  <1>3. n \in Nat /\ stack \in Seq(0..n) /\ v \in 0..n
    BY <1>1, NowTypes
  <1>4. Stands(stack, acts, host)
    BY <1>2, CountsSay
  <1>5. PICK x, o : Spare(flaws, n, x) /\ Counted(n, heap, stack, acts, host, x, o)
    BY <1>1, <1>2, CountsSay
  <1>6. Stands(stack', acts', host')
    <2>1. PICK st : st = Append(stack, v)
      OBVIOUS
    <2>2. /\ st \in Seq(0..n) /\ Len(st) >= Len(stack)
          /\ \A q \in 1..Len(stack) : st[q] = stack[q]
      BY <1>3, <2>1
    <2>3. Stands(st, acts, host)
      BY <1>1, <1>4, <2>2, StandMore
    <2>4. QED
      BY <1>2, <2>1, <2>3
  <1>7. ASSUME NEW i \in 1..n
        PROVE  Sum(stack', acts', host', x, i) = Sum(stack, acts, host, x, i) + (IF v = i THEN 1 ELSE 0)
    <2>1. Count(i, stack') = Count(i, stack) + (IF v = i THEN 1 ELSE 0)
      BY <1>2, <1>3, CountAppend
    <2>2. /\ Count(i, stack) \in Nat /\ HeldBy(acts, i) \in Nat /\ HostBy(host, i) \in Nat
          /\ x[i] \in Nat
      BY <1>5 DEF Counted
    <2>3. PICK a, b, c, d, e : /\ a = Count(i, stack) /\ b = HeldBy(acts, i) /\ c = HostBy(host, i)
                               /\ d = x[i] /\ e = IF v = i THEN 1 ELSE 0
      OBVIOUS
    <2>4. (a + e) + b + c + d = (a + b + c + d) + e
      BY <2>2, <2>3
    <2>5. QED
      BY <1>2, <2>1, <2>3, <2>4 DEF Sum
  <1>8. Spare(flaws', n, x)
    BY <1>2, <1>5
  <1>9. QED
    BY <1>1, <1>2, <1>3, <1>5, <1>6, <1>7, <1>8, RefAccounts

\* The loads of a method
LEMMA LoadsAccount ==
    ASSUME Inv, Inv', CountInv, flaws' \cap Bad = {},
           (\E o \in Vars : LoadLocal(o)) \/ \E f : LoadField(f)
    PROVE  Accounted(heap', stack', acts', host', flaws')
  <1>1. /\ acts # <<>> /\ Top.k = "frame" /\ flaws' = flaws
    BY DEF LoadLocal, LoadField, Running, Load, history
  <1>2. Len(acts) \in 1..Len(acts) /\ Top = acts[Len(acts)] /\ Len(Top.locals) \in Nat
        /\ 1 \in 1..Len(Top.locals)
    BY <1>1, TopFrame
  <1>3. ASSUME NEW o \in Vars, LoadLocal(o)
        PROVE  Accounted(heap', stack', acts', host', flaws')
    <2>1. o \in 1..Len(Top.locals) /\ Load(Top.locals[o])
      BY <1>2, <1>3 DEF Vars, LoadLocal
    <2>2. Top.locals[o] \in 0..Len(heap) /\ (Top.locals[o] # Plain => Alive(heap, Top.locals[o]))
      BY <1>1, <1>2, <2>1, TopFrame, AllLive
    <2>3. QED
      BY <2>1, <2>2, LoadAccounts
  <1>4. ASSUME NEW f, LoadField(f)
        PROVE  Accounted(heap', stack', acts', host', flaws')
    <2>1. /\ Load(heap[This].fields[f]) /\ IsInst(This) /\ f \in DOMAIN heap[This].fields
      BY <1>4 DEF LoadField
    <2>2. Len(heap) \in Nat /\ heap \in Heaps(Classes, Len(heap))
      BY InvSays
    <2>3. This \in 1..Len(heap)
      <3>1. Top.locals[1] \in 0..Len(heap)
        BY <1>1, <1>2, TopFrame
      <3>2. QED
        BY <2>1, <2>2, <3>1 DEF This, IsInst, Plain
    <2>4. DOMAIN heap[This].fields = 1..Len(heap[This].fields)
      BY <2>2, <2>3, HeapTypes
    <2>5. heap[This].fields[f] \in 0..Len(heap)
      BY <2>1, <2>2, <2>3, FieldTypes
    <2>6. heap[This].fields[f] # Plain => Alive(heap, heap[This].fields[f])
      BY <1>1, <2>1, <2>3, <2>4, AllLive
    <2>7. QED
      BY <2>1, <2>5, <2>6, LoadAccounts
  <1>5. QED
    BY <1>3, <1>4

-----------------------------------------------------------------------------
(* Assignments                                                             *)

\* One value is cleared
LEMMA DropOne ==
    ASSUME NEW C, NEW n \in Nat, NEW h \in Heaps(C, n), NEW v \in 0..n,
           NEW o \in [1..n -> Nat], NEW b \in [1..n -> Nat], NEW P, Owed(n, h, b, P, <<>>),
           \A i \in 1..n : b[i] = o[i] + (IF v = i THEN 1 ELSE 0), Anchored(n, h, o, P)
    PROVE  varClear(h, <<v>>) \in Heaps(C, n) /\ Owed(n, varClear(h, <<v>>), o, P, <<>>)
  <1>1. PICK vs : vs = <<v>>
    OBVIOUS
  <1>2. vs \in Seq(0..n)
    BY <1>1
  <1>3. \A i \in 1..n : b[i] = o[i] + Count(i, vs)
    BY <1>1, CountOne
  <1>4. varClear(h, vs) \in Heaps(C, n) /\ Owed(n, varClear(h, vs), o, P, <<>>)
    BY <1>2, <1>3, DropOwed
  <1>5. QED
    BY <1>1, <1>4

\* varAssign, where the new value has another reference than the old one
LEMMA AssignOwed ==
    ASSUME NEW C, NEW n \in Nat, NEW h \in Heaps(C, n), NEW old \in 0..n, NEW v \in 0..n,
           NEW o \in [1..n -> Nat], NEW b \in [1..n -> Nat], NEW c \in [1..n -> Nat], NEW P,
           Owed(n, h, o, P, <<>>), Anchored(n, h, b, P),
           \A i \in 1..n : o[i] = b[i] + (IF old = i THEN 1 ELSE 0),
           \A i \in 1..n : c[i] = b[i] + (IF v = i THEN 1 ELSE 0),
           v # Plain => b[v] >= 1
    PROVE  varAssign(h, old, v) \in Heaps(C, n) /\ Owed(n, varAssign(h, old, v), c, P, <<>>)
  <1>1. PICK g : g = varClear(h, <<old>>)
    OBVIOUS
  <1>2. g \in Heaps(C, n) /\ Owed(n, g, b, P, <<>>)
    BY <1>1, DropOne
  <1>3. v # Plain => Alive(g, v)
    <2>1. v # Plain => v \in 1..n
      BY DEF Plain
    <2>2. QED
      BY <1>2, <2>1, NeededLives
  <1>4. jsinstRef(g, v) \in Heaps(C, n) /\ Owed(n, jsinstRef(g, v), c, P, <<>>)
    BY <1>2, <1>3, RefOwed
  <1>5. QED
    BY <1>1, <1>4 DEF varAssign

\* A list with another value in one place
Alters(r, q, k, v) == /\ Len(r) = Len(q) /\ r[k] = v
                      /\ \A j \in 1..Len(q) : j # k => r[j] = q[j]

\* What is counted in it
LEMMA CountPut ==
    ASSUME NEW S, NEW q \in Seq(S), NEW k \in 1..Len(q), NEW v, NEW r \in Seq(S),
           Alters(r, q, k, v), NEW i
    PROVE  Count(i, r) + (IF q[k] = i THEN 1 ELSE 0) = Count(i, q) + (IF v = i THEN 1 ELSE 0)
  <1>1. /\ r \in Seq(S) /\ DOMAIN q = 1..Len(q) /\ DOMAIN r = DOMAIN q
        /\ r[k] = v /\ \A j \in DOMAIN q : j # k => r[j] = q[j]
    BY DEF Alters
  <1>2. At(i, q) = InList(q, i) /\ At(i, r) = InList(r, i)
    BY DEF At, InList
  <1>3. IsFiniteSet(At(i, q)) /\ IsFiniteSet(At(i, r)) /\ Count(i, q) \in Nat /\ Count(i, r) \in Nat
    <2>1. IsFiniteSet(At(i, q))
      BY <1>2, ListFinite
    <2>2. IsFiniteSet(At(i, r))
      <3>1. PICK z \in Seq(S) : z = r
        BY <1>1
      <3>2. IsFiniteSet(InList(z, i))
        BY ListFinite
      <3>3. At(i, z) = InList(z, i)
        BY DEF At, InList
      <3>4. QED
        BY <3>1, <3>2, <3>3, Zenon
    <2>3. Count(i, q) \in Nat
      BY CountIs
    <2>4. Count(i, r) \in Nat
      BY <1>1, CountIs
    <2>5. QED
      BY <2>1, <2>2, <2>3, <2>4
  <1>4. At(i, q) \ {k} = At(i, r) \ {k}
    BY <1>1 DEF At
  <1>5. (k \in At(i, q) <=> q[k] = i) /\ (k \in At(i, r) <=> v = i)
    BY <1>1 DEF At
  <1>6. PICK A, B : A = At(i, q) /\ B = At(i, r)
    OBVIOUS
  <1>7. Cardinality(A \ {k}) = IF k \in A THEN Cardinality(A)-1 ELSE Cardinality(A)
    BY <1>3, <1>6, FS_RemoveElement
  <1>8. Cardinality(B \ {k}) = IF k \in B THEN Cardinality(B)-1 ELSE Cardinality(B)
    BY <1>3, <1>6, FS_RemoveElement
  <1>9. PICK a, b, c : a = Cardinality(A) /\ b = Cardinality(B) /\ c = Cardinality(A \ {k})
    OBVIOUS
  <1>10. a = Count(i, q) /\ b = Count(i, r) /\ a \in Nat /\ b \in Nat
    BY <1>3, <1>6, <1>9 DEF Count
  <1>11. c = (IF q[k] = i THEN a - 1 ELSE a) /\ c = (IF v = i THEN b - 1 ELSE b)
    BY <1>4, <1>5, <1>6, <1>7, <1>8, <1>9
  <1>12. QED
    BY <1>10, <1>11

\* A value is on a list
Has(q, v) == \E k \in 1..Len(q) : q[k] = v

\* A frame with another value in one of its locals holds that instead, if it
\* owns the local or both values are plain.
LEMMA HeldPut ==
    ASSUME NEW C, NEW n \in Nat, NEW f \in Frames(C, n), NEW v \in 0..n, NEW o \in 1..Len(f.locals),
           NEW g, g = Put(f, o, v),
           Owns(f) \/ o = Len(f.locals) \/ (f.locals[o] = Plain /\ v = Plain)
    PROVE  /\ \A i \in 1..n : Count(i, Held(g)) + (IF f.locals[o] = i THEN 1 ELSE 0)
                              = Count(i, Held(f)) + (IF v = i THEN 1 ELSE 0)
           /\ v # Plain => Has(Held(g), v)
           /\ \A st : ~Owns(f) /\ Copy(st, f) => Copy(st, g)
           /\ Owns(g) <=> Owns(f)
  <1>1. PICK q, z, m : q = f.locals /\ z = g.locals /\ m = Len(q)
    OBVIOUS
  <1>2. f.k = "frame" /\ q \in Seq(0..n) /\ m \in Nat /\ m >= 2 /\ o \in 1..m /\ DOMAIN q = 1..m
    BY <1>1, FrameTypes
  <1>3. z = [q EXCEPT ![o] = v]
    <2>1. "locals" \in DOMAIN f
      BY FrameTypes
    <2>2. QED
      BY <1>1, <2>1 DEF Put
  <1>4. g.k = "frame" /\ g.base = f.base
    BY <1>2, LocalPut
  <1>5. Owns(g) <=> Owns(f)
    BY DEF Put, Owns
  <1>6. /\ z \in Seq(0..n) /\ Len(z) = m /\ z[o] = v
        /\ \A k \in 1..m : k # o => z[k] = q[k]
    BY <1>1, <1>2, <1>3
  <1>7. PICK y \in Seq(0..n) : y = z
    BY <1>6
  <1>8. \A i : Count(i, y) + (IF q[o] = i THEN 1 ELSE 0) = Count(i, q) + (IF v = i THEN 1 ELSE 0)
    <2>1. Alters(y, q, o, v) /\ o \in 1..Len(q)
      BY <1>1, <1>2, <1>6, <1>7 DEF Alters
    <2>2. QED
      BY <1>2, <2>1, CountPut
  <1>9. g.locals = z /\ Len(z) = m /\ z[o] = v /\ \A k \in 1..m : k # o => z[k] = q[k]
    BY <1>1, <1>6
  <1>10. \A i : Count(i, z) + (IF q[o] = i THEN 1 ELSE 0) = Count(i, q) + (IF v = i THEN 1 ELSE 0)
    BY <1>7, <1>8
  <1>11. Held(f) = Owned(f) /\ Held(g) = Owned(g)
    BY <1>2, <1>4 DEF Held
  <1>12. CASE Owns(f)
    <2>1. Held(f) = q /\ Held(g) = z
      BY <1>1, <1>5, <1>9, <1>11, <1>12 DEF Owned, Owns
    <2>2. \A i \in 1..n : Count(i, Held(g)) + (IF f.locals[o] = i THEN 1 ELSE 0)
                          = Count(i, Held(f)) + (IF v = i THEN 1 ELSE 0)
      BY <1>1, <1>10, <2>1
    <2>3. Has(Held(g), v)
      BY <1>2, <1>9, <2>1 DEF Has
    <2>4. QED
      BY <1>5, <1>12, <2>2, <2>3
  <1>13. CASE ~Owns(f)
    <2>1. Held(f) = <<q[m]>> /\ Held(g) = <<z[m]>>
      BY <1>1, <1>5, <1>9, <1>11, <1>13 DEF Owned, Owns
    <2>2. o = m \/ (q[o] = Plain /\ v = Plain)
      BY <1>1, <1>13
    <2>3. \A k \in 1..(m - 1) : z[k] = q[k]
      BY <1>2, <1>9, <2>2
    <2>4. \A st : Copy(st, f) => Copy(st, g)
      BY <1>1, <1>4, <1>9, <2>3 DEF Copy
    <2>5. \A i : Count(i, Held(g)) = (IF z[m] = i THEN 1 ELSE 0)
                 /\ Count(i, Held(f)) = (IF q[m] = i THEN 1 ELSE 0)
      BY <2>1, CountOne
    <2>6. ASSUME NEW i \in 1..n
          PROVE  Count(i, Held(g)) + (IF f.locals[o] = i THEN 1 ELSE 0)
                 = Count(i, Held(f)) + (IF v = i THEN 1 ELSE 0)
      <3>1. CASE o = m
        BY <1>1, <1>9, <2>5, <3>1
      <3>2. CASE o # m
        <4>1. q[o] = Plain /\ v = Plain /\ z[m] = q[m]
          BY <1>2, <1>9, <2>2, <3>2
        <4>2. i # Plain
          BY DEF Plain
        <4>3. QED
          BY <1>1, <2>5, <4>1, <4>2
      <3>3. QED
        BY <3>1, <3>2
    <2>7. ASSUME v # Plain PROVE Has(Held(g), v)
      <3>1. z[m] = v
        BY <1>9, <2>2, <2>7
      <3>2. 1 \in 1..Len(Held(g)) /\ Held(g)[1] = v
        BY <2>1, <3>1
      <3>3. QED
        BY <3>2 DEF Has
    <2>8. QED
      BY <1>5, <1>13, <2>4, <2>6, <2>7
  <1>14. QED
    BY <1>12, <1>13

\* Another reference
LEMMA OneMore ==
    ASSUME NEW n \in Nat, NEW b \in [1..n -> Nat], NEW v, NEW c, c = Lost(n, b, v)
    PROVE  c \in [1..n -> Nat]
  <1>1. \A i \in 1..n : b[i] + (IF v = i THEN 1 ELSE 0) \in Nat
    <2> TAKE i \in 1..n
    <2>1. b[i] \in Nat
      OBVIOUS
    <2>2. QED
      BY <2>1
  <1>2. QED
    BY <1>1 DEF Lost

\* The topmost value of the running frame is popped
LEMMA PopStands ==
    ASSUME Inv, acts # <<>>, Top.k = "frame", Len(stack) > Top.base, Stands(stack, acts, host)
    PROVE  /\ stack # <<>> /\ stack[Len(stack)] = Peek
           /\ Front(stack) \in Seq(0..Len(heap)) /\ Len(Front(stack)) \in Nat
           /\ Len(Front(stack)) >= Top.base
           /\ State(Classes, Depths, heap, Front(stack), acts)
           /\ Stands(Front(stack), acts, host)
  <1>1. PICK st : st = Front(stack)
    OBVIOUS
  <1>2. /\ stack \in Seq(0..Len(heap)) /\ Len(stack) \in Nat /\ State(Classes, Depths, heap, stack, acts)
        /\ heap \in Heaps(Classes, Len(heap))
    BY NowTypes
  <1>3. /\ Top.base \in Nat /\ Top.base \in 0..Len(stack) /\ Low(Top) = Top.base
        /\ Top = acts[Len(acts)] /\ Len(acts) \in 1..Len(acts)
    BY TopFrame
  <1>4. stack # <<>>
    BY <1>2, <1>3
  <1>5. /\ st \in Seq(0..Len(heap)) /\ Len(st) = Len(stack) - 1
        /\ \A k \in 1..(Len(stack) - 1) : st[k] = stack[k]
    BY <1>1, <1>2, <1>4, AllButLast
  <1>6. Len(st) \in Nat /\ Len(st) >= Top.base /\ Len(st) <= Len(stack)
    BY <1>2, <1>3, <1>5
  <1>7. State(Classes, Depths, heap, st, acts)
    <2>1. Same(heap, heap)
      BY DEF Same
    <2>2. Len(st) >= Top.base /\ \A q \in 1..Top.base : st[q] = stack[q]
      BY <1>2, <1>3, <1>5, <1>6
    <2>3. Fits(heap, st, acts)
      BY <1>2, <1>5, <2>1, <2>2, FrameChanges
    <2>4. QED
      BY <2>3 DEF Fits
  <1>8. Stands(st, acts, host)
    <2>1. \A m \in 1..Len(acts) : Low(acts[m]) <= Top.base
      BY <1>2, <1>3, LowIs
    <2>2. \A m \in 1..Len(acts) : Low(acts[m]) <= Len(st)
      <3> TAKE m \in 1..Len(acts)
      <3>1. Low(acts[m]) \in Nat /\ Low(acts[m]) <= Top.base
        BY <2>1, InvSays
      <3>2. QED
        BY <1>3, <1>6, <3>1
    <2>3. PICK d : d = Len(st)
      OBVIOUS
    <2>4. d \in Nat /\ d <= Len(stack) /\ d <= Len(st)
      BY <1>6, <2>3
    <2>5. \A q \in 1..d : st[q] = stack[q]
      BY <1>5, <2>3
    <2>6. \A m \in 1..Len(acts) : Low(acts[m]) <= d
      BY <2>2, <2>3
    <2>7. \E m \in 1..Len(acts) : acts[m].k = "frame"
      BY <1>3
    <2>8. QED
      BY <1>2, <1>5, <2>4, <2>5, <2>6, <2>7, StandStack
  <1>9. QED
    BY <1>1, <1>4, <1>5, <1>6, <1>7, <1>8 DEF Peek

\* An assignment to a variable
LEMMA StoreLocalAccounts ==
    ASSUME Inv, Inv', CountInv, flaws' \cap Bad = {}, NEW o \in Vars, StoreLocal(o)
    PROVE  Accounted(heap', stack', acts', host', flaws')
  <1>1. PICK n, v, old, f, g : /\ n = Len(heap) /\ v = Peek /\ f = Top /\ old = f.locals[o]
                               /\ g = Put(f, o, v)
    OBVIOUS
  <1>2. acts # <<>> /\ f.k = "frame" /\ prog' = prog /\ host' = host /\ Len(stack) > f.base
    BY <1>1 DEF StoreLocal, Running, classVars
  <1>3. /\ heap' = varClear(varAssign(heap, old, v), <<v>>) /\ stack' = Front(stack)
        /\ acts' = [acts EXCEPT ![Len(acts)] = g]
    <2>1. acts' = [acts EXCEPT ![Len(acts)].locals[o] = Peek]
      BY DEF StoreLocal
    <2>2. acts' = [acts EXCEPT ![Len(acts)] = Put(Top, o, Peek)]
      BY <2>1 DEF Top, Put
    <2>3. QED
      BY <1>1, <2>2 DEF StoreLocal
  <1>4. flaws' = flaws \cup (IF ~f.owned /\ o < Len(f.locals) /\ {old, v} # {Plain}
                             THEN {"parameter"} ELSE {})
    BY <1>1 DEF StoreLocal
  <1>5. ~(~f.owned /\ o < Len(f.locals) /\ {old, v} # {Plain}) /\ flaws' = flaws
    BY <1>4 DEF Bad
  <1>6. /\ n \in Nat /\ heap \in Heaps(Classes, n) /\ stack \in Seq(0..n) /\ acts \in Seq(Acts(Classes, n))
        /\ Len(heap') \in Nat
    BY <1>1, NowTypes, <1>2, NextTypes
  <1>7. /\ f \in Frames(Classes, n) /\ f = acts[Len(acts)] /\ Len(acts) \in 1..Len(acts)
        /\ Len(f.locals) \in Nat /\ o \in 1..Len(f.locals) /\ old \in 0..n
    <2>1. /\ Top \in Frames(Classes, Len(heap)) /\ Top = acts[Len(acts)] /\ Len(acts) \in 1..Len(acts)
          /\ Len(Top.locals) \in Nat /\ \A j \in 1..Len(Top.locals) : Top.locals[j] \in 0..Len(heap)
      BY <1>1, <1>2, TopFrame
    <2>2. o \in 1..Len(Top.locals)
      BY <2>1 DEF Vars
    <2>3. QED
      BY <1>1, <2>1, <2>2
  <1>8. Owns(f) \/ o = Len(f.locals) \/ (old = Plain /\ v = Plain)
    <2>1. f.owned \/ ~(o < Len(f.locals)) \/ {old, v} = {Plain}
      BY <1>5
    <2>2. o < Len(f.locals) \/ o = Len(f.locals)
      BY <1>7
    <2>3. {old, v} = {Plain} => old = Plain /\ v = Plain
      OBVIOUS
    <2>4. f.owned => Owns(f)
      BY DEF Owns
    <2>5. QED
      BY <2>1, <2>2, <2>3, <2>4, Zenon
  <1>9. v \in 0..n
    BY <1>1, <1>2, Popped
  <1>10. Stands(stack, acts, host)
    BY <1>5, CountsSay
  <1>11. /\ stack # <<>> /\ stack[Len(stack)] = v /\ Front(stack) \in Seq(0..n)
         /\ State(Classes, Depths, heap, Front(stack), acts) /\ Stands(Front(stack), acts, host)
    BY <1>1, <1>2, <1>10, PopStands
  <1>12. PICK x, oo : Spare(flaws, n, x) /\ Counted(n, heap, stack, acts, host, x, oo)
    BY <1>1, <1>5, CountsSay
  <1>13. /\ \A i \in 1..n : oo[i] = Sum(stack, acts, host, x, i)
         /\ oo \in [1..n -> Nat] /\ Owed(n, heap, oo, {}, <<>>) /\ x \in [1..n -> Nat]
    BY <1>12, SumNat
  <1>14. g \in Acts(Classes, n) /\ g.k = "frame" /\ g.base = f.base
    BY <1>1, <1>2, <1>6, <1>7, <1>9, LocalPut DEF Acts
  <1>15. \A i \in 1..n : Count(i, Held(g)) + (IF old = i THEN 1 ELSE 0)
                         = Count(i, Held(f)) + (IF v = i THEN 1 ELSE 0)
    BY <1>1, <1>6, <1>7, <1>8, <1>9, HeldPut
  <1>16. v # Plain => Has(Held(g), v)
    BY <1>1, <1>6, <1>7, <1>8, <1>9, HeldPut
  <1>17. (Owns(g) <=> Owns(f)) /\ (~Owns(f) /\ Copy(Front(stack), f) => Copy(Front(stack), g))
    BY <1>1, <1>6, <1>7, <1>8, <1>9, HeldPut
  <1>18. PICK h : h = varAssign(heap, old, v)
    OBVIOUS
  <1>19. Len(heap') = n
    <2>1. h \in Heaps(Classes, n)
      BY <1>6, <1>7, <1>9, <1>18, AssignTypes
    <2>2. PICK vs : vs = <<v>>
      OBVIOUS
    <2>3. vs \in Seq(0..n)
      BY <1>9, <2>2
    <2>4. varClear(h, vs) \in Heaps(Classes, n)
      BY <1>6, <2>1, <2>3, ClearTypes
    <2>5. QED
      BY <1>3, <1>6, <1>18, <2>2, <2>4, HeapTypes
  <1>20. PICK b \in [1..n -> Nat] : \A i \in 1..n : b[i] = Sum(stack', acts', host', x, i)
    <2>1. prog' = prog /\ n = Len(heap')
      BY <1>2, <1>19
    <2>2. x \in [1..n -> Nat]
      BY <1>13
    <2>3. QED
      BY <2>1, <2>2, SumNext
  <1>21. \A i \in 1..n : HeldBy(acts', i) + Count(i, Held(f)) = HeldBy(acts, i) + Count(i, Held(g))
    <2> TAKE i \in 1..n
    <2>1. acts' = Topped(acts, g)
      BY <1>3 DEF Topped
    <2>2. HeldBy(acts', i) + Count(i, Held(acts[Len(acts)])) = HeldBy(acts, i) + Count(i, Held(g))
      BY <1>2, <1>6, <1>14, <2>1, HeldAlter
    <2>3. QED
      BY <1>7, <2>1, <2>2
  <1>22. ASSUME NEW i \in 1..n PROVE oo[i] = b[i] + (IF old = i THEN 1 ELSE 0)
    <2>1. PICK cf, hb, hc, hf, hg, ht, xx, iv, io :
              /\ cf = Count(i, Front(stack)) /\ hb = HeldBy(acts, i) /\ hc = HeldBy(acts', i)
              /\ hf = Count(i, Held(f)) /\ hg = Count(i, Held(g)) /\ ht = HostBy(host, i) /\ xx = x[i]
              /\ iv = (IF v = i THEN 1 ELSE 0) /\ io = (IF old = i THEN 1 ELSE 0)
      OBVIOUS
    <2>2. Count(i, stack) = cf + iv
      BY <1>6, <1>11, <2>1, CountFront
    <2>3. hc + hf = hb + hg /\ hg + io = hf + iv
      BY <1>15, <1>21, <2>1
    <2>4. hb \in Nat /\ ht \in Nat /\ xx \in Nat
      BY <1>12, <2>1 DEF Counted
    <2>5. cf \in Nat
      BY <1>11, <2>1, CountIs
    <2>6. hf \in Nat /\ hg \in Nat
      <3>1. Held(f) \in Seq(0..n)
        BY <1>6, <1>7, HeldTypes
      <3>2. Held(g) \in Seq(0..n)
        BY <1>6, <1>14, HeldTypes
      <3>3. QED
        BY <2>1, <3>1, <3>2, CountIs
    <2>7. hc \in Nat
      <3>1. acts' \in Seq(Acts(Classes, n))
        BY <1>3, <1>6, <1>7, <1>14
      <3>2. QED
        BY <1>6, <2>1, <3>1, HeldNat
    <2>8. oo[i] = (cf + iv) + hb + ht + xx /\ b[i] = cf + hc + ht + xx
      BY <1>2, <1>3, <1>13, <1>20, <2>1, <2>2 DEF Sum
    <2>9. iv \in Nat /\ io \in Nat
      BY <2>1
    <2>10. oo[i] = b[i] + io
      BY <2>3, <2>4, <2>5, <2>6, <2>7, <2>8, <2>9
    <2>11. QED
      BY <2>1, <2>10
  <1>23. ASSUME v # Plain PROVE b[v] >= 1
    <2>1. v \in 1..n
      BY <1>6, <1>9, <1>23 DEF Plain
    <2>2. PICK k \in 1..Len(Held(g)) : Held(g)[k] = v
      BY <1>16, <1>23 DEF Has
    <2>3. acts' \in Seq(Acts(Classes, n)) /\ Len(acts') = Len(acts) /\ acts'[Len(acts)] = g
      BY <1>3, <1>6, <1>7, <1>14
    <2>4. HeldBy(acts', v) >= 1 /\ HeldBy(acts', v) \in Nat
      BY <1>6, <1>7, <2>2, <2>3, HeldNat
    <2>5. Count(v, stack') \in Nat
      BY <1>3, <1>11, CountIs
    <2>6. HostBy(host, v) \in Nat /\ x[v] \in Nat
      BY <1>12, <2>1 DEF Counted
    <2>7. PICK p, q, r, s : p = Count(v, stack') /\ q = HeldBy(acts', v) /\ r = HostBy(host, v) /\ s = x[v]
      OBVIOUS
    <2>8. b[v] = p + q + r + s
      BY <1>2, <1>20, <2>1, <2>7 DEF Sum
    <2>9. QED
      BY <2>4, <2>5, <2>6, <2>7, <2>8
  <1>24. PICK c \in [1..n -> Nat] : \A i \in 1..n : c[i] = b[i] + (IF v = i THEN 1 ELSE 0)
    <2>1. PICK c : c = Lost(n, b, v)
      OBVIOUS
    <2>2. c \in [1..n -> Nat]
      BY <1>6, <2>1, OneMore
    <2>3. \A i \in 1..n : c[i] = b[i] + (IF v = i THEN 1 ELSE 0)
      BY <2>1 DEF Lost
    <2>4. QED
      BY <2>2, <2>3
  <1>25. Anchored(n, heap, b, {})
    BY DEF Anchored
  <1>26. h \in Heaps(Classes, n) /\ Owed(n, h, c, {}, <<>>)
    BY <1>6, <1>7, <1>9, <1>13, <1>18, <1>22, <1>23, <1>24, <1>25, AssignOwed
  <1>27. Owed(n, heap', b, {}, <<>>)
    <2>1. Anchored(n, h, b, {})
      BY DEF Anchored
    <2>2. Owed(n, varClear(h, <<v>>), b, {}, <<>>)
      BY <1>6, <1>9, <1>24, <1>26, <2>1, DropOne
    <2>3. QED
      BY <1>3, <1>18, <2>2
  <1>28. Stands(stack', acts', host')
    <2>1. acts # <<>> /\ g.k = f.k /\ g.k # "call"
      BY <1>2, <1>14
    <2>2. ~Owns(g) => Copy(Front(stack), g)
      <3>1. ASSUME ~Owns(g) PROVE Copy(Front(stack), f)
        BY <1>2, <1>7, <1>11, <1>17, <3>1 DEF Stands, Copied
      <3>2. QED
        BY <1>17, <3>1
    <2>3. Stands(Front(stack), [acts EXCEPT ![Len(acts)] = g], host)
      BY <1>7, <1>11, <1>14, <2>1, <2>2, StandAlter
    <2>4. QED
      BY <1>2, <1>3, <2>3
  <1>29. Spare(flaws', n, x)
    BY <1>5, <1>12
  <1>30. QED
    BY <1>2, <1>19, <1>20, <1>27, <1>28, <1>29, AccountBy

\* The place of a field
Spot(w, k) == {<<w, k>>}

\* One field among the others
LEMMA FieldOut ==
    ASSUME NEW C, NEW n \in Nat, NEW h \in Heaps(C, n), NEW i, NEW w \in 1..n,
           NEW k \in 1..Len(h[w].fields)
    PROVE  InFields(h, i, {}) = InFields(h, i, Spot(w, k)) + (IF h[w].fields[k] = i THEN 1 ELSE 0)
  <1>1. PICK p, A, B : /\ p = <<w, k>> /\ A = FieldPlaces(h, i, {})
                       /\ B = FieldPlaces(h, i, Spot(w, k))
    OBVIOUS
  <1>2. p \in FieldsIn(h) /\ p[1] = w /\ p[2] = k
    BY <1>1, PlaceIs
  <1>3. B = A \ {p}
    BY <1>1 DEF FieldPlaces, Spot
  <1>4. p \in A <=> h[w].fields[k] = i
    BY <1>1, <1>2 DEF FieldPlaces
  <1>5. IsFiniteSet(A)
    BY <1>1, FieldCount
  <1>6. Cardinality(A \ {p}) = IF p \in A THEN Cardinality(A)-1 ELSE Cardinality(A)
    BY <1>5, FS_RemoveElement
  <1>7. Cardinality(A) \in Nat
    BY <1>5, FS_CardinalityType
  <1>8. PICK a, b : a = Cardinality(A) /\ b = Cardinality(B)
    OBVIOUS
  <1>9. a = b + (IF h[w].fields[k] = i THEN 1 ELSE 0)
    BY <1>3, <1>4, <1>6, <1>7, <1>8
  <1>10. QED
    BY <1>1, <1>8, <1>9 DEF InFields

\* The value of a field
FieldOf(h, w, k) == h[w].fields[k]

\* It is counted in the field, or outside.
LEMMA FieldOwed ==
    ASSUME NEW C, NEW n \in Nat, NEW h \in Heaps(C, n), NEW w \in 1..n,
           NEW k \in 1..Len(h[w].fields), NEW o \in [1..n -> Nat], NEW b \in [1..n -> Nat],
           NEW v, v = FieldOf(h, w, k), \A i \in 1..n : b[i] = o[i] + (IF v = i THEN 1 ELSE 0)
    PROVE  Owed(n, h, o, {}, <<>>) <=> Owed(n, h, b, Spot(w, k), <<>>)
  <1>1. ASSUME NEW i \in 1..n PROVE Total(h, o, {}, <<>>, i) = Total(h, b, Spot(w, k), <<>>, i)
    <2>1. PICK x, y, z, p, q : /\ x = InFields(h, i, {}) /\ y = InFields(h, i, Spot(w, k))
                               /\ z = (IF v = i THEN 1 ELSE 0) /\ p = o[i] /\ q = b[i]
      OBVIOUS
    <2>2. x = y + z
      <3>1. InFields(h, i, {}) = InFields(h, i, Spot(w, k)) + (IF h[w].fields[k] = i THEN 1 ELSE 0)
        BY FieldOut
      <3>2. QED
        BY <2>1, <3>1 DEF FieldOf
    <2>3. q = p + z /\ p \in Nat /\ q \in Nat /\ z \in Nat
      BY <2>1
    <2>4. y \in Nat /\ x \in Nat
      BY <2>1, FieldCount
    <2>5. Count(i, <<>>) = 0
      BY CountOne
    <2>6. p + 0 + x = q + 0 + y
      BY <2>2, <2>3, <2>4
    <2>7. QED
      BY <2>1, <2>5, <2>6 DEF Total
  <1>2. QED
    BY <1>1 DEF Owed

\* An instance with another value in one field
FieldPut(h, w, k, v) == [h EXCEPT ![w].fields[k] = v]

\* What it is
LEMMA FieldPutIs ==
    ASSUME NEW C, NEW n \in Nat, NEW h \in Heaps(C, n), NEW w \in 1..n,
           NEW k \in 1..Len(h[w].fields), NEW v \in 0..n, NEW g, g = FieldPut(h, w, k, v)
    PROVE  /\ g \in Heaps(C, n)
           /\ \A i \in 1..n : i # w => g[i] = h[i]
           /\ (Alive(g, w) <=> Alive(h, w)) /\ Tally(g, w) = Tally(h, w)
           /\ Alters(g[w].fields, h[w].fields, k, v)
  <1>1. PICK y, q : y = h[w] /\ q = y.fields
    OBVIOUS
  <1>2. /\ y \in Insts(C, n) /\ q \in Seq(0..n) /\ DOMAIN h = 1..n
        /\ DOMAIN y = {"cls", "refcount", "live", "fields"}
    BY <1>1, HeapTypes
  <1>3. k \in 1..Len(q) /\ k \in DOMAIN q
    BY <1>1, <1>2
  <1>4. PICK r : r = [q EXCEPT ![k] = v]
    OBVIOUS
  <1>5. r \in Seq(0..n) /\ Len(r) = Len(q) /\ Alters(r, q, k, v)
    BY <1>2, <1>3, <1>4 DEF Alters
  <1>6. PICK x : x = [y EXCEPT !.fields = r]
    OBVIOUS
  <1>7. g = [h EXCEPT ![w] = x]
    BY <1>1, <1>4, <1>6 DEF FieldPut
  <1>8. x \in Insts(C, n) /\ x.cls = y.cls /\ x.fields = r /\ x.refcount = y.refcount
    <2> DEFINE L == Seq(0..n)
    <2>1. y \in [cls : C, refcount : Int, live : BOOLEAN, fields : L] /\ r \in L
      BY <1>2, <1>5 DEF Insts
    <2> HIDE DEF L
    <2>2. /\ x \in [cls : C, refcount : Int, live : BOOLEAN, fields : L]
          /\ x.cls = y.cls /\ x.fields = r /\ x.refcount = y.refcount
      BY <1>6, <2>1
    <2>3. QED
      BY <2>2 DEF Insts, L
  <1>9. x.live = y.live
    BY <1>2, <1>6, Zenon
  <1>10. g \in Heaps(C, n)
    <2>1. g = [j \in 1..n |-> g[j]] /\ g[w] = x /\ \A j \in 1..n : j # w => g[j] = h[j]
      BY <1>2, <1>7
    <2>2. \A j \in 1..n : h[j] \in Insts(C, n)
      BY HeapTypes
    <2>3. \A j \in 1..n : g[j] \in Insts(C, n)
      BY <1>8, <2>1, <2>2
    <2>4. QED
      BY <2>1, <2>3, HeapMade
  <1>11. g[w] = x /\ \A i \in 1..n : i # w => g[i] = h[i]
    BY <1>2, <1>7
  <1>12. Alive(g, w) <=> Alive(h, w)
    BY <1>1, <1>9, <1>11 DEF Alive
  <1>13. Tally(g, w) = Tally(h, w)
    BY <1>1, <1>8, <1>11 DEF Tally
  <1>14. Alters(g[w].fields, h[w].fields, k, v)
    BY <1>1, <1>5, <1>8, <1>11
  <1>15. QED
    BY <1>10, <1>11, <1>12, <1>13, <1>14

\* What is counted but for that field
LEMMA FieldPutOwed ==
    ASSUME NEW C, NEW n \in Nat, NEW h \in Heaps(C, n), NEW w \in 1..n,
           NEW k \in 1..Len(h[w].fields), NEW v \in 0..n, NEW g, g = FieldPut(h, w, k, v),
           NEW o \in [1..n -> Nat], Owed(n, h, o, Spot(w, k), <<>>), Alive(h, w)
    PROVE  /\ g \in Heaps(C, n) /\ Owed(n, g, o, Spot(w, k), <<>>) /\ k \in 1..Len(g[w].fields)
           /\ g[w].fields[k] = v
  <1>1. g \in Heaps(C, n) /\ \A i \in 1..n : i # w => g[i] = h[i]
    BY FieldPutIs
  <1>2. (Alive(g, w) <=> Alive(h, w)) /\ Tally(g, w) = Tally(h, w)
    BY FieldPutIs
  <1>3. Alters(g[w].fields, h[w].fields, k, v)
    BY FieldPutIs
  <1>4. \A i \in 1..n : /\ Alive(g, i) <=> Alive(h, i)
                        /\ Tally(g, i) = Tally(h, i)
                        /\ i # w => (Emptied(g, i) <=> Emptied(h, i))
    BY <1>1, <1>2 DEF Alive, Tally, Emptied
  <1>5. \A i \in 1..n : Len(g[i].fields) = Len(h[i].fields)
    BY <1>1, <1>3 DEF Alters
  <1>6. ASSUME NEW i \in 1..n, NEW j \in 1..Len(h[i].fields), ~(i = w /\ j = k)
        PROVE  g[i].fields[j] = h[i].fields[j]
    <2>1. CASE i = w
      <3>1. j # k
        BY <1>6, <2>1
      <3>2. QED
        BY <1>3, <2>1, <3>1 DEF Alters
    <2>2. CASE i # w
      BY <1>1, <2>2
    <2>3. QED
      BY <2>1, <2>2
  <1>7. \A i : FieldPlaces(g, i, Spot(w, k)) = FieldPlaces(h, i, Spot(w, k))
    <2> TAKE i
    <2>1. \A p : p \in FieldsIn(h) <=> p \in FieldsIn(g)
      <3>1. ASSUME NEW p \in FieldsIn(h) PROVE p \in FieldsIn(g)
        <4>1. p[1] \in 1..n /\ p[2] \in 1..Len(h[p[1]].fields) /\ p = <<p[1], p[2]>>
          BY PlaceIs
        <4>2. p[2] \in 1..Len(g[p[1]].fields)
          BY <1>5, <4>1
        <4>3. QED
          BY <1>1, <4>1, <4>2, PlaceIs
      <3>2. ASSUME NEW p \in FieldsIn(g) PROVE p \in FieldsIn(h)
        <4>1. p[1] \in 1..n /\ p[2] \in 1..Len(g[p[1]].fields) /\ p = <<p[1], p[2]>>
          BY <1>1, PlaceIs
        <4>2. p[2] \in 1..Len(h[p[1]].fields)
          BY <1>5, <4>1
        <4>3. QED
          BY <4>1, <4>2, PlaceIs
      <3>3. QED
        BY <3>1, <3>2
    <2>2. ASSUME NEW p \in FieldsIn(h) \ Spot(w, k) PROVE g[p[1]].fields[p[2]] = h[p[1]].fields[p[2]]
      <3>1. p[1] \in 1..n /\ p[2] \in 1..Len(h[p[1]].fields) /\ p = <<p[1], p[2]>> /\ p # <<w, k>>
        BY PlaceIs DEF Spot
      <3>2. ~(p[1] = w /\ p[2] = k)
        BY <3>1
      <3>3. QED
        BY <1>6, <3>1, <3>2
    <2>3. QED
      BY <2>1, <2>2 DEF FieldPlaces
  <1>8. \A i : Total(g, o, Spot(w, k), <<>>, i) = Total(h, o, Spot(w, k), <<>>, i)
    BY <1>7 DEF Total, InFields
  <1>9. Owed(n, g, o, Spot(w, k), <<>>)
    <2> SUFFICES ASSUME NEW i \in 1..n
                 PROVE  IF Alive(g, i) THEN Tally(g, i) = Total(g, o, Spot(w, k), <<>>, i) /\ Tally(g, i) > 0
                        ELSE Total(g, o, Spot(w, k), <<>>, i) = 0 /\ Emptied(g, i)
      BY DEF Owed
    <2>1. IF Alive(h, i) THEN Tally(h, i) = Total(h, o, Spot(w, k), <<>>, i) /\ Tally(h, i) > 0
          ELSE Total(h, o, Spot(w, k), <<>>, i) = 0 /\ Emptied(h, i)
      BY DEF Owed
    <2>2. CASE Alive(h, i)
      <3>1. Tally(h, i) = Total(h, o, Spot(w, k), <<>>, i) /\ Tally(h, i) > 0
        BY <2>1, <2>2
      <3>2. Alive(g, i) /\ Tally(g, i) = Tally(h, i)
        BY <1>4, <2>2
      <3>3. QED
        BY <1>8, <3>1, <3>2
    <2>3. CASE ~Alive(h, i)
      <3>1. Total(h, o, Spot(w, k), <<>>, i) = 0 /\ Emptied(h, i) /\ i # w
        BY <2>1, <2>3
      <3>2. ~Alive(g, i) /\ Emptied(g, i)
        BY <1>4, <2>3, <3>1
      <3>3. QED
        BY <1>8, <3>1, <3>2
    <2>4. QED
      BY <2>2, <2>3
  <1>10. k \in 1..Len(g[w].fields) /\ g[w].fields[k] = v
    BY <1>3 DEF Alters
  <1>11. QED
    BY <1>1, <1>9, <1>10

\* One more reference to v
More(n, o, v, c) == \A i \in 1..n : c[i] = o[i] + (IF v = i THEN 1 ELSE 0)

\* The value of a field that is to be cleared
LEMMA FieldFreed ==
    ASSUME NEW C, NEW n \in Nat, NEW h \in Heaps(C, n), NEW w \in 1..n,
           NEW k \in 1..Len(h[w].fields), NEW o \in [1..n -> Nat], Owed(n, h, o, {}, <<>>),
           NEW v, v = FieldOf(h, w, k), NEW c \in [1..n -> Nat],
           More(n, o, v, c)
    PROVE  Owed(n, h, c, Spot(w, k), <<>>)
  BY FieldOwed DEF More

\* Another value comes for it, which is counted outside
LEMMA FieldTaken ==
    ASSUME NEW C, NEW n \in Nat, NEW h \in Heaps(C, n), NEW w \in 1..n,
           NEW k \in 1..Len(h[w].fields), NEW v \in 0..n, NEW old \in 0..n, old = FieldOf(h, w, k),
           NEW o \in [1..n -> Nat], NEW c \in [1..n -> Nat], NEW d \in [1..n -> Nat],
           Owed(n, h, o, {}, <<>>), o[w] >= 1, v # Plain => o[v] >= 1,
           More(n, o, old, c),
           More(n, o, v, d),
           NEW g, g = varAssign(h, old, v)
    PROVE  /\ g \in Heaps(C, n) /\ Owed(n, g, d, Spot(w, k), <<>>)
           /\ k \in 1..Len(g[w].fields) /\ Alive(g, w)
  <1>1. Owed(n, h, c, Spot(w, k), <<>>)
    BY FieldFreed
  <1>2. Anchored(n, h, o, Spot(w, k))
    <2>1. \A p \in Spot(w, k) : p[1] = w
      BY DEF Spot
    <2>2. QED
      BY <2>1 DEF Anchored
  <1>3. g \in Heaps(C, n) /\ Owed(n, g, d, Spot(w, k), <<>>)
    <2>1. varAssign(h, old, v) \in Heaps(C, n) /\ Owed(n, varAssign(h, old, v), d, Spot(w, k), <<>>)
      BY <1>1, <1>2, AssignOwed DEF More
    <2>2. QED
      BY <2>1
  <1>4. k \in 1..Len(g[w].fields)
    <2>1. Same(g, h)
      BY AssignTypes
    <2>2. w \in DOMAIN h
      BY HeapTypes
    <2>3. QED
      BY <2>1, <2>2 DEF Same
  <1>5. Alive(g, w)
    <2>1. PICK p, e : p = o[w] /\ e = (IF v = w THEN 1 ELSE 0)
      OBVIOUS
    <2>2. d[w] = p + e /\ p \in Nat /\ p >= 1 /\ e \in Nat
      BY <2>1 DEF More
    <2>3. d[w] >= 1
      BY <2>2
    <2>4. QED
      BY <1>3, <2>3, NeededLives
  <1>6. QED
    BY <1>3, <1>4, <1>5

\* An assignment to a field
LEMMA FieldMoved ==
    ASSUME NEW C, NEW n \in Nat, NEW h \in Heaps(C, n), NEW w \in 1..n,
           NEW k \in 1..Len(h[w].fields), NEW v \in 0..n, NEW old \in 0..n, old = FieldOf(h, w, k),
           NEW o \in [1..n -> Nat], NEW c \in [1..n -> Nat], NEW d \in [1..n -> Nat],
           Owed(n, h, o, {}, <<>>), o[w] >= 1, v # Plain => o[v] >= 1,
           More(n, o, old, c),
           More(n, o, v, d),
           NEW g, g = varAssign(h, old, v), NEW m, m = FieldPut(g, w, k, v)
    PROVE  m \in Heaps(C, n) /\ Owed(n, m, o, {}, <<>>)
  <1>1. g \in Heaps(C, n) /\ Owed(n, g, d, Spot(w, k), <<>>) /\ k \in 1..Len(g[w].fields)
    BY FieldTaken
  <1>2. Alive(g, w)
    BY FieldTaken
  <1>3. m \in Heaps(C, n)
    BY <1>1, FieldPutIs
  <1>4. Owed(n, m, d, Spot(w, k), <<>>)
    BY <1>1, <1>2, FieldPutOwed
  <1>5. k \in 1..Len(m[w].fields) /\ v = FieldOf(m, w, k)
    <2>1. Alters(m[w].fields, g[w].fields, k, v)
      BY <1>1, FieldPutIs
    <2>2. QED
      BY <1>1, <2>1 DEF Alters, FieldOf
  <1>6. Owed(n, m, o, {}, <<>>)
    BY <1>3, <1>4, <1>5, FieldOwed DEF More
  <1>7. QED
    BY <1>3, <1>6

\* The value that is assigned is popped
LEMMA FieldAssigned ==
    ASSUME NEW C, NEW n \in Nat, NEW h \in Heaps(C, n), NEW w \in 1..n,
           NEW k \in 1..Len(h[w].fields), NEW v \in 0..n, NEW old \in 0..n, old = FieldOf(h, w, k),
           NEW o \in [1..n -> Nat], NEW b \in [1..n -> Nat], Owed(n, h, o, {}, <<>>),
           o[w] >= 1, v # Plain => o[v] >= 1,
           More(n, b, v, o),
           NEW g, g = varAssign(h, old, v), NEW m, m = FieldPut(g, w, k, v)
    PROVE  varClear(m, <<v>>) \in Heaps(C, n) /\ Owed(n, varClear(m, <<v>>), b, {}, <<>>)
  <1>1. PICK c \in [1..n -> Nat] : More(n, o, old, c)
    <2>1. PICK c : c = Lost(n, o, old)
      OBVIOUS
    <2>2. c \in [1..n -> Nat]
      BY <2>1, OneMore
    <2>3. QED
      BY <2>1, <2>2 DEF Lost, More
  <1>2. PICK d \in [1..n -> Nat] : More(n, o, v, d)
    <2>1. PICK d : d = Lost(n, o, v)
      OBVIOUS
    <2>2. d \in [1..n -> Nat]
      BY <2>1, OneMore
    <2>3. QED
      BY <2>1, <2>2 DEF Lost, More
  <1>3. m \in Heaps(C, n) /\ Owed(n, m, o, {}, <<>>)
    BY <1>1, <1>2, FieldMoved
  <1>4. Anchored(n, m, b, {})
    BY DEF Anchored
  <1>5. QED
    BY <1>3, <1>4, DropOne DEF More

\* An assignment to a field of this
LEMMA StoreFieldAccounts ==
    ASSUME Inv, Inv', CountInv, flaws' \cap Bad = {}, NEW f, StoreField(f)
    PROVE  Accounted(heap', stack', acts', host', flaws')
  <1>1. PICK n, v, w, old, g, m : /\ n = Len(heap) /\ v = Peek /\ w = This
                                  /\ old = FieldOf(heap, w, f)
                                  /\ g = varAssign(heap, old, v) /\ m = FieldPut(g, w, f, v)
    OBVIOUS
  <1>2. /\ acts # <<>> /\ Top.k = "frame" /\ prog' = prog /\ host' = host /\ Len(stack) > Top.base
        /\ acts' = acts /\ stack' = Front(stack) /\ flaws' = flaws
        /\ IsInst(w) /\ f \in DOMAIN heap[w].fields
    BY <1>1 DEF StoreField, Running, classVars, history
  <1>3. heap' = varClear(m, <<v>>)
    BY <1>1 DEF StoreField, FieldPut, FieldOf
  <1>4. n \in Nat /\ heap \in Heaps(Classes, n) /\ stack \in Seq(0..n) /\ acts \in Seq(Acts(Classes, n))
    BY <1>1, NowTypes
  <1>5. /\ Top = acts[Len(acts)] /\ Len(acts) \in 1..Len(acts) /\ 1 \in 1..Len(Top.locals)
        /\ w = Top.locals[1] /\ w \in 0..n
    BY <1>1, <1>2, TopFrame DEF This
  <1>6. w # Plain /\ w \in 1..n
    BY <1>2, <1>4, <1>5 DEF IsInst, Plain
  <1>7. f \in 1..Len(heap[w].fields)
    BY <1>2, <1>4, <1>6, HeapTypes
  <1>8. v \in 0..n
    BY <1>1, <1>2, Popped
  <1>9. Stands(stack, acts, host)
    BY <1>2, CountsSay
  <1>10. /\ stack # <<>> /\ stack[Len(stack)] = v /\ Front(stack) \in Seq(0..n)
         /\ Stands(Front(stack), acts, host) /\ Len(stack) \in Nat
    BY <1>1, <1>2, <1>9, PopStands, NowTypes
  <1>11. PICK x, o : /\ Spare(flaws, n, x) /\ Counted(n, heap, stack, acts, host, x, o)
                     /\ o = Roots(n, stack, acts, host, x)
    BY <1>1, <1>2, CountsSay
  <1>12. /\ \A i \in 1..n : o[i] = Sum(stack, acts, host, x, i)
         /\ o \in [1..n -> Nat] /\ Owed(n, heap, o, {}, <<>>) /\ x \in [1..n -> Nat]
    BY <1>11, SumNat
  <1>13. o[w] >= 1
    <2>1. Rooted(Len(heap), o, acts[Len(acts)].locals[1])
      BY <1>1, <1>2, <1>5, <1>6, <1>9, <1>11, LocalNeeds
    <2>2. QED
      BY <1>5, <2>1 DEF Rooted
  <1>14. v # Plain => o[v] >= 1
    <2>1. Len(stack) \in 1..Len(stack)
      BY <1>10
    <2>2. host \in [inst : 0..n, refs : Nat]
      BY <1>1, NowTypes
    <2>3. v # Plain => Rooted(n, o, v)
      BY <1>4, <1>10, <1>11, <1>12, <2>1, <2>2, RootNeeds
    <2>4. QED
      BY <2>3 DEF Rooted
  <1>14a. old \in 0..n
    <2>1. heap[w].fields[f] \in 0..n
      BY <1>2, <1>4, <1>6, FieldTypes
    <2>2. QED
      BY <1>1, <2>1 DEF FieldOf
  <1>15. Len(heap') = n
    <2>1. g = varAssign(heap, old, v) /\ m = FieldPut(g, w, f, v)
      BY <1>1
    <2>2. g \in Heaps(Classes, n) /\ Same(g, heap)
      BY <1>4, <1>8, <1>14a, <2>1, AssignTypes
    <2>3. w \in DOMAIN heap
      BY <1>4, <1>6, HeapTypes
    <2>4. f \in 1..Len(g[w].fields)
      BY <1>7, <2>2, <2>3 DEF Same
    <2>5. m \in Heaps(Classes, n)
      BY <1>4, <1>6, <1>8, <2>1, <2>2, <2>4, FieldPutIs
    <2>6. PICK vs : vs = <<v>>
      OBVIOUS
    <2>7. vs \in Seq(0..n)
      BY <1>8, <2>6
    <2>8. varClear(m, vs) \in Heaps(Classes, n)
      BY <1>4, <2>5, <2>7, ClearTypes
    <2>9. QED
      BY <1>3, <1>4, <2>6, <2>8, HeapTypes
  <1>16. PICK b \in [1..n -> Nat] : \A i \in 1..n : b[i] = Sum(stack', acts', host', x, i)
    <2>1. prog' = prog /\ n = Len(heap')
      BY <1>2, <1>15
    <2>2. x \in [1..n -> Nat]
      BY <1>12
    <2>3. QED
      BY <2>1, <2>2, SumNext
  <1>17. ASSUME NEW i \in 1..n PROVE o[i] = b[i] + (IF v = i THEN 1 ELSE 0)
    <2>1. PICK cf, hb, ht, xx, iv : /\ cf = Count(i, Front(stack)) /\ hb = HeldBy(acts, i)
                                    /\ ht = HostBy(host, i) /\ xx = x[i]
                                    /\ iv = (IF v = i THEN 1 ELSE 0)
      OBVIOUS
    <2>2. Count(i, stack) = cf + iv
      BY <1>4, <1>10, <2>1, CountFront
    <2>3. hb \in Nat /\ ht \in Nat /\ xx \in Nat
      BY <1>11, <2>1 DEF Counted
    <2>4. cf \in Nat /\ iv \in Nat
      BY <1>10, <2>1, CountIs
    <2>5. o[i] = (cf + iv) + hb + ht + xx /\ b[i] = cf + hb + ht + xx
      BY <1>2, <1>12, <1>16, <2>1, <2>2 DEF Sum
    <2>6. o[i] = b[i] + iv
      BY <2>3, <2>4, <2>5
    <2>7. QED
      BY <2>1, <2>6
  <1>18. Owed(n, heap', b, {}, <<>>)
    <2>1. Owed(n, varClear(m, <<v>>), b, {}, <<>>)
      BY <1>1, <1>4, <1>6, <1>7, <1>8, <1>12, <1>13, <1>14, <1>16, <1>17, <1>14a, FieldAssigned DEF More
    <2>2. QED
      BY <1>3, <2>1
  <1>19. Stands(stack', acts', host') /\ Spare(flaws', n, x)
    BY <1>2, <1>10, <1>11
  <1>20. QED
    BY <1>2, <1>15, <1>16, <1>18, <1>19, AccountBy

\* A field of the instance on top of the stack, which is popped before that
LEMMA DerefAccounts ==
    ASSUME Inv, Inv', CountInv, flaws' \cap Bad = {}, NEW f, OP_DEREF(f)
    PROVE  Accounted(heap', stack', acts', host', flaws')
  <1>1. PICK n, u, h, v : /\ n = Len(heap) /\ u = Peek /\ h = varClear(heap, <<u>>)
                          /\ v = FieldOf(h, u, f)
    OBVIOUS
  <1>2. /\ acts # <<>> /\ Top.k = "frame" /\ prog' = prog /\ host' = host /\ acts' = acts
        /\ Len(stack) > Top.base /\ IsInst(u)
    BY <1>1 DEF OP_DEREF, Running, classVars
  <1>3. CASE f \notin Offsets(heap[u].cls)
    <2>1. heap' = heap /\ stack' = stack /\ flaws' = flaws
      BY <1>1, <1>3 DEF OP_DEREF
    <2>2. QED
      BY <1>2, <2>1, CountsStay
  <1>4. CASE f \in Offsets(heap[u].cls)
    <2>1. /\ heap' = jsinstRef(h, v) /\ stack' = Append(Front(stack), v)
          /\ flaws' = flaws \cup (IF h[u].live THEN {} ELSE {"temporary"})
      BY <1>1, <1>4 DEF OP_DEREF, FieldOf
    <2>2. h[u].live /\ flaws' = flaws
      BY <2>1 DEF Bad
    <2>3. n \in Nat /\ heap \in Heaps(Classes, n) /\ stack \in Seq(0..n) /\ acts \in Seq(Acts(Classes, n))
      BY <1>1, NowTypes
    <2>4. host \in [inst : 0..n, refs : Nat]
      BY <1>1, NowTypes
    <2>5. u \in 0..n
      BY <1>1, <1>2, Popped
    <2>6. u \in 1..n
      BY <1>2, <2>3, <2>5 DEF IsInst, Plain
    <2>7. Stands(stack, acts, host)
      BY <2>2, CountsSay
    <2>8. PICK st : st = Front(stack)
      OBVIOUS
    <2>9. /\ stack # <<>> /\ stack[Len(stack)] = u /\ st \in Seq(0..n) /\ Len(st) \in Nat
          /\ Len(st) >= Top.base
      BY <1>1, <1>2, <2>7, <2>8, PopStands
    <2>10. State(Classes, Depths, heap, st, acts) /\ Stands(st, acts, host)
      BY <1>2, <2>7, <2>8, PopStands
    <2>11. PICK x, o : Spare(flaws, n, x) /\ Counted(n, heap, stack, acts, host, x, o)
      BY <1>1, <2>2, CountsSay
    <2>12. /\ \A i \in 1..n : o[i] = Sum(stack, acts, host, x, i)
           /\ o \in [1..n -> Nat] /\ Owed(n, heap, o, {}, <<>>) /\ x \in [1..n -> Nat]
      BY <2>11, SumNat
    <2>13. PICK b : b = Roots(n, st, acts, host, x)
      OBVIOUS
    <2>14. b \in [1..n -> Nat]
      BY <2>3, <2>4, <2>9, <2>12, <2>13, RootsIs
    <2>15. \A i \in 1..n : b[i] = Sum(st, acts, host, x, i)
      BY <2>13 DEF Roots, Sum
    <2>16. ASSUME NEW i \in 1..n PROVE o[i] = b[i] + (IF u = i THEN 1 ELSE 0)
      <3>1. PICK cf, hb, ht, xx, iv : /\ cf = Count(i, st) /\ hb = HeldBy(acts, i)
                                      /\ ht = HostBy(host, i) /\ xx = x[i]
                                      /\ iv = (IF u = i THEN 1 ELSE 0)
        OBVIOUS
      <3>2. Count(i, stack) = cf + iv
        BY <2>3, <2>8, <2>9, <3>1, CountFront
      <3>3. hb \in Nat /\ ht \in Nat /\ xx \in Nat
        BY <2>11, <3>1 DEF Counted
      <3>4. cf \in Nat /\ iv \in Nat
        BY <2>9, <3>1, CountIs
      <3>5. o[i] = (cf + iv) + hb + ht + xx /\ b[i] = cf + hb + ht + xx
        BY <2>12, <2>15, <3>1, <3>2 DEF Sum
      <3>6. o[i] = b[i] + iv
        BY <3>3, <3>4, <3>5
      <3>7. QED
        BY <3>1, <3>6
    <2>17. Anchored(n, heap, b, {})
      BY DEF Anchored
    <2>18. h \in Heaps(Classes, n) /\ Owed(n, h, b, {}, <<>>)
      <3>1. varClear(heap, <<u>>) \in Heaps(Classes, n) /\ Owed(n, varClear(heap, <<u>>), b, {}, <<>>)
        BY <2>3, <2>5, <2>12, <2>14, <2>16, <2>17, DropOne
      <3>2. QED
        BY <1>1, <3>1
    <2>19. Same(h, heap)
      <3>1. PICK vs : vs = <<u>>
        OBVIOUS
      <3>2. vs \in Seq(0..n)
        BY <2>5, <3>1
      <3>3. Same(varClear(heap, vs), heap)
        BY <2>3, <3>2, ClearTypes
      <3>4. QED
        BY <1>1, <3>1, <3>3
    <2>20. f \in 1..Len(h[u].fields)
      <3>1. PICK m : m = Decl(heap[u].cls).nfields
        OBVIOUS
      <3>2. m \in Nat /\ Offsets(heap[u].cls) = 1..m
        <4>1. heap[u].cls \in Classes /\ prog \in Programs
          BY <1>1, <2>6, InvSays
        <4>2. QED
          BY <3>1, <4>1, DeclTypes DEF Classes, Decl, Offsets
      <3>3. Fits(heap, stack, acts)
        BY InvSays
      <3>4. m <= Len(heap[u].fields)
        BY <1>1, <2>6, <3>1, <3>3 DEF Fits, Roomy
      <3>5. Len(h[u].fields) = Len(heap[u].fields)
        <4>1. u \in DOMAIN heap
          BY <2>3, <2>6, HeapTypes
        <4>2. QED
          BY <2>19, <4>1 DEF Same
      <3>6. h[u].fields \in Seq(0..n)
        BY <2>3, <2>6, <2>18, HeapTypes
      <3>7. PICK q : q = h[u].fields
        OBVIOUS
      <3>8. q \in Seq(0..n) /\ m <= Len(q) /\ f \in 1..m
        BY <1>4, <3>2, <3>4, <3>5, <3>6, <3>7
      <3>9. f \in 1..Len(q)
        BY <3>2, <3>8
      <3>10. QED
        BY <3>7, <3>9
    <2>21. v \in 0..n
      <3>1. PICK q : q = h[u].fields
        OBVIOUS
      <3>2. q \in Seq(0..n) /\ f \in 1..Len(q)
        BY <2>3, <2>6, <2>18, <2>20, <3>1, HeapTypes
      <3>3. f \in DOMAIN q
        BY <3>2
      <3>4. h[u].fields[f] \in 0..n
        BY <2>3, <2>6, <2>18, <3>1, <3>3, FieldTypes
      <3>5. QED
        BY <1>1, <3>4 DEF FieldOf
    <2>22. v # Plain => Alive(h, v)
      <3>1. <<u, f>> \notin {}
        OBVIOUS
      <3>2. h[u].fields[f] # Plain => Alive(h, h[u].fields[f])
        BY <2>3, <2>6, <2>14, <2>18, <2>20, <3>1, FieldLives
      <3>3. QED
        BY <1>1, <3>2 DEF FieldOf
    <2>23. Len(heap') = n
      <3>1. jsinstRef(h, v) \in Heaps(Classes, n)
        BY <2>3, <2>18, <2>21, RefTypes
      <3>2. QED
        BY <2>1, <2>3, <3>1, HeapTypes
    <2>24. PICK c \in [1..n -> Nat] : \A i \in 1..n : c[i] = Sum(stack', acts', host', x, i)
      <3>1. prog' = prog /\ n = Len(heap')
        BY <1>2, <2>23
      <3>2. x \in [1..n -> Nat]
        BY <2>12
      <3>3. QED
        BY <3>1, <3>2, SumNext
    <2>25. ASSUME NEW i \in 1..n PROVE c[i] = b[i] + (IF v = i THEN 1 ELSE 0)
      <3>1. PICK cf, hb, ht, xx, iv : /\ cf = Count(i, st) /\ hb = HeldBy(acts, i)
                                      /\ ht = HostBy(host, i) /\ xx = x[i]
                                      /\ iv = (IF v = i THEN 1 ELSE 0)
        OBVIOUS
      <3>2. Count(i, stack') = cf + iv
        BY <2>1, <2>8, <2>9, <2>21, <3>1, CountAppend
      <3>3. hb \in Nat /\ ht \in Nat /\ xx \in Nat
        BY <2>11, <3>1 DEF Counted
      <3>4. cf \in Nat /\ iv \in Nat
        BY <2>9, <3>1, CountIs
      <3>5. c[i] = (cf + iv) + hb + ht + xx /\ b[i] = cf + hb + ht + xx
        BY <1>2, <2>15, <2>24, <3>1, <3>2 DEF Sum
      <3>6. c[i] = b[i] + iv
        BY <3>3, <3>4, <3>5
      <3>7. QED
        BY <3>1, <3>6
    <2>26. Owed(n, heap', c, {}, <<>>)
      <3>1. Owed(n, jsinstRef(h, v), c, {}, <<>>)
        BY <2>3, <2>14, <2>18, <2>21, <2>22, <2>24, <2>25, RefOwed
      <3>2. QED
        BY <2>1, <3>1
    <2>27. Stands(stack', acts', host')
      <3>1. PICK s2, d : s2 = Append(st, v) /\ d = Len(st)
        OBVIOUS
      <3>2. /\ s2 \in Seq(0..n) /\ d \in Nat /\ d <= Len(st) /\ d <= Len(s2)
            /\ \A q \in 1..d : s2[q] = st[q]
        BY <2>9, <2>21, <3>1
      <3>3. \A m \in 1..Len(acts) : Low(acts[m]) <= d
        <4> TAKE m \in 1..Len(acts)
        <4>1. Top.base \in Nat /\ Low(acts[m]) \in Nat
          BY <1>2, TopFrame, InvSays
        <4>2. Low(acts[m]) <= Top.base
          <5>1. acts[Len(acts)].k = "frame" /\ Top = acts[Len(acts)]
            BY <1>2 DEF Top
          <5>2. QED
            BY <1>2, <2>10, <5>1, LowIs
        <4>3. QED
          BY <2>9, <3>1, <4>1, <4>2
      <3>4. \E m \in 1..Len(acts) : acts[m].k = "frame"
        BY <1>2, TopFrame
      <3>5. s2 \in Seq(0..Len(heap))
        BY <1>1, <3>2
      <3>6. Stands(s2, acts, host)
        BY <2>10, <3>2, <3>3, <3>4, <3>5, StandStack
      <3>7. QED
        BY <1>2, <2>1, <2>8, <3>1, <3>6
    <2>28. Spare(flaws', n, x)
      BY <2>2, <2>11
    <2>29. QED
      BY <1>2, <2>23, <2>24, <2>26, <2>27, <2>28, AccountBy
  <1>5. QED
    BY <1>3, <1>4

-----------------------------------------------------------------------------
(* Instances that are made                                                 *)

\* A new instance has one reference, and its fields are plain.
LEMMA FreshIs ==
    ASSUME prog \in Programs, NEW c \in Classes, NEW h, NEW m, h[m] = jsinstConstruct(c)
    PROVE  Alive(h, m) /\ Tally(h, m) = 1 /\ Emptied(h, m)
  <1>1. PICK x, q : x = jsinstConstruct(c) /\ q = x.fields
    OBVIOUS
  <1>2. x.refcount = 1 /\ h[m] = x
    BY <1>1 DEF jsinstConstruct
  <1>3. x.live
    BY <1>1 DEF jsinstConstruct
  <1>4. q \in Seq(0..0)
    <2>1. x \in Insts(Classes, 0)
      BY <1>1, ConstructTypes
    <2>2. QED
      BY <1>1, <2>1 DEF Insts
  <1>5. \A k \in DOMAIN q : q[k] = Plain
    BY <1>1 DEF jsinstConstruct
  <1>6. \A k \in 1..Len(q) : q[k] = Plain
    BY <1>4, <1>5
  <1>7. Emptied(h, m)
    BY <1>1, <1>2, <1>6 DEF Emptied
  <1>8. QED
    BY <1>2, <1>3, <1>7 DEF Alive, Tally

\* A heap with one more instance, whose fields are plain
Grown(n, h, g) == (\A i \in 1..n : g[i] = h[i]) /\ Emptied(g, n + 1)

\* What is in the fields of the others does not change.
LEMMA GrownFields ==
    ASSUME NEW C, NEW n \in Nat, NEW h \in Heaps(C, n), NEW g \in Heaps(C, n + 1), Grown(n, h, g),
           NEW i, i # Plain
    PROVE  InFields(g, i, {}) = InFields(h, i, {})
  <1>1. PICK m : m = n + 1
    OBVIOUS
  <1>2. m \in Nat /\ g \in Heaps(C, m) /\ m \notin 1..n /\ \A w \in 1..m : w \in 1..n \/ w = m
    BY <1>1
  <1>3. ASSUME NEW p \in FieldPlaces(g, i, {}) PROVE p \in FieldPlaces(h, i, {})
    <2>1. p \in FieldsIn(g) /\ g[p[1]].fields[p[2]] = i
      BY DEF FieldPlaces
    <2>2. p[1] \in 1..m /\ p[2] \in 1..Len(g[p[1]].fields) /\ p = <<p[1], p[2]>>
      BY <1>2, <2>1, PlaceIs
    <2>3. p[1] # m
      BY <1>1, <2>1, <2>2 DEF Grown, Emptied
    <2>4. p[1] \in 1..n
      BY <1>2, <2>2, <2>3
    <2>5. g[p[1]] = h[p[1]]
      BY <2>4 DEF Grown
    <2>6. <<p[1], p[2]>> \in FieldsIn(h)
      BY <2>2, <2>4, <2>5, PlaceIs
    <2>7. QED
      BY <2>1, <2>2, <2>5, <2>6 DEF FieldPlaces
  <1>4. ASSUME NEW p \in FieldPlaces(h, i, {}) PROVE p \in FieldPlaces(g, i, {})
    <2>1. p \in FieldsIn(h) /\ h[p[1]].fields[p[2]] = i
      BY DEF FieldPlaces
    <2>2. p[1] \in 1..n /\ p[2] \in 1..Len(h[p[1]].fields) /\ p = <<p[1], p[2]>>
      BY <2>1, PlaceIs
    <2>3. g[p[1]] = h[p[1]] /\ p[1] \in 1..m
      BY <1>1, <2>2 DEF Grown
    <2>4. <<p[1], p[2]>> \in FieldsIn(g)
      BY <1>2, <2>2, <2>3, PlaceIs
    <2>5. QED
      BY <2>1, <2>2, <2>3, <2>4 DEF FieldPlaces
  <1>5. FieldPlaces(g, i, {}) = FieldPlaces(h, i, {})
    BY <1>3, <1>4
  <1>6. QED
    BY <1>5 DEF InFields

\* No field refers to an instance that is not there.
LEMMA NoFields ==
    ASSUME NEW C, NEW n \in Nat, NEW h \in Heaps(C, n), NEW i, i \notin 0..n
    PROVE  InFields(h, i, {}) = 0
  <1>1. ASSUME NEW p \in FieldPlaces(h, i, {}) PROVE FALSE
    <2>1. p \in FieldsIn(h) /\ h[p[1]].fields[p[2]] = i
      BY DEF FieldPlaces
    <2>2. p[1] \in 1..n /\ p[2] \in 1..Len(h[p[1]].fields)
      BY <2>1, PlaceIs
    <2>3. PICK q : q = h[p[1]].fields
      OBVIOUS
    <2>4. q \in Seq(0..n) /\ p[2] \in 1..Len(q)
      BY <2>2, <2>3, HeapTypes
    <2>5. q[p[2]] \in 0..n
      BY <2>4
    <2>6. QED
      BY <2>1, <2>3, <2>5
  <1>2. FieldPlaces(h, i, {}) = {}
    BY <1>1
  <1>3. QED
    BY <1>2, FS_EmptySet DEF InFields

\* The new instance is counted once.
LEMMA GrowOwed ==
    ASSUME NEW C, NEW n \in Nat, NEW h \in Heaps(C, n), NEW m, m = n + 1, NEW g \in Heaps(C, m),
           Grown(n, h, g), Alive(g, m), Tally(g, m) = 1,
           NEW o \in [1..n -> Nat], NEW b \in [1..m -> Nat], Owed(n, h, o, {}, <<>>),
           \A i \in 1..n : b[i] = o[i], b[m] = 1
    PROVE  Owed(m, g, b, {}, <<>>)
  <1>1. \A i \in 1..m : i \in 1..n \/ i = m
    OBVIOUS
  <1>2. ASSUME NEW i \in 1..n
        PROVE  IF Alive(g, i) THEN Tally(g, i) = Total(g, b, {}, <<>>, i) /\ Tally(g, i) > 0
               ELSE Total(g, b, {}, <<>>, i) = 0 /\ Emptied(g, i)
    <2>1. g[i] = h[i] /\ i # Plain
      BY DEF Grown, Plain
    <2>2. (Alive(g, i) <=> Alive(h, i)) /\ Tally(g, i) = Tally(h, i) /\ (Emptied(g, i) <=> Emptied(h, i))
      BY <2>1 DEF Alive, Tally, Emptied
    <2>3. InFields(g, i, {}) = InFields(h, i, {})
      BY <2>1, GrownFields
    <2>4. Total(g, b, {}, <<>>, i) = Total(h, o, {}, <<>>, i)
      BY <2>3 DEF Total
    <2>5. IF Alive(h, i) THEN Tally(h, i) = Total(h, o, {}, <<>>, i) /\ Tally(h, i) > 0
          ELSE Total(h, o, {}, <<>>, i) = 0 /\ Emptied(h, i)
      BY DEF Owed
    <2>6. QED
      BY <2>2, <2>4, <2>5
  <1>3. Tally(g, m) = Total(g, b, {}, <<>>, m) /\ Tally(g, m) > 0
    <2>1. m # Plain /\ m \notin 0..n
      BY DEF Plain
    <2>2. InFields(g, m, {}) = InFields(h, m, {})
      BY <2>1, GrownFields
    <2>3. InFields(h, m, {}) = 0
      BY <2>1, NoFields
    <2>4. Count(m, <<>>) = 0
      BY CountOne
    <2>5. PICK z : z = Total(g, b, {}, <<>>, m)
      OBVIOUS
    <2>6. z = 1
      BY <2>2, <2>3, <2>4, <2>5 DEF Total
    <2>7. QED
      BY <2>5, <2>6
  <1>4. QED
    BY <1>1, <1>2, <1>3 DEF Owed

\* Nothing refers to an instance that is not there.
LEMMA NothingOut ==
    ASSUME NEW C, NEW n \in Nat, NEW st \in Seq(0..n), NEW ac \in Seq(Acts(C, n)),
           NEW ho \in [inst : 0..n, refs : Nat], NEW i, i \notin 0..n
    PROVE  Count(i, st) = 0 /\ HeldBy(ac, i) = 0 /\ HostBy(ho, i) = 0
  <1>1. ASSUME NEW q \in Seq(0..n) PROVE Count(i, q) = 0
    <2>1. \A k \in 1..Len(q) : q[k] # i
      OBVIOUS
    <2>2. QED
      BY <2>1, CountIs
  <1>2. ASSUME NEW m \in 1..Len(ac) PROVE Hand(ac, m, i) = {}
    <2>1. ac[m] \in Acts(C, n)
      OBVIOUS
    <2>2. Held(ac[m]) \in Seq(0..n)
      BY <2>1, HeldTypes
    <2>3. PICK q : q = Held(ac[m])
      OBVIOUS
    <2>4. q \in Seq(0..n) /\ DOMAIN q = 1..Len(q)
      BY <2>2, <2>3
    <2>5. \A k \in DOMAIN q : q[k] # i
      BY <2>4
    <2>6. QED
      BY <2>3, <2>5 DEF Hand, At
  <1>3. HeldPlaces(ac, i) = {}
    <2>1. DOMAIN ac = 1..Len(ac)
      OBVIOUS
    <2>2. QED
      BY <1>2, <2>1 DEF HeldPlaces
  <1>4. HeldBy(ac, i) = 0
    BY <1>3, FS_EmptySet DEF HeldBy
  <1>5. HostBy(ho, i) = 0
    <2>1. ho.inst \in 0..n
      OBVIOUS
    <2>2. QED
      BY <2>1 DEF HostBy
  <1>6. QED
    BY <1>1, <1>4, <1>5

\* The references that were lost, when there is one more instance
Longer(n, x) == [i \in 1..(n + 1) |-> IF i \in 1..n THEN x[i] ELSE 0]

\* They are the same.
LEMMA LongerIs ==
    ASSUME NEW n \in Nat, NEW m, m = n + 1, NEW fl, NEW x, Spare(fl, n, x),
           NEW y, y = Longer(n, x)
    PROVE  /\ Spare(fl, m, y) /\ y \in [1..m -> Nat] /\ y[m] = 0
           /\ \A i \in 1..n : y[i] = x[i]
  <1>1. x \in [1..n -> Nat] /\ (fl = {} => \A i \in 1..n : x[i] = 0)
    BY DEF Spare
  <1>2. \A i \in 1..n : y[i] = x[i]
    BY DEF Longer
  <1>3. y[m] = 0
    BY DEF Longer
  <1>4. y \in [1..m -> Nat]
    <2>1. \A i \in 1..(n + 1) : (IF i \in 1..n THEN x[i] ELSE 0) \in Nat
      BY <1>1
    <2>2. QED
      BY <2>1 DEF Longer
  <1>5. fl = {} => \A i \in 1..m : y[i] = 0
    <2>1. \A i \in 1..m : i \in 1..n \/ i = m
      OBVIOUS
    <2>2. QED
      BY <1>1, <1>2, <1>3, <2>1
  <1>6. QED
    BY <1>2, <1>3, <1>4, <1>5 DEF Spare

\* The sums after a step, when the heap has the length m
LEMMA SumMade ==
    ASSUME Inv', prog' = prog, NEW m, m = Len(heap'), NEW y, y \in [1..m -> Nat]
    PROVE  \E b \in [1..m -> Nat] : \A i \in 1..m : b[i] = Sum(stack', acts', host', y, i)
  BY SumNext

\* The instance is made: its one reference is that of the call that makes it.
LEMMA MakeAccounts ==
    ASSUME Inv, Inv', CountInv, flaws' \cap Bad = {}, host' = host,
           acts = <<>> => host.inst = Plain,
           NEW c \in Classes, NEW args \in Seq(0..Len(heap)), NEW byhost \in BOOLEAN,
           Make(c, args, byhost)
    PROVE  Accounted(heap', stack', acts', host', flaws')
  <1>1. PICK n, m, a, g : /\ n = Len(heap) /\ m = n + 1
                          /\ a = Internal(n + 1, Reverse(Chain(c)), args, byhost)
                          /\ g = Append(heap, jsinstConstruct(c))
    OBVIOUS
  <1>2. /\ heap' = g /\ acts' = Append(acts, a) /\ stack' = stack /\ prog' = prog /\ flaws' = flaws
    BY <1>1 DEF Make, history, classVars, Internal
  <1>3. /\ n \in Nat /\ heap \in Heaps(Classes, n) /\ stack \in Seq(0..n)
        /\ acts \in Seq(Acts(Classes, n))
    BY <1>1, NowTypes
  <1>4. host \in [inst : 0..n, refs : Nat] /\ State(Classes, Depths, heap, stack, acts)
    BY <1>1, NowTypes
  <1>5. prog \in Programs
    BY InvSays
  <1>6. m \in Nat /\ m \in 1..m /\ m \notin 0..n /\ \A i \in 1..n : i \in 1..m
    BY <1>1, <1>3
  <1>7. g[m] = jsinstConstruct(c) /\ (\A i \in 1..n : g[i] = heap[i]) /\ Len(g) = m
    <2>1. Len(heap) = n /\ DOMAIN heap = 1..n
      BY <1>1, <1>3, HeapTypes
    <2>2. PICK z : z = jsinstConstruct(c)
      OBVIOUS
    <2>3. heap \in Seq(Insts(Classes, n))
      BY <1>3 DEF Heaps
    <2>4. g = Append(heap, z)
      BY <1>1, <2>2
    <2>5. g[m] = z /\ (\A i \in 1..n : g[i] = heap[i]) /\ Len(g) = m
      BY <1>1, <1>3, <2>1, <2>3, <2>4
    <2>6. QED
      BY <2>2, <2>5
  <1>8. g \in Heaps(Classes, m)
    <2>1. heap' \in Heaps(Classes, Len(heap'))
      BY <1>2, NextTypes
    <2>2. QED
      BY <1>2, <1>7, <2>1
  <1>9. Alive(g, m) /\ Tally(g, m) = 1 /\ Emptied(g, m)
    BY <1>5, <1>7, FreshIs
  <1>10. Grown(n, heap, g)
    BY <1>1, <1>7, <1>9 DEF Grown
  <1>11. a \in Acts(Classes, m) /\ a.k = "internal" /\ a.inst = m
    <2>1. PICK r : r = Reverse(Chain(c))
      OBVIOUS
    <2>2. r \in Seq(Classes)
      BY <1>5, <2>1, Above, ReverseTypes
    <2>3. args \in Seq(0..m)
      BY <1>1, <1>3, MoreInsts
    <2>4. a = Internal(m, r, args, byhost)
      BY <1>1, <2>1
    <2>5. a \in Acts(Classes, m)
      BY <1>6, <2>2, <2>3, <2>4, InternalIs
    <2>6. QED
      BY <2>4, <2>5 DEF Internal
  <1>12. acts \in Seq(Acts(Classes, m)) /\ Held(a) = <<m>>
    <2>1. Acts(Classes, n) \subseteq Acts(Classes, m)
      BY <1>1, <1>3, MoreActs
    <2>2. acts \in Seq(Acts(Classes, m))
      BY <1>3, <2>1
    <2>3. Held(a) = <<a.inst>>
      BY <1>6, <1>11, HeldTypes
    <2>4. QED
      BY <1>11, <2>2, <2>3
  <1>13. PICK x, o : Spare(flaws, n, x) /\ Counted(n, heap, stack, acts, host, x, o)
    BY <1>1, <1>2, CountsSay
  <1>14. /\ \A i \in 1..n : o[i] = Sum(stack, acts, host, x, i)
         /\ o \in [1..n -> Nat] /\ Owed(n, heap, o, {}, <<>>) /\ x \in [1..n -> Nat]
    BY <1>13, SumNat
  <1>15. PICK y : y = Longer(n, x)
    OBVIOUS
  <1>16. Spare(flaws, m, y) /\ y \in [1..m -> Nat] /\ y[m] = 0 /\ \A i \in 1..n : y[i] = x[i]
    <2>1. m = n + 1
      BY <1>1
    <2>2. Spare(flaws, m, y) /\ y[m] = 0
      BY <1>3, <1>13, <1>15, <2>1, LongerIs
    <2>3. y \in [1..m -> Nat]
      BY <1>3, <1>13, <1>15, <2>1, LongerIs
    <2>4. \A i \in 1..n : y[i] = x[i]
      BY <1>3, <1>13, <1>15, <2>1, LongerIs
    <2>5. QED
      BY <2>2, <2>3, <2>4
  <1>17. PICK b \in [1..m -> Nat] : \A i \in 1..m : b[i] = Sum(stack', acts', host', y, i)
    <2>1. prog' = prog /\ m = Len(heap')
      BY <1>2, <1>7
    <2>2. y \in [1..m -> Nat]
      BY <1>16
    <2>3. \E b \in [1..m -> Nat] : \A i \in 1..m : b[i] = Sum(stack', acts', host', y, i)
      BY <2>1, <2>2, SumMade
    <2>4. QED
      BY <2>3
  <1>18. \A i : HeldBy(acts', i) = HeldBy(acts, i) + (IF m = i THEN 1 ELSE 0)
    <2> TAKE i
    <2>1. m \in Nat /\ a \in Acts(Classes, m) /\ acts \in Seq(Acts(Classes, m))
      BY <1>6, <1>11, <1>12
    <2>2. HeldBy(Append(acts, a), i) = HeldBy(acts, i) + Count(i, Held(a))
      BY <2>1, HeldPush
    <2>3. Count(i, <<m>>) = (IF m = i THEN 1 ELSE 0)
      BY CountOne
    <2>4. QED
      BY <1>2, <1>12, <2>2, <2>3
  <1>19. ASSUME NEW i \in 1..n PROVE b[i] = o[i]
    <2>1. HeldBy(acts, i) \in Nat
      BY <1>13 DEF Counted
    <2>2. HeldBy(acts', i) = HeldBy(acts, i)
      BY <1>6, <1>18, <2>1
    <2>3. Sum(stack', acts', host', y, i) = Sum(stack, acts, host, x, i)
      BY <1>2, <1>16, <2>2 DEF Sum
    <2>4. QED
      BY <1>6, <1>14, <1>17, <2>3
  <1>20. b[m] = 1
    <2>1. Count(m, stack) = 0 /\ HeldBy(acts, m) = 0 /\ HostBy(host, m) = 0
      BY <1>3, <1>4, <1>6, NothingOut
    <2>2. HeldBy(acts', m) = 1
      BY <1>18, <2>1
    <2>3. Sum(stack', acts', host', y, m) = 1
      BY <1>2, <1>16, <2>1, <2>2 DEF Sum
    <2>4. QED
      BY <1>6, <1>17, <2>3
  <1>21. Owed(m, heap', b, {}, <<>>)
    <2>1. Owed(m, g, b, {}, <<>>)
      BY <1>1, <1>3, <1>8, <1>9, <1>10, <1>14, <1>17, <1>19, <1>20, GrowOwed
    <2>2. QED
      BY <1>2, <2>1
  <1>22. Stands(stack', acts', host')
    <2>1. Stands(stack, acts, host)
      BY <1>2, CountsSay
    <2>2. a.k # "frame" /\ a.k # "call"
      BY <1>11
    <2>3. Stands(stack, Append(acts, a), host)
      BY <1>4, <2>1, <2>2, StandPush
    <2>4. QED
      BY <1>2, <2>3
  <1>23. Spare(flaws', m, y) /\ m = Len(heap')
    BY <1>2, <1>7, <1>16
  <1>24. QED
    BY <1>2, <1>17, <1>21, <1>22, <1>23, AccountBy

\* OP_NEW
LEMMA NewAccounts ==
    ASSUME Inv, Inv', CountInv, flaws' \cap Bad = {}, NEW c, NEW args \in Operands, OP_NEW(c, args)
    PROVE  Accounted(heap', stack', acts', host', flaws')
  <1> DEFINE vs == [k \in DOMAIN args |-> Top.locals[args[k]]]
  <1>1. acts # <<>> /\ Top.k = "frame" /\ host' = host
    BY DEF OP_NEW, Running
  <1>2. CASE c \in Classes
    <2>1. Make(c, vs, FALSE)
      BY <1>2 DEF OP_NEW
    <2>2. \A j \in DOMAIN args : args[j] \in 1..Len(Top.locals)
      BY DEF Operands, Vars
    <2>3. \A j \in 1..Len(Top.locals) : Top.locals[j] \in 0..Len(heap)
      BY <1>1, TopFrame
    <2>4. Len(args) \in Nat /\ DOMAIN args = 1..Len(args)
      BY DEF Operands
    <2>5. PICK q, b : q = vs /\ b = FALSE
      OBVIOUS
    <2>6. q = [j \in 1..Len(args) |-> q[j]] /\ \A j \in 1..Len(args) : q[j] = Top.locals[args[j]]
      BY <2>4, <2>5
    <2>7. \A j \in 1..Len(args) : q[j] \in 0..Len(heap)
      BY <2>2, <2>3, <2>4, <2>6
    <2>8. q \in Seq(0..Len(heap))
      BY <2>4, <2>6, <2>7
    <2>9. Make(c, q, b) /\ b \in BOOLEAN
      BY <2>1, <2>5
    <2>10. QED
      BY <1>1, <1>2, <2>8, <2>9, MakeAccounts
  <1>3. CASE c \notin Classes
    <2>1. heap' = heap /\ stack' = stack /\ acts' = acts /\ flaws' = flaws
      BY <1>3 DEF OP_NEW, history
    <2>2. QED
      BY <1>1, <2>1, CountsStay
  <1>4. QED
    BY <1>2, <1>3

\* createJSClassInstance
LEMMA CreateAccounts ==
    ASSUME Inv, Inv', CountInv, flaws' \cap Bad = {}, NEW c \in Classes, NEW argc \in 0..1,
           createJSClassInstance(c, argc)
    PROVE  Accounted(heap', stack', acts', host', flaws')
  <1>1. PICK q, b : q = [k \in 1..argc |-> Plain] /\ b = TRUE
    OBVIOUS
  <1>2. Make(c, q, b) /\ b \in BOOLEAN /\ host' = host /\ host.inst = Plain
    BY <1>1 DEF createJSClassInstance
  <1>3. Len(heap) \in Nat /\ argc \in Nat
    BY InvSays
  <1>4. q \in Seq(0..Len(heap))
    BY <1>1, <1>3, PlainList
  <1>5. QED
    BY <1>2, <1>4, MakeAccounts

-----------------------------------------------------------------------------
(* The steps of constructions and of the host                              *)

\* The activations with another one on top are as many.
LEMMA ToppedIs ==
    ASSUME NEW S, NEW ac \in Seq(S), ac # <<>>, NEW a, NEW cc, cc = Topped(ac, a)
    PROVE  /\ cc \in Seq(S \cup {a}) /\ Len(cc) = Len(ac) /\ Len(cc) \in Nat /\ cc # <<>>
           /\ cc[Len(cc)] = a
  <1>1. PICK w : w = Len(ac)
    OBVIOUS
  <1>2. w \in Nat /\ w >= 1 /\ DOMAIN ac = 1..w /\ \A m \in 1..w : ac[m] \in S
    BY <1>1
  <1>3. cc = [m \in 1..w |-> IF m = w THEN a ELSE ac[m]]
    BY <1>1, <1>2 DEF Topped
  <1>4. \A m \in 1..w : (IF m = w THEN a ELSE ac[m]) \in S \cup {a}
    BY <1>2
  <1>5. cc \in Seq(S \cup {a}) /\ Len(cc) = w
    BY <1>2, <1>3, <1>4
  <1>6. cc[w] = a
    BY <1>2, <1>3
  <1>7. QED
    BY <1>1, <1>2, <1>5, <1>6

\* An activation that has begun in a step, and those below it
LEMMA BegunIs ==
    ASSUME Inv', prog' = prog, NEW n, n = Len(heap'), NEW S, NEW bc \in Seq(S), NEW f,
           acts' = Append(bc, f)
    PROVE  /\ f \in Acts(Classes, n) /\ bc \in Seq(Acts(Classes, n))
           /\ State(Classes, Depths, heap', stack', bc)
  <1>1. /\ acts' \in Seq(Acts(Classes, n)) /\ State(Classes, Depths, heap', stack', acts')
    BY NextTypes
  <1>2. PICK ac, A : ac = Append(bc, f) /\ A = Acts(Classes, n)
    OBVIOUS
  <1>3. /\ Len(ac) = Len(bc) + 1 /\ Len(bc) \in Nat /\ ac[Len(ac)] = f /\ ac # <<>>
        /\ SubSeq(ac, 1, Len(ac) - 1) = bc /\ \A m \in 1..Len(bc) : ac[m] = bc[m]
    BY <1>2
  <1>4. ac \in Seq(A) /\ \A m \in 1..Len(ac) : ac[m] \in A
    BY <1>1, <1>2
  <1>5. f \in A
    BY <1>3, <1>4
  <1>6. bc \in Seq(A)
    <2>1. \A m \in 1..Len(bc) : bc[m] \in A
      BY <1>3, <1>4
    <2>2. QED
      BY <2>1
  <1>7. State(Classes, Depths, heap', stack', ac)
    BY <1>1, <1>2
  <1>8. State(Classes, Depths, heap', stack', SubSeq(ac, 1, Len(ac) - 1))
    BY <1>3, <1>7, PopTop
  <1>9. QED
    BY <1>2, <1>3, <1>5, <1>6, <1>8

\* A sum changes by what the stack, the activations and the lost references do.
LEMMA SumMoves ==
    ASSUME NEW n, NEW h, NEW st, NEW ac, NEW ho, NEW x, NEW o, Counted(n, h, st, ac, ho, x, o),
           NEW i \in 1..n, NEW st2, NEW ac2, NEW y, NEW s \in Nat, NEW t \in Nat,
           NEW u \in Nat, NEW v \in Nat, NEW l \in Nat,
           Count(i, st2) \in Nat, HeldBy(ac2, i) \in Nat,
           Count(i, st2) + s = Count(i, st) + t, HeldBy(ac2, i) + u = HeldBy(ac, i) + v,
           y[i] = x[i] + l
    PROVE  Sum(st2, ac2, ho, y, i) + s + u = Sum(st, ac, ho, x, i) + t + v + l
  <1>1. PICK a, b, c, d, e, f : /\ a = Count(i, st) /\ b = HeldBy(ac, i) /\ c = HostBy(ho, i)
                                /\ d = x[i] /\ e = Count(i, st2) /\ f = HeldBy(ac2, i)
    OBVIOUS
  <1>2. a \in Nat /\ b \in Nat /\ c \in Nat /\ d \in Nat /\ e \in Nat /\ f \in Nat
    BY <1>1 DEF Counted
  <1>3. e + s = a + t /\ f + u = b + v
    BY <1>1
  <1>4. (e + f + c + (d + l)) + s + u = (a + b + c + d) + t + v + l
    BY <1>2, <1>3
  <1>5. QED
    BY <1>1, <1>4 DEF Sum

\* It is a number.
LEMMA SumMoved ==
    ASSUME NEW n, NEW h, NEW st, NEW ac, NEW ho, NEW x, NEW o, Counted(n, h, st, ac, ho, x, o),
           NEW i \in 1..n, NEW st2, NEW ac2, NEW y,
           Count(i, st2) \in Nat, HeldBy(ac2, i) \in Nat, y[i] \in Nat
    PROVE  Sum(st2, ac2, ho, y, i) \in Nat /\ Sum(st, ac, ho, x, i) \in Nat
  <1>1. HostBy(ho, i) \in Nat
    BY DEF Counted
  <1>2. Sum(st2, ac2, ho, y, i) \in Nat
    BY <1>1 DEF Sum
  <1>3. Sum(st, ac, ho, x, i) \in Nat
    BY DEF Counted, Sum
  <1>4. QED
    BY <1>2, <1>3

\* The numbers after a step
LEMMA NextNats ==
    ASSUME Inv', prog' = prog, NEW i
    PROVE  Count(i, stack') \in Nat /\ HeldBy(acts', i) \in Nat
  <1>1. /\ Len(heap') \in Nat /\ stack' \in Seq(0..Len(heap'))
        /\ acts' \in Seq(Acts(Classes, Len(heap')))
    BY NextTypes
  <1>2. Count(i, stack') \in Nat
    BY <1>1, CountIs
  <1>3. HeldBy(acts', i) \in Nat
    BY <1>1, HeldNat
  <1>4. QED
    BY <1>2, <1>3

\* The activation on top returns.
LEMMA TopPops ==
    ASSUME Inv, acts # <<>>, Stands(stack, acts, host)
    PROVE  /\ Below \in Seq(Acts(Classes, Len(heap))) /\ Stands(stack, Below, host)
           /\ State(Classes, Depths, heap, stack, Below)
           /\ \A i : /\ HeldBy(acts, i) = HeldBy(Below, i) + Count(i, Held(Top))
                     /\ HeldBy(Below, i) \in Nat /\ Count(i, Held(Top)) \in Nat
  <1>1. PICK n : n = Len(heap)
    OBVIOUS
  <1>2. /\ n \in Nat /\ acts \in Seq(Acts(Classes, n))
        /\ State(Classes, Depths, heap, stack, acts) /\ Top = acts[Len(acts)]
        /\ Top \in Acts(Classes, n)
    BY <1>1, NowTypes, TopIs
  <1>3. Stands(stack, Below, host) /\ State(Classes, Depths, heap, stack, Below)
    <2>1. Stands(stack, SubSeq(acts, 1, Len(acts) - 1), host)
      BY <1>2, StandPop
    <2>2. State(Classes, Depths, heap, stack, SubSeq(acts, 1, Len(acts) - 1))
      BY <1>2, PopTop
    <2>3. QED
      BY <2>1, <2>2 DEF Below
  <1>4. SubSeq(acts, 1, Len(acts) - 1) \in Seq(Acts(Classes, n))
    BY <1>2, HeldPop
  <1>5. Below \in Seq(Acts(Classes, n))
    BY <1>4 DEF Below
  <1>6. ASSUME NEW i
        PROVE  /\ HeldBy(acts, i) = HeldBy(Below, i) + Count(i, Held(Top))
               /\ HeldBy(Below, i) \in Nat /\ Count(i, Held(Top)) \in Nat
    <2>1. HeldBy(acts, i) = HeldBy(SubSeq(acts, 1, Len(acts) - 1), i) + Count(i, Held(acts[Len(acts)]))
      BY <1>2, HeldPop
    <2>2. HeldBy(Below, i) \in Nat
      BY <1>2, <1>5, HeldNat
    <2>3. Held(Top) \in Seq(0..n)
      BY <1>2, HeldTypes
    <2>4. Count(i, Held(Top)) \in Nat
      BY <2>3, CountIs
    <2>5. QED
      BY <1>2, <2>1, <2>2, <2>4 DEF Below
  <1>7. QED
    BY <1>1, <1>3, <1>5, <1>6

\* The activation on top goes on
LEMMA TopAlters ==
    ASSUME Inv, acts # <<>>, Stands(stack, acts, host), NEW a \in Acts(Classes, Len(heap)),
           a.k = Top.k, a.k # "frame", a.k # "call", NEW cc, cc = Topped(acts, a)
    PROVE  /\ Stands(stack, cc, host)
           /\ \A i : /\ HeldBy(cc, i) + Count(i, Held(Top)) = HeldBy(acts, i) + Count(i, Held(a))
                     /\ HeldBy(cc, i) \in Nat /\ Count(i, Held(Top)) \in Nat
                     /\ Count(i, Held(a)) \in Nat
  <1>1. PICK n : n = Len(heap)
    OBVIOUS
  <1>2. /\ n \in Nat /\ acts \in Seq(Acts(Classes, n))
        /\ State(Classes, Depths, heap, stack, acts) /\ Top = acts[Len(acts)]
        /\ Top \in Acts(Classes, n) /\ a \in Acts(Classes, n)
    BY <1>1, NowTypes, TopIs
  <1>3. Stands(stack, cc, host)
    <2>1. PICK t : t = acts[Len(acts)]
      OBVIOUS
    <2>2. a.k = t.k
      BY <1>2, <2>1
    <2>3. Stands(stack, [acts EXCEPT ![Len(acts)] = a], host)
      BY <1>2, <2>1, <2>2, StandAlter
    <2>4. QED
      BY <2>3 DEF Topped
  <1>4. ASSUME NEW i
        PROVE  /\ HeldBy(cc, i) + Count(i, Held(Top)) = HeldBy(acts, i) + Count(i, Held(a))
               /\ HeldBy(cc, i) \in Nat /\ Count(i, Held(Top)) \in Nat
               /\ Count(i, Held(a)) \in Nat
    <2>1. HeldBy(cc, i) + Count(i, Held(acts[Len(acts)])) = HeldBy(acts, i) + Count(i, Held(a))
      BY <1>2, HeldAlter
    <2>2. cc \in Seq(Acts(Classes, n))
      BY <1>2, HeldAlter
    <2>3. HeldBy(cc, i) \in Nat
      BY <1>2, <2>2, HeldNat
    <2>4. Held(Top) \in Seq(0..n) /\ Held(a) \in Seq(0..n)
      BY <1>2, HeldTypes
    <2>5. Count(i, Held(Top)) \in Nat /\ Count(i, Held(a)) \in Nat
      BY <2>4, CountIs
    <2>6. QED
      BY <1>2, <2>1, <2>3, <2>5
  <1>5. QED
    BY <1>3, <1>4

\* What the activation on top holds is alive, if it is the instance that it makes.
LEMMA TopLives ==
    ASSUME Inv, CountInv, flaws \cap Bad = {}, acts # <<>>, Held(Top) = <<Top.inst>>,
           Top.inst \in 1..Len(heap)
    PROVE  Alive(heap, Top.inst)
  <1>1. Top = acts[Len(acts)] /\ Len(acts) \in 1..Len(acts)
    BY TopIs
  <1>2. PICK i, m, q : i = Top.inst /\ m = Len(acts) /\ q = Held(acts[m])
    OBVIOUS
  <1>3. m \in 1..Len(acts) /\ q = <<i>> /\ 1 \in 1..Len(q) /\ q[1] = i /\ i # Plain
    BY <1>1, <1>2 DEF Plain
  <1>4. \A k \in 1..Len(q) : q[k] # Plain => Alive(heap, q[k])
    <2>1. \A j \in 1..Len(acts) : \A k \in 1..Len(Held(acts[j])) :
             Held(acts[j])[k] # Plain => Alive(heap, Held(acts[j])[k])
      BY AllLive
    <2>2. QED
      BY <1>2, <1>3, <2>1
  <1>5. QED
    BY <1>2, <1>3, <1>4

\* An activation returns, and the reference that it held is lost.
LEMMA LosesAccounts ==
    ASSUME Inv, Inv', prog' = prog, CountInv, flaws' \cap Bad = {}, host' = host, heap' = heap,
           stack' = stack, acts # <<>>, acts' = Below, NEW v, Held(Top) = <<v>>,
           flaws \subseteq flaws', flaws' = {} => v = Plain
    PROVE  Accounted(heap', stack', acts', host', flaws')
  <1>1. PICK n : n = Len(heap)
    OBVIOUS
  <1>2. n \in Nat /\ flaws \cap Bad = {}
    BY <1>1, NowTypes
  <1>3. PICK x, o : Spare(flaws, n, x) /\ Counted(n, heap, stack, acts, host, x, o)
    BY <1>1, <1>2, CountsSay
  <1>4. Stands(stack, acts, host)
    BY <1>2, CountsSay
  <1>5. PICK y : y = Lost(n, x, v)
    OBVIOUS
  <1>6. Spare(flaws', n, y)
    BY <1>2, <1>3, <1>5, LostIs
  <1>7. Stands(stack', acts', host')
    BY <1>4, TopPops
  <1>8. ASSUME NEW i \in 1..n
        PROVE  Sum(stack', acts', host', y, i) = Sum(stack, acts, host, x, i)
    <2>1. PICK d : d = IF v = i THEN 1 ELSE 0
      OBVIOUS
    <2>2. d \in Nat /\ 0 \in Nat
      BY <2>1
    <2>3. HeldBy(acts, i) = HeldBy(acts', i) + d /\ HeldBy(acts', i) \in Nat
      <3>1. HeldBy(acts, i) = HeldBy(Below, i) + Count(i, Held(Top)) /\ HeldBy(Below, i) \in Nat
        BY <1>4, TopPops
      <3>2. Count(i, <<v>>) = d
        BY <2>1, CountOne
      <3>3. QED
        BY <3>1, <3>2
    <2>4. Count(i, stack') \in Nat
      BY NextNats
    <2>5. y[i] = x[i] + d
      BY <1>5, <2>1 DEF Lost
    <2>6. Count(i, stack') + 0 = Count(i, stack) + 0 /\ HeldBy(acts', i) + d = HeldBy(acts, i) + 0
      BY <2>2, <2>3, <2>4
    <2>7. Sum(stack', acts', host, y, i) + 0 + d = Sum(stack, acts, host, x, i) + 0 + 0 + d
      BY <1>3, <2>2, <2>3, <2>4, <2>5, <2>6, SumMoves
    <2>8. y[i] \in Nat
      BY <1>6 DEF Spare
    <2>9. Sum(stack', acts', host, y, i) \in Nat /\ Sum(stack, acts, host, x, i) \in Nat
      BY <1>3, <2>3, <2>4, <2>8, SumMoved
    <2>10. QED
      BY <2>2, <2>7, <2>9
  <1>9. QED
    BY <1>1, <1>3, <1>6, <1>7, <1>8, StayAccounts

\* What the activation of callInternalConstructors is
LEMMA InternalTop ==
    ASSUME Inv, acts # <<>>, Top.k = "internal"
    PROVE  /\ Top.inst \in 1..Len(heap) /\ Held(Top) = <<Top.inst>>
           /\ Top.args \in Seq(0..Len(heap)) /\ Top.byhost \in BOOLEAN /\ Top.todo \in Seq(Classes)
           /\ DOMAIN Top = {"k", "inst", "todo", "args", "byhost"}
           /\ Top \in Acts(Classes, Len(heap))
  <1>1. Top \in Acts(Classes, Len(heap)) /\ Len(heap) \in Nat
    BY TopIs
  <1>2. Top \in Internals(Classes, Len(heap))
    BY <1>1, ActTypes
  <1>3. /\ Top.inst \in 1..Len(heap) /\ Top.args \in Seq(0..Len(heap)) /\ Top.byhost \in BOOLEAN
        /\ Top.todo \in Seq(Classes) /\ DOMAIN Top = {"k", "inst", "todo", "args", "byhost"}
    BY <1>1, <1>2, InternalTypes
  <1>4. Held(Top) = <<Top.inst>>
    BY <1>1, HeldTypes
  <1>5. QED
    BY <1>1, <1>3, <1>4

\* callInternalConstructors, after an error
LEMMA InternalFailsAccounts ==
    ASSUME Inv, Inv', CountInv, flaws' \cap Bad = {}, callInternalConstructors, err # "NONE"
    PROVE  Accounted(heap', stack', acts', host', flaws')
  <1>1. /\ acts # <<>> /\ Top.k = "internal" /\ acts' = Below /\ heap' = heap /\ stack' = stack
        /\ prog' = prog /\ host' = host /\ flaws' = flaws \cup {"leak"}
    BY DEF callInternalConstructors, classVars
  <1>2. Held(Top) = <<Top.inst>>
    BY <1>1, InternalTop
  <1>3. flaws \subseteq flaws' /\ (flaws' = {} => Top.inst = Plain)
    BY <1>1
  <1>4. QED
    BY <1>1, <1>2, <1>3, LosesAccounts

\* The next constructor: the instance that it gets as this is counted.
LEMMA InternalCallsAccounts ==
    ASSUME Inv, Inv', CountInv, flaws' \cap Bad = {}, callInternalConstructors, err = "NONE",
           Top.todo # <<>>
    PROVE  Accounted(heap', stack', acts', host', flaws')
  <1>1. PICK n, v, c, a : /\ n = Len(heap) /\ v = Top.inst /\ c = Head(Top.todo)
                          /\ a = [Top EXCEPT !.todo = Tail(@)]
    OBVIOUS
  <1>2. PICK sig, us : sig = <<Init0, 0>> /\ us = <<v>>
    OBVIOUS
  <1>3. PICK f : f = OwnFrame(c, jsclassFindMethod(c, sig), sig, us, Len(stack))
    OBVIOUS
  <1>4. PICK cc : cc = Topped(acts, a)
    OBVIOUS
  <1>5. /\ acts # <<>> /\ Top.k = "internal" /\ heap' = jsinstRef(heap, v) /\ stack' = stack
        /\ acts' = Append([acts EXCEPT ![Len(acts)].todo = Tail(@)], f)
        /\ prog' = prog /\ host' = host /\ flaws' = flaws
    BY <1>1, <1>2, <1>3 DEF callInternalConstructors, classVars, OwnFrame
  <1>6. /\ n \in Nat /\ acts \in Seq(Acts(Classes, n)) /\ heap \in Heaps(Classes, n)
        /\ stack \in Seq(0..n)
    BY <1>1, NowTypes
  <1>7. Top = acts[Len(acts)] /\ Len(acts) \in 1..Len(acts)
    BY <1>5, TopIs
  <1>8. /\ v \in 1..n /\ v \in 0..n /\ Held(Top) = <<v>>
        /\ DOMAIN Top = {"k", "inst", "todo", "args", "byhost"}
    BY <1>1, <1>5, InternalTop
  <1>9. a.k = "internal" /\ a.inst = v
    BY <1>1, <1>5, <1>8
  <1>10. acts' = Append(cc, f)
    BY <1>1, <1>4, <1>5, <1>7 DEF Topped
  <1>11. n = Len(heap')
    BY <1>5, <1>6, <1>8, RefTypes, HeapTypes
  <1>12. PICK S : S = Acts(Classes, n) \cup {a}
    OBVIOUS
  <1>13. cc \in Seq(S) /\ Len(cc) \in Nat /\ cc # <<>> /\ cc[Len(cc)] = a
    BY <1>4, <1>5, <1>6, <1>12, ToppedIs
  <1>14. /\ f \in Acts(Classes, n) /\ cc \in Seq(Acts(Classes, n))
         /\ State(Classes, Depths, heap', stack', cc)
    BY <1>5, <1>10, <1>11, <1>13, BegunIs
  <1>15. a \in Acts(Classes, n)
    BY <1>13, <1>14
  <1>16. Held(a) = <<v>>
    BY <1>6, <1>9, <1>15, HeldTypes
  <1>17. flaws \cap Bad = {}
    BY <1>5
  <1>18. PICK x, o : Spare(flaws, n, x) /\ Counted(n, heap, stack, acts, host, x, o)
    BY <1>1, <1>17, CountsSay
  <1>19. Stands(stack, acts, host)
    BY <1>17, CountsSay
  <1>20. a \in Acts(Classes, Len(heap)) /\ a.k = Top.k /\ a.k # "frame" /\ a.k # "call"
    BY <1>1, <1>5, <1>9, <1>15
  <1>21. Stands(stack, cc, host)
    BY <1>4, <1>5, <1>19, <1>20, TopAlters
  <1>22. f.k = "frame" /\ f.base = Len(stack) /\ Owns(f) /\ f.locals = us \o <<Plain>>
    BY <1>3, FrameOwns
  <1>23. Stands(stack', acts', host')
    <2>1. Stands(stack', cc, host)
      BY <1>5, <1>21
    <2>2. f.base = Len(stack')
      BY <1>5, <1>22
    <2>3. Stands(stack', Append(cc, f), host)
      BY <1>13, <1>14, <1>22, <2>1, <2>2, StandPush
    <2>4. QED
      BY <1>5, <1>10, <2>3
  <1>24. v # Plain => Alive(heap, v)
    BY <1>1, <1>5, <1>8, <1>17, TopLives
  <1>25. ASSUME NEW i \in 1..n
         PROVE  Sum(stack', acts', host', x, i)
                = Sum(stack, acts, host, x, i) + (IF v = i THEN 1 ELSE 0)
    <2>1. PICK d : d = IF v = i THEN 1 ELSE 0
      OBVIOUS
    <2>2. d \in Nat /\ 0 \in Nat
      BY <2>1
    <2>3. Count(i, <<v>>) = d
      BY <2>1, CountOne
    <2>4. HeldBy(cc, i) + Count(i, Held(Top)) = HeldBy(acts, i) + Count(i, Held(a))
      BY <1>4, <1>5, <1>19, <1>20, TopAlters
    <2>5. HeldBy(cc, i) \in Nat /\ HeldBy(acts, i) \in Nat
      BY <1>6, <1>14, HeldNat
    <2>6. HeldBy(cc, i) = HeldBy(acts, i)
      BY <1>8, <1>16, <2>2, <2>3, <2>4, <2>5
    <2>7. Count(i, Held(f)) = d
      <3>1. us \in Seq(0..n)
        BY <1>2, <1>8
      <3>2. Count(i, Held(f)) = Count(i, us)
        <4>1. CalledWith(f, us) /\ Owns(f)
          BY <1>22 DEF CalledWith
        <4>2. QED
          BY <1>6, <3>1, <4>1, FrameHeld
      <3>3. QED
        BY <1>2, <2>3, <3>2
    <2>8. HeldBy(Append(cc, f), i) = HeldBy(cc, i) + Count(i, Held(f))
      BY <1>6, <1>14, HeldPush
    <2>9. HeldBy(acts', i) + 0 = HeldBy(acts, i) + d
      BY <1>10, <2>2, <2>5, <2>6, <2>7, <2>8
    <2>10. Count(i, stack') \in Nat /\ HeldBy(acts', i) \in Nat
      BY <1>5, NextNats
    <2>11. Count(i, stack') + 0 = Count(i, stack) + 0 /\ x[i] \in Nat /\ x[i] = x[i] + 0
      BY <1>5, <1>18, <2>10 DEF Counted
    <2>12. Sum(stack', acts', host, x, i) + 0 + 0 = Sum(stack, acts, host, x, i) + 0 + d + 0
      BY <1>18, <2>2, <2>9, <2>10, <2>11, SumMoves
    <2>13. Sum(stack', acts', host, x, i) \in Nat /\ Sum(stack, acts, host, x, i) \in Nat
      BY <1>18, <2>10, <2>11, SumMoved
    <2>14. QED
      BY <1>5, <2>1, <2>2, <2>12, <2>13
  <1>26. Spare(flaws', n, x)
    BY <1>5, <1>18
  <1>27. n = Len(heap) /\ v \in 0..n /\ prog' = prog /\ heap' = jsinstRef(heap, v)
    BY <1>1, <1>5, <1>8
  <1>28. QED
    BY <1>18, <1>23, <1>24, <1>25, <1>26, <1>27, RefAccounts

\* The arguments of a construction are alive.
LEMMA ArgsLive ==
    ASSUME Inv, CountInv, flaws \cap Bad = {}, acts # <<>>, Top.k = "internal",
           NEW args, args = Top.args, NEW k \in 1..Len(args), args[k] # Plain
    PROVE  Alive(heap, args[k])
  <1>1. ~Top.byhost
    BY TopIs
  <1>2. PICK m : m = Len(acts) - 1
    OBVIOUS
  <1>3. /\ acts[m].k = "frame"
        /\ \A j \in 1..Len(args) : \E i \in 1..Len(acts[m].locals) : args[j] = acts[m].locals[i]
    BY <1>1, <1>2, TopIs
  <1>4. m \in 1..Len(acts)
    <2>1. /\ Len(acts) \in Nat /\ Len(acts) \in 1..Len(acts) /\ (Bottom(Top) <=> Len(acts) = 1)
      BY TopIs
    <2>2. ~Bottom(Top)
      BY <1>1 DEF Bottom
    <2>3. QED
      BY <1>2, <2>1, <2>2
  <1>5. PICK i \in 1..Len(acts[m].locals) : args[k] = acts[m].locals[i]
    BY <1>3
  <1>6. \A w \in 1..Len(acts) : acts[w].k = "frame" =>
            \A j \in 1..Len(acts[w].locals) :
               acts[w].locals[j] # Plain => Alive(heap, acts[w].locals[j])
    BY AllLive
  <1>7. PICK l : l = acts[m].locals[i]
    OBVIOUS
  <1>8. l # Plain => Alive(heap, l)
    BY <1>3, <1>4, <1>6, <1>7
  <1>9. QED
    BY <1>5, <1>7, <1>8

\* The activation of a construction that goes on
Goes(byhost, v, c, w) ==
    IF byhost
    THEN [k |-> "host", inst |-> v, jsp |-> c, argc |-> w, retry |-> FALSE, at |-> "call"]
    ELSE [k |-> "construct", inst |-> v, jsp |-> c, argc |-> w, at |-> "base"]

\* It holds the instance for the host alone.
LEMMA GoesHolds ==
    ASSUME NEW C, NEW n \in Nat, NEW byhost \in BOOLEAN, NEW v, NEW c, NEW w, NEW f,
           f = Goes(byhost, v, c, w), f \in Acts(C, n)
    PROVE  /\ Held(f) = (IF byhost THEN <<v>> ELSE <<>>)
           /\ f.k # "frame" /\ f.k # "call"
  <1>1. CASE byhost
    <2>1. f.k = "host" /\ f.inst = v
      BY <1>1 DEF Goes
    <2>2. Held(f) = <<f.inst>>
      BY <2>1, HeldTypes
    <2>3. QED
      BY <1>1, <2>1, <2>2
  <1>2. CASE ~byhost
    <2>1. f.k = "construct" /\ f.at = "base"
      BY <1>2 DEF Goes
    <2>2. Held(f) = <<>>
      BY <2>1, HeldTypes
    <2>3. QED
      BY <1>2, <2>1, <2>2
  <1>3. QED
    BY <1>1, <1>2

\* The internal constructors are done: this and the arguments are pushed.
LEMMA InternalDoneAccounts ==
    ASSUME Inv, Inv', CountInv, flaws' \cap Bad = {}, callInternalConstructors, err = "NONE",
           Top.todo = <<>>
    PROVE  Accounted(heap', stack', acts', host', flaws')
  <1>1. PICK n : n = Len(heap)
    OBVIOUS
  <1>2. PICK v, args, byhost : v = Top.inst /\ args = Top.args /\ byhost = Top.byhost
    OBVIOUS
  <1>3. PICK hs, one : one = <<v>> /\ hs = IF byhost THEN one ELSE <<>>
    OBVIOUS
  <1>4. PICK us, ap : us = args \o hs /\ ap = Append(stack, v)
    OBVIOUS
  <1>5. PICK f : f = Goes(byhost, v, heap[v].cls, Len(args))
    OBVIOUS
  <1>6. /\ acts # <<>> /\ Top.k = "internal" /\ heap' = jsinstRefs(heap, us)
        /\ stack' = ap \o args /\ acts' = Append(Below, f)
        /\ prog' = prog /\ host' = host /\ flaws' = flaws
    BY <1>2, <1>3, <1>4, <1>5 DEF callInternalConstructors, classVars, Goes
  <1>7. /\ n \in Nat /\ acts \in Seq(Acts(Classes, n)) /\ heap \in Heaps(Classes, n)
        /\ stack \in Seq(0..n) /\ Len(stack) \in Nat
    BY <1>1, NowTypes, InvSays
  <1>8. /\ v \in 1..n /\ v \in 0..n /\ Held(Top) = one /\ args \in Seq(0..n) /\ byhost \in BOOLEAN
    BY <1>1, <1>2, <1>3, <1>6, InternalTop
  <1>9. one \in Seq(0..n) /\ hs \in Seq(0..n) /\ (hs = one \/ hs = <<>>)
    <2>1. one \in Seq(0..n)
      BY <1>3, <1>8
    <2>2. <<>> \in Seq(0..n)
      OBVIOUS
    <2>3. QED
      BY <1>3, <1>8, <2>1, <2>2
  <1>10. us \in Seq(0..n) /\ Len(us) = Len(args) + Len(hs)
    BY <1>4, <1>8, <1>9, Joined
  <1>11. ap \in Seq(0..n) /\ Len(ap) = Len(stack) + 1 /\ \A q \in 1..Len(stack) : ap[q] = stack[q]
    BY <1>4, <1>7, <1>8
  <1>12. n = Len(heap')
    BY <1>6, <1>7, <1>10, RefsTypes, HeapTypes
  <1>13. flaws \cap Bad = {}
    BY <1>6
  <1>14. PICK x, o : Spare(flaws, n, x) /\ Counted(n, heap, stack, acts, host, x, o)
    BY <1>1, <1>13, CountsSay
  <1>15. Stands(stack, acts, host)
    BY <1>13, CountsSay
  <1>16. /\ Below \in Seq(Acts(Classes, n)) /\ Stands(stack, Below, host)
         /\ State(Classes, Depths, heap, stack, Below)
    BY <1>1, <1>6, <1>15, TopPops
  <1>17. f \in Acts(Classes, n) /\ State(Classes, Depths, heap', stack', Below)
    BY <1>6, <1>12, <1>16, BegunIs
  <1>18. Held(f) = hs /\ f.k # "frame" /\ f.k # "call"
    BY <1>3, <1>5, <1>7, <1>8, <1>17, GoesHolds
  <1>19. /\ stack' \in Seq(0..n) /\ Len(stack') >= Len(stack)
         /\ \A q \in 1..Len(stack) : stack'[q] = stack[q]
    <2>1. PICK st : st = ap \o args
      OBVIOUS
    <2>2. st \in Seq(0..n) /\ Len(st) = Len(ap) + Len(args)
      BY <1>8, <1>11, <2>1, Joined
    <2>3. \A q \in 1..Len(ap) : st[q] = ap[q]
      BY <1>8, <1>11, <2>1, Joined
    <2>4. Len(args) \in Nat
      BY <1>8
    <2>5. \A q \in 1..Len(stack) : q \in 1..Len(ap)
      BY <1>7, <1>11
    <2>6. \A q \in 1..Len(stack) : st[q] = stack[q]
      BY <1>11, <2>3, <2>5
    <2>7. Len(st) >= Len(stack)
      BY <1>7, <1>11, <2>2, <2>4
    <2>8. QED
      BY <1>6, <2>1, <2>2, <2>6, <2>7
  <1>20. Stands(stack', Below, host)
    <2>1. PICK b : b = Len(stack)
      OBVIOUS
    <2>2. \A m \in 1..Len(Below) : Low(Below[m]) <= b
      BY <1>16, <2>1 DEF State, Layered
    <2>3. /\ b \in Nat /\ b <= Len(stack) /\ b <= Len(stack') /\ stack' \in Seq(0..Len(heap))
          /\ b = Len(stack) /\ \A q \in 1..b : stack'[q] = stack[q]
      BY <1>1, <1>7, <1>19, <2>1
    <2>4. QED
      BY <1>16, <2>2, <2>3, StandStack
  <1>21. Stands(stack', Append(Below, f), host)
    <2>1. Below = <<>> => host.inst = Plain
      <3>1. SUFFICES ASSUME Below = <<>>, host.inst # Plain PROVE FALSE
        OBVIOUS
      <3>2. acts[1].k = "run" \/ acts[1].k = "call"
        BY <1>6, <1>15, <3>1 DEF Stands, Lent
      <3>3. Len(acts) \in 1..Len(acts) /\ Top = acts[Len(acts)] /\ Fits(heap, stack, acts)
        BY <1>6, TopIs
      <3>4. Len(acts) = 1
        BY <1>6, <3>1, <3>3, FitPop DEF Below
      <3>5. QED
        BY <1>6, <3>2, <3>3, <3>4
    <2>2. QED
      BY <1>17, <1>18, <1>20, <2>1, StandPush
  <1>22. Stands(stack', acts', host')
    BY <1>6, <1>21
  <1>23. \A k \in 1..Len(us) : us[k] # Plain => Alive(heap, us[k])
    <2>1. v # Plain => Alive(heap, v)
      BY <1>1, <1>2, <1>3, <1>6, <1>8, <1>13, TopLives
    <2>2. \A k \in 1..Len(args) : args[k] # Plain => Alive(heap, args[k])
      BY <1>2, <1>6, <1>13, ArgsLive
    <2>3. \A k \in 1..Len(hs) : hs[k] # Plain => Alive(heap, hs[k])
      <3>1. \A k \in 1..Len(one) : one[k] = v
        BY <1>3
      <3>2. QED
        BY <1>9, <2>1, <3>1
    <2>4. QED
      <3> TAKE k \in 1..Len(us)
      <3>1. Len(args) \in Nat /\ Len(hs) \in Nat
        BY <1>8, <1>9
      <3>2. CASE k \in 1..Len(args)
        <4>1. us[k] = args[k]
          BY <1>4, <1>8, <1>9, <3>2, Joined
        <4>2. QED
          BY <2>2, <3>2, <4>1
      <3>3. CASE k \notin 1..Len(args)
        <4>1. k - Len(args) \in 1..Len(hs)
          BY <1>10, <3>1, <3>3
        <4>2. us[k] = hs[k - Len(args)]
          BY <1>4, <1>8, <1>9, <1>10, <3>1, <3>3, <4>1
        <4>3. QED
          BY <2>3, <4>1, <4>2
      <3>4. QED
        BY <3>2, <3>3
  <1>24. ASSUME NEW i \in 1..n
         PROVE  Sum(stack', acts', host', x, i) = Sum(stack, acts, host, x, i) + Count(i, us)
    <2>1. PICK d, e, g : d = Count(i, one) /\ e = Count(i, args) /\ g = Count(i, hs)
      OBVIOUS
    <2>2. d \in Nat /\ e \in Nat /\ g \in Nat /\ 0 \in Nat
      <3>1. d \in Nat
        BY <1>9, <2>1, CountIs
      <3>2. e \in Nat
        BY <1>8, <2>1, CountIs
      <3>3. g \in Nat
        BY <1>9, <2>1, CountIs
      <3>4. QED
        BY <3>1, <3>2, <3>3
    <2>3. Count(i, us) = e + g
      BY <1>4, <1>8, <1>9, <2>1, CountTwo
    <2>4. Count(i, stack') = Count(i, ap) + e
      BY <1>6, <1>8, <1>11, <2>1, CountTwo
    <2>5. Count(i, ap) = Count(i, stack) + d
      <3>1. Count(i, ap) = Count(i, stack) + (IF v = i THEN 1 ELSE 0)
        BY <1>4, <1>7, <1>8, CountAppend
      <3>2. d = (IF v = i THEN 1 ELSE 0)
        BY <1>3, <2>1, CountOne
      <3>3. QED
        BY <3>1, <3>2
    <2>6. HeldBy(acts, i) = HeldBy(Below, i) + d /\ HeldBy(Below, i) \in Nat
      BY <1>6, <1>8, <1>15, <2>1, TopPops
    <2>7. HeldBy(acts', i) = HeldBy(Below, i) + g
      <3>1. HeldBy(Append(Below, f), i) = HeldBy(Below, i) + Count(i, Held(f))
        BY <1>7, <1>16, <1>17, HeldPush
      <3>2. QED
        BY <1>6, <1>18, <2>1, <3>1
    <2>8. Count(i, stack') \in Nat /\ HeldBy(acts', i) \in Nat
      BY <1>6, NextNats
    <2>9. Count(i, stack) \in Nat /\ x[i] \in Nat /\ x[i] = x[i] + 0
      BY <1>14 DEF Counted
    <2>10. PICK t : t = d + e
      OBVIOUS
    <2>11. t \in Nat
      BY <2>2, <2>10
    <2>12. /\ Count(i, stack') + 0 = Count(i, stack) + t
           /\ HeldBy(acts', i) + d = HeldBy(acts, i) + g
      BY <2>2, <2>4, <2>5, <2>6, <2>7, <2>9, <2>10
    <2>13. Sum(stack', acts', host, x, i) + 0 + d = Sum(stack, acts, host, x, i) + t + g + 0
      BY <1>14, <2>2, <2>8, <2>9, <2>11, <2>12, SumMoves, SMTT(60)
    <2>14. Sum(stack', acts', host, x, i) \in Nat /\ Sum(stack, acts, host, x, i) \in Nat
      BY <1>14, <2>8, <2>9, SumMoved
    <2>15. PICK p, q : p = Sum(stack', acts', host, x, i) /\ q = Sum(stack, acts, host, x, i)
      OBVIOUS
    <2>16. p \in Nat /\ q \in Nat /\ p + 0 + d = q + t + g + 0
      BY <2>13, <2>14, <2>15
    <2>17. p = q + (e + g)
      BY <2>2, <2>16, <2>10
    <2>18. QED
      BY <1>6, <2>3, <2>15, <2>17
  <1>25. Spare(flaws', n, x)
    BY <1>6, <1>14
  <1>26. n = Len(heap) /\ prog' = prog /\ heap' = jsinstRefs(heap, us)
    BY <1>1, <1>6
  <1>27. QED
    BY <1>10, <1>14, <1>22, <1>23, <1>24, <1>25, <1>26, RefsAccount

\* callInternalConstructors
LEMMA InternalAccounts ==
    ASSUME Inv, Inv', CountInv, flaws' \cap Bad = {}, callInternalConstructors
    PROVE  Accounted(heap', stack', acts', host', flaws')
  BY InternalFailsAccounts, InternalCallsAccounts, InternalDoneAccounts

\* Nothing is counted, and the activations hold what they held.
LEMMA HoldsSame ==
    ASSUME Inv, Inv', prog' = prog, CountInv, flaws' \cap Bad = {}, flaws' = flaws, host' = host,
           stack' = stack, heap' = heap, Stands(stack', acts', host'),
           \A i \in 1..Len(heap) : HeldBy(acts', i) = HeldBy(acts, i)
    PROVE  Accounted(heap', stack', acts', host', flaws')
  <1>1. PICK n : n = Len(heap)
    OBVIOUS
  <1>2. PICK x, o : Spare(flaws, n, x) /\ Counted(n, heap, stack, acts, host, x, o)
    BY <1>1, CountsSay
  <1>3. \A i \in 1..n : Sum(stack', acts', host', x, i) = Sum(stack, acts, host, x, i)
    BY <1>1 DEF Sum
  <1>4. Spare(flaws', n, x)
    BY <1>2
  <1>5. QED
    BY <1>1, <1>2, <1>3, <1>4, StayAccounts

\* An instance is counted, and an activation holds it.
LEMMA HoldsMore ==
    ASSUME Inv, Inv', prog' = prog, CountInv, flaws' \cap Bad = {}, flaws' = flaws, host' = host,
           stack' = stack, NEW v \in 0..Len(heap), heap' = jsinstRef(heap, v),
           v # Plain => Alive(heap, v), Stands(stack', acts', host'),
           \A i \in 1..Len(heap) : HeldBy(acts', i) = HeldBy(acts, i) + (IF v = i THEN 1 ELSE 0)
    PROVE  Accounted(heap', stack', acts', host', flaws')
  <1>1. PICK n : n = Len(heap)
    OBVIOUS
  <1>2. PICK x, o : Spare(flaws, n, x) /\ Counted(n, heap, stack, acts, host, x, o)
    BY <1>1, CountsSay
  <1>3. ASSUME NEW i \in 1..n
        PROVE  Sum(stack', acts', host', x, i)
               = Sum(stack, acts, host, x, i) + (IF v = i THEN 1 ELSE 0)
    <2>1. PICK a, b, c, d, e : /\ a = Count(i, stack) /\ b = HeldBy(acts, i) /\ c = HostBy(host, i)
                               /\ d = x[i] /\ e = IF v = i THEN 1 ELSE 0
      OBVIOUS
    <2>2. a \in Nat /\ b \in Nat /\ c \in Nat /\ d \in Nat /\ e \in Nat
      BY <1>2, <2>1 DEF Counted
    <2>3. HeldBy(acts', i) = b + e
      BY <1>1, <2>1
    <2>4. a + (b + e) + c + d = (a + b + c + d) + e
      BY <2>2
    <2>5. QED
      BY <2>1, <2>3, <2>4 DEF Sum
  <1>4. Spare(flaws', n, x) /\ v \in 0..n
    BY <1>1, <1>2
  <1>5. QED
    BY <1>1, <1>2, <1>3, <1>4, RefAccounts

\* An instance that an activation held is cleared.
LEMMA HoldsLess ==
    ASSUME Inv, Inv', prog' = prog, CountInv, flaws' \cap Bad = {}, flaws' = flaws, host' = host,
           stack' = stack, NEW v \in 0..Len(heap), NEW us, us = <<v>>, heap' = varClear(heap, us),
           Stands(stack', acts', host'),
           \A i \in 1..Len(heap) : HeldBy(acts', i) + (IF v = i THEN 1 ELSE 0) = HeldBy(acts, i)
    PROVE  Accounted(heap', stack', acts', host', flaws')
  <1>1. PICK n : n = Len(heap)
    OBVIOUS
  <1>2. PICK x, o : Spare(flaws, n, x) /\ Counted(n, heap, stack, acts, host, x, o)
    BY <1>1, CountsSay
  <1>3. ASSUME NEW i \in 1..n
        PROVE  Sum(stack', acts', host', x, i) + Count(i, us) = Sum(stack, acts, host, x, i)
    <2>1. PICK a, b, c, d, e : /\ a = Count(i, stack) /\ b = HeldBy(acts', i) /\ c = HostBy(host, i)
                               /\ d = x[i] /\ e = IF v = i THEN 1 ELSE 0
      OBVIOUS
    <2>2. a \in Nat /\ c \in Nat /\ d \in Nat /\ e \in Nat
      BY <1>2, <2>1 DEF Counted
    <2>3. b \in Nat
      BY <2>1, NextNats
    <2>4. HeldBy(acts, i) = b + e
      BY <1>1, <2>1
    <2>5. Count(i, us) = e
      BY <2>1, CountOne
    <2>6. (a + b + c + d) + e = a + (b + e) + c + d
      BY <2>2, <2>3
    <2>7. QED
      BY <2>1, <2>4, <2>5, <2>6 DEF Sum
  <1>4. Spare(flaws', n, x) /\ us \in Seq(0..n)
    BY <1>1, <1>2
  <1>5. QED
    BY <1>1, <1>2, <1>3, <1>4, DropAccounts

\* What the activations hold when the one on top goes on
LEMMA TopBecomes ==
    ASSUME Inv, Inv', prog' = prog, Stands(stack, acts, host), Len(heap') = Len(heap), acts # <<>>,
           NEW a, a.k = Top.k, a.k # "frame", a.k # "call", acts' = Topped(acts, a)
    PROVE  /\ a \in Acts(Classes, Len(heap)) /\ Stands(stack, acts', host)
           /\ \A i : /\ HeldBy(acts', i) + Count(i, Held(Top)) = HeldBy(acts, i) + Count(i, Held(a))
                     /\ HeldBy(acts', i) \in Nat /\ HeldBy(acts, i) \in Nat
                     /\ Count(i, Held(Top)) \in Nat /\ Count(i, Held(a)) \in Nat
  <1>1. PICK n, cc : n = Len(heap) /\ cc = Topped(acts, a)
    OBVIOUS
  <1>2. n \in Nat /\ acts \in Seq(Acts(Classes, n))
    BY <1>1, NowTypes
  <1>3. PICK S : S = Acts(Classes, n) \cup {a}
    OBVIOUS
  <1>4. Len(cc) \in Nat /\ cc # <<>> /\ cc[Len(cc)] = a /\ cc \in Seq(S)
    BY <1>1, <1>2, <1>3, ToppedIs
  <1>5. cc \in Seq(Acts(Classes, n))
    BY <1>1, NextTypes
  <1>6. a \in Acts(Classes, n)
    BY <1>4, <1>5
  <1>7. a \in Acts(Classes, Len(heap))
    BY <1>1, <1>6
  <1>8. Stands(stack, cc, host)
    BY <1>1, <1>7, TopAlters
  <1>9. ASSUME NEW i
        PROVE  /\ HeldBy(cc, i) + Count(i, Held(Top)) = HeldBy(acts, i) + Count(i, Held(a))
               /\ HeldBy(cc, i) \in Nat /\ HeldBy(acts, i) \in Nat
               /\ Count(i, Held(Top)) \in Nat /\ Count(i, Held(a)) \in Nat
    <2>1. HeldBy(acts, i) \in Nat
      BY <1>2, HeldNat
    <2>2. /\ HeldBy(cc, i) + Count(i, Held(Top)) = HeldBy(acts, i) + Count(i, Held(a))
          /\ HeldBy(cc, i) \in Nat
          /\ Count(i, Held(Top)) \in Nat /\ Count(i, Held(a)) \in Nat
      BY <1>1, <1>7, TopAlters
    <2>3. QED
      BY <2>1, <2>2
  <1>10. QED
    BY <1>1, <1>7, <1>8, <1>9

\* And when it begins another one, which holds nothing
LEMMA TopBegins ==
    ASSUME Inv, Inv', prog' = prog, Stands(stack, acts, host), Len(heap') = Len(heap), acts # <<>>,
           stack' = stack,
           NEW a, a.k = Top.k, a.k # "frame", a.k # "call", NEW cc, cc = Topped(acts, a),
           NEW f, acts' = Append(cc, f), f.k = "frame" => f.base = Len(stack),
           f.k = "frame" /\ ~Owns(f) => Copy(stack, f),
           \A i \in 1..Len(heap) : Count(i, Held(f)) = 0
    PROVE  /\ a \in Acts(Classes, Len(heap)) /\ Stands(stack, acts', host)
           /\ \A i \in 1..Len(heap) :
                 /\ HeldBy(acts', i) + Count(i, Held(Top)) = HeldBy(acts, i) + Count(i, Held(a))
                 /\ HeldBy(acts', i) \in Nat /\ HeldBy(acts, i) \in Nat
                 /\ Count(i, Held(Top)) \in Nat /\ Count(i, Held(a)) \in Nat
  <1>1. PICK n : n = Len(heap)
    OBVIOUS
  <1>2. n \in Nat /\ acts \in Seq(Acts(Classes, n))
    BY <1>1, NowTypes
  <1>3. PICK S : S = Acts(Classes, n) \cup {a}
    OBVIOUS
  <1>4. Len(cc) \in Nat /\ cc # <<>> /\ cc[Len(cc)] = a /\ cc \in Seq(S)
    BY <1>1, <1>2, <1>3, ToppedIs
  <1>5. n = Len(heap')
    BY <1>1
  <1>6. /\ f \in Acts(Classes, n) /\ cc \in Seq(Acts(Classes, n))
        /\ State(Classes, Depths, heap', stack', cc)
    BY <1>4, <1>5, BegunIs
  <1>7. a \in Acts(Classes, n)
    BY <1>4, <1>6
  <1>8. a \in Acts(Classes, Len(heap))
    BY <1>1, <1>7
  <1>9. Stands(stack, cc, host)
    BY <1>8, TopAlters
  <1>10. Stands(stack, Append(cc, f), host)
    <2>1. State(Classes, Depths, heap', stack, cc)
      BY <1>6
    <2>2. QED
      BY <1>4, <1>9, <2>1, StandPush
  <1>11. ASSUME NEW i \in 1..n
         PROVE  /\ HeldBy(acts', i) + Count(i, Held(Top)) = HeldBy(acts, i) + Count(i, Held(a))
                /\ HeldBy(acts', i) \in Nat /\ HeldBy(acts, i) \in Nat
                /\ Count(i, Held(Top)) \in Nat /\ Count(i, Held(a)) \in Nat
    <2>1. HeldBy(acts, i) \in Nat
      BY <1>2, HeldNat
    <2>2. /\ HeldBy(cc, i) + Count(i, Held(Top)) = HeldBy(acts, i) + Count(i, Held(a))
          /\ HeldBy(cc, i) \in Nat
          /\ Count(i, Held(Top)) \in Nat /\ Count(i, Held(a)) \in Nat
      BY <1>8, TopAlters
    <2>3. HeldBy(Append(cc, f), i) = HeldBy(cc, i) + Count(i, Held(f))
      BY <1>2, <1>6, HeldPush
    <2>4. Count(i, Held(f)) = 0
      BY <1>1
    <2>5. HeldBy(acts', i) = HeldBy(cc, i)
      BY <2>2, <2>3, <2>4
    <2>6. QED
      BY <2>1, <2>2, <2>5
  <1>12. QED
    BY <1>1, <1>8, <1>10, <1>11

\* The topmost values of the stack
Topmost(st, m) == SubSeq(st, Len(st) - m, Len(st))

\* A constructor has a copy of the topmost values of the stack.
LEMMA CopyIs ==
    ASSUME NEW n \in Nat, NEW st \in Seq(0..n), NEW m \in Nat, m < Len(st),
           NEW vs, vs = Topmost(st, m), NEW ctx, NEW def, NEW sig,
           NEW f, f = CopyFrame(ctx, def, sig, vs, Len(st))
    PROVE  /\ f.k = "frame" /\ f.base = Len(st) /\ Copy(st, f)
           /\ \A i \in 1..n : Count(i, Held(f)) = 0
  <1>1. PICK w : w = Len(st) - m - 1
    OBVIOUS
  <1>2. Len(st) \in Nat /\ w \in 0..Len(st) /\ w + 1 = Len(st) - m
    BY <1>1
  <1>3. vs = SubSeq(st, w + 1, Len(st))
    BY <1>2 DEF Topmost
  <1>4. /\ vs \in Seq(0..n) /\ Len(vs) = Len(st) - w
        /\ \A k \in 1..(Len(st) - w) : vs[k] = st[w + k]
    <2>1. vs \in Seq(0..n)
      <3>1. PICK S : S = 0..n
        OBVIOUS
      <3>2. st \in Seq(S)
        BY <3>1
      <3>3. \A a \in 0..Len(st) : SubSeq(st, a + 1, Len(st)) \in Seq(S)
        BY <3>2, Slices
      <3>4. QED
        BY <1>2, <1>3, <3>1, <3>3
    <2>2. PICK up : up = SubSeq(st, w + 1, Len(st))
      OBVIOUS
    <2>3. Len(up) = Len(st) - w /\ \A k \in 1..(Len(st) - w) : up[k] = st[w + k]
      BY <1>2, <2>2
    <2>4. vs = up
      BY <1>3, <2>2
    <2>5. QED
      BY <2>1, <2>3, <2>4
  <1>5. f.k = "frame" /\ f.base = Len(st) /\ ~Owns(f) /\ f.locals = vs \o <<Plain>>
    <2>1. PICK b, us : b = Len(st) /\ us = vs
      OBVIOUS
    <2>2. f = CopyFrame(ctx, def, sig, us, b)
      BY <2>1
    <2>3. f.k = "frame" /\ f.base = b /\ ~Owns(f) /\ f.locals = us \o <<Plain>>
      <3>1. IsCopy(f, us, b)
        BY <2>2, FrameCopies
      <3>2. QED
        BY <3>1 DEF IsCopy
    <2>4. QED
      BY <2>1, <2>3
  <1>6. PICK l, u : l = vs \o u /\ u = <<Plain>>
    OBVIOUS
  <1>7. u \in Seq(0..n) /\ Len(u) = 1
    BY <1>6 DEF Plain
  <1>8. Len(l) = Len(vs) + 1 /\ \A k \in 1..Len(vs) : l[k] = vs[k]
    BY <1>4, <1>6, <1>7, Joined
  <1>9. Copy(st, f)
    <2>1. PICK e, b : e = Len(f.locals) - 1 /\ b = f.base
      OBVIOUS
    <2>2. f.locals = l /\ e = Len(vs) /\ b = Len(st) /\ e = Len(st) - w
      BY <1>2, <1>4, <1>5, <1>6, <1>8, <2>1
    <2>3. e <= b
      BY <1>2, <2>2
    <2>4. ASSUME NEW k \in 1..e PROVE f.locals[k] = st[b - e + k]
      <3>1. b - e + k = w + k
        BY <1>2, <2>2
      <3>2. l[k] = vs[k] /\ vs[k] = st[w + k]
        BY <1>4, <1>8, <2>2
      <3>3. QED
        BY <2>2, <3>1, <3>2
    <2>5. QED
      BY <2>1, <2>3, <2>4 DEF Copy
  <1>10. \A i \in 1..n : Count(i, Held(f)) = 0
    <2>1. CalledWith(f, vs) /\ ~Owns(f)
      BY <1>5 DEF CalledWith
    <2>2. QED
      BY <1>4, <2>1, CopyHeld
  <1>11. QED
    BY <1>5, <1>9, <1>10

\* A construction or the host calls a constructor, which holds nothing.
LEMMA EnterHolds ==
    ASSUME Inv, Inv', prog' = prog, Stands(stack, acts, host), acts # <<>>,
           Top.k \in {"construct", "host"}, NEW a, a.k = Top.k, NEW h, Len(h) = Len(heap),
           NEW i, NEW c, NEW m \in 0..Top.argc, EnterConstructor(Topped(acts, a), h, i, <<c, m>>)
    PROVE  /\ heap' = h /\ stack' = stack /\ flaws' = flaws /\ Stands(stack, acts', host)
           /\ a \in Acts(Classes, Len(heap))
           /\ \A j \in 1..Len(heap) :
                 /\ HeldBy(acts', j) + Count(j, Held(Top)) = HeldBy(acts, j) + Count(j, Held(a))
                 /\ HeldBy(acts', j) \in Nat /\ HeldBy(acts, j) \in Nat
                 /\ Count(j, Held(Top)) \in Nat /\ Count(j, Held(a)) \in Nat
  <1>1. PICK sig, ctx : sig = <<c, m>> /\ ctx = heap[i].cls
    OBVIOUS
  <1>2. PICK def, vs : def = jsclassFindMethod(ctx, sig) /\ vs = Topmost(stack, m)
    OBVIOUS
  <1>3. PICK f, cc : f = CopyFrame(ctx, def, sig, vs, Len(stack)) /\ cc = Topped(acts, a)
    OBVIOUS
  <1>4. heap' = h /\ stack' = stack /\ flaws' = flaws
    BY DEF EnterConstructor, history
  <1>5. acts' = cc \/ acts' = Append(cc, f)
    <2>1. sig[2] = m
      BY <1>1
    <2>2. EnterConstructor(cc, h, i, sig)
      BY <1>1, <1>3
    <2>3. QED
      BY <1>1, <1>2, <1>3, <2>1, <2>2 DEF EnterConstructor, CopyFrame, Topmost
  <1>6. a.k # "frame" /\ a.k # "call" /\ Len(heap') = Len(heap)
    BY <1>4
  <1>7. CASE acts' = cc
    <2>1. acts' = Topped(acts, a)
      BY <1>3, <1>7
    <2>2. a \in Acts(Classes, Len(heap)) /\ Stands(stack, acts', host)
      BY <1>6, <2>1, TopBecomes
    <2>3. \A j : /\ HeldBy(acts', j) + Count(j, Held(Top)) = HeldBy(acts, j) + Count(j, Held(a))
                 /\ HeldBy(acts', j) \in Nat /\ HeldBy(acts, j) \in Nat
                 /\ Count(j, Held(Top)) \in Nat /\ Count(j, Held(a)) \in Nat
      BY <1>6, <2>1, TopBecomes
    <2>4. QED
      BY <1>4, <2>2, <2>3
  <1>8. CASE acts' = Append(cc, f)
    <2>1. PICK n : n = Len(heap)
      OBVIOUS
    <2>2. n \in Nat /\ stack \in Seq(0..n) /\ Len(stack) \in Nat
      BY <2>1, InvSays
    <2>3. m \in Nat /\ m < Len(stack)
      <3>1. PICK q \in 1..Len(stack) : Sits(stack, acts, Len(acts), q)
        BY TopIs
      <3>2. q + Top.argc <= Len(stack)
        BY <3>1, TopIs DEF Sits
      <3>3. Top.argc \in Nat
        <4>1. Top \in Acts(Classes, n)
          BY <2>1, TopIs
        <4>2. Top \in Constructs(Classes, n) \/ Top \in Hosts(Classes, n)
          BY <2>2, <4>1, ActTypes
        <4>3. QED
          BY <2>2, <4>2, WaitTypes
      <3>4. QED
        BY <2>2, <3>2, <3>3
    <2>4. f.k = "frame" /\ f.base = Len(stack) /\ Copy(stack, f)
      BY <1>2, <1>3, <2>2, <2>3, CopyIs
    <2>5. \A j \in 1..n : Count(j, Held(f)) = 0
      BY <1>2, <1>3, <2>2, <2>3, CopyIs
    <2>6. \A j \in 1..Len(heap) : Count(j, Held(f)) = 0
      BY <2>1, <2>5
    <2>7. a \in Acts(Classes, Len(heap)) /\ Stands(stack, acts', host)
      BY <1>3, <1>4, <1>6, <1>8, <2>4, <2>6, TopBegins
    <2>8. \A j \in 1..Len(heap) :
              /\ HeldBy(acts', j) + Count(j, Held(Top)) = HeldBy(acts, j) + Count(j, Held(a))
              /\ HeldBy(acts', j) \in Nat /\ HeldBy(acts, j) \in Nat
              /\ Count(j, Held(Top)) \in Nat /\ Count(j, Held(a)) \in Nat
      BY <1>3, <1>4, <1>6, <1>8, <2>4, <2>6, TopBegins
    <2>9. QED
      BY <1>4, <2>7, <2>8
  <1>9. QED
    BY <1>5, <1>7, <1>8

\* What the activation of callConstructors is
LEMMA ConstructTop ==
    ASSUME Inv, acts # <<>>, Top.k = "construct"
    PROVE  /\ Top.inst \in 1..Len(heap) /\ Top.jsp \in Classes /\ Top.argc \in Nat
           /\ Held(Top) = (IF Top.at = "called" THEN <<Top.inst>> ELSE <<>>)
           /\ DOMAIN Top = {"k", "inst", "jsp", "argc", "at"}
           /\ Top \in Acts(Classes, Len(heap)) /\ Top = acts[Len(acts)]
  <1>1. Top \in Acts(Classes, Len(heap)) /\ Len(heap) \in Nat /\ Top = acts[Len(acts)]
    BY TopIs
  <1>2. Top \in Constructs(Classes, Len(heap))
    BY <1>1, ActTypes
  <1>3. /\ Top.inst \in 1..Len(heap) /\ Top.jsp \in Classes /\ Top.argc \in Nat
        /\ DOMAIN Top = {"k", "inst", "jsp", "argc", "at"}
    BY <1>1, <1>2, WaitTypes
  <1>4. Held(Top) = (IF Top.at = "called" THEN <<Top.inst>> ELSE <<>>)
    BY <1>1, HeldTypes
  <1>5. QED
    BY <1>1, <1>3, <1>4

\* callConstructors calls itself for the base class.
LEMMA ConstructBaseAccounts ==
    ASSUME Inv, Inv', CountInv, flaws' \cap Bad = {}, ConstructBase
    PROVE  Accounted(heap', stack', acts', host', flaws')
  <1>1. PICK a, cc, f : /\ a = Going(Top, "self") /\ cc = Topped(acts, a)
                        /\ f = GoingFor(Top, link[Top.jsp])
    OBVIOUS
  <1>2. /\ acts # <<>> /\ Top.k = "construct" /\ heap' = heap /\ stack' = stack
        /\ host' = host /\ flaws' = flaws /\ prog' = prog /\ Top.at = "base"
    BY DEF ConstructBase, history, classVars
  <1>3. /\ DOMAIN Top = {"k", "inst", "jsp", "argc", "at"} /\ Top = acts[Len(acts)]
        /\ Held(Top) = <<>>
    BY <1>2, ConstructTop
  <1>4. acts' = cc \/ acts' = Append(cc, f)
    BY <1>1, <1>3 DEF ConstructBase, Going, GoingFor, Topped
  <1>5. a.k = "construct" /\ a.at = "self" /\ f.k = "construct" /\ f.at = "base"
    BY <1>1, <1>2, <1>3 DEF Going, GoingFor
  <1>6. Len(heap) \in Nat /\ Len(heap') = Len(heap)
    BY <1>2, InvSays
  <1>7. flaws \cap Bad = {}
    BY <1>2
  <1>8. Stands(stack, acts, host)
    BY <1>7, CountsSay
  <1>9. a.k = Top.k /\ a.k # "frame" /\ a.k # "call"
    BY <1>2, <1>5
  <1>10. a \in Acts(Classes, Len(heap)) => Held(a) = <<>>
    BY <1>5, <1>6, HeldTypes
  <1>11. \A i : Count(i, <<>>) = 0
    BY CountOne
  <1>12. CASE acts' = cc
    <2>1. acts' = Topped(acts, a)
      BY <1>1, <1>12
    <2>2. a \in Acts(Classes, Len(heap)) /\ Stands(stack, acts', host)
      BY <1>2, <1>6, <1>8, <1>9, <2>1, TopBecomes
    <2>3. \A j : /\ HeldBy(acts', j) + Count(j, Held(Top)) = HeldBy(acts, j) + Count(j, Held(a))
                 /\ HeldBy(acts', j) \in Nat /\ HeldBy(acts, j) \in Nat
      BY <1>2, <1>6, <1>8, <1>9, <2>1, TopBecomes
    <2>4. \A j \in 1..Len(heap) : HeldBy(acts', j) = HeldBy(acts, j)
      BY <1>3, <1>10, <1>11, <2>2, <2>3
    <2>5. Stands(stack', acts', host')
      BY <1>2, <2>2
    <2>6. QED
      BY <1>2, <2>4, <2>5, HoldsSame
  <1>13. CASE acts' = Append(cc, f)
    <2>1. f \in Acts(Classes, Len(heap))
      <3>1. acts \in Seq(Acts(Classes, Len(heap)))
        BY NowTypes
      <3>2. PICK S, n : S = Acts(Classes, Len(heap)) \cup {a} /\ n = Len(heap)
        OBVIOUS
      <3>3. cc \in Seq(S)
        BY <1>1, <1>2, <3>1, <3>2, ToppedIs
      <3>4. n = Len(heap')
        BY <1>6, <3>2
      <3>5. f \in Acts(Classes, n)
        BY <1>2, <1>13, <3>3, <3>4, BegunIs
      <3>6. QED
        BY <3>2, <3>5
    <2>2. Held(f) = <<>>
      BY <1>5, <1>6, <2>1, HeldTypes
    <2>3. \A i \in 1..Len(heap) : Count(i, Held(f)) = 0
      BY <1>11, <2>2
    <2>4. f.k # "frame"
      BY <1>5
    <2>5. a \in Acts(Classes, Len(heap)) /\ Stands(stack, acts', host)
      BY <1>1, <1>2, <1>6, <1>8, <1>9, <1>13, <2>3, <2>4, TopBegins
    <2>6. \A i \in 1..Len(heap) :
             /\ HeldBy(acts', i) + Count(i, Held(Top)) = HeldBy(acts, i) + Count(i, Held(a))
             /\ HeldBy(acts', i) \in Nat /\ HeldBy(acts, i) \in Nat
      BY <1>1, <1>2, <1>6, <1>8, <1>9, <1>13, <2>3, <2>4, TopBegins
    <2>7. \A j \in 1..Len(heap) : HeldBy(acts', j) = HeldBy(acts, j)
      BY <1>3, <1>10, <1>11, <2>5, <2>6
    <2>8. Stands(stack', acts', host')
      BY <1>2, <2>5
    <2>9. QED
      BY <1>2, <2>7, <2>8, HoldsSame
  <1>14. QED
    BY <1>4, <1>12, <1>13

\* The instance that is being constructed is on the stack, and alive.
LEMMA SittingLives ==
    ASSUME Inv, CountInv, flaws \cap Bad = {}, acts # <<>>, Top.k \in {"construct", "host"},
           NEW v, v = Top.inst, v # Plain
    PROVE  Alive(heap, v)
  <1>1. PICK q \in 1..Len(stack) : Sits(stack, acts, Len(acts), q)
    BY TopIs
  <1>2. stack[q] = v
    BY <1>1, TopIs DEF Sits
  <1>3. \A k \in 1..Len(stack) : stack[k] # Plain => Alive(heap, stack[k])
    BY AllLive
  <1>4. QED
    BY <1>2, <1>3

\* It calls the constructor of its class, and counts the instance meanwhile.
LEMMA ConstructSelfAccounts ==
    ASSUME Inv, Inv', CountInv, flaws' \cap Bad = {}, ConstructSelf
    PROVE  Accounted(heap', stack', acts', host', flaws')
  <1>1. /\ acts # <<>> /\ Top.k = "construct" /\ host' = host /\ prog' = prog /\ Top.at = "self"
    BY DEF ConstructSelf, classVars
  <1>2. PICK n, v, a : n = Len(heap) /\ v = Top.inst /\ a = Going(Top, "called")
    OBVIOUS
  <1>3. /\ v \in 1..n /\ v \in 0..n /\ DOMAIN Top = {"k", "inst", "jsp", "argc", "at"}
        /\ Top = acts[Len(acts)] /\ Held(Top) = <<>> /\ Top.argc \in Nat
    BY <1>1, <1>2, ConstructTop
  <1>4. n \in Nat /\ heap \in Heaps(Classes, n)
    BY <1>2, NowTypes
  <1>5. a.k = "construct" /\ a.at = "called" /\ a.inst = v
    BY <1>1, <1>2, <1>3 DEF Going
  <1>6. CASE err = "NONE"
    <2>1. PICK h : h = jsinstRef(heap, v)
      OBVIOUS
    <2>2. h \in Heaps(Classes, n)
      BY <1>3, <1>4, <2>1, RefTypes
    <2>3. Len(h) = Len(heap)
      BY <1>2, <1>4, <2>2, HeapTypes
    <2>4. PICK c, m, i : c = Top.jsp /\ m = Top.argc /\ i = Top.inst
      OBVIOUS
    <2>5. EnterConstructor(Topped(acts, a), h, i, <<c, m>>)
      <3>1. [acts EXCEPT ![Len(acts)].at = "called"] = Topped(acts, a)
        BY <1>2, <1>3 DEF Going, Topped
      <3>2. EnterConstructor([acts EXCEPT ![Len(acts)].at = "called"], jsinstRef(heap, Top.inst),
                             Top.inst, <<Top.jsp, Top.argc>>)
        BY <1>6 DEF ConstructSelf
      <3>3. QED
        BY <1>2, <2>1, <2>4, <3>1, <3>2
    <2>6. m \in 0..Top.argc /\ a.k = Top.k /\ Top.k \in {"construct", "host"}
      BY <1>1, <1>3, <1>5, <2>4
    <2>7. flaws' = flaws /\ flaws \cap Bad = {}
      BY <2>5 DEF EnterConstructor, history
    <2>8. Stands(stack, acts, host)
      BY <2>7, CountsSay
    <2>9. /\ heap' = h /\ stack' = stack /\ flaws' = flaws /\ Stands(stack, acts', host)
          /\ a \in Acts(Classes, Len(heap))
      BY <1>1, <2>3, <2>5, <2>6, <2>8, EnterHolds
    <2>10. \A j \in 1..Len(heap) :
              /\ HeldBy(acts', j) + Count(j, Held(Top)) = HeldBy(acts, j) + Count(j, Held(a))
              /\ HeldBy(acts', j) \in Nat /\ HeldBy(acts, j) \in Nat
      BY <1>1, <2>3, <2>5, <2>6, <2>8, EnterHolds
    <2>11. Held(a) = <<v>>
      <3>1. Held(a) = <<a.inst>>
        BY <1>2, <1>4, <1>5, <2>9, HeldTypes
      <3>2. QED
        BY <1>5, <3>1
    <2>12. \A j \in 1..Len(heap) : HeldBy(acts', j) = HeldBy(acts, j) + (IF v = j THEN 1 ELSE 0)
      <3> TAKE j \in 1..Len(heap)
      <3>1. Count(j, Held(Top)) = 0
        BY <1>3, CountOne
      <3>2. Count(j, Held(a)) = (IF v = j THEN 1 ELSE 0)
        BY <2>11, CountOne
      <3>3. PICK d : d = IF v = j THEN 1 ELSE 0
        OBVIOUS
      <3>4. d \in Nat /\ Count(j, Held(a)) = d
        BY <3>2, <3>3
      <3>5. HeldBy(acts', j) = HeldBy(acts, j) + d
        BY <2>10, <3>1, <3>4
      <3>6. QED
        BY <3>3, <3>5
    <2>13. v # Plain => Alive(heap, v)
      BY <1>1, <1>2, <2>6, <2>7, SittingLives
    <2>14. Stands(stack', acts', host')
      BY <1>1, <2>9
    <2>15. v \in 0..Len(heap) /\ heap' = jsinstRef(heap, v) /\ prog' = prog /\ host' = host
      BY <1>1, <1>2, <1>3, <2>1, <2>9
    <2>16. stack' = stack /\ flaws' = flaws
      BY <2>9
    <2>17. QED
      BY <2>12, <2>13, <2>14, <2>15, <2>16, HoldsMore
  <1>7. CASE err # "NONE"
    <2>1. acts' = Below /\ heap' = heap /\ stack' = stack /\ flaws' = flaws
      BY <1>7 DEF ConstructSelf, history
    <2>2. flaws \cap Bad = {}
      BY <2>1
    <2>3. Stands(stack, acts, host)
      BY <2>2, CountsSay
    <2>4. Stands(stack, Below, host)
      BY <1>1, <2>3, TopPops
    <2>5. \A i : HeldBy(acts, i) = HeldBy(Below, i) + Count(i, Held(Top)) /\ HeldBy(Below, i) \in Nat
      BY <1>1, <2>3, TopPops
    <2>6. \A i : Count(i, <<>>) = 0
      BY CountOne
    <2>7. \A i \in 1..Len(heap) : HeldBy(acts', i) = HeldBy(acts, i)
      BY <1>3, <2>1, <2>5, <2>6
    <2>8. Stands(stack', acts', host')
      BY <1>1, <2>1, <2>4
    <2>9. QED
      BY <1>1, <2>1, <2>7, <2>8, HoldsSame
  <1>8. QED
    BY <1>6, <1>7

\* Two lists of values are cleared, one after the other.
LEMMA DropsTwo ==
    ASSUME NEW C, NEW n \in Nat, NEW h \in Heaps(C, n), NEW us \in Seq(0..n), NEW vs \in Seq(0..n),
           NEW o \in [1..n -> Nat], NEW b \in [1..n -> Nat], Owed(n, h, b, {}, <<>>),
           \A i \in 1..n : b[i] = o[i] + Count(i, us) + Count(i, vs),
           NEW g, g = varClear(h, us)
    PROVE  varClear(g, vs) \in Heaps(C, n) /\ Owed(n, varClear(g, vs), o, {}, <<>>)
  <1>1. PICK m : m = [i \in 1..n |-> o[i] + Count(i, vs)]
    OBVIOUS
  <1>2. \A i \in 1..n : Count(i, us) \in Nat /\ Count(i, vs) \in Nat
    <2> TAKE i \in 1..n
    <2>1. Count(i, us) \in Nat
      BY CountIs
    <2>2. Count(i, vs) \in Nat
      BY CountIs
    <2>3. QED
      BY <2>1, <2>2
  <1>3. \A i \in 1..n : o[i] + Count(i, vs) \in Nat
    BY <1>2
  <1>4. m \in [1..n -> Nat] /\ \A i \in 1..n : m[i] = o[i] + Count(i, vs)
    BY <1>1, <1>3
  <1>5. \A i \in 1..n : b[i] = m[i] + Count(i, us)
    BY <1>2, <1>4
  <1>6. Anchored(n, h, m, {}) /\ Anchored(n, g, o, {})
    BY DEF Anchored
  <1>7. varClear(h, us) \in Heaps(C, n) /\ Owed(n, varClear(h, us), m, {}, <<>>)
    BY <1>4, <1>5, <1>6, DropOwed
  <1>8. g \in Heaps(C, n) /\ Owed(n, g, m, {}, <<>>)
    BY <1>7
  <1>9. QED
    BY <1>4, <1>6, <1>8, DropOwed

\* A constructor has returned, and an activation has let go of the instance.
LEMMA LetsGo ==
    ASSUME Inv, Inv', CountInv, flaws' \cap Bad = {}, prog' = prog, flaws' = flaws, host' = host,
           stack' = stack, acts # <<>>, Top.k = "construct", Top.at = "called",
           heap' = varClear(heap, <<Top.inst>>), Stands(stack, acts', host),
           \A i : HeldBy(acts', i) + Count(i, <<Top.inst>>) = HeldBy(acts, i)
    PROVE  Accounted(heap', stack', acts', host', flaws')
  <1>1. PICK v, us : v = Top.inst /\ us = <<v>>
    OBVIOUS
  <1>2. v \in 0..Len(heap)
    BY <1>1, ConstructTop
  <1>3. \A i \in 1..Len(heap) : HeldBy(acts', i) + (IF v = i THEN 1 ELSE 0) = HeldBy(acts, i)
    BY <1>1, CountOne
  <1>4. Stands(stack', acts', host') /\ heap' = varClear(heap, us)
    BY <1>1
  <1>5. QED
    BY <1>1, <1>2, <1>3, <1>4, HoldsLess

\* An activation that lets go of its instance
LEMMA HoldsNone ==
    ASSUME Inv, Inv', CountInv, flaws' \cap Bad = {}, prog' = prog, flaws' = flaws,
           stack' = stack, host' = host, Len(heap') = Len(heap), acts # <<>>,
           Top.k = "construct", NEW a, a.k = "construct", a.at = "base",
           acts' = Topped(acts, a)
    PROVE  /\ Stands(stack, acts', host)
           /\ \A i : HeldBy(acts', i) + Count(i, Held(Top)) = HeldBy(acts, i)
  <1>1. Stands(stack, acts, host)
    BY CountsSay
  <1>2. a.k = Top.k /\ a.k # "frame" /\ a.k # "call"
    OBVIOUS
  <1>3. a \in Acts(Classes, Len(heap)) /\ Stands(stack, acts', host)
    BY <1>1, <1>2, TopBecomes
  <1>4. \A j : /\ HeldBy(acts', j) + Count(j, Held(Top)) = HeldBy(acts, j) + Count(j, Held(a))
               /\ HeldBy(acts', j) \in Nat /\ HeldBy(acts, j) \in Nat
    BY <1>1, <1>2, TopBecomes
  <1>5. Held(a) = <<>>
    <2>1. Len(heap) \in Nat
      BY InvSays
    <2>2. QED
      BY <1>3, <2>1, HeldTypes
  <1>6. \A i : HeldBy(acts', i) + Count(i, Held(Top)) = HeldBy(acts, i)
    <2> TAKE i
    <2>1. PICK x, y, z, w : x = HeldBy(acts', i) /\ y = Count(i, Held(Top)) /\ z = HeldBy(acts, i)
                            /\ w = Count(i, Held(a))
      OBVIOUS
    <2>2. w = 0
      BY <1>5, <2>1, CountOne
    <2>3. x + y = z + w /\ x \in Nat /\ z \in Nat
      BY <1>4, <2>1
    <2>4. x + y = z
      BY <2>2, <2>3
    <2>5. QED
      BY <2>1, <2>4
  <1>7. QED
    BY <1>3, <1>6

\* All is tried again without arguments.
LEMMA TriedAgain ==
    ASSUME Inv, Inv', CountInv, flaws' \cap Bad = {}, prog' = prog, flaws' = flaws, host' = host,
           stack' = stack, acts # <<>>, Top.k = "construct", Top.at = "called",
           heap' = varClear(heap, <<Top.inst>>),
           acts' = [acts EXCEPT ![Len(acts)].at = "base", ![Len(acts)].argc = 0]
    PROVE  Accounted(heap', stack', acts', host', flaws')
  <1>1. PICK a : a = GoingWith(Top, "base", 0)
    OBVIOUS
  <1>2. /\ Top.inst \in 1..Len(heap) /\ DOMAIN Top = {"k", "inst", "jsp", "argc", "at"}
        /\ Top = acts[Len(acts)] /\ Held(Top) = <<Top.inst>>
    BY ConstructTop
  <1>3. acts' = Topped(acts, a)
    BY <1>1, <1>2 DEF GoingWith, Topped
  <1>4. a.k = "construct" /\ a.at = "base"
    BY <1>1, <1>2 DEF GoingWith
  <1>5. Len(heap') = Len(heap)
    <2>1. Len(heap) \in Nat /\ heap \in Heaps(Classes, Len(heap))
      BY NowTypes
    <2>2. PICK us : us = <<Top.inst>>
      OBVIOUS
    <2>3. us \in Seq(0..Len(heap))
      BY <1>2, <2>1, <2>2
    <2>4. varClear(heap, us) \in Heaps(Classes, Len(heap))
      BY <2>1, <2>3, ClearTypes
    <2>5. QED
      BY <2>1, <2>2, <2>4, HeapTypes
  <1>6. Stands(stack, acts', host)
    BY <1>3, <1>4, <1>5, HoldsNone
  <1>7. \A i : HeldBy(acts', i) + Count(i, Held(Top)) = HeldBy(acts, i)
    BY <1>3, <1>4, <1>5, HoldsNone
  <1>8. \A i : HeldBy(acts', i) + Count(i, <<Top.inst>>) = HeldBy(acts, i)
    BY <1>2, <1>7
  <1>9. QED
    BY <1>6, <1>8, LetsGo

\* The call for one class is done, or has failed.
LEMMA LeftAlone ==
    ASSUME Inv, Inv', CountInv, flaws' \cap Bad = {}, prog' = prog, flaws' = flaws, host' = host,
           stack' = stack, acts # <<>>, Top.k = "construct", Top.at = "called",
           heap' = varClear(heap, <<Top.inst>>), acts' = Below
    PROVE  Accounted(heap', stack', acts', host', flaws')
  <1>1. Stands(stack, acts, host)
    BY CountsSay
  <1>2. Held(Top) = <<Top.inst>>
    BY ConstructTop
  <1>3. Stands(stack, acts', host)
    BY <1>1, TopPops
  <1>4. \A i : HeldBy(acts, i) = HeldBy(Below, i) + Count(i, Held(Top))
    BY <1>1, TopPops
  <1>5. \A i : HeldBy(acts', i) + Count(i, <<Top.inst>>) = HeldBy(acts, i)
    BY <1>2, <1>4
  <1>6. QED
    BY <1>3, <1>5, LetsGo

\* Below the last of the calls of a construction is the frame that makes it,
\* with its part of the stack below the instance.
LEMMA LastIs ==
    ASSUME Inv, acts # <<>>, Top.k = "construct", Top.jsp = heap[Top.inst].cls
    PROVE  /\ \E m \in 1..Len(Below) : Below[m].k = "frame"
           /\ Len(stack) - Top.argc \in 0..Len(stack)
           /\ \A m \in 1..Len(Below) : Low(Below[m]) <= Len(stack) - Top.argc
  <1>1. /\ Len(acts) \in Nat /\ Len(acts) \in 1..Len(acts) /\ Fits(heap, stack, acts)
        /\ Bottom(Top) <=> Len(acts) = 1
        /\ acts[Len(acts) - 1].k \in {"frame", "construct"}
        /\ acts[Len(acts) - 1].k = "construct" => Depths[Top.jsp] < Depths[heap[Top.inst].cls]
        /\ \E q \in 1..Len(stack) : Sits(stack, acts, Len(acts), q)
    BY TopIs
  <1>2. Top.inst \in 1..Len(heap) /\ Top.jsp \in Classes /\ Top.argc \in Nat /\ Top = acts[Len(acts)]
    BY ConstructTop
  <1>3. Len(Below) = Len(acts) - 1 /\ \A k \in 1..(Len(acts) - 1) : Below[k] = acts[k]
    BY <1>1, FitPop DEF Below
  <1>4. Len(stack) \in Nat /\ \A k \in 1..Len(acts) : Low(acts[k]) \in Nat
    BY InvSays
  <1>5. Len(acts) - 1 \in 1..(Len(acts) - 1) /\ Len(acts) - 1 \in 1..Len(Below)
    <2>1. ~Bottom(Top)
      BY DEF Bottom
    <2>2. QED
      BY <1>1, <1>3, <2>1
  <1>6. acts[Len(acts) - 1].k = "frame"
    <2>1. Depths \in [Classes -> Nat]
      BY <1>1 DEF Fits, State
    <2>2. Depths[Top.jsp] \in Nat
      BY <1>2, <2>1
    <2>3. QED
      BY <1>1, <2>2
  <1>7. \E m \in 1..Len(Below) : Below[m].k = "frame"
    BY <1>3, <1>5, <1>6
  <1>8. PICK q \in 1..Len(stack) : Sits(stack, acts, Len(acts), q)
    BY <1>1
  <1>9. PICK w : w = Top.argc
    OBVIOUS
  <1>10. w \in Nat /\ q + w <= Len(stack)
    BY <1>2, <1>8, <1>9 DEF Sits
  <1>11. Len(stack) - w \in 0..Len(stack) /\ q <= Len(stack) - w
    BY <1>4, <1>10
  <1>12. ASSUME NEW m \in 1..Len(Below) PROVE Low(Below[m]) <= Len(stack) - w
    <2>1. m \in 1..(Len(acts) - 1) /\ m \in 1..Len(acts) /\ Below[m] = acts[m]
      BY <1>1, <1>3
    <2>2. Low(acts[m]) < q
      BY <1>8, <2>1 DEF Sits
    <2>3. Low(acts[m]) \in Nat
      BY <1>4, <2>1
    <2>4. QED
      BY <1>4, <1>11, <2>1, <2>2, <2>3
  <1>13. QED
    BY <1>7, <1>9, <1>11, <1>12

\* Two lists of values are cleared, one after the other.
ClearsTwo(us, vs) == heap' = varClear(varClear(heap, us), vs)

\* What the activations do not hold any longer, and what the stack has not
Both(us, vs, st, ac) ==
    \A i : /\ Count(i, stack) = Count(i, st) + Count(i, vs)
           /\ HeldBy(acts, i) = HeldBy(ac, i) + Count(i, us)

\* The references before and after a step that makes no instance
LEMMA SumsBoth ==
    ASSUME Inv, Inv', CountInv, flaws \cap Bad = {}, prog' = prog, NEW n, n = Len(heap), n = Len(heap')
    PROVE  \E x, o, b : /\ Spare(flaws, n, x) /\ Counted(n, heap, stack, acts, host, x, o)
                        /\ b \in [1..n -> Nat]
                        /\ \A i \in 1..n : b[i] = Sum(stack', acts', host', x, i)
  <1>1. PICK x, o : Spare(flaws, n, x) /\ Counted(n, heap, stack, acts, host, x, o)
    BY CountsSay
  <1>2. x \in [1..n -> Nat]
    BY <1>1, SumNat
  <1>3. \E b \in [1..n -> Nat] : \A i \in 1..n : b[i] = Sum(stack', acts', host', x, i)
    BY <1>2, SumMade
  <1>4. QED
    BY <1>1, <1>3

\* All that a step has cleared was counted for the one list or the other.
LEMMA TwoGone ==
    ASSUME Inv, Inv', CountInv, flaws' \cap Bad = {}, prog' = prog, flaws' = flaws, host' = host,
           NEW us \in Seq(0..Len(heap)), NEW vs \in Seq(0..Len(heap)),
           ClearsTwo(us, vs), Stands(stack', acts', host'),
           Both(us, vs, stack', acts')
    PROVE  Accounted(heap', stack', acts', host', flaws')
  <1>1. PICK n, g : n = Len(heap) /\ g = varClear(heap, us)
    OBVIOUS
  <1>2. n \in Nat /\ heap \in Heaps(Classes, n) /\ us \in Seq(0..n) /\ vs \in Seq(0..n)
    BY <1>1, NowTypes
  <1>3. heap' = varClear(g, vs)
    BY <1>1 DEF ClearsTwo
  <1>4. g \in Heaps(Classes, n) /\ heap' \in Heaps(Classes, n)
    <2>1. g \in Heaps(Classes, n)
      BY <1>1, <1>2, ClearTypes
    <2>2. varClear(g, vs) \in Heaps(Classes, n)
      BY <1>2, <2>1, ClearTypes
    <2>3. QED
      BY <1>3, <2>1, <2>2
  <1>5. n = Len(heap')
    BY <1>2, <1>4, HeapTypes
  <1>6. flaws \cap Bad = {}
    OBVIOUS
  <1>7. PICK x, o, b : /\ Spare(flaws, n, x) /\ Counted(n, heap, stack, acts, host, x, o)
                       /\ b \in [1..n -> Nat]
                       /\ \A i \in 1..n : b[i] = Sum(stack', acts', host', x, i)
    <2>1. n = Len(heap) /\ n = Len(heap')
      BY <1>1, <1>5
    <2>2. QED
      BY <1>6, <2>1, SumsBoth
  <1>8. /\ \A i \in 1..n : o[i] = Sum(stack, acts, host, x, i)
        /\ o \in [1..n -> Nat] /\ Owed(n, heap, o, {}, <<>>) /\ x \in [1..n -> Nat]
    BY <1>7, SumNat
  <1>9. ASSUME NEW i \in 1..n PROVE o[i] = b[i] + Count(i, us) + Count(i, vs)
    <2>1. PICK lo, hi, he, c, d, e, s, t : /\ lo = Count(i, stack') /\ hi = Count(i, vs)
                                           /\ he = HeldBy(acts', i) /\ c = HostBy(host, i) /\ d = x[i]
                                           /\ e = Count(i, us) /\ s = Count(i, stack) /\ t = HeldBy(acts, i)
      OBVIOUS
    <2>2. hi \in Nat /\ e \in Nat
      <3>1. hi \in Nat
        BY <1>2, <2>1, CountIs
      <3>2. e \in Nat
        BY <1>2, <2>1, CountIs
      <3>3. QED
        BY <3>1, <3>2
    <2>3. lo \in Nat /\ he \in Nat
      BY <1>5, <2>1, NextNats
    <2>4. c \in Nat /\ d \in Nat
      BY <1>7, <2>1 DEF Counted
    <2>5. s = lo + hi /\ t = he + e
      BY <2>1 DEF Both
    <2>6. o[i] = s + t + c + d
      BY <1>8, <2>1 DEF Sum
    <2>7. b[i] = lo + he + c + d
      BY <1>7, <2>1 DEF Sum
    <2>8. o[i] = b[i] + e + hi
      BY <2>2, <2>3, <2>4, <2>5, <2>6, <2>7
    <2>9. QED
      BY <2>1, <2>8
  <1>10. Owed(n, heap', b, {}, <<>>)
    <2>1. Owed(n, varClear(g, vs), b, {}, <<>>)
      BY <1>1, <1>2, <1>8, <1>7, <1>9, DropsTwo
    <2>2. QED
      BY <1>3, <2>1
  <1>11. Spare(flaws', n, x)
    BY <1>7
  <1>12. QED
    BY <1>5, <1>7, <1>10, <1>11, AccountBy

\* The last of the calls of a construction takes the arguments off the stack.
LEMMA LastDone ==
    ASSUME Inv, Inv', CountInv, flaws' \cap Bad = {}, prog' = prog, flaws' = flaws, host' = host,
           acts # <<>>, Top.k = "construct", Top.at = "called", Top.jsp = heap[Top.inst].cls,
           NEW z, z = Len(stack) - Top.argc, stack' = SubSeq(stack, 1, z), acts' = Below,
           heap' = varClear(varClear(heap, <<Top.inst>>), SubSeq(stack, z + 1, Len(stack)))
    PROVE  Accounted(heap', stack', acts', host', flaws')
  <1>1. PICK n, us, vs, low : /\ n = Len(heap) /\ us = <<Top.inst>> /\ low = SubSeq(stack, 1, z)
                              /\ vs = SubSeq(stack, z + 1, Len(stack))
    OBVIOUS
  <1>2. ClearsTwo(us, vs) /\ stack' = low
    BY <1>1 DEF ClearsTwo
  <1>3. Top.inst \in 0..n /\ Held(Top) = us /\ us \in Seq(0..n)
    BY <1>1, ConstructTop
  <1>4. n \in Nat /\ stack \in Seq(0..n) /\ Len(stack) \in Nat
    BY <1>1, NowTypes
  <1>5. z \in 0..Len(stack) /\ z \in Nat
    <2>1. Len(stack) - Top.argc \in 0..Len(stack)
      BY LastIs
    <2>2. QED
      BY <1>4, <2>1
  <1>6. /\ low \in Seq(0..n) /\ Len(low) = z /\ vs \in Seq(0..n)
        /\ \A k \in 1..z : low[k] = stack[k]
    <2>1. low \in Seq(0..n) /\ Len(low) = z
      BY <1>1, <1>4, <1>5, Slices
    <2>2. \A k \in 1..z : low[k] = stack[k]
      BY <1>1, <1>4, <1>5, Slices
    <2>3. vs \in Seq(0..n)
      BY <1>1, <1>4, <1>5, Slices
    <2>4. QED
      BY <2>1, <2>2, <2>3
  <1>7. Stands(stack, acts, host)
    BY CountsSay
  <1>8. Stands(stack, Below, host) /\ State(Classes, Depths, heap, stack, Below)
    BY <1>7, TopPops
  <1>9. Stands(stack', acts', host')
    <2>1. \E m \in 1..Len(Below) : Below[m].k = "frame"
      BY LastIs
    <2>2. \A m \in 1..Len(Below) : Low(Below[m]) <= z
      BY LastIs
    <2>3. z <= Len(stack) /\ z <= Len(low) /\ low \in Seq(0..Len(heap)) /\ \A q \in 1..z : low[q] = stack[q]
      BY <1>1, <1>4, <1>5, <1>6
    <2>4. Stands(low, Below, host)
      BY <1>5, <1>8, <2>1, <2>2, <2>3, StandStack
    <2>5. QED
      BY <1>2, <2>4
  <1>10. \A i : Count(i, stack) = Count(i, low) + Count(i, vs)
    BY <1>1, <1>4, <1>5, CountParts
  <1>11. \A i : HeldBy(acts, i) = HeldBy(Below, i) + Count(i, us)
    BY <1>3, <1>7, TopPops
  <1>12. us \in Seq(0..Len(heap)) /\ vs \in Seq(0..Len(heap))
    BY <1>1, <1>3, <1>6
  <1>13. Both(us, vs, stack', acts')
    BY <1>2, <1>10, <1>11 DEF Both
  <1>14. QED
    BY <1>2, <1>9, <1>12, <1>13, TwoGone

\* The return of a constructor
LEMMA ConstructReturnsAccounts ==
    ASSUME Inv, Inv', CountInv, flaws' \cap Bad = {}, ConstructReturns
    PROVE  Accounted(heap', stack', acts', host', flaws')
  <1>1. PICK z : z = Len(stack) - Top.argc
    OBVIOUS
  <1>2. /\ acts # <<>> /\ Top.k = "construct" /\ Top.at = "called" /\ prog' = prog
        /\ flaws' = flaws /\ host' = host
    BY DEF ConstructReturns, classVars
  <1>3. \/ /\ acts' = [acts EXCEPT ![Len(acts)].at = "base", ![Len(acts)].argc = 0]
           /\ stack' = stack /\ heap' = varClear(heap, <<Top.inst>>)
        \/ acts' = Below /\ heap' = varClear(heap, <<Top.inst>>) /\ stack' = stack
        \/ /\ acts' = Below /\ Top.jsp = heap[Top.inst].cls /\ stack' = SubSeq(stack, 1, z)
           /\ heap' = varClear(varClear(heap, <<Top.inst>>), SubSeq(stack, z + 1, Len(stack)))
    BY <1>1 DEF ConstructReturns
  <1>4. QED
    BY <1>1, <1>2, <1>3, TriedAgain, LeftAlone, LastDone

\* What the activation of createJSClassInstance is
LEMMA HostTop ==
    ASSUME Inv, acts # <<>>, Top.k = "host"
    PROVE  /\ Top.inst \in 1..Len(heap) /\ Top.jsp \in Classes /\ Top.argc \in Nat
           /\ Held(Top) = <<Top.inst>> /\ Top \in Hosts(Classes, Len(heap))
           /\ Top \in Acts(Classes, Len(heap)) /\ Top = acts[Len(acts)]
  <1>1. Top \in Acts(Classes, Len(heap)) /\ Len(heap) \in Nat /\ Top = acts[Len(acts)]
    BY TopIs
  <1>2. Top \in Hosts(Classes, Len(heap))
    BY <1>1, ActTypes
  <1>3. Top.inst \in 1..Len(heap) /\ Top.jsp \in Classes /\ Top.argc \in Nat
    BY <1>1, <1>2, WaitTypes
  <1>4. Held(Top) = <<Top.inst>>
    BY <1>1, HeldTypes
  <1>5. QED
    BY <1>1, <1>2, <1>3, <1>4

\* Nothing is counted where an activation goes on with the same instance.
LEMMA SameHeld ==
    ASSUME NEW n, NEW x, NEW y, Held(x) = Held(y), NEW ac, NEW bc,
           \A j \in 1..n : /\ HeldBy(bc, j) + Count(j, Held(x)) = HeldBy(ac, j) + Count(j, Held(y))
                           /\ HeldBy(bc, j) \in Nat /\ HeldBy(ac, j) \in Nat
                           /\ Count(j, Held(x)) \in Nat
    PROVE  \A j \in 1..n : HeldBy(bc, j) = HeldBy(ac, j)
  <1> TAKE j \in 1..n
  <1>1. PICK a, b, c : a = HeldBy(bc, j) /\ b = HeldBy(ac, j) /\ c = Count(j, Held(x))
    OBVIOUS
  <1>2. a + c = b + c /\ a \in Nat /\ b \in Nat /\ c \in Nat
    BY <1>1
  <1>3. a = b
    BY <1>2
  <1>4. QED
    BY <1>1, <1>3

\* createJSClassInstance calls a constructor
LEMMA HostConstructsAccounts ==
    ASSUME Inv, Inv', CountInv, flaws' \cap Bad = {}, HostConstructs
    PROVE  Accounted(heap', stack', acts', host', flaws')
  <1>1. /\ acts # <<>> /\ Top.k = "host" /\ host' = host /\ prog' = prog
    BY DEF HostConstructs, classVars
  <1>2. PICK v, a, m, c, h : /\ v = Top.inst /\ a = Going(Top, "called") /\ c = Top.jsp /\ h = heap
                             /\ m = IF Top.retry THEN 0 ELSE Top.argc
    OBVIOUS
  <1>3. /\ Top.inst \in 1..Len(heap) /\ Top \in Hosts(Classes, Len(heap)) /\ Top = acts[Len(acts)]
        /\ Held(Top) = <<v>> /\ Top.argc \in Nat
    BY <1>1, <1>2, HostTop
  <1>4. Len(heap) \in Nat
    BY NowTypes
  <1>5. a.k = "host" /\ a.inst = v
    <2>1. Going(Top, "called").k = "host" /\ Going(Top, "called").inst = Top.inst
      BY <1>3, <1>4, HostAt
    <2>2. QED
      BY <1>2, <2>1
  <1>6. EnterConstructor(Topped(acts, a), h, v, <<c, m>>)
    <2>1. [acts EXCEPT ![Len(acts)].at = "called"] = Topped(acts, a)
      BY <1>2, <1>3 DEF Going, Topped
    <2>2. EnterConstructor([acts EXCEPT ![Len(acts)].at = "called"], heap, Top.inst, <<Top.jsp, m>>)
      BY <1>2 DEF HostConstructs
    <2>3. QED
      BY <1>2, <2>1, <2>2
  <1>7. m \in 0..Top.argc /\ a.k = Top.k /\ Top.k \in {"construct", "host"} /\ Len(h) = Len(heap)
    BY <1>1, <1>2, <1>3, <1>5
  <1>8. flaws' = flaws /\ flaws \cap Bad = {}
    BY <1>6 DEF EnterConstructor, history
  <1>9. Stands(stack, acts, host)
    BY <1>8, CountsSay
  <1>10. /\ heap' = h /\ stack' = stack /\ flaws' = flaws /\ Stands(stack, acts', host)
         /\ a \in Acts(Classes, Len(heap))
    BY <1>1, <1>6, <1>7, <1>9, EnterHolds
  <1>11. \A j \in 1..Len(heap) :
            /\ HeldBy(acts', j) + Count(j, Held(Top)) = HeldBy(acts, j) + Count(j, Held(a))
            /\ HeldBy(acts', j) \in Nat /\ HeldBy(acts, j) \in Nat
            /\ Count(j, Held(Top)) \in Nat
    BY <1>1, <1>6, <1>7, <1>9, EnterHolds
  <1>12. Held(Top) = Held(a)
    <2>1. Held(a) = <<a.inst>>
      BY <1>4, <1>5, <1>10, HeldTypes
    <2>2. QED
      BY <1>3, <1>5, <2>1
  <1>13. \A j \in 1..Len(heap) : HeldBy(acts', j) = HeldBy(acts, j)
    BY <1>11, <1>12, SameHeld
  <1>14. Stands(stack', acts', host') /\ heap' = heap /\ stack' = stack /\ flaws' = flaws
    BY <1>1, <1>2, <1>10
  <1>15. QED
    BY <1>1, <1>13, <1>14, HoldsSame

\* It goes on with another class, or without arguments.
LEMMA HostGoesOn ==
    ASSUME Inv, Inv', CountInv, flaws' \cap Bad = {}, prog' = prog, flaws' = flaws, host' = host,
           stack' = stack, heap' = heap, acts # <<>>, Top.k = "host",
           NEW a, a.k = "host", a.inst = Top.inst, acts' = Topped(acts, a)
    PROVE  Accounted(heap', stack', acts', host', flaws')
  <1>1. Stands(stack, acts, host) /\ Len(heap) \in Nat
    BY CountsSay, NowTypes
  <1>2. a.k = Top.k /\ a.k # "frame" /\ a.k # "call" /\ Len(heap') = Len(heap)
    OBVIOUS
  <1>3. a \in Acts(Classes, Len(heap)) /\ Stands(stack, acts', host)
    BY <1>1, <1>2, TopBecomes
  <1>4. \A i : /\ HeldBy(acts', i) + Count(i, Held(Top)) = HeldBy(acts, i) + Count(i, Held(a))
               /\ HeldBy(acts', i) \in Nat /\ HeldBy(acts, i) \in Nat
               /\ Count(i, Held(Top)) \in Nat /\ Count(i, Held(a)) \in Nat
    BY <1>1, <1>2, TopBecomes
  <1>5. Held(Top) = Held(a)
    <2>1. Held(a) = <<a.inst>>
      BY <1>1, <1>3, HeldTypes
    <2>2. Held(Top) = <<Top.inst>>
      BY HostTop
    <2>3. QED
      BY <2>1, <2>2
  <1>6. \A j \in 1..Len(heap) : HeldBy(acts', j) = HeldBy(acts, j)
    BY <1>4, <1>5, SameHeld
  <1>7. Stands(stack', acts', host')
    BY <1>3
  <1>8. QED
    BY <1>6, <1>7, HoldsSame

\* The host has no instance, or this one, without a reference.
Given(ho, v) == ho.inst = Plain \/ (ho.inst = v /\ ho.refs = 0)

\* Nothing is counted for it.
LEMMA GivenIs ==
    ASSUME NEW n \in Nat, NEW ho, NEW v \in 1..n, Given(ho, v), NEW i \in 1..n
    PROVE  HostBy(ho, i) = 0
  BY DEF Given, HostBy, Plain

\* The loop ends, and the instance goes to the host.
LEMMA HostGives ==
    ASSUME Inv, Inv', CountInv, flaws' \cap Bad = {}, prog' = prog, flaws' = flaws,
           stack' = stack, acts # <<>>, Top.k = "host", acts' = Below,
           NEW v, v = Top.inst, Given(host', v) \/ host' = host,
           NEW us, us = <<v>>, heap' = varClear(heap, us)
    PROVE  Accounted(heap', stack', acts', host', flaws')
  <1>1. PICK n : n = Len(heap)
    OBVIOUS
  <1>2. n \in Nat /\ v \in 1..n /\ v \in 0..n /\ Held(Top) = us
    BY <1>1, HostTop, NowTypes
  <1>3. flaws \cap Bad = {}
    OBVIOUS
  <1>4. PICK x, o : Spare(flaws, n, x) /\ Counted(n, heap, stack, acts, host, x, o)
    BY <1>1, <1>3, CountsSay
  <1>5. Stands(stack, acts, host)
    BY <1>3, CountsSay
  <1>6. Len(acts) = 1 /\ Top = acts[1]
    BY TopIs DEF Bottom
  <1>7. host.inst = Plain
    BY <1>5, <1>6 DEF Stands, Lent
  <1>8. Given(host, v) /\ Given(host', v)
    BY <1>7 DEF Given
  <1>9. Below = <<>>
    BY <1>6, FitPop, TopIs DEF Below
  <1>10. Stands(stack', acts', host')
    <2>1. Copied(stack, <<>>) /\ Lent(<<>>, host')
      BY DEF Copied, Lent
    <2>2. PICK q \in 1..Len(stack) : Sits(stack, acts, Len(acts), q)
      BY TopIs
    <2>3. stack[q] = v
      BY <1>6, <2>2 DEF Sits
    <2>4. Hosted(stack, <<>>, host')
      BY <1>8, <2>3 DEF Hosted, Given
    <2>5. QED
      BY <1>9, <2>1, <2>4 DEF Stands
  <1>11. \A i : /\ HeldBy(acts, i) = HeldBy(acts', i) + Count(i, us)
                /\ HeldBy(acts', i) \in Nat /\ Count(i, us) \in Nat
    BY <1>2, <1>5, TopPops
  <1>12. ASSUME NEW i \in 1..n
         PROVE  Sum(stack', acts', host', x, i) + Count(i, us) = Sum(stack, acts, host, x, i)
    <2>1. PICK a, b, c, d, e : /\ a = Count(i, stack) /\ b = HeldBy(acts, i) /\ c = HeldBy(acts', i)
                               /\ d = Count(i, us) /\ e = x[i]
      OBVIOUS
    <2>2. HostBy(host, i) = 0
      BY <1>2, <1>8, GivenIs
    <2>3. HostBy(host', i) = 0
      BY <1>2, <1>8, GivenIs
    <2>4. Sum(stack', acts', host', x, i) = a + c + 0 + e
      BY <2>1, <2>3 DEF Sum
    <2>5. Sum(stack, acts, host, x, i) = a + b + 0 + e
      BY <2>1, <2>2 DEF Sum
    <2>6. b = c + d /\ c \in Nat /\ d \in Nat
      BY <1>11, <2>1
    <2>7. a \in Nat /\ e \in Nat
      BY <1>4, <2>1 DEF Counted
    <2>8. (a + c + 0 + e) + d = a + b + 0 + e
      BY <2>6, <2>7
    <2>9. QED
      BY <2>1, <2>4, <2>5, <2>8
  <1>13. Spare(flaws', n, x) /\ us \in Seq(0..n) /\ prog' = prog
    BY <1>2, <1>4
  <1>14. QED
    BY <1>1, <1>4, <1>10, <1>12, <1>13, DropAccounts

\* The return of a constructor to createJSClassInstance
LEMMA HostConstructedAccounts ==
    ASSUME Inv, Inv', CountInv, flaws' \cap Bad = {}, HostConstructed
    PROVE  Accounted(heap', stack', acts', host', flaws')
  <1> DEFINE t == Top
             fine  == err = "NONE" \/ (err = "UNKNOWN_METHOD" /\ t.argc = 0)
             again == err = "UNKNOWN_METHOD" /\ t.argc > 0 /\ ~t.retry
             more  == fine /\ link[t.jsp] # None
             c == IF again THEN t.jsp ELSE link[t.jsp]
  <1>1. /\ acts # <<>> /\ t.k = "host" /\ UNCHANGED classVars /\ stack' = stack /\ flaws' = flaws
        /\ IF more \/ again
           THEN /\ acts' = [acts EXCEPT ![Len(acts)] =
                               [t EXCEPT !.at = "call", !.retry = again,
                                         !.jsp = IF again THEN @ ELSE link[@]]]
                /\ heap' = heap /\ host' = host
           ELSE /\ acts' = Below /\ heap' = varClear(heap, <<t.inst>>)
                /\ host' = IF fine THEN [inst |-> t.inst, refs |-> 0] ELSE host
    BY DEF HostConstructed, history
  <1> HIDE DEF again
  <1>2. prog' = prog
    BY <1>1 DEF classVars
  <1>3. t \in Hosts(Classes, Len(heap)) /\ t.jsp \in Classes /\ t = acts[Len(acts)]
        /\ ClassInv /\ Ready
    BY <1>1, HostTop, TopIs
  <1>4. CASE more \/ again
    <2>1. PICK r \in BOOLEAN : r = again
      BY DEF again
    <2> DEFINE a == HostGoing(t, "call", r, c)
               Y(u) == [u EXCEPT !.at = "call", !.retry = again, !.jsp = IF again THEN @ ELSE link[@]]
               Z(u) == [u EXCEPT !.at = "call", !.retry = again,
                                 !.jsp = IF again THEN u.jsp ELSE link[u.jsp]]
    <2>2. acts' = [acts EXCEPT ![Len(acts)] = Y(t)] /\ heap' = heap /\ host' = host
      BY <1>1, <1>4
    <2>3. Y(t) = Z(t)
      <3>1. ASSUME NEW u \in Hosts(Classes, Len(heap)) PROVE Y(u) = Z(u)
        BY DEF Hosts
      <3> HIDE DEF Y, Z, t
      <3>2. QED
        BY <1>3, <3>1
    <2>4. Z(t) = a
      BY <2>1 DEF HostGoing
    <2>5. c \in Classes
      <3>1. CASE again
        BY <1>3, <3>1
      <3>2. CASE ~again
        <4>1. link[t.jsp] = BaseOf(t.jsp) /\ link[t.jsp] # None /\ c = link[t.jsp]
          BY <1>3, <1>4, <3>2, FindsNearest
        <4>2. QED
          BY <4>1 DEF BaseOf
      <3>3. QED
        BY <3>1, <3>2
    <2>6. a.k = "host" /\ a.inst = t.inst
      <3> HIDE DEF c, t
      <3>1. Len(heap) \in Nat
        BY NowTypes
      <3>2. QED
        BY <1>3, <2>5, <3>1, HostFor
    <2> HIDE DEF Y, Z, a
    <2>7. acts' = Topped(acts, a)
      BY <2>2, <2>3, <2>4 DEF Topped
    <2>8. QED
      BY <1>1, <1>2, <2>2, <2>6, <2>7, HostGoesOn
  <1>5. CASE ~(more \/ again)
    <2>1. /\ acts' = Below /\ heap' = varClear(heap, <<t.inst>>)
          /\ host' = IF fine THEN [inst |-> t.inst, refs |-> 0] ELSE host
      BY <1>1, <1>5
    <2>2. PICK v, us : v = Top.inst /\ us = <<v>>
      OBVIOUS
    <2>3. Given(host', v) \/ host' = host
      BY <2>1, <2>2 DEF Given
    <2>4. acts' = Below /\ heap' = varClear(heap, us)
      BY <2>1, <2>2
    <2>5. acts # <<>> /\ Top.k = "host" /\ stack' = stack /\ flaws' = flaws /\ prog' = prog
      BY <1>1, <1>2
    <2>6. QED
      BY <2>2, <2>3, <2>4, <2>5, HostGives
  <1>6. QED
    BY <1>4, <1>5

-----------------------------------------------------------------------------
(* The calls of the host                                                   *)

\* Two activations begin, the second of them a frame.
LEMMA TwoBegin ==
    ASSUME Inv, Inv', prog' = prog, Stands(stack, acts, host), acts = <<>>, stack' = stack,
           NEW r, r.k = "run" \/ (r.k = "call" /\ host.inst = r.inst),
           NEW f, f.k = "frame", f.base = Len(stack), Owns(f), acts' = <<r, f>>
    PROVE  /\ Stands(stack, acts', host) /\ f \in Acts(Classes, Len(heap')) /\ r \in Acts(Classes, Len(heap'))
           /\ \A i : /\ HeldBy(acts', i) = Count(i, Held(r)) + Count(i, Held(f))
                     /\ HeldBy(acts, i) = 0
  <1>1. PICK n, ac : n = Len(heap') /\ ac = Append(<<>>, r)
    OBVIOUS
  <1>2. n \in Nat
    BY <1>1, NextTypes
  <1>3. ac \in Seq({r}) /\ ac[1] = r /\ Len(ac) = 1 /\ acts' = Append(ac, f)
    BY <1>1
  <1>4. /\ f \in Acts(Classes, n) /\ ac \in Seq(Acts(Classes, n))
        /\ State(Classes, Depths, heap', stack', ac)
    BY <1>1, <1>3, BegunIs
  <1>5. r \in Acts(Classes, n)
    BY <1>3, <1>4
  <1>6. Stands(stack, <<>>, host) /\ State(Classes, Depths, heap, stack, <<>>)
    BY NowTypes
  <1>7. Stands(stack, ac, host)
    <2>1. /\ r.k # "frame" /\ (host.inst # Plain => r.k = "run" \/ r.k = "call")
          /\ r.k = "call" => host.inst = r.inst
      OBVIOUS
    <2>2. Stands(stack, Append(<<>>, r), host)
      BY <1>6, <2>1, StandPush
    <2>3. QED
      BY <1>1, <2>2
  <1>8. Stands(stack, acts', host)
    <2>1. State(Classes, Depths, heap', stack, ac) /\ ac # <<>>
      BY <1>3, <1>4
    <2>2. Stands(stack, Append(ac, f), host)
      BY <1>7, <2>1, StandPush
    <2>3. QED
      BY <1>3, <2>2
  <1>9. ASSUME NEW i PROVE /\ HeldBy(acts', i) = Count(i, Held(r)) + Count(i, Held(f))
                           /\ HeldBy(acts, i) = 0
    <2>1. <<>> \in Seq(Acts(Classes, n)) /\ HeldBy(<<>>, i) = 0
      BY HeldNone
    <2>2. HeldBy(Append(<<>>, r), i) = HeldBy(<<>>, i) + Count(i, Held(r))
      BY <1>2, <1>5, <2>1, HeldPush
    <2>3. HeldBy(Append(ac, f), i) = HeldBy(ac, i) + Count(i, Held(f))
      BY <1>2, <1>4, HeldPush
    <2>4. Count(i, Held(r)) \in Nat
      <3>1. Held(r) \in Seq(0..n)
        BY <1>2, <1>5, HeldTypes
      <3>2. QED
        BY <3>1, CountIs
    <2>5. PICK a, b, c, d : /\ a = Count(i, Held(r)) /\ b = Count(i, Held(f)) /\ c = HeldBy(ac, i)
                            /\ d = HeldBy(acts', i)
      OBVIOUS
    <2>6. c = 0 + a /\ a \in Nat
      BY <1>1, <2>1, <2>2, <2>4, <2>5
    <2>7. d = c + b
      BY <1>3, <2>3, <2>5
    <2>8. d = a + b
      BY <2>6, <2>7
    <2>9. QED
      BY <2>1, <2>5, <2>8
  <1>10. QED
    BY <1>1, <1>4, <1>5, <1>8, <1>9

\* Nothing is counted for plain values.
LEMMA PlainCounts ==
    ASSUME NEW vs, \A k \in DOMAIN vs : vs[k] = Plain, NEW i, i # Plain
    PROVE  Count(i, vs) = 0
  <1>1. At(i, vs) = {}
    BY DEF At
  <1>2. QED
    BY <1>1, FS_EmptySet DEF Count

\* qinterpRun
LEMMA RunAccounts ==
    ASSUME Inv, Inv', CountInv, flaws' \cap Bad = {}, qinterpRun
    PROVE  Accounted(heap', stack', acts', host', flaws')
  <1>1. PICK r, f, c, vs, sig : /\ r = [k |-> "run"] /\ c = prog[Len(prog)].name
                                /\ vs = <<Plain, Plain>> /\ sig = <<"main", 0>>
                                /\ f = OwnFrame(c, c, sig, vs, Len(stack))
    OBVIOUS
  <1>2. acts' = <<r, f>> /\ acts = <<>>
    BY <1>1 DEF qinterpRun, Idle, OwnFrame
  <1>3. heap' = heap /\ stack' = stack /\ host' = host /\ prog' = prog /\ flaws' = flaws
    BY DEF qinterpRun, history, classVars
  <1>4. f.k = "frame" /\ f.base = Len(stack) /\ Owns(f) /\ f.locals = vs \o <<Plain>>
    <2>1. f = OwnFrame(c, c, sig, vs, Len(stack))
      BY <1>1
    <2>2. QED
      BY <2>1, FrameOwns
  <1>5. r.k = "run"
    BY <1>1
  <1>6. Stands(stack, acts, host)
    BY <1>3, CountsSay
  <1>7. Stands(stack, acts', host) /\ r \in Acts(Classes, Len(heap'))
    BY <1>2, <1>3, <1>4, <1>5, <1>6, TwoBegin
  <1>8. \A i : HeldBy(acts', i) = Count(i, Held(r)) + Count(i, Held(f)) /\ HeldBy(acts, i) = 0
    BY <1>2, <1>3, <1>4, <1>5, <1>6, TwoBegin
  <1>9. Len(heap) \in Nat
    BY NowTypes
  <1>10. Held(r) = <<>>
    <2>1. Len(heap') \in Nat
      BY <1>3, <1>9
    <2>2. QED
      BY <1>5, <1>7, <2>1, HeldTypes
  <1>11. ASSUME NEW i \in 1..Len(heap) PROVE HeldBy(acts', i) = HeldBy(acts, i)
    <2>1. Count(i, Held(r)) = 0
      BY <1>10, CountOne
    <2>2. vs \in Seq(0..Len(heap)) /\ \A k \in DOMAIN vs : vs[k] = Plain
      BY <1>1, <1>9 DEF Plain
    <2>3. Count(i, Held(f)) = Count(i, vs)
      <3>1. CalledWith(f, vs) /\ Owns(f)
        BY <1>4 DEF CalledWith
      <3>2. QED
        BY <1>4, <2>2, <3>1, FrameHeld
    <2>4. i # Plain
      BY <1>9 DEF Plain
    <2>5. Count(i, vs) = 0
      BY <2>2, <2>4, PlainCounts
    <2>6. HeldBy(acts', i) = 0 + 0
      BY <1>8, <2>1, <2>3, <2>5
    <2>7. QED
      BY <1>8, <2>6
  <1>12. Stands(stack', acts', host')
    BY <1>3, <1>7
  <1>13. QED
    BY <1>3, <1>11, <1>12, HoldsSame

\* The topmost value goes, and the activations hold what they held.
LEMMA PopsAccounts ==
    ASSUME Inv, Inv', prog' = prog, CountInv, flaws' \cap Bad = {}, flaws' = flaws, host' = host,
           stack # <<>>, stack' = Front(stack), NEW v, v = stack[Len(stack)], NEW us, us = <<v>>,
           heap' = varClear(heap, us), Stands(stack', acts', host'),
           \A i : HeldBy(acts', i) = HeldBy(acts, i)
    PROVE  Accounted(heap', stack', acts', host', flaws')
  <1>1. PICK n : n = Len(heap)
    OBVIOUS
  <1>2. n \in Nat /\ stack \in Seq(0..n)
    BY <1>1, NowTypes
  <1>3. v \in 0..n /\ us \in Seq(0..n)
    BY <1>2, AllButLast
  <1>4. PICK x, o : Spare(flaws, n, x) /\ Counted(n, heap, stack, acts, host, x, o)
    BY <1>1, CountsSay
  <1>5. ASSUME NEW i \in 1..n
        PROVE  Sum(stack', acts', host', x, i) + Count(i, us) = Sum(stack, acts, host, x, i)
    <2>1. PICK st : st = Front(stack)
      OBVIOUS
    <2>2. PICK a, b, c, d, e, g : /\ a = Count(i, st) /\ b = HeldBy(acts, i) /\ c = HostBy(host, i)
                                  /\ d = x[i] /\ e = Count(i, us) /\ g = Count(i, stack)
      OBVIOUS
    <2>3. Count(i, us) = (IF v = i THEN 1 ELSE 0)
      BY CountOne
    <2>4. Count(i, stack) = Count(i, Front(stack)) + (IF v = i THEN 1 ELSE 0)
      BY <1>2, CountFront
    <2>5. g = a + e
      BY <2>1, <2>2, <2>3, <2>4
    <2>6. st \in Seq(0..n)
      BY <1>2, <2>1, AllButLast
    <2>7. a \in Nat /\ e \in Nat
      <3>1. a \in Nat
        BY <2>2, <2>6, CountIs
      <3>2. e \in Nat
        BY <1>3, <2>2, CountIs
      <3>3. QED
        BY <3>1, <3>2
    <2>8. b \in Nat /\ c \in Nat /\ d \in Nat
      BY <1>4, <2>2 DEF Counted
    <2>9. Sum(stack', acts', host', x, i) = a + b + c + d
      BY <2>1, <2>2 DEF Sum
    <2>10. Sum(stack, acts, host, x, i) = g + b + c + d
      BY <2>2 DEF Sum
    <2>11. (a + b + c + d) + e = g + b + c + d
      BY <2>5, <2>7, <2>8
    <2>12. QED
      BY <2>2, <2>9, <2>10, <2>11
  <1>6. Spare(flaws', n, x)
    BY <1>4
  <1>7. QED
    BY <1>1, <1>3, <1>4, <1>5, <1>6, DropAccounts

\* The return of qinterpRun
LEMMA RunReturnsAccounts ==
    ASSUME Inv, Inv', CountInv, flaws' \cap Bad = {}, RunReturns
    PROVE  Accounted(heap', stack', acts', host', flaws')
  <1>1. acts # <<>> /\ Top.k = "run" /\ acts' = Below /\ prog' = prog /\ host' = host
    BY DEF RunReturns, classVars
  <1>2. flaws' = flaws /\ ~(host.inst \in Range(stack) \ {Plain} /\ host.refs = 0)
    <2>1. PICK w : w = IF host.inst \in Range(stack) \ {Plain} /\ host.refs = 0 THEN {"uncounted"} ELSE {}
      OBVIOUS
    <2>2. flaws' = flaws \cup w
      BY <2>1 DEF RunReturns
    <2>3. "uncounted" \notin w
      BY <2>2 DEF Bad
    <2>4. QED
      BY <2>1, <2>2, <2>3
  <1>3. Stands(stack, acts, host) /\ Len(heap) \in Nat
    BY <1>2, CountsSay, NowTypes
  <1>4. Stands(stack, Below, host) /\ State(Classes, Depths, heap, stack, Below)
    BY <1>1, <1>3, TopPops
  <1>5. Held(Top) = <<>>
    <2>1. Top \in Acts(Classes, Len(heap))
      BY <1>1, TopIs
    <2>2. QED
      BY <1>1, <1>3, <2>1, HeldTypes
  <1>6. \A i : HeldBy(acts, i) = HeldBy(Below, i) + Count(i, Held(Top)) /\ HeldBy(Below, i) \in Nat
    BY <1>1, <1>3, TopPops
  <1>7. \A i : Count(i, <<>>) = 0
    BY CountOne
  <1>8. \A i : HeldBy(acts', i) = HeldBy(acts, i)
    BY <1>1, <1>5, <1>6, <1>7
  <1>9. CASE stack = <<>>
    <2>1. stack' = stack /\ heap' = heap
      BY <1>9 DEF RunReturns
    <2>2. Stands(stack', acts', host')
      BY <1>1, <1>4, <2>1
    <2>3. QED
      BY <1>1, <1>2, <1>8, <2>1, <2>2, HoldsSame
  <1>10. CASE stack # <<>>
    <2>1. PICK v, us, st : v = stack[Len(stack)] /\ us = <<v>> /\ st = Front(stack)
      OBVIOUS
    <2>2. stack' = st /\ heap' = varClear(heap, us)
      BY <1>10, <2>1 DEF RunReturns, Peek
    <2>3. stack \in Seq(0..Len(heap)) /\ Len(stack) \in Nat
      BY NowTypes
    <2>4. PICK b : b = Len(stack) - 1
      OBVIOUS
    <2>5. /\ b \in Nat /\ b <= Len(stack) /\ st \in Seq(0..Len(heap)) /\ b <= Len(st)
          /\ \A q \in 1..b : st[q] = stack[q]
      <3>1. st = SubSeq(stack, 1, b)
        BY <2>1, <2>4 DEF Front
      <3>2. b \in 0..Len(stack)
        BY <1>10, <2>3, <2>4
      <3>3. st \in Seq(0..Len(heap)) /\ Len(st) = b
        BY <2>3, <3>1, <3>2, Slices
      <3>4. \A q \in 1..b : st[q] = stack[q]
        BY <2>3, <3>1, <3>2, Slices
      <3>5. QED
        BY <2>3, <3>2, <3>3, <3>4
    <2>6. host.inst = Plain \/ host.refs > 0
      <3>1. CASE host.inst # Plain /\ ~(host.refs > 0)
        <4>1. \E q \in 1..Len(stack) : stack[q] = host.inst
          BY <1>3, <3>1 DEF Stands, Hosted
        <4>2. host.inst \in Range(stack)
          BY <2>3, <4>1 DEF Range
        <4>3. host \in [inst : 0..Len(heap), refs : Nat]
          BY NowTypes
        <4>4. host.refs = 0
          BY <3>1, <4>3
        <4>5. QED
          BY <1>2, <3>1, <4>2, <4>4
      <3>2. QED
        BY <3>1
    <2>7. \A m \in 1..Len(Below) : Low(Below[m]) <= b
      <3>1. Len(acts) = 1
        BY <1>1, TopIs DEF Bottom
      <3>2. Below = <<>>
        BY <1>1, <3>1, FitPop, TopIs DEF Below
      <3>3. QED
        BY <3>2
    <2>8. Stands(st, Below, host)
      BY <1>4, <2>5, <2>6, <2>7, StandStack
    <2>9. Stands(stack', acts', host')
      BY <1>1, <2>2, <2>8
    <2>10. stack' = Front(stack)
      BY <2>1, <2>2
    <2>11. QED
      BY <1>1, <1>2, <1>8, <1>10, <2>1, <2>2, <2>9, <2>10, PopsAccounts
  <1>11. QED
    BY <1>9, <1>10

\* An instance is counted once, and again.
LEMMA RefAgain ==
    ASSUME NEW C, NEW n \in Nat, NEW h \in Heaps(C, n), NEW v \in 1..n, Alive(h, v),
           NEW o \in [1..n -> Nat], NEW m \in [1..n -> Nat], NEW b \in [1..n -> Nat],
           Owed(n, h, o, {}, <<>>), More(n, o, v, m), More(n, m, v, b)
    PROVE  LET g == jsinstRef(h, v)
           IN  jsinstRef(g, v) \in Heaps(C, n) /\ Owed(n, jsinstRef(g, v), b, {}, <<>>)
  <1>1. v \in 0..n
    OBVIOUS
  <1>2. PICK g : g = jsinstRef(h, v)
    OBVIOUS
  <1>3. g \in Heaps(C, n) /\ Owed(n, g, m, {}, <<>>) /\ Alive(g, v)
    <2>1. /\ jsinstRef(h, v) \in Heaps(C, n) /\ Owed(n, jsinstRef(h, v), m, {}, <<>>)
          /\ \A w \in 1..n : Alive(jsinstRef(h, v), w) <=> Alive(h, w)
      BY <1>1, RefOwed DEF More
    <2>2. QED
      BY <1>2, <2>1
  <1>4. jsinstRef(g, v) \in Heaps(C, n) /\ Owed(n, jsinstRef(g, v), b, {}, <<>>)
    BY <1>1, <1>3, RefOwed DEF More
  <1>5. QED
    BY <1>2, <1>4

\* An instance is counted twice.
LEMMA RefTwice ==
    ASSUME NEW C, NEW n \in Nat, NEW h \in Heaps(C, n), NEW v \in 1..n, NEW o \in [1..n -> Nat],
           NEW b \in [1..n -> Nat], Owed(n, h, o, {}, <<>>), Alive(h, v),
           \A i \in 1..n : b[i] = o[i] + (IF v = i THEN 1 ELSE 0) + (IF v = i THEN 1 ELSE 0),
           NEW g, g = jsinstRef(h, v)
    PROVE  jsinstRef(g, v) \in Heaps(C, n) /\ Owed(n, jsinstRef(g, v), b, {}, <<>>)
  <1>1. PICK m : m = [i \in 1..n |-> o[i] + (IF v = i THEN 1 ELSE 0)]
    OBVIOUS
  <1>2. m \in [1..n -> Nat] /\ \A i \in 1..n : m[i] = o[i] + (IF v = i THEN 1 ELSE 0)
    BY <1>1
  <1>3. \A i \in 1..n : b[i] = m[i] + (IF v = i THEN 1 ELSE 0)
    BY <1>2
  <1>4. More(n, o, v, m) /\ More(n, m, v, b)
    BY <1>2, <1>3 DEF More
  <1>5. QED
    BY <1>2, <1>4, RefAgain

\* The instance of the host is alive between its calls.
LEMMA HostLives ==
    ASSUME Inv, CountInv, flaws \cap Bad = {}, NEW v, v = host.inst, v # Plain
    PROVE  Alive(heap, v) /\ v \in 1..Len(heap)
  <1>1. v \in 1..Len(heap)
    <2>1. host \in [inst : 0..Len(heap), refs : Nat] /\ Len(heap) \in Nat
      BY NowTypes
    <2>2. QED
      BY <2>1 DEF Plain
  <1>2. CASE host.refs > 0
    <2>1. Alive(heap, host.inst)
      BY <1>2, AllLive
    <2>2. QED
      BY <1>1, <2>1
  <1>3. CASE ~(host.refs > 0)
    <2>1. Stands(stack, acts, host)
      BY CountsSay
    <2>2. \E q \in 1..Len(stack) : stack[q] = host.inst
      BY <1>3, <2>1 DEF Stands, Hosted
    <2>3. PICK q \in 1..Len(stack) : stack[q] = v
      BY <2>2
    <2>4. \A k \in 1..Len(stack) : stack[k] # Plain => Alive(heap, stack[k])
      BY AllLive
    <2>5. QED
      BY <1>1, <2>3, <2>4
  <1>4. QED
    BY <1>2, <1>3

\* An instance is counted twice in a step.
CountsTwice(v) == heap' = jsinstRef(jsinstRef(heap, v), v)

\* The instances stay as many.
LEMMA TwiceTypes ==
    ASSUME Inv, NEW v \in 1..Len(heap), CountsTwice(v)
    PROVE  heap' \in Heaps(Classes, Len(heap)) /\ Len(heap') = Len(heap)
  <1>1. PICK n, g : n = Len(heap) /\ g = jsinstRef(heap, v)
    OBVIOUS
  <1>2. n \in Nat /\ heap \in Heaps(Classes, n) /\ v \in 0..n
    BY <1>1, NowTypes
  <1>3. g \in Heaps(Classes, n)
    BY <1>1, <1>2, RefTypes
  <1>4. jsinstRef(g, v) \in Heaps(Classes, n)
    BY <1>2, <1>3, RefTypes
  <1>5. heap' \in Heaps(Classes, n)
    BY <1>1, <1>4 DEF CountsTwice
  <1>6. Len(heap') = n
    BY <1>2, <1>5, HeapTypes
  <1>7. QED
    BY <1>1, <1>5, <1>6

\* One reference, if it is to v
One(v, i) == IF v = i THEN 1 ELSE 0

\* And two more references to it are there, or lost.
LEMMA TwiceAccounts ==
    ASSUME Inv, Inv', prog' = prog, NEW v \in 1..Len(heap), Alive(heap, v), CountsTwice(v),
           NEW n, n = Len(heap), NEW x, NEW o, Counted(n, heap, stack, acts, host, x, o),
           NEW y, Spare(flaws', n, y), Stands(stack', acts', host'),
           \A i \in 1..n : Sum(stack', acts', host', y, i)
                           = Sum(stack, acts, host, x, i) + One(v, i) + One(v, i)
    PROVE  Accounted(heap', stack', acts', host', flaws')
  <1>1. PICK g : g = jsinstRef(heap, v)
    OBVIOUS
  <1>2. n \in Nat /\ heap \in Heaps(Classes, n) /\ v \in 1..n
    BY NowTypes
  <1>3. heap' \in Heaps(Classes, n) /\ Len(heap') = n
    BY TwiceTypes
  <1>4. /\ \A i \in 1..n : o[i] = Sum(stack, acts, host, x, i)
        /\ o \in [1..n -> Nat] /\ Owed(n, heap, o, {}, <<>>)
    BY SumNat
  <1>5. y \in [1..n -> Nat]
    BY DEF Spare
  <1>6. \E b \in [1..n -> Nat] : \A i \in 1..n : b[i] = Sum(stack', acts', host', y, i)
    <2>1. PICK r : r = Len(heap')
      OBVIOUS
    <2>2. n = r /\ y \in [1..r -> Nat]
      BY <1>3, <1>5, <2>1
    <2>3. \E b \in [1..r -> Nat] : \A i \in 1..r : b[i] = Sum(stack', acts', host', y, i)
      BY <2>1, <2>2, SumMade
    <2>4. QED
      BY <2>2, <2>3
  <1>7. PICK b \in [1..n -> Nat] : \A i \in 1..n : b[i] = Sum(stack', acts', host', y, i)
    BY <1>6
  <1>8. \A i \in 1..n : b[i] = o[i] + (IF v = i THEN 1 ELSE 0) + (IF v = i THEN 1 ELSE 0)
    BY <1>4, <1>7 DEF One
  <1>9. Owed(n, jsinstRef(g, v), b, {}, <<>>)
    BY <1>1, <1>2, <1>4, <1>8, RefTwice
  <1>10. Owed(n, heap', b, {}, <<>>)
    BY <1>1, <1>9 DEF CountsTwice
  <1>11. n = Len(heap')
    BY <1>3
  <1>12. QED
    BY <1>7, <1>10, <1>11, AccountBy

\* The last value of two lists
LEMMA LastJoined ==
    ASSUME NEW S, NEW q \in Seq(S), NEW r \in Seq(S), r # <<>>
    PROVE  (q \o r)[Len(q \o r)] = r[Len(r)]
  OBVIOUS

\* The values of a call from the host: the instance, and m plain arguments
Passed(v, m) == <<v>> \o [k \in 1..m |-> Plain]

\* They are values, and the last of them is plain if there are arguments.
LEMMA PassedIs ==
    ASSUME NEW n \in Nat, NEW v \in 1..n, NEW m \in Nat, NEW vs, vs = Passed(v, m)
    PROVE  /\ vs \in Seq(0..n) /\ vs # <<>> /\ Len(vs) >= 1
           /\ m # 0 => vs[Len(vs)] = Plain
  <1>1. PICK ps, us : ps = [k \in 1..m |-> Plain] /\ us = <<v>>
    OBVIOUS
  <1>2. ps \in Seq(0..n) /\ Len(ps) = m /\ \A k \in 1..m : ps[k] = Plain
    BY <1>1, PlainList
  <1>3. us \in Seq(0..n) /\ Len(us) = 1
    BY <1>1
  <1>4. vs = us \o ps
    BY <1>1 DEF Passed
  <1>5. us \o ps \in Seq(0..n) /\ Len(us \o ps) = Len(us) + Len(ps)
    BY <1>2, <1>3, Joined
  <1>6. ASSUME m # 0 PROVE (us \o ps)[Len(us \o ps)] = Plain
    <2>1. ps # <<>> /\ m \in 1..m
      BY <1>2, <1>6
    <2>2. (us \o ps)[Len(us \o ps)] = ps[Len(ps)]
      BY <1>2, <1>3, <2>1, LastJoined
    <2>3. QED
      BY <1>2, <2>1, <2>2
  <1>7. us \o ps # <<>> /\ Len(us \o ps) >= 1
    BY <1>2, <1>3, <1>5
  <1>8. QED
    BY <1>4, <1>5, <1>6, <1>7

\* What is counted in them
LEMMA PassedCount ==
    ASSUME NEW n \in Nat, NEW v \in 1..n, NEW m \in Nat, NEW vs, vs = Passed(v, m), NEW i \in 1..n
    PROVE  Count(i, vs) = One(v, i)
  <1>1. PICK ps, us : ps = [k \in 1..m |-> Plain] /\ us = <<v>>
    OBVIOUS
  <1>2. ps \in Seq(0..n) /\ \A k \in DOMAIN ps : ps[k] = Plain
    BY <1>1, PlainList
  <1>3. us \in Seq(0..n)
    BY <1>1
  <1>4. vs = us \o ps
    BY <1>1 DEF Passed
  <1>5. Count(i, us \o ps) = Count(i, us) + Count(i, ps)
    BY <1>2, <1>3, CountTwo
  <1>6. Count(i, us) = One(v, i)
    BY <1>1, CountOne DEF One
  <1>7. i # Plain
    BY DEF Plain
  <1>8. Count(i, ps) = 0
    BY <1>2, <1>7, PlainCounts
  <1>9. QED
    BY <1>4, <1>5, <1>6, <1>8 DEF One

\* A frame that was called with them
PassedTo(f, v, m) == f.k = "frame" /\ Owns(f) /\ f.locals = Passed(v, m) \o <<Plain>>

\* What it holds
LEMMA PassedHeld ==
    ASSUME NEW n \in Nat, NEW v \in 1..n, NEW m \in Nat, NEW f, PassedTo(f, v, m), NEW i \in 1..n
    PROVE  Count(i, Held(f)) = One(v, i)
  <1>1. PICK vs : vs = Passed(v, m)
    OBVIOUS
  <1>2. vs \in Seq(0..n)
    BY <1>1, PassedIs
  <1>3. Count(i, vs) = One(v, i)
    BY <1>1, PassedCount
  <1>4. f.k = "frame" /\ Owns(f) /\ f.locals = vs \o <<Plain>>
    BY <1>1 DEF PassedTo
  <1>5. Count(i, Held(f)) = Count(i, vs)
    <2>1. CalledWith(f, vs) /\ Owns(f)
      BY <1>4 DEF CalledWith
    <2>2. QED
      BY <1>2, <2>1, FrameHeld
  <1>6. QED
    BY <1>3, <1>5

\* The host has this instance.
HostHas(v) == host.inst = v /\ v # Plain

\* A method is called for the host: its frame owns the instance.
LEMMA HostCallsFound ==
    ASSUME Inv, Inv', CountInv, flaws' \cap Bad = {}, prog' = prog, flaws' = flaws, host' = host,
           stack' = stack, acts = <<>>, NEW v, HostHas(v), CountsTwice(v),
           NEW r, r.k = "call", r.inst = v, NEW m \in Nat,
           NEW f, f.base = Len(stack), PassedTo(f, v, m), acts' = <<r, f>>
    PROVE  Accounted(heap', stack', acts', host', flaws')
  <1>1. PICK n : n = Len(heap)
    OBVIOUS
  <1>2. n \in Nat
    BY <1>1, NowTypes
  <1>3. Alive(heap, v) /\ v \in 1..Len(heap) /\ v \in 1..n
    <2>1. v = host.inst /\ v # Plain
      BY DEF HostHas
    <2>2. QED
      BY <1>1, <2>1, HostLives
  <1>4. PICK x, o : Spare(flaws, n, x) /\ Counted(n, heap, stack, acts, host, x, o)
    BY <1>1, CountsSay
  <1>5. Stands(stack, acts, host)
    BY CountsSay
  <1>6. /\ r.k = "run" \/ (r.k = "call" /\ host.inst = r.inst)
        /\ f.k = "frame" /\ Owns(f)
    BY DEF HostHas, PassedTo
  <1>7. Stands(stack, acts', host) /\ r \in Acts(Classes, Len(heap'))
    BY <1>5, <1>6, TwoBegin
  <1>8. \A i : HeldBy(acts', i) = Count(i, Held(r)) + Count(i, Held(f)) /\ HeldBy(acts, i) = 0
    BY <1>5, <1>6, TwoBegin
  <1>9. Held(r) = <<v>>
    <2>1. Len(heap') \in Nat
      BY NextTypes
    <2>2. Held(r) = <<r.inst>>
      BY <1>7, <2>1, HeldTypes
    <2>3. QED
      BY <2>2
  <1>10. ASSUME NEW i \in 1..n
         PROVE  Sum(stack', acts', host', x, i) = Sum(stack, acts, host, x, i) + One(v, i) + One(v, i)
    <2>1. PICK a, b, c, d, e : /\ a = Count(i, stack) /\ b = HeldBy(acts', i) /\ c = HostBy(host, i)
                               /\ d = x[i] /\ e = One(v, i)
      OBVIOUS
    <2>2. Count(i, Held(f)) = One(v, i)
      BY <1>2, <1>3, PassedHeld
    <2>3. Count(i, Held(r)) = One(v, i)
      BY <1>9, CountOne DEF One
    <2>4. b = e + e /\ HeldBy(acts, i) = 0
      BY <1>8, <2>1, <2>2, <2>3
    <2>5. e \in Nat /\ a \in Nat /\ c \in Nat /\ d \in Nat
      BY <1>4, <2>1 DEF Counted, One
    <2>6. Sum(stack', acts', host', x, i) = a + b + c + d
      BY <2>1 DEF Sum
    <2>7. Sum(stack, acts, host, x, i) = a + 0 + c + d
      BY <2>1, <2>4 DEF Sum
    <2>8. a + b + c + d = (a + 0 + c + d) + e + e
      BY <2>4, <2>5
    <2>9. QED
      BY <2>1, <2>6, <2>7, <2>8
  <1>11. Spare(flaws', n, x) /\ Stands(stack', acts', host')
    BY <1>4, <1>7
  <1>12. QED
    BY <1>1, <1>3, <1>4, <1>10, <1>11, TwiceAccounts

\* All but the last of the values of a call, and that
Rest(v, m)  == Front(Passed(v, m))
Final(v, m) == Passed(v, m)[Len(Passed(v, m))]

\* What the call leaves on the stack where there is no method
Leaves(v, m) == stack' = stack \o Rest(v, m)

\* What is counted in it
LEMMA RestIs ==
    ASSUME NEW n \in Nat, NEW v \in 1..n, NEW m \in Nat
    PROVE  /\ Rest(v, m) \in Seq(0..n) /\ (m # 0 => Final(v, m) = Plain)
           /\ \A i \in 1..n : Count(i, Rest(v, m)) + One(Final(v, m), i) = One(v, i)
  <1>1. PICK vs : vs = Passed(v, m)
    OBVIOUS
  <1>2. vs \in Seq(0..n) /\ vs # <<>>
    BY <1>1, PassedIs
  <1>3. m # 0 => vs[Len(vs)] = Plain
    BY <1>1, PassedIs
  <1>4. Rest(v, m) = Front(vs) /\ Final(v, m) = vs[Len(vs)]
    BY <1>1 DEF Rest, Final
  <1>5. Front(vs) \in Seq(0..n)
    BY <1>2, AllButLast
  <1>6. ASSUME NEW i \in 1..n PROVE Count(i, Front(vs)) + One(vs[Len(vs)], i) = One(v, i)
    <2>1. Count(i, vs) = One(v, i)
      BY <1>1, PassedCount
    <2>2. Count(i, vs) = Count(i, Front(vs)) + (IF vs[Len(vs)] = i THEN 1 ELSE 0)
      BY <1>2, CountFront
    <2>3. QED
      BY <2>1, <2>2 DEF One
  <1>7. QED
    BY <1>3, <1>4, <1>5, <1>6

\* Values are pushed on a stack.
LEMMA PushedIs ==
    ASSUME NEW n \in Nat, NEW st \in Seq(0..n), NEW us \in Seq(0..n)
    PROVE  /\ st \o us \in Seq(0..n) /\ Len(st \o us) >= Len(st)
           /\ \A q \in 1..Len(st) : (st \o us)[q] = st[q]
  <1>1. st \o us \in Seq(0..n) /\ Len(st \o us) = Len(st) + Len(us)
    BY Joined
  <1>2. \A q \in 1..Len(st) : (st \o us)[q] = st[q]
    BY Joined
  <1>3. Len(st) \in Nat /\ Len(us) \in Nat
    OBVIOUS
  <1>4. QED
    BY <1>1, <1>2, <1>3

\* An activation is the only one.
Alone(ac, r) == ac = Append(<<>>, r)

\* The activations hold what it holds.
LEMMA HeldAlone ==
    ASSUME NEW C, NEW n \in Nat, NEW r \in Acts(C, n), NEW ac, Alone(ac, r), NEW i
    PROVE  HeldBy(ac, i) = 0 + Count(i, Held(r))
  <1>1. <<>> \in Seq(Acts(C, n)) /\ HeldBy(<<>>, i) = 0
    BY HeldNone
  <1>2. HeldBy(Append(<<>>, r), i) = HeldBy(<<>>, i) + Count(i, Held(r))
    BY <1>1, HeldPush
  <1>3. QED
    BY <1>1, <1>2 DEF Alone

\* They stand on the stack.
LEMMA LeavesStands ==
    ASSUME Inv, Inv', prog' = prog, Stands(stack, acts, host), acts = <<>>, NEW v \in 1..Len(heap),
           NEW m \in Nat, Leaves(v, m), NEW r, r.k = "call", r.inst = host.inst, Alone(acts', r)
    PROVE  /\ Stands(stack', acts', host) /\ r \in Acts(Classes, Len(heap'))
           /\ \A i : HeldBy(acts', i) = 0 + Count(i, Held(r)) /\ HeldBy(acts, i) = 0
  <1>1. PICK n, p, us, st : n = Len(heap) /\ p = Len(heap') /\ us = Rest(v, m) /\ st = stack \o us
    OBVIOUS
  <1>2. n \in Nat /\ stack \in Seq(0..n) /\ v \in 1..n
    BY <1>1, NowTypes
  <1>3. stack' = st
    BY <1>1 DEF Leaves
  <1>4. st \in Seq(0..n) /\ Len(st) >= Len(stack) /\ \A q \in 1..Len(stack) : st[q] = stack[q]
    <2>1. us \in Seq(0..n)
      BY <1>1, <1>2, RestIs
    <2>2. stack \o us \in Seq(0..n) /\ Len(stack \o us) >= Len(stack)
      BY <1>2, <2>1, PushedIs
    <2>3. \A q \in 1..Len(stack) : (stack \o us)[q] = stack[q]
      BY <1>2, <2>1, PushedIs
    <2>4. QED
      BY <1>1, <2>2, <2>3
  <1>5. Stands(st, acts, host)
    BY <1>1, <1>4, StandMore
  <1>6. acts' = Append(<<>>, r) /\ <<>> \in Seq({r})
    BY DEF Alone
  <1>7. /\ r \in Acts(Classes, p) /\ <<>> \in Seq(Acts(Classes, p))
        /\ State(Classes, Depths, heap', stack', <<>>)
    BY <1>1, <1>6, BegunIs
  <1>8. Stands(st, acts', host)
    <2>1. State(Classes, Depths, heap', st, <<>>) /\ Stands(st, <<>>, host)
      BY <1>3, <1>5, <1>7
    <2>2. Stands(st, Append(<<>>, r), host)
      BY <2>1, StandPush
    <2>3. QED
      BY <1>6, <2>2
  <1>9. p \in Nat
    BY <1>1, NextTypes
  <1>10. \A i : HeldBy(acts', i) = 0 + Count(i, Held(r))
    BY <1>7, <1>9, HeldAlone
  <1>11. \A i : HeldBy(acts, i) = 0
    BY HeldNone
  <1>12. QED
    BY <1>1, <1>3, <1>7, <1>8, <1>10, <1>11

\* A method that does not exist is called for the host: the last of the values
\* is lost.
LEMMA HostCallsMissing ==
    ASSUME Inv, Inv', CountInv, flaws' \cap Bad = {}, prog' = prog, host' = host, acts = <<>>,
           NEW v, HostHas(v), CountsTwice(v), NEW r, r.k = "call", r.inst = v, Alone(acts', r),
           NEW m \in Nat, Leaves(v, m), flaws \subseteq flaws', m = 0 => flaws' # {}
    PROVE  Accounted(heap', stack', acts', host', flaws')
  <1>1. PICK n : n = Len(heap)
    OBVIOUS
  <1>2. n \in Nat /\ stack \in Seq(0..n) /\ flaws \cap Bad = {}
    BY <1>1, NowTypes
  <1>3. v = host.inst /\ v # Plain /\ r.inst = host.inst
    BY DEF HostHas
  <1>4. Alive(heap, v) /\ v \in 1..Len(heap) /\ v \in 1..n
    BY <1>1, <1>2, <1>3, HostLives
  <1>5. PICK x, o : Spare(flaws, n, x) /\ Counted(n, heap, stack, acts, host, x, o)
    BY <1>1, <1>2, CountsSay
  <1>6. Stands(stack, acts, host)
    BY <1>2, CountsSay
  <1>7. Stands(stack', acts', host) /\ r \in Acts(Classes, Len(heap'))
    BY <1>3, <1>4, <1>6, LeavesStands
  <1>8. \A i : HeldBy(acts', i) = 0 + Count(i, Held(r)) /\ HeldBy(acts, i) = 0
    BY <1>3, <1>4, <1>6, LeavesStands
  <1>9. Held(r) = <<v>>
    <2>1. Len(heap') \in Nat
      BY NextTypes
    <2>2. Held(r) = <<r.inst>>
      BY <1>7, <2>1, HeldTypes
    <2>3. QED
      BY <2>2
  <1>10. PICK us, w : us = Rest(v, m) /\ w = Final(v, m)
    OBVIOUS
  <1>11. /\ us \in Seq(0..n) /\ (m # 0 => w = Plain)
         /\ \A i \in 1..n : Count(i, us) + One(w, i) = One(v, i)
    <2>1. us \in Seq(0..n) /\ (m # 0 => w = Plain)
      BY <1>2, <1>4, <1>10, RestIs
    <2>2. \A i \in 1..n : Count(i, us) + One(w, i) = One(v, i)
      BY <1>2, <1>4, <1>10, RestIs
    <2>3. QED
      BY <2>1, <2>2
  <1>12. PICK y : y = Lost(n, x, w)
    OBVIOUS
  <1>13. flaws' = {} => w = Plain
    BY <1>11
  <1>14. Spare(flaws', n, y)
    BY <1>2, <1>5, <1>12, <1>13, LostIs
  <1>15. \A i \in 1..n : y[i] = x[i] + One(w, i)
    BY <1>12 DEF Lost, One
  <1>16. ASSUME NEW i \in 1..n
         PROVE  Sum(stack', acts', host', y, i) = Sum(stack, acts, host, x, i) + One(v, i) + One(v, i)
    <2>1. PICK a, b, c, d, e, g, k, s : /\ a = Count(i, stack) /\ b = HeldBy(acts', i)
                                        /\ c = HostBy(host, i) /\ d = x[i] /\ e = One(v, i)
                                        /\ g = Count(i, us) /\ k = One(w, i) /\ s = Count(i, stack')
      OBVIOUS
    <2>2. Count(i, Held(r)) = One(v, i)
      BY <1>9, CountOne DEF One
    <2>3. e \in Nat /\ k \in Nat /\ a \in Nat /\ c \in Nat /\ d \in Nat
      BY <1>5, <2>1 DEF Counted, One
    <2>4. g \in Nat
      BY <1>11, <2>1, CountIs
    <2>5. b = e /\ HeldBy(acts, i) = 0
      BY <1>8, <2>1, <2>2, <2>3
    <2>6. s = a + g
      <3>1. Count(i, stack \o us) = Count(i, stack) + Count(i, us)
        BY <1>2, <1>11, CountTwo
      <3>2. stack' = stack \o us
        BY <1>10 DEF Leaves
      <3>3. QED
        BY <2>1, <3>1, <3>2
    <2>7. g + k = e
      BY <1>11, <2>1
    <2>8. Sum(stack', acts', host', y, i) = s + b + c + (d + k)
      BY <1>15, <2>1 DEF Sum
    <2>9. Sum(stack, acts, host, x, i) = a + 0 + c + d
      BY <2>1, <2>5 DEF Sum
    <2>10. s + b + c + (d + k) = (a + 0 + c + d) + e + e
      BY <2>3, <2>4, <2>5, <2>6, <2>7
    <2>11. QED
      BY <2>1, <2>8, <2>9, <2>10
  <1>17. Stands(stack', acts', host')
    BY <1>7
  <1>18. QED
    BY <1>1, <1>4, <1>5, <1>14, <1>16, <1>17, TwiceAccounts

\* qinterpCall
LEMMA HostCallAccounts ==
    ASSUME Inv, Inv', CountInv, flaws' \cap Bad = {}, NEW sig \in Sigs, qinterpCall(sig)
    PROVE  Accounted(heap', stack', acts', host', flaws')
  <1>1. PICK v, m, r, ctx, def, f : /\ v = host.inst /\ m = sig[2] /\ r = [k |-> "call", inst |-> v]
                                    /\ ctx = heap[v].cls /\ def = jsclassFindMethod(ctx, sig)
                                    /\ f = OwnFrame(ctx, def, sig, Passed(v, m), Len(stack))
    OBVIOUS
  <1>2. acts = <<>> /\ prog' = prog /\ host' = host /\ HostHas(v)
    BY <1>1 DEF qinterpCall, Idle, classVars, HostHas
  <1>3. CountsTwice(v)
    BY <1>1 DEF qinterpCall, CountsTwice
  <1>4. r.k = "call" /\ r.inst = v
    BY <1>1
  <1>5. m \in Nat
    <2>1. prog \in Programs
      BY InvSays
    <2>2. sig \in Signatures
      BY <2>1, SigTypes
    <2>3. QED
      BY <1>1, <2>2 DEF Signatures
  <1>6. CASE def = None
    <2>1. acts' = <<r>> /\ flaws' = flaws \cup (IF m = 0 THEN {"leak"} ELSE {})
      BY <1>1, <1>6 DEF qinterpCall
    <2>2. Leaves(v, m)
      BY <1>1, <1>6 DEF qinterpCall, Leaves, Rest, Passed
    <2>3. Alone(acts', r)
      BY <2>1 DEF Alone
    <2>4. flaws \subseteq flaws' /\ (m = 0 => flaws' # {})
      BY <2>1
    <2>5. QED
      BY <1>2, <1>3, <1>4, <1>5, <2>2, <2>3, <2>4, HostCallsMissing
  <1>7. CASE def # None
    <2>1. acts' = <<r, f>> /\ stack' = stack /\ flaws' = flaws
      BY <1>1, <1>7 DEF qinterpCall, OwnFrame, Passed
    <2>2. PassedTo(f, v, m) /\ f.base = Len(stack)
      <3>1. PICK vs : vs = Passed(v, m)
        OBVIOUS
      <3>2. f = OwnFrame(ctx, def, sig, vs, Len(stack))
        BY <1>1, <3>1
      <3>3. f.k = "frame" /\ f.base = Len(stack) /\ Owns(f) /\ f.locals = vs \o <<Plain>>
        BY <3>2, FrameOwns
      <3>4. QED
        BY <3>1, <3>3 DEF PassedTo
    <2>3. QED
      BY <1>2, <1>3, <1>4, <1>5, <2>1, <2>2, HostCallsFound
  <1>8. QED
    BY <1>6, <1>7

\* The last reference of a call is counted for the host, if there is no other.
Kept(g, v) == IF Tally(g, v) = 1 THEN jsinstRef(g, v) ELSE g

\* What is counted then
LEMMA KeptOwed ==
    ASSUME NEW C, NEW n \in Nat, NEW g \in Heaps(C, n), NEW v \in 1..n, NEW o \in [1..n -> Nat],
           NEW b \in [1..n -> Nat], Owed(n, g, o, {}, <<>>), NEW w \in 0..1,
           w = (IF Tally(g, v) = 1 THEN 1 ELSE 0),
           \A i \in 1..n : b[i] = o[i] + (IF v = i THEN w ELSE 0), o[v] >= 1
    PROVE  Kept(g, v) \in Heaps(C, n) /\ Owed(n, Kept(g, v), b, {}, <<>>)
  <1>1. Alive(g, v)
    BY NeededLives
  <1>2. CASE Tally(g, v) = 1
    <2>1. \A i \in 1..n : b[i] = o[i] + (IF v = i THEN 1 ELSE 0)
      BY <1>2
    <2>2. v \in 0..n
      OBVIOUS
    <2>3. jsinstRef(g, v) \in Heaps(C, n) /\ Owed(n, jsinstRef(g, v), b, {}, <<>>)
      BY <1>1, <2>1, <2>2, RefOwed
    <2>4. QED
      BY <1>2, <2>3 DEF Kept
  <1>3. CASE Tally(g, v) # 1
    <2>1. \A i \in 1..n : b[i] = o[i]
      BY <1>3
    <2>2. b = o
      BY <2>1
    <2>3. QED
      BY <1>3, <2>2 DEF Kept
  <1>4. QED
    BY <1>2, <1>3

\* The references that a call leaves are those but on the stack and its own,
\* and w for the host.
Ends(n, o, b, v, st) == \A i \in 1..n : o[i] = b[i] + One(v, i) + Count(i, st)
Gets(n, b, v, w, e)  == \A i \in 1..n : e[i] = b[i] + (IF v = i THEN w ELSE 0)
Single(g, v, w)      == w = IF Tally(g, v) = 1 THEN 1 ELSE 0

\* One reference more to v, of those that a call leaves, and of those after it
LEMMA GetsMore ==
    ASSUME NEW n \in Nat, NEW b \in [1..n -> Nat], NEW e \in [1..n -> Nat], NEW v, NEW w \in 0..1,
           Gets(n, b, v, w, e), NEW m, NEW k, More(n, b, v, m), More(n, e, v, k)
    PROVE  Gets(n, m, v, w, k)
  <1>1. ASSUME NEW i \in 1..n PROVE k[i] = m[i] + (IF v = i THEN w ELSE 0)
    <2>1. PICK x, y : x = b[i] /\ y = IF v = i THEN 1 ELSE 0
      OBVIOUS
    <2>2. x \in Nat /\ y \in 0..1
      BY <2>1
    <2>3. m[i] = x + y /\ e[i] = x + (IF v = i THEN w ELSE 0) /\ k[i] = e[i] + y
      BY <2>1 DEF Gets, More
    <2>4. CASE v = i
      BY <2>2, <2>3, <2>4
    <2>5. CASE v # i
      BY <2>2, <2>3, <2>5
    <2>6. QED
      BY <2>4, <2>5
  <1>2. QED
    BY <1>1 DEF Gets

\* One more of v than e counts
OneMoreOf(n, e, v) == [i \in 1..n |-> e[i] + One(v, i)]

\* What it counts
LEMMA Raised ==
    ASSUME NEW n \in Nat, NEW e \in [1..n -> Nat], NEW v
    PROVE  /\ OneMoreOf(n, e, v) \in [1..n -> Nat]
           /\ \A i \in 1..n : OneMoreOf(n, e, v)[i] = e[i] + One(v, i)
  <1>1. \A i : One(v, i) \in Nat
    BY DEF One
  <1>2. \A i \in 1..n : e[i] + One(v, i) \in Nat
    BY <1>1
  <1>3. OneMoreOf(n, e, v) \in [1..n -> Nat]
    BY <1>2 DEF OneMoreOf
  <1>4. \A i \in 1..n : OneMoreOf(n, e, v)[i] = e[i] + One(v, i)
    BY <1>2 DEF OneMoreOf
  <1>5. QED
    BY <1>3, <1>4

\* The stack is emptied, and the reference of the call goes.
LEMMA CallEnds ==
    ASSUME NEW C, NEW n \in Nat, NEW h \in Heaps(C, n), NEW st \in Seq(0..n), NEW v \in 1..n,
           NEW o \in [1..n -> Nat], NEW b \in [1..n -> Nat], Owed(n, h, o, {}, <<>>),
           Ends(n, o, b, v, st), NEW g, g = varClear(h, st), NEW w \in 0..1, Single(g, v, w),
           NEW e \in [1..n -> Nat], Gets(n, b, v, w, e)
    PROVE  /\ varClear(Kept(g, v), <<v>>) \in Heaps(C, n)
           /\ Owed(n, varClear(Kept(g, v), <<v>>), e, {}, <<>>)
  <1>1. PICK m : m = OneMoreOf(n, b, v)
    OBVIOUS
  <1>2. m \in [1..n -> Nat] /\ \A i \in 1..n : m[i] = b[i] + One(v, i)
    BY <1>1, Raised
  <1>3. \A i \in 1..n : o[i] = m[i] + Count(i, st)
    BY <1>2 DEF Ends
  <1>4. Anchored(n, h, m, {})
    BY DEF Anchored
  <1>5. varClear(h, st) \in Heaps(C, n) /\ Owed(n, varClear(h, st), m, {}, <<>>)
    BY <1>2, <1>3, <1>4, DropOwed
  <1>6. g \in Heaps(C, n) /\ Owed(n, g, m, {}, <<>>)
    BY <1>5
  <1>7. m[v] >= 1
    BY <1>2 DEF One
  <1>8. PICK k : k = OneMoreOf(n, e, v)
    OBVIOUS
  <1>9. k \in [1..n -> Nat] /\ \A i \in 1..n : k[i] = e[i] + (IF v = i THEN 1 ELSE 0)
    <2>1. k \in [1..n -> Nat] /\ \A i \in 1..n : k[i] = e[i] + One(v, i)
      BY <1>8, Raised
    <2>2. QED
      BY <2>1 DEF One
  <1>10. \A i \in 1..n : k[i] = m[i] + (IF v = i THEN w ELSE 0)
    <2>1. More(n, b, v, m) /\ More(n, e, v, k)
      BY <1>2, <1>9 DEF More, One
    <2>2. Gets(n, m, v, w, k)
      BY <2>1, GetsMore
    <2>3. QED
      BY <2>2 DEF Gets
  <1>11. Kept(g, v) \in Heaps(C, n) /\ Owed(n, Kept(g, v), k, {}, <<>>)
    BY <1>2, <1>6, <1>7, <1>9, <1>10, KeptOwed DEF Single
  <1>12. v \in 0..n
    OBVIOUS
  <1>13. Anchored(n, Kept(g, v), e, {})
    BY DEF Anchored
  <1>14. QED
    BY <1>9, <1>11, <1>12, <1>13, DropOne

\* The activation of qinterpCall when the call returns
LEMMA CallTop ==
    ASSUME Inv, Stands(stack, acts, host), acts # <<>>, Top.k = "call", NEW v, v = Top.inst
    PROVE  /\ v \in 1..Len(heap) /\ Held(Top) = <<v>> /\ host.inst = v /\ Below = <<>>
           /\ \A i : HeldBy(acts, i) = Count(i, <<v>>)
  <1>1. Top \in Acts(Classes, Len(heap)) /\ Len(heap) \in Nat
    BY TopIs
  <1>2. v \in 1..Len(heap)
    BY <1>1, ActTypes, WaitTypes
  <1>3. Held(Top) = <<v>>
    BY <1>1, HeldTypes
  <1>4. Len(acts) = 1 /\ Top = acts[1]
    BY TopIs DEF Bottom
  <1>5. host.inst = v
    BY <1>4 DEF Stands, Lent
  <1>6. Below = <<>>
    BY <1>4, FitPop, TopIs DEF Below
  <1>7. ASSUME NEW i PROVE HeldBy(acts, i) = Count(i, <<v>>)
    <2>1. HeldBy(acts, i) = HeldBy(Below, i) + Count(i, Held(Top)) /\ Count(i, Held(Top)) \in Nat
      BY TopPops
    <2>2. HeldBy(Below, i) = 0
      BY <1>6, HeldNone
    <2>3. QED
      BY <1>3, <2>1, <2>2
  <1>8. QED
    BY <1>2, <1>3, <1>5, <1>6, <1>7

\* What a call does when it returns
EndsCall(v, w) ==
    /\ heap' = varClear(Kept(varClear(heap, stack), v), <<v>>)
    /\ Single(varClear(heap, stack), v, w)
    /\ stack' = <<>> /\ acts' = <<>> /\ host'.inst = host.inst /\ host'.refs = host.refs + w

\* The heap after it
LEMMA EndedOwed ==
    ASSUME Inv, NEW n, n = Len(heap), NEW v \in 1..n, NEW w \in 0..1, EndsCall(v, w),
           NEW x, NEW o, Counted(n, heap, stack, acts, host, x, o),
           \A i \in 1..n : HeldBy(acts, i) = One(v, i)
    PROVE  \E e \in [1..n -> Nat] :
              /\ heap' \in Heaps(Classes, n) /\ Owed(n, heap', e, {}, <<>>)
              /\ \A i \in 1..n : e[i] = HostBy(host, i) + x[i] + (IF v = i THEN w ELSE 0)
  <1>1. n \in Nat /\ heap \in Heaps(Classes, n) /\ stack \in Seq(0..n)
    BY NowTypes
  <1>2. PICK g : g = varClear(heap, stack)
    OBVIOUS
  <1>3. heap' = varClear(Kept(g, v), <<v>>) /\ Single(g, v, w)
    BY <1>2 DEF EndsCall
  <1>4. PICK b : b = [i \in 1..n |-> HostBy(host, i) + x[i]]
    OBVIOUS
  <1>5. \A i \in 1..n : HostBy(host, i) \in Nat /\ x[i] \in Nat /\ Count(i, stack) \in Nat
    BY DEF Counted
  <1>6. b \in [1..n -> Nat] /\ \A i \in 1..n : b[i] = HostBy(host, i) + x[i]
    BY <1>4, <1>5
  <1>7. PICK e : e = [i \in 1..n |-> b[i] + (IF v = i THEN w ELSE 0)]
    OBVIOUS
  <1>8. e \in [1..n -> Nat] /\ Gets(n, b, v, w, e)
    BY <1>6, <1>7 DEF Gets
  <1>9. o \in [1..n -> Nat] /\ Owed(n, heap, o, {}, <<>>)
    BY SumNat
  <1>10. ASSUME NEW i \in 1..n PROVE o[i] = b[i] + One(v, i) + Count(i, stack)
    <2>1. o[i] = Count(i, stack) + HeldBy(acts, i) + HostBy(host, i) + x[i]
      BY DEF Counted, Sum
    <2>2. PICK a, c, d, k : a = Count(i, stack) /\ c = One(v, i) /\ d = HostBy(host, i) /\ k = x[i]
      OBVIOUS
    <2>3. a \in Nat /\ c \in Nat /\ d \in Nat /\ k \in Nat
      BY <1>5, <2>2 DEF One
    <2>4. o[i] = a + c + d + k /\ b[i] = d + k
      BY <1>6, <2>1, <2>2
    <2>5. o[i] = b[i] + c + a
      BY <2>3, <2>4
    <2>6. QED
      BY <2>2, <2>5
  <1>11. Ends(n, o, b, v, stack)
    BY <1>10 DEF Ends
  <1>12. /\ varClear(Kept(g, v), <<v>>) \in Heaps(Classes, n)
         /\ Owed(n, varClear(Kept(g, v), <<v>>), e, {}, <<>>)
    BY <1>1, <1>2, <1>3, <1>6, <1>8, <1>9, <1>11, CallEnds
  <1>13. QED
    BY <1>3, <1>6, <1>8, <1>12 DEF Gets

\* It is accounted for.
LEMMA EndedAccounts ==
    ASSUME Inv, Inv', CountInv, flaws' \cap Bad = {}, prog' = prog, flaws' = flaws,
           NEW v \in 1..Len(heap), NEW w \in 0..1, EndsCall(v, w), host.inst = v,
           host.refs + w # 0, \A i \in 1..Len(heap) : HeldBy(acts, i) = One(v, i)
    PROVE  Accounted(heap', stack', acts', host', flaws')
  <1>1. PICK n : n = Len(heap)
    OBVIOUS
  <1>2. n \in Nat
    BY <1>1, NowTypes
  <1>3. PICK x, o : Spare(flaws, n, x) /\ Counted(n, heap, stack, acts, host, x, o)
    BY <1>1, CountsSay
  <1>4. PICK e \in [1..n -> Nat] :
            /\ heap' \in Heaps(Classes, n) /\ Owed(n, heap', e, {}, <<>>)
            /\ \A i \in 1..n : e[i] = HostBy(host, i) + x[i] + (IF v = i THEN w ELSE 0)
    BY <1>1, <1>3, EndedOwed
  <1>5. n = Len(heap')
    BY <1>2, <1>4, HeapTypes
  <1>6. stack' = <<>> /\ acts' = <<>> /\ host'.inst = v /\ host'.refs = host.refs + w
    BY DEF EndsCall
  <1>7. host.refs \in Nat
    BY NowTypes
  <1>8. Stands(stack', acts', host')
    <2>1. host'.refs > 0
      BY <1>6, <1>7
    <2>2. QED
      BY <1>6, <2>1 DEF Stands, Copied, Hosted, Lent
  <1>9. ASSUME NEW i \in 1..n PROVE e[i] = Sum(stack', acts', host', x, i)
    <2>1. Count(i, stack') = 0 /\ HeldBy(acts', i) = 0
      BY <1>6, CountOne, HeldNone
    <2>2. PICK c, d, k : c = HostBy(host, i) /\ d = x[i] /\ k = HostBy(host', i)
      OBVIOUS
    <2>3. c \in Nat /\ d \in Nat
      BY <1>3, <2>2 DEF Counted
    <2>4. k = c + (IF v = i THEN w ELSE 0)
      BY <1>6, <1>7, <2>2 DEF HostBy
    <2>5. Sum(stack', acts', host', x, i) = 0 + 0 + k + d
      BY <2>1, <2>2 DEF Sum
    <2>6. e[i] = c + d + (IF v = i THEN w ELSE 0)
      BY <1>4, <2>2
    <2>7. e[i] = 0 + 0 + k + d
      BY <2>3, <2>4, <2>6
    <2>8. QED
      BY <2>5, <2>7
  <1>10. Spare(flaws', n, x)
    BY <1>3
  <1>11. QED
    BY <1>4, <1>5, <1>8, <1>9, <1>10, AccountBy

\* The return of qinterpCall
LEMMA CallReturnsAccounts ==
    ASSUME Inv, Inv', CountInv, flaws' \cap Bad = {}, CallReturns
    PROVE  Accounted(heap', stack', acts', host', flaws')
  <1>1. acts # <<>> /\ Top.k = "call" /\ prog' = prog /\ stack' = <<>> /\ acts' = Below
    BY DEF CallReturns, classVars
  <1>2. PICK v, g, w : /\ v = Top.inst /\ g = varClear(heap, stack)
                       /\ w = IF Tally(g, v) = 1 THEN 1 ELSE 0
    OBVIOUS
  <1>3. /\ heap' = varClear(Kept(g, v), <<v>>) /\ host' = [host EXCEPT !.refs = host.refs + w]
        /\ flaws' = flaws \cup (IF host.refs + w = 0 THEN {"uncounted"} ELSE {})
    BY <1>2 DEF CallReturns, Kept, Tally
  <1>4. host.refs + w # 0 /\ flaws' = flaws
    BY <1>3 DEF Bad
  <1>5. Stands(stack, acts, host)
    BY <1>4, CountsSay
  <1>6. v \in 1..Len(heap) /\ host.inst = v /\ Below = <<>>
    BY <1>1, <1>2, <1>5, CallTop
  <1>7. \A i : HeldBy(acts, i) = Count(i, <<v>>)
    BY <1>1, <1>2, <1>5, CallTop
  <1>8. host \in [inst : 0..Len(heap), refs : Nat]
    BY NowTypes
  <1>9. EndsCall(v, w)
    BY <1>1, <1>2, <1>3, <1>6, <1>8 DEF EndsCall, Single
  <1>10. w \in 0..1
    BY <1>2
  <1>11. \A i \in 1..Len(heap) : HeldBy(acts, i) = One(v, i)
    BY <1>7, CountOne DEF One
  <1>12. QED
    BY <1>1, <1>4, <1>6, <1>9, <1>10, <1>11, EndedAccounts

-----------------------------------------------------------------------------
(* All references are counted                                              *)

\* The references to an instance, as they are counted
LEMMA ReferencesAre ==
    ASSUME Inv, NEW i
    PROVE  References(i) = Count(i, stack) + HeldBy(acts, i) + InFields(heap, i, {}) + HostBy(host, i)
  <1>1. PICK n : n = Len(heap)
    OBVIOUS
  <1>2. n \in Nat /\ heap \in Heaps(Classes, n)
    BY <1>1, NowTypes
  <1>3. DOMAIN heap = 1..n
    BY <1>2, HeapTypes
  <1>4. /\ \A w \in 1..n : \A k \in 1..Len(heap[w].fields) : <<w, k>> \in FieldsIn(heap)
        /\ \A p \in FieldsIn(heap) : /\ p[1] \in 1..n /\ p[2] \in 1..Len(heap[p[1]].fields)
                                     /\ p = <<p[1], p[2]>>
        /\ \A w \in 1..n : DOMAIN heap[w].fields = 1..Len(heap[w].fields)
    BY <1>2, PlaceIs
  <1>5. PICK U : U = UNION {{w} \X At(i, heap[w].fields) : w \in DOMAIN heap}
    OBVIOUS
  <1>6. U = FieldPlaces(heap, i, {})
    <2>1. ASSUME NEW p \in U PROVE p \in FieldPlaces(heap, i, {})
      <3>1. PICK w \in 1..n : p \in {w} \X At(i, heap[w].fields)
        BY <1>3, <1>5, <2>1
      <3>2. p = <<w, p[2]>> /\ p[1] = w /\ p[2] \in At(i, heap[w].fields)
        BY <3>1
      <3>3. p[2] \in 1..Len(heap[w].fields) /\ heap[w].fields[p[2]] = i
        BY <1>4, <3>2 DEF At
      <3>4. p \in FieldsIn(heap)
        BY <1>4, <3>2, <3>3
      <3>5. QED
        BY <3>2, <3>3, <3>4 DEF FieldPlaces
    <2>2. ASSUME NEW p \in FieldPlaces(heap, i, {}) PROVE p \in U
      <3>1. p \in FieldsIn(heap) /\ heap[p[1]].fields[p[2]] = i
        BY <2>2 DEF FieldPlaces
      <3>2. /\ p[1] \in 1..n /\ p[2] \in 1..Len(heap[p[1]].fields) /\ p = <<p[1], p[2]>>
        BY <1>4, <3>1
      <3>3. p[2] \in At(i, heap[p[1]].fields)
        BY <1>4, <3>1, <3>2 DEF At
      <3>4. p \in {p[1]} \X At(i, heap[p[1]].fields)
        BY <3>2, <3>3
      <3>5. QED
        BY <1>3, <1>5, <3>2, <3>4
    <2>3. QED
      BY <2>1, <2>2
  <1>7. Cardinality(U) = InFields(heap, i, {})
    BY <1>6 DEF InFields
  <1>8. QED
    BY <1>5, <1>7 DEF References, HeldBy, HeldPlaces, Hand, HostBy

\* What the invariant says of them
LEMMA CountsMean ==
    ASSUME Inv, CountInv, flaws \cap Bad = {}, NEW i \in DOMAIN heap
    PROVE  /\ IF heap[i].live THEN heap[i].refcount >= References(i) ELSE References(i) = 0
           /\ flaws = {} /\ heap[i].live => heap[i].refcount <= References(i) /\ heap[i].refcount > 0
  <1>1. PICK n : n = Len(heap)
    OBVIOUS
  <1>2. n \in Nat /\ heap \in Heaps(Classes, n) /\ i \in 1..n
    <2>1. n \in Nat /\ heap \in Heaps(Classes, n)
      BY <1>1, NowTypes
    <2>2. DOMAIN heap = 1..n
      BY <2>1, HeapTypes
    <2>3. QED
      BY <2>1, <2>2
  <1>3. PICK x, o : Spare(flaws, n, x) /\ Counted(n, heap, stack, acts, host, x, o)
    BY <1>1, CountsSay
  <1>4. /\ o \in [1..n -> Nat] /\ Owed(n, heap, o, {}, <<>>)
        /\ Count(i, stack) \in Nat /\ HeldBy(acts, i) \in Nat /\ HostBy(host, i) \in Nat /\ x[i] \in Nat
        /\ o[i] = Count(i, stack) + HeldBy(acts, i) + HostBy(host, i) + x[i]
    BY <1>2, <1>3 DEF Counted, Sum
  <1>5. flaws = {} => x[i] = 0
    BY <1>2, <1>3 DEF Spare
  <1>6. InFields(heap, i, {}) \in Nat
    BY <1>2, FieldCount
  <1>7. Count(i, <<>>) = 0
    BY CountOne
  <1>8. PICK a, b, c, d, e : /\ a = Count(i, stack) /\ b = HeldBy(acts, i) /\ c = HostBy(host, i)
                             /\ d = x[i] /\ e = InFields(heap, i, {})
    OBVIOUS
  <1>9. a \in Nat /\ b \in Nat /\ c \in Nat /\ d \in Nat /\ e \in Nat /\ (flaws = {} => d = 0)
    BY <1>4, <1>5, <1>6, <1>8
  <1>10. PICK s, t : s = References(i) /\ t = Total(heap, o, {}, <<>>, i)
    OBVIOUS
  <1>11. s = a + b + e + c
    BY <1>8, <1>10, ReferencesAre
  <1>12. t = (a + b + c + d) + 0 + e
    BY <1>4, <1>7, <1>8, <1>10 DEF Total
  <1>13. t >= s /\ (flaws = {} => t = s) /\ (t = 0 => s = 0)
    BY <1>9, <1>11, <1>12
  <1>14. CASE Alive(heap, i)
    <2>1. Tally(heap, i) = t /\ Tally(heap, i) > 0
      BY <1>2, <1>4, <1>10, <1>14 DEF Owed
    <2>2. heap[i].refcount = t /\ t > 0 /\ t \in Nat /\ s \in Nat
      BY <1>9, <1>11, <1>12, <2>1 DEF Tally
    <2>3. heap[i].live
      BY <1>14 DEF Alive
    <2>4. heap[i].refcount >= s /\ (flaws = {} => heap[i].refcount <= s /\ heap[i].refcount > 0)
      BY <1>13, <2>2
    <2>5. QED
      BY <1>10, <2>3, <2>4
  <1>15. CASE ~Alive(heap, i)
    <2>1. t = 0
      BY <1>2, <1>4, <1>10, <1>15 DEF Owed
    <2>2. s = 0
      BY <1>13, <2>1
    <2>3. ~heap[i].live
      BY <1>15 DEF Alive
    <2>4. QED
      BY <1>10, <2>2, <2>3
  <1>16. QED
    BY <1>14, <1>15

\* No instance is made at first
LEMMA InitCounts ==
    ASSUME Init
    PROVE  CountInv
  <1>1. heap = <<>> /\ stack = <<>> /\ acts = <<>> /\ host.inst = Plain /\ flaws = {}
    BY DEF Init
  <1>2. PICK n : n = Len(heap)
    OBVIOUS
  <1>3. n = 0
    BY <1>1, <1>2
  <1>4. Stands(stack, acts, host)
    BY <1>1 DEF Stands, Copied, Hosted, Lent
  <1>5. PICK x : x = [i \in 1..n |-> 0]
    OBVIOUS
  <1>6. Spare(flaws, n, x)
    BY <1>3, <1>5 DEF Spare
  <1>7. 1..n = {}
    BY <1>3
  <1>8. Owed(n, heap, Roots(n, stack, acts, host, x), {}, <<>>)
    BY <1>7 DEF Owed
  <1>9. QED
    BY <1>2, <1>4, <1>6, <1>8 DEF CountInv, Accounted, Counts

\* Every step of a method keeps the counts
LEMMA StepCounts ==
    ASSUME Inv, Inv', CountInv, flaws' \cap Bad = {}, Step
    PROVE  Accounted(heap', stack', acts', host', flaws')
  <1>1. CASE \E o \in 1..Len(Top.locals), sig \in Sigs, args \in Operands :
                Len(args) = sig[2] /\ Call(o, sig, args)
    BY <1>1, CallAccounts
  <1>2. CASE \E sig \in Sigs, args \in Operands : Len(args) = sig[2] /\ callBaseMethod(sig, args)
    BY <1>2, BaseCallAccounts
  <1>3. CASE \E o \in Vars : StoreLocal(o) \/ LoadLocal(o)
    BY <1>3, StoreLocalAccounts, LoadsAccount
  <1>4. CASE \E f \in 1..2 : StoreField(f) \/ LoadField(f) \/ OP_DEREF(f)
    BY <1>4, StoreFieldAccounts, LoadsAccount, DerefAccounts
  <1>5. CASE \E c \in Classes \cup {"Unknown"}, args \in Operands : OP_NEW(c, args)
    BY <1>5, NewAccounts
  <1>6. CASE Return \/ Throw
    BY <1>6, LeavingAccounts
  <1>7. QED
    BY <1>1, <1>2, <1>3, <1>4, <1>5, <1>6 DEF Step

\* Every step keeps the counts
LEMMA CountNext ==
    ASSUME Inv, CountInv, [Next]_vars
    PROVE  CountInv'
  <1>1. Inv'
    BY NextInv
  <1>2. SUFFICES ASSUME flaws' \cap Bad = {}
                 PROVE  Accounted(heap', stack', acts', host', flaws')
    BY DEF CountInv, Bad
  <1>3. CASE qinterpPrepare \/ Resume \/ MakeFails \/ UNCHANGED vars
    <2>1. heap' = heap /\ stack' = stack /\ acts' = acts /\ host' = host /\ flaws' = flaws
      BY <1>3 DEF qinterpPrepare, Resume, MakeFails, history, vars
    <2>2. QED
      BY <1>2, <2>1, CountsStay
  <1>4. CASE Running /\ Step
    BY <1>1, <1>2, <1>4, StepCounts
  <1>5. CASE Unwind
    BY <1>1, <1>2, <1>5, LeavingAccounts
  <1>6. CASE Calls
    BY <1>1, <1>2, <1>6, InternalAccounts, ConstructBaseAccounts, ConstructSelfAccounts,
       ConstructReturnsAccounts DEF Calls
  <1>7. CASE Host
    BY <1>1, <1>2, <1>3, <1>7, RunAccounts, RunReturnsAccounts, CreateAccounts,
       HostConstructsAccounts, HostConstructedAccounts, HostCallAccounts, CallReturnsAccounts
       DEF Host
  <1>8. QED
    BY <1>3, <1>4, <1>5, <1>6, <1>7 DEF Next

\* Unless one of the three ways to lose an instance was taken, the count of every
\* instance is the number of its operands, the locals and constructors that hold
\* it, the host's references, the fields of living instances, and of the
\* references that were lost; and the operands of a constructor are those that
\* its frame copied (jsinstRef, jsinstDeref, varAssign and varClear).
THEOREM CountsBalance == Spec => []CountInv
  <1>1. Init => Inv /\ CountInv
    BY InitInv, InitCounts
  <1>2. (Inv /\ CountInv) /\ [Next]_vars => (Inv /\ CountInv)'
    BY NextInv, CountNext
  <1>3. QED
    BY <1>1, <1>2, PTL DEF Spec

\* No instance is destroyed while a variable, a field, an operand, a constructor
\* in the middle of a call or the host refers to it, whatever the calls, the
\* exceptions and the programs, unless one of the three ways to lose it was taken
\* (jsinstRef and jsinstDeref).
THEOREM ReferencesLive == Spec => []NothingDangles
  <1>1. Inv /\ CountInv => NothingDangles
    <2>1. SUFFICES ASSUME Inv, CountInv, flaws \cap Bad = {}
                   PROVE  /\ \A i \in DOMAIN heap :
                                IF heap[i].live THEN heap[i].refcount >= References(i)
                                                ELSE References(i) = 0
                          /\ host.inst # Plain => heap[host.inst].live
      BY DEF NothingDangles, Bad
    <2>2. ASSUME NEW i \in DOMAIN heap
          PROVE  IF heap[i].live THEN heap[i].refcount >= References(i) ELSE References(i) = 0
      BY <2>1, CountsMean
    <2>3. ASSUME host.inst # Plain PROVE heap[host.inst].live
      BY <2>1, <2>3, HostLives DEF Alive
    <2>4. QED
      BY <2>2, <2>3
  <1>2. QED
    BY <1>1, InitInv, InitCounts, NextInv, CountNext, PTL DEF Spec

\* No instance is kept that nothing refers to, after every exception and error
\* but the ones where a method is unknown or an internal constructor fails
\* (jsinstDeref and the paths of qinterpFunCall that return an error).
THEOREM GarbageIsFreed == Spec => []NothingLeaks
  <1>1. Inv /\ CountInv => NothingLeaks
    <2>1. SUFFICES ASSUME Inv, CountInv, flaws = {}, NEW i \in DOMAIN heap, heap[i].live
                   PROVE  heap[i].refcount <= References(i) /\ heap[i].refcount > 0
      BY DEF NothingLeaks
    <2>2. flaws \cap Bad = {}
      BY <2>1
    <2>3. QED
      BY <2>1, <2>2, CountsMean
  <1>2. QED
    BY <1>1, InitInv, InitCounts, NextInv, CountNext, PTL DEF Spec
=============================================================================
