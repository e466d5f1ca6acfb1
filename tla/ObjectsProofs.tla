--------------------------- MODULE ObjectsProofs ---------------------------
(***************************************************************************)
(* Proofs about module Objects, for any programs, any number of instances, *)
(* activations, operands and calls from the host.                          *)
(***************************************************************************)
EXTENDS Objects, Counting

-----------------------------------------------------------------------------
(* The classes of a program                                                *)

\* A class has one declaration
LEMMA DeclIs ==
    ASSUME NEW p \in Programs, NEW k \in DOMAIN p
    PROVE  /\ p[k].name \in ClassesOf(p) /\ DeclOf(p, p[k].name) = p[k]
           /\ (CHOOSE j \in DOMAIN p : p[j].name = p[k].name) = k
  <1>1. \A j \in DOMAIN p : p[j].name = p[k].name => j = k
    BY ProgramsAssumption
  <1>2. (CHOOSE j \in DOMAIN p : p[j].name = p[k].name) = k
    BY <1>1
  <1>3. QED
    BY <1>2 DEF ClassesOf, DeclOf

\* Every class has one, and a place
LEMMA ClassIs ==
    ASSUME NEW p \in Programs, NEW c \in ClassesOf(p)
    PROVE  \E k \in DOMAIN p : p[k].name = c /\ DeclOf(p, c) = p[k]
                               /\ (CHOOSE j \in DOMAIN p : p[j].name = c) = k
  BY DeclIs DEF ClassesOf

\* The names, bases and methods of classes
LEMMA DeclTypes ==
    ASSUME NEW p \in Programs
    PROVE  /\ Len(p) \in Nat /\ DOMAIN p = 1..Len(p)
           /\ None \notin ClassesOf(p)
           /\ \A c \in ClassesOf(p) : /\ c \in STRING /\ DeclOf(p, c).nfields \in Nat
                                      /\ DeclOf(p, c).base \in STRING
                                      /\ DeclOf(p, c).methods \in SUBSET (STRING \X Nat)
  <1> DEFINE S == [name : STRING \ {None}, base : STRING, nfields : Nat,
                   methods : SUBSET (STRING \X Nat)]
  <1>1. p \in Seq(S)
    BY ProgramsAssumption
  <1>2. Len(p) \in Nat /\ DOMAIN p = 1..Len(p) /\ \A k \in DOMAIN p : p[k] \in S
    <2> HIDE DEF S
    <2>1. QED
      BY <1>1
  <1>3. \A k \in DOMAIN p : /\ p[k].name \in STRING \ {None} /\ p[k].base \in STRING
                            /\ p[k].nfields \in Nat /\ p[k].methods \in SUBSET (STRING \X Nat)
    BY <1>2
  <1>4. None \notin ClassesOf(p)
    BY <1>3 DEF ClassesOf
  <1>5. ASSUME NEW c \in ClassesOf(p)
        PROVE  /\ c \in STRING /\ DeclOf(p, c).nfields \in Nat /\ DeclOf(p, c).base \in STRING
               /\ DeclOf(p, c).methods \in SUBSET (STRING \X Nat)
    <2>1. PICK k \in DOMAIN p : p[k].name = c /\ DeclOf(p, c) = p[k]
      BY ClassIs
    <2>2. QED
      BY <1>3, <2>1
  <1>6. QED
    BY <1>2, <1>4, <1>5

\* A stage of the definition of Chains for every number up to n
LEMMA StagesExist ==
    ASSUME NEW p \in Programs, NEW n \in Nat
    PROVE  \E t : t = [k \in 0..n |->
                       [c \in ClassesOf(p) |->
                           IF k = 0 THEN <<>>
                           ELSE IF DeclOf(p, c).base \in ClassesOf(p)
                           THEN <<c>> \o t[k - 1][DeclOf(p, c).base]
                           ELSE <<c>>]]
  <1> DEFINE F(f, k) == [c \in ClassesOf(p) |->
                           IF k = 0 THEN <<>>
                           ELSE IF DeclOf(p, c).base \in ClassesOf(p)
                           THEN <<c>> \o f[k - 1][DeclOf(p, c).base]
                           ELSE <<c>>]
             S == {m \in Nat : \E t : t = [k \in 0..m |-> F(t, k)]}
  <1>1. 0 \in S
    <2> DEFINE t == [k \in 0..0 |-> [c \in ClassesOf(p) |-> <<>>]]
    <2>1. \A k \in 0..0 : F(t, k) = [c \in ClassesOf(p) |-> <<>>]
      OBVIOUS
    <2>2. t = [k \in 0..0 |-> F(t, k)]
      <3> HIDE DEF F
      <3>1. QED
        BY <2>1
    <2> HIDE DEF t, F
    <2>3. QED
      BY <2>2
  <1>2. ASSUME NEW m \in S PROVE m + 1 \in S
    <2> HIDE DEF F
    <2>1. PICK f : f = [k \in 0..m |-> F(f, k)]
      OBVIOUS
    <2> DEFINE g == [k \in 0..(m + 1) |-> IF k = m + 1 THEN F(f, k) ELSE f[k]]
    <2>2. \A k \in 0..(m + 1) : g[k] = F(g, k)
      <3> TAKE k \in 0..(m + 1)
      <3>0. m \in Nat
        OBVIOUS
      <3>1. F(g, k) = F(f, k)
        <4>1. CASE k = 0
          BY <4>1 DEF F
        <4>2. CASE k # 0
          <5>1. k - 1 \in 0..(m + 1) /\ k - 1 # m + 1
            BY <3>0, <4>2
          <5>2. g[k - 1] = f[k - 1]
            BY <5>1
          <5> HIDE DEF g
          <5>3. QED
            BY <5>2 DEF F
        <4>3. QED
          BY <4>1, <4>2
      <3>2. CASE k = m + 1
        BY <3>1, <3>2
      <3>3. CASE k # m + 1
        <4>1. k \in 0..m
          BY <3>0, <3>3
        <4>2. g[k] = f[k] /\ f[k] = F(f, k)
          BY <2>1, <3>3, <4>1
        <4>3. QED
          BY <3>1, <4>2
      <3>4. QED
        BY <3>2, <3>3
    <2>3. g = [k \in 0..(m + 1) |-> F(g, k)]
      BY <2>2
    <2>4. m + 1 \in Nat
      OBVIOUS
    <2> HIDE DEF g
    <2>5. QED
      BY <2>3, <2>4
  <1>3. S = Nat
    <2> HIDE DEF S
    <2>1. S \in SUBSET Nat
      BY DEF S
    <2>2. QED
      BY <1>1, <1>2, <2>1, Induction
  <1>4. QED
    BY <1>3

\* What holds for a class when it holds for its base class holds for every class
LEMMA ByRank ==
    ASSUME NEW p \in Programs, NEW S \in SUBSET ClassesOf(p),
           \A c \in ClassesOf(p) :
              (DeclOf(p, c).base \in ClassesOf(p) => DeclOf(p, c).base \in S) => c \in S
    PROVE  S = ClassesOf(p)
  <1>1. PICK rank \in [ClassesOf(p) -> 0..(Len(p) - 1)] :
            \A k \in DOMAIN p :
               p[k].base \in ClassesOf(p) => rank[p[k].base] < rank[p[k].name]
    BY ProgramsAssumption
  <1>2. Len(p) \in Nat
    BY DeclTypes
  <1>3. \A c \in ClassesOf(p) : rank[c] \in Nat
    BY <1>1, <1>2
  <1>4. ASSUME NEW c \in ClassesOf(p), DeclOf(p, c).base \in ClassesOf(p)
        PROVE  rank[DeclOf(p, c).base] < rank[c]
    BY <1>1, <1>4, ClassIs
  <1> DEFINE T == {n \in Nat : \A c \in ClassesOf(p) : rank[c] <= n => c \in S}
  <1>5. 0 \in T
    <2>1. SUFFICES ASSUME NEW c \in ClassesOf(p), rank[c] <= 0 PROVE c \in S
      OBVIOUS
    <2>2. DeclOf(p, c).base \notin ClassesOf(p)
      BY <1>3, <1>4, <2>1
    <2>3. QED
      BY <2>2
  <1>6. ASSUME NEW n \in T PROVE n + 1 \in T
    <2>1. SUFFICES ASSUME NEW c \in ClassesOf(p), rank[c] <= n + 1 PROVE c \in S
      OBVIOUS
    <2>2. ASSUME DeclOf(p, c).base \in ClassesOf(p) PROVE DeclOf(p, c).base \in S
      <3>1. rank[DeclOf(p, c).base] < rank[c] /\ rank[DeclOf(p, c).base] \in Nat /\ rank[c] \in Nat
        BY <1>3, <1>4, <2>2
      <3>2. n \in Nat
        OBVIOUS
      <3>3. rank[DeclOf(p, c).base] <= n
        BY <2>1, <3>1, <3>2
      <3>4. QED
        BY <2>2, <3>3
    <2>3. QED
      BY <2>2
  <1>7. T = Nat
    <2>1. T \in SUBSET Nat
      OBVIOUS
    <2> HIDE DEF T
    <2>2. QED
      BY <1>5, <1>6, <2>1, Induction
  <1>8. ASSUME NEW c \in ClassesOf(p) PROVE c \in S
    <2>1. rank[c] \in T /\ rank[c] <= rank[c]
      BY <1>3, <1>7
    <2>2. QED
      BY <2>1
  <1>9. QED
    BY <1>8

\* The classes from one to its root are itself and those from its base class
LEMMA ChainRec ==
    ASSUME NEW p \in Programs, NEW c \in ClassesOf(p)
    PROVE  Chains[p][c] = IF DeclOf(p, c).base \in ClassesOf(p)
                          THEN <<c>> \o Chains[p][DeclOf(p, c).base] ELSE <<c>>
  <1> DEFINE N == Len(p)
             Cl == ClassesOf(p)
             F(f, k) == [x \in Cl |->
                           IF k = 0 THEN <<>>
                           ELSE IF DeclOf(p, x).base \in Cl
                           THEN <<x>> \o f[k - 1][DeclOf(p, x).base]
                           ELSE <<x>>]
             t == CHOOSE f : f = [k \in 0..N |-> F(f, k)]
  <1>1. N \in Nat
    BY DeclTypes
  <1>2. \E f : f = [k \in 0..N |-> F(f, k)]
    BY <1>1, StagesExist
  <1>3. t = [k \in 0..N |-> F(t, k)]
    <2> HIDE DEF F
    <2>1. QED
      BY <1>2
  <1>4. Chains[p] = t[N]
    BY DEF Chains
  <1> HIDE DEF t
  <1>5. \A k \in 0..N : t[k] = F(t, k)
    <2> HIDE DEF F
    <2>1. QED
      BY <1>3
  <1>6. ASSUME NEW k \in 1..N, NEW x \in Cl
        PROVE  t[k][x] = IF DeclOf(p, x).base \in Cl THEN <<x>> \o t[k - 1][DeclOf(p, x).base]
                         ELSE <<x>>
    <2>1. k \in 0..N /\ k # 0
      BY <1>1
    <2>2. t[k] = F(t, k)
      BY <1>5, <2>1
    <2>3. QED
      BY <2>1, <2>2
  <1> HIDE DEF F
  <1>7. PICK rank \in [Cl -> 0..(N - 1)] :
            \A k \in DOMAIN p : p[k].base \in Cl => rank[p[k].base] < rank[p[k].name]
    BY ProgramsAssumption
  <1>8. \A x \in Cl : rank[x] \in Nat /\ rank[x] <= N - 1
    BY <1>1, <1>7
  <1>9. ASSUME NEW x \in Cl, DeclOf(p, x).base \in Cl
        PROVE  rank[DeclOf(p, x).base] < rank[x]
    BY <1>7, <1>9, ClassIs
  <1> DEFINE S == {x \in Cl : \A j, k \in (rank[x] + 1)..N : t[j][x] = t[k][x]}
  <1>10. S = Cl
    <2>1. S \in SUBSET ClassesOf(p)
      OBVIOUS
    <2>2. ASSUME NEW x \in ClassesOf(p), DeclOf(p, x).base \in Cl => DeclOf(p, x).base \in S
          PROVE  x \in S
      <3>1. SUFFICES ASSUME NEW j \in (rank[x] + 1)..N, NEW k \in (rank[x] + 1)..N
                     PROVE  t[j][x] = t[k][x]
        OBVIOUS
      <3>2. rank[x] \in Nat
        BY <1>8
      <3>3. j \in 1..N /\ k \in 1..N /\ j - 1 >= rank[x] /\ k - 1 >= rank[x] /\ j - 1 \in 0..N /\ k - 1 \in 0..N
        BY <1>1, <3>1, <3>2
      <3>4. CASE DeclOf(p, x).base \notin Cl
        BY <1>6, <3>3, <3>4
      <3>5. CASE DeclOf(p, x).base \in Cl
        <4> DEFINE b == DeclOf(p, x).base
        <4>1. b \in S /\ rank[b] \in Nat /\ rank[b] < rank[x]
          BY <1>8, <1>9, <2>2, <3>5
        <4>2. j - 1 \in (rank[b] + 1)..N /\ k - 1 \in (rank[b] + 1)..N
          BY <1>1, <3>2, <3>3, <4>1
        <4>3. t[j - 1][b] = t[k - 1][b]
          BY <4>1, <4>2
        <4>4. QED
          BY <1>6, <3>3, <3>5, <4>3
      <3>6. QED
        BY <3>4, <3>5
    <2> HIDE DEF S
    <2>3. QED
      BY <2>1, <2>2, ByRank
  <1>11. rank[c] \in Nat /\ rank[c] <= N - 1
    BY <1>8
  <1>12. N \in 1..N
    BY <1>1, <1>11
  <1>13. CASE DeclOf(p, c).base \notin Cl
    BY <1>4, <1>6, <1>12, <1>13
  <1>14. CASE DeclOf(p, c).base \in Cl
    <2> DEFINE b == DeclOf(p, c).base
    <2>1. rank[b] \in Nat /\ rank[b] < rank[c] /\ b \in S
      BY <1>8, <1>9, <1>10, <1>14
    <2>2. N \in (rank[b] + 1)..N /\ N - 1 \in (rank[b] + 1)..N
      BY <1>1, <1>11, <2>1
    <2>3. t[N][b] = t[N - 1][b]
      BY <2>1, <2>2
    <2>4. QED
      BY <1>4, <1>6, <1>12, <1>14, <2>3
  <1>15. QED
    BY <1>13, <1>14

\* A list with one more value before it
LEMMA Prepend ==
    ASSUME NEW S, NEW x \in S, NEW s \in Seq(S)
    PROVE  /\ <<x>> \o s \in Seq(S) /\ Len(s) \in Nat /\ Len(<<x>> \o s) = Len(s) + 1
           /\ (<<x>> \o s)[1] = x /\ \A k \in 1..Len(s) : (<<x>> \o s)[k + 1] = s[k]
           /\ <<x>> \in Seq(S) /\ Len(<<x>>) = 1 /\ <<x>>[1] = x
  <1>1. <<x>> \in Seq(S) /\ Len(<<x>>) = 1 /\ <<x>>[1] = x
    OBVIOUS
  <1>2. Len(s) \in Nat
    OBVIOUS
  <1> DEFINE u == <<x>>
  <1> HIDE DEF u
  <1>3. u \in Seq(S) /\ Len(u) = 1 /\ u[1] = x
    BY <1>1 DEF u
  <1>4. /\ u \o s \in Seq(S) /\ Len(u \o s) = Len(s) + 1 /\ (u \o s)[1] = x
        /\ \A k \in 1..Len(s) : (u \o s)[k + 1] = s[k]
    <2>1. u \o s \in Seq(S) /\ Len(u \o s) = Len(s) + 1
      BY <1>3, ConcatProperties
    <2>2. \A k \in 1..(Len(u) + Len(s)) :
             (u \o s)[k] = IF k <= Len(u) THEN u[k] ELSE s[k - Len(u)]
      BY <1>3, ConcatProperties
    <2>3. QED
      BY <1>2, <1>3, <2>1, <2>2
  <1>5. QED
    BY <1>1, <1>2, <1>4, Zenon DEF u

\* What the list of classes is
LEMMA ChainTypes ==
    ASSUME NEW p \in Programs, NEW c \in ClassesOf(p)
    PROVE  /\ Chains[p][c] \in Seq(ClassesOf(p)) /\ Len(Chains[p][c]) >= 1
           /\ Chains[p][c][1] = c
  <1> DEFINE S == {x \in ClassesOf(p) : Chains[p][x] \in Seq(ClassesOf(p))}
  <1>1. ASSUME NEW x \in ClassesOf(p),
               DeclOf(p, x).base \in ClassesOf(p) => DeclOf(p, x).base \in S
        PROVE  x \in S
    <2>1. CASE DeclOf(p, x).base \in ClassesOf(p)
      <3> DEFINE q == Chains[p][DeclOf(p, x).base]
      <3>1. Chains[p][x] = <<x>> \o q
        BY <2>1, ChainRec
      <3>2. q \in Seq(ClassesOf(p))
        BY <1>1, <2>1
      <3> HIDE DEF q
      <3>3. <<x>> \o q \in Seq(ClassesOf(p))
        BY <3>2, Prepend
      <3>4. QED
        BY <3>1, <3>3
    <2>2. CASE DeclOf(p, x).base \notin ClassesOf(p)
      <3>1. Chains[p][x] = <<x>>
        BY <2>2, ChainRec
      <3>2. <<x>> \in Seq(ClassesOf(p))
        OBVIOUS
      <3>3. QED
        BY <3>1, <3>2
    <2>3. QED
      BY <2>1, <2>2
  <1>2. S = ClassesOf(p)
    <2>1. S \in SUBSET ClassesOf(p)
      OBVIOUS
    <2> HIDE DEF S
    <2>2. QED
      BY <1>1, <2>1, ByRank
  <1>3. CASE DeclOf(p, c).base \in ClassesOf(p)
    <2>1. Chains[p][DeclOf(p, c).base] \in Seq(ClassesOf(p))
      BY <1>2, <1>3
    <2>2. Chains[p][c] = <<c>> \o Chains[p][DeclOf(p, c).base]
      BY <1>3, ChainRec
    <2> DEFINE q == Chains[p][DeclOf(p, c).base]
    <2>3. q \in Seq(ClassesOf(p)) /\ Chains[p][c] = <<c>> \o q
      BY <2>1, <2>2
    <2> HIDE DEF q
    <2>4. <<c>> \o q \in Seq(ClassesOf(p)) /\ Len(<<c>> \o q) = Len(q) + 1 /\ (<<c>> \o q)[1] = c /\ Len(q) \in Nat
      BY <2>3, Prepend
    <2>5. QED
      BY <2>3, <2>4
  <1>4. CASE DeclOf(p, c).base \notin ClassesOf(p)
    <2>1. Chains[p][c] = <<c>>
      BY <1>4, ChainRec
    <2>2. QED
      BY <2>1
  <1>5. QED
    BY <1>3, <1>4

\* No class is its own base class
LEMMA BaseDiffers ==
    ASSUME NEW p \in Programs, NEW c \in ClassesOf(p)
    PROVE  DeclOf(p, c).base # c
  <1> DEFINE S == {x \in ClassesOf(p) : DeclOf(p, x).base # x}
  <1>1. S \in SUBSET ClassesOf(p)
    OBVIOUS
  <1>2. PICK rank \in [ClassesOf(p) -> 0..(Len(p) - 1)] :
            \A k \in DOMAIN p :
               p[k].base \in ClassesOf(p) => rank[p[k].base] < rank[p[k].name]
    BY ProgramsAssumption
  <1>3. PICK k \in DOMAIN p : p[k].name = c /\ DeclOf(p, c) = p[k]
    BY ClassIs
  <1>4. Len(p) \in Nat
    BY DeclTypes
  <1>5. rank[c] \in Int
    BY <1>2, <1>4
  <1>6. QED
    BY <1>2, <1>3, <1>5

\* The least number of a set
LEMMA MinIs ==
    ASSUME NEW S \in SUBSET Nat, NEW m \in S, \A j \in S : m <= j
    PROVE  Min(S) = m
  <1>1. \A x \in S : (\A j \in S : x <= j) => x = m
    <2> TAKE x \in S
    <2>1. HAVE \A j \in S : x <= j
    <2>2. x <= m /\ m <= x /\ x \in Nat /\ m \in Nat
      BY <2>1
    <2>3. QED
      BY <2>2
  <1>2. QED
    BY <1>1 DEF Min

\* A set of numbers that is not empty has one
LEMMA MinOf ==
    ASSUME NEW S \in SUBSET Nat, S # {}
    PROVE  Min(S) \in S /\ \A j \in S : Min(S) <= j
  <1>1. PICK m \in S : \A j \in S : m <= j
    BY Least
  <1>2. Min(S) = m
    BY <1>1, MinIs
  <1>3. QED
    BY <1>1, <1>2

-----------------------------------------------------------------------------
(* The nearest class that declares a method                                *)

\* The places of classes in their program
LEMMA Places ==
    ASSUME prog \in Programs
    PROVE  /\ \A c \in Classes : /\ Place(c) \in 1..Len(prog) /\ prog[Place(c)].name = c
                                 /\ Decl(c) = prog[Place(c)]
           /\ \A k \in 1..Len(prog) : /\ prog[k].name \in Classes
                                      /\ Place(prog[k].name) = k /\ Decl(prog[k].name) = prog[k]
  <1>1. DOMAIN prog = 1..Len(prog)
    BY DeclTypes
  <1>2. ASSUME NEW k \in 1..Len(prog)
        PROVE  prog[k].name \in Classes /\ Place(prog[k].name) = k /\ Decl(prog[k].name) = prog[k]
    BY <1>1, DeclIs DEF Classes, Place, Decl
  <1>3. ASSUME NEW c \in Classes
        PROVE  Place(c) \in 1..Len(prog) /\ prog[Place(c)].name = c /\ Decl(c) = prog[Place(c)]
    <2>1. PICK k \in DOMAIN prog : prog[k].name = c
      BY DEF Classes, ClassesOf
    <2>2. QED
      BY <1>1, <1>2, <2>1
  <1>4. QED
    BY <1>2, <1>3

\* The same for the base class, and what the list of classes from c is
LEMMA Above ==
    ASSUME prog \in Programs, NEW c \in Classes
    PROVE  /\ Chain(c) \in Seq(Classes) /\ Len(Chain(c)) \in Nat /\ Len(Chain(c)) >= 1
           /\ Chain(c)[1] = c
           /\ Decl(c).base \notin Classes => Len(Chain(c)) = 1
           /\ Decl(c).base \in Classes =>
                 /\ Len(Chain(c)) = Len(Chain(Decl(c).base)) + 1
                 /\ \A k \in 1..Len(Chain(Decl(c).base)) :
                       Chain(c)[k + 1] = Chain(Decl(c).base)[k]
                 /\ Decl(c).base # c /\ Place(Decl(c).base) # Place(c)
  <1> USE DEF Classes, Decl, Chain
  <1>1. Chain(c) \in Seq(Classes) /\ Len(Chain(c)) >= 1 /\ Chain(c)[1] = c
    BY ChainTypes
  <1>2. Len(Chain(c)) \in Nat
    <2> DEFINE q == Chain(c)
    <2>1. q \in Seq(Classes)
      BY <1>1
    <2> HIDE DEF q
    <2>2. Len(q) \in Nat
      BY <2>1
    <2>3. QED
      BY <2>2 DEF q
  <1>3. ASSUME Decl(c).base \notin Classes PROVE Len(Chain(c)) = 1
    <2>1. Chain(c) = <<c>>
      BY <1>3, ChainRec
    <2>2. QED
      BY <2>1
  <1>4. ASSUME Decl(c).base \in Classes
        PROVE  /\ Len(Chain(c)) = Len(Chain(Decl(c).base)) + 1
               /\ \A k \in 1..Len(Chain(Decl(c).base)) :
                     Chain(c)[k + 1] = Chain(Decl(c).base)[k]
               /\ Decl(c).base # c /\ Place(Decl(c).base) # Place(c)
    <2> DEFINE b == Decl(c).base
               q == Chain(b)
    <2>1. Chain(c) = <<c>> \o q
      BY <1>4, ChainRec
    <2>2. q \in Seq(Classes)
      BY <1>4, ChainTypes
    <2>3. b # c
      BY BaseDiffers
    <2>4. prog[Place(b)].name = b /\ prog[Place(c)].name = c
      BY <1>4, Places
    <2> HIDE DEF q
    <2>5. Len(<<c>> \o q) = Len(q) + 1 /\ \A k \in 1..Len(q) : (<<c>> \o q)[k + 1] = q[k]
      BY <2>2, Prepend
    <2>6. QED
      BY <2>1, <2>3, <2>4, <2>5 DEF q
  <1>5. QED
    BY <1>1, <1>2, <1>3, <1>4

\* A class sees itself alone, or itself and its base class, or itself and all
\* that its base class sees.
LEMMA SeenRec ==
    ASSUME prog \in Programs, NEW c \in Classes
    PROVE  /\ Decl(c).base \notin Classes => Seen(c) = {1}
           /\ Decl(c).base \in Classes /\ Place(Decl(c).base) > Place(c) => Seen(c) = {1, 2}
           /\ Decl(c).base \in Classes /\ Place(Decl(c).base) < Place(c) =>
                 Seen(c) = {1} \cup {k + 1 : k \in Seen(Decl(c).base)}
           /\ Seen(c) \in SUBSET (1..Len(Chain(c))) /\ 1 \in Seen(c)
  <1> DEFINE b == Decl(c).base
             n == Len(Chain(c))
             m == Len(Chain(b))
  <1>1. n \in Nat /\ n >= 1 /\ Chain(c)[1] = c /\ DOMAIN Chain(c) = 1..n
    <2>1. Chain(c) \in Seq(Classes)
      BY Above
    <2> DEFINE q == Chain(c)
    <2> HIDE DEF q
    <2>2. q \in Seq(Classes) => DOMAIN q = 1..Len(q)
      OBVIOUS
    <2>3. QED
      BY <2>1, <2>2, Above DEF q
  <1>2. ASSUME b \notin Classes PROVE Seen(c) = {1}
    <2>1. n = 1
      BY <1>2, Above
    <2>2. Late(c) = {}
      BY <2>1 DEF Late
    <2>3. QED
      BY <1>1, <2>1, <2>2 DEF Seen
  <1>3. ASSUME b \in Classes
        PROVE  /\ m \in Nat /\ m >= 1 /\ n = m + 1 /\ DOMAIN Chain(b) = 1..m
               /\ Chain(c)[2] = b
               /\ \A k \in 1..m : Chain(c)[k + 1] = Chain(b)[k]
               /\ Place(b) # Place(c)
    <2>1. Chain(b) \in Seq(Classes) /\ m \in Nat /\ m >= 1 /\ Chain(b)[1] = b
      BY <1>3, Above
    <2>2. n = m + 1 /\ Place(b) # Place(c) /\ \A k \in 1..m : Chain(c)[k + 1] = Chain(b)[k]
      BY <1>3, Above
    <2>3. Chain(c)[1 + 1] = Chain(b)[1]
      BY <2>1, <2>2
    <2> DEFINE q == Chain(b)
    <2> HIDE DEF q
    <2>4. q \in Seq(Classes) => DOMAIN q = 1..Len(q)
      OBVIOUS
    <2>5. QED
      BY <2>1, <2>2, <2>3, <2>4 DEF q
  <1>4. ASSUME b \in Classes, Place(b) > Place(c) PROVE Seen(c) = {1, 2}
    <2>0. Place(b) \in Int /\ Place(c) \in Int /\ n >= 2 /\ 2 - 1 = 1
      BY <1>3, <1>4, Places
    <2>1. 2 \in Late(c)
      <3>1. 2 \in 2..n
        BY <1>1, <2>0
      <3>2. Place(Chain(c)[2 - 1]) < Place(Chain(c)[2])
        <4>1. Place(c) < Place(b)
          BY <1>4, <2>0
        <4>2. QED
          BY <1>1, <1>3, <1>4, <2>0, <4>1, Zenon
      <3>3. QED
        BY <3>1, <3>2 DEF Late
    <2>2. Late(c) \in SUBSET Nat /\ \A k \in Late(c) : 2 <= k
      BY <1>1 DEF Late
    <2>3. Min(Late(c)) = 2
      BY <2>1, <2>2, MinIs
    <2>4. QED
      BY <2>1, <2>3 DEF Seen
  <1>5. ASSUME b \in Classes, Place(b) < Place(c)
        PROVE  Seen(c) = {1} \cup {k + 1 : k \in Seen(b)}
    <2>0. Place(b) \in Int /\ Place(c) \in Int
      BY <1>5, Places
    <2>1. Late(c) = {k + 1 : k \in Late(b)}
      <3>1. ASSUME NEW k \in Late(c) PROVE k \in {j + 1 : j \in Late(b)}
        <4>1. k \in 2..n /\ Place(Chain(c)[k - 1]) < Place(Chain(c)[k])
          BY DEF Late
        <4>2. k # 2
          <5>1. SUFFICES ASSUME k = 2 PROVE FALSE
            OBVIOUS
          <5>2. k - 1 = 1
            BY <5>1
          <5>3. Place(c) < Place(b)
            BY <1>1, <1>3, <1>5, <4>1, <5>1, <5>2, Zenon
          <5>4. QED
            BY <1>5, <2>0, <5>3
        <4>3. /\ k - 1 \in 2..m /\ k - 1 \in 1..m /\ k - 2 \in 1..m
              /\ (k - 1) + 1 = k /\ (k - 2) + 1 = k - 1 /\ (k - 1) - 1 = k - 2
          BY <1>3, <1>5, <4>1, <4>2
        <4>4. Chain(c)[k] = Chain(b)[k - 1] /\ Chain(c)[k - 1] = Chain(b)[k - 2]
          BY <1>3, <1>5, <4>3
        <4>5. k - 1 \in Late(b)
          BY <4>1, <4>3, <4>4 DEF Late
        <4>6. QED
          BY <4>3, <4>5
      <3>2. ASSUME NEW j \in Late(b) PROVE j + 1 \in Late(c)
        <4>1. j \in 2..m /\ Place(Chain(b)[j - 1]) < Place(Chain(b)[j])
          BY DEF Late
        <4>2. j \in 1..m /\ j - 1 \in 1..m /\ j + 1 \in 2..n /\ (j - 1) + 1 = j /\ (j + 1) - 1 = j
          BY <1>3, <1>5, <4>1
        <4>3. Chain(c)[j + 1] = Chain(b)[j] /\ Chain(c)[j] = Chain(b)[j - 1]
          BY <1>3, <1>5, <4>2
        <4>4. QED
          BY <4>1, <4>2, <4>3 DEF Late
      <3>3. QED
        BY <3>1, <3>2
    <2>2. CASE Late(b) = {}
      <3>1. Late(c) = {}
        BY <2>1, <2>2
      <3>2. Seen(b) = 1..m /\ Seen(c) = 1..n
        BY <1>1, <1>3, <1>5, <2>2, <3>1 DEF Seen
      <3>3. ASSUME NEW k \in 1..n PROVE k \in {1} \cup {j + 1 : j \in 1..m}
        <4>1. k # 1 => k - 1 \in 1..m /\ (k - 1) + 1 = k
          BY <1>3, <1>5, <3>3
        <4>2. QED
          BY <4>1
      <3>4. \A j \in 1..m : j + 1 \in 1..n
        BY <1>3, <1>5
      <3>5. QED
        BY <1>1, <3>2, <3>3, <3>4
    <2>3. CASE Late(b) # {}
      <3>1. Late(b) \in SUBSET Nat /\ Late(c) \in SUBSET Nat
        <4>1. Late(b) \in SUBSET (2..m) /\ Late(c) \in SUBSET (2..n)
          BY DEF Late
        <4>2. QED
          BY <4>1
      <3> DEFINE l == Min(Late(b))
      <3>2. l \in Late(b) /\ \A j \in Late(b) : l <= j
        BY <2>3, <3>1, MinOf
      <3> HIDE DEF l
      <3>3. l + 1 \in Late(c) /\ \A j \in Late(c) : l + 1 <= j
        BY <2>1, <3>1, <3>2
      <3>4. Min(Late(c)) = l + 1
        BY <3>1, <3>3, MinIs
      <3>5. Seen(b) = 1..l /\ Seen(c) = 1..(l + 1)
        BY <2>3, <3>3, <3>4 DEF Seen, l
      <3>6. l \in Nat
        BY <3>1, <3>2
      <3>7. ASSUME NEW k \in 1..(l + 1) PROVE k \in {1} \cup {j + 1 : j \in 1..l}
        <4>1. k # 1 => k - 1 \in 1..l /\ (k - 1) + 1 = k
          BY <3>6
        <4>2. QED
          BY <4>1
      <3>8. \A j \in 1..l : j + 1 \in 1..(l + 1)
        BY <3>6
      <3>9. 1 \in 1..(l + 1)
        BY <3>6
      <3>10. QED
        BY <3>5, <3>7, <3>8, <3>9
    <2>4. QED
      BY <2>2, <2>3
  <1>6. Seen(c) \in SUBSET (1..n) /\ 1 \in Seen(c)
    <2>1. CASE Late(c) = {}
      BY <1>1, <2>1 DEF Seen
    <2>2. CASE Late(c) # {}
      <3>1. Late(c) \in SUBSET Nat /\ Late(c) \in SUBSET (2..n)
        <4>1. Late(c) \in SUBSET (2..n)
          BY DEF Late
        <4>2. QED
          BY <1>1, <4>1
      <3>2. Min(Late(c)) \in 2..n
        BY <2>2, <3>1, MinOf
      <3>3. QED
        BY <1>1, <2>2, <3>2 DEF Seen
    <2>3. QED
      BY <2>1, <2>2
  <1>7. QED
    BY <1>2, <1>4, <1>5, <1>6

\* The nearest class that declares a method is the class itself, or the one
\* nearest to its base class, or the base class, where that comes too late.
LEMMA NearestRec ==
    ASSUME prog \in Programs, NEW c \in Classes, NEW s
    PROVE  /\ Declares(c, s) => Nearest(c, s) = c
           /\ ~Declares(c, s) /\ Decl(c).base \notin Classes => Nearest(c, s) = None
           /\ ~Declares(c, s) /\ Decl(c).base \in Classes /\ Place(Decl(c).base) > Place(c) =>
                 Nearest(c, s) = IF Declares(Decl(c).base, s) THEN Decl(c).base ELSE None
           /\ ~Declares(c, s) /\ Decl(c).base \in Classes /\ Place(Decl(c).base) < Place(c) =>
                 Nearest(c, s) = Nearest(Decl(c).base, s)
           /\ Nearest(c, s) \in Classes \cup {None}
  <1> DEFINE ks(x) == {k \in Seen(x) : Declares(Chain(x)[k], s)}
             b == Decl(c).base
  <1>1. \A x \in Classes : Nearest(x, s) = IF ks(x) = {} THEN None ELSE Chain(x)[Min(ks(x))]
    BY DEF Nearest
  <1>2. Len(Chain(c)) \in Nat /\ Chain(c)[1] = c /\ Seen(c) \in SUBSET (1..Len(Chain(c))) /\ 1 \in Seen(c)
    BY Above, SeenRec
  <1>3. ks(c) \in SUBSET Nat /\ \A k \in ks(c) : 1 <= k /\ k \in 1..Len(Chain(c))
    BY <1>2
  <1>4. ASSUME Declares(c, s) PROVE Nearest(c, s) = c
    <2>1. 1 \in ks(c)
      BY <1>2, <1>4
    <2> HIDE DEF ks
    <2>2. Min(ks(c)) = 1
      BY <1>3, <2>1, MinIs
    <2>3. QED
      BY <1>1, <1>2, <2>1, <2>2
  <1>5. ASSUME ~Declares(c, s), b \notin Classes PROVE Nearest(c, s) = None
    <2>1. Seen(c) = {1}
      BY <1>5, SeenRec
    <2>2. ks(c) = {}
      BY <1>2, <1>5, <2>1
    <2>3. QED
      BY <1>1, <2>2
  <1>6. ASSUME b \in Classes
        PROVE  /\ Chain(c)[2] = b /\ Chain(b)[1] = b
               /\ \A k \in 1..Len(Chain(b)) : Chain(c)[k + 1] = Chain(b)[k]
               /\ Len(Chain(b)) \in Nat
    <2>1. Chain(b)[1] = b /\ 1 \in 1..Len(Chain(b)) /\ Len(Chain(b)) \in Nat
      BY <1>6, Above
    <2>2. \A k \in 1..Len(Chain(b)) : Chain(c)[k + 1] = Chain(b)[k]
      BY <1>6, Above
    <2>3. Chain(c)[1 + 1] = Chain(b)[1]
      BY <2>1, <2>2
    <2>4. QED
      BY <2>1, <2>2, <2>3
  <1>7. ASSUME ~Declares(c, s), b \in Classes, Place(b) > Place(c)
        PROVE  Nearest(c, s) = IF Declares(b, s) THEN b ELSE None
    <2>1. Seen(c) = {1, 2}
      BY <1>7, SeenRec
    <2>2. ks(c) = IF Declares(b, s) THEN {2} ELSE {}
      BY <1>2, <1>6, <1>7, <2>1
    <2>3. Declares(b, s) => 2 \in ks(c) /\ \A j \in ks(c) : 2 <= j
      BY <2>2
    <2> HIDE DEF ks
    <2>4. Declares(b, s) => Min(ks(c)) = 2 /\ ks(c) # {}
      BY <1>3, <2>3, MinIs
    <2>5. QED
      BY <1>1, <1>6, <1>7, <2>2, <2>4
  <1>8. ASSUME ~Declares(c, s), b \in Classes, Place(b) < Place(c)
        PROVE  Nearest(c, s) = Nearest(b, s)
    <2>1. Seen(c) = {1} \cup {k + 1 : k \in Seen(b)} /\ Seen(b) \in SUBSET (1..Len(Chain(b)))
      BY <1>8, SeenRec
    <2>2. ks(c) = {k + 1 : k \in ks(b)}
      <3>1. ASSUME NEW k \in ks(c) PROVE k \in {j + 1 : j \in ks(b)}
        <4>1. k \in Seen(c) /\ Declares(Chain(c)[k], s)
          OBVIOUS
        <4>2. k # 1
          BY <1>2, <1>8, <4>1
        <4>3. PICK j \in Seen(b) : k = j + 1
          BY <2>1, <4>1, <4>2
        <4>4. Chain(c)[k] = Chain(b)[j]
          BY <1>6, <1>8, <2>1, <4>3
        <4>5. QED
          BY <4>1, <4>3, <4>4
      <3>2. ASSUME NEW j \in ks(b) PROVE j + 1 \in ks(c)
        <4>1. j \in Seen(b) /\ j \in 1..Len(Chain(b)) /\ Declares(Chain(b)[j], s)
          BY <2>1
        <4>2. Chain(c)[j + 1] = Chain(b)[j]
          BY <1>6, <1>8, <4>1
        <4>3. QED
          BY <2>1, <4>1, <4>2
      <3>3. QED
        BY <3>1, <3>2
    <2>3. ks(b) \in SUBSET Nat /\ ks(b) \in SUBSET (1..Len(Chain(b)))
      BY <1>6, <1>8, <2>1
    <2> HIDE DEF ks
    <2>4. CASE ks(b) = {}
      BY <1>1, <1>8, <2>2, <2>4
    <2>5. CASE ks(b) # {}
      <3> DEFINE l == Min(ks(b))
      <3>1. l \in ks(b) /\ \A j \in ks(b) : l <= j
        BY <2>3, <2>5, MinOf
      <3> HIDE DEF l
      <3>2. l + 1 \in ks(c) /\ \A j \in ks(c) : l + 1 <= j
        BY <2>2, <2>3, <3>1
      <3>3. Min(ks(c)) = l + 1
        BY <1>3, <3>2, MinIs
      <3>4. Chain(c)[l + 1] = Chain(b)[l]
        BY <1>6, <1>8, <2>3, <3>1
      <3>5. ks(c) # {}
        BY <3>2
      <3>6. QED
        BY <1>1, <1>8, <2>5, <3>3, <3>4, <3>5 DEF l
    <2>6. QED
      BY <2>4, <2>5
  <1>9. Nearest(c, s) \in Classes \cup {None}
    <2>1. CASE ks(c) = {}
      BY <1>1, <2>1
    <2>2. CASE ks(c) # {}
      <3>1. Min(ks(c)) \in ks(c)
        <4> HIDE DEF ks
        <4>1. QED
          BY <1>3, <2>2, MinOf
      <3>2. Min(ks(c)) \in 1..Len(Chain(c))
        BY <1>3, <3>1
      <3>3. Chain(c) \in Seq(Classes)
        BY Above
      <3> DEFINE q == Chain(c)
                 k == Min(ks(c))
      <3>4. q \in Seq(Classes) /\ k \in 1..Len(q)
        BY <3>2, <3>3
      <3> HIDE DEF q, k
      <3>5. q[k] \in Classes
        BY <3>4
      <3>6. QED
        BY <1>1, <2>2, <3>5 DEF q, k
    <2>3. QED
      BY <2>1, <2>2
  <1>10. QED
    BY <1>4, <1>5, <1>7, <1>8, <1>9

-----------------------------------------------------------------------------
(* The method tables                                                       *)

\* What a table has for a signature
Found(m, s) == IF s \in DOMAIN m THEN m[s] ELSE None

\* The methods of a class over a table
LEMMA OverFinds ==
    ASSUME NEW c, NEW s, NEW m
    PROVE  Found(Over(c, m), s) = IF Declares(c, s) THEN c ELSE Found(m, s)
  BY DEF Over, Found, Declares

\* A stage of the definition of Tables for every number up to n
LEMMA TableStages ==
    ASSUME NEW lk, NEW n \in Nat
    PROVE  \E t : t = [k \in 0..n |->
                       [c \in Classes |->
                           Over(c, IF lk[c] = None \/ k = 0 THEN <<>>
                                   ELSE IF vtable[lk[c]].on THEN vtable[lk[c]].m
                                   ELSE t[k - 1][lk[c]])]]
  <1> DEFINE F(f, k) == [c \in Classes |->
                           Over(c, IF lk[c] = None \/ k = 0 THEN <<>>
                                   ELSE IF vtable[lk[c]].on THEN vtable[lk[c]].m
                                   ELSE f[k - 1][lk[c]])]
             S == {m \in Nat : \E t : t = [k \in 0..m |-> F(t, k)]}
  <1>0. ASSUME NEW f, NEW g, NEW k, k = 0 \/ f[k - 1] = g[k - 1] PROVE F(f, k) = F(g, k)
    BY <1>0
  <1>1. 0 \in S
    <2> DEFINE z == <<>>
               t == [k \in 0..0 |-> F(z, k)]
    <2>1. \A k \in 0..0 : F(t, k) = F(z, k)
      <3> TAKE k \in 0..0
      <3>1. k = 0
        OBVIOUS
      <3> HIDE DEF F, t, z
      <3>2. QED
        BY <1>0, <3>1
    <2>2. t = [k \in 0..0 |-> F(t, k)]
      <3> HIDE DEF F
      <3>1. QED
        BY <2>1
    <2> HIDE DEF t, F
    <2>3. QED
      BY <2>2
  <1>2. ASSUME NEW m \in S PROVE m + 1 \in S
    <2> HIDE DEF F
    <2>1. PICK f : f = [k \in 0..m |-> F(f, k)]
      OBVIOUS
    <2> DEFINE g == [k \in 0..(m + 1) |-> IF k = m + 1 THEN F(f, k) ELSE f[k]]
    <2>2. \A k \in 0..(m + 1) : g[k] = F(g, k)
      <3> TAKE k \in 0..(m + 1)
      <3>0. m \in Nat
        OBVIOUS
      <3>1. F(g, k) = F(f, k)
        <4>1. CASE k = 0
          BY <1>0, <4>1, Zenon
        <4>2. CASE k # 0
          <5>1. k - 1 \in 0..(m + 1) /\ k - 1 # m + 1
            BY <3>0, <4>2
          <5>2. g[k - 1] = f[k - 1]
            BY <5>1
          <5> HIDE DEF g
          <5>3. QED
            BY <1>0, <5>2, SMT
        <4>3. QED
          BY <4>1, <4>2
      <3>2. CASE k = m + 1
        BY <3>1, <3>2
      <3>3. CASE k # m + 1
        <4>1. k \in 0..m
          BY <3>0, <3>3
        <4>2. g[k] = f[k] /\ f[k] = F(f, k)
          BY <2>1, <3>3, <4>1
        <4>3. QED
          BY <3>1, <4>2
      <3>4. QED
        BY <3>2, <3>3
    <2>3. g = [k \in 0..(m + 1) |-> F(g, k)]
      BY <2>2
    <2>4. m + 1 \in Nat
      OBVIOUS
    <2> HIDE DEF g
    <2>5. QED
      BY <2>3, <2>4
  <1>3. S = Nat
    <2> HIDE DEF S
    <2>1. S \in SUBSET Nat
      BY DEF S
    <2>2. QED
      BY <1>1, <1>2, <2>1, Induction
  <1>4. QED
    BY <1>3

\* The table of a class without a base class, of one whose base class has a
\* table, and of one whose base class has neither table nor base class
LEMMA TablesAre ==
    ASSUME prog \in Programs, NEW lk, NEW c \in Classes
    PROVE  /\ lk[c] = None => Tables(lk)[c] = Over(c, <<>>)
           /\ lk[c] # None /\ vtable[lk[c]].on => Tables(lk)[c] = Over(c, vtable[lk[c]].m)
           /\ lk[c] \in Classes /\ lk[c] # None /\ ~vtable[lk[c]].on /\ lk[lk[c]] = None =>
                 Tables(lk)[c] = Over(c, Over(lk[c], <<>>))
  <1> DEFINE N == Len(prog)
             F(f, k) == [x \in Classes |->
                           Over(x, IF lk[x] = None \/ k = 0 THEN <<>>
                                   ELSE IF vtable[lk[x]].on THEN vtable[lk[x]].m
                                   ELSE f[k - 1][lk[x]])]
             t == CHOOSE f : f = [k \in 0..N |-> F(f, k)]
  <1>1. N \in Nat
    BY DeclTypes
  <1>2. \E f : f = [k \in 0..N |-> F(f, k)]
    BY <1>1, TableStages
  <1>3. t = [k \in 0..N |-> F(t, k)]
    <2> HIDE DEF F
    <2>1. QED
      BY <1>2
  <1>4. Tables(lk) = t[N]
    BY DEF Tables
  <1> HIDE DEF t
  <1>5. \A k \in 0..N : t[k] = F(t, k)
    <2> HIDE DEF F
    <2>1. QED
      BY <1>3
  <1>6. ASSUME NEW k \in 0..N, NEW x \in Classes
        PROVE  t[k][x] = Over(x, IF lk[x] = None \/ k = 0 THEN <<>>
                                 ELSE IF vtable[lk[x]].on THEN vtable[lk[x]].m
                                 ELSE t[k - 1][lk[x]])
    <2>1. t[k] = F(t, k)
      BY <1>5
    <2>2. QED
      BY <2>1
  <1> HIDE DEF F
  <1>7. Place(c) \in 1..N
    BY Places
  <1>8. N # 0 /\ N \in 0..N /\ N - 1 \in 0..N
    BY <1>1, <1>7
  <1>9. QED
    BY <1>4, <1>6, <1>8

-----------------------------------------------------------------------------
(* The preparation of a program                                            *)

\* The base class of a class once it is prepared
BaseOf(c) == IF Decl(c).base \in Classes THEN Decl(c).base ELSE None

\* A class that is linked has the table of its nearest methods, and one that
\* is not has at most the table of its own.
Tabled(c) ==
    /\ link[c] = IF Place(c) <= prepared THEN BaseOf(c) ELSE None
    /\ link[c] = None /\ vtable[c].on =>
          \A s : Found(vtable[c].m, s) = IF Declares(c, s) THEN c ELSE None
    /\ link[c] # None => vtable[c].on /\ \A s : Found(vtable[c].m, s) = Nearest(c, s)

ClassInv ==
    /\ prog \in Programs /\ prepared \in 0..Len(prog)
    /\ DOMAIN link = Classes /\ DOMAIN vtable = Classes
    /\ \A c \in Classes : Tabled(c)

\* The program does not change
LEMMA ProgramStays ==
    ASSUME prog' = prog
    PROVE  /\ Classes' = Classes
           /\ \A c : /\ Decl(c)' = Decl(c) /\ Place(c)' = Place(c) /\ Chain(c)' = Chain(c)
                     /\ BaseOf(c)' = BaseOf(c) /\ Methods(c)' = Methods(c)
           /\ \A c, s : Declares(c, s)' = Declares(c, s) /\ Nearest(c, s)' = Nearest(c, s)
  <1>1. /\ Classes' = Classes
        /\ \A c : Decl(c)' = Decl(c) /\ Place(c)' = Place(c) /\ Chain(c)' = Chain(c)
    BY DEF Classes, Decl, Place, Chain
  <1>2. \A c : BaseOf(c)' = BaseOf(c) /\ Methods(c)' = Methods(c)
    BY <1>1 DEF BaseOf, Methods
  <1>3. \A c, s : Declares(c, s)' = Declares(c, s)
    BY <1>2 DEF Declares
  <1>4. ASSUME NEW c PROVE Seen(c)' = Seen(c)
    BY <1>1 DEF Seen, Late
  <1>5. ASSUME NEW c, NEW s PROVE Nearest(c, s)' = Nearest(c, s)
    BY <1>1, <1>3, <1>4 DEF Nearest
  <1>6. QED
    BY <1>1, <1>2, <1>3, <1>5

\* The classes that get a table: the class, and its base class if that has none
LEMMA UntabledAre ==
    ASSUME ClassInv, NEW c \in Classes, NEW lk, Decl(c).base \in Classes,
           lk = [link EXCEPT ![c] = Decl(c).base]
    PROVE  Untabled(lk, c) = {c} \cup (IF vtable[Decl(c).base].on THEN {} ELSE {Decl(c).base})
  <1> DEFINE b == Decl(c).base
             n == Len(Chain(c))
             OK(k) == \A j \in 2..k : ~vtable[Chain(c)[j]].on /\ lk[Chain(c)[j - 1]] = Chain(c)[j]
  <1>1. prog \in Programs /\ DOMAIN link = Classes
    BY DEF ClassInv
  <1>2. /\ n \in Nat /\ n >= 2 /\ Chain(c)[1] = c /\ Chain(c)[2] = b /\ b # c
        /\ DOMAIN Chain(c) = 1..n /\ \A k \in 1..n : Chain(c)[k] \in Classes
    <2>1. Len(Chain(b)) \in Nat /\ Len(Chain(b)) >= 1 /\ Chain(b)[1] = b
      BY <1>1, Above
    <2>2. /\ Chain(c) \in Seq(Classes) /\ n = Len(Chain(b)) + 1 /\ Chain(c)[1] = c /\ b # c
          /\ \A k \in 1..Len(Chain(b)) : Chain(c)[k + 1] = Chain(b)[k]
      BY <1>1, Above
    <2>3. 1 \in 1..Len(Chain(b)) /\ 1 + 1 = 2
      BY <2>1
    <2>4. Chain(c)[2] = b
      BY <2>1, <2>2, <2>3
    <2> DEFINE q == Chain(c)
    <2> HIDE DEF q
    <2>5. q \in Seq(Classes) => DOMAIN q = 1..Len(q) /\ \A k \in 1..Len(q) : q[k] \in Classes
      OBVIOUS
    <2>6. n \in Nat /\ n >= 2
      BY <2>1, <2>2
    <2>7. QED
      BY <2>2, <2>4, <2>5, <2>6 DEF q
  <1>3. lk[c] = b /\ lk[b] = link[b]
    BY <1>1, <1>2
  <1>4. ~vtable[b].on => lk[b] = None
    <2>1. link[b] # None => vtable[b].on
      BY DEF ClassInv, Tabled
    <2>2. QED
      BY <1>3, <2>1
  <1>5. Untabled(lk, c) = {Chain(c)[k] : k \in {k \in 1..n : OK(k)}}
    BY <1>2 DEF Untabled
  <1>6. 1 \in 1..n /\ OK(1)
    BY <1>2
  <1>7. OK(2) <=> ~vtable[b].on
    <2>1. 2..2 = {2} /\ 2 - 1 = 1
      OBVIOUS
    <2>2. QED
      BY <1>2, <1>3, <2>1
  <1>8. ASSUME NEW k \in 1..n, OK(k), k > 2 PROVE FALSE
    <2>1. 2 \in 2..k /\ 3 \in 2..k /\ 2 - 1 = 1 /\ 3 - 1 = 2 /\ 3 \in 1..n
      BY <1>2, <1>8
    <2>2. ~vtable[Chain(c)[2]].on /\ lk[Chain(c)[3 - 1]] = Chain(c)[3]
      BY <1>8, <2>1
    <2>3. lk[b] = Chain(c)[3] /\ ~vtable[b].on /\ Chain(c)[3] \in Classes
      BY <1>2, <2>1, <2>2
    <2>4. None \notin Classes
      BY <1>1, DeclTypes DEF Classes
    <2>5. QED
      BY <1>4, <2>3, <2>4
  <1>9. \A k \in 1..n : OK(k) => k = 1 \/ k = 2
    <2> HIDE DEF OK
    <2>1. QED
      BY <1>2, <1>8
  <1> HIDE DEF OK
  <1>10. CASE vtable[b].on
    <2>1. {k \in 1..n : OK(k)} = {1}
      BY <1>6, <1>7, <1>9, <1>10
    <2>2. QED
      BY <1>2, <1>5, <1>10, <2>1
  <1>11. CASE ~vtable[b].on
    <2>1. {k \in 1..n : OK(k)} = {1, 2}
      BY <1>2, <1>6, <1>7, <1>9, <1>11
    <2>2. QED
      BY <1>2, <1>5, <1>11, <2>1
  <1>12. QED
    BY <1>10, <1>11

\* A turn of the loop of qinterpPrepare keeps the invariant
LEMMA PrepareKeeps ==
    ASSUME ClassInv, qinterpPrepare
    PROVE  ClassInv'
  <1> DEFINE d == prog[prepared + 1]
             c == d.name
             lk == [link EXCEPT ![d.name] = d.base]
  <1>0. prog \in Programs /\ prepared \in 0..Len(prog) /\ DOMAIN link = Classes /\ DOMAIN vtable = Classes
    BY DEF ClassInv
  <1>1. prog' = prog /\ prepared' = prepared + 1 /\ prepared < Len(prog)
    BY DEF qinterpPrepare
  <1>2. Len(prog) \in Nat /\ prepared \in Int /\ prepared + 1 \in 1..Len(prog) /\ None \notin Classes
    BY <1>0, <1>1, DeclTypes DEF Classes
  <1>3. c \in Classes /\ Place(c) = prepared + 1 /\ Decl(c) = d
    BY <1>0, <1>2, Places
  <1>4. \A x \in Classes : /\ Place(x) \in Int
                           /\ Place(x) <= prepared + 1 <=> Place(x) <= prepared \/ x = c
    BY <1>0, <1>2, <1>3, Places
  <1>5. \A x \in Classes : Tabled(x)
    BY DEF ClassInv
  <1>6. ~(Place(c) <= prepared)
    BY <1>2, <1>3
  <1>7. link[c] = None
    BY <1>3, <1>5, <1>6 DEF Tabled
  <1>8. prog' \in Programs /\ prepared' \in 0..Len(prog')
    BY <1>0, <1>1, <1>2
  <1>9. CASE d.base \notin Classes
    <2>1. link' = link /\ vtable' = vtable
      BY <1>2, <1>9 DEF qinterpPrepare
    <2>2. BaseOf(c) = None
      BY <1>3, <1>9 DEF BaseOf
    <2>3. ASSUME NEW x \in Classes PROVE Tabled(x)'
      <3>1. Tabled(x)
        BY <1>5
      <3>2. link[x] = IF Place(x) <= prepared + 1 THEN BaseOf(x) ELSE None
        BY <1>4, <1>7, <2>2, <3>1 DEF Tabled
      <3>3. QED
        BY <1>1, <2>1, <3>1, <3>2, ProgramStays DEF Tabled
    <2>4. QED
      BY <1>0, <1>1, <1>8, <2>1, <2>3, ProgramStays DEF ClassInv
  <1>10. CASE d.base \in Classes
    <2> DEFINE b == d.base
    <2>1. link' = lk /\ vtable' = jsclassInitVtab(lk, c)
      BY <1>2, <1>10 DEF qinterpPrepare
    <2> HIDE DEF lk
    <2>2. lk = [link EXCEPT ![c] = b] /\ DOMAIN lk = Classes /\ lk[c] = b
      BY <1>0, <1>3 DEF lk
    <2>3. Untabled(lk, c) = {c} \cup (IF vtable[b].on THEN {} ELSE {b})
      <3>1. b = Decl(c).base /\ Decl(c).base \in Classes
        BY <1>3, <1>10
      <3>2. lk = [link EXCEPT ![c] = Decl(c).base]
        BY <2>2, <3>1
      <3> HIDE DEF b, c, d
      <3>3. Untabled(lk, c) = {c} \cup (IF vtable[Decl(c).base].on THEN {} ELSE {Decl(c).base})
        BY <1>3, <3>1, <3>2, UntabledAre
      <3>4. QED
        BY <3>1, <3>3
    <2>4. b # c /\ Place(b) # Place(c) /\ BaseOf(c) = b
      BY <1>0, <1>3, <1>10, Above DEF BaseOf
    <2>5. \A x \in Classes : x # c => lk[x] = link[x]
      BY <1>0, <2>2
    <2>6. ASSUME NEW x \in Classes
          PROVE  vtable'[x] = IF x \in Untabled(lk, c) THEN [on |-> TRUE, m |-> Tables(lk)[x]]
                              ELSE vtable[x]
      BY <2>1 DEF jsclassInitVtab
    <2>7. DOMAIN vtable' = Classes /\ DOMAIN link' = Classes
      BY <2>1, <2>2 DEF jsclassInitVtab
    <2>8. ASSUME NEW s
          PROVE  Nearest(c, s) = IF Declares(c, s) THEN c
                                 ELSE IF Place(b) > Place(c)
                                 THEN IF Declares(b, s) THEN b ELSE None
                                 ELSE Nearest(b, s)
      <3>1. Place(b) > Place(c) \/ Place(b) < Place(c)
        BY <1>3, <1>4, <1>10, <2>4
      <3>2. ~(Place(b) > Place(c)) => Place(b) < Place(c)
        BY <1>3, <1>4, <1>10, <3>1
      <3>3. QED
        BY <1>0, <1>3, <1>10, <3>2, NearestRec
    <2>9. ASSUME NEW s
          PROVE  /\ link[b] = None /\ Declares(b, s) => Nearest(c, s) = IF Declares(c, s) THEN c ELSE b
                 /\ link[b] = None /\ ~Declares(b, s) => Nearest(c, s) = IF Declares(c, s) THEN c ELSE None
                 /\ link[b] # None => Nearest(c, s) = IF Declares(c, s) THEN c ELSE Nearest(b, s)
      <3>1. link[b] = IF Place(b) <= prepared THEN BaseOf(b) ELSE None
        BY <1>5, <1>10 DEF Tabled
      <3>2. Place(b) > Place(c) <=> ~(Place(b) <= prepared)
        BY <1>2, <1>3, <1>4, <1>10, <2>4
      <3>3. BaseOf(b) = None => (Nearest(b, s) = IF Declares(b, s) THEN b ELSE None)
        BY <1>0, <1>2, <1>10, NearestRec DEF BaseOf
      <3>4. QED
        BY <2>8, <3>1, <3>2, <3>3
    <2>10. ASSUME NEW s PROVE Found(Tables(lk)[c], s) = Nearest(c, s)
      <3>1. CASE vtable[b].on
        <4>1. Tables(lk)[c] = Over(c, vtable[b].m)
          <5>1. lk[c] # None /\ vtable[lk[c]].on /\ lk[c] = b
            BY <1>2, <1>10, <2>2, <3>1
          <5>2. Tables(lk)[c] = Over(c, vtable[lk[c]].m)
            BY <1>0, <1>3, <5>1, TablesAre
          <5>3. QED
            BY <5>1, <5>2
        <4>2. Found(Tables(lk)[c], s) = IF Declares(c, s) THEN c ELSE Found(vtable[b].m, s)
          BY <4>1, OverFinds
        <4>3. Found(vtable[b].m, s) = IF link[b] = None THEN IF Declares(b, s) THEN b ELSE None
                                      ELSE Nearest(b, s)
          BY <1>5, <1>10, <3>1 DEF Tabled
        <4>4. QED
          BY <2>9, <4>2, <4>3
      <3>2. CASE ~vtable[b].on
        <4>1. link[b] = None
          BY <1>5, <1>10, <3>2 DEF Tabled
        <4>2. Tables(lk)[c] = Over(c, Over(b, <<>>))
          <5>1. lk[c] = b /\ b \in Classes /\ b # None /\ ~vtable[b].on /\ lk[b] = None
            BY <1>2, <1>10, <2>2, <2>4, <2>5, <3>2, <4>1
          <5>2. Tables(lk)[c] = Over(c, Over(lk[c], <<>>))
            BY <1>0, <1>3, <5>1, TablesAre
          <5>3. QED
            BY <5>1, <5>2
        <4>3. Found(<<>>, s) = None
          BY DEF Found
        <4>4. Found(Tables(lk)[c], s) = IF Declares(c, s) THEN c ELSE IF Declares(b, s) THEN b ELSE None
          BY <4>2, <4>3, OverFinds
        <4>5. QED
          BY <2>9, <4>1, <4>4
      <3>3. QED
        BY <3>1, <3>2
    <2>11. ASSUME NEW x \in Classes PROVE Tabled(x)'
      <3>1. Tabled(x)
        BY <1>5
      <3>2. lk[x] = IF Place(x) <= prepared + 1 THEN BaseOf(x) ELSE None
        BY <1>4, <2>2, <2>4, <2>5, <3>1 DEF Tabled
      <3>3. CASE x = c
        <4>1. vtable'[x] = [on |-> TRUE, m |-> Tables(lk)[c]]
          BY <2>3, <2>6, <3>3
        <4>2. vtable'[x].on /\ vtable'[x].m = Tables(lk)[c]
          BY <4>1
        <4>3. \A s : Found(vtable'[x].m, s) = Nearest(c, s)
          BY <2>10, <4>2
        <4>4. lk[x] # None
          BY <1>2, <1>10, <2>2, <3>3
        <4>5. QED
          BY <1>1, <2>1, <3>2, <3>3, <4>2, <4>3, <4>4, ProgramStays DEF Tabled
      <3>4. CASE x = b /\ ~vtable[b].on
        <4>1. link[b] = None /\ lk[b] = None
          BY <1>5, <1>10, <2>4, <2>5, <3>4 DEF Tabled
        <4>2. Tables(lk)[b] = Over(b, <<>>)
          BY <1>0, <1>10, <4>1, TablesAre
        <4>3. vtable'[x].m = Over(b, <<>>)
          <5>1. b \in Untabled(lk, c)
            BY <2>3, <3>4
          <5>2. vtable'[b] = [on |-> TRUE, m |-> Tables(lk)[b]]
            BY <1>10, <2>6, <5>1
          <5>3. vtable'[b].m = Tables(lk)[b]
            BY <5>2
          <5>4. QED
            BY <3>4, <4>2, <5>3
        <4>4. ASSUME NEW s PROVE Found(vtable'[x].m, s) = IF Declares(b, s) THEN b ELSE None
          <5>1. Found(<<>>, s) = None
            BY DEF Found
          <5>2. QED
            BY <4>3, <5>1, OverFinds
        <4>5. QED
          BY <1>1, <2>1, <3>2, <3>4, <4>1, <4>4, ProgramStays DEF Tabled
      <3>5. CASE x # c /\ ~(x = b /\ ~vtable[b].on)
        <4>1. vtable'[x] = vtable[x] /\ lk[x] = link[x]
          BY <2>3, <2>5, <2>6, <3>5
        <4>2. QED
          BY <1>1, <2>1, <3>1, <3>2, <4>1, ProgramStays DEF Tabled
      <3>6. QED
        BY <3>3, <3>4, <3>5
    <2>12. QED
      BY <1>0, <1>1, <1>8, <2>7, <2>11, ProgramStays DEF ClassInv
  <1>11. QED
    BY <1>9, <1>10

\* A step that is not one of qinterpPrepare keeps the classes as they are
LEMMA ClassesKept ==
    ASSUME ClassInv, UNCHANGED classVars
    PROVE  ClassInv'
  <1>1. prog' = prog /\ prepared' = prepared /\ link' = link /\ vtable' = vtable
    BY DEF classVars
  <1>2. ASSUME NEW c \in Classes PROVE Tabled(c)'
    BY <1>1, ProgramStays DEF ClassInv, Tabled
  <1>3. QED
    BY <1>1, <1>2, ProgramStays DEF ClassInv

\* When the program is prepared, the method that is found is the nearest one
LEMMA FindsNearest ==
    ASSUME ClassInv, Ready, NEW c \in Classes, NEW s
    PROVE  /\ jsclassFindMethod(c, s) = Nearest(c, s)
           /\ Nearest(c, s) \in Classes \cup {None}
           /\ link[c] = BaseOf(c)
  <1>1. prog \in Programs /\ prepared = Len(prog) /\ Len(prog) \in Nat /\ Tabled(c)
    BY DeclTypes DEF ClassInv, Ready
  <1>2. link[c] = BaseOf(c)
    BY <1>1, Places DEF Tabled
  <1>3. BaseOf(c) = None => (Nearest(c, s) = IF Declares(c, s) THEN c ELSE None)
    BY <1>1, NearestRec, DeclTypes DEF BaseOf, Classes
  <1>4. jsclassFindMethod(c, s) = IF vtable[c].on THEN Found(vtable[c].m, s)
                                  ELSE IF Declares(c, s) THEN c ELSE None
    BY DEF jsclassFindMethod, Found
  <1>5. Nearest(c, s) \in Classes \cup {None}
    BY <1>1, NearestRec
  <1>6. CASE link[c] = None
    BY <1>1, <1>2, <1>3, <1>4, <1>5, <1>6 DEF Tabled
  <1>7. CASE link[c] # None
    BY <1>1, <1>2, <1>4, <1>5, <1>7 DEF Tabled
  <1>8. QED
    BY <1>6, <1>7

-----------------------------------------------------------------------------
(* Instances                                                               *)

\* An instance of one of the classes C, among n; and n of them
Insts(C, n) == [cls : C, refcount : Int, live : BOOLEAN, fields : Seq(0..n)]
Heaps(C, n) == {h \in Seq(Insts(C, n)) : Len(h) = n}

\* The same instances, with other counts, contents and lives
Same(g, h) ==
    /\ DOMAIN g = DOMAIN h
    /\ \A i \in DOMAIN h : g[i].cls = h[i].cls /\ Len(g[i].fields) = Len(h[i].fields)

\* What is known of an instance of a heap
LEMMA HeapTypes ==
    ASSUME NEW C, NEW n \in Nat, NEW h \in Heaps(C, n)
    PROVE  /\ DOMAIN h = 1..n /\ Len(h) = n
           /\ \A i \in 1..n :
                 /\ h[i] \in Insts(C, n) /\ h[i].cls \in C /\ h[i].refcount \in Int
                 /\ h[i].live \in BOOLEAN /\ h[i].fields \in Seq(0..n)
                 /\ DOMAIN h[i] = {"cls", "refcount", "live", "fields"}
  <1> DEFINE I == Insts(C, n)
  <1>1. h \in Seq(I) /\ Len(h) = n
    BY DEF Heaps
  <1> HIDE DEF I
  <1>2. DOMAIN h = 1..n /\ \A i \in 1..n : h[i] \in I
    BY <1>1
  <1>3. ASSUME NEW x \in I
        PROVE  /\ x.cls \in C /\ x.refcount \in Int /\ x.live \in BOOLEAN /\ x.fields \in Seq(0..n)
               /\ DOMAIN x = {"cls", "refcount", "live", "fields"}
    <2> DEFINE Fs == Seq(0..n)
    <2>1. x \in [cls : C, refcount : Int, live : BOOLEAN, fields : Fs]
      BY DEF I, Insts
    <2> HIDE DEF Fs
    <2>2. /\ x.cls \in C /\ x.refcount \in Int /\ x.live \in BOOLEAN /\ x.fields \in Fs
          /\ DOMAIN x = {"cls", "refcount", "live", "fields"}
      BY <2>1
    <2>3. QED
      BY <2>2 DEF Fs
  <1>4. QED
    BY <1>1, <1>2, <1>3 DEF I

\* A heap, by its instances
LEMMA HeapMade ==
    ASSUME NEW C, NEW n \in Nat, NEW h, h = [i \in 1..n |-> h[i]],
           \A i \in 1..n : h[i] \in Insts(C, n)
    PROVE  h \in Heaps(C, n)
  <1> DEFINE I == Insts(C, n)
  <1> HIDE DEF I
  <1>1. \A i \in 1..n : h[i] \in I
    BY DEF I
  <1>2. h \in Seq(I) /\ Len(h) = n
    BY <1>1
  <1>3. QED
    BY <1>2 DEF Heaps, I

\* An instance that changes
LEMMA HeapPut ==
    ASSUME NEW C, NEW n \in Nat, NEW h \in Heaps(C, n), NEW i \in 1..n, NEW x \in Insts(C, n),
           x.cls = h[i].cls, Len(x.fields) = Len(h[i].fields)
    PROVE  /\ [h EXCEPT ![i] = x] \in Heaps(C, n)
           /\ Same([h EXCEPT ![i] = x], h)
  <1> DEFINE g == [h EXCEPT ![i] = x]
  <1>1. DOMAIN h = 1..n /\ \A j \in 1..n : h[j] \in Insts(C, n)
    BY HeapTypes
  <1>2. g = [j \in 1..n |-> g[j]] /\ g[i] = x /\ \A j \in 1..n : j # i => g[j] = h[j]
    BY <1>1
  <1> HIDE DEF g
  <1>3. \A j \in 1..n : g[j] \in Insts(C, n)
    BY <1>1, <1>2
  <1>4. g \in Heaps(C, n)
    BY <1>2, <1>3, HeapMade
  <1>5. DOMAIN g = DOMAIN h
    BY <1>1, <1>2
  <1>6. QED
    BY <1>1, <1>2, <1>4, <1>5 DEF Same, g

\* Another number of references
LEMMA Recount ==
    ASSUME NEW C, NEW n \in Nat, NEW x \in Insts(C, n), NEW d \in Int
    PROVE  LET y == [x EXCEPT !.refcount = d] IN
           /\ y \in Insts(C, n) /\ y.cls = x.cls /\ y.fields = x.fields /\ y.live = x.live
           /\ y.refcount = d /\ DOMAIN y = {"cls", "refcount", "live", "fields"}
  <1> DEFINE Fs == Seq(0..n)
  <1>1. x \in [cls : C, refcount : Int, live : BOOLEAN, fields : Fs]
    BY DEF Insts
  <1> HIDE DEF Fs
  <1>2. DOMAIN x = {"cls", "refcount", "live", "fields"}
    BY <1>1
  <1>3. LET y == [x EXCEPT !.refcount = d] IN
        /\ y \in [cls : C, refcount : Int, live : BOOLEAN, fields : Fs]
        /\ y.cls = x.cls /\ y.fields = x.fields /\ y.live = x.live
        /\ y.refcount = d /\ DOMAIN y = {"cls", "refcount", "live", "fields"}
    BY <1>1, <1>2
  <1>4. QED
    BY <1>3 DEF Insts, Fs

\* One more reference
LEMMA RefTypes ==
    ASSUME NEW C, NEW n \in Nat, NEW h \in Heaps(C, n), NEW v \in 0..n
    PROVE  jsinstRef(h, v) \in Heaps(C, n) /\ Same(jsinstRef(h, v), h)
  <1>1. CASE v = Plain
    BY <1>1 DEF jsinstRef, IsInst, Same
  <1>2. CASE v # Plain
    <2>1. v \in 1..n
      BY <1>2 DEF Plain
    <2> DEFINE x == [h[v] EXCEPT !.refcount = @ + 1]
    <2>2. h[v] \in Insts(C, n) /\ h[v].refcount + 1 \in Int
      BY <2>1, HeapTypes
    <2>3. x \in Insts(C, n) /\ x.cls = h[v].cls /\ x.fields = h[v].fields
      BY <2>2, Recount
    <2>4. jsinstRef(h, v) = [h EXCEPT ![v] = x]
      BY <1>2 DEF jsinstRef, IsInst
    <2> HIDE DEF x
    <2>5. [h EXCEPT ![v] = x] \in Heaps(C, n) /\ Same([h EXCEPT ![v] = x], h)
      BY <2>1, <2>3, HeapPut
    <2>6. QED
      BY <2>4, <2>5
  <1>3. QED
    BY <1>1, <1>2

\* A reference more for each value of a list
LEMMA RefsTypes ==
    ASSUME NEW C, NEW n \in Nat, NEW h \in Heaps(C, n), NEW vs \in Seq(0..n)
    PROVE  jsinstRefs(h, vs) \in Heaps(C, n) /\ Same(jsinstRefs(h, vs), h)
  <1> DEFINE g == jsinstRefs(h, vs)
  <1>1. DOMAIN h = 1..n
    BY HeapTypes
  <1>2. g = [j \in 1..n |-> g[j]] /\ \A j \in 1..n : g[j] = [h[j] EXCEPT !.refcount = @ + Count(j, vs)]
    BY <1>1 DEF jsinstRefs
  <1>3. ASSUME NEW j \in 1..n
        PROVE  g[j] \in Insts(C, n) /\ g[j].cls = h[j].cls /\ g[j].fields = h[j].fields
    <2>1. Count(j, vs) \in Nat
      <3>1. Count(j, vs) = Cardinality(InList(vs, j))
        BY DEF Count, At, InList
      <3>2. QED
        BY <3>1, ListFinite
    <2>2. h[j] \in Insts(C, n) /\ h[j].refcount + Count(j, vs) \in Int
      BY <2>1, HeapTypes
    <2>3. g[j] = [h[j] EXCEPT !.refcount = @ + Count(j, vs)]
      BY <1>2
    <2> HIDE DEF g
    <2>4. QED
      BY <2>2, <2>3, Recount
  <1>4. g \in Heaps(C, n)
    <2> HIDE DEF g
    <2>1. QED
      BY <1>2, <1>3, HeapMade
  <1>5. DOMAIN g = DOMAIN h
    BY <1>1, <1>2
  <1>6. QED
    BY <1>1, <1>3, <1>4, <1>5 DEF Same

-----------------------------------------------------------------------------
(* The clearing of a list                                                  *)

\* The clearing of a list is defined step by step
LEMMA ClearingExists ==
    ASSUME NEW s, NEW n \in Nat
    PROVE  \E f : f = [k \in 0..n |-> IF k = 0 THEN s ELSE Cleared(f[k - 1])]
  <1> DEFINE S == {m \in Nat : \E f : f = [k \in 0..m |-> IF k = 0 THEN s ELSE Cleared(f[k - 1])]}
  <1>1. 0 \in S
    <2>1. [k \in 0..0 |-> s]
          = [k \in 0..0 |-> IF k = 0 THEN s ELSE Cleared([j \in 0..0 |-> s][k - 1])]
      OBVIOUS
    <2>2. QED
      BY <2>1
  <1>2. ASSUME NEW m \in S PROVE m + 1 \in S
    <2>1. PICK f : f = [k \in 0..m |-> IF k = 0 THEN s ELSE Cleared(f[k - 1])]
      OBVIOUS
    <2> DEFINE g == [k \in 0..(m + 1) |-> IF k = m + 1 THEN Cleared(f[m]) ELSE f[k]]
    <2>2. \A k \in 0..(m + 1) : g[k] = IF k = 0 THEN s ELSE Cleared(g[k - 1])
      <3> TAKE k \in 0..(m + 1)
      <3>1. CASE k = 0
        BY <2>1, <3>1
      <3>2. CASE k = m + 1
        <4>1. m \in Nat /\ k - 1 = m /\ k # 0 /\ m \in 0..(m + 1) /\ m # m + 1
          BY <3>2
        <4>2. g[m] = f[m] /\ g[k] = Cleared(f[m])
          BY <4>1, <3>2
        <4>3. QED
          BY <4>1, <4>2
      <3>3. CASE k \in 1..m
        <4>1. k - 1 \in 0..(m + 1) /\ k - 1 # m + 1 /\ k # 0 /\ k # m + 1 /\ k \in 0..m
          BY <3>3
        <4>2. g[k - 1] = f[k - 1] /\ g[k] = f[k] /\ f[k] = Cleared(f[k - 1])
          BY <4>1, <2>1
        <4>3. QED
          BY <4>1, <4>2
      <3>4. QED
        BY <3>1, <3>2, <3>3
    <2>3. g = [k \in 0..(m + 1) |-> IF k = 0 THEN s ELSE Cleared(g[k - 1])]
      BY <2>2
    <2>4. m + 1 \in Nat
      OBVIOUS
    <2> HIDE DEF g
    <2>5. QED
      BY <2>3, <2>4
  <1>3. S = Nat
    <2> HIDE DEF S
    <2>1. S \in SUBSET Nat
      BY DEF S
    <2>2. QED
      BY <1>1, <1>2, <2>1, Induction
  <1>4. QED
    BY <1>3

\* Its first state is the given one, and each other follows from the one before
LEMMA ClearingSteps ==
    ASSUME NEW s, NEW n \in Nat
    PROVE  /\ Clearing(s, n)[0] = s
           /\ \A k \in 0..(n - 1) : Clearing(s, n)[k + 1] = Cleared(Clearing(s, n)[k])
  <1>1. \E f : f = [k \in 0..n |-> IF k = 0 THEN s ELSE Cleared(f[k - 1])]
    BY ClearingExists
  <1>2. Clearing(s, n) = CHOOSE f : f = [k \in 0..n |-> IF k = 0 THEN s ELSE Cleared(f[k - 1])]
    BY DEF Clearing
  <1>3. PICK r : r = Clearing(s, n)
    OBVIOUS
  <1>4. r = [k \in 0..n |-> IF k = 0 THEN s ELSE Cleared(r[k - 1])]
    BY <1>1, <1>2, <1>3
  <1>5. r[0] = s
    BY <1>4
  <1>6. ASSUME NEW k \in 0..(n - 1) PROVE r[k + 1] = Cleared(r[k])
    <2>1. k + 1 \in 0..n /\ k + 1 # 0 /\ (k + 1) - 1 = k
      OBVIOUS
    <2>2. QED
      BY <1>4, <2>1
  <1>7. QED
    BY <1>3, <1>5, <1>6

\* An instance that has one reference less, and one that is destroyed
Less(h, v) == [h EXCEPT ![v].refcount = @ - 1]
Bare(x) == [cls |-> x.cls, refcount |-> x.refcount - 1, live |-> FALSE,
            fields |-> [k \in DOMAIN x.fields |-> Plain]]
Gone(h, v) == [h EXCEPT ![v] = Bare(@)]

\* A record, by its fields
LEMMA RecordIs ==
    ASSUME NEW a, NEW b, NEW c, NEW d,
           NEW r \in [cls : {a}, refcount : {b}, live : {c}, fields : {d}]
    PROVE  r = [cls |-> a, refcount |-> b, live |-> c, fields |-> d]
  OBVIOUS

\* An instance whose fields are cleared
LEMMA BareIs ==
    ASSUME NEW C, NEW n, NEW x \in Insts(C, n)
    PROVE  [x EXCEPT !.live = FALSE, !.fields = [k \in DOMAIN @ |-> Plain]]
           = [cls |-> x.cls, refcount |-> x.refcount, live |-> FALSE,
              fields |-> [k \in DOMAIN x.fields |-> Plain]]
  <1> DEFINE Fs == Seq(0..n)
  <1>1. x \in [cls : C, refcount : Int, live : BOOLEAN, fields : Fs]
    BY DEF Insts
  <1> HIDE DEF Fs
  <1>2. PICK c1, c2, c3, c4 :
            c1 = x.cls /\ c2 = x.refcount /\ c3 = x.live /\ c4 = x.fields
    OBVIOUS
  <1>3. x = [cls |-> c1, refcount |-> c2, live |-> c3, fields |-> c4]
    BY <1>1, <1>2
  <1>4. \A l, p : [x EXCEPT !.live = l, !.fields = p]
                  = [cls |-> c1, refcount |-> c2, live |-> l, fields |-> p]
    <2> TAKE l, p
    <2>1. PICK r : r = [x EXCEPT !.live = l, !.fields = p]
      OBVIOUS
    <2>2. r \in [cls : {c1}, refcount : {c2}, live : {l}, fields : {p}]
      BY <1>3, <2>1
    <2>3. r = [cls |-> c1, refcount |-> c2, live |-> l, fields |-> p]
      BY <2>2, RecordIs
    <2>4. QED
      BY <2>1, <2>3
  <1>5. [x EXCEPT !.live = FALSE, !.fields = [k \in DOMAIN x.fields |-> Plain]]
        = [cls |-> c1, refcount |-> c2, live |-> FALSE, fields |-> [k \in DOMAIN x.fields |-> Plain]]
    BY <1>4, Zenon
  <1>6. QED
    BY <1>2, <1>5, Zenon

\* What the next step of a clearing is
LEMMA NextIs ==
    ASSUME NEW C, NEW n \in Nat, NEW h \in Heaps(C, n), NEW vs \in Seq(0..n), vs # <<>>
    PROVE  LET v == Head(vs) s == [h |-> h, todo |-> vs] IN
           /\ v = Plain => ClearNext(s) = [h |-> h, todo |-> Tail(vs)]
           /\ v # Plain /\ h[v].refcount <= 1 /\ h[v].live =>
                 ClearNext(s) = [h |-> Gone(h, v), todo |-> h[v].fields \o Tail(vs)]
           /\ v # Plain /\ ~(h[v].refcount <= 1 /\ h[v].live) =>
                 ClearNext(s) = [h |-> Less(h, v), todo |-> Tail(vs)]
  <1> DEFINE v == Head(vs)
             s == [h |-> h, todo |-> vs]
             g == [h EXCEPT ![v].refcount = @ - 1]
  <1>1. v \in 0..n /\ Tail(vs) \in Seq(0..n)
    BY HeadAndTail
  <1>2. CASE v = Plain
    <2>1. ClearNext(s) = [s EXCEPT !.todo = Tail(@)]
      BY <1>2 DEF ClearNext, IsInst
    <2>2. \A tl : [[h |-> h, todo |-> vs] EXCEPT !.todo = tl] = [h |-> h, todo |-> tl]
      OBVIOUS
    <2>3. QED
      BY <1>2, <2>1, <2>2
  <1>3. CASE v # Plain
    <2>1. v \in 1..n /\ v \in DOMAIN h /\ h[v] \in Insts(C, n) /\ h[v].refcount \in Int
      BY <1>1, <1>3, HeapTypes DEF Plain
    <2>2. g = Less(h, v)
      BY <2>1 DEF Less
    <2> DEFINE y == [h[v] EXCEPT !.refcount = @ - 1]
    <2>3. /\ y.cls = h[v].cls /\ y.fields = h[v].fields /\ y.live = h[v].live
          /\ y.refcount = h[v].refcount - 1 /\ DOMAIN y = {"cls", "refcount", "live", "fields"}
          /\ y \in Insts(C, n)
      <3>1. h[v].refcount - 1 \in Int
        BY <2>1
      <3>2. QED
        BY <2>1, <3>1, Recount
    <2>4. Less(h, v)[v] = y /\ DOMAIN Less(h, v) = DOMAIN h /\ \A j \in DOMAIN h : j # v => Less(h, v)[j] = h[j]
      <3>1. \A z : /\ [h EXCEPT ![v] = z][v] = z /\ DOMAIN [h EXCEPT ![v] = z] = DOMAIN h
                   /\ \A j \in DOMAIN h : j # v => [h EXCEPT ![v] = z][j] = h[j]
        BY <2>1
      <3>2. Less(h, v) = [h EXCEPT ![v] = y]
        BY DEF Less
      <3> HIDE DEF y
      <3>3. QED
        BY <3>1, <3>2
    <2>5. ClearNext(s) = IF g[v].refcount <= 0 /\ g[v].live
                         THEN [h |-> [g EXCEPT ![v].live = FALSE,
                                               ![v].fields = [k \in DOMAIN @ |-> Plain]],
                               todo |-> g[v].fields \o Tail(vs)]
                         ELSE [h |-> g, todo |-> Tail(vs)]
      BY <1>3 DEF ClearNext, IsInst
    <2> HIDE DEF y
    <2>6. g[v].refcount <= 0 <=> h[v].refcount <= 1
      BY <2>1, <2>2, <2>3, <2>4
    <2>7. g[v].live = h[v].live /\ g[v].fields = h[v].fields
      BY <2>2, <2>3, <2>4
    <2>8. [g EXCEPT ![v].live = FALSE, ![v].fields = [k \in DOMAIN @ |-> Plain]] = Gone(h, v)
      <3> DEFINE z == [y EXCEPT !.live = FALSE, !.fields = [k \in DOMAIN @ |-> Plain]]
      <3>1. [g EXCEPT ![v].live = FALSE, ![v].fields = [k \in DOMAIN @ |-> Plain]]
            = [g EXCEPT ![v] = z]
        <4> HIDE DEF g
        <4>1. g = Less(h, v) /\ g[v] = y /\ v \in DOMAIN g
          BY <2>1, <2>2, <2>4
        <4>2. QED
          BY <4>1
      <3>2. z = Bare(h[v])
        <4>1. z = [cls |-> y.cls, refcount |-> y.refcount, live |-> FALSE,
                   fields |-> [k \in DOMAIN y.fields |-> Plain]]
          <5>1. y \in Insts(C, n)
            BY <2>3
          <5>2. PICK x \in Insts(C, n) : x = y
            BY <5>1
          <5>3. [x EXCEPT !.live = FALSE, !.fields = [k \in DOMAIN @ |-> Plain]]
                = [cls |-> x.cls, refcount |-> x.refcount, live |-> FALSE,
                   fields |-> [k \in DOMAIN x.fields |-> Plain]]
            BY BareIs
          <5>4. QED
            BY <5>2, <5>3, Zenon
        <4>2. y.cls = h[v].cls /\ y.fields = h[v].fields /\ y.refcount = h[v].refcount - 1
          BY <2>3
        <4>3. QED
          BY <4>1, <4>2, Zenon DEF Bare
      <3> HIDE DEF z
      <3>3. [g EXCEPT ![v] = z] = [h EXCEPT ![v] = z]
        BY <2>1, <2>2, <2>4
      <3>4. QED
        BY <2>1, <3>1, <3>2, <3>3 DEF Gone
    <2>9. QED
      BY <1>3, <2>2, <2>5, <2>6, <2>7, <2>8
  <1>4. QED
    BY <1>2, <1>3

\* A state of the clearing of a list, in a heap like h0
Way(C, n, h0, s) ==
    /\ s = [h |-> s.h, todo |-> s.todo]
    /\ s.h \in Heaps(C, n) /\ s.todo \in Seq(0..n)
    /\ Same(s.h, h0)

\* Instances that are the same as ones that are the same
LEMMA SameAgain ==
    ASSUME NEW f, NEW g, NEW h, Same(f, g), Same(g, h)
    PROVE  Same(f, h)
  BY DEF Same

\* An instance that has one reference less, and one that is destroyed
LEMMA LessTypes ==
    ASSUME NEW C, NEW n \in Nat, NEW h \in Heaps(C, n), NEW v \in 1..n
    PROVE  /\ Less(h, v) \in Heaps(C, n) /\ Same(Less(h, v), h)
           /\ Gone(h, v) \in Heaps(C, n) /\ Same(Gone(h, v), h)
           /\ \A i \in 1..n : i # v => Less(h, v)[i] = h[i] /\ Gone(h, v)[i] = h[i]
           /\ Less(h, v)[v].refcount = h[v].refcount - 1 /\ Less(h, v)[v].live = h[v].live
           /\ Less(h, v)[v].fields = h[v].fields
           /\ Gone(h, v)[v] = Bare(h[v])
           /\ Bare(h[v]).refcount = h[v].refcount - 1 /\ Bare(h[v]).live = FALSE
           /\ Bare(h[v]).fields = [k \in DOMAIN h[v].fields |-> Plain]
  <1>1. /\ h[v] \in Insts(C, n) /\ h[v].refcount - 1 \in Int /\ h[v].cls \in C
        /\ h[v].fields \in Seq(0..n) /\ DOMAIN h = 1..n
    BY HeapTypes
  <1> DEFINE y == [h[v] EXCEPT !.refcount = @ - 1]
             b == Bare(h[v])
  <1>2. y \in Insts(C, n) /\ y.cls = h[v].cls /\ y.fields = h[v].fields /\ y.live = h[v].live
        /\ y.refcount = h[v].refcount - 1
    BY <1>1, Recount
  <1>3. Less(h, v) = [h EXCEPT ![v] = y]
    BY DEF Less
  <1>4. /\ b.cls = h[v].cls /\ b.refcount = h[v].refcount - 1 /\ b.live = FALSE
        /\ b.fields = [k \in DOMAIN h[v].fields |-> Plain]
    BY DEF Bare
  <1>5. b.fields \in Seq(0..n) /\ Len(b.fields) = Len(h[v].fields)
    <2>1. PICK q \in Seq(0..n) : q = h[v].fields
      BY <1>1
    <2>2. [k \in DOMAIN q |-> Plain] \in Seq(0..n) /\ Len([k \in DOMAIN q |-> Plain]) = Len(q)
      BY DEF Plain
    <2>3. QED
      BY <1>4, <2>1, <2>2
  <1>6. b \in Insts(C, n)
    <2> DEFINE Fs == Seq(0..n)
    <2>1. b.cls \in C /\ b.refcount \in Int /\ b.fields \in Fs
      BY <1>1, <1>4, <1>5
    <2> HIDE DEF Fs
    <2>2. b = [cls |-> h[v].cls, refcount |-> h[v].refcount - 1, live |-> FALSE, fields |-> b.fields]
      BY <1>4, Zenon DEF Bare
    <2>3. \A x1 \in C, x2 \in Int, x3 \in BOOLEAN, x4 \in Fs :
             [cls |-> x1, refcount |-> x2, live |-> x3, fields |-> x4]
             \in [cls : C, refcount : Int, live : BOOLEAN, fields : Fs]
      OBVIOUS
    <2>4. FALSE \in BOOLEAN
      OBVIOUS
    <2> HIDE DEF b
    <2>5. b \in [cls : C, refcount : Int, live : BOOLEAN, fields : Fs]
      BY <1>1, <2>1, <2>2, <2>3, <2>4, Zenon
    <2>6. QED
      BY <2>5 DEF Insts, Fs
  <1> HIDE DEF y, b
  <1>7. Gone(h, v) = [h EXCEPT ![v] = b]
    BY DEF Gone, b
  <1>8. /\ [h EXCEPT ![v] = y] \in Heaps(C, n) /\ Same([h EXCEPT ![v] = y], h)
        /\ [h EXCEPT ![v] = b] \in Heaps(C, n) /\ Same([h EXCEPT ![v] = b], h)
    BY <1>2, <1>4, <1>5, <1>6, HeapPut
  <1>9. \A z : [h EXCEPT ![v] = z][v] = z /\ \A i \in 1..n : i # v => [h EXCEPT ![v] = z][i] = h[i]
    BY <1>1
  <1>10. QED
    BY <1>2, <1>3, <1>4, <1>7, <1>8, <1>9 DEF b

\* One value cleared
LEMMA WayStep ==
    ASSUME NEW C, NEW n \in Nat, NEW h0, NEW s, Way(C, n, h0, s)
    PROVE  Way(C, n, h0, Cleared(s))
  <1>1. CASE s.todo = <<>>
    BY <1>1 DEF Cleared
  <1>2. CASE s.todo # <<>>
    <2>1. PICK h, vs : h = s.h /\ vs = s.todo
      OBVIOUS
    <2>2. s = [h |-> h, todo |-> vs] /\ h \in Heaps(C, n) /\ vs \in Seq(0..n) /\ vs # <<>> /\ Same(h, h0)
      BY <1>2, <2>1 DEF Way
    <2>3. Cleared(s) = ClearNext([h |-> h, todo |-> vs])
      BY <1>2, <2>2 DEF Cleared
    <2> DEFINE v == Head(vs)
    <2>4. v \in 0..n /\ Tail(vs) \in Seq(0..n)
      BY <2>2, HeadAndTail
    <2>5. ASSUME NEW g \in Heaps(C, n), NEW us \in Seq(0..n), Same(g, h),
                 Cleared(s) = [h |-> g, todo |-> us]
          PROVE  Way(C, n, h0, Cleared(s))
      <3>1. Same(g, h0)
        BY <2>2, <2>5, SameAgain
      <3>2. QED
        BY <2>5, <3>1 DEF Way
    <2>6. CASE v = Plain
      <3>1. Cleared(s) = [h |-> h, todo |-> Tail(vs)]
        BY <2>2, <2>3, <2>6, NextIs
      <3>2. Same(h, h)
        BY DEF Same
      <3>3. QED
        BY <2>2, <2>4, <2>5, <3>1, <3>2
    <2>7. CASE v # Plain
      <3>1. v \in 1..n
        BY <2>4, <2>7 DEF Plain
      <3> HIDE DEF v
      <3>2. h[v].fields \in Seq(0..n)
        BY <2>2, <3>1, HeapTypes
      <3>3. h[v].fields \o Tail(vs) \in Seq(0..n)
        BY <2>4, <3>2, ConcatProperties
      <3>4. CASE h[v].refcount <= 1 /\ h[v].live
        <4>1. Cleared(s) = [h |-> Gone(h, v), todo |-> h[v].fields \o Tail(vs)]
          BY <2>2, <2>3, <2>7, <3>4, NextIs DEF v
        <4>2. Gone(h, v) \in Heaps(C, n) /\ Same(Gone(h, v), h)
          BY <2>2, <3>1, LessTypes
        <4>3. QED
          BY <2>5, <3>3, <4>1, <4>2
      <3>5. CASE ~(h[v].refcount <= 1 /\ h[v].live)
        <4>1. Cleared(s) = [h |-> Less(h, v), todo |-> Tail(vs)]
          BY <2>2, <2>3, <2>7, <3>5, NextIs DEF v
        <4>2. Less(h, v) \in Heaps(C, n) /\ Same(Less(h, v), h)
          BY <2>2, <3>1, LessTypes
        <4>3. QED
          BY <2>4, <2>5, <4>1, <4>2
      <3>6. QED
        BY <3>4, <3>5
    <2>8. QED
      BY <2>6, <2>7
  <1>3. QED
    BY <1>1, <1>2

\* The number of steps of a clearing
LEMMA WorkNat ==
    ASSUME NEW C, NEW n \in Nat, NEW h \in Heaps(C, n), NEW vs \in Seq(0..n)
    PROVE  Len(vs) + Cardinality(FieldsIn(h)) \in Nat /\ IsFiniteSet(FieldsIn(h))
  <1> DEFINE D(i) == {i} \X (DOMAIN h[i].fields)
  <1>1. DOMAIN h = 1..n /\ \A i \in 1..n : h[i].fields \in Seq(0..n)
    BY HeapTypes
  <1>2. ASSUME NEW i \in 1..n PROVE IsFiniteSet(D(i))
    <2>1. PICK q \in Seq(0..n) : q = h[i].fields
      BY <1>1
    <2>2. DOMAIN q = 1..Len(q) /\ Len(q) \in Nat
      OBVIOUS
    <2>3. IsFiniteSet(DOMAIN q)
      BY <2>2, FS_Interval
    <2>4. IsFiniteSet({i})
      BY FS_Singleton
    <2>5. QED
      BY <2>1, <2>3, <2>4, FS_Product
  <1> HIDE DEF D
  <1> DEFINE T == {D(i) : i \in 1..n}
  <1>3. IsFiniteSet(T)
    <2>1. IsFiniteSet(1..n)
      BY FS_Interval
    <2> DEFINE f == [i \in 1..n |-> D(i)]
    <2>2. f \in Surjection(1..n, T)
      BY DEF Surjection
    <2>3. QED
      BY <2>1, <2>2, FS_Surjection
  <1>4. IsFiniteSet(UNION T)
    BY <1>2, <1>3, FS_UNION
  <1>5. FieldsIn(h) = UNION T
    BY <1>1 DEF FieldsIn, D
  <1>6. Cardinality(FieldsIn(h)) \in Nat
    BY <1>4, <1>5, FS_CardinalityType
  <1>7. Len(vs) \in Nat
    OBVIOUS
  <1>8. QED
    BY <1>4, <1>5, <1>6, <1>7

\* What a clearing leaves of a heap is of the same shape
LEMMA ClearTypes ==
    ASSUME NEW C, NEW n \in Nat, NEW h \in Heaps(C, n), NEW vs \in Seq(0..n)
    PROVE  varClear(h, vs) \in Heaps(C, n) /\ Same(varClear(h, vs), h)
  <1> DEFINE w == Len(vs) + Cardinality(FieldsIn(h))
             s == [h |-> h, todo |-> vs]
             r == Clearing(s, w)
             S == {k \in Nat : k <= w => Way(C, n, h, r[k])}
  <1>1. w \in Nat
    BY WorkNat
  <1> HIDE DEF w
  <1>2. r[0] = s /\ \A k \in 0..(w - 1) : r[k + 1] = Cleared(r[k])
    BY <1>1, ClearingSteps
  <1>3. Way(C, n, h, s)
    BY DEF Way, Same
  <1> HIDE DEF r, s
  <1>4. 0 \in S
    BY <1>2, <1>3
  <1>5. ASSUME NEW k \in S PROVE k + 1 \in S
    <2>1. SUFFICES ASSUME k + 1 <= w PROVE Way(C, n, h, r[k + 1])
      OBVIOUS
    <2>2. k \in Nat /\ k \in 0..(w - 1) /\ k <= w
      BY <1>1, <2>1
    <2>3. r[k + 1] = Cleared(r[k]) /\ Way(C, n, h, r[k])
      BY <1>2, <2>2
    <2>4. QED
      BY <2>3, WayStep
  <1>6. S = Nat
    <2> HIDE DEF S
    <2>1. S \in SUBSET Nat
      BY DEF S
    <2>2. QED
      BY <1>4, <1>5, <2>1, Induction
  <1>7. w \in S /\ w <= w
    BY <1>1, <1>6
  <1>8. Way(C, n, h, r[w])
    BY <1>7
  <1>9. varClear(h, vs) = r[w].h
    BY DEF varClear, r, s, w
  <1>10. QED
    BY <1>8, <1>9 DEF Way

\* An assignment
LEMMA AssignTypes ==
    ASSUME NEW C, NEW n \in Nat, NEW h \in Heaps(C, n), NEW old \in 0..n, NEW new \in 0..n
    PROVE  varAssign(h, old, new) \in Heaps(C, n) /\ Same(varAssign(h, old, new), h)
  <1>1. <<old>> \in Seq(0..n)
    OBVIOUS
  <1>2. varClear(h, <<old>>) \in Heaps(C, n) /\ Same(varClear(h, <<old>>), h)
    BY <1>1, ClearTypes
  <1>3. QED
    BY <1>2, RefTypes, SameAgain DEF varAssign

-----------------------------------------------------------------------------
(* Activations                                                             *)

\* A name and a number of arguments.  That a literal is a string is not known to
\* the provers.
Signatures == (STRING \cup {"main", "undeclared", Init0}) \X Nat

\* What an activation is, for the classes C and n instances
Frames(C, n)     == {f \in [k : {"frame"}, ctx : C, def : C, sig : Signatures,
                            owned : BOOLEAN, base : Nat, locals : Seq(0..n)] :
                        Len(f.locals) >= 2}
Internals(C, n)  == [k : {"internal"}, inst : 1..n, todo : Seq(C), args : Seq(0..n),
                     byhost : BOOLEAN]
Constructs(C, n) == [k : {"construct"}, inst : 1..n, jsp : C, argc : Nat,
                     at : {"base", "self", "called"}]
Hosts(C, n)      == [k : {"host"}, inst : 1..n, jsp : C, argc : Nat, retry : BOOLEAN,
                     at : {"call", "called"}]
Waits(n)         == [k : {"call"}, inst : 1..n] \cup [k : {"run"}]
Acts(C, n) == Frames(C, n) \cup Internals(C, n) \cup Constructs(C, n) \cup Hosts(C, n)
              \cup Waits(n)

\* Where the part of the stack begins that an activation may use
Low(a) == IF a.k = "frame" THEN a.base ELSE 0

\* The instance that an activation constructs is on the stack at q, with its
\* arguments after it, above what the callers have there and below what the
\* constructors may use.
Sits(st, ac, n, q) ==
    /\ st[q] = ac[n].inst /\ q + ac[n].argc <= Len(st)
    /\ \A m \in 1..(n - 1) : Low(ac[m]) < q
    /\ \A l \in (n + 1)..Len(ac) : ac[l].k = "frame" => q + ac[n].argc <= ac[l].base

\* The parts of the stack are in the order of the activations
Layered(st, ac) ==
    /\ \A n \in 1..Len(ac) : Low(ac[n]) <= Len(st)
    /\ \A m, n \in 1..Len(ac) : m < n /\ ac[n].k = "frame" => Low(ac[m]) <= ac[n].base
    /\ \A n \in 1..Len(ac) :
          ac[n].k \in {"construct", "host"} => \E q \in 1..Len(st) : Sits(st, ac, n, q)

\* The host is at the bottom, and only there.  An instance is made by a frame,
\* from what is in its locals, and constructed class by class; D is how far a
\* class is from its root.
Bottom(a) == a.k \in {"run", "host", "call"} \/ (a.k = "internal" /\ a.byhost)
Based(D, h, ac) ==
    /\ \A n \in 1..Len(ac) : Bottom(ac[n]) <=> n = 1
    /\ \A n \in 1..Len(ac) : ac[n].k = "internal" =>
          IF ac[n].byhost THEN \A j \in 1..Len(ac[n].args) : ac[n].args[j] = Plain
          ELSE /\ ac[n - 1].k = "frame"
               /\ \A j \in 1..Len(ac[n].args) :
                     \E i \in 1..Len(ac[n - 1].locals) : ac[n].args[j] = ac[n - 1].locals[i]
    /\ \A n \in 1..Len(ac) : ac[n].k = "construct" =>
          /\ ac[n - 1].k \in {"frame", "construct"}
          /\ D[ac[n].jsp] <= D[h[ac[n].inst].cls]
          /\ ac[n - 1].k = "construct" => D[ac[n].jsp] < D[h[ac[n].inst].cls]

\* The heap, the stack and the activations together
State(C, D, h, st, ac) ==
    /\ D \in [C -> Nat]
    /\ h \in Heaps(C, Len(h)) /\ st \in Seq(0..Len(h)) /\ ac \in Seq(Acts(C, Len(h)))
    /\ Layered(st, ac) /\ Based(D, h, ac)

Depths == [c \in Classes |-> Len(Chain(c))]

\* An instance has at least the fields of its own class.
Roomy(h) == \A i \in 1..Len(h) : Decl(h[i].cls).nfields <= Len(h[i].fields)

TypeInv ==
    /\ State(Classes, Depths, heap, stack, acts) /\ Roomy(heap)
    /\ host \in [inst : 0..Len(heap), refs : Nat]
    /\ err = "EXCEPTION" => stack # <<>>
    /\ acts # <<>> \/ missed # {} => Ready

\* What is known of each kind of activation
LEMMA ActTypes ==
    ASSUME NEW C, NEW n \in Nat, NEW a \in Acts(C, n)
    PROVE  /\ a.k \in {"frame", "internal", "construct", "host", "call", "run"}
           /\ a.k = "frame" => a \in Frames(C, n)
           /\ a.k = "internal" => a \in Internals(C, n)
           /\ a.k = "construct" => a \in Constructs(C, n)
           /\ a.k = "host" => a \in Hosts(C, n)
           /\ a.k = "call" => a \in Waits(n)
           /\ a.k = "run" => a \in Waits(n)
  <1>1. \A x \in Frames(C, n) : x.k = "frame"
    <2> DEFINE L == Seq(0..n)
               S == Signatures
    <2> SUFFICES ASSUME NEW x \in Frames(C, n) PROVE x.k = "frame"
      OBVIOUS
    <2>1. x \in [k : {"frame"}, ctx : C, def : C, sig : S, owned : BOOLEAN, base : Nat, locals : L]
      BY DEF Frames
    <2> HIDE DEF L, S
    <2>2. QED
      BY <2>1
  <1>2. \A x \in Internals(C, n) : x.k = "internal"
    <2> SUFFICES ASSUME NEW x \in Internals(C, n) PROVE x.k = "internal"
      OBVIOUS
    <2> DEFINE L == Seq(0..n)
               S == Seq(C)
    <2>1. x \in [k : {"internal"}, inst : 1..n, todo : S, args : L, byhost : BOOLEAN]
      BY DEF Internals
    <2> HIDE DEF L, S
    <2>2. QED
      BY <2>1
  <1>3. \A x \in Constructs(C, n) : x.k = "construct"
    BY DEF Constructs
  <1>4. \A x \in Hosts(C, n) : x.k = "host"
    BY DEF Hosts
  <1>5. \A x \in Waits(n) : x.k = "call" \/ x.k = "run"
    BY DEF Waits
  <1>6. QED
    BY <1>1, <1>2, <1>3, <1>4, <1>5 DEF Acts

\* The fields of a frame
LEMMA FrameTypes ==
    ASSUME NEW C, NEW n \in Nat, NEW a \in Frames(C, n)
    PROVE  /\ a.k = "frame" /\ a.ctx \in C /\ a.def \in C /\ a.sig \in Signatures
           /\ a.owned \in BOOLEAN /\ a.base \in Nat /\ a.locals \in Seq(0..n)
           /\ Len(a.locals) \in Nat /\ Len(a.locals) >= 2 /\ DOMAIN a.locals = 1..Len(a.locals)
           /\ \A j \in 1..Len(a.locals) : a.locals[j] \in 0..n
           /\ DOMAIN a = {"k", "ctx", "def", "sig", "owned", "base", "locals"}
  <1> DEFINE L == Seq(0..n)
             S == Signatures
  <1>1. /\ a \in [k : {"frame"}, ctx : C, def : C, sig : S, owned : BOOLEAN, base : Nat, locals : L]
        /\ Len(a.locals) >= 2
    BY DEF Frames
  <1> HIDE DEF L, S
  <1>2. /\ a.k = "frame" /\ a.ctx \in C /\ a.def \in C /\ a.sig \in S
        /\ a.owned \in BOOLEAN /\ a.base \in Nat /\ a.locals \in L
        /\ DOMAIN a = {"k", "ctx", "def", "sig", "owned", "base", "locals"}
    BY <1>1
  <1>3. \A q \in L : Len(q) \in Nat /\ DOMAIN q = 1..Len(q) /\ \A j \in 1..Len(q) : q[j] \in 0..n
    BY DEF L
  <1>4. QED
    BY <1>1, <1>2, <1>3 DEF L, S

\* The fields of the other activations
LEMMA InternalTypes ==
    ASSUME NEW C, NEW n \in Nat, NEW a \in Internals(C, n)
    PROVE  /\ a.k = "internal" /\ a.inst \in 1..n /\ a.todo \in Seq(C)
           /\ a.args \in Seq(0..n) /\ a.byhost \in BOOLEAN
           /\ Len(a.args) \in Nat /\ \A j \in 1..Len(a.args) : a.args[j] \in 0..n
           /\ DOMAIN a = {"k", "inst", "todo", "args", "byhost"}
  <1> DEFINE L == Seq(0..n)
             S == Seq(C)
  <1>1. a \in [k : {"internal"}, inst : 1..n, todo : S, args : L, byhost : BOOLEAN]
    BY DEF Internals
  <1> HIDE DEF L, S
  <1>2. /\ a.k = "internal" /\ a.inst \in 1..n /\ a.todo \in S /\ a.args \in L /\ a.byhost \in BOOLEAN
        /\ DOMAIN a = {"k", "inst", "todo", "args", "byhost"}
    BY <1>1
  <1>3. \A q \in L : Len(q) \in Nat /\ \A j \in 1..Len(q) : q[j] \in 0..n
    BY DEF L
  <1>4. QED
    BY <1>2, <1>3 DEF L, S

\* A constructor that waits for others, and a host or a call
LEMMA WaitTypes ==
    ASSUME NEW C, NEW n \in Nat
    PROVE  /\ \A a \in Constructs(C, n) :
                 /\ a.k = "construct" /\ a.inst \in 1..n /\ a.jsp \in C /\ a.argc \in Nat
                 /\ a.at \in {"base", "self", "called"}
                 /\ DOMAIN a = {"k", "inst", "jsp", "argc", "at"}
           /\ \A a \in Hosts(C, n) :
                 /\ a.k = "host" /\ a.inst \in 1..n /\ a.jsp \in C /\ a.argc \in Nat
                 /\ a.retry \in BOOLEAN /\ a.at \in {"call", "called"}
                 /\ DOMAIN a = {"k", "inst", "jsp", "argc", "retry", "at"}
           /\ \A a \in Waits(n) : /\ a.k \in {"call", "run"}
                                  /\ a.k = "call" => a.inst \in 1..n
                                  /\ a.k = "run" => a \in [k : {"run"}]
  BY DEF Constructs, Hosts, Waits

-----------------------------------------------------------------------------
(* What keeps the heap, the stack and the activations in order             *)

\* What is known of a state
LEMMA StateTypes ==
    ASSUME NEW C, NEW D, NEW h, NEW st, NEW ac, State(C, D, h, st, ac)
    PROVE  /\ Len(h) \in Nat /\ DOMAIN h = 1..Len(h)
           /\ Len(st) \in Nat /\ DOMAIN st = 1..Len(st) /\ \A q \in 1..Len(st) : st[q] \in 0..Len(h)
           /\ Len(ac) \in Nat /\ DOMAIN ac = 1..Len(ac)
           /\ \A k \in 1..Len(ac) : ac[k] \in Acts(C, Len(h)) /\ Low(ac[k]) \in Nat
           /\ \A i \in 1..Len(h) : h[i].cls \in C
  <1> DEFINE A == Acts(C, Len(h))
  <1>1. h \in Heaps(C, Len(h)) /\ st \in Seq(0..Len(h)) /\ ac \in Seq(A)
    BY DEF State
  <1>2. Len(h) \in Nat
    <2>1. h \in Seq(Insts(C, Len(h)))
      BY <1>1 DEF Heaps
    <2>2. QED
      BY <2>1
  <1> HIDE DEF A
  <1>3. Len(ac) \in Nat /\ DOMAIN ac = 1..Len(ac) /\ \A k \in 1..Len(ac) : ac[k] \in A
    BY <1>1
  <1>4. Len(st) \in Nat /\ DOMAIN st = 1..Len(st) /\ \A q \in 1..Len(st) : st[q] \in 0..Len(h)
    BY <1>1
  <1>5. ASSUME NEW a \in A PROVE Low(a) \in Nat
    <2>1. CASE a.k = "frame"
      <3>1. a \in Frames(C, Len(h))
        BY <1>2, <2>1, ActTypes DEF A
      <3>2. a.base \in Nat
        BY <1>2, <3>1, FrameTypes
      <3>3. QED
        BY <2>1, <3>2 DEF Low
    <2>2. CASE a.k # "frame"
      BY <2>2 DEF Low
    <2>3. QED
      BY <2>1, <2>2
  <1>6. DOMAIN h = 1..Len(h) /\ \A i \in 1..Len(h) : h[i].cls \in C
    BY <1>1, <1>2, HeapTypes
  <1>7. QED
    BY <1>2, <1>3, <1>4, <1>5, <1>6 DEF A

\* The stack above what all activations but the running frame use may change
LEMMA StackAbove ==
    ASSUME NEW C, NEW D, NEW h, NEW st, NEW ac, State(C, D, h, st, ac),
           NEW b \in Nat, NEW st2 \in Seq(0..Len(h)), Len(st2) >= b,
           \A q \in 1..b : q \in 1..Len(st) => st2[q] = st[q],
           ac # <<>> => b >= Low(ac[Len(ac)]),
           b < Len(st) => ac # <<>> /\ ac[Len(ac)].k = "frame"
    PROVE  State(C, D, h, st2, ac)
  <1>1. /\ Len(st) \in Nat /\ Len(ac) \in Nat /\ \A q \in 1..Len(st) : st[q] \in 0..Len(h)
        /\ \A k \in 1..Len(ac) : ac[k] \in Acts(C, Len(h)) /\ Low(ac[k]) \in Nat
    BY StateTypes
  <1>2. Len(st2) \in Nat
    OBVIOUS
  <1>3. Layered(st, ac)
    BY DEF State
  <1>4. ac # <<>> <=> Len(ac) > 0
    <2>1. ac \in Seq(Acts(C, Len(h)))
      BY DEF State
    <2> DEFINE A == Acts(C, Len(h))
    <2> HIDE DEF A
    <2>2. ac \in Seq(A)
      BY <2>1 DEF A
    <2>3. QED
      BY <2>2
  <1>5. CASE b >= Len(st)
    <2>1. \A q \in 1..Len(st) : st2[q] = st[q] /\ q \in 1..Len(st2)
      BY <1>1, <1>2, <1>5
    <2>2. Len(st2) >= Len(st)
      BY <1>1, <1>2, <1>5
    <2>3. ASSUME NEW n \in 1..Len(ac), NEW q \in 1..Len(st), ac[n].argc \in Nat, Sits(st, ac, n, q)
          PROVE  Sits(st2, ac, n, q)
      <3>1. /\ st[q] = ac[n].inst /\ q + ac[n].argc <= Len(st)
            /\ \A m \in 1..(n - 1) : Low(ac[m]) < q
            /\ \A l \in (n + 1)..Len(ac) : ac[l].k = "frame" => q + ac[n].argc <= ac[l].base
        BY <2>3 DEF Sits
      <3>2. st2[q] = ac[n].inst
        BY <2>1, <3>1
      <3>3. PICK y : y = ac[n].argc
        OBVIOUS
      <3>4. y \in Nat /\ q + y <= Len(st)
        BY <2>3, <3>1, <3>3
      <3>5. q + y <= Len(st2)
        BY <1>1, <1>2, <2>2, <3>4
      <3>6. QED
        BY <3>1, <3>2, <3>3, <3>5 DEF Sits
    <2>4. ASSUME NEW n \in 1..Len(ac), ac[n].k \in {"construct", "host"}
          PROVE  \E q \in 1..Len(st2) : Sits(st2, ac, n, q)
      <3>1. PICK q \in 1..Len(st) : Sits(st, ac, n, q)
        BY <1>3, <2>4 DEF Layered
      <3>2. ac[n].argc \in Nat
        BY <1>1, <2>4, ActTypes, WaitTypes, StateTypes
      <3>3. QED
        BY <2>1, <2>3, <3>1, <3>2
    <2>5. Layered(st2, ac)
      <3>1. \A n \in 1..Len(ac) : Low(ac[n]) <= Len(st2)
        <4>1. \A n \in 1..Len(ac) : Low(ac[n]) <= Len(st) /\ Low(ac[n]) \in Nat
          BY <1>1, <1>3 DEF Layered
        <4>2. QED
          BY <1>1, <1>2, <2>2, <4>1
      <3>2. \A m, n \in 1..Len(ac) : m < n /\ ac[n].k = "frame" => Low(ac[m]) <= ac[n].base
        BY <1>3 DEF Layered
      <3>3. QED
        BY <2>4, <3>1, <3>2 DEF Layered
    <2>6. QED
      BY <2>5 DEF State
  <1>6. CASE b < Len(st)
    <2>1. Len(ac) > 0 /\ ac[Len(ac)].k = "frame" /\ b >= Low(ac[Len(ac)])
      BY <1>4, <1>6
    <2>2. Low(ac[Len(ac)]) = ac[Len(ac)].base /\ Low(ac[Len(ac)]) \in Nat /\ Len(ac) \in 1..Len(ac)
      BY <1>1, <2>1 DEF Low
    <2>3. ASSUME NEW n \in 1..Len(ac) PROVE Low(ac[n]) <= b
      <3>1. n # Len(ac) => Low(ac[n]) <= ac[Len(ac)].base
        BY <1>1, <1>3, <2>1, <2>2 DEF Layered
      <3>2. QED
        BY <1>1, <2>1, <2>2, <3>1
    <2>4. ASSUME NEW n \in 1..Len(ac), ac[n].k \in {"construct", "host"}
          PROVE  \E q \in 1..Len(st2) : Sits(st2, ac, n, q)
      <3>1. PICK q \in 1..Len(st) : Sits(st, ac, n, q)
        BY <1>3, <2>4 DEF Layered
      <3>2. ac[n].argc \in Nat
        BY <1>1, <2>4, ActTypes, WaitTypes, StateTypes
      <3>3. n # Len(ac) /\ Len(ac) \in (n + 1)..Len(ac)
        BY <1>1, <2>1, <2>4
      <3>4. q + ac[n].argc <= ac[Len(ac)].base
        BY <2>1, <3>1, <3>3 DEF Sits
      <3>5. q + ac[n].argc <= b /\ q \in 1..b /\ q \in 1..Len(st2)
        <4>1. q \in Nat /\ q >= 1 /\ ac[n].argc \in Nat /\ ac[Len(ac)].base \in Nat
          BY <1>1, <2>2, <3>2
        <4>2. ac[Len(ac)].base <= b
          BY <2>1, <2>2
        <4>3. q + ac[n].argc <= b
          BY <3>4, <4>1, <4>2
        <4>4. q <= b
          BY <4>1, <4>3
        <4>5. QED
          BY <1>2, <4>1, <4>3, <4>4
      <3>6. Sits(st2, ac, n, q)
        <4>1. st2[q] = ac[n].inst
          BY <3>1, <3>5 DEF Sits
        <4>2. PICK x : x = q + ac[n].argc
          OBVIOUS
        <4>3. x \in Int /\ x <= b
          BY <3>2, <3>5, <4>2
        <4>4. x <= Len(st2)
          BY <1>2, <4>3
        <4>5. q + ac[n].argc <= Len(st2)
          BY <4>2, <4>4
        <4>6. QED
          BY <3>1, <4>1, <4>5 DEF Sits
      <3>7. QED
        BY <3>5, <3>6
    <2>5. Layered(st2, ac)
      <3>1. ASSUME NEW n \in 1..Len(ac) PROVE Low(ac[n]) <= Len(st2)
        BY <1>1, <1>2, <2>3
      <3>2. \A m, n \in 1..Len(ac) : m < n /\ ac[n].k = "frame" => Low(ac[m]) <= ac[n].base
        BY <1>3 DEF Layered
      <3>3. QED
        BY <2>4, <3>1, <3>2 DEF Layered
    <2>6. QED
      BY <2>5 DEF State
  <1>7. QED
    BY <1>1, <1>5, <1>6

\* Instances that are the same
LEMMA HeapSame ==
    ASSUME NEW C, NEW D, NEW h, NEW st, NEW ac, State(C, D, h, st, ac),
           NEW g \in Heaps(C, Len(h)), Same(g, h)
    PROVE  State(C, D, g, st, ac) /\ Len(g) = Len(h)
  <1>1. Len(h) \in Nat /\ DOMAIN h = 1..Len(h)
    BY StateTypes
  <1>2. Len(g) = Len(h)
    BY <1>1, HeapTypes
  <1>3. \A i \in 1..Len(h) : g[i].cls = h[i].cls
    BY <1>1 DEF Same
  <1>4. ASSUME NEW n \in 1..Len(ac), ac[n].k = "construct"
        PROVE  g[ac[n].inst].cls = h[ac[n].inst].cls
    <2>1. ac[n].inst \in 1..Len(h)
      BY <1>1, <1>4, StateTypes, ActTypes, WaitTypes
    <2>2. QED
      BY <1>3, <2>1
  <1>5. Based(D, g, ac)
    <2>1. Based(D, h, ac)
      BY DEF State
    <2>2. QED
      BY <1>4, <2>1 DEF Based
  <1>6. QED
    BY <1>2, <1>5 DEF State

-----------------------------------------------------------------------------
(* Activations that come, go and change                                    *)

\* The activation on top goes on, with the instance and no more arguments
LEMMA AlterTop ==
    ASSUME NEW C, NEW D, NEW h, NEW st, NEW ac, State(C, D, h, st, ac), ac # <<>>,
           NEW t, t = ac[Len(ac)], NEW a \in Acts(C, Len(h)), a.k = t.k,
           a.k = "frame" => a.base = t.base,
           a.k \in {"construct", "host"} => a.inst = t.inst /\ a.argc <= t.argc,
           a.k = "internal" => a.byhost = t.byhost /\ a.args = t.args,
           a.k = "construct" => a.jsp = t.jsp
    PROVE  State(C, D, h, st, [ac EXCEPT ![Len(ac)] = a])
  <1> DEFINE A == Acts(C, Len(h))
             m == Len(ac)
             bc == [ac EXCEPT ![m] = a]
  <1>1. /\ Len(h) \in Nat /\ Len(st) \in Nat /\ m \in Nat
        /\ \A k \in 1..m : ac[k] \in A /\ Low(ac[k]) \in Nat
    BY StateTypes
  <1>2. Layered(st, ac) /\ Based(D, h, ac) /\ ac \in Seq(A) /\ a \in A
    BY DEF State
  <1>3. /\ m \in 1..m /\ bc \in Seq(A) /\ Len(bc) = m /\ bc[m] = a
        /\ \A n \in 1..m : n # m => bc[n] = ac[n]
    <2> HIDE DEF A
    <2>1. QED
      BY <1>2
  <1> HIDE DEF bc
  <1>4. /\ \A n \in 1..m : /\ bc[n].k = ac[n].k /\ Low(bc[n]) = Low(ac[n])
                           /\ bc[n].k = "frame" => bc[n].base = ac[n].base
    BY <1>3 DEF Low
  <1>5. ASSUME NEW n \in 1..m, ac[n].k \in {"construct", "host"}
        PROVE  \E q \in 1..Len(st) : Sits(st, bc, n, q)
    <2>1. PICK q \in 1..Len(st) : Sits(st, ac, n, q)
      BY <1>2, <1>5 DEF Layered
    <2>2. bc[n].inst = ac[n].inst /\ bc[n].argc <= ac[n].argc /\ bc[n].argc \in Nat /\ ac[n].argc \in Nat
      <3>1. ac[n].argc \in Nat
        BY <1>1, <1>5, ActTypes, WaitTypes
      <3>2. CASE n # m
        BY <1>3, <3>1, <3>2
      <3>3. CASE n = m
        <4>1. a.k \in {"construct", "host"}
          BY <1>5, <3>3
        <4>2. a.argc \in Nat
          BY <1>1, <4>1, ActTypes, WaitTypes
        <4>3. QED
          BY <1>3, <3>1, <3>3, <4>1, <4>2
      <3>4. QED
        BY <3>2, <3>3
    <2>3. st[q] = bc[n].inst /\ q + bc[n].argc <= Len(st)
      <3>1. st[q] = ac[n].inst /\ q + ac[n].argc <= Len(st)
        BY <2>1 DEF Sits
      <3>2. PICK x, y : x = bc[n].argc /\ y = ac[n].argc
        OBVIOUS
      <3>3. x \in Nat /\ y \in Nat /\ x <= y /\ q + y <= Len(st)
        BY <2>2, <3>1, <3>2
      <3>4. q + x <= Len(st)
        BY <1>1, <3>3
      <3>5. QED
        BY <2>2, <3>1, <3>2, <3>4
    <2>4. ASSUME NEW l \in 1..(n - 1) PROVE Low(bc[l]) < q
      <3>1. Low(ac[l]) < q
        BY <2>1 DEF Sits
      <3>2. l \in 1..m
        BY <1>1
      <3>3. Low(bc[l]) = Low(ac[l])
        BY <1>4, <3>2
      <3>4. QED
        BY <3>1, <3>3
    <2>5. ASSUME NEW l \in (n + 1)..m, bc[l].k = "frame" PROVE q + bc[n].argc <= bc[l].base
      <3>1. q + ac[n].argc <= ac[l].base /\ bc[l].base = ac[l].base
        BY <1>1, <1>4, <2>1, <2>5 DEF Sits
      <3>2. ac[l].base \in Nat
        <4>1. l \in 1..m /\ ac[l].k = "frame"
          BY <1>1, <1>4, <2>5
        <4>2. Low(ac[l]) = ac[l].base
          BY <4>1 DEF Low
        <4>3. QED
          BY <1>1, <4>1, <4>2
      <3>3. PICK x : x = bc[n].argc
        OBVIOUS
      <3>4. PICK y : y = ac[n].argc
        OBVIOUS
      <3>5. PICK z : z = ac[l].base
        OBVIOUS
      <3>6. x \in Nat /\ y \in Nat /\ z \in Nat /\ q \in Int /\ x <= y /\ q + y <= z
        BY <1>1, <2>2, <3>1, <3>2, <3>3, <3>4, <3>5
      <3>7. q + x <= z
        BY <3>6
      <3>8. QED
        BY <3>1, <3>3, <3>5, <3>7
    <2>6. QED
      BY <1>3, <2>3, <2>4, <2>5 DEF Sits
  <1>6. Layered(st, bc)
    <2>1. \A n \in 1..m : Low(bc[n]) <= Len(st)
      BY <1>2, <1>4 DEF Layered
    <2>2. \A l, n \in 1..m : l < n /\ bc[n].k = "frame" => Low(bc[l]) <= bc[n].base
      BY <1>2, <1>4 DEF Layered
    <2>3. QED
      BY <1>3, <1>4, <1>5, <2>1, <2>2 DEF Layered
  <1>7. \A n \in 1..m : /\ Bottom(bc[n]) <=> Bottom(ac[n])
                        /\ ac[n].k = "internal" => bc[n].byhost = ac[n].byhost /\ bc[n].args = ac[n].args
                        /\ ac[n].k = "construct" => bc[n].jsp = ac[n].jsp /\ bc[n].inst = ac[n].inst
    BY <1>3, <1>4 DEF Bottom
  <1>8. Based(D, h, bc)
    <2>1. \A n \in 1..m : Bottom(bc[n]) <=> n = 1
      BY <1>2, <1>7 DEF Based
    <2>2. \A n \in 1..m : n # 1 => n - 1 \in 1..m /\ bc[n - 1] = ac[n - 1]
      BY <1>1, <1>3
    <2>3. \A n \in 1..m : ac[n].k = "construct" \/ (ac[n].k = "internal" /\ ~ac[n].byhost) => n # 1
      BY <1>2 DEF Based, Bottom
    <2>4. ASSUME NEW n \in 1..m, bc[n].k = "internal"
          PROVE  IF bc[n].byhost THEN \A j \in 1..Len(bc[n].args) : bc[n].args[j] = Plain
                 ELSE /\ bc[n - 1].k = "frame"
                      /\ \A j \in 1..Len(bc[n].args) : \E i \in 1..Len(bc[n - 1].locals) :
                            bc[n].args[j] = bc[n - 1].locals[i]
      <3>1. ac[n].k = "internal" /\ bc[n].byhost = ac[n].byhost /\ bc[n].args = ac[n].args
        BY <1>4, <1>7, <2>4
      <3>2. ~ac[n].byhost => bc[n - 1] = ac[n - 1]
        BY <2>2, <2>3, <3>1
      <3>3. IF ac[n].byhost THEN \A j \in 1..Len(ac[n].args) : ac[n].args[j] = Plain
            ELSE /\ ac[n - 1].k = "frame"
                 /\ \A j \in 1..Len(ac[n].args) : \E i \in 1..Len(ac[n - 1].locals) :
                       ac[n].args[j] = ac[n - 1].locals[i]
        BY <1>2, <3>1 DEF Based
      <3>4. CASE ac[n].byhost
        BY <3>1, <3>3, <3>4
      <3>5. CASE ~ac[n].byhost
        <4>1. PICK u, x, w : u = ac[n - 1] /\ x = ac[n].args /\ w = bc[n]
          OBVIOUS
        <4>2. bc[n - 1] = u /\ w.args = x /\ ~w.byhost
          BY <3>1, <3>2, <3>5, <4>1
        <4>3. /\ u.k = "frame"
              /\ \A j \in 1..Len(x) : \E i \in 1..Len(u.locals) : x[j] = u.locals[i]
          BY <3>3, <3>5, <4>1
        <4>4. QED
          BY <4>1, <4>2, <4>3
      <3>6. QED
        BY <3>4, <3>5
    <2>5. ASSUME NEW n \in 1..m, bc[n].k = "construct"
          PROVE  /\ bc[n - 1].k \in {"frame", "construct"}
                 /\ D[bc[n].jsp] <= D[h[bc[n].inst].cls]
                 /\ bc[n - 1].k = "construct" => D[bc[n].jsp] < D[h[bc[n].inst].cls]
      <3>1. ac[n].k = "construct" /\ bc[n].jsp = ac[n].jsp /\ bc[n].inst = ac[n].inst /\ bc[n - 1] = ac[n - 1]
        BY <1>4, <1>7, <2>2, <2>3, <2>5
      <3>2. QED
        BY <1>2, <3>1 DEF Based
    <2>6. QED
      BY <1>3, <2>1, <2>4, <2>5 DEF Based
  <1>9. State(C, D, h, st, bc)
    BY <1>3, <1>6, <1>8 DEF State
  <1>10. QED
    BY <1>9 DEF bc

\* The activation on top returns
LEMMA PopTop ==
    ASSUME NEW C, NEW D, NEW h, NEW st, NEW ac, State(C, D, h, st, ac), ac # <<>>
    PROVE  /\ State(C, D, h, st, SubSeq(ac, 1, Len(ac) - 1))
           /\ Len(SubSeq(ac, 1, Len(ac) - 1)) = Len(ac) - 1
           /\ \A n \in 1..(Len(ac) - 1) : SubSeq(ac, 1, Len(ac) - 1)[n] = ac[n]
  <1> DEFINE A == Acts(C, Len(h))
             m == Len(ac) - 1
             bc == SubSeq(ac, 1, m)
  <1>1. /\ Len(h) \in Nat /\ Len(st) \in Nat /\ Len(ac) \in Nat
        /\ \A k \in 1..Len(ac) : ac[k] \in A /\ Low(ac[k]) \in Nat
    BY StateTypes
  <1>2. Layered(st, ac) /\ Based(D, h, ac) /\ ac \in Seq(A)
    BY DEF State
  <1>3. m \in Nat /\ bc \in Seq(A) /\ Len(bc) = m /\ \A n \in 1..m : bc[n] = ac[n] /\ n \in 1..Len(ac)
    <2> HIDE DEF A
    <2>1. m \in Nat /\ m < Len(ac)
      BY <1>2
    <2>2. bc = [k \in 1..m |-> ac[k]]
      BY <1>2, <2>1
    <2> HIDE DEF bc
    <2>3. \A n \in 1..m : bc[n] = ac[n] /\ n \in 1..Len(ac) /\ ac[n] \in A
      BY <1>2, <2>1, <2>2
    <2> HIDE DEF m
    <2>4. bc \in Seq(A) /\ Len(bc) = m
      BY <2>1, <2>2, <2>3
    <2>5. QED
      BY <2>1, <2>3, <2>4
  <1> HIDE DEF bc
  <1>4. ASSUME NEW n \in 1..m, ac[n].k \in {"construct", "host"}
        PROVE  \E q \in 1..Len(st) : Sits(st, bc, n, q)
    <2>1. PICK q \in 1..Len(st) : Sits(st, ac, n, q)
      BY <1>2, <1>3, <1>4 DEF Layered
    <2>2. \A l \in 1..(n - 1) : bc[l] = ac[l]
      BY <1>3
    <2>3. \A l \in (n + 1)..m : bc[l] = ac[l] /\ l \in (n + 1)..Len(ac)
      BY <1>3
    <2>4. QED
      BY <1>3, <2>1, <2>2, <2>3 DEF Sits
  <1>5. Layered(st, bc)
    <2>1. \A n \in 1..m : Low(bc[n]) <= Len(st)
      BY <1>2, <1>3 DEF Layered
    <2>2. \A l, n \in 1..m : l < n /\ bc[n].k = "frame" => Low(bc[l]) <= bc[n].base
      BY <1>2, <1>3 DEF Layered
    <2>3. QED
      BY <1>3, <1>4, <2>1, <2>2 DEF Layered
  <1>6. Based(D, h, bc)
    <2>1. \A n \in 1..m : Bottom(bc[n]) <=> n = 1
      BY <1>2, <1>3 DEF Based
    <2>2. \A n \in 1..m : n # 1 => n - 1 \in 1..m /\ bc[n - 1] = ac[n - 1]
      BY <1>1, <1>3
    <2>3. \A n \in 1..m : ac[n].k = "construct" \/ (ac[n].k = "internal" /\ ~ac[n].byhost) => n # 1
      BY <1>2, <1>3 DEF Based, Bottom
    <2>4. ASSUME NEW n \in 1..m, bc[n].k = "internal"
          PROVE  IF bc[n].byhost THEN \A j \in 1..Len(bc[n].args) : bc[n].args[j] = Plain
                 ELSE /\ bc[n - 1].k = "frame"
                      /\ \A j \in 1..Len(bc[n].args) : \E i \in 1..Len(bc[n - 1].locals) :
                            bc[n].args[j] = bc[n - 1].locals[i]
      <3>1. ~ac[n].byhost => bc[n - 1] = ac[n - 1]
        BY <1>3, <2>2, <2>3, <2>4
      <3>2. bc[n] = ac[n] /\ n \in 1..Len(ac) /\ ac[n].k = "internal"
        BY <1>3, <2>4
      <3>3. IF ac[n].byhost THEN \A j \in 1..Len(ac[n].args) : ac[n].args[j] = Plain
            ELSE /\ ac[n - 1].k = "frame"
                 /\ \A j \in 1..Len(ac[n].args) : \E i \in 1..Len(ac[n - 1].locals) :
                       ac[n].args[j] = ac[n - 1].locals[i]
        BY <1>2, <3>2 DEF Based
      <3>4. CASE ac[n].byhost
        BY <3>2, <3>3, <3>4
      <3>5. CASE ~ac[n].byhost
        <4>1. bc[n - 1] = ac[n - 1] /\ bc[n] = ac[n]
          BY <3>1, <3>2, <3>5
        <4>2. QED
          BY <3>3, <3>5, <4>1
      <3>6. QED
        BY <3>4, <3>5
    <2>5. ASSUME NEW n \in 1..m, bc[n].k = "construct"
          PROVE  /\ bc[n - 1].k \in {"frame", "construct"}
                 /\ D[bc[n].jsp] <= D[h[bc[n].inst].cls]
                 /\ bc[n - 1].k = "construct" => D[bc[n].jsp] < D[h[bc[n].inst].cls]
      <3>1. bc[n - 1] = ac[n - 1]
        BY <1>3, <2>2, <2>3, <2>5
      <3>2. QED
        BY <1>2, <1>3, <2>5, <3>1 DEF Based
    <2>6. QED
      BY <1>3, <2>1, <2>4, <2>5 DEF Based
  <1>7. QED
    BY <1>3, <1>5, <1>6 DEF State, bc

\* An activation begins: a frame above all that is on the stack, a construction
\* of an instance that is there, above what those that wait have there
LEMMA PushTop ==
    ASSUME NEW C, NEW D, NEW h, NEW st, NEW ac, State(C, D, h, st, ac), NEW a \in Acts(C, Len(h)),
           a.k = "frame" => a.base = Len(st),
           a.k \in {"construct", "host"} =>
               \E q \in 1..Len(st) : /\ st[q] = a.inst /\ q + a.argc <= Len(st)
                                     /\ \A n \in 1..Len(ac) : Low(ac[n]) < q,
           Bottom(a) <=> ac = <<>>,
           a.k = "internal" =>
               IF a.byhost THEN \A j \in 1..Len(a.args) : a.args[j] = Plain
               ELSE /\ ac[Len(ac)].k = "frame"
                    /\ \A j \in 1..Len(a.args) : \E i \in 1..Len(ac[Len(ac)].locals) :
                          a.args[j] = ac[Len(ac)].locals[i],
           a.k = "construct" =>
               /\ ac[Len(ac)].k \in {"frame", "construct"}
               /\ D[a.jsp] <= D[h[a.inst].cls]
               /\ ac[Len(ac)].k = "construct" => D[a.jsp] < D[h[a.inst].cls]
    PROVE  /\ State(C, D, h, st, Append(ac, a)) /\ Len(Append(ac, a)) = Len(ac) + 1
           /\ \A n \in 1..Len(ac) : Append(ac, a)[n] = ac[n]
           /\ Append(ac, a)[Len(ac) + 1] = a
  <1> DEFINE A == Acts(C, Len(h))
             m == Len(ac)
             bc == Append(ac, a)
  <1>1. /\ Len(h) \in Nat /\ Len(st) \in Nat /\ m \in Nat
        /\ \A k \in 1..m : ac[k] \in A /\ Low(ac[k]) \in Nat
    BY StateTypes
  <1>2. Layered(st, ac) /\ Based(D, h, ac) /\ ac \in Seq(A) /\ a \in A
    BY DEF State
  <1>3. /\ bc \in Seq(A) /\ Len(bc) = m + 1 /\ bc[m + 1] = a /\ \A n \in 1..m : bc[n] = ac[n]
        /\ ac = <<>> <=> m = 0
    <2> HIDE DEF A
    <2>1. QED
      BY <1>2
  <1> HIDE DEF bc
  <1>4. \A n \in 1..(m + 1) : n = m + 1 \/ (n \in 1..m /\ bc[n] = ac[n])
    BY <1>1, <1>3
  <1>5. Low(a) \in Nat /\ Low(a) <= Len(st) /\ (a.k = "frame" => a.base = Len(st))
    BY <1>1 DEF Low
  <1>6. ASSUME NEW n \in 1..(m + 1), bc[n].k \in {"construct", "host"}
        PROVE  \E q \in 1..Len(st) : Sits(st, bc, n, q)
    <2>1. CASE n = m + 1
      <3>1. PICK q \in 1..Len(st) : /\ st[q] = a.inst /\ q + a.argc <= Len(st)
                                    /\ \A l \in 1..m : Low(ac[l]) < q
        BY <1>3, <1>6, <2>1
      <3>2. \A l \in 1..(n - 1) : Low(bc[l]) < q
        BY <1>1, <1>3, <2>1, <3>1
      <3>3. (n + 1)..Len(bc) = {}
        BY <1>1, <1>3, <2>1
      <3>4. Sits(st, bc, n, q)
        BY <1>3, <2>1, <3>1, <3>2, <3>3 DEF Sits
      <3>5. QED
        BY <3>4
    <2>2. CASE n # m + 1
      <3>1. n \in 1..m /\ bc[n] = ac[n]
        BY <1>4, <2>2
      <3>2. PICK q \in 1..Len(st) : Sits(st, ac, n, q)
        BY <1>2, <1>6, <3>1 DEF Layered
      <3>3. \A l \in 1..(n - 1) : bc[l] = ac[l]
        BY <1>1, <1>3, <3>1
      <3>4. ASSUME NEW l \in (n + 1)..(m + 1), bc[l].k = "frame" PROVE q + ac[n].argc <= bc[l].base
        <4>1. CASE l = m + 1
          BY <1>3, <1>5, <3>2, <3>4, <4>1 DEF Sits
        <4>2. CASE l # m + 1
          <5>1. l \in (n + 1)..m /\ bc[l] = ac[l]
            BY <1>1, <1>3, <4>2
          <5>2. QED
            BY <3>2, <3>4, <5>1 DEF Sits
        <4>3. QED
          BY <4>1, <4>2
      <3>5. Sits(st, bc, n, q)
        BY <1>3, <3>1, <3>2, <3>3, <3>4 DEF Sits
      <3>6. QED
        BY <3>5
    <2>3. QED
      BY <2>1, <2>2
  <1>7. Layered(st, bc)
    <2>1. \A n \in 1..m : Low(ac[n]) <= Len(st)
      BY <1>2 DEF Layered
    <2>2. \A n \in 1..(m + 1) : Low(bc[n]) <= Len(st)
      BY <1>3, <1>4, <1>5, <2>1
    <2>3. ASSUME NEW l \in 1..(m + 1), NEW n \in 1..(m + 1), l < n, bc[n].k = "frame"
          PROVE  Low(bc[l]) <= bc[n].base
      <3>1. l \in 1..m /\ bc[l] = ac[l]
        BY <1>1, <1>3, <2>3
      <3>2. CASE n = m + 1
        BY <1>3, <1>5, <2>1, <2>3, <3>1, <3>2
      <3>3. CASE n # m + 1
        <4>1. n \in 1..m /\ bc[n] = ac[n]
          BY <1>4, <3>3
        <4>2. QED
          BY <1>2, <2>3, <3>1, <4>1 DEF Layered
      <3>4. QED
        BY <3>2, <3>3
    <2>4. QED
      BY <1>3, <1>6, <2>2, <2>3 DEF Layered
  <1>8. Based(D, h, bc)
    <2>1. ASSUME NEW n \in 1..(m + 1) PROVE Bottom(bc[n]) <=> n = 1
      <3>1. CASE n = m + 1
        BY <1>1, <1>3, <3>1
      <3>2. CASE n # m + 1
        <4>1. n \in 1..m /\ bc[n] = ac[n]
          BY <1>4, <3>2
        <4>2. QED
          BY <1>2, <4>1 DEF Based
      <3>3. QED
        BY <3>1, <3>2
    <2>2. \A n \in 1..(m + 1) : n # 1 => n - 1 \in 1..m /\ bc[n - 1] = ac[n - 1]
      BY <1>1, <1>3
    <2>3. \A n \in 1..(m + 1) : bc[n].k = "construct" \/ (bc[n].k = "internal" /\ ~bc[n].byhost) => n # 1
      BY <2>1 DEF Bottom
    <2>4. ASSUME NEW n \in 1..(m + 1), bc[n].k = "internal"
          PROVE  IF bc[n].byhost THEN \A j \in 1..Len(bc[n].args) : bc[n].args[j] = Plain
                 ELSE /\ bc[n - 1].k = "frame"
                      /\ \A j \in 1..Len(bc[n].args) : \E i \in 1..Len(bc[n - 1].locals) :
                            bc[n].args[j] = bc[n - 1].locals[i]
      <3>1. ~bc[n].byhost => bc[n - 1] = ac[n - 1] /\ n # 1
        BY <2>2, <2>3, <2>4
      <3>2. CASE n = m + 1
        <4>1. n - 1 = m
          BY <1>1, <3>2
        <4>2. bc[n] = a /\ a.k = "internal"
          BY <1>3, <2>4, <3>2
        <4>3. CASE a.byhost
          BY <4>2, <4>3
        <4>4. CASE ~a.byhost
          <5>1. bc[n - 1] = ac[m] /\ bc[n] = a
            BY <3>1, <4>1, <4>2, <4>4
          <5>2. QED
            BY <4>2, <4>4, <5>1
        <4>5. QED
          BY <4>3, <4>4
      <3>3. CASE n # m + 1
        <4>1. n \in 1..m /\ bc[n] = ac[n]
          BY <1>4, <3>3
        <4>2. IF ac[n].byhost THEN \A j \in 1..Len(ac[n].args) : ac[n].args[j] = Plain
              ELSE /\ ac[n - 1].k = "frame"
                   /\ \A j \in 1..Len(ac[n].args) : \E i \in 1..Len(ac[n - 1].locals) :
                         ac[n].args[j] = ac[n - 1].locals[i]
          BY <1>2, <2>4, <4>1 DEF Based
        <4>3. CASE ac[n].byhost
          BY <4>1, <4>2, <4>3
        <4>4. CASE ~ac[n].byhost
          <5>1. bc[n - 1] = ac[n - 1] /\ bc[n] = ac[n]
            BY <3>1, <4>1, <4>4
          <5>2. QED
            BY <4>2, <4>4, <5>1
        <4>5. QED
          BY <4>3, <4>4
      <3>4. QED
        BY <3>2, <3>3
    <2>5. ASSUME NEW n \in 1..(m + 1), bc[n].k = "construct"
          PROVE  /\ bc[n - 1].k \in {"frame", "construct"}
                 /\ D[bc[n].jsp] <= D[h[bc[n].inst].cls]
                 /\ bc[n - 1].k = "construct" => D[bc[n].jsp] < D[h[bc[n].inst].cls]
      <3>1. bc[n - 1] = ac[n - 1]
        BY <2>2, <2>3, <2>5
      <3>2. CASE n = m + 1
        <4>1. n - 1 = m
          BY <1>1, <3>2
        <4>2. QED
          BY <1>3, <2>5, <3>1, <3>2, <4>1
      <3>3. CASE n # m + 1
        <4>1. n \in 1..m /\ bc[n] = ac[n]
          BY <1>4, <3>3
        <4>2. QED
          BY <1>2, <2>5, <3>1, <4>1 DEF Based
      <3>4. QED
        BY <3>2, <3>3
    <2>6. QED
      BY <1>3, <2>1, <2>4, <2>5 DEF Based
  <1>9. State(C, D, h, st, bc)
    BY <1>3, <1>7, <1>8 DEF State
  <1>10. QED
    BY <1>3, <1>9 DEF bc

\* A list of instances is one among more of them
LEMMA MoreInsts ==
    ASSUME NEW n \in Nat, NEW q \in Seq(0..n)
    PROVE  q \in Seq(0..(n + 1))
  <1>1. DOMAIN q = 1..Len(q) /\ Len(q) \in Nat /\ \A j \in 1..Len(q) : q[j] \in 0..n
    OBVIOUS
  <1>2. q = [j \in 1..Len(q) |-> q[j]]
    OBVIOUS
  <1>3. \A j \in 1..Len(q) : q[j] \in 0..(n + 1)
    BY <1>1
  <1>4. QED
    BY <1>1, <1>2, <1>3

\* What an activation is does not change when an instance is made
LEMMA MoreActs ==
    ASSUME NEW C, NEW n \in Nat, NEW a \in Acts(C, n)
    PROVE  a \in Acts(C, n + 1)
  <1>1. ASSUME a \in Frames(C, n) PROVE a \in Frames(C, n + 1)
    <2> DEFINE L == Seq(0..n)
               M == Seq(0..(n + 1))
               S == Signatures
    <2>1. /\ a \in [k : {"frame"}, ctx : C, def : C, sig : S, owned : BOOLEAN, base : Nat, locals : L]
          /\ Len(a.locals) >= 2
      BY <1>1 DEF Frames
    <2>2. \A q \in L : q \in M
      BY MoreInsts
    <2> HIDE DEF L, M, S
    <2>3. a \in [k : {"frame"}, ctx : C, def : C, sig : S, owned : BOOLEAN, base : Nat, locals : M]
      BY <2>1, <2>2
    <2>4. QED
      BY <2>1, <2>3 DEF Frames, M, S
  <1>2. ASSUME a \in Internals(C, n) PROVE a \in Internals(C, n + 1)
    <2> DEFINE L == Seq(0..n)
               M == Seq(0..(n + 1))
               S == Seq(C)
    <2>1. a \in [k : {"internal"}, inst : 1..n, todo : S, args : L, byhost : BOOLEAN]
      BY <1>2 DEF Internals
    <2>2. \A q \in L : q \in M
      BY MoreInsts
    <2> HIDE DEF L, M, S
    <2>3. a \in [k : {"internal"}, inst : 1..(n + 1), todo : S, args : M, byhost : BOOLEAN]
      BY <2>1, <2>2
    <2>4. QED
      BY <2>3 DEF Internals, M, S
  <1>3. a \in Constructs(C, n) => a \in Constructs(C, n + 1)
    BY DEF Constructs
  <1>4. a \in Hosts(C, n) => a \in Hosts(C, n + 1)
    BY DEF Hosts
  <1>5. a \in Waits(n) => a \in Waits(n + 1)
    BY DEF Waits
  <1>6. QED
    BY <1>1, <1>2, <1>3, <1>4, <1>5 DEF Acts

\* An instance is made
LEMMA GrowHeap ==
    ASSUME NEW C, NEW D, NEW h, NEW st, NEW ac, State(C, D, h, st, ac), NEW x \in Insts(C, Len(h) + 1)
    PROVE  /\ State(C, D, Append(h, x), st, ac) /\ Len(Append(h, x)) = Len(h) + 1
           /\ \A i \in 1..Len(h) : Append(h, x)[i] = h[i]
           /\ Append(h, x)[Len(h) + 1] = x
  <1> DEFINE n == Len(h)
             g == Append(h, x)
             A == Acts(C, n)
             B == Acts(C, n + 1)
             I == Insts(C, n)
             J == Insts(C, n + 1)
  <1>1. /\ n \in Nat /\ Len(st) \in Nat /\ Len(ac) \in Nat /\ \A i \in 1..n : h[i].cls \in C
        /\ h \in Heaps(C, n) /\ st \in Seq(0..n) /\ ac \in Seq(A)
    BY StateTypes DEF State
  <1>2. \A y \in I : y \in J
    <2> DEFINE L == Seq(0..n)
               M == Seq(0..(n + 1))
    <2> SUFFICES ASSUME NEW y \in I PROVE y \in J
      OBVIOUS
    <2>1. y \in [cls : C, refcount : Int, live : BOOLEAN, fields : L]
      BY DEF Insts
    <2>2. \A q \in L : q \in M
      BY <1>1, MoreInsts
    <2> HIDE DEF L, M
    <2>3. y \in [cls : C, refcount : Int, live : BOOLEAN, fields : M]
      BY <2>1, <2>2
    <2>4. QED
      BY <2>3 DEF Insts, M
  <1>3. h \in Seq(I) /\ x \in J
    BY <1>1 DEF Heaps
  <1>4. \A a \in A : a \in B
    BY <1>1, MoreActs
  <1> HIDE DEF A, B, I, J
  <1>5. /\ g \in Seq(J) /\ Len(g) = n + 1 /\ g[n + 1] = x /\ \A i \in 1..n : g[i] = h[i]
    <2>1. h \in Seq(J)
      <3>1. h = [i \in 1..n |-> h[i]] /\ \A i \in 1..n : h[i] \in J
        BY <1>2, <1>3
      <3>2. QED
        BY <1>1, <3>1
    <2>2. QED
      BY <1>3, <2>1
  <1>6. ac \in Seq(B)
    <2>1. ac = [i \in 1..Len(ac) |-> ac[i]] /\ \A i \in 1..Len(ac) : ac[i] \in B
      BY <1>1, <1>4
    <2>2. QED
      BY <1>1, <2>1
  <1>7. st \in Seq(0..(n + 1))
    BY <1>1, MoreInsts
  <1> HIDE DEF g
  <1>8. Based(D, g, ac)
    <2>1. Based(D, h, ac)
      BY DEF State
    <2>2. ASSUME NEW k \in 1..Len(ac), ac[k].k = "construct" PROVE g[ac[k].inst].cls = h[ac[k].inst].cls
      <3>1. ac[k] \in Constructs(C, n)
        BY <1>1, <2>2, ActTypes DEF A
      <3>2. ac[k].inst \in 1..n
        BY <1>1, <3>1, WaitTypes
      <3>3. QED
        BY <1>5, <3>2
    <2>3. QED
      BY <2>1, <2>2 DEF Based
  <1>9. g \in Heaps(C, n + 1)
    BY <1>5 DEF Heaps, J
  <1>10. State(C, D, g, st, ac)
    BY <1>5, <1>6, <1>7, <1>8, <1>9 DEF State, B
  <1>11. QED
    BY <1>5, <1>10 DEF g

\* When no call is under way, the stack may hold anything
LEMMA NoActs ==
    ASSUME NEW C, NEW D, NEW h, NEW st, NEW ac, State(C, D, h, st, ac), NEW st2 \in Seq(0..Len(h))
    PROVE  State(C, D, h, st2, <<>>)
  BY DEF State, Layered, Based

\* An instance as jsinstConstruct makes it
LEMMA ConstructTypes ==
    ASSUME prog \in Programs, NEW c \in Classes, NEW n \in Nat
    PROVE  /\ jsinstConstruct(c) \in Insts(Classes, n) /\ jsinstConstruct(c).cls = c
           /\ Decl(c).nfields <= Len(jsinstConstruct(c).fields)
  <1> DEFINE q == Chain(c)
             f == [j \in 1..Len(q) |-> {j} \X Offsets(q[j])]
             T == {f[j] : j \in 1..Len(q)}
  <1>1. q \in Seq(Classes)
    BY Above
  <1> HIDE DEF q
  <1>2. Len(q) \in Nat /\ DOMAIN q = 1..Len(q) /\ \A j \in 1..Len(q) : q[j] \in Classes
    BY <1>1
  <1>3. ASSUME NEW j \in 1..Len(q) PROVE IsFiniteSet(f[j])
    <2>1. Decl(q[j]).nfields \in Nat
      BY <1>2, DeclTypes DEF Classes, Decl
    <2>2. IsFiniteSet(Offsets(q[j]))
      <3>1. PICK m : m = Decl(q[j]).nfields
        OBVIOUS
      <3>2. m \in Nat /\ Offsets(q[j]) = 1..m
        BY <2>1, <3>1 DEF Offsets
      <3>3. IsFiniteSet(1..m)
        BY <3>2, FS_Interval
      <3>4. QED
        BY <3>2, <3>3
    <2>3. QED
      BY <2>2, FS_Singleton, FS_Product
  <1>4. IsFiniteSet(T)
    <2>1. IsFiniteSet(1..Len(q))
      BY <1>2, FS_Interval
    <2>2. f \in Surjection(1..Len(q), T)
      BY DEF Surjection
    <2>3. QED
      BY <2>1, <2>2, FS_Surjection
  <1>5. IsFiniteSet(UNION T)
    BY <1>3, <1>4, FS_UNION
  <1>6. PICK w : w = Cardinality(UNION {{j} \X Offsets(Chain(c)[j]) : j \in DOMAIN Chain(c)})
    OBVIOUS
  <1>7. w \in Nat
    <2>1. UNION {{j} \X Offsets(q[j]) : j \in DOMAIN q} = UNION T
      BY <1>2
    <2>2. QED
      BY <1>5, <1>6, <2>1, FS_CardinalityType DEF q
  <1>14. Decl(c).nfields <= w
    <2>1. q[1] = c /\ 1 \in 1..Len(q)
      BY <1>2, Above DEF q
    <2>2. PICK m : m = Decl(c).nfields
      OBVIOUS
    <2>3. m \in Nat /\ Offsets(c) = 1..m
      BY <2>2, DeclTypes DEF Classes, Decl, Offsets
    <2>4. UNION {{j} \X Offsets(q[j]) : j \in DOMAIN q} = UNION T
      BY <1>2
    <2>5. {1} \X (1..m) \subseteq UNION T
      BY <2>1, <2>3
    <2>6. IsFiniteSet({1}) /\ Cardinality({1}) = 1 /\ IsFiniteSet(1..m) /\ Cardinality(1..m) = m
      <3>1. IsFiniteSet({1}) /\ Cardinality({1}) = 1
        BY FS_Singleton
      <3>2. IsFiniteSet(1..m) /\ Cardinality(1..m) = IF 1 > m THEN 0 ELSE m - 1 + 1
        BY <2>3, FS_Interval
      <3>3. (IF 1 > m THEN 0 ELSE m - 1 + 1) = m
        BY <2>3
      <3>4. QED
        BY <3>1, <3>2, <3>3
    <2>7. Cardinality({1} \X (1..m)) = m
      <3> DEFINE A == {1}
                 B == 1..m
      <3>1. IsFiniteSet(A) /\ Cardinality(A) = 1 /\ IsFiniteSet(B) /\ Cardinality(B) = m
        BY <2>6
      <3> HIDE DEF A, B
      <3>2. Cardinality(A \X B) = Cardinality(A) * Cardinality(B)
        BY <3>1, FS_Product
      <3>3. Cardinality(A \X B) = 1 * m
        BY <3>1, <3>2
      <3>4. 1 * m = m
        BY <2>3
      <3>5. QED
        BY <3>3, <3>4 DEF A, B
    <2>8. Cardinality({1} \X (1..m)) <= Cardinality(UNION T)
      BY <1>5, <2>5, FS_Subset
    <2>9. Cardinality(UNION T) = w
      BY <1>6, <2>4 DEF q
    <2>10. QED
      BY <2>2, <2>3, <2>7, <2>8, <2>9
  <1> DEFINE F == [k \in 1..w |-> Plain]
  <1>8. F \in Seq(0..n)
    <2>1. \A k \in 1..w : Plain \in 0..n
      BY DEF Plain
    <2>2. QED
      BY <1>7, <2>1
  <1>15. Len(F) = w
    BY <1>7
  <1>9. jsinstConstruct(c) = [cls |-> c, refcount |-> 1, live |-> TRUE, fields |-> F]
    BY <1>6 DEF jsinstConstruct
  <1> HIDE DEF F
  <1>10. PICK t : t = TRUE
    OBVIOUS
  <1> DEFINE M == Seq(0..n)
  <1>11. F \in M
    BY <1>8
  <1> HIDE DEF M
  <1>12. [cls |-> c, refcount |-> 1, live |-> t, fields |-> F]
            \in [cls : Classes, refcount : Int, live : BOOLEAN, fields : M]
    BY <1>10, <1>11
  <1>13. QED
    BY <1>9, <1>10, <1>12, <1>14, <1>15 DEF Insts, M

-----------------------------------------------------------------------------
(* What every step has to keep                                             *)

\* A frame runs the nearest method
Sound(a) == a.k = "frame" /\ a.sig # <<"main", 0>> => a.def = Nearest(a.ctx, a.sig)

\* A heap, a stack and activations as they are between two steps
Fits(h, st, ac) ==
    State(Classes, Depths, h, st, ac) /\ Roomy(h) /\ \A n \in 1..Len(ac) : Sound(ac[n])

Inv == ClassInv /\ TypeInv /\ DispatchesToNearest

\* What the invariant says of the state
LEMMA InvSays ==
    ASSUME Inv
    PROVE  /\ prog \in Programs /\ Fits(heap, stack, acts)
           /\ Len(heap) \in Nat /\ DOMAIN heap = 1..Len(heap) /\ heap \in Heaps(Classes, Len(heap))
           /\ Len(stack) \in Nat /\ stack \in Seq(0..Len(heap))
           /\ \A q \in 1..Len(stack) : stack[q] \in 0..Len(heap)
           /\ Len(acts) \in Nat /\ (acts # <<>> <=> Len(acts) > 0)
           /\ \A k \in 1..Len(acts) : acts[k] \in Acts(Classes, Len(heap)) /\ Low(acts[k]) \in Nat
           /\ \A i \in 1..Len(heap) : heap[i].cls \in Classes
  <1> DEFINE A == Acts(Classes, Len(heap))
  <1>1. State(Classes, Depths, heap, stack, acts) /\ Roomy(heap)
    BY DEF Inv, TypeInv
  <1>2. /\ Len(heap) \in Nat /\ DOMAIN heap = 1..Len(heap)
        /\ Len(stack) \in Nat /\ \A q \in 1..Len(stack) : stack[q] \in 0..Len(heap)
        /\ Len(acts) \in Nat /\ DOMAIN acts = 1..Len(acts)
        /\ \A k \in 1..Len(acts) : acts[k] \in A /\ Low(acts[k]) \in Nat
        /\ \A i \in 1..Len(heap) : heap[i].cls \in Classes
    BY <1>1, StateTypes
  <1>3. acts \in Seq(A)
    BY <1>1 DEF State
  <1> HIDE DEF A
  <1>4. acts # <<>> <=> Len(acts) > 0
    BY <1>3
  <1>5. \A k \in 1..Len(acts) : Sound(acts[k])
    BY <1>2 DEF Inv, DispatchesToNearest, Sound
  <1>6. QED
    BY <1>1, <1>2, <1>4, <1>5 DEF Fits, Inv, ClassInv, State, A

\* A step that is not one of qinterpPrepare keeps the invariant if what it
\* leaves fits and what it has not found is nowhere.
LEMMA InvKept ==
    ASSUME Inv, UNCHANGED classVars, Fits(heap', stack', acts'),
           host' = host \/ host' \in [inst : 0..Len(heap'), refs : Nat],
           Len(heap') >= Len(heap),
           err' = "EXCEPTION" => stack' # <<>>,
           acts' # <<>> \/ missed' # missed => Ready,
           \A m \in missed' : m \in missed \/ Nearest(m[1], m[2]) = None
    PROVE  Inv'
  <1>1. prog' = prog /\ prepared' = prepared /\ refused' = refused
    BY DEF classVars
  <1>2. Classes' = Classes /\ Depths' = Depths
    <2>1. Classes' = Classes /\ \A c \in Classes : Len(Chain(c))' = Len(Chain(c))
      BY <1>1, ProgramStays
    <2>2. QED
      BY <2>1 DEF Depths
  <1>3. ClassInv'
    BY ClassesKept DEF Inv
  <1>4. State(Classes', Depths', heap', stack', acts')
    BY <1>2 DEF Fits
  <1>5. host' \in [inst : 0..Len(heap'), refs : Nat]
    <2>1. Len(heap) \in Nat /\ Len(heap') \in Nat
      BY <1>4, InvSays, StateTypes
    <2>2. CASE host' = host
      <3>1. host \in [inst : 0..Len(heap), refs : Nat]
        BY DEF Inv, TypeInv
      <3>2. QED
        BY <2>1, <2>2, <3>1
    <2>3. QED
      BY <2>2
  <1>6. acts' # <<>> \/ missed' # {} => Ready'
    <2>1. Ready' <=> Ready
      BY <1>1 DEF Ready
    <2>2. QED
      BY <2>1 DEF Inv, TypeInv
  <1>7. TypeInv'
    <2>1. Roomy(heap)'
      <3>1. Roomy(heap')
        BY DEF Fits
      <3>2. QED
        BY <1>1, <3>1 DEF Roomy, Decl
    <2>2. QED
      BY <1>4, <1>5, <1>6, <2>1 DEF TypeInv
  <1>8. DispatchesToNearest'
    <2>1. DOMAIN acts' = 1..Len(acts')
      BY <1>4, StateTypes
    <2>2. \A n \in 1..Len(acts') : Sound(acts'[n])
      BY DEF Fits
    <2>3. \A c, s : Nearest(c, s)' = Nearest(c, s)
      BY <1>1, ProgramStays
    <2>4. \A m \in missed' : Nearest(m[1], m[2]) = None
      BY DEF Inv, DispatchesToNearest
    <2>5. QED
      BY <2>1, <2>2, <2>3, <2>4 DEF DispatchesToNearest, Sound
  <1>9. QED
    BY <1>3, <1>7, <1>8 DEF Inv

\* The activation on top goes on
LEMMA FitAlter ==
    ASSUME NEW h, NEW st, NEW ac, Fits(h, st, ac), ac # <<>>,
           NEW t, t = ac[Len(ac)], NEW a \in Acts(Classes, Len(h)), a.k = t.k,
           a.k = "frame" => a.base = t.base /\ a.sig = t.sig /\ a.def = t.def /\ a.ctx = t.ctx,
           a.k \in {"construct", "host"} => a.inst = t.inst /\ a.argc <= t.argc,
           a.k = "internal" => a.byhost = t.byhost /\ a.args = t.args,
           a.k = "construct" => a.jsp = t.jsp
    PROVE  /\ Fits(h, st, [ac EXCEPT ![Len(ac)] = a])
           /\ Len([ac EXCEPT ![Len(ac)] = a]) = Len(ac)
           /\ [ac EXCEPT ![Len(ac)] = a] # <<>>
           /\ [ac EXCEPT ![Len(ac)] = a][Len(ac)] = a
           /\ \A n \in 1..Len(ac) : Low([ac EXCEPT ![Len(ac)] = a][n]) = Low(ac[n])
  <1> DEFINE A == Acts(Classes, Len(h))
             bc == [ac EXCEPT ![Len(ac)] = a]
  <1>1. State(Classes, Depths, h, st, ac) /\ ac \in Seq(A)
    BY DEF Fits, State
  <1>2. State(Classes, Depths, h, st, bc)
    BY <1>1, AlterTop
  <1>3. /\ Len(bc) = Len(ac) /\ Len(ac) \in Nat /\ Len(ac) \in 1..Len(ac) /\ bc[Len(ac)] = a
        /\ bc # <<>>
        /\ \A n \in 1..Len(ac) : n # Len(ac) => bc[n] = ac[n]
    <2> HIDE DEF A
    <2>1. QED
      BY <1>1
  <1> HIDE DEF bc
  <1>4. Sound(t)
    BY <1>3 DEF Fits
  <1>5. Sound(a)
    BY <1>4 DEF Sound
  <1>6. \A n \in 1..Len(bc) : Sound(bc[n])
    BY <1>3, <1>5 DEF Fits
  <1>7. \A n \in 1..Len(ac) : Low(bc[n]) = Low(ac[n])
    BY <1>3 DEF Low
  <1>8. QED
    BY <1>2, <1>3, <1>6, <1>7 DEF Fits, bc

\* The activation on top returns
LEMMA FitPop ==
    ASSUME NEW h, NEW st, NEW ac, Fits(h, st, ac), ac # <<>>
    PROVE  /\ Fits(h, st, SubSeq(ac, 1, Len(ac) - 1))
           /\ Len(SubSeq(ac, 1, Len(ac) - 1)) = Len(ac) - 1
           /\ \A n \in 1..(Len(ac) - 1) : SubSeq(ac, 1, Len(ac) - 1)[n] = ac[n]
           /\ SubSeq(ac, 1, Len(ac) - 1) = <<>> <=> Len(ac) = 1
  <1> DEFINE A == Acts(Classes, Len(h))
             bc == SubSeq(ac, 1, Len(ac) - 1)
  <1>1. State(Classes, Depths, h, st, ac) /\ Len(ac) \in Nat
    BY StateTypes DEF Fits
  <1>2. State(Classes, Depths, h, st, bc) /\ Len(bc) = Len(ac) - 1 /\ \A n \in 1..(Len(ac) - 1) : bc[n] = ac[n]
    BY <1>1, PopTop
  <1>3. bc \in Seq(A)
    BY <1>2 DEF State
  <1> HIDE DEF bc, A
  <1>4. bc = <<>> <=> Len(ac) = 1
    BY <1>1, <1>2, <1>3
  <1>5. \A n \in 1..Len(bc) : Sound(bc[n])
    BY <1>1, <1>2 DEF Fits
  <1>6. QED
    BY <1>2, <1>4, <1>5 DEF Fits, bc

\* An activation begins
LEMMA FitPush ==
    ASSUME NEW h, NEW st, NEW ac, Fits(h, st, ac), NEW a \in Acts(Classes, Len(h)), Sound(a),
           a.k = "frame" => a.base = Len(st),
           a.k \in {"construct", "host"} =>
               \E q \in 1..Len(st) : /\ st[q] = a.inst /\ q + a.argc <= Len(st)
                                     /\ \A n \in 1..Len(ac) : Low(ac[n]) < q,
           Bottom(a) <=> ac = <<>>,
           a.k = "internal" =>
               IF a.byhost THEN \A j \in 1..Len(a.args) : a.args[j] = Plain
               ELSE /\ ac[Len(ac)].k = "frame"
                    /\ \A j \in 1..Len(a.args) : \E i \in 1..Len(ac[Len(ac)].locals) :
                          a.args[j] = ac[Len(ac)].locals[i],
           a.k = "construct" =>
               /\ ac[Len(ac)].k \in {"frame", "construct"}
               /\ Depths[a.jsp] <= Depths[h[a.inst].cls]
               /\ ac[Len(ac)].k = "construct" => Depths[a.jsp] < Depths[h[a.inst].cls]
    PROVE  Fits(h, st, Append(ac, a))
  <1> DEFINE bc == Append(ac, a)
  <1>1. State(Classes, Depths, h, st, ac) /\ Len(ac) \in Nat
    BY StateTypes DEF Fits
  <1>2. /\ State(Classes, Depths, h, st, bc) /\ Len(bc) = Len(ac) + 1
        /\ \A n \in 1..Len(ac) : bc[n] = ac[n]
        /\ bc[Len(ac) + 1] = a
    BY <1>1, PushTop
  <1> HIDE DEF bc
  <1>3. \A n \in 1..Len(bc) : n = Len(ac) + 1 \/ n \in 1..Len(ac)
    BY <1>1, <1>2
  <1>4. \A n \in 1..Len(bc) : Sound(bc[n])
    BY <1>2, <1>3 DEF Fits
  <1>5. QED
    BY <1>2, <1>4 DEF Fits, bc

\* The heap changes but for the classes of the instances
LEMMA FitHeap ==
    ASSUME NEW h, NEW st, NEW ac, Fits(h, st, ac), NEW g \in Heaps(Classes, Len(h)), Same(g, h)
    PROVE  Fits(g, st, ac) /\ Len(g) = Len(h)
  <1>1. State(Classes, Depths, h, st, ac) /\ Roomy(h)
    BY DEF Fits
  <1>2. State(Classes, Depths, g, st, ac) /\ Len(g) = Len(h)
    BY <1>1, HeapSame
  <1>3. DOMAIN h = 1..Len(h)
    BY <1>1, StateTypes
  <1>4. Roomy(g)
    BY <1>1, <1>2, <1>3 DEF Roomy, Same
  <1>5. QED
    BY <1>2, <1>4 DEF Fits

\* The stack changes above what all activations but the running frame use
LEMMA FitStack ==
    ASSUME NEW h, NEW st, NEW ac, Fits(h, st, ac),
           NEW b \in Nat, NEW st2 \in Seq(0..Len(h)), Len(st2) >= b,
           \A q \in 1..b : q \in 1..Len(st) => st2[q] = st[q],
           ac # <<>> => b >= Low(ac[Len(ac)]),
           b < Len(st) => ac # <<>> /\ ac[Len(ac)].k = "frame"
    PROVE  Fits(h, st2, ac)
  BY StackAbove DEF Fits

-----------------------------------------------------------------------------
(* Lists                                                                   *)

\* The first a values of a list, and the others
LEMMA Slices ==
    ASSUME NEW S, NEW q \in Seq(S), NEW a \in 0..Len(q)
    PROVE  /\ SubSeq(q, 1, a) \in Seq(S) /\ Len(SubSeq(q, 1, a)) = a
           /\ \A k \in 1..a : SubSeq(q, 1, a)[k] = q[k]
           /\ SubSeq(q, a + 1, Len(q)) \in Seq(S)
  <1>1. Len(q) \in Nat /\ \A k \in 1..Len(q) : q[k] \in S
    OBVIOUS
  <1>2. SubSeq(q, 1, a) = [k \in 1..a |-> q[k]]
    BY <1>1
  <1>3. \A k \in 1..a : q[k] \in S
    BY <1>1
  <1>4. PICK f : f = SubSeq(q, 1, a)
    OBVIOUS
  <1>5. f \in Seq(S) /\ Len(f) = a /\ \A k \in 1..a : f[k] = q[k]
    BY <1>1, <1>2, <1>3, <1>4
  <1>6. SubSeq(q, a + 1, Len(q)) \in Seq(S)
    <2>1. PICK w : w = Len(q) - a
      OBVIOUS
    <2>2. w \in Nat /\ \A k \in 1..w : q[k + a] \in S
      BY <1>1, <2>1
    <2>3. SubSeq(q, a + 1, Len(q)) = [k \in 1..w |-> q[k + a]]
      BY <1>1, <2>1
    <2>4. PICK g : g = [k \in 1..w |-> q[k + a]]
      OBVIOUS
    <2>5. g \in Seq(S)
      BY <2>2, <2>4
    <2>6. QED
      BY <2>3, <2>4, <2>5
  <1>7. QED
    BY <1>4, <1>5, <1>6

\* Two lists, one after the other
LEMMA Joined ==
    ASSUME NEW S, NEW q \in Seq(S), NEW r \in Seq(S)
    PROVE  /\ q \o r \in Seq(S) /\ Len(q \o r) = Len(q) + Len(r)
           /\ \A k \in 1..Len(q) : (q \o r)[k] = q[k]
           /\ \A k \in 1..Len(r) : (q \o r)[Len(q) + k] = r[k]
  OBVIOUS

\* All but the last value of a list
LEMMA AllButLast ==
    ASSUME NEW S, NEW q \in Seq(S), q # <<>>
    PROVE  /\ Front(q) \in Seq(S) /\ Len(Front(q)) = Len(q) - 1 /\ Len(q) \in Nat /\ Len(q) >= 1
           /\ \A k \in 1..(Len(q) - 1) : Front(q)[k] = q[k]
           /\ q[Len(q)] \in S
  <1>1. Len(q) \in Nat /\ Len(q) >= 1 /\ q[Len(q)] \in S
    OBVIOUS
  <1>2. Len(q) - 1 \in 0..Len(q)
    BY <1>1
  <1>3. Front(q) = SubSeq(q, 1, Len(q) - 1)
    BY DEF Front
  <1>4. QED
    BY <1>1, <1>2, <1>3, Slices

-----------------------------------------------------------------------------
(* The frames of methods                                                   *)

\* What is known of the frame that runs
LEMMA TopFrame ==
    ASSUME Inv, acts # <<>>, Top.k = "frame"
    PROVE  /\ Top \in Frames(Classes, Len(heap)) /\ Top = acts[Len(acts)] /\ Len(acts) \in 1..Len(acts)
           /\ Top.base \in 0..Len(stack) /\ Low(Top) = Top.base
           /\ Top.locals \in Seq(0..Len(heap)) /\ Len(Top.locals) \in Nat /\ Len(Top.locals) >= 2
           /\ \A j \in 1..Len(Top.locals) : Top.locals[j] \in 0..Len(heap)
           /\ Owned(Top) \in Seq(0..Len(heap))
           /\ Top.ctx \in Classes /\ Sound(Top) /\ Ready
  <1>1. /\ Len(acts) \in Nat /\ Len(acts) > 0 /\ Top = acts[Len(acts)] /\ Len(acts) \in 1..Len(acts)
        /\ Top \in Acts(Classes, Len(heap)) /\ Len(heap) \in Nat /\ Len(stack) \in Nat
    BY InvSays DEF Top
  <1>2. Top \in Frames(Classes, Len(heap))
    BY <1>1, ActTypes
  <1>3. /\ Top.base \in Nat /\ Top.locals \in Seq(0..Len(heap)) /\ Top.ctx \in Classes
        /\ Len(Top.locals) \in Nat /\ Len(Top.locals) >= 2
        /\ \A j \in 1..Len(Top.locals) : Top.locals[j] \in 0..Len(heap)
    BY <1>1, <1>2, FrameTypes
  <1>4. Low(Top) = Top.base
    BY DEF Low
  <1>5. Fits(heap, stack, acts)
    BY InvSays
  <1>6. Low(Top) <= Len(stack)
    BY <1>1, <1>5 DEF Fits, State, Layered
  <1>7. Owned(Top) \in Seq(0..Len(heap))
    <2>1. Top.locals[Len(Top.locals)] \in 0..Len(heap)
      BY <1>3
    <2>2. PICK x : x = Top.locals[Len(Top.locals)]
      OBVIOUS
    <2>3. <<x>> \in Seq(0..Len(heap))
      BY <2>1, <2>2
    <2>4. QED
      BY <1>3, <2>2, <2>3 DEF Owned
  <1>8. Sound(Top) /\ Ready
    BY <1>1, <1>5 DEF Fits, Inv, TypeInv
  <1>9. QED
    BY <1>1, <1>2, <1>3, <1>4, <1>6, <1>7, <1>8

\* A frame is left
LEMMA LeaveKeeps ==
    ASSUME Inv, acts # <<>>, Top.k = "frame", NEW e, NEW rv \in 0..Len(heap), leaveFrame(e, rv)
    PROVE  /\ Fits(heap', stack', acts') /\ Len(heap') = Len(heap) /\ Same(heap', heap)
           /\ e = "EXCEPTION" => stack' # <<>>
           /\ err' = e
  <1> DEFINE n == Len(heap)
             result == IF e = "EXCEPTION" \/ (e = "NONE" /\ Ret(Top.sig)) THEN <<rv>> ELSE <<>>
             V == 0..n
             g == jsinstRefs(heap, result)
             low == SubSeq(stack, 1, Top.base)
             up == SubSeq(stack, Top.base + 1, Len(stack))
  <1>1. /\ n \in Nat /\ heap \in Heaps(Classes, n) /\ stack \in Seq(V) /\ Fits(heap, stack, acts)
        /\ Len(stack) \in Nat
    BY InvSays
  <1>2. /\ Top.base \in 0..Len(stack) /\ Low(acts[Len(acts)]) = Top.base /\ acts[Len(acts)].k = "frame"
        /\ Owned(Top) \in Seq(V)
    BY TopFrame
  <1>3. result \in Seq(V) /\ Len(result) \in Nat /\ (e = "EXCEPTION" => Len(result) = 1)
    <2>1. <<rv>> \in Seq(V) /\ Len(<<rv>>) = 1 /\ <<>> \in Seq(V) /\ Len(<<>>) = 0
      OBVIOUS
    <2>2. (e = "EXCEPTION" => result = <<rv>>) /\ (result = <<rv>> \/ result = <<>>)
      OBVIOUS
    <2> HIDE DEF result, V
    <2>3. QED
      BY <2>1, <2>2
  <1>4. /\ heap' = varClear(g, up \o Owned(Top)) /\ stack' = low \o result
        /\ acts' = Below /\ err' = e
    BY DEF leaveFrame
  <1> HIDE DEF result, V
  <1>5. low \in Seq(V) /\ Len(low) = Top.base /\ up \in Seq(V) /\ \A k \in 1..Top.base : low[k] = stack[k]
    BY <1>1, <1>2, Slices
  <1> HIDE DEF low, up
  <1>6. g \in Heaps(Classes, n) /\ Same(g, heap)
    BY <1>1, <1>3, RefsTypes DEF V
  <1> HIDE DEF g
  <1>7. up \o Owned(Top) \in Seq(V)
    BY <1>2, <1>5, Joined
  <1>8. heap' \in Heaps(Classes, n) /\ Same(heap', heap)
    <2>1. varClear(g, up \o Owned(Top)) \in Heaps(Classes, n) /\ Same(varClear(g, up \o Owned(Top)), g)
      BY <1>1, <1>6, <1>7, ClearTypes DEF V
    <2>2. QED
      BY <1>4, <1>6, <2>1, SameAgain
  <1>9. Fits(heap', stack, acts) /\ Len(heap') = n
    BY <1>1, <1>8, FitHeap
  <1>10. /\ stack' \in Seq(V) /\ Len(stack') = Top.base + Len(result)
         /\ \A k \in 1..Top.base : stack'[k] = stack[k]
    <2>1. low \in Seq(V) /\ result \in Seq(V)
      BY <1>3, <1>5
    <2>2. low \o result \in Seq(V) /\ Len(low \o result) = Len(low) + Len(result)
      BY <2>1, Joined
    <2>3. \A k \in 1..Len(low) : (low \o result)[k] = low[k]
      BY <2>1, Joined
    <2>4. QED
      BY <1>4, <1>5, <2>2, <2>3
  <1>11. Fits(heap', stack', acts)
    <2>1. Top.base \in Nat /\ Len(stack') >= Top.base /\ stack' \in Seq(0..Len(heap'))
      BY <1>1, <1>2, <1>3, <1>9, <1>10 DEF V
    <2>2. acts # <<>> => Top.base >= Low(acts[Len(acts)])
      BY <1>2, <2>1
    <2>3. Top.base < Len(stack) => acts # <<>> /\ acts[Len(acts)].k = "frame"
      BY <1>2
    <2>4. \A q \in 1..Top.base : q \in 1..Len(stack) => stack'[q] = stack[q]
      BY <1>10
    <2>5. QED
      BY <1>9, <2>1, <2>2, <2>3, <2>4, FitStack
  <1>12. Fits(heap', stack', acts')
    BY <1>4, <1>11, FitPop DEF Below
  <1>13. e = "EXCEPTION" => stack' # <<>>
    <2>1. e = "EXCEPTION" => Len(stack') > 0
      <3>1. Top.base \in Nat
        BY <1>1, <1>2
      <3>2. Len(stack') = Top.base + Len(result)
        BY <1>10
      <3>3. ASSUME e = "EXCEPTION" PROVE Len(stack') > 0
        <4>1. Len(stack') = Top.base + 1
          BY <1>3, <3>2, <3>3
        <4>2. QED
          BY <3>1, <4>1
      <3>4. QED
        BY <3>3
    <2>2. QED
      BY <2>1
  <1>14. QED
    BY <1>4, <1>8, <1>9, <1>12, <1>13

\* The running frame changes the heap, and the stack above its base
LEMMA FrameChanges ==
    ASSUME Inv, acts # <<>>, Top.k = "frame", NEW g \in Heaps(Classes, Len(heap)), Same(g, heap),
           NEW st2 \in Seq(0..Len(heap)), Len(st2) >= Top.base,
           \A q \in 1..Top.base : st2[q] = stack[q]
    PROVE  Fits(g, st2, acts) /\ Len(g) = Len(heap)
  <1>1. /\ Fits(heap, stack, acts) /\ Top.base \in Nat
        /\ Low(acts[Len(acts)]) = Top.base /\ acts[Len(acts)].k = "frame"
    BY InvSays, TopFrame
  <1>2. Fits(g, stack, acts) /\ Len(g) = Len(heap)
    BY <1>1, FitHeap
  <1>3. /\ acts # <<>> => Top.base >= Low(acts[Len(acts)])
        /\ Top.base < Len(stack) => acts # <<>> /\ acts[Len(acts)].k = "frame"
        /\ \A q \in 1..Top.base : q \in 1..Len(stack) => st2[q] = stack[q]
        /\ st2 \in Seq(0..Len(g))
    BY <1>1, <1>2
  <1>4. Fits(g, st2, acts)
    BY <1>1, <1>2, <1>3, FitStack
  <1>5. QED
    BY <1>2, <1>4

\* A value of the frame is popped
LEMMA Popped ==
    ASSUME Inv, acts # <<>>, Top.k = "frame", Len(stack) > Top.base
    PROVE  /\ Peek \in 0..Len(heap) /\ <<Peek>> \in Seq(0..Len(heap))
           /\ Front(stack) \in Seq(0..Len(heap)) /\ Len(Front(stack)) >= Top.base
           /\ \A q \in 1..Top.base : Front(stack)[q] = stack[q]
  <1>1. stack \in Seq(0..Len(heap)) /\ Len(stack) \in Nat /\ Top.base \in Nat /\ Top.base \in 0..Len(stack)
    BY InvSays, TopFrame
  <1>2. stack # <<>>
    BY <1>1
  <1>3. /\ Front(stack) \in Seq(0..Len(heap)) /\ Len(Front(stack)) = Len(stack) - 1
        /\ \A k \in 1..(Len(stack) - 1) : Front(stack)[k] = stack[k]
        /\ stack[Len(stack)] \in 0..Len(heap)
    BY <1>1, <1>2, AllButLast
  <1>4. Peek \in 0..Len(heap)
    BY <1>3 DEF Peek
  <1>5. PICK x : x = Peek
    OBVIOUS
  <1>6. <<x>> \in Seq(0..Len(heap))
    BY <1>4, <1>5
  <1>7. QED
    BY <1>1, <1>3, <1>4, <1>5, <1>6

\* Values are pushed
LEMMA Pushed ==
    ASSUME Inv, acts # <<>>, Top.k = "frame", NEW vs \in Seq(0..Len(heap))
    PROVE  /\ stack \o vs \in Seq(0..Len(heap)) /\ Len(stack \o vs) >= Top.base
           /\ \A q \in 1..Top.base : (stack \o vs)[q] = stack[q]
  <1>1. stack \in Seq(0..Len(heap)) /\ Len(stack) \in Nat /\ Top.base \in 0..Len(stack)
    BY InvSays, TopFrame
  <1> DEFINE V == 0..Len(heap)
  <1> HIDE DEF V
  <1>2. /\ stack \o vs \in Seq(V) /\ Len(stack \o vs) = Len(stack) + Len(vs) /\ Len(vs) \in Nat
        /\ \A k \in 1..Len(stack) : (stack \o vs)[k] = stack[k]
    BY <1>1, Joined DEF V
  <1>3. QED
    BY <1>1, <1>2 DEF V

\* The frame of a method
LEMMA FrameIs ==
    ASSUME NEW n \in Nat, NEW ctx \in Classes, NEW def \in Classes, NEW sig \in Signatures,
           NEW vs \in Seq(0..n), Len(vs) >= 1, NEW owned \in BOOLEAN, NEW base \in Nat
    PROVE  LET f == Frame(ctx, def, sig, vs, owned, base) IN
           /\ f \in Frames(Classes, n) /\ f \in Acts(Classes, n)
           /\ f.k = "frame" /\ f.base = base /\ f.sig = sig /\ f.ctx = ctx /\ f.def = def
           /\ ~Bottom(f)
  <1> DEFINE L == Seq(0..n)
             S == Signatures
             l == vs \o <<Plain>>
             f == Frame(ctx, def, sig, vs, owned, base)
  <1>1. l \in L /\ Len(l) >= 2
    <2>1. <<Plain>> \in Seq(0..n) /\ Len(<<Plain>>) = 1
      BY DEF Plain
    <2> DEFINE V == 0..n
               p == <<Plain>>
    <2>2. p \in Seq(V) /\ vs \in Seq(V) /\ Len(p) = 1 /\ Len(vs) \in Nat
      BY <2>1
    <2> HIDE DEF V, p
    <2>3. vs \o p \in Seq(V) /\ Len(vs \o p) = Len(vs) + 1
      <3>1. vs \o p \in Seq(V) /\ Len(vs \o p) = Len(vs) + Len(p)
        BY <2>2, Joined
      <3>2. QED
        BY <2>2, <3>1
    <2>4. QED
      BY <2>2, <2>3 DEF V, p
  <1>2. f = [k |-> "frame", ctx |-> ctx, def |-> def, sig |-> sig, owned |-> owned,
             base |-> base, locals |-> l]
    BY DEF Frame
  <1>3. sig \in S
    OBVIOUS
  <1> HIDE DEF L, S, l, f
  <1>4. /\ f \in [k : {"frame"}, ctx : Classes, def : Classes, sig : S, owned : BOOLEAN,
                  base : Nat, locals : L]
        /\ f.locals = l /\ f.k = "frame" /\ f.base = base /\ f.sig = sig /\ f.ctx = ctx /\ f.def = def
    BY <1>1, <1>2, <1>3
  <1>5. f \in Frames(Classes, n)
    BY <1>1, <1>4 DEF Frames, L, S
  <1>6. f \in Acts(Classes, n)
    BY <1>5 DEF Acts
  <1>7. ~Bottom(f)
    BY <1>4 DEF Bottom
  <1>8. QED
    BY <1>4, <1>5, <1>6, <1>7 DEF f

\* The names of methods
LEMMA SigTypes ==
    ASSUME prog \in Programs, NEW sig \in Sigs
    PROVE  sig \in Signatures
  <1>1. CASE sig = <<"undeclared", 0>>
    BY <1>1 DEF Signatures
  <1>2. CASE sig # <<"undeclared", 0>>
    <2>1. PICK k \in DOMAIN prog : sig \in prog[k].methods
      BY <1>2 DEF Sigs
    <2> DEFINE S == [name : STRING \ {None}, base : STRING, nfields : Nat,
                     methods : SUBSET (STRING \X Nat)]
    <2>2. prog \in Seq(S)
      BY ProgramsAssumption
    <2> HIDE DEF S
    <2>3. prog[k] \in S
      BY <2>2
    <2>4. prog[k].methods \in SUBSET (STRING \X Nat)
      BY <2>3 DEF S
    <2>5. QED
      BY <2>1, <2>4 DEF Signatures
  <1>3. QED
    BY <1>1, <1>2

\* A call from a frame
LEMMA EnterKeeps ==
    ASSUME Inv, acts # <<>>, Top.k = "frame", NEW h \in Heaps(Classes, Len(heap)), Same(h, heap),
           NEW vs \in Seq(0..Len(heap)), Len(vs) >= 1, NEW ctx \in Classes, NEW sig \in Signatures,
           Enter(h, stack, vs, ctx, sig)
    PROVE  /\ Fits(heap', stack', acts') /\ Len(heap') = Len(heap) /\ err' # "EXCEPTION"
           /\ Same(heap', heap)
           /\ \A m \in missed' : m \in missed \/ Nearest(m[1], m[2]) = None
  <1> DEFINE def == jsclassFindMethod(ctx, sig)
  <1>1. ClassInv /\ Ready /\ prog \in Programs /\ Len(heap) \in Nat /\ Len(stack) \in Nat
    BY InvSays, TopFrame DEF Inv
  <1>2. def = Nearest(ctx, sig) /\ def \in Classes \cup {None}
    BY <1>1, FindsNearest
  <1>3. stack \in Seq(0..Len(heap)) /\ Len(stack) >= Top.base
    BY InvSays, TopFrame
  <1>4. CASE def = None
    <2>1. /\ heap' = h /\ stack' = stack \o Front(vs) /\ missed' = missed \cup {<<ctx, sig>>}
          /\ err' = "UNKNOWN_METHOD" /\ acts' = acts
      BY <1>4 DEF Enter
    <2>2. Front(vs) \in Seq(0..Len(heap))
      <3>1. vs # <<>>
        OBVIOUS
      <3>2. QED
        BY <3>1, AllButLast
    <2>3. /\ stack \o Front(vs) \in Seq(0..Len(heap)) /\ Len(stack \o Front(vs)) >= Top.base
          /\ \A q \in 1..Top.base : (stack \o Front(vs))[q] = stack[q]
      BY <2>2, Pushed
    <2>4. Fits(h, stack \o Front(vs), acts) /\ Len(h) = Len(heap)
      BY <2>3, FrameChanges
    <2>5. ASSUME NEW m \in missed' PROVE m \in missed \/ Nearest(m[1], m[2]) = None
      <3>1. CASE m = <<ctx, sig>>
        <4>1. m[1] = ctx /\ m[2] = sig
          BY <3>1
        <4>2. QED
          BY <1>2, <1>4, <4>1
      <3>2. QED
        BY <2>1, <3>1
    <2>6. QED
      BY <2>1, <2>4, <2>5
  <1>5. CASE def # None
    <2> DEFINE f == Frame(ctx, def, sig, vs, TRUE, Len(stack))
    <2>1. heap' = h /\ stack' = stack /\ acts' = Append(acts, f) /\ err' = Run /\ missed' = missed
      BY <1>5 DEF Enter, history
    <2>2. Fits(h, stack, acts) /\ Len(h) = Len(heap)
      BY <1>3, FrameChanges
    <2>3. def \in Classes /\ TRUE \in BOOLEAN
      BY <1>2, <1>5
    <2>4. /\ f \in Acts(Classes, Len(heap)) /\ f.k = "frame" /\ f.base = Len(stack)
          /\ f.sig = sig /\ f.ctx = ctx /\ f.def = def /\ ~Bottom(f)
      <3>1. PICK b : b = TRUE
        OBVIOUS
      <3>2. b \in BOOLEAN /\ f = Frame(ctx, def, sig, vs, b, Len(stack))
        BY <3>1
      <3> HIDE DEF f, def
      <3>3. QED
        BY <1>1, <2>3, <3>2, FrameIs
    <2>5. Sound(f)
      BY <1>2, <2>4 DEF Sound
    <2> HIDE DEF f
    <2>6. Fits(h, stack, Append(acts, f))
      BY <2>2, <2>4, <2>5, FitPush
    <2>7. QED
      BY <2>1, <2>2, <2>6 DEF Run
  <1>6. QED
    BY <1>4, <1>5

\* return, throw, and an exception or an error on its way
LEMMA LeavingKeeps ==
    ASSUME Inv, Return \/ Throw \/ Unwind
    PROVE  Inv' /\ Same(heap', heap)
  <1>1. acts # <<>> /\ Top.k = "frame"
    BY DEF Return, Throw, Unwind, Running
  <1>2. /\ UNCHANGED classVars /\ host' = host /\ missed' = missed
    BY DEF Return, Throw, Unwind, history
  <1>3. PICK e, rv : rv \in 0..Len(heap) /\ leaveFrame(e, rv)
    <2>1. Len(heap) \in Nat /\ Plain \in 0..Len(heap)
      BY InvSays DEF Plain
    <2>2. CASE Return
      <3>1. Len(stack) > Top.base => Peek \in 0..Len(heap)
        BY <1>1, Popped
      <3>2. leaveFrame("NONE", IF Ret(Top.sig) /\ Len(stack) > Top.base THEN Peek ELSE Plain)
        BY <2>2 DEF Return
      <3>3. (IF Ret(Top.sig) /\ Len(stack) > Top.base THEN Peek ELSE Plain) \in 0..Len(heap)
        BY <2>1, <3>1
      <3>4. QED
        BY <3>2, <3>3
    <2>3. CASE Throw
      <3>1. Peek \in 0..Len(heap)
        BY <1>1, <2>3, Popped DEF Throw
      <3>2. leaveFrame("EXCEPTION", Peek)
        BY <2>3 DEF Throw
      <3>3. QED
        BY <3>1, <3>2
    <2>4. CASE Unwind
      <3>1. leaveFrame(err, IF err = "EXCEPTION" THEN Peek ELSE Plain)
        BY <2>4 DEF Unwind
      <3>2. ASSUME err = "EXCEPTION" PROVE Peek \in 0..Len(heap)
        <4>1. stack # <<>> /\ stack \in Seq(0..Len(heap))
          BY <3>2, InvSays DEF Inv, TypeInv
        <4>2. QED
          BY <4>1, AllButLast DEF Peek
      <3>3. (IF err = "EXCEPTION" THEN Peek ELSE Plain) \in 0..Len(heap)
        BY <2>1, <3>2
      <3>4. QED
        BY <3>1, <3>3
    <2>5. QED
      BY <2>2, <2>3, <2>4
  <1>4. /\ Fits(heap', stack', acts') /\ Len(heap') = Len(heap) /\ Same(heap', heap)
        /\ err' = "EXCEPTION" => stack' # <<>>
    BY <1>1, <1>3, LeaveKeeps
  <1>5. Ready /\ Len(heap) \in Nat
    BY <1>1, TopFrame, InvSays
  <1>6. Len(heap') >= Len(heap)
    BY <1>4, <1>5
  <1>7. QED
    <2>1. Inv'
      BY <1>2, <1>4, <1>5, <1>6, InvKept
    <2>2. Same(heap', heap)
      BY <1>4
    <2>3. QED
      BY <2>1, <2>2

\* A result is taken
LEMMA ResumeKeeps ==
    ASSUME Inv, Resume
    PROVE  Inv'
  <1>1. /\ UNCHANGED classVars /\ host' = host /\ missed' = missed /\ heap' = heap
        /\ stack' = stack /\ acts' = acts /\ err' = Run /\ acts # <<>> /\ Top.k = "frame"
    BY DEF Resume, history
  <1>2. Ready /\ Len(heap) \in Nat /\ Fits(heap, stack, acts)
    BY <1>1, TopFrame, InvSays
  <1>3. Len(heap') >= Len(heap) /\ err' # "EXCEPTION" /\ Fits(heap', stack', acts')
    BY <1>1, <1>2 DEF Run
  <1>4. QED
    BY <1>1, <1>2, <1>3, InvKept

\* A step of a frame that changes the heap and the stack, or calls
LEMMA StepKept ==
    ASSUME Inv, acts # <<>>, Top.k = "frame", UNCHANGED classVars, host' = host,
           Fits(heap', stack', acts'), Len(heap') = Len(heap), err' # "EXCEPTION",
           \A m \in missed' : m \in missed \/ Nearest(m[1], m[2]) = None
    PROVE  Inv'
  <1>1. Ready /\ Len(heap) \in Nat
    BY TopFrame, InvSays
  <1>2. Len(heap') >= Len(heap)
    BY <1>1
  <1>3. QED
    BY <1>1, <1>2, InvKept

\* A list of two values
LEMMA Pair ==
    ASSUME NEW V, NEW f, f = [k \in 1..2 |-> f[k]], f[1] \in V, f[2] \in V
    PROVE  f \in Seq(V) /\ Len(f) = 2
  <1>1. \A k \in 1..2 : f[k] \in V
    OBVIOUS
  <1>2. QED
    BY <1>1

\* The values of a call: an instance or another value, and the arguments
Values(x, args) ==
    [k \in 1..(Len(args) + 1) |-> IF k = 1 THEN x ELSE Top.locals[args[k - 1]]]

\* They are instances that exist, or plain
LEMMA OperandTypes ==
    ASSUME Inv, acts # <<>>, Top.k = "frame", NEW x \in 0..Len(heap), NEW args \in Operands
    PROVE  /\ Values(x, args) \in Seq(0..Len(heap)) /\ Len(Values(x, args)) >= 1
           /\ Values(x, args)[1] = x
  <1>1. PICK vs : vs = Values(x, args)
    OBVIOUS
  <1>2. /\ Len(Top.locals) \in Nat /\ \A j \in 1..Len(Top.locals) : Top.locals[j] \in 0..Len(heap)
    BY TopFrame
  <1> DEFINE V == 0..Len(heap)
  <1> HIDE DEF V
  <1>3. CASE args = <<>>
    <2>1. Len(args) + 1 = 1
      BY <1>3
    <2>2. vs = [k \in 1..1 |-> IF k = 1 THEN x ELSE Top.locals[args[k - 1]]]
      BY <1>1, <2>1 DEF Values
    <2>3. \A k \in 1..1 : vs[k] = x
      BY <2>2
    <2>4. vs = [k \in 1..1 |-> vs[k]] /\ x \in V
      BY <2>2 DEF V
    <2>5. vs \in Seq(V) /\ Len(vs) = 1 /\ vs[1] = x
      <3>1. vs[1] = x
        BY <2>3
      <3>2. QED
        BY <2>4, <3>1
    <2>6. QED
      BY <1>1, <2>5 DEF V
  <1>4. CASE args # <<>>
    <2>1. PICK v \in Vars : args = <<v>>
      BY <1>4 DEF Operands
    <2>2. Len(args) + 1 = 2 /\ args[1] = v /\ v \in 1..Len(Top.locals)
      BY <1>2, <2>1 DEF Vars
    <2>3. vs = [k \in 1..2 |-> IF k = 1 THEN x ELSE Top.locals[args[k - 1]]]
      BY <1>1, <2>2 DEF Values
    <2>4. vs[1] = x /\ vs[2] = Top.locals[v]
      BY <2>2, <2>3
    <2>5. vs[1] \in V /\ vs[2] \in V
      BY <1>2, <2>2, <2>4 DEF V
    <2>6. vs = [k \in 1..2 |-> vs[k]]
      BY <2>3
    <2>7. vs \in Seq(V) /\ Len(vs) = 2
      BY <2>5, <2>6, Pair
    <2>8. QED
      BY <1>1, <2>4, <2>7 DEF V
  <1>5. QED
    BY <1>3, <1>4

\* A call of a method
LEMMA CallKeeps ==
    ASSUME Inv, NEW o \in 1..Len(Top.locals), NEW sig \in Sigs, NEW args \in Operands, Call(o, sig, args)
    PROVE  Inv' /\ Same(heap', heap)
  <1> DEFINE vs == Values(Top.locals[o], args)
             h == jsinstRefs(heap, vs)
  <1>1. acts # <<>> /\ Top.k = "frame" /\ UNCHANGED classVars /\ host' = host
    BY DEF Call, Running
  <1>2. /\ IsInst(vs[1]) => Enter(h, stack, vs, heap[vs[1]].cls, sig)
        /\ ~IsInst(vs[1]) => /\ heap' = h /\ stack' = stack \o vs /\ err' = "UNKNOWN_METHOD"
                             /\ acts' = acts /\ missed' = missed
    BY DEF Call, history, Values
  <1>3. Top.locals[o] \in 0..Len(heap)
    BY <1>1, TopFrame
  <1>4. vs \in Seq(0..Len(heap)) /\ Len(vs) >= 1 /\ vs[1] = Top.locals[o]
    BY <1>1, <1>3, OperandTypes
  <1> HIDE DEF vs
  <1>5. /\ prog \in Programs /\ Len(heap) \in Nat /\ heap \in Heaps(Classes, Len(heap))
        /\ \A i \in 1..Len(heap) : heap[i].cls \in Classes
    BY InvSays
  <1>6. h \in Heaps(Classes, Len(heap)) /\ Same(h, heap)
    BY <1>4, <1>5, RefsTypes
  <1>7. CASE IsInst(vs[1])
    <2>1. vs[1] \in 1..Len(heap)
      BY <1>3, <1>4, <1>5, <1>7 DEF IsInst, Plain
    <2>2. heap[vs[1]].cls \in Classes /\ sig \in Signatures
      BY <1>5, <2>1, SigTypes
    <2>3. Enter(h, stack, vs, heap[vs[1]].cls, sig)
      BY <1>2, <1>7
    <2> HIDE DEF h
    <2>4. /\ Fits(heap', stack', acts') /\ Len(heap') = Len(heap) /\ err' # "EXCEPTION"
          /\ Same(heap', heap)
          /\ \A m \in missed' : m \in missed \/ Nearest(m[1], m[2]) = None
      BY <1>1, <1>4, <1>6, <2>2, <2>3, EnterKeeps
    <2>5. QED
      <3>1. Inv'
        BY <1>1, <2>4, StepKept
      <3>2. Same(heap', heap)
        BY <2>4
      <3>3. QED
        BY <3>1, <3>2
  <1>8. CASE ~IsInst(vs[1])
    <2>1. /\ stack \o vs \in Seq(0..Len(heap)) /\ Len(stack \o vs) >= Top.base
          /\ \A q \in 1..Top.base : (stack \o vs)[q] = stack[q]
      BY <1>1, <1>4, Pushed
    <2>2. Fits(h, stack \o vs, acts) /\ Len(h) = Len(heap)
      BY <1>1, <1>6, <2>1, FrameChanges
    <2>3. Fits(heap', stack', acts') /\ Len(heap') = Len(heap) /\ err' # "EXCEPTION" /\ missed' = missed
      BY <1>2, <1>8, <2>2
    <2>4. QED
      <3>1. Inv'
        BY <1>1, <2>3, StepKept
      <3>2. Same(heap', heap)
        BY <1>2, <1>6, <1>8
      <3>3. QED
        BY <3>1, <3>2
  <1>9. QED
    BY <1>7, <1>8

\* A call of a method of the base class
LEMMA BaseCallKeeps ==
    ASSUME Inv, NEW sig \in Sigs, NEW args \in Operands, callBaseMethod(sig, args)
    PROVE  Inv' /\ Same(heap', heap)
  <1> DEFINE vs == Values(This, args)
             h == jsinstRefs(heap, vs)
             cls == heap[This].cls
             ctx == IF link[cls] = None THEN cls ELSE link[cls]
  <1>1. /\ acts # <<>> /\ Top.k = "frame" /\ UNCHANGED classVars /\ host' = host /\ IsInst(This)
        /\ Enter(h, stack, vs, ctx, sig)
    BY DEF callBaseMethod, Running, Values
  <1>2. This \in 0..Len(heap) /\ Len(heap) \in Nat
    <2>1. 1 \in 1..Len(Top.locals) /\ \A j \in 1..Len(Top.locals) : Top.locals[j] \in 0..Len(heap)
      BY <1>1, TopFrame
    <2>2. QED
      BY <2>1, InvSays DEF This
  <1>3. vs \in Seq(0..Len(heap)) /\ Len(vs) >= 1
    BY <1>1, <1>2, OperandTypes
  <1> HIDE DEF vs
  <1>4. /\ prog \in Programs /\ heap \in Heaps(Classes, Len(heap))
        /\ \A i \in 1..Len(heap) : heap[i].cls \in Classes
    BY InvSays
  <1>5. h \in Heaps(Classes, Len(heap)) /\ Same(h, heap)
    BY <1>2, <1>3, <1>4, RefsTypes
  <1>6. cls \in Classes
    BY <1>1, <1>2, <1>4 DEF IsInst, Plain
  <1>7. ctx \in Classes
    <2>1. Ready /\ ClassInv
      BY <1>1, TopFrame DEF Inv
    <2>2. link[cls] = BaseOf(cls)
      BY <1>6, <2>1, FindsNearest
    <2>3. QED
      BY <1>6, <2>2 DEF BaseOf
  <1>8. sig \in Signatures
    BY <1>4, SigTypes
  <1> HIDE DEF h, ctx
  <1>9. /\ Fits(heap', stack', acts') /\ Len(heap') = Len(heap) /\ err' # "EXCEPTION"
        /\ Same(heap', heap)
        /\ \A m \in missed' : m \in missed \/ Nearest(m[1], m[2]) = None
    BY <1>1, <1>3, <1>5, <1>7, <1>8, EnterKeeps
  <1>10. QED
    <2>1. Inv'
      BY <1>1, <1>9, StepKept
    <2>2. Same(heap', heap)
      BY <1>9
    <2>3. QED
      BY <2>1, <2>2

\* A frame with another value in one of its locals
Put(f, o, v) == [f EXCEPT !.locals[o] = v]

\* It is still a frame of the same method
LEMMA LocalPut ==
    ASSUME NEW C, NEW n \in Nat, NEW f \in Frames(C, n), NEW v \in 0..n, NEW o \in 1..Len(f.locals)
    PROVE  /\ Put(f, o, v) \in Frames(C, n) /\ Put(f, o, v).k = f.k /\ Put(f, o, v).base = f.base
           /\ Put(f, o, v).sig = f.sig /\ Put(f, o, v).def = f.def /\ Put(f, o, v).ctx = f.ctx
  <1> DEFINE a == Put(f, o, v)
             L == Seq(0..n)
             S == Signatures
             l == [f.locals EXCEPT ![o] = v]
  <1>1. /\ f \in [k : {"frame"}, ctx : C, def : C, sig : S, owned : BOOLEAN, base : Nat, locals : L]
        /\ Len(f.locals) >= 2
    BY DEF Frames
  <1>2. f.locals \in Seq(0..n)
    BY FrameTypes
  <1>3. l \in L /\ Len(l) = Len(f.locals)
    <2>1. PICK q : q = f.locals
      OBVIOUS
    <2>2. q \in Seq(0..n) /\ o \in 1..Len(q)
      BY <1>2, <2>1
    <2>3. [q EXCEPT ![o] = v] \in Seq(0..n) /\ Len([q EXCEPT ![o] = v]) = Len(q)
      BY <2>2
    <2>4. QED
      BY <2>1, <2>3
  <1>4. a = [f EXCEPT !.locals = l]
    BY DEF Put
  <1> HIDE DEF L, S, l, a
  <1>5. /\ a \in [k : {"frame"}, ctx : C, def : C, sig : S, owned : BOOLEAN, base : Nat, locals : L]
        /\ a.locals = l /\ a.k = f.k /\ a.base = f.base /\ a.sig = f.sig /\ a.def = f.def /\ a.ctx = f.ctx
    BY <1>1, <1>3, <1>4
  <1>6. a \in Frames(C, n)
    BY <1>1, <1>3, <1>5 DEF Frames, L, S
  <1>7. QED
    BY <1>5, <1>6 DEF a

\* An assignment to a variable
LEMMA StoreLocalKeeps ==
    ASSUME Inv, NEW o \in Vars, StoreLocal(o)
    PROVE  Inv' /\ Same(heap', heap)
  <1> DEFINE n == Len(heap)
             g == varAssign(heap, Top.locals[o], Peek)
             h == varClear(g, <<Peek>>)
             a == Put(Top, o, Peek)
  <1>1. /\ acts # <<>> /\ Top.k = "frame" /\ UNCHANGED classVars /\ host' = host /\ missed' = missed
        /\ err' = Run /\ Len(stack) > Top.base
    BY DEF StoreLocal, Running
  <1>2. heap' = h /\ stack' = Front(stack) /\ acts' = [acts EXCEPT ![Len(acts)].locals[o] = Peek]
    BY DEF StoreLocal
  <1>3. acts' = [acts EXCEPT ![Len(acts)] = a]
    BY <1>2 DEF Top, Put
  <1>4. n \in Nat /\ heap \in Heaps(Classes, n) /\ stack \in Seq(0..n)
    BY InvSays
  <1>5. o \in 1..Len(Top.locals) /\ Top.locals[o] \in 0..n /\ Top \in Frames(Classes, n)
    BY <1>1, TopFrame DEF Vars
  <1>6. /\ Peek \in 0..n /\ <<Peek>> \in Seq(0..n)
        /\ Front(stack) \in Seq(0..n) /\ Len(Front(stack)) >= Top.base
        /\ \A q \in 1..Top.base : Front(stack)[q] = stack[q]
    BY <1>1, Popped
  <1>7. g \in Heaps(Classes, n) /\ Same(g, heap)
    BY <1>4, <1>5, <1>6, AssignTypes
  <1> HIDE DEF g
  <1>8. h \in Heaps(Classes, n) /\ Same(h, heap)
    <2>1. h \in Heaps(Classes, n) /\ Same(h, g)
      BY <1>4, <1>6, <1>7, ClearTypes
    <2>2. QED
      BY <1>7, <2>1, SameAgain
  <1> HIDE DEF h
  <1>9. Fits(h, Front(stack), acts) /\ Len(h) = n
    BY <1>1, <1>6, <1>8, FrameChanges
  <1>10. /\ a \in Frames(Classes, n) /\ a.k = Top.k /\ a.base = Top.base /\ a.sig = Top.sig
         /\ a.def = Top.def /\ a.ctx = Top.ctx
    BY <1>4, <1>5, <1>6, LocalPut
  <1> HIDE DEF a
  <1>11. a \in Acts(Classes, Len(h)) /\ Top = acts[Len(acts)]
    BY <1>9, <1>10 DEF Acts, Top
  <1>12. a.k = "frame"
    BY <1>1, <1>10
  <1>13. Fits(h, Front(stack), [acts EXCEPT ![Len(acts)] = a])
    BY <1>1, <1>9, <1>10, <1>11, <1>12, FitAlter
  <1>14. Fits(heap', stack', acts') /\ Len(heap') = Len(heap) /\ err' # "EXCEPTION"
    BY <1>1, <1>2, <1>3, <1>9, <1>13 DEF Run
  <1>15. QED
    <2>1. Inv'
      BY <1>1, <1>14, StepKept
    <2>2. Same(heap', heap)
      BY <1>2, <1>8
    <2>3. QED
      BY <2>1, <2>2

\* An assignment to a field of this
LEMMA StoreFieldKeeps ==
    ASSUME Inv, NEW f, StoreField(f)
    PROVE  Inv' /\ Same(heap', heap)
  <1> DEFINE n == Len(heap)
             g == varAssign(heap, heap[This].fields[f], Peek)
             x == [g[This] EXCEPT !.fields[f] = Peek]
             m == [g EXCEPT ![This] = x]
             h == varClear(m, <<Peek>>)
  <1>1. /\ acts # <<>> /\ Top.k = "frame" /\ UNCHANGED classVars /\ host' = host /\ missed' = missed
        /\ err' = Run /\ Len(stack) > Top.base /\ IsInst(This) /\ f \in DOMAIN heap[This].fields
    BY DEF StoreField, Running, history
  <1>2. heap' = h /\ stack' = Front(stack) /\ acts' = acts
    BY DEF StoreField
  <1>3. n \in Nat /\ heap \in Heaps(Classes, n) /\ stack \in Seq(0..n)
    BY InvSays
  <1>4. This \in 1..n
    <2>1. 1 \in 1..Len(Top.locals) /\ \A j \in 1..Len(Top.locals) : Top.locals[j] \in 0..n
      BY <1>1, TopFrame
    <2>2. QED
      BY <1>1, <1>3, <2>1 DEF This, IsInst, Plain
  <1>5. heap[This].fields[f] \in 0..n
    <2>1. PICK q : q = heap[This].fields
      OBVIOUS
    <2>2. q \in Seq(0..n) /\ f \in DOMAIN q
      BY <1>1, <1>3, <1>4, <2>1, HeapTypes
    <2>3. q[f] \in 0..n
      BY <2>2
    <2>4. QED
      BY <2>1, <2>3
  <1>6. /\ Peek \in 0..n /\ <<Peek>> \in Seq(0..n)
        /\ Front(stack) \in Seq(0..n) /\ Len(Front(stack)) >= Top.base
        /\ \A q \in 1..Top.base : Front(stack)[q] = stack[q]
    BY <1>1, Popped
  <1>7. g \in Heaps(Classes, n) /\ Same(g, heap)
    BY <1>3, <1>5, <1>6, AssignTypes
  <1> HIDE DEF g
  <1>8. x \in Insts(Classes, n) /\ x.cls = g[This].cls /\ Len(x.fields) = Len(g[This].fields)
    <2> DEFINE L == Seq(0..n)
    <2>1. PICK y : y = g[This]
      OBVIOUS
    <2>2. y \in Insts(Classes, n) /\ y.fields \in L
      BY <1>3, <1>4, <1>7, <2>1, HeapTypes
    <2>3. f \in DOMAIN y.fields
      <3>1. PICK q : q = heap[This].fields
        OBVIOUS
      <3>2. PICK r : r = y.fields
        OBVIOUS
      <3>3. q \in Seq(0..n) /\ f \in DOMAIN q /\ r \in Seq(0..n) /\ Len(r) = Len(q)
        <4>1. This \in DOMAIN heap
          BY <1>3, <1>4, HeapTypes
        <4>2. QED
          BY <1>1, <1>3, <1>4, <1>7, <2>1, <2>2, <3>1, <3>2, <4>1, HeapTypes DEF Same
      <3>4. f \in DOMAIN r
        BY <3>3
      <3>5. QED
        BY <3>2, <3>4
    <2> DEFINE l == [y.fields EXCEPT ![f] = Peek]
    <2>4. l \in L /\ Len(l) = Len(y.fields)
      <3>1. PICK r : r = y.fields
        OBVIOUS
      <3>2. r \in Seq(0..n) /\ f \in DOMAIN r
        BY <2>2, <2>3, <3>1
      <3>3. [r EXCEPT ![f] = Peek] \in Seq(0..n) /\ Len([r EXCEPT ![f] = Peek]) = Len(r)
        BY <1>6, <3>2
      <3>4. QED
        BY <3>1, <3>3
    <2>5. x = [y EXCEPT !.fields = l]
      BY <2>1
    <2>6. y \in [cls : Classes, refcount : Int, live : BOOLEAN, fields : L]
      BY <2>2 DEF Insts
    <2> HIDE DEF L, l, x
    <2>7. /\ x \in [cls : Classes, refcount : Int, live : BOOLEAN, fields : L]
          /\ x.cls = y.cls /\ x.fields = l
      BY <2>4, <2>5, <2>6
    <2>8. QED
      BY <2>1, <2>4, <2>7 DEF Insts, L
  <1>9. m \in Heaps(Classes, n) /\ Same(m, heap)
    <2> HIDE DEF x
    <2>1. m \in Heaps(Classes, n) /\ Same(m, g)
      BY <1>3, <1>4, <1>7, <1>8, HeapPut
    <2>2. QED
      BY <1>7, <2>1, SameAgain
  <1>10. heap' = varClear(m, <<Peek>>)
    BY <1>2
  <1> HIDE DEF m
  <1>11. h \in Heaps(Classes, n) /\ Same(h, heap)
    <2>1. h \in Heaps(Classes, n) /\ Same(h, m)
      BY <1>3, <1>6, <1>9, ClearTypes
    <2>2. QED
      BY <1>9, <2>1, SameAgain
  <1> HIDE DEF h
  <1>12. Fits(h, Front(stack), acts) /\ Len(h) = n
    BY <1>1, <1>6, <1>11, FrameChanges
  <1>13. Fits(heap', stack', acts') /\ Len(heap') = Len(heap) /\ err' # "EXCEPTION"
    BY <1>1, <1>2, <1>12 DEF Run
  <1>14. QED
    <2>1. Inv'
      BY <1>1, <1>13, StepKept
    <2>2. Same(heap', heap)
      BY <1>2, <1>11
    <2>3. QED
      BY <2>1, <2>2

\* A value of a list of values
LEMMA FieldTypes ==
    ASSUME NEW n \in Nat, NEW h \in Heaps(Classes, n), NEW i \in 1..n, NEW f \in DOMAIN h[i].fields
    PROVE  h[i].fields[f] \in 0..n
  <1>1. PICK q : q = h[i].fields
    OBVIOUS
  <1>2. q \in Seq(0..n) /\ f \in DOMAIN q
    BY <1>1, HeapTypes
  <1>3. q[f] \in 0..n
    BY <1>2
  <1>4. QED
    BY <1>1, <1>3

\* A variable, or a field of this, is loaded
LEMMA LoadKeeps ==
    ASSUME Inv, acts # <<>>, Top.k = "frame", err = Run, NEW v \in 0..Len(heap), Load(v)
    PROVE  Inv' /\ Same(heap', heap)
  <1>1. /\ heap' = jsinstRef(heap, v) /\ stack' = Append(stack, v) /\ acts' = acts /\ err' = err
        /\ UNCHANGED classVars /\ host' = host /\ missed' = missed
    BY DEF Load, history
  <1>2. Len(heap) \in Nat /\ heap \in Heaps(Classes, Len(heap)) /\ stack \in Seq(0..Len(heap))
    BY InvSays
  <1>3. jsinstRef(heap, v) \in Heaps(Classes, Len(heap)) /\ Same(jsinstRef(heap, v), heap)
    BY <1>2, RefTypes
  <1>4. <<v>> \in Seq(0..Len(heap))
    OBVIOUS
  <1>5. Append(stack, v) = stack \o <<v>>
    BY <1>2
  <1>6. /\ Append(stack, v) \in Seq(0..Len(heap)) /\ Len(Append(stack, v)) >= Top.base
        /\ \A q \in 1..Top.base : Append(stack, v)[q] = stack[q]
    BY <1>4, <1>5, Pushed
  <1>7. Fits(jsinstRef(heap, v), Append(stack, v), acts) /\ Len(jsinstRef(heap, v)) = Len(heap)
    BY <1>3, <1>6, FrameChanges
  <1>8. Fits(heap', stack', acts') /\ Len(heap') = Len(heap) /\ err' # "EXCEPTION"
    BY <1>1, <1>7 DEF Run
  <1>9. QED
    <2>1. Inv'
      BY <1>1, <1>8, StepKept
    <2>2. Same(heap', heap)
      BY <1>1, <1>3
    <2>3. QED
      BY <2>1, <2>2

\* The loads of a method
LEMMA LoadsKeep ==
    ASSUME Inv
    PROVE  /\ \A o \in Vars : LoadLocal(o) => Inv' /\ Same(heap', heap)
           /\ \A f : LoadField(f) => Inv' /\ Same(heap', heap)
  <1>1. ASSUME NEW o \in Vars, LoadLocal(o) PROVE Inv' /\ Same(heap', heap)
    <2>1. acts # <<>> /\ Top.k = "frame" /\ err = Run /\ Load(Top.locals[o])
      BY <1>1 DEF LoadLocal, Running
    <2>2. Top.locals[o] \in 0..Len(heap)
      BY <2>1, TopFrame DEF Vars
    <2>3. QED
      BY <2>1, <2>2, LoadKeeps
  <1>2. ASSUME NEW f, LoadField(f) PROVE Inv' /\ Same(heap', heap)
    <2>1. /\ acts # <<>> /\ Top.k = "frame" /\ err = Run /\ Load(heap[This].fields[f])
          /\ IsInst(This) /\ f \in DOMAIN heap[This].fields
      BY <1>2 DEF LoadField, Running
    <2>2. Len(heap) \in Nat /\ heap \in Heaps(Classes, Len(heap))
      BY InvSays
    <2>3. This \in 1..Len(heap)
      <3>1. 1 \in 1..Len(Top.locals) /\ \A j \in 1..Len(Top.locals) : Top.locals[j] \in 0..Len(heap)
        BY <2>1, TopFrame
      <3>2. QED
        BY <2>1, <2>2, <3>1 DEF This, IsInst, Plain
    <2>4. heap[This].fields[f] \in 0..Len(heap)
      BY <2>1, <2>2, <2>3, FieldTypes
    <2>5. QED
      BY <2>1, <2>4, LoadKeeps
  <1>3. QED
    BY <1>1, <1>2

\* A field of the instance on top of the stack
LEMMA DerefKeeps ==
    ASSUME Inv, NEW f, OP_DEREF(f)
    PROVE  Inv' /\ Same(heap', heap)
  <1> DEFINE n == Len(heap)
             h == varClear(heap, <<Peek>>)
             v == h[Peek].fields[f]
             g == jsinstRef(h, v)
  <1>1. /\ acts # <<>> /\ Top.k = "frame" /\ UNCHANGED classVars /\ host' = host /\ missed' = missed
        /\ err = Run /\ Len(stack) > Top.base /\ IsInst(Peek) /\ acts' = acts
    BY DEF OP_DEREF, Running
  <1>2. n \in Nat /\ heap \in Heaps(Classes, n) /\ stack \in Seq(0..n) /\ Fits(heap, stack, acts)
    BY InvSays
  <1>3. CASE f \notin Offsets(heap[Peek].cls)
    <2>1. heap' = heap /\ stack' = stack /\ err' = "FIELD_NOT_FOUND"
      BY <1>3 DEF OP_DEREF
    <2>2. Fits(heap', stack', acts') /\ Len(heap') = Len(heap) /\ err' # "EXCEPTION"
      BY <1>1, <1>2, <2>1
    <2>3. QED
      <3>1. Inv'
        BY <1>1, <2>2, StepKept
      <3>2. Same(heap', heap)
        BY <2>1 DEF Same
      <3>3. QED
        BY <3>1, <3>2
  <1>4. CASE f \in Offsets(heap[Peek].cls)
    <2>1. heap' = g /\ stack' = Append(Front(stack), v) /\ err' = err
      BY <1>4 DEF OP_DEREF
    <2>2. /\ Peek \in 0..n /\ <<Peek>> \in Seq(0..n)
          /\ Front(stack) \in Seq(0..n) /\ Len(Front(stack)) >= Top.base
          /\ \A q \in 1..Top.base : Front(stack)[q] = stack[q]
      BY <1>1, Popped
    <2>3. Peek \in 1..n
      BY <1>1, <1>2, <2>2 DEF IsInst, Plain
    <2>4. h \in Heaps(Classes, n) /\ Same(h, heap)
      BY <1>2, <2>2, ClearTypes
    <2> HIDE DEF h
    <2>5. f \in DOMAIN h[Peek].fields
      <3>1. PICK m : m = Decl(heap[Peek].cls).nfields
        OBVIOUS
      <3>2. m \in Nat /\ Offsets(heap[Peek].cls) = 1..m
        <4>1. heap[Peek].cls \in Classes /\ prog \in Programs
          BY <2>3, InvSays
        <4>2. QED
          BY <3>1, <4>1, DeclTypes DEF Classes, Decl, Offsets
      <3>3. PICK q : q = h[Peek].fields
        OBVIOUS
      <3>4. q \in Seq(0..n) /\ Len(q) = Len(heap[Peek].fields)
        <4>1. Peek \in DOMAIN heap
          BY <1>2, <2>3, HeapTypes
        <4>2. QED
          BY <1>2, <2>3, <2>4, <3>3, <4>1, HeapTypes DEF Same
      <3>5. m <= Len(q)
        BY <1>2, <2>3, <3>1, <3>4 DEF Fits, Roomy
      <3>6. f \in 1..Len(q)
        BY <1>4, <3>2, <3>4, <3>5
      <3>7. f \in DOMAIN q
        BY <3>4, <3>6
      <3>8. QED
        BY <3>3, <3>7
    <2>6. v \in 0..n
      BY <1>2, <2>3, <2>4, <2>5, FieldTypes
    <2> HIDE DEF v
    <2>7. g \in Heaps(Classes, n) /\ Same(g, heap)
      <3>1. g \in Heaps(Classes, n) /\ Same(g, h)
        BY <1>2, <2>4, <2>6, RefTypes
      <3>2. QED
        BY <2>4, <3>1, SameAgain
    <2> HIDE DEF g
    <2>8. /\ Append(Front(stack), v) \in Seq(0..n) /\ Len(Append(Front(stack), v)) >= Top.base
          /\ \A q \in 1..Top.base : Append(Front(stack), v)[q] = stack[q]
      <3> DEFINE V == 0..n
      <3>1. PICK q : q = Front(stack)
        OBVIOUS
      <3>2. q \in Seq(V) /\ v \in V /\ Len(q) \in Nat
        BY <2>2, <2>6, <3>1
      <3> HIDE DEF V
      <3>3. /\ Append(q, v) \in Seq(V) /\ Len(Append(q, v)) = Len(q) + 1
            /\ \A k \in 1..Len(q) : Append(q, v)[k] = q[k]
        BY <3>2
      <3>4. Top.base \in Nat
        BY <1>1, TopFrame
      <3>5. Len(q) >= Top.base
        BY <2>2, <3>1
      <3>6. \A k \in 1..Top.base : q[k] = stack[k] /\ k \in 1..Len(q)
        BY <2>2, <3>1, <3>2, <3>4, <3>5
      <3>7. Len(Append(q, v)) >= Top.base
        BY <3>2, <3>3, <3>4, <3>5
      <3>8. QED
        BY <3>1, <3>3, <3>6, <3>7 DEF V
    <2>9. Fits(g, Append(Front(stack), v), acts) /\ Len(g) = n
      BY <1>1, <2>7, <2>8, FrameChanges
    <2>10. Fits(heap', stack', acts') /\ Len(heap') = Len(heap) /\ err' # "EXCEPTION"
      BY <1>1, <2>1, <2>9 DEF Run
    <2>11. QED
      <3>1. Inv'
        BY <1>1, <2>10, StepKept
      <3>2. Same(heap', heap)
        BY <2>1, <2>7
      <3>3. QED
        BY <3>1, <3>2
  <1>5. QED
    BY <1>3, <1>4

-----------------------------------------------------------------------------
(* Instances that are made                                                 *)

\* The activation that calls the internal constructors
Internal(i, todo, args, byhost) ==
    [k |-> "internal", inst |-> i, todo |-> todo, args |-> args, byhost |-> byhost]

\* What is known of it
LEMMA InternalIs ==
    ASSUME NEW C, NEW n \in Nat, NEW i \in 1..n, NEW todo \in Seq(C), NEW args \in Seq(0..n),
           NEW byhost \in BOOLEAN
    PROVE  LET a == Internal(i, todo, args, byhost) IN
           /\ a \in Internals(C, n) /\ a \in Acts(C, n) /\ a.k = "internal" /\ a.inst = i
           /\ a.todo = todo /\ a.args = args /\ a.byhost = byhost
           /\ Sound(a) /\ (Bottom(a) <=> byhost)
  <1> DEFINE a == Internal(i, todo, args, byhost)
             L == Seq(0..n)
             T == Seq(C)
  <1>1. args \in L /\ todo \in T
    OBVIOUS
  <1> HIDE DEF L, T
  <1>2. /\ a \in [k : {"internal"}, inst : 1..n, todo : T, args : L, byhost : BOOLEAN]
        /\ a.k = "internal" /\ a.inst = i /\ a.todo = todo /\ a.args = args /\ a.byhost = byhost
    BY <1>1 DEF Internal
  <1> HIDE DEF a
  <1>3. a \in Internals(C, n)
    BY <1>2 DEF Internals, L, T
  <1>4. QED
    BY <1>2, <1>3 DEF Acts, Sound, Bottom, a

\* The classes in the order of their constructors
LEMMA ReverseTypes ==
    ASSUME NEW C, NEW q \in Seq(C)
    PROVE  Reverse(q) \in Seq(C)
  <1>1. Len(q) \in Nat /\ \A j \in 1..Len(q) : q[(Len(q) - j) + 1] \in C
    OBVIOUS
  <1>2. PICK r : r = [j \in 1..Len(q) |-> q[(Len(q) - j) + 1]]
    OBVIOUS
  <1>3. r \in Seq(C)
    BY <1>1, <1>2
  <1>4. QED
    BY <1>2, <1>3 DEF Reverse

\* The instance is made
LEMMA MakeKeeps ==
    ASSUME Inv, NEW c \in Classes, NEW args \in Seq(0..Len(heap)), NEW byhost \in BOOLEAN,
           byhost => acts = <<>> /\ \A j \in 1..Len(args) : args[j] = Plain,
           ~byhost => /\ acts # <<>> /\ Top.k = "frame"
                      /\ \A j \in 1..Len(args) : \E i \in 1..Len(Top.locals) : args[j] = Top.locals[i],
           Make(c, args, byhost)
    PROVE  /\ Fits(heap', stack', acts') /\ Len(heap') = Len(heap) + 1
           /\ UNCHANGED classVars /\ missed' = missed
  <1> DEFINE n == Len(heap)
             x == jsinstConstruct(c)
             a == Internal(n + 1, Reverse(Chain(c)), args, byhost)
  <1>1. /\ heap' = Append(heap, x) /\ stack' = stack /\ acts' = Append(acts, a)
        /\ UNCHANGED classVars /\ missed' = missed
    BY DEF Make, history, Internal
  <1>2. /\ n \in Nat /\ prog \in Programs /\ Fits(heap, stack, acts) /\ Len(acts) \in Nat
        /\ (acts # <<>> => Len(acts) > 0)
    BY InvSays
  <1>3. x \in Insts(Classes, n + 1) /\ x.cls = c /\ Decl(c).nfields <= Len(x.fields)
    BY <1>2, ConstructTypes
  <1> HIDE DEF x
  <1>4. Fits(Append(heap, x), stack, acts) /\ Len(Append(heap, x)) = n + 1
    <2>1. State(Classes, Depths, heap, stack, acts)
      BY <1>2 DEF Fits
    <2>2. /\ State(Classes, Depths, Append(heap, x), stack, acts) /\ Len(Append(heap, x)) = n + 1
          /\ \A i \in 1..n : Append(heap, x)[i] = heap[i]
          /\ Append(heap, x)[n + 1] = x
      BY <1>3, <2>1, GrowHeap
    <2>3. PICK h : h = Append(heap, x)
      OBVIOUS
    <2>4. ASSUME NEW i \in 1..(n + 1) PROVE Decl(h[i].cls).nfields <= Len(h[i].fields)
      <3>1. CASE i = n + 1
        BY <1>3, <2>2, <2>3, <3>1
      <3>2. CASE i # n + 1
        <4>1. i \in 1..n
          BY <1>2, <3>2
        <4>2. Decl(heap[i].cls).nfields <= Len(heap[i].fields) /\ h[i] = heap[i]
          BY <1>2, <2>2, <2>3, <4>1 DEF Fits, Roomy
        <4>3. QED
          BY <4>2
      <3>3. QED
        BY <3>1, <3>2
    <2>5. Roomy(h)
      BY <2>2, <2>3, <2>4 DEF Roomy
    <2>6. QED
      BY <1>2, <2>2, <2>3, <2>5 DEF Fits
  <1>5. Reverse(Chain(c)) \in Seq(Classes)
    BY <1>2, Above, ReverseTypes
  <1>6. args \in Seq(0..(n + 1))
    BY <1>2, MoreInsts
  <1>7. /\ a \in Acts(Classes, n + 1) /\ a.k = "internal" /\ a.args = args /\ a.byhost = byhost
        /\ Sound(a) /\ (Bottom(a) <=> byhost)
    <2>1. n + 1 \in Nat /\ n + 1 \in 1..(n + 1)
      BY <1>2
    <2>2. PICK m : m = n + 1
      OBVIOUS
    <2>3. PICK r : r = Reverse(Chain(c))
      OBVIOUS
    <2>4. m \in Nat /\ m \in 1..m /\ args \in Seq(0..m) /\ r \in Seq(Classes)
      BY <1>5, <1>6, <2>1, <2>2, <2>3
    <2>5. Internal(m, r, args, byhost) \in Acts(Classes, m)
      BY <2>4, InternalIs
    <2>6. Sound(Internal(m, r, args, byhost)) /\ (Bottom(Internal(m, r, args, byhost)) <=> byhost)
      BY <2>4, InternalIs
    <2>7. /\ Internal(m, r, args, byhost).k = "internal" /\ Internal(m, r, args, byhost).args = args
          /\ Internal(m, r, args, byhost).byhost = byhost
      BY DEF Internal
    <2>8. QED
      BY <2>2, <2>3, <2>5, <2>6, <2>7
  <1> HIDE DEF a
  <1>8. IF a.byhost THEN \A j \in 1..Len(a.args) : a.args[j] = Plain
        ELSE /\ acts[Len(acts)].k = "frame"
             /\ \A j \in 1..Len(a.args) : \E i \in 1..Len(acts[Len(acts)].locals) :
                   a.args[j] = acts[Len(acts)].locals[i]
    <2>1. CASE byhost
      BY <1>7, <2>1
    <2>2. CASE ~byhost
      BY <1>7, <2>2 DEF Top
    <2>3. QED
      BY <2>1, <2>2
  <1>9. Bottom(a) <=> acts = <<>>
    BY <1>7
  <1>10. Fits(Append(heap, x), stack, Append(acts, a))
    BY <1>4, <1>7, <1>8, <1>9, FitPush
  <1>11. QED
    BY <1>1, <1>4, <1>10

\* OP_NEW
LEMMA NewKeeps ==
    ASSUME Inv, NEW c, NEW args \in Operands, OP_NEW(c, args)
    PROVE  Inv'
  <1> DEFINE vs == [k \in DOMAIN args |-> Top.locals[args[k]]]
  <1>1. acts # <<>> /\ Top.k = "frame"
    BY DEF OP_NEW, Running
  <1>2. Ready /\ Len(heap) \in Nat /\ Fits(heap, stack, acts)
    BY <1>1, TopFrame, InvSays
  <1>3. CASE c \in Classes
    <2>1. Make(c, vs, FALSE) /\ err' = "NONE" /\ host' = host
      BY <1>3 DEF OP_NEW
    <2>2. \A j \in DOMAIN args : args[j] \in 1..Len(Top.locals)
      BY DEF Operands, Vars
    <2>3. \A j \in 1..Len(Top.locals) : Top.locals[j] \in 0..Len(heap)
      BY <1>1, TopFrame
    <2>4. Len(args) \in Nat /\ DOMAIN args = 1..Len(args)
      BY DEF Operands
    <2>5. PICK q : q = vs
      OBVIOUS
    <2>6. q = [j \in 1..Len(args) |-> q[j]] /\ \A j \in 1..Len(args) : q[j] = Top.locals[args[j]]
      BY <2>4, <2>5
    <2>7. \A j \in 1..Len(args) : q[j] \in 0..Len(heap) /\ args[j] \in 1..Len(Top.locals)
      BY <2>2, <2>3, <2>4, <2>6
    <2>8. q \in Seq(0..Len(heap)) /\ Len(q) = Len(args)
      BY <2>4, <2>6, <2>7
    <2>9. PICK b : b = FALSE
      OBVIOUS
    <2>10. Make(c, q, b) /\ b \in BOOLEAN /\ ~b
      BY <2>1, <2>5, <2>9
    <2>11. \A j \in 1..Len(q) : \E i \in 1..Len(Top.locals) : q[j] = Top.locals[i]
      BY <2>6, <2>7, <2>8
    <2>12. /\ Fits(heap', stack', acts') /\ Len(heap') = Len(heap) + 1
           /\ UNCHANGED classVars /\ missed' = missed
      BY <1>1, <1>3, <2>8, <2>10, <2>11, MakeKeeps
    <2>13. Len(heap') >= Len(heap)
      BY <1>2, <2>12
    <2>14. QED
      BY <1>2, <2>1, <2>12, <2>13, InvKept
  <1>4. CASE c \notin Classes
    <2>1. /\ err' = "CLASS_NOT_FOUND" /\ UNCHANGED classVars /\ heap' = heap /\ stack' = stack
          /\ acts' = acts /\ host' = host /\ missed' = missed
      BY <1>4 DEF OP_NEW, history
    <2>2. Len(heap') >= Len(heap) /\ err' # "EXCEPTION" /\ Fits(heap', stack', acts')
      BY <1>2, <2>1
    <2>3. QED
      BY <1>2, <2>1, <2>2, InvKept
  <1>5. QED
    BY <1>3, <1>4

\* The internal constructor that is found is the one of the class
LEMMA InitFound ==
    ASSUME ClassInv, Ready, NEW c \in Classes
    PROVE  jsclassFindMethod(c, <<Init0, 0>>) = c /\ Nearest(c, <<Init0, 0>>) = c
  <1>1. Declares(c, <<Init0, 0>>)
    BY DEF Declares, Methods
  <1>2. prog \in Programs
    BY DEF ClassInv
  <1>3. Nearest(c, <<Init0, 0>>) = c
    BY <1>1, <1>2, NearestRec
  <1>4. QED
    BY <1>3, FindsNearest

\* An activation of an internal constructor, of a construction, or of the host
LEMMA TopIs ==
    ASSUME Inv, acts # <<>>
    PROVE  /\ Top = acts[Len(acts)] /\ Len(acts) \in Nat /\ Len(acts) \in 1..Len(acts)
           /\ Top \in Acts(Classes, Len(heap)) /\ Ready /\ ClassInv
           /\ Fits(heap, stack, acts) /\ Len(heap) \in Nat
           /\ Bottom(Top) <=> Len(acts) = 1
           /\ Top.k = "internal" =>
                 IF Top.byhost THEN \A j \in 1..Len(Top.args) : Top.args[j] = Plain
                 ELSE /\ acts[Len(acts) - 1].k = "frame"
                      /\ \A j \in 1..Len(Top.args) : \E i \in 1..Len(acts[Len(acts) - 1].locals) :
                            Top.args[j] = acts[Len(acts) - 1].locals[i]
           /\ Top.k = "construct" =>
                 /\ acts[Len(acts) - 1].k \in {"frame", "construct"}
                 /\ Depths[Top.jsp] <= Depths[heap[Top.inst].cls]
                 /\ acts[Len(acts) - 1].k = "construct" =>
                       Depths[Top.jsp] < Depths[heap[Top.inst].cls]
           /\ Top.k \in {"construct", "host"} =>
                 \E q \in 1..Len(stack) : Sits(stack, acts, Len(acts), q)
  <1>1. /\ Top = acts[Len(acts)] /\ Len(acts) \in Nat /\ Len(acts) \in 1..Len(acts)
        /\ Top \in Acts(Classes, Len(heap)) /\ Len(heap) \in Nat /\ Fits(heap, stack, acts)
    BY InvSays DEF Top
  <1>2. Ready /\ ClassInv
    BY DEF Inv, TypeInv
  <1>3. Based(Depths, heap, acts) /\ Layered(stack, acts)
    BY <1>1 DEF Fits, State
  <1>4. Bottom(Top) <=> Len(acts) = 1
    BY <1>1, <1>3 DEF Based
  <1>5. PICK m : m = Len(acts)
    OBVIOUS
  <1>6. m \in 1..Len(acts) /\ Top = acts[m]
    BY <1>1, <1>5
  <1>7. Top.k = "internal" =>
            IF Top.byhost THEN \A j \in 1..Len(Top.args) : Top.args[j] = Plain
            ELSE /\ acts[m - 1].k = "frame"
                 /\ \A j \in 1..Len(Top.args) : \E i \in 1..Len(acts[m - 1].locals) :
                       Top.args[j] = acts[m - 1].locals[i]
    <2>1. acts[m].k = "internal" =>
            IF acts[m].byhost THEN \A j \in 1..Len(acts[m].args) : acts[m].args[j] = Plain
            ELSE /\ acts[m - 1].k = "frame"
                 /\ \A j \in 1..Len(acts[m].args) : \E i \in 1..Len(acts[m - 1].locals) :
                       acts[m].args[j] = acts[m - 1].locals[i]
      BY <1>3, <1>6 DEF Based
    <2>2. PICK t : t = acts[m]
      OBVIOUS
    <2>3. t.k = "internal" =>
            IF t.byhost THEN \A j \in 1..Len(t.args) : t.args[j] = Plain
            ELSE /\ acts[m - 1].k = "frame"
                 /\ \A j \in 1..Len(t.args) : \E i \in 1..Len(acts[m - 1].locals) :
                       t.args[j] = acts[m - 1].locals[i]
      BY <2>1, <2>2
    <2>4. QED
      BY <1>6, <2>2, <2>3
  <1>8. Top.k = "construct" =>
           /\ acts[m - 1].k \in {"frame", "construct"}
           /\ Depths[Top.jsp] <= Depths[heap[Top.inst].cls]
           /\ acts[m - 1].k = "construct" => Depths[Top.jsp] < Depths[heap[Top.inst].cls]
    BY <1>3, <1>6 DEF Based
  <1>9. Top.k \in {"construct", "host"} => \E q \in 1..Len(stack) : Sits(stack, acts, m, q)
    BY <1>3, <1>6 DEF Layered
  <1>10. QED
    BY <1>1, <1>2, <1>4, <1>5, <1>7, <1>8, <1>9

\* An internal constructor has failed
LEMMA InternalFails ==
    ASSUME Inv, callInternalConstructors, err # "NONE"
    PROVE  Inv'
  <1>1. /\ acts # <<>> /\ acts' = Below /\ err' = "INTERNAL_ERROR2" /\ heap' = heap /\ stack' = stack
        /\ UNCHANGED classVars /\ host' = host /\ missed' = missed
    BY DEF callInternalConstructors
  <1>2. Fits(heap, stack, acts) /\ Ready /\ Len(heap) \in Nat
    BY <1>1, TopIs
  <1>3. Fits(heap', stack', acts')
    BY <1>1, <1>2, FitPop DEF Below
  <1>4. Len(heap') >= Len(heap) /\ err' # "EXCEPTION"
    BY <1>1, <1>2
  <1>5. QED
    BY <1>1, <1>2, <1>3, <1>4, InvKept

\* The next internal constructor is called
LEMMA InternalCalls ==
    ASSUME Inv, callInternalConstructors, err = "NONE", Top.todo # <<>>
    PROVE  Inv'
  <1> DEFINE n == Len(heap)
             i == Top.inst
             c == Head(Top.todo)
             a == [Top EXCEPT !.todo = Tail(@)]
             sig == <<Init0, 0>>
             h == jsinstRef(heap, i)
             f == Frame(c, jsclassFindMethod(c, sig), sig, <<i>>, TRUE, Len(stack))
             bc == [acts EXCEPT ![Len(acts)] = a]
  <1>1. /\ acts # <<>> /\ Top.k = "internal" /\ heap' = h /\ stack' = stack /\ err' = Run
        /\ acts' = Append([acts EXCEPT ![Len(acts)].todo = Tail(@)], f)
        /\ UNCHANGED classVars /\ host' = host /\ missed' = missed
    BY DEF callInternalConstructors
  <1>2. /\ Fits(heap, stack, acts) /\ Ready /\ ClassInv /\ n \in Nat /\ Top \in Acts(Classes, n)
        /\ Top = acts[Len(acts)] /\ Len(acts) \in Nat
    BY <1>1, TopIs
  <1>3. acts' = Append(bc, f)
    BY <1>1, <1>2
  <1>4. Top \in Internals(Classes, n)
    BY <1>1, <1>2, ActTypes
  <1>5. /\ i \in 1..n /\ Top.todo \in Seq(Classes) /\ Top.args \in Seq(0..n) /\ Top.byhost \in BOOLEAN
        /\ DOMAIN Top = {"k", "inst", "todo", "args", "byhost"}
    BY <1>2, <1>4, InternalTypes
  <1>6. c \in Classes /\ Tail(Top.todo) \in Seq(Classes)
    <2>1. PICK q : q = Top.todo
      OBVIOUS
    <2>2. q \in Seq(Classes) /\ q # <<>>
      BY <1>5, <2>1
    <2>3. Head(q) \in Classes /\ Tail(q) \in Seq(Classes)
      BY <2>2
    <2>4. QED
      BY <2>1, <2>3
  <1>7. a \in Acts(Classes, n) /\ a.k = "internal" /\ a.byhost = Top.byhost /\ a.args = Top.args
    <2> DEFINE L == Seq(0..n)
               T == Seq(Classes)
               w == Tail(Top.todo)
    <2>1. Top \in [k : {"internal"}, inst : 1..n, todo : T, args : L, byhost : BOOLEAN]
      BY <1>4 DEF Internals
    <2>2. a = [Top EXCEPT !.todo = w] /\ w \in T
      BY <1>6
    <2> HIDE DEF L, T, a, w
    <2>3. /\ a \in [k : {"internal"}, inst : 1..n, todo : T, args : L, byhost : BOOLEAN]
          /\ a.k = "internal" /\ a.byhost = Top.byhost /\ a.args = Top.args
      BY <2>1, <2>2
    <2>4. QED
      BY <2>3 DEF Acts, Internals, L, T
  <1> HIDE DEF a
  <1>8. h \in Heaps(Classes, n) /\ Same(h, heap)
    <2>1. i \in 0..n
      BY <1>5
    <2>2. QED
      BY <1>2, <2>1, InvSays, RefTypes
  <1> HIDE DEF h
  <1>9. Fits(h, stack, acts) /\ Len(h) = n
    BY <1>2, <1>8, FitHeap
  <1>10. Fits(h, stack, bc) /\ bc # <<>>
    <2>1. a \in Acts(Classes, Len(h)) /\ a.k = Top.k
      BY <1>1, <1>7, <1>9
    <2>2. PICK t : t = acts[Len(acts)]
      OBVIOUS
    <2>3. a.k = t.k /\ (a.k = "internal" => a.byhost = t.byhost /\ a.args = t.args)
      BY <1>2, <1>7, <2>1, <2>2
    <2>5. a.k # "frame" /\ a.k # "construct" /\ a.k # "host"
      BY <1>7
    <2>6. acts # <<>> /\ Fits(h, stack, acts)
      BY <1>1, <1>9
    <2>7. Fits(h, stack, [acts EXCEPT ![Len(acts)] = a])
      BY <2>1, <2>2, <2>3, <2>5, <2>6, FitAlter
    <2>8. [acts EXCEPT ![Len(acts)] = a] # <<>>
      BY <2>1, <2>2, <2>3, <2>5, <2>6, FitAlter
    <2>9. QED
      BY <2>7, <2>8
  <1> HIDE DEF bc
  <1>11. jsclassFindMethod(c, sig) = c /\ Nearest(c, sig) = c
    BY <1>2, <1>6, InitFound
  <1>12. /\ f \in Acts(Classes, n) /\ f.k = "frame" /\ f.base = Len(stack) /\ ~Bottom(f) /\ Sound(f)
    <2>1. PICK t : t = TRUE
      OBVIOUS
    <2>2. PICK l : l = <<i>>
      OBVIOUS
    <2>3. PICK s : s = sig
      OBVIOUS
    <2>4. s \in Signatures
      BY <2>3 DEF Signatures
    <2>5. l \in Seq(0..n) /\ Len(l) >= 1
      <3>1. i \in 0..n
        BY <1>5
      <3>2. <<i>> \in Seq(0..n) /\ Len(<<i>>) = 1
        BY <3>1
      <3>3. QED
        BY <2>2, <3>2
    <2>6. Len(stack) \in Nat /\ t \in BOOLEAN
      BY <2>1, InvSays
    <2>7. f = Frame(c, c, s, l, t, Len(stack))
      BY <1>11, <2>1, <2>2, <2>3
    <2> HIDE DEF f
    <2>8. /\ f \in Acts(Classes, n) /\ f.k = "frame" /\ f.base = Len(stack) /\ ~Bottom(f)
          /\ f.sig = s /\ f.ctx = c /\ f.def = c
      <3>1. n \in Nat
        BY <1>2
      <3>2. /\ Frame(c, c, s, l, t, Len(stack)) \in Acts(Classes, n)
            /\ ~Bottom(Frame(c, c, s, l, t, Len(stack)))
        <4> HIDE DEF n, c, sig, i
        <4>1. Frame(c, c, s, l, t, Len(stack)) \in Acts(Classes, n)
          BY <1>6, <2>4, <2>5, <2>6, <3>1, FrameIs
        <4>2. ~Bottom(Frame(c, c, s, l, t, Len(stack)))
          BY <1>6, <2>4, <2>5, <2>6, <3>1, FrameIs
        <4>3. QED
          BY <4>1, <4>2
      <3>3. QED
        BY <2>7, <3>2 DEF Frame
    <2>9. Sound(f)
      BY <1>11, <2>3, <2>8 DEF Sound
    <2>10. QED
      BY <2>8, <2>9
  <1> HIDE DEF f
  <1>13. Fits(h, stack, Append(bc, f))
    BY <1>9, <1>10, <1>12, FitPush
  <1>14. Len(heap') >= Len(heap) /\ err' # "EXCEPTION"
    BY <1>1, <1>2, <1>9 DEF Run
  <1>15. QED
    BY <1>1, <1>2, <1>3, <1>13, <1>14, InvKept

\* The internal constructors are done: the instance and its arguments are pushed
LEMMA InternalDone ==
    ASSUME Inv, callInternalConstructors, err = "NONE", Top.todo = <<>>
    PROVE  Inv'
  <1> DEFINE n == Len(heap)
             i == Top.inst
             args == Top.args
             w == Len(args)
             h == jsinstRefs(heap, args \o IF Top.byhost THEN <<i>> ELSE <<>>)
             st == Append(stack, i) \o args
             hosted == [k |-> "host", inst |-> i, jsp |-> heap[i].cls, argc |-> w, retry |-> FALSE,
                        at |-> "call"]
             built1 == [k |-> "construct", inst |-> i, jsp |-> heap[i].cls, argc |-> w, at |-> "base"]
             a == IF Top.byhost THEN hosted ELSE built1
  <1>1. /\ acts # <<>> /\ Top.k = "internal" /\ heap' = h /\ stack' = st /\ err' = "NONE"
        /\ acts' = Append(Below, a)
        /\ UNCHANGED classVars /\ host' = host /\ missed' = missed
    BY DEF callInternalConstructors
  <1>2. /\ Fits(heap, stack, acts) /\ Ready /\ n \in Nat /\ Top \in Acts(Classes, n)
        /\ Top = acts[Len(acts)] /\ Len(acts) \in Nat /\ Len(acts) \in 1..Len(acts)
        /\ Bottom(Top) <=> Len(acts) = 1
        /\ ~Top.byhost => acts[Len(acts) - 1].k = "frame"
    BY <1>1, TopIs
  <1>3. Top \in Internals(Classes, n)
    BY <1>1, <1>2, ActTypes
  <1>4. i \in 1..n /\ args \in Seq(0..n) /\ Top.byhost \in BOOLEAN /\ w \in Nat
    BY <1>2, <1>3, InternalTypes
  <1>5. /\ stack \in Seq(0..n) /\ Len(stack) \in Nat /\ heap \in Heaps(Classes, n) /\ DOMAIN heap = 1..n
        /\ heap[i].cls \in Classes
    BY <1>4, InvSays
  <1>6. Top.byhost <=> Len(acts) = 1
    BY <1>1, <1>2 DEF Bottom
  <1> HIDE DEF i, args
  <1>7. h \in Heaps(Classes, n) /\ Same(h, heap)
    <2> DEFINE V == 0..n
               p == IF Top.byhost THEN <<i>> ELSE <<>>
    <2>1. <<i>> \in Seq(V) /\ <<>> \in Seq(V)
      BY <1>4
    <2>2. p \in Seq(V) /\ args \in Seq(V)
      BY <1>4, <2>1
    <2>3. h = jsinstRefs(heap, args \o p)
      OBVIOUS
    <2> HIDE DEF V, p, h
    <2>4. args \o p \in Seq(V)
      BY <2>2, Joined
    <2>5. QED
      BY <1>2, <1>5, <2>3, <2>4, RefsTypes DEF V
  <1> HIDE DEF h
  <1>8. /\ Fits(h, stack, Below) /\ Len(h) = n
        /\ Len(Below) = Len(acts) - 1 /\ (Below = <<>> <=> Len(acts) = 1)
        /\ Below # <<>> => Below[Len(Below)] = acts[Len(acts) - 1]
    <2>1. Fits(h, stack, acts) /\ Len(h) = n
      BY <1>2, <1>7, FitHeap
    <2>2. /\ Fits(h, stack, Below) /\ Len(Below) = Len(acts) - 1 /\ (Below = <<>> <=> Len(acts) = 1)
          /\ \A k \in 1..(Len(acts) - 1) : Below[k] = acts[k]
      BY <1>1, <2>1, FitPop DEF Below
    <2>3. Below # <<>> => Len(acts) - 1 \in 1..(Len(acts) - 1)
      BY <1>2, <2>2
    <2>4. QED
      BY <2>1, <2>2, <2>3
  <1>9. /\ st \in Seq(0..n) /\ Len(st) = Len(stack) + 1 + w /\ st[Len(stack) + 1] = i
        /\ \A k \in 1..Len(stack) : st[k] = stack[k]
    <2> DEFINE V == 0..n
    <2>1. i \in V /\ stack \in Seq(V) /\ args \in Seq(V)
      BY <1>4, <1>5
    <2> HIDE DEF V
    <2>2. /\ Append(stack, i) \in Seq(V) /\ Len(Append(stack, i)) = Len(stack) + 1
          /\ Append(stack, i)[Len(stack) + 1] = i
          /\ \A k \in 1..Len(stack) : Append(stack, i)[k] = stack[k] /\ k \in 1..(Len(stack) + 1)
      BY <2>1
    <2>3. PICK q : q = Append(stack, i)
      OBVIOUS
    <2>4. q \in Seq(V) /\ Len(q) = Len(stack) + 1 /\ st = q \o args
      BY <2>2, <2>3
    <2>5. /\ st \in Seq(V) /\ Len(st) = Len(q) + Len(args)
          /\ \A k \in 1..Len(q) : st[k] = q[k]
      BY <2>1, <2>4, Joined
    <2>6. Len(stack) + 1 \in 1..Len(q)
      BY <1>5, <2>4
    <2> HIDE DEF st
    <2>7. st[Len(stack) + 1] = i
      BY <2>2, <2>3, <2>5, <2>6
    <2>8. \A k \in 1..Len(stack) : st[k] = stack[k]
      BY <2>2, <2>3, <2>4, <2>5
    <2>9. QED
      BY <2>4, <2>5, <2>7, <2>8 DEF V
  <1> HIDE DEF st
  <1>10. \A k \in 1..Len(Below) : Low(Below[k]) <= Len(stack) /\ Low(Below[k]) \in Nat
    <2>1. State(Classes, Depths, h, stack, Below)
      BY <1>8 DEF Fits
    <2>2. Layered(stack, Below)
      BY <2>1 DEF State
    <2>3. \A k \in 1..Len(Below) : Low(Below[k]) \in Nat
      BY <2>1, StateTypes
    <2>4. QED
      BY <2>2, <2>3 DEF Layered
  <1>11. Fits(h, st, Below)
    <2>1. Below # <<>> => Len(stack) >= Low(Below[Len(Below)])
      <3>1. Below # <<>> => Len(Below) \in 1..Len(Below)
        BY <1>2, <1>8
      <3>2. QED
        BY <1>5, <1>10, <3>1
    <2>2. st \in Seq(0..Len(h)) /\ Len(st) >= Len(stack) /\ ~(Len(stack) < Len(stack))
      BY <1>4, <1>5, <1>8, <1>9
    <2>3. QED
      BY <1>5, <1>8, <1>9, <2>1, <2>2, FitStack
  <1>12. h[i].cls = heap[i].cls
    BY <1>4, <1>5, <1>7 DEF Same
  <1>13. /\ a \in Acts(Classes, n) /\ a.k \in {"construct", "host"} /\ a.inst = i /\ a.argc = w
         /\ Sound(a) /\ (Bottom(a) <=> Below = <<>>)
         /\ a.k = "construct" <=> ~Top.byhost
         /\ a.k = "construct" => a.jsp = heap[i].cls
    <2>1. CASE Top.byhost
      <3>1. PICK t : t = FALSE
        OBVIOUS
      <3>2. a = [k |-> "host", inst |-> i, jsp |-> heap[i].cls, argc |-> w, retry |-> t, at |-> "call"]
        BY <2>1, <3>1
      <3>3. t \in BOOLEAN
        BY <3>1
      <3> HIDE DEF a
      <3>4. a \in Hosts(Classes, n) /\ a.k = "host" /\ a.inst = i /\ a.argc = w
        BY <1>4, <1>5, <3>2, <3>3 DEF Hosts
      <3>5. QED
        BY <1>6, <1>8, <2>1, <3>4 DEF Acts, Sound, Bottom
    <2>2. CASE ~Top.byhost
      <3>1. a = built1
        BY <2>2
      <3> HIDE DEF a
      <3>2. a \in Constructs(Classes, n) /\ a.k = "construct" /\ a.inst = i /\ a.argc = w /\ a.jsp = heap[i].cls
        BY <1>4, <1>5, <3>1 DEF Constructs
      <3>3. QED
        BY <1>6, <1>8, <2>2, <3>2 DEF Acts, Sound, Bottom
    <2>3. QED
      BY <2>1, <2>2
  <1> HIDE DEF a
  <1>14. \E q \in 1..Len(st) : /\ st[q] = a.inst /\ q + a.argc <= Len(st)
                               /\ \A k \in 1..Len(Below) : Low(Below[k]) < q
    <2>1. Len(stack) + 1 \in 1..Len(st) /\ Len(stack) + 1 + w <= Len(st)
      BY <1>4, <1>5, <1>9
    <2>2. \A k \in 1..Len(Below) : Low(Below[k]) < Len(stack) + 1
      BY <1>5, <1>10
    <2>3. QED
      BY <1>9, <1>13, <2>1, <2>2
  <1>15. a.k = "construct" =>
            /\ Below[Len(Below)].k \in {"frame", "construct"}
            /\ Depths[a.jsp] <= Depths[h[a.inst].cls]
            /\ Below[Len(Below)].k = "construct" => Depths[a.jsp] < Depths[h[a.inst].cls]
    <2>1. ASSUME a.k = "construct" PROVE Below[Len(Below)].k = "frame"
      BY <1>2, <1>6, <1>8, <1>13, <2>1
    <2>2. Depths[heap[i].cls] \in Nat
      <3>1. Depths \in [Classes -> Nat]
        BY <1>2 DEF Fits, State
      <3>2. QED
        BY <1>5, <3>1
    <2>3. ASSUME a.k = "construct" PROVE Depths[a.jsp] <= Depths[h[a.inst].cls]
      BY <1>12, <1>13, <2>2, <2>3
    <2>4. QED
      BY <2>1, <2>3
  <1>16. Fits(h, st, Append(Below, a))
    <2>1. a \in Acts(Classes, Len(h)) /\ a.k # "frame" /\ a.k # "internal"
      BY <1>8, <1>13
    <2>2. QED
      BY <1>11, <1>13, <1>14, <1>15, <2>1, FitPush
  <1>17. Len(heap') >= Len(heap) /\ err' # "EXCEPTION"
    BY <1>1, <1>2, <1>8
  <1>18. QED
    BY <1>1, <1>2, <1>16, <1>17, InvKept

\* callInternalConstructors
LEMMA InternalKeeps ==
    ASSUME Inv, callInternalConstructors
    PROVE  Inv'
  BY InternalFails, InternalCalls, InternalDone

-----------------------------------------------------------------------------
(* Constructions                                                           *)

\* The steps of a construction, and of the host
Going(t, v) == [t EXCEPT !.at = v]
GoingWith(t, v, m) == [t EXCEPT !.at = v, !.argc = m]
GoingFor(t, c) == [t EXCEPT !.jsp = c]
HostGoing(t, v, r, c) == [t EXCEPT !.at = v, !.retry = r, !.jsp = c]

\* A construction that goes on
LEMMA ConstructAt ==
    ASSUME NEW C, NEW n \in Nat, NEW t \in Constructs(C, n), NEW v \in {"base", "self", "called"}
    PROVE  /\ Going(t, v) \in Constructs(C, n)
           /\ Going(t, v).k = "construct" /\ Going(t, v).inst = t.inst
           /\ Going(t, v).argc = t.argc /\ Going(t, v).jsp = t.jsp
  BY DEF Constructs, Going, GoingWith, GoingFor

\* A construction that goes on with other arguments
LEMMA ConstructWith ==
    ASSUME NEW C, NEW n \in Nat, NEW t \in Constructs(C, n), NEW v \in {"base", "self", "called"},
           NEW m \in Nat
    PROVE  /\ GoingWith(t, v, m) \in Constructs(C, n)
           /\ GoingWith(t, v, m).k = "construct"
           /\ GoingWith(t, v, m).inst = t.inst
           /\ GoingWith(t, v, m).argc = m
           /\ GoingWith(t, v, m).jsp = t.jsp
  BY DEF Constructs, Going, GoingWith, GoingFor

\* A construction for the base class
LEMMA ConstructFor ==
    ASSUME NEW C, NEW n \in Nat, NEW t \in Constructs(C, n), NEW c \in C
    PROVE  /\ GoingFor(t, c) \in Constructs(C, n)
           /\ GoingFor(t, c).k = "construct" /\ GoingFor(t, c).inst = t.inst
           /\ GoingFor(t, c).argc = t.argc /\ GoingFor(t, c).jsp = c
  BY DEF Constructs, Going, GoingWith, GoingFor

\* The host goes on
LEMMA HostAt ==
    ASSUME NEW C, NEW n \in Nat, NEW t \in Hosts(C, n), NEW v \in {"call", "called"}
    PROVE  /\ Going(t, v) \in Hosts(C, n)
           /\ Going(t, v).k = "host" /\ Going(t, v).inst = t.inst
           /\ Going(t, v).argc = t.argc
  BY DEF Hosts, Going, HostGoing

\* The host goes on with another class
LEMMA HostFor ==
    ASSUME NEW C, NEW n \in Nat, NEW t \in Hosts(C, n), NEW v \in {"call", "called"},
           NEW r \in BOOLEAN, NEW c \in C
    PROVE  /\ HostGoing(t, v, r, c) \in Hosts(C, n)
           /\ HostGoing(t, v, r, c).k = "host"
           /\ HostGoing(t, v, r, c).inst = t.inst
           /\ HostGoing(t, v, r, c).argc = t.argc
  BY DEF Hosts, Going, HostGoing

\* The place below the m topmost of L values, d of which are above q
LEMMA BelowArgs ==
    ASSUME NEW L \in Nat, NEW d \in Nat, NEW m \in 0..d, NEW q \in 1..L, q + d <= L
    PROVE  /\ L - m \in Nat /\ L - m >= 1 /\ L - m <= L /\ (L - m) - 1 \in 0..L
           /\ ((L - m) - 1) + 1 = L - m
  OBVIOUS

\* A construction or the host calls a constructor with m arguments
LEMMA ConstructorEntered ==
    ASSUME Inv, acts # <<>>, Top.k \in {"construct", "host"},
           NEW h \in Heaps(Classes, Len(heap)), Same(h, heap),
           NEW a \in Acts(Classes, Len(heap)), a.k = Top.k, a.inst = Top.inst, a.argc = Top.argc,
           a.k = "construct" => a.jsp = Top.jsp,
           NEW c \in Classes, NEW m \in 0..Top.argc,
           EnterConstructor([acts EXCEPT ![Len(acts)] = a], h, Top.inst, <<c, m>>)
    PROVE  /\ Fits(heap', stack', acts') /\ Len(heap') = Len(heap) /\ err' # "EXCEPTION"
           /\ \A x \in missed' : x \in missed \/ Nearest(x[1], x[2]) = None
  <1> DEFINE n == Len(heap)
             i == Top.inst
             sig == <<c, m>>
             ctx == heap[i].cls
             def == jsclassFindMethod(ctx, sig)
             vs == SubSeq(stack, Len(stack) - m, Len(stack))
             bc == [acts EXCEPT ![Len(acts)] = a]
  <1>1. /\ Fits(heap, stack, acts) /\ Ready /\ ClassInv /\ n \in Nat /\ Top \in Acts(Classes, n)
        /\ Top = acts[Len(acts)] /\ Len(acts) \in Nat
        /\ \E q \in 1..Len(stack) : Sits(stack, acts, Len(acts), q)
    BY TopIs
  <1>2. /\ prog \in Programs /\ stack \in Seq(0..n) /\ Len(stack) \in Nat
        /\ \A j \in 1..n : heap[j].cls \in Classes
    BY InvSays
  <1>3. i \in 1..n /\ Top.argc \in Nat
    BY <1>1, ActTypes, WaitTypes
  <1>4. ctx \in Classes
    BY <1>2, <1>3
  <1>5. Fits(h, stack, acts) /\ Len(h) = n
    BY <1>1, FitHeap
  <1>6. Fits(h, stack, bc) /\ bc # <<>>
    <2>1. a \in Acts(Classes, Len(h))
      BY <1>5
    <2>2. PICK t : t = acts[Len(acts)]
      OBVIOUS
    <2>3. /\ a.k = t.k /\ a.k # "internal" /\ a.k # "frame"
          /\ a.k \in {"construct", "host"} => a.inst = t.inst /\ a.argc <= t.argc
          /\ a.k = "construct" => a.jsp = t.jsp
      BY <1>1, <1>3, <2>2
    <2>4. Fits(h, stack, [acts EXCEPT ![Len(acts)] = a])
      BY <1>5, <2>1, <2>2, <2>3, FitAlter
    <2>5. [acts EXCEPT ![Len(acts)] = a] # <<>>
      BY <1>5, <2>1, <2>2, <2>3, FitAlter
    <2>6. QED
      BY <2>4, <2>5
  <1>7. def = Nearest(ctx, sig) /\ def \in Classes \cup {None}
    BY <1>1, <1>4, FindsNearest
  <1>8. sig \in Signatures /\ sig[2] = m
    <2>1. c \in STRING /\ m \in Nat
      BY <1>2, <1>3, DeclTypes DEF Classes
    <2>2. QED
      BY <2>1 DEF Signatures
  <1>9. CASE def = None
    <2>1. /\ heap' = h /\ stack' = stack /\ acts' = bc /\ err' = "UNKNOWN_METHOD"
          /\ missed' = missed \cup {<<ctx, sig>>}
      BY <1>9 DEF EnterConstructor
    <2>2. ASSUME NEW x \in missed' PROVE x \in missed \/ Nearest(x[1], x[2]) = None
      <3>1. CASE x = <<ctx, sig>>
        <4>1. x[1] = ctx /\ x[2] = sig
          BY <3>1
        <4>2. QED
          BY <1>7, <1>9, <4>1
      <3>2. QED
        BY <2>1, <3>1
    <2>3. QED
      BY <1>5, <1>6, <2>1, <2>2
  <1>10. CASE def # None
    <2> DEFINE f == Frame(ctx, def, sig, vs, FALSE, Len(stack))
    <2>1. /\ heap' = h /\ stack' = stack /\ acts' = Append(bc, f) /\ err' = Run /\ missed' = missed
      BY <1>8, <1>10 DEF EnterConstructor, history
    <2>2. vs \in Seq(0..n) /\ Len(vs) >= 1
      <3>1. PICK q \in 1..Len(stack) : q + Top.argc <= Len(stack)
        BY <1>1 DEF Sits
      <3>2. PICK z : z = Len(stack) - m
        OBVIOUS
      <3>3. z \in Nat /\ z >= 1 /\ z <= Len(stack) /\ z - 1 \in 0..Len(stack) /\ (z - 1) + 1 = z
        <4>1. PICK d : d = Top.argc
          OBVIOUS
        <4>2. d \in Nat /\ m \in 0..d /\ q + d <= Len(stack) /\ q \in 1..Len(stack)
          BY <1>3, <3>1, <4>1
        <4>3. PICK L : L = Len(stack)
          OBVIOUS
        <4>4. L \in Nat /\ q \in 1..L /\ q + d <= L
          BY <1>2, <4>2, <4>3
        <4>5. /\ L - m \in Nat /\ L - m >= 1 /\ L - m <= L /\ (L - m) - 1 \in 0..L
              /\ ((L - m) - 1) + 1 = L - m
          BY <4>2, <4>4, BelowArgs
        <4>6. QED
          BY <3>2, <4>3, <4>5
      <3> DEFINE V == 0..n
      <3>4. stack \in Seq(V)
        BY <1>2
      <3> HIDE DEF V
      <3>5. SubSeq(stack, (z - 1) + 1, Len(stack)) \in Seq(V)
        BY <3>3, <3>4, Slices
      <3>6. Len(SubSeq(stack, z, Len(stack))) = Len(stack) - z + 1
        BY <1>2, <3>3, <3>4
      <3>7. QED
        BY <1>2, <3>2, <3>3, <3>5, <3>6 DEF V
    <2>3. PICK b : b = FALSE
      OBVIOUS
    <2>4. b \in BOOLEAN /\ f = Frame(ctx, def, sig, vs, b, Len(stack)) /\ def \in Classes
      BY <1>7, <1>10, <2>3
    <2> HIDE DEF vs, def, sig
    <2>5. /\ Frame(ctx, def, sig, vs, b, Len(stack)) \in Acts(Classes, n)
          /\ ~Bottom(Frame(ctx, def, sig, vs, b, Len(stack)))
      BY <1>1, <1>2, <1>4, <1>8, <2>2, <2>4, FrameIs
    <2>6. f.k = "frame" /\ f.base = Len(stack) /\ f.ctx = ctx /\ f.def = def /\ f.sig = sig
      BY DEF Frame
    <2>7. f \in Acts(Classes, Len(h)) /\ ~Bottom(f) /\ Sound(f)
      BY <1>5, <1>7, <2>4, <2>5, <2>6 DEF Sound
    <2> HIDE DEF f, bc
    <2>8. Fits(h, stack, Append(bc, f))
      BY <1>6, <2>6, <2>7, FitPush
    <2>9. QED
      BY <1>5, <2>1, <2>8 DEF Run
  <1>11. QED
    BY <1>9, <1>10

\* callConstructors calls itself for the base class
LEMMA ConstructBaseKeeps ==
    ASSUME Inv, ConstructBase
    PROVE  Inv'
  <1> DEFINE n == Len(heap)
             t == Top
             a == Going(t, "self")
             bc == [acts EXCEPT ![Len(acts)] = a]
             b == GoingFor(t, link[t.jsp])
  <1>1. /\ acts # <<>> /\ t.k = "construct" /\ heap' = heap /\ stack' = stack /\ err' = err
        /\ UNCHANGED classVars /\ host' = host /\ missed' = missed /\ err = "NONE"
        /\ acts' = IF link[t.jsp] = None THEN [acts EXCEPT ![Len(acts)].at = "self"]
                   ELSE Append([acts EXCEPT ![Len(acts)].at = "self"], b)
    BY DEF ConstructBase, history, GoingFor
  <1>2. /\ Fits(heap, stack, acts) /\ Ready /\ ClassInv /\ n \in Nat /\ t \in Acts(Classes, n)
        /\ t = acts[Len(acts)] /\ Len(acts) \in Nat /\ Len(acts) \in 1..Len(acts)
        /\ Depths[t.jsp] <= Depths[heap[t.inst].cls]
        /\ \E q \in 1..Len(stack) : Sits(stack, acts, Len(acts), q)
    BY <1>1, TopIs
  <1>3. t \in Constructs(Classes, n)
    BY <1>1, <1>2, ActTypes
  <1>4. t.inst \in 1..n /\ t.jsp \in Classes /\ t.argc \in Nat
    BY <1>2, <1>3, WaitTypes
  <1>5. acts' = IF link[t.jsp] = None THEN bc ELSE Append(bc, b)
    BY <1>1, <1>2 DEF Going
  <1> HIDE DEF t
  <1>6. a \in Constructs(Classes, n) /\ a.k = "construct" /\ a.inst = t.inst /\ a.argc = t.argc /\ a.jsp = t.jsp
    BY <1>2, <1>3, ConstructAt
  <1> HIDE DEF a
  <1>7. a \in Acts(Classes, n)
    BY <1>6 DEF Acts
  <1>8. /\ Fits(heap, stack, bc) /\ bc # <<>> /\ Len(bc) = Len(acts) /\ bc[Len(acts)] = a
        /\ \A k \in 1..Len(acts) : Low(bc[k]) = Low(acts[k])
    <2>1. /\ a.k = t.k /\ a.k # "internal" /\ a.k # "frame" /\ a.argc <= t.argc
      BY <1>1, <1>4, <1>6
    <2>2. Fits(heap, stack, [acts EXCEPT ![Len(acts)] = a])
      BY <1>1, <1>2, <1>6, <1>7, <2>1, FitAlter
    <2>3. /\ [acts EXCEPT ![Len(acts)] = a] # <<>> /\ Len([acts EXCEPT ![Len(acts)] = a]) = Len(acts)
          /\ [acts EXCEPT ![Len(acts)] = a][Len(acts)] = a
      BY <1>1, <1>2, <1>6, <1>7, <2>1, FitAlter
    <2>4. ASSUME NEW k \in 1..Len(acts)
          PROVE  Low([acts EXCEPT ![Len(acts)] = a][k]) = Low(acts[k])
      <3>1. [acts EXCEPT ![Len(acts)] = a][k] = IF k = Len(acts) THEN a ELSE acts[k]
        BY <1>2, StateTypes DEF Fits
      <3>2. Low(a) = Low(t)
        BY <1>1, <2>1 DEF Low
      <3>3. QED
        BY <1>2, <3>1, <3>2
    <2>5. QED
      BY <2>2, <2>3, <2>4
  <1> HIDE DEF bc
  <1>9. Len(heap') >= Len(heap) /\ err' # "EXCEPTION"
    BY <1>1, <1>2
  <1>10. CASE link[t.jsp] = None
    <2>1. Fits(heap', stack', acts')
      BY <1>1, <1>5, <1>8, <1>10
    <2>2. QED
      BY <1>1, <1>2, <1>9, <2>1, InvKept
  <1>11. CASE link[t.jsp] # None
    <2>1. /\ link[t.jsp] = Decl(t.jsp).base /\ link[t.jsp] \in Classes
      BY <1>2, <1>4, <1>11, FindsNearest DEF BaseOf
    <2>2. /\ b \in Constructs(Classes, n) /\ b.k = "construct" /\ b.inst = t.inst
          /\ b.argc = t.argc /\ b.jsp = link[t.jsp]
      <3>1. PICK c : c = link[t.jsp]
        OBVIOUS
      <3>2. c \in Classes /\ b = GoingFor(t, c)
        BY <2>1, <3>1
      <3>3. /\ GoingFor(t, c) \in Constructs(Classes, n)
            /\ GoingFor(t, c).k = "construct" /\ GoingFor(t, c).inst = t.inst
            /\ GoingFor(t, c).argc = t.argc /\ GoingFor(t, c).jsp = c
        BY <1>2, <1>3, <3>2, ConstructFor
      <3>4. QED
        BY <3>1, <3>2, <3>3
    <2> HIDE DEF b
    <2>3. Depths[b.jsp] < Depths[heap[b.inst].cls]
      <3>1. Depths[t.jsp] = Depths[b.jsp] + 1
        <4>1. Len(Chain(t.jsp)) = Len(Chain(Decl(t.jsp).base)) + 1
          BY <1>4, <2>1, InvSays, Above
        <4>2. QED
          BY <1>4, <2>1, <2>2, <4>1 DEF Depths
      <3>2. Depths \in [Classes -> Nat] /\ heap[t.inst].cls \in Classes
        BY <1>2, <1>4, InvSays DEF Fits, State
      <3>3. Depths[t.jsp] \in Nat /\ Depths[b.jsp] \in Nat /\ Depths[heap[t.inst].cls] \in Nat
        BY <1>4, <2>1, <2>2, <3>2
      <3>4. QED
        BY <1>2, <2>2, <3>1, <3>3
    <2>4. /\ Sound(b) /\ ~Bottom(b) /\ b \in Acts(Classes, n)
      BY <2>2 DEF Sound, Bottom, Acts
    <2>5. \E q \in 1..Len(stack) : /\ stack[q] = b.inst /\ q + b.argc <= Len(stack)
                                   /\ \A k \in 1..Len(bc) : Low(bc[k]) < q
      <3>1. PICK q \in 1..Len(stack) : Sits(stack, acts, Len(acts), q)
        BY <1>2
      <3>2. stack[q] = b.inst /\ q + b.argc <= Len(stack)
        BY <1>2, <2>2, <3>1 DEF Sits
      <3>3. ASSUME NEW k \in 1..Len(bc) PROVE Low(bc[k]) < q
        <4>1. k \in 1..Len(acts) /\ Low(bc[k]) = Low(acts[k])
          BY <1>8
        <4>2. CASE k = Len(acts)
          <5>1. Low(acts[k]) = 0
            BY <1>1, <1>2, <4>2 DEF Low
          <5>2. QED
            BY <4>1, <5>1
        <4>3. CASE k # Len(acts)
          <5>1. k \in 1..(Len(acts) - 1)
            BY <1>2, <4>1, <4>3
          <5>2. QED
            BY <3>1, <4>1, <5>1 DEF Sits
        <4>4. QED
          BY <4>2, <4>3
      <3>4. QED
        BY <3>2, <3>3
    <2>6. /\ bc[Len(bc)].k = "construct"
      BY <1>6, <1>8
    <2>7. /\ Depths[b.jsp] <= Depths[heap[b.inst].cls] /\ b.k # "frame" /\ b.k # "internal"
      <3>1. Depths \in [Classes -> Nat] /\ heap[b.inst].cls \in Classes /\ b.jsp \in Classes
        BY <1>2, <1>4, <2>1, <2>2, InvSays DEF Fits, State
      <3>2. Depths[b.jsp] \in Nat /\ Depths[heap[b.inst].cls] \in Nat
        BY <3>1
      <3>3. QED
        BY <2>2, <2>3, <3>2
    <2>8. Fits(heap, stack, Append(bc, b))
      BY <1>8, <2>2, <2>3, <2>4, <2>5, <2>6, <2>7, FitPush
    <2>9. Fits(heap', stack', acts')
      BY <1>1, <1>5, <1>11, <2>8
    <2>10. QED
      BY <1>1, <1>2, <1>9, <2>9, InvKept
  <1>12. QED
    BY <1>10, <1>11

\* callConstructors calls the constructor of the class
LEMMA ConstructSelfKeeps ==
    ASSUME Inv, ConstructSelf
    PROVE  Inv'
  <1> DEFINE n == Len(heap)
             h == jsinstRef(heap, Top.inst)
             a == Going(Top, "called")
  <1>1. /\ acts # <<>> /\ Top.k = "construct" /\ UNCHANGED classVars /\ host' = host
        /\ IF err = "NONE"
           THEN EnterConstructor([acts EXCEPT ![Len(acts)].at = "called"], h, Top.inst,
                                 <<Top.jsp, Top.argc>>)
           ELSE acts' = Below /\ heap' = heap /\ stack' = stack /\ err' = err /\ missed' = missed
    BY DEF ConstructSelf, history
  <1>2. /\ Fits(heap, stack, acts) /\ Ready /\ ClassInv /\ n \in Nat /\ Top \in Acts(Classes, n)
        /\ Top = acts[Len(acts)]
    BY <1>1, TopIs
  <1>3. Top \in Constructs(Classes, n)
    BY <1>1, <1>2, ActTypes
  <1>4. Top.inst \in 1..n /\ Top.jsp \in Classes /\ Top.argc \in Nat /\ heap \in Heaps(Classes, n)
    BY <1>2, <1>3, WaitTypes, InvSays
  <1>5. CASE err = "NONE"
    <2>1. h \in Heaps(Classes, n) /\ Same(h, heap)
      <3>1. Top.inst \in 0..n
        BY <1>4
      <3>2. QED
        BY <1>2, <1>4, <3>1, RefTypes
    <2>2. EnterConstructor([acts EXCEPT ![Len(acts)] = a], h, Top.inst, <<Top.jsp, Top.argc>>)
      <3>1. [acts EXCEPT ![Len(acts)].at = "called"] = [acts EXCEPT ![Len(acts)] = a]
        BY <1>2 DEF Going
      <3>2. QED
        BY <1>1, <1>5, <3>1
    <2>3. /\ a \in Constructs(Classes, n) /\ a.k = "construct" /\ a.inst = Top.inst
          /\ a.argc = Top.argc /\ a.jsp = Top.jsp
      BY <1>2, <1>3, ConstructAt
    <2> HIDE DEF a, h
    <2>4. a \in Acts(Classes, n) /\ a.k = Top.k /\ Top.argc \in 0..Top.argc
      BY <1>1, <1>4, <2>3 DEF Acts
    <2>5. /\ Fits(heap', stack', acts') /\ Len(heap') = Len(heap) /\ err' # "EXCEPTION"
          /\ \A x \in missed' : x \in missed \/ Nearest(x[1], x[2]) = None
      BY <1>1, <1>4, <2>1, <2>2, <2>3, <2>4, ConstructorEntered
    <2>6. QED
      BY <1>1, <1>2, <2>5, InvKept
  <1>6. CASE err # "NONE"
    <2>1. /\ acts' = Below /\ heap' = heap /\ stack' = stack /\ err' = err /\ missed' = missed
      BY <1>1, <1>6
    <2>2. Fits(heap', stack', acts')
      BY <1>1, <1>2, <2>1, FitPop DEF Below
    <2>3. err' = "EXCEPTION" => stack' # <<>>
      BY <2>1 DEF Inv, TypeInv
    <2>4. QED
      BY <1>1, <1>2, <2>1, <2>2, <2>3, InvKept
  <1>7. QED
    BY <1>5, <1>6

\* callConstructors goes on when the constructor of the class has returned
LEMMA ConstructReturnsKeeps ==
    ASSUME Inv, ConstructReturns
    PROVE  Inv' /\ Same(heap', heap)
  <1> DEFINE n == Len(heap)
             t == Top
             h == varClear(heap, <<t.inst>>)
             fine == err = "NONE" \/ (t.argc = 0 /\ err = "UNKNOWN_METHOD")
             last == t.jsp = heap[t.inst].cls
             z == Len(stack) - t.argc
             a == GoingWith(t, "base", 0)
  <1>1. /\ acts # <<>> /\ t.k = "construct" /\ UNCHANGED classVars /\ host' = host
        /\ missed' = missed
        /\ \/ /\ acts' = [acts EXCEPT ![Len(acts)].at = "base", ![Len(acts)].argc = 0]
              /\ err' = "NONE" /\ heap' = h /\ stack' = stack
           \/ acts' = Below /\ heap' = h /\ stack' = stack /\ err' \in {err, "NONE"}
           \/ /\ fine /\ last /\ acts' = Below /\ err' = "NONE"
              /\ stack' = SubSeq(stack, 1, z)
              /\ heap' = varClear(h, SubSeq(stack, z + 1, Len(stack)))
    BY DEF ConstructReturns
  <1>2. /\ Fits(heap, stack, acts) /\ Ready /\ ClassInv /\ n \in Nat /\ t \in Acts(Classes, n)
        /\ t = acts[Len(acts)] /\ Len(acts) \in Nat /\ Len(acts) \in 1..Len(acts)
        /\ Bottom(t) <=> Len(acts) = 1
        /\ acts[Len(acts) - 1].k \in {"frame", "construct"}
        /\ acts[Len(acts) - 1].k = "construct" => Depths[t.jsp] < Depths[heap[t.inst].cls]
        /\ \E q \in 1..Len(stack) : Sits(stack, acts, Len(acts), q)
    BY <1>1, TopIs
  <1>3. t \in Constructs(Classes, n)
    BY <1>1, <1>2, ActTypes
  <1>4. t.inst \in 1..n /\ t.jsp \in Classes /\ t.argc \in Nat
    BY <1>2, <1>3, WaitTypes
  <1>5. /\ heap \in Heaps(Classes, n) /\ Len(stack) \in Nat /\ stack \in Seq(0..n)
        /\ err = "EXCEPTION" => stack # <<>>
    BY InvSays DEF Inv, TypeInv
  <1>6. h \in Heaps(Classes, n) /\ Same(h, heap)
    <2>1. <<t.inst>> \in Seq(0..n)
      BY <1>4
    <2>2. QED
      BY <1>2, <1>5, <2>1, ClearTypes
  <1> HIDE DEF h, t
  <1>7. Fits(h, stack, acts) /\ Len(h) = n
    BY <1>2, <1>6, FitHeap
  <1>8. Fits(h, stack, Below) /\ Len(Below) = Len(acts) - 1
        /\ \A k \in 1..(Len(acts) - 1) : Below[k] = acts[k]
    BY <1>1, <1>7, FitPop DEF Below
  <1>9. CASE /\ acts' = [acts EXCEPT ![Len(acts)].at = "base", ![Len(acts)].argc = 0]
             /\ err' = "NONE" /\ heap' = h /\ stack' = stack
    <2>1. acts' = [acts EXCEPT ![Len(acts)] = a]
      BY <1>2, <1>9 DEF GoingWith
    <2>2. PICK m : m = 0
      OBVIOUS
    <2>3. m \in Nat /\ a = GoingWith(t, "base", m)
      BY <2>2
    <2>31. m \in Nat /\ n \in Nat /\ t \in Constructs(Classes, n)
      BY <1>2, <1>3, <2>2
    <2> HIDE DEF n
    <2>4. /\ GoingWith(t, "base", m) \in Constructs(Classes, n)
          /\ GoingWith(t, "base", m).k = "construct" /\ GoingWith(t, "base", m).inst = t.inst
          /\ GoingWith(t, "base", m).argc = m /\ GoingWith(t, "base", m).jsp = t.jsp
      BY <2>31, ConstructWith
    <2> HIDE DEF a
    <2>5. /\ a \in Acts(Classes, Len(h)) /\ a.k = t.k /\ a.k # "internal" /\ a.k # "frame"
          /\ a.inst = t.inst /\ a.argc <= t.argc /\ a.jsp = t.jsp
      BY <1>1, <1>4, <1>7, <2>2, <2>3, <2>4 DEF Acts
    <2>6. Fits(h, stack, [acts EXCEPT ![Len(acts)] = a])
      BY <1>1, <1>2, <1>7, <2>5, FitAlter
    <2>7. Fits(heap', stack', acts') /\ Len(heap') = Len(heap) /\ err' # "EXCEPTION"
      BY <1>7, <1>9, <2>1, <2>6 DEF n
    <2>8. QED
      <3>1. Inv'
        BY <1>1, <1>2, <2>7, InvKept
      <3>2. Same(heap', heap)
        BY <1>6, <1>9
      <3>3. QED
        BY <3>1, <3>2
  <1>10. CASE acts' = Below /\ heap' = h /\ stack' = stack /\ err' \in {err, "NONE"}
    <2>1. /\ Fits(heap', stack', acts') /\ Len(heap') = Len(heap)
          /\ err' = "EXCEPTION" => stack' # <<>>
      BY <1>5, <1>7, <1>8, <1>10
    <2>2. QED
      <3>1. Inv'
        BY <1>1, <1>2, <2>1, InvKept
      <3>2. Same(heap', heap)
        BY <1>6, <1>10
      <3>3. QED
        BY <3>1, <3>2
  <1>11. CASE /\ fine /\ last /\ acts' = Below /\ err' = "NONE"
              /\ stack' = SubSeq(stack, 1, z)
              /\ heap' = varClear(h, SubSeq(stack, z + 1, Len(stack)))
    <2>1. PICK q \in 1..Len(stack) : Sits(stack, acts, Len(acts), q)
      BY <1>2
    <2>2. PICK d : d = t.argc
      OBVIOUS
    <2>3. d \in Nat /\ q + d <= Len(stack)
      BY <1>2, <1>4, <2>1, <2>2 DEF Sits
    <2>4. z \in 0..Len(stack) /\ q <= z
      BY <1>5, <2>2, <2>3
    <2> DEFINE V == 0..n
    <2>5. stack \in Seq(V)
      BY <1>5
    <2> HIDE DEF V, z
    <2>6. /\ SubSeq(stack, 1, z) \in Seq(V) /\ Len(SubSeq(stack, 1, z)) = z
          /\ \A k \in 1..z : SubSeq(stack, 1, z)[k] = stack[k]
      BY <2>4, <2>5, Slices
    <2>7. SubSeq(stack, z + 1, Len(stack)) \in Seq(V)
      BY <2>4, <2>5, Slices
    <2>8. heap' \in Heaps(Classes, n) /\ Same(heap', h)
      BY <1>2, <1>6, <1>11, <2>7, ClearTypes DEF V
    <2>9. Fits(heap', stack, Below) /\ Len(heap') = n
      BY <1>7, <1>8, <2>8, FitHeap
    <2>10. Len(acts) # 1 /\ Len(Below) >= 1 /\ Len(Below) \in 1..(Len(acts) - 1)
      <3>1. ~Bottom(t)
        BY <1>1 DEF Bottom
      <3>2. QED
        BY <1>2, <1>8, <3>1
    <2>11. Below[Len(Below)] = acts[Len(acts) - 1]
      BY <1>2, <1>8, <2>10
    <2>12. acts[Len(acts) - 1].k = "frame"
      <3>1. Depths \in [Classes -> Nat] /\ heap[t.inst].cls \in Classes
        BY <1>2, <1>4, InvSays DEF Fits, State
      <3>2. Depths[t.jsp] \in Nat
        BY <1>4, <3>1
      <3>3. ~(Depths[t.jsp] < Depths[heap[t.inst].cls])
        BY <1>11, <3>2
      <3>4. QED
        BY <1>2, <3>3
    <2>13. Low(acts[Len(acts) - 1]) < q
      BY <1>2, <2>1, <2>10 DEF Sits
    <2>14. z >= Low(Below[Len(Below)])
      <3>1. Low(acts[Len(acts) - 1]) \in Nat
        <4>1. \A k \in 1..Len(acts) : Low(acts[k]) \in Nat
          BY InvSays
        <4>2. Len(acts) - 1 \in 1..Len(acts)
          BY <1>2, <2>10
        <4>3. QED
          BY <4>1, <4>2
      <3>2. QED
        BY <1>5, <2>4, <2>11, <2>13, <3>1
    <2>15. Below # <<>> /\ z \in Nat
      BY <1>5, <2>4, <2>10
    <2>16. Fits(heap', SubSeq(stack, 1, z), Below)
      <3>1. SubSeq(stack, 1, z) \in Seq(0..Len(heap'))
        BY <2>6, <2>9 DEF V
      <3>2. Len(SubSeq(stack, 1, z)) >= z
        BY <2>6, <2>15
      <3>3. QED
        BY <2>6, <2>9, <2>11, <2>12, <2>14, <2>15, <3>1, <3>2, FitStack
    <2>17. Fits(heap', stack', acts') /\ Len(heap') = Len(heap) /\ err' # "EXCEPTION"
      BY <1>11, <2>9, <2>16
    <2>18. QED
      <3>1. Inv'
        BY <1>1, <1>2, <2>17, InvKept
      <3>2. Same(heap', heap)
        BY <1>6, <2>8, SameAgain
      <3>3. QED
        BY <3>1, <3>2
  <1>12. QED
    BY <1>1, <1>9, <1>10, <1>11

-----------------------------------------------------------------------------
(* The host                                                                *)

\* No call is under way
LEMMA FitNone ==
    ASSUME NEW h, NEW st, NEW ac, Fits(h, st, ac), NEW st2 \in Seq(0..Len(h))
    PROVE  Fits(h, st2, <<>>)
  <1>1. State(Classes, Depths, h, st2, <<>>)
    BY NoActs DEF Fits
  <1>2. \A k \in 1..Len(<<>>) : Sound(<<>>[k])
    OBVIOUS
  <1>3. QED
    BY <1>1, <1>2 DEF Fits

\* Plain values
LEMMA PlainList ==
    ASSUME NEW n \in Nat, NEW m \in Nat
    PROVE  /\ [k \in 1..m |-> Plain] \in Seq(0..n) /\ Len([k \in 1..m |-> Plain]) = m
           /\ \A j \in 1..m : [k \in 1..m |-> Plain][j] = Plain
  BY DEF Plain

\* Two activations
LEMMA TwoActs ==
    ASSUME NEW S, NEW a \in S, NEW b \in S
    PROVE  Append(Append(<<>>, a), b) = <<a, b>> /\ Append(<<>>, a) # <<>>
  <1> DEFINE s == Append(<<a>>, b)
             t == <<a, b>>
  <1>1. s \in Seq(S) /\ Len(s) = 2 /\ s[1] = a /\ s[2] = b
    OBVIOUS
  <1>2. t \in Seq(S) /\ Len(t) = 2 /\ t[1] = a /\ t[2] = b
    OBVIOUS
  <1>3. Append(<<>>, a) = <<a>> /\ Append(<<>>, a) # <<>>
    OBVIOUS
  <1> HIDE DEF s, t
  <1>4. s = [k \in 1..2 |-> s[k]] /\ t = [k \in 1..2 |-> t[k]]
    BY <1>1, <1>2
  <1>5. \A k \in 1..2 : s[k] = t[k]
    BY <1>1, <1>2
  <1>6. s = t
    BY <1>4, <1>5
  <1>7. QED
    BY <1>3, <1>6 DEF s, t

\* The host runs a program
LEMMA RunKeeps ==
    ASSUME Inv, qinterpRun
    PROVE  Inv'
  <1> DEFINE n == Len(heap)
             c == prog[Len(prog)].name
             r == [k |-> "run"]
             sig == <<"main", 0>>
             vs == <<Plain, Plain>>
             f == Frame(c, c, sig, vs, TRUE, Len(stack))
  <1>1. /\ acts = <<>> /\ Ready /\ acts' = <<r, f>> /\ UNCHANGED classVars /\ heap' = heap
        /\ stack' = stack /\ err' = err /\ host' = host /\ missed' = missed
    BY DEF qinterpRun, Idle, history
  <1>2. /\ prog \in Programs /\ Fits(heap, stack, acts) /\ n \in Nat /\ Len(stack) \in Nat
        /\ err = "EXCEPTION" => stack # <<>>
    BY InvSays DEF Inv, TypeInv
  <1>3. c \in Classes
    <2>1. Len(prog) \in 1..Len(prog)
      BY <1>2, ProgramsAssumption
    <2>2. QED
      BY <1>2, <2>1, Places
  <1>4. r \in Acts(Classes, n) /\ Sound(r) /\ Bottom(r) /\ r.k = "run"
    BY DEF Acts, Waits, Sound, Bottom
  <1>5. Fits(heap, stack, Append(acts, r))
    BY <1>1, <1>2, <1>4, FitPush
  <1>6. sig \in Signatures /\ vs \in Seq(0..n) /\ Len(vs) >= 1
    BY <1>2 DEF Signatures, Plain
  <1>7. PICK b : b = TRUE
    OBVIOUS
  <1>8. b \in BOOLEAN /\ f = Frame(c, c, sig, vs, b, Len(stack))
    BY <1>7
  <1> HIDE DEF r, vs, c
  <1>9. f.k = "frame" /\ f.base = Len(stack) /\ f.sig = sig
    BY DEF Frame
  <1>10. Sound(f)
    BY <1>9 DEF Sound
  <1> HIDE DEF sig
  <1>11. /\ Frame(c, c, sig, vs, b, Len(stack)) \in Acts(Classes, n)
         /\ ~Bottom(Frame(c, c, sig, vs, b, Len(stack)))
    BY <1>2, <1>3, <1>6, <1>8, FrameIs
  <1>12. f \in Acts(Classes, n) /\ ~Bottom(f)
    BY <1>8, <1>11
  <1> HIDE DEF f
  <1>13. Append(acts, r) # <<>> /\ acts' = Append(Append(acts, r), f)
    <2>1. Append(Append(<<>>, r), f) = <<r, f>> /\ Append(<<>>, r) # <<>>
      BY <1>4, <1>12, TwoActs
    <2>2. QED
      BY <1>1, <2>1
  <1>14. Fits(heap, stack, Append(Append(acts, r), f))
    BY <1>5, <1>13, <1>9, <1>10, <1>12, FitPush
  <1>15. Fits(heap', stack', acts') /\ Len(heap') = n /\ (err' = "EXCEPTION" => stack' # <<>>)
    BY <1>1, <1>2, <1>13, <1>14
  <1>16. QED
    BY <1>1, <1>2, <1>15, InvKept

\* The program has run
LEMMA RunReturnsKeeps ==
    ASSUME Inv, RunReturns
    PROVE  Inv' /\ Same(heap', heap)
  <1> DEFINE n == Len(heap)
  <1>1. /\ acts # <<>> /\ Top.k = "run" /\ acts' = Below /\ err' = Run /\ UNCHANGED classVars
        /\ heap' = IF stack = <<>> THEN heap ELSE varClear(heap, <<Peek>>)
        /\ stack' = IF stack = <<>> THEN stack ELSE Front(stack)
        /\ host' = host /\ missed' = missed
    BY DEF RunReturns
  <1>2. /\ Fits(heap, stack, acts) /\ Ready /\ n \in Nat /\ (Bottom(Top) <=> Len(acts) = 1)
    BY <1>1, TopIs
  <1>3. heap \in Heaps(Classes, n) /\ stack \in Seq(0..n)
    BY InvSays
  <1>4. acts' = <<>>
    <2>1. Len(acts) = 1
      BY <1>1, <1>2 DEF Bottom
    <2>2. QED
      BY <1>1, <1>2, <2>1, FitPop DEF Below
  <1>5. stack' \in Seq(0..n) /\ heap' \in Heaps(Classes, n) /\ Same(heap', heap)
    <2>1. CASE stack = <<>>
      BY <1>1, <1>3, <2>1 DEF Same
    <2>2. CASE stack # <<>>
      <3> DEFINE V == 0..n
      <3>1. stack \in Seq(V)
        BY <1>3
      <3> HIDE DEF V
      <3>2. Front(stack) \in Seq(V) /\ stack[Len(stack)] \in V
        BY <2>2, <3>1, AllButLast
      <3>3. <<Peek>> \in Seq(V)
        BY <3>2 DEF Peek
      <3>4. varClear(heap, <<Peek>>) \in Heaps(Classes, n) /\ Same(varClear(heap, <<Peek>>), heap)
        BY <1>2, <1>3, <3>3, ClearTypes DEF V
      <3>5. QED
        BY <1>1, <2>2, <3>2, <3>4 DEF V
    <2>3. QED
      BY <2>1, <2>2
  <1>6. Fits(heap', stack, acts) /\ Len(heap') = n
    BY <1>2, <1>5, FitHeap
  <1>7. Fits(heap', stack', acts')
    BY <1>4, <1>5, <1>6, FitNone
  <1>8. QED
    <2>1. Inv'
      BY <1>1, <1>2, <1>6, <1>7, InvKept DEF Run
    <2>2. Same(heap', heap)
      BY <1>5
    <2>3. QED
      BY <2>1, <2>2

\* An instance could not be made
LEMMA MakeFailsKeeps ==
    ASSUME Inv, MakeFails
    PROVE  Inv'
  <1>1. /\ acts = <<>> /\ acts' = acts /\ err' = Run /\ UNCHANGED classVars
        /\ heap' = heap /\ stack' = stack /\ host' = host /\ missed' = missed
    BY DEF MakeFails, history
  <1>2. Fits(heap', stack', acts') /\ Len(heap') >= Len(heap)
    BY <1>1, InvSays
  <1>3. QED
    BY <1>1, <1>2, InvKept DEF Run

\* The host makes an instance
LEMMA CreateKeeps ==
    ASSUME Inv, NEW c \in Classes, NEW argc \in 0..1, createJSClassInstance(c, argc)
    PROVE  Inv'
  <1> DEFINE args == [k \in 1..argc |-> Plain]
  <1>1. Ready /\ acts = <<>> /\ Make(c, args, TRUE) /\ err' = "NONE" /\ host' = host
    BY DEF createJSClassInstance, Idle
  <1>2. Len(heap) \in Nat /\ argc \in Nat
    BY InvSays
  <1>3. args \in Seq(0..Len(heap)) /\ Len(args) = argc /\ \A j \in 1..argc : args[j] = Plain
    BY <1>2, PlainList
  <1> HIDE DEF args
  <1>4. PICK b : b = TRUE
    OBVIOUS
  <1>5. b \in BOOLEAN /\ Make(c, args, b) /\ b
    BY <1>1, <1>4
  <1>6. b => acts = <<>> /\ \A j \in 1..Len(args) : args[j] = Plain
    BY <1>1, <1>3
  <1>7. /\ Fits(heap', stack', acts') /\ Len(heap') = Len(heap) + 1
        /\ UNCHANGED classVars /\ missed' = missed
    BY <1>3, <1>5, <1>6, MakeKeeps
  <1>8. QED
    BY <1>1, <1>2, <1>7, InvKept

\* The host calls the constructor of the next class
LEMMA HostConstructsKeeps ==
    ASSUME Inv, HostConstructs
    PROVE  Inv'
  <1> DEFINE n == Len(heap)
             a == Going(Top, "called")
  <1>1. PICK m : m = IF Top.retry THEN 0 ELSE Top.argc
    OBVIOUS
  <1>2. /\ acts # <<>> /\ Top.k = "host" /\ UNCHANGED classVars /\ host' = host
        /\ EnterConstructor([acts EXCEPT ![Len(acts)].at = "called"], heap, Top.inst, <<Top.jsp, m>>)
    BY <1>1 DEF HostConstructs
  <1>3. /\ Fits(heap, stack, acts) /\ Ready /\ ClassInv /\ n \in Nat /\ Top \in Acts(Classes, n)
        /\ Top = acts[Len(acts)]
    BY <1>2, TopIs
  <1>4. Top \in Hosts(Classes, n)
    BY <1>2, <1>3, ActTypes
  <1>5. Top.jsp \in Classes /\ Top.argc \in Nat /\ heap \in Heaps(Classes, n) /\ Same(heap, heap)
    BY <1>3, <1>4, WaitTypes, InvSays DEF Same
  <1>6. m \in 0..Top.argc
    BY <1>1, <1>5
  <1>7. EnterConstructor([acts EXCEPT ![Len(acts)] = a], heap, Top.inst, <<Top.jsp, m>>)
    <2>1. [acts EXCEPT ![Len(acts)].at = "called"] = [acts EXCEPT ![Len(acts)] = a]
      BY <1>3 DEF Going
    <2>2. QED
      BY <1>2, <2>1
  <1>8. a \in Hosts(Classes, n) /\ a.k = "host" /\ a.inst = Top.inst /\ a.argc = Top.argc
    BY <1>3, <1>4, HostAt
  <1> HIDE DEF a
  <1>9. a \in Acts(Classes, n) /\ a.k = Top.k
    BY <1>2, <1>8 DEF Acts
  <1>10. a.k = "construct" => a.jsp = Top.jsp
    BY <1>8
  <1>11. /\ Fits(heap', stack', acts') /\ Len(heap') = Len(heap) /\ err' # "EXCEPTION"
         /\ \A x \in missed' : x \in missed \/ Nearest(x[1], x[2]) = None
    BY <1>2, <1>5, <1>6, <1>7, <1>8, <1>9, <1>10, ConstructorEntered
  <1>12. QED
    BY <1>2, <1>3, <1>11, InvKept

\* The loop of createJSClassInstance goes on, or ends
LEMMA HostConstructedKeeps ==
    ASSUME Inv, HostConstructed
    PROVE  Inv' /\ Same(heap', heap)
  <1> DEFINE n == Len(heap)
             t == Top
             fine  == err = "NONE" \/ (err = "UNKNOWN_METHOD" /\ t.argc = 0)
             again == err = "UNKNOWN_METHOD" /\ t.argc > 0 /\ ~t.retry
             more  == fine /\ link[t.jsp] # None
             c == IF again THEN t.jsp ELSE link[t.jsp]
  <1>1. /\ acts # <<>> /\ t.k = "host" /\ UNCHANGED classVars /\ stack' = stack /\ missed' = missed
        /\ IF more \/ again
           THEN /\ acts' = [acts EXCEPT ![Len(acts)] =
                               [t EXCEPT !.at = "call", !.retry = again,
                                         !.jsp = IF again THEN @ ELSE link[@]]]
                /\ err' = "NONE" /\ heap' = heap /\ host' = host
           ELSE /\ acts' = Below /\ err' = Run /\ heap' = varClear(heap, <<t.inst>>)
                /\ host' = IF fine THEN [inst |-> t.inst, refs |-> 0] ELSE host
    BY DEF HostConstructed, history
  <1> HIDE DEF again
  <1>2. /\ Fits(heap, stack, acts) /\ Ready /\ ClassInv /\ n \in Nat /\ t \in Acts(Classes, n)
        /\ t = acts[Len(acts)]
    BY <1>1, TopIs
  <1>3. t \in Hosts(Classes, n)
    BY <1>1, <1>2, ActTypes
  <1>4. t.inst \in 1..n /\ t.jsp \in Classes /\ t.argc \in Nat /\ heap \in Heaps(Classes, n)
    BY <1>2, <1>3, WaitTypes, InvSays
  <1>5. CASE more \/ again
    <2>1. PICK r \in BOOLEAN : r = again
      BY DEF again
    <2>2. c \in Classes
      <3>1. CASE again
        BY <1>4, <3>1
      <3>2. CASE ~again
        <4>1. link[t.jsp] = BaseOf(t.jsp) /\ link[t.jsp] # None /\ c = link[t.jsp]
          BY <1>2, <1>4, <1>5, <3>2, FindsNearest
        <4>2. QED
          BY <4>1 DEF BaseOf
      <3>3. QED
        BY <3>1, <3>2
    <2> DEFINE a == HostGoing(t, "call", r, c)
    <2>3. acts' = [acts EXCEPT ![Len(acts)] = a] /\ err' = "NONE" /\ heap' = heap /\ host' = host
      <3>1. /\ acts' = [acts EXCEPT ![Len(acts)] =
                           [t EXCEPT !.at = "call", !.retry = again,
                                     !.jsp = IF again THEN @ ELSE link[@]]]
            /\ err' = "NONE" /\ heap' = heap /\ host' = host
        BY <1>1, <1>5
      <3> DEFINE Y(u) == [u EXCEPT !.at = "call", !.retry = again,
                                   !.jsp = IF again THEN @ ELSE link[@]]
                 Z(u) == [u EXCEPT !.at = "call", !.retry = again,
                                   !.jsp = IF again THEN u.jsp ELSE link[u.jsp]]
      <3>2. acts' = [acts EXCEPT ![Len(acts)] = Y(t)]
        BY <3>1
      <3>3. Y(t) = Z(t)
        <4>1. ASSUME NEW u \in Hosts(Classes, n) PROVE Y(u) = Z(u)
          BY DEF Hosts
        <4> HIDE DEF Y, Z, t
        <4>2. QED
          BY <1>3, <4>1
      <3>4. Z(t) = a
        BY <2>1 DEF HostGoing
      <3> HIDE DEF Y, Z, t
      <3>5. acts' = [acts EXCEPT ![Len(acts)] = a]
        BY <1>2, <3>2, <3>3, <3>4
      <3>6. QED
        BY <3>1, <3>5
    <2> HIDE DEF more, c, t
    <2>4. a \in Hosts(Classes, n) /\ a.k = "host" /\ a.inst = t.inst /\ a.argc = t.argc
      BY <1>2, <1>3, <2>2, HostFor
    <2> HIDE DEF a
    <2>5. /\ a \in Acts(Classes, n) /\ a.k = t.k /\ a.k # "internal" /\ a.k # "frame"
          /\ a.k # "construct" /\ a.inst = t.inst /\ a.argc <= t.argc
      BY <1>1, <1>4, <2>4 DEF Acts
    <2>6. Fits(heap, stack, [acts EXCEPT ![Len(acts)] = a])
      BY <1>1, <1>2, <2>5, FitAlter
    <2>7. Fits(heap', stack', acts') /\ Len(heap') = Len(heap) /\ err' # "EXCEPTION"
      BY <1>1, <2>3, <2>6
    <2>8. QED
      <3>1. Inv'
        BY <1>1, <1>2, <2>3, <2>7, InvKept
      <3>2. Same(heap', heap)
        BY <2>3 DEF Same
      <3>3. QED
        BY <3>1, <3>2
  <1>6. CASE ~(more \/ again)
    <2>1. /\ acts' = Below /\ err' = Run /\ heap' = varClear(heap, <<t.inst>>)
          /\ host' = host \/ host' = [inst |-> t.inst, refs |-> 0]
      BY <1>1, <1>6
    <2>2. heap' \in Heaps(Classes, n) /\ Same(heap', heap)
      <3>1. <<t.inst>> \in Seq(0..n)
        BY <1>4
      <3>2. QED
        BY <1>2, <1>4, <2>1, <3>1, ClearTypes
    <2>3. Fits(heap', stack, acts) /\ Len(heap') = n
      BY <1>2, <2>2, FitHeap
    <2>4. Fits(heap', stack', acts')
      BY <1>1, <2>1, <2>3, FitPop DEF Below
    <2>5. host' = host \/ host' \in [inst : 0..Len(heap'), refs : Nat]
      BY <1>4, <2>1, <2>3
    <2>6. QED
      <3>1. Inv'
        BY <1>1, <1>2, <2>1, <2>3, <2>4, <2>5, InvKept DEF Run
      <3>2. Same(heap', heap)
        BY <2>2
      <3>3. QED
        BY <3>1, <3>2
  <1>7. QED
    BY <1>5, <1>6

\* The host calls a method
LEMMA HostCallKeeps ==
    ASSUME Inv, NEW sig \in Sigs, qinterpCall(sig)
    PROVE  Inv' /\ Same(heap', heap)
  <1> DEFINE n == Len(heap)
             i == host.inst
             ctx == heap[i].cls
             def == jsclassFindMethod(ctx, sig)
             args == [k \in 1..sig[2] |-> Plain]
             vs == <<i>> \o args
             call == [k |-> "call", inst |-> i]
             h == jsinstRef(jsinstRef(heap, i), i)
             f == Frame(ctx, def, sig, vs, TRUE, Len(stack))
  <1>1. /\ acts = <<>> /\ Ready /\ i # Plain /\ UNCHANGED classVars /\ host' = host /\ heap' = h
        /\ IF def = None
           THEN /\ acts' = <<call>> /\ stack' = stack \o Front(vs) /\ err' = "UNKNOWN_METHOD"
                /\ missed' = missed \cup {<<ctx, sig>>}
           ELSE /\ acts' = <<call, f>> /\ stack' = stack /\ err' = err /\ missed' = missed
    BY DEF qinterpCall, Idle
  <1>2. /\ prog \in Programs /\ Fits(heap, stack, acts) /\ n \in Nat /\ heap \in Heaps(Classes, n)
        /\ stack \in Seq(0..n) /\ Len(stack) \in Nat /\ \A j \in 1..n : heap[j].cls \in Classes
        /\ ClassInv
    BY InvSays DEF Inv
  <1>3. err = "EXCEPTION" => stack # <<>>
    BY DEF Inv, TypeInv
  <1>4. i \in 1..n /\ i \in 0..n
    <2>1. host \in [inst : 0..n, refs : Nat]
      BY DEF Inv, TypeInv
    <2>2. QED
      BY <1>1, <1>2, <2>1 DEF Plain
  <1>5. ctx \in Classes
    BY <1>2, <1>4
  <1>6. def = Nearest(ctx, sig) /\ def \in Classes \cup {None}
    BY <1>1, <1>2, <1>5, FindsNearest
  <1>7. sig \in Signatures /\ sig[2] \in Nat
    <2>1. sig \in Signatures
      BY <1>2, SigTypes
    <2>2. QED
      BY <2>1 DEF Signatures
  <1>8. h \in Heaps(Classes, n) /\ Same(h, heap)
    <2>1. jsinstRef(heap, i) \in Heaps(Classes, n) /\ Same(jsinstRef(heap, i), heap)
      BY <1>2, <1>4, RefTypes
    <2> DEFINE g == jsinstRef(heap, i)
    <2> HIDE DEF g
    <2>2. g \in Heaps(Classes, n) /\ Same(g, heap)
      BY <2>1 DEF g
    <2>3. jsinstRef(g, i) \in Heaps(Classes, n) /\ Same(jsinstRef(g, i), g)
      BY <1>2, <1>4, <2>2, RefTypes
    <2>4. Same(jsinstRef(g, i), heap)
      BY <2>2, <2>3, SameAgain
    <2>5. QED
      BY <2>3, <2>4 DEF g
  <1>9. vs \in Seq(0..n) /\ Len(vs) >= 1
    <2>1. args \in Seq(0..n) /\ <<i>> \in Seq(0..n) /\ Len(<<i>>) = 1
      <3>1. PICK m : m = sig[2]
        OBVIOUS
      <3>2. m \in Nat /\ args = [k \in 1..m |-> Plain]
        BY <1>7, <3>1
      <3>3. [k \in 1..m |-> Plain] \in Seq(0..n)
        BY <1>2, <3>2, PlainList
      <3> HIDE DEF args
      <3>4. QED
        BY <1>4, <3>2, <3>3
    <2> HIDE DEF args
    <2>2. Len(args) \in Nat
      BY <2>1
    <2>3. vs \in Seq(0..n) /\ Len(vs) = Len(<<i>>) + Len(args)
      BY <2>1, Joined
    <2>4. QED
      BY <2>1, <2>2, <2>3
  <1> HIDE DEF h, vs, args
  <1>10. Fits(h, stack, acts) /\ Len(h) = n
    BY <1>2, <1>8, FitHeap
  <1>11. call \in Acts(Classes, n) /\ Sound(call) /\ Bottom(call) /\ call.k = "call"
    BY <1>4 DEF Acts, Waits, Sound, Bottom
  <1> HIDE DEF call
  <1>12. ASSUME NEW st, Fits(h, st, <<>>)
         PROVE  Fits(h, st, Append(<<>>, call))
    BY <1>10, <1>11, <1>12, FitPush
  <1>13. CASE def = None
    <2>1. /\ acts' = <<call>> /\ stack' = stack \o Front(vs) /\ err' = "UNKNOWN_METHOD"
          /\ missed' = missed \cup {<<ctx, sig>>}
      BY <1>1, <1>13
    <2>2. stack' \in Seq(0..n)
      <3>1. vs # <<>>
        BY <1>9
      <3>2. Front(vs) \in Seq(0..n)
        BY <1>9, <3>1, AllButLast
      <3>3. stack \o Front(vs) \in Seq(0..n)
        BY <1>2, <3>2, Joined
      <3>4. QED
        BY <2>1, <3>3
    <2>3. Fits(h, stack', <<>>)
      BY <1>10, <2>2, FitNone
    <2>4. Fits(h, stack', Append(<<>>, call))
      BY <1>12, <2>3
    <2>5. Append(<<>>, call) = <<call>>
      OBVIOUS
    <2>6. Fits(heap', stack', acts')
      BY <1>1, <2>1, <2>4, <2>5
    <2>7. ASSUME NEW x \in missed' PROVE x \in missed \/ Nearest(x[1], x[2]) = None
      <3>1. CASE x = <<ctx, sig>>
        <4>1. x[1] = ctx /\ x[2] = sig
          BY <3>1
        <4>2. QED
          BY <1>6, <1>13, <4>1
      <3>2. QED
        BY <2>1, <3>1
    <2>8. Len(heap') >= Len(heap) /\ err' # "EXCEPTION"
      BY <1>1, <1>2, <1>10, <2>1
    <2>9. QED
      <3>1. Inv'
        BY <1>1, <2>6, <2>7, <2>8, InvKept
      <3>2. Same(heap', heap)
        BY <1>1, <1>8
      <3>3. QED
        BY <3>1, <3>2
  <1>14. CASE def # None
    <2>1. acts' = <<call, f>> /\ stack' = stack /\ err' = err /\ missed' = missed
      BY <1>1, <1>14
    <2>2. PICK b : b = TRUE
      OBVIOUS
    <2>3. b \in BOOLEAN /\ f = Frame(ctx, def, sig, vs, b, Len(stack)) /\ def \in Classes
      BY <1>6, <1>14, <2>2
    <2> HIDE DEF def
    <2>4. /\ Frame(ctx, def, sig, vs, b, Len(stack)) \in Acts(Classes, n)
          /\ ~Bottom(Frame(ctx, def, sig, vs, b, Len(stack)))
      BY <1>2, <1>5, <1>7, <1>9, <2>3, FrameIs
    <2>5. f.k = "frame" /\ f.base = Len(stack) /\ f.ctx = ctx /\ f.def = def /\ f.sig = sig
      BY DEF Frame
    <2>6. f \in Acts(Classes, Len(h)) /\ ~Bottom(f) /\ Sound(f)
      BY <1>6, <1>10, <2>3, <2>4, <2>5 DEF Sound
    <2> HIDE DEF f
    <2>7. Append(Append(<<>>, call), f) = <<call, f>> /\ Append(<<>>, call) # <<>>
      BY <1>10, <1>11, <2>6, TwoActs
    <2>8. Fits(h, stack, Append(<<>>, call))
      BY <1>1, <1>10, <1>12
    <2>9. Fits(h, stack, Append(Append(<<>>, call), f))
      BY <2>5, <2>6, <2>7, <2>8, FitPush
    <2>10. Fits(heap', stack', acts')
      BY <1>1, <2>1, <2>7, <2>9
    <2>11. Len(heap') >= Len(heap) /\ (err' = "EXCEPTION" => stack' # <<>>)
      BY <1>1, <1>2, <1>3, <1>10, <2>1
    <2>12. QED
      <3>1. Inv'
        BY <1>1, <2>1, <2>10, <2>11, InvKept
      <3>2. Same(heap', heap)
        BY <1>1, <1>8
      <3>3. QED
        BY <3>1, <3>2
  <1>15. QED
    BY <1>13, <1>14

\* The method has returned
LEMMA CallReturnsKeeps ==
    ASSUME Inv, CallReturns
    PROVE  Inv' /\ Same(heap', heap)
  <1> DEFINE n == Len(heap)
             i == Top.inst
             h == varClear(heap, stack)
             hh == IF h[i].refcount = 1 THEN jsinstRef(h, i) ELSE h
             m == host.refs + IF h[i].refcount = 1 THEN 1 ELSE 0
  <1>1. /\ acts # <<>> /\ Top.k = "call" /\ acts' = Below /\ err' = Run /\ UNCHANGED classVars
        /\ heap' = varClear(hh, <<i>>) /\ host' = [host EXCEPT !.refs = m]
        /\ stack' = <<>> /\ missed' = missed
    BY DEF CallReturns
  <1>2. /\ Fits(heap, stack, acts) /\ Ready /\ n \in Nat /\ (Bottom(Top) <=> Len(acts) = 1)
        /\ Top \in Acts(Classes, n)
    BY <1>1, TopIs
  <1>3. heap \in Heaps(Classes, n) /\ stack \in Seq(0..n)
    BY InvSays
  <1>4. i \in 1..n
    BY <1>1, <1>2, ActTypes, WaitTypes
  <1>5. acts' = <<>>
    <2>1. Len(acts) = 1
      BY <1>1, <1>2 DEF Bottom
    <2>2. QED
      BY <1>1, <1>2, <2>1, FitPop DEF Below
  <1>6. h \in Heaps(Classes, n) /\ Same(h, heap)
    BY <1>2, <1>3, ClearTypes
  <1>7. host' \in [inst : 0..n, refs : Nat]
    <2>1. host \in [inst : 0..n, refs : Nat]
      BY DEF Inv, TypeInv
    <2>2. m \in Nat
      BY <2>1
    <2> HIDE DEF m
    <2>3. QED
      BY <1>1, <2>1, <2>2
  <1> HIDE DEF h
  <1>8. hh \in Heaps(Classes, n) /\ Same(hh, heap)
    <2>1. i \in 0..n
      BY <1>2, <1>4
    <2>2. jsinstRef(h, i) \in Heaps(Classes, n) /\ Same(jsinstRef(h, i), h)
      BY <1>2, <1>6, <2>1, RefTypes
    <2>3. Same(jsinstRef(h, i), heap)
      BY <1>6, <2>2, SameAgain
    <2>4. QED
      BY <1>6, <2>2, <2>3
  <1> HIDE DEF hh
  <1>9. heap' \in Heaps(Classes, n) /\ Same(heap', heap)
    <2>1. <<i>> \in Seq(0..n)
      BY <1>4
    <2>2. heap' \in Heaps(Classes, n) /\ Same(heap', hh)
      BY <1>1, <1>2, <1>8, <2>1, ClearTypes
    <2>3. QED
      BY <1>8, <2>2, SameAgain
  <1>10. Fits(heap', stack, acts) /\ Len(heap') = n
    BY <1>2, <1>9, FitHeap
  <1>11. <<>> \in Seq(0..Len(heap'))
    OBVIOUS
  <1>12. Fits(heap', stack', acts')
    BY <1>1, <1>5, <1>10, <1>11, FitNone
  <1>13. QED
    <2>1. Inv'
      BY <1>1, <1>2, <1>7, <1>10, <1>12, InvKept DEF Run
    <2>2. Same(heap', heap)
      BY <1>9
    <2>3. QED
      BY <2>1, <2>2

-----------------------------------------------------------------------------
(* The program is prepared, and the steps together                         *)

\* A turn of the loop of qinterpPrepare, before anything else is done
LEMMA PreparesAll ==
    ASSUME Inv, qinterpPrepare
    PROVE  Inv'
  <1>1. /\ ~Ready /\ prog' = prog /\ heap' = heap /\ stack' = stack /\ acts' = acts
        /\ err' = err /\ host' = host /\ missed' = missed
    BY DEF qinterpPrepare, Ready, history
  <1>2. acts = <<>> /\ missed = {}
    BY <1>1 DEF Inv, TypeInv
  <1>3. ClassInv'
    BY PrepareKeeps DEF Inv
  <1>4. Classes' = Classes /\ Depths' = Depths
    <2>1. Classes' = Classes /\ \A c \in Classes : Len(Chain(c))' = Len(Chain(c))
      BY <1>1, ProgramStays
    <2>2. QED
      BY <2>1 DEF Depths
  <1>5. State(Classes', Depths', heap', stack', acts')
    BY <1>1, <1>4 DEF Inv, TypeInv
  <1>6. Roomy(heap)'
    <2>1. Roomy(heap)
      BY DEF Inv, TypeInv
    <2>2. QED
      BY <1>1, <2>1 DEF Roomy, Decl
  <1>7. TypeInv'
    BY <1>1, <1>2, <1>5, <1>6 DEF Inv, TypeInv
  <1>8. DispatchesToNearest'
    BY <1>1, <1>2 DEF DispatchesToNearest
  <1>9. QED
    BY <1>3, <1>7, <1>8 DEF Inv

\* Nothing is made, and nothing runs, at first
LEMMA InitInv ==
    ASSUME Init
    PROVE  Inv
  <1>1. /\ prog \in Programs /\ prepared = 0 /\ heap = <<>> /\ stack = <<>> /\ acts = <<>>
        /\ link = [c \in Classes |-> None] /\ err = Run /\ missed = {}
        /\ vtable = [c \in Classes |-> [on |-> FALSE, m |-> <<>>]]
        /\ host = [inst |-> Plain, refs |-> 0]
    BY DEF Init
  <1>2. Len(prog) \in Nat
    BY <1>1, DeclTypes
  <1>3. ASSUME NEW c \in Classes PROVE Tabled(c)
    <2>1. Place(c) \in 1..Len(prog)
      BY <1>1, Places
    <2>2. ~(Place(c) <= prepared)
      BY <1>1, <1>2, <2>1
    <2>3. link[c] = None /\ ~vtable[c].on
      BY <1>1
    <2>4. QED
      BY <2>2, <2>3 DEF Tabled
  <1>4. ClassInv
    BY <1>1, <1>2, <1>3 DEF ClassInv
  <1>5. Depths \in [Classes -> Nat]
    <2>1. \A c \in Classes : Len(Chain(c)) \in Nat
      BY <1>1, Above
    <2>2. QED
      BY <2>1 DEF Depths
  <1>6. State(Classes, Depths, heap, stack, acts)
    <2>1. heap \in Heaps(Classes, Len(heap))
      BY <1>1 DEF Heaps
    <2>2. stack \in Seq(0..Len(heap)) /\ acts \in Seq(Acts(Classes, Len(heap)))
      BY <1>1
    <2>3. Len(acts) = 0
      BY <1>1
    <2>4. Layered(stack, acts) /\ Based(Depths, heap, acts)
      BY <2>3 DEF Layered, Based
    <2>5. QED
      BY <1>5, <2>1, <2>2, <2>4 DEF State
  <1>7. Roomy(heap)
    BY <1>1 DEF Roomy
  <1>8. host \in [inst : 0..Len(heap), refs : Nat]
    BY <1>1 DEF Plain
  <1>9. TypeInv
    BY <1>1, <1>6, <1>7, <1>8 DEF TypeInv, Run
  <1>10. DispatchesToNearest
    BY <1>1 DEF DispatchesToNearest
  <1>11. QED
    BY <1>4, <1>9, <1>10 DEF Inv

\* A step of a method
LEMMA StepKeeps ==
    ASSUME Inv, Step
    PROVE  Inv'
  <1>1. CASE \E o \in 1..Len(Top.locals), sig \in Sigs, args \in Operands :
                Len(args) = sig[2] /\ Call(o, sig, args)
    BY <1>1, CallKeeps
  <1>2. CASE \E sig \in Sigs, args \in Operands : Len(args) = sig[2] /\ callBaseMethod(sig, args)
    BY <1>2, BaseCallKeeps
  <1>3. CASE \E o \in Vars : StoreLocal(o) \/ LoadLocal(o)
    BY <1>3, StoreLocalKeeps, LoadsKeep
  <1>4. CASE \E f \in 1..2 : StoreField(f) \/ LoadField(f) \/ OP_DEREF(f)
    BY <1>4, StoreFieldKeeps, LoadsKeep, DerefKeeps
  <1>5. CASE \E c \in Classes \cup {"Unknown"}, args \in Operands : OP_NEW(c, args)
    BY <1>5, NewKeeps
  <1>6. CASE Return \/ Throw
    BY <1>6, LeavingKeeps
  <1>7. QED
    BY <1>1, <1>2, <1>3, <1>4, <1>5, <1>6 DEF Step

\* Every step keeps the invariant
LEMMA NextInv ==
    ASSUME Inv, [Next]_vars
    PROVE  Inv'
  <1>1. CASE qinterpPrepare
    BY <1>1, PreparesAll
  <1>2. CASE Running /\ Step
    BY <1>2, StepKeeps
  <1>3. CASE Resume
    BY <1>3, ResumeKeeps
  <1>4. CASE Unwind
    BY <1>4, LeavingKeeps
  <1>5. CASE Calls
    BY <1>5, InternalKeeps, ConstructBaseKeeps, ConstructSelfKeeps, ConstructReturnsKeeps DEF Calls
  <1>6. CASE Host
    BY <1>6, RunKeeps, RunReturnsKeeps, MakeFailsKeeps, CreateKeeps, HostConstructsKeeps,
       HostConstructedKeeps, HostCallKeeps, CallReturnsKeeps DEF Host
  <1>7. CASE UNCHANGED vars
    <2>1. /\ UNCHANGED classVars /\ heap' = heap /\ stack' = stack /\ acts' = acts
          /\ err' = err /\ host' = host /\ missed' = missed
      BY <1>7 DEF vars, classVars
    <2>2. Fits(heap', stack', acts') /\ Len(heap') >= Len(heap)
      BY <2>1, InvSays
    <2>3. err' = "EXCEPTION" => stack' # <<>>
      BY <2>1 DEF Inv, TypeInv
    <2>4. acts' # <<>> => Ready
      BY <2>1 DEF Inv, TypeInv
    <2>5. QED
      BY <2>1, <2>2, <2>3, <2>4, InvKept
  <1>8. QED
    BY <1>1, <1>2, <1>3, <1>4, <1>5, <1>6, <1>7 DEF Next

\* The tables of the classes, the stack and the activations fit each other: the
\* link of every prepared class is its base class, and its table that of the
\* nearest methods; every operand and variable is an instance that exists; each
\* activation has its own part of the stack, with the instance that it
\* constructs, and the host is at the bottom (qinterpPrepare, callInstMethod,
\* callConstructors and createJSClassInstance).
THEOREM TypesStay == Spec => [](ClassInv /\ TypeInv)
  <1>1. Inv => ClassInv /\ TypeInv
    BY DEF Inv
  <1>2. QED
    BY <1>1, InitInv, NextInv, PTL DEF Spec

\* Whatever the program, the order of its classes, the calls and the exceptions:
\* a method that runs is the nearest one to the class that the call names, and
\* one that is not found is declared nowhere that the class sees
\* (jsclassInitVtab and jsclassFindMethod).
THEOREM DispatchStays == Spec => []DispatchesToNearest
  <1>1. Inv => DispatchesToNearest
    BY DEF Inv
  <1>2. QED
    BY <1>1, InitInv, NextInv, PTL DEF Spec
-----------------------------------------------------------------------------
(* The classes from one to its root                                        *)

\* How many they are; x is one of them.
Depth(c) == Len(Chain(c))
Within(c, x) ==
    x \in Classes /\ Depth(x) \in 1..Depth(c) /\ Chain(c)[Depth(c) + 1 - Depth(x)] = x

\* Each is the base class of the one before
LEMMA ChainSteps ==
    ASSUME prog \in Programs, NEW c \in Classes
    PROVE  \A k \in 1..Depth(c) :
              /\ Chain(c)[k] \in Classes /\ Depth(Chain(c)[k]) = Depth(c) + 1 - k
              /\ k < Depth(c) => BaseOf(Chain(c)[k]) = Chain(c)[k + 1]
              /\ k = Depth(c) => BaseOf(Chain(c)[k]) = None
  <1> DEFINE G(x) == \A k \in 1..Depth(x) :
              /\ Chain(x)[k] \in Classes /\ Depth(Chain(x)[k]) = Depth(x) + 1 - k
              /\ k < Depth(x) => BaseOf(Chain(x)[k]) = Chain(x)[k + 1]
              /\ k = Depth(x) => BaseOf(Chain(x)[k]) = None
             S == {x \in Classes : G(x)}
  <1>1. ASSUME NEW x \in Classes, Decl(x).base \in Classes => Decl(x).base \in S
        PROVE  G(x)
    <2>1. /\ Depth(x) \in Nat /\ Depth(x) >= 1 /\ Chain(x)[1] = x
          /\ Decl(x).base \notin Classes => Depth(x) = 1
      BY Above DEF Depth
    <2>2. CASE Decl(x).base \notin Classes
      <3>1. BaseOf(x) = None
        BY <2>2 DEF BaseOf
      <3>2. QED
        BY <2>1, <2>2, <3>1
    <2>3. CASE Decl(x).base \in Classes
      <3>1. PICK b : b = Decl(x).base
        OBVIOUS
      <3>2. BaseOf(x) = b /\ b \in Classes /\ G(b)
        BY <1>1, <2>3, <3>1 DEF BaseOf
      <3>3. /\ Depth(x) = Depth(b) + 1 /\ \A k \in 1..Depth(b) : Chain(x)[k + 1] = Chain(b)[k]
            /\ Depth(b) \in Nat /\ Depth(b) >= 1 /\ Chain(b)[1] = b
        <4>1. /\ Len(Chain(x)) = Len(Chain(b)) + 1
              /\ \A k \in 1..Len(Chain(b)) : Chain(x)[k + 1] = Chain(b)[k]
          BY <2>3, <3>1, Above
        <4>2. Len(Chain(b)) \in Nat /\ Len(Chain(b)) >= 1 /\ Chain(b)[1] = b
          BY <3>2, Above
        <4>3. QED
          BY <4>1, <4>2 DEF Depth
      <3>4. PICK m : m = Depth(b)
        OBVIOUS
      <3>5. ASSUME NEW k \in 1..Depth(x)
            PROVE  /\ Chain(x)[k] \in Classes /\ Depth(Chain(x)[k]) = Depth(x) + 1 - k
                   /\ k < Depth(x) => BaseOf(Chain(x)[k]) = Chain(x)[k + 1]
                   /\ k = Depth(x) => BaseOf(Chain(x)[k]) = None
        <4>1. CASE k = 1
          <5>1. 1 \in 1..Depth(b) /\ k < Depth(x) /\ k # Depth(x)
            BY <3>3, <4>1
          <5>2. Chain(x)[k + 1] = b
            BY <3>3, <4>1, <5>1
          <5>3. Depth(x) = Depth(x) + 1 - k
            BY <2>1, <4>1
          <5>4. QED
            BY <2>1, <3>2, <4>1, <5>1, <5>2, <5>3
        <4>2. CASE k > 1
          <5>1. PICK j : j = k - 1
            OBVIOUS
          <5>2. j \in 1..Depth(b) /\ j + 1 = k /\ (j < Depth(b) <=> k < Depth(x))
                /\ (j = Depth(b) <=> k = Depth(x)) /\ Depth(b) + 1 - j = Depth(x) + 1 - k
            BY <3>3, <4>2, <5>1
          <5>3. Chain(x)[k] = Chain(b)[j]
            BY <3>3, <5>2
          <5>4. /\ Chain(b)[j] \in Classes /\ Depth(Chain(b)[j]) = Depth(b) + 1 - j
                /\ j < Depth(b) => BaseOf(Chain(b)[j]) = Chain(b)[j + 1]
                /\ j = Depth(b) => BaseOf(Chain(b)[j]) = None
            BY <3>2, <5>2
          <5>5. j < Depth(b) => Chain(x)[k + 1] = Chain(b)[j + 1]
            <6>1. ASSUME j < Depth(b) PROVE j + 1 \in 1..Depth(b)
              BY <3>3, <5>2, <6>1
            <6>2. QED
              BY <3>3, <5>2, <6>1
          <5>6. QED
            BY <5>2, <5>3, <5>4, <5>5
        <4>3. QED
          BY <4>1, <4>2
      <3>6. QED
        BY <3>5
    <2>4. QED
      BY <2>2, <2>3
  <1>2. S = ClassesOf(prog)
    <2> HIDE DEF G
    <2>1. S \in SUBSET ClassesOf(prog)
      BY DEF Classes
    <2>2. \A x \in ClassesOf(prog) :
             (DeclOf(prog, x).base \in ClassesOf(prog) => DeclOf(prog, x).base \in S) => x \in S
      BY <1>1 DEF Classes, Decl
    <2> HIDE DEF S
    <2>3. QED
      BY <2>1, <2>2, ByRank
  <1>3. G(c)
    BY <1>2 DEF Classes
  <1>4. QED
    BY <1>3

\* A class is one of its own
LEMMA WithinSelf ==
    ASSUME prog \in Programs, NEW c \in Classes
    PROVE  Within(c, c) /\ Depth(c) \in Nat /\ Depth(c) >= 1
  <1>1. Depth(c) \in Nat /\ Depth(c) >= 1 /\ Chain(c)[1] = c
    BY Above DEF Depth
  <1>2. Depth(c) + 1 - Depth(c) = 1 /\ Depth(c) \in 1..Depth(c)
    BY <1>1
  <1>3. QED
    BY <1>1, <1>2 DEF Within

\* The base class of one of them is one of them, one nearer to the root, and no
\* two are as near.
LEMMA WithinIs ==
    ASSUME prog \in Programs, NEW c \in Classes, NEW x, Within(c, x)
    PROVE  /\ x \in Classes /\ Depth(x) \in 1..Depth(c) /\ Depth(c) \in Nat
           /\ BaseOf(x) = None <=> Depth(x) = 1
           /\ BaseOf(x) # None => Within(c, BaseOf(x)) /\ Depth(BaseOf(x)) = Depth(x) - 1
           /\ \A y : Within(c, y) /\ Depth(y) = Depth(x) => y = x
           /\ Depth(x) = Depth(c) <=> x = c
  <1>1. PICK k : k = Depth(c) + 1 - Depth(x)
    OBVIOUS
  <1>2. x \in Classes /\ Depth(x) \in 1..Depth(c) /\ Depth(c) \in Nat /\ Chain(c)[1] = c
        /\ Chain(c)[k] = x
    BY <1>1, Above DEF Within, Depth
  <1>3. /\ k \in 1..Depth(c) /\ (k = Depth(c) <=> Depth(x) = 1)
        /\ (k < Depth(c) <=> Depth(x) # 1) /\ (k = 1 <=> Depth(x) = Depth(c))
        /\ Depth(x) = Depth(c) + 1 - k /\ Depth(c) + 1 - (Depth(x) - 1) = k + 1
    BY <1>1, <1>2
  <1>4. /\ k < Depth(c) => BaseOf(x) = Chain(c)[k + 1]
        /\ k = Depth(c) => BaseOf(x) = None
    BY <1>2, <1>3, ChainSteps
  <1>5. ASSUME k < Depth(c)
        PROVE  /\ BaseOf(x) # None /\ Within(c, BaseOf(x))
               /\ Depth(BaseOf(x)) = Depth(x) - 1
    <2>1. PICK j : j = k + 1
      OBVIOUS
    <2>2. j \in 1..Depth(c) /\ Depth(c) + 1 - j = Depth(x) - 1 /\ Depth(x) - 1 \in 1..Depth(c)
      BY <1>2, <1>3, <1>5, <2>1
    <2>3. Chain(c)[j] \in Classes /\ Depth(Chain(c)[j]) = Depth(c) + 1 - j
      BY <2>2, ChainSteps
    <2>4. BaseOf(x) = Chain(c)[j]
      BY <1>4, <1>5, <2>1
    <2>5. None \notin Classes
      BY DeclTypes DEF Classes
    <2>6. Depth(BaseOf(x)) = Depth(x) - 1
      BY <2>2, <2>3, <2>4
    <2>7. Within(c, BaseOf(x))
      BY <1>3, <2>1, <2>2, <2>3, <2>4, <2>6 DEF Within
    <2>8. QED
      BY <2>3, <2>4, <2>5, <2>6, <2>7
  <1>6. ASSUME NEW y, Within(c, y), Depth(y) = Depth(x) PROVE y = x
    BY <1>1, <1>2, <1>6 DEF Within
  <1>7. Depth(x) = Depth(c) <=> x = c
    BY <1>2, <1>3
  <1>8. QED
    BY <1>2, <1>3, <1>4, <1>5, <1>6, <1>7

-----------------------------------------------------------------------------
(* The constructors that a construction has to run                         *)

\* The first of the lists is the given one, and each other follows from the one
\* before.
LEMMA AddedSteps ==
    ASSUME NEW s, NEW x, NEW on, NEW n \in Nat, NEW r, r = Added(s, x, on, n)
    PROVE  /\ r[0] = s
           /\ \A k \in 1..n : r[k] = IF k \in on THEN Append(r[k - 1], x[k]) ELSE r[k - 1]
  <1> DEFINE F(f, k) == IF k = 0 THEN s ELSE IF k \in on THEN Append(f[k - 1], x[k]) ELSE f[k - 1]
             S == {m \in Nat : \E f : f = [k \in 0..m |-> F(f, k)]}
  <1>1. 0 \in S
    <2> DEFINE t == [k \in 0..0 |-> s]
    <2>1. \A k \in 0..0 : F(t, k) = s
      OBVIOUS
    <2>2. t = [k \in 0..0 |-> F(t, k)]
      <3> HIDE DEF F
      <3>1. QED
        BY <2>1
    <2> HIDE DEF t, F
    <2>3. QED
      BY <2>2
  <1>2. ASSUME NEW m \in S PROVE m + 1 \in S
    <2> HIDE DEF F
    <2>1. PICK f : f = [k \in 0..m |-> F(f, k)]
      OBVIOUS
    <2> DEFINE g == [k \in 0..(m + 1) |-> IF k = m + 1 THEN F(f, k) ELSE f[k]]
    <2>2. \A k \in 0..(m + 1) : g[k] = F(g, k)
      <3> TAKE k \in 0..(m + 1)
      <3>0. m \in Nat
        OBVIOUS
      <3>1. F(g, k) = F(f, k)
        <4>1. CASE k = 0
          BY <4>1 DEF F
        <4>2. CASE k # 0
          <5>1. k - 1 \in 0..(m + 1) /\ k - 1 # m + 1
            BY <3>0, <4>2
          <5>2. g[k - 1] = f[k - 1]
            BY <5>1
          <5> HIDE DEF g
          <5>3. QED
            BY <5>2 DEF F
        <4>3. QED
          BY <4>1, <4>2
      <3>2. CASE k = m + 1
        BY <3>1, <3>2
      <3>3. CASE k # m + 1
        <4>1. k \in 0..m
          BY <3>0, <3>3
        <4>2. g[k] = f[k] /\ f[k] = F(f, k)
          BY <2>1, <3>3, <4>1
        <4>3. QED
          BY <3>1, <4>2
      <3>4. QED
        BY <3>2, <3>3
    <2>3. g = [k \in 0..(m + 1) |-> F(g, k)]
      BY <2>2
    <2>4. m + 1 \in Nat
      OBVIOUS
    <2> HIDE DEF g
    <2>5. QED
      BY <2>3, <2>4
  <1>3. S = Nat
    <2> HIDE DEF S
    <2>1. S \in SUBSET Nat
      BY DEF S
    <2>2. QED
      BY <1>1, <1>2, <2>1, Induction
  <1>4. r = CHOOSE f : f = [k \in 0..n |-> F(f, k)]
    BY DEF Added
  <1>5. r = [k \in 0..n |-> F(r, k)]
    <2>1. \E f : f = [k \in 0..n |-> F(f, k)]
      BY <1>3
    <2> HIDE DEF F
    <2>2. QED
      BY <1>4, <2>1
  <1>6. r[0] = s
    BY <1>5
  <1>7. ASSUME NEW k \in 1..n
        PROVE  r[k] = IF k \in on THEN Append(r[k - 1], x[k]) ELSE r[k - 1]
    <2>1. k \in 0..n /\ k # 0
      OBVIOUS
    <2>2. QED
      BY <1>5, <2>1
  <1>8. QED
    BY <1>6, <1>7

\* The first m internal constructors of c
Inner(c, m) == [k \in 1..m |-> <<Up(c, k), -1>>]

\* The constructors that have to run are the internal ones, and then for each
\* class its own, if there is one.
LEMMA CtorsSteps ==
    ASSUME prog \in Programs, NEW c \in Classes, NEW a
    PROVE  /\ Ctors(c, a)[0] = Inner(c, Depth(c))
           /\ \A k \in 1..Depth(c) :
                 Ctors(c, a)[k] = IF Runs(c, a, k) THEN Append(Ctors(c, a)[k - 1], <<Up(c, k), a>>)
                                  ELSE Ctors(c, a)[k - 1]
  <1>1. PICK n, x, on, s : /\ n = Depth(c) /\ x = [k \in 1..n |-> <<Up(c, k), a>>]
                           /\ on = {k \in 1..n : Runs(c, a, k)} /\ s = Inner(c, n)
    OBVIOUS
  <1>2. n \in Nat
    BY <1>1, WithinSelf
  <1>3. PICK r : r = Added(s, x, on, n)
    OBVIOUS
  <1>4. /\ r[0] = s
        /\ \A k \in 1..n : r[k] = IF k \in on THEN Append(r[k - 1], x[k]) ELSE r[k - 1]
    BY <1>2, <1>3, AddedSteps
  <1>5. Ctors(c, a) = r
    BY <1>1, <1>3 DEF Ctors, Inner, Depth
  <1>6. \A k \in 1..n : x[k] = <<Up(c, k), a>> /\ (k \in on <=> Runs(c, a, k))
    BY <1>1
  <1>7. QED
    BY <1>1, <1>4, <1>5, <1>6

\* The k-th class from the root
LEMMA UpIs ==
    ASSUME prog \in Programs, NEW c \in Classes, NEW k \in 1..Depth(c)
    PROVE  /\ Up(c, k) \in Classes /\ Depth(Up(c, k)) = k /\ Within(c, Up(c, k))
           /\ Up(c, k) = Chain(c)[Depth(c) + 1 - k]
           /\ \A x : Within(c, x) /\ Depth(x) = k => Up(c, k) = x
  <1>1. PICK j : j = Depth(c) + 1 - k
    OBVIOUS
  <1>2. Depth(c) \in Nat
    BY WithinSelf
  <1>3. j \in 1..Depth(c) /\ Depth(c) + 1 - j = k
    BY <1>1, <1>2
  <1>4. Up(c, k) = Chain(c)[j]
    BY <1>1 DEF Up, Depth
  <1>5. Chain(c)[j] \in Classes /\ Depth(Chain(c)[j]) = k
    BY <1>3, ChainSteps
  <1>6. Within(c, Up(c, k))
    BY <1>1, <1>4, <1>5 DEF Within
  <1>7. ASSUME NEW x, Within(c, x), Depth(x) = k PROVE Up(c, k) = x
    BY <1>1, <1>4, <1>7 DEF Within
  <1>8. QED
    BY <1>1, <1>4, <1>5, <1>6, <1>7

\* A list with one more, that may be new
LEMMA OneAdded ==
    ASSUME NEW S, NEW s \in Seq(S), NEW x \in S
    PROVE  /\ Append(s, x) \in Seq(S) /\ Len(Append(s, x)) = Len(s) + 1
           /\ Range(Append(s, x)) = Range(s) \cup {x}
           /\ IsInjective(s) /\ x \notin Range(s) => IsInjective(Append(s, x))
  <1>1. PICK n, t : n = Len(s) /\ t = Append(s, x)
    OBVIOUS
  <1>2. /\ n \in Nat /\ DOMAIN s = 1..n /\ t \in Seq(S) /\ Len(t) = n + 1 /\ DOMAIN t = 1..(n + 1)
        /\ t[n + 1] = x /\ \A k \in 1..n : t[k] = s[k]
    BY <1>1
  <1>3. Range(t) = Range(s) \cup {x}
    <2>1. ASSUME NEW y \in Range(t) PROVE y \in Range(s) \cup {x}
      <3>1. PICK k \in 1..(n + 1) : t[k] = y
        BY <1>2 DEF Range
      <3>2. k \in 1..n \/ k = n + 1
        BY <1>2
      <3>3. QED
        BY <1>2, <3>1, <3>2 DEF Range
    <2>2. ASSUME NEW y \in Range(s) PROVE y \in Range(t)
      <3>1. PICK k \in 1..n : s[k] = y
        BY <1>2 DEF Range
      <3>2. k \in 1..(n + 1)
        BY <1>2
      <3>3. QED
        BY <1>2, <3>1, <3>2 DEF Range
    <2>3. x \in Range(t)
      <3>1. n + 1 \in 1..(n + 1)
        BY <1>2
      <3>2. QED
        BY <1>2, <3>1 DEF Range
    <2>4. QED
      BY <2>1, <2>2, <2>3
  <1>4. ASSUME IsInjective(s), x \notin Range(s) PROVE IsInjective(t)
    <2>1. ASSUME NEW j \in 1..(n + 1), NEW k \in 1..(n + 1), t[j] = t[k] PROVE j = k
      <3>1. \A m \in 1..n : s[m] \in Range(s)
        BY <1>2 DEF Range
      <3>2. (j \in 1..n \/ j = n + 1) /\ (k \in 1..n \/ k = n + 1)
        BY <1>2
      <3>3. CASE j \in 1..n /\ k \in 1..n
        BY <1>2, <1>4, <2>1, <3>3 DEF IsInjective
      <3>4. CASE j \in 1..n /\ k = n + 1
        BY <1>2, <1>4, <2>1, <3>1, <3>4
      <3>5. CASE k \in 1..n /\ j = n + 1
        BY <1>2, <1>4, <2>1, <3>1, <3>5
      <3>6. QED
        BY <3>2, <3>3, <3>4, <3>5
    <2>2. QED
      BY <1>2, <2>1 DEF IsInjective
  <1>5. QED
    BY <1>1, <1>2, <1>3, <1>4

\* What the internal constructors are
LEMMA InnerIs ==
    ASSUME prog \in Programs, NEW c \in Classes, NEW m \in 0..Depth(c)
    PROVE  /\ Inner(c, m) \in Seq(Classes \X Int) /\ Len(Inner(c, m)) = m
           /\ IsInjective(Inner(c, m))
           /\ \A x \in Range(Inner(c, m)) : x[2] = -1
           /\ m < Depth(c) => Append(Inner(c, m), <<Up(c, m + 1), -1>>) = Inner(c, m + 1)
  <1>1. PICK s : s = Inner(c, m)
    OBVIOUS
  <1>2. Depth(c) \in Nat /\ m \in Nat
    BY WithinSelf
  <1>3. DOMAIN s = 1..m /\ \A j \in 1..m : s[j] = <<Up(c, j), -1>>
    BY <1>1 DEF Inner
  <1>4. ASSUME NEW j \in 1..m PROVE s[j] \in Classes \X Int /\ Depth(s[j][1]) = j /\ s[j][2] = -1
    <2>1. j \in 1..Depth(c)
      BY <1>2
    <2>2. Up(c, j) \in Classes /\ Depth(Up(c, j)) = j
      BY <2>1, UpIs
    <2>3. PICK x : x = Up(c, j)
      OBVIOUS
    <2>4. s[j] = <<x, -1>> /\ x \in Classes /\ Depth(x) = j
      BY <1>3, <2>2, <2>3
    <2>5. QED
      BY <2>4
  <1>5. s = [j \in 1..m |-> s[j]]
    BY <1>1 DEF Inner
  <1>6. s \in Seq(Classes \X Int) /\ Len(s) = m
    <2>1. PICK S : S = Classes \X Int
      OBVIOUS
    <2>2. \A j \in 1..m : s[j] \in S
      BY <1>4, <2>1
    <2>3. s \in Seq(S) /\ Len(s) = m
      BY <1>2, <1>5, <2>2
    <2>4. QED
      BY <2>1, <2>3
  <1>7. IsInjective(s)
    <2>1. ASSUME NEW j \in 1..m, NEW k \in 1..m, s[j] = s[k] PROVE j = k
      BY <1>4, <2>1
    <2>2. QED
      BY <1>3, <2>1 DEF IsInjective
  <1>8. \A x \in Range(s) : x[2] = -1
    BY <1>3, <1>4 DEF Range
  <1>9. ASSUME m < Depth(c) PROVE Append(s, <<Up(c, m + 1), -1>>) = Inner(c, m + 1)
    <2>1. PICK t, u, x : t = Append(s, x) /\ u = Inner(c, m + 1) /\ x = <<Up(c, m + 1), -1>>
      OBVIOUS
    <2>2. /\ DOMAIN t = 1..(m + 1) /\ t[m + 1] = x /\ \A k \in 1..m : t[k] = s[k]
          /\ t = [k \in 1..(m + 1) |-> t[k]]
      BY <1>2, <1>6, <2>1
    <2>3. u = [k \in 1..(m + 1) |-> <<Up(c, k), -1>>]
      BY <2>1 DEF Inner
    <2>4. ASSUME NEW k \in 1..(m + 1) PROVE t[k] = <<Up(c, k), -1>>
      <3>1. k \in 1..m \/ k = m + 1
        BY <1>2
      <3>2. QED
        BY <1>3, <2>1, <2>2, <3>1
    <2>5. t = u
      BY <2>2, <2>3, <2>4
    <2>6. QED
      BY <2>1, <2>5
  <1>10. QED
    BY <1>1, <1>6, <1>7, <1>8, <1>9

\* What has been prepared extends classes of the program
Linked == refused \/ \A k \in 1..prepared : prog[k].base \in Classes \cup {None}

\* A class without constructors is a root
LEMMA RootIs ==
    ASSUME ClassInv, Ready, Linked, NEW x \in Classes, BaseOf(x) = None
    PROVE  Decl(x).base = None
  <1>1. prog \in Programs /\ prepared = Len(prog) /\ ~refused
    BY DEF ClassInv, Ready
  <1>2. Place(x) \in 1..Len(prog) /\ Decl(x) = prog[Place(x)]
    BY <1>1, Places
  <1>3. Decl(x).base \in Classes \cup {None}
    BY <1>1, <1>2 DEF Linked
  <1>4. QED
    BY <1>3 DEF BaseOf

\* The constructor of a class is found if there is one that has to run
LEMMA FoundIs ==
    ASSUME ClassInv, Ready, Linked, Regular(prog), NEW c \in Classes, NEW x, Within(c, x), NEW m \in Nat
    PROVE  /\ jsclassFindMethod(c, <<x, m>>) # None <=> Runs(c, m, Depth(x))
           /\ BaseOf(x) = None => jsclassFindMethod(c, <<x, m>>) = None
           /\ Up(c, Depth(x)) = x
  <1>1. prog \in Programs
    BY DEF ClassInv
  <1>2. PICK sig : sig = <<x, m>>
    OBVIOUS
  <1>3. jsclassFindMethod(c, sig) = Nearest(c, sig)
    BY FindsNearest
  <1>4. x \in Classes /\ Depth(x) \in 1..Depth(c) /\ Depth(c) \in Nat
    BY <1>1, WithinIs
  <1>5. Up(c, Depth(x)) = x
    BY <1>1, <1>4, UpIs
  <1>6. ASSUME NEW y \in Classes, Declares(y, sig) PROVE y = x /\ Decl(y).base # None
    <2>1. x # Init0
      BY <1>4 DEF Regular, Classes
    <2>2. sig # <<Init0, 0>>
      BY <1>2, <2>1
    <2>3. sig \in Decl(y).methods
      BY <1>6, <2>2 DEF Declares, Methods
    <2>4. sig[1] = x /\ x \in ClassesOf(prog) /\ y \in ClassesOf(prog)
      BY <1>2, <1>4, <1>6 DEF Classes
    <2>5. x = y /\ DeclOf(prog, y).base # None
      BY <2>3, <2>4 DEF Regular, Decl
    <2>6. QED
      BY <2>5 DEF Decl
  <1>7. PICK j : j = Depth(c) + 1 - Depth(x)
    OBVIOUS
  <1>8. j \in 1..Depth(c) /\ Chain(c)[j] = x
    BY <1>4, <1>7 DEF Within
  <1>9. /\ \A k \in Seen(c) : k \in 1..Depth(c) /\ Chain(c)[k] \in Classes
                              /\ Depth(Chain(c)[k]) = Depth(c) + 1 - k
    <2>1. Seen(c) \in SUBSET (1..Depth(c))
      BY <1>1, SeenRec DEF Depth
    <2>2. QED
      BY <1>1, <2>1, ChainSteps
  <1>10. PICK ks : ks = {k \in Seen(c) : Declares(Chain(c)[k], sig)}
    OBVIOUS
  <1>11. Nearest(c, sig) = IF ks = {} THEN None ELSE Chain(c)[Min(ks)]
    BY <1>10 DEF Nearest
  <1>12. ks # {} => Chain(c)[Min(ks)] # None
    <2>1. ASSUME ks # {} PROVE Chain(c)[Min(ks)] # None
      <3>1. ks \in SUBSET Nat
        BY <1>4, <1>9, <1>10
      <3>2. Min(ks) \in ks
        BY <2>1, <3>1, MinOf
      <3>3. Chain(c)[Min(ks)] \in Classes
        BY <1>9, <1>10, <3>2
      <3>4. None \notin Classes
        BY <1>1, DeclTypes DEF Classes
      <3>5. QED
        BY <3>3, <3>4
    <2>2. QED
      BY <2>1
  <1>13. ks # {} <=> j \in Seen(c) /\ Declares(x, sig)
    <2>1. ASSUME NEW k \in ks PROVE j \in Seen(c) /\ Declares(x, sig)
      <3>1. k \in Seen(c) /\ Declares(Chain(c)[k], sig) /\ Chain(c)[k] \in Classes
        BY <1>9, <1>10
      <3>2. Chain(c)[k] = x
        BY <1>6, <3>1
      <3>3. k = j
        BY <1>4, <1>7, <1>9, <3>1, <3>2
      <3>4. QED
        BY <3>1, <3>2, <3>3
    <2>2. QED
      BY <1>8, <1>10, <2>1
  <1>14. Runs(c, m, Depth(x)) <=> j \in Seen(c) /\ Declares(x, sig)
    BY <1>2, <1>5, <1>7 DEF Runs, Depth
  <1>15. jsclassFindMethod(c, sig) # None <=> Runs(c, m, Depth(x))
    BY <1>3, <1>11, <1>12, <1>13, <1>14
  <1>16. ASSUME BaseOf(x) = None PROVE jsclassFindMethod(c, sig) = None
    <2>1. Decl(x).base = None
      BY <1>4, <1>16, RootIs
    <2>2. ~Declares(x, sig)
      BY <1>4, <1>6, <2>1
    <2>3. QED
      BY <1>14, <1>15, <2>2
  <1>17. QED
    BY <1>2, <1>5, <1>15, <1>16

\* The constructors that have run with that of x
LEMMA CtorsOf ==
    ASSUME ClassInv, Ready, Linked, Regular(prog), NEW c \in Classes, NEW x, Within(c, x), NEW m \in Nat
    PROVE  /\ Ctors(c, m)[Depth(x)] = IF jsclassFindMethod(c, <<x, m>>) = None
                                      THEN Ctors(c, m)[Depth(x) - 1]
                                      ELSE Append(Ctors(c, m)[Depth(x) - 1], <<x, m>>)
           /\ Ctors(c, m)[0] = Inner(c, Depth(c))
           /\ Ctors(c, m)[1] = Inner(c, Depth(c))
  <1>1. prog \in Programs
    BY DEF ClassInv
  <1>2. x \in Classes /\ Depth(x) \in 1..Depth(c) /\ Depth(c) \in Nat
    BY <1>1, WithinIs
  <1>3. /\ Ctors(c, m)[0] = Inner(c, Depth(c))
        /\ \A k \in 1..Depth(c) :
              Ctors(c, m)[k] = IF Runs(c, m, k) THEN Append(Ctors(c, m)[k - 1], <<Up(c, k), m>>)
                               ELSE Ctors(c, m)[k - 1]
    BY <1>1, CtorsSteps
  <1>4. Ctors(c, m)[Depth(x)] = IF jsclassFindMethod(c, <<x, m>>) = None
                                THEN Ctors(c, m)[Depth(x) - 1]
                                ELSE Append(Ctors(c, m)[Depth(x) - 1], <<x, m>>)
    <2>1. /\ jsclassFindMethod(c, <<x, m>>) # None <=> Runs(c, m, Depth(x))
          /\ Up(c, Depth(x)) = x
      BY FoundIs
    <2>2. QED
      BY <1>2, <1>3, <2>1
  <1>5. Ctors(c, m)[1] = Ctors(c, m)[0]
    <2>1. 1 \in 1..Depth(c) /\ 1 - 1 = 0
      BY <1>2
    <2>2. PICK y : y = Up(c, 1)
      OBVIOUS
    <2>3. Within(c, y) /\ Depth(y) = 1
      BY <1>1, <2>1, <2>2, UpIs
    <2>4. BaseOf(y) = None
      BY <1>1, <2>3, WithinIs
    <2>5. ~Runs(c, m, Depth(y))
      BY <2>3, <2>4, FoundIs
    <2>6. QED
      BY <1>3, <2>1, <2>3, <2>5
  <1>6. QED
    BY <1>3, <1>4, <1>5

-----------------------------------------------------------------------------
(* The constructors that have been called                                  *)

\* An activation that makes an instance, and the kind of the one above it
IsMaker(a) == a.k \in {"internal", "construct", "host"}
Upper(ac, p) == IF p < Len(ac) THEN ac[p + 1].k ELSE "top"

\* In the following, c is the class of an instance, s what has been built of it,
\* f whether its construction was tried again, e the result of the last call, a
\* what makes it, lo the activation below that, and up the kind of the one above.

\* Internal constructors are called from the root to the class.
InnerFits(c, s, a) ==
    /\ Len(a.todo) <= Depth(c)
    /\ \A j \in 1..Len(a.todo) : a.todo[j] = Up(c, Depth(c) - Len(a.todo) + j)
    /\ s = Inner(c, Depth(c) - Len(a.todo))

\* A class is constructed within the construction of the class that extends it,
\* with the same arguments unless it was tried again.
Follows(c, f, a, lo) ==
    \/ a.jsp = c
    \/ /\ lo.k = "construct" /\ lo.at = "self" /\ lo.inst = a.inst /\ BaseOf(lo.jsp) = a.jsp
       /\ BaseOf(a.jsp) # None /\ ~f => a.argc = lo.argc

\* A construction that was never tried again has run the constructors up to
\* those of the base class before it calls that of the class.
Reached(c, s, f, e, a, up) ==
    ~f => /\ a.at = "base" \/ BaseOf(a.jsp) = None => s = Inner(c, Depth(c))
          /\ BaseOf(a.jsp) # None =>
                /\ a.at = "self" /\ up = "top" /\ e = "NONE" =>
                      s = Ctors(c, a.argc)[Depth(a.jsp) - 1]
                /\ a.at = "called" => s = Ctors(c, a.argc)[Depth(a.jsp)]

\* With two levels below the root, a constructor that is still to be called has
\* not been called.
Once(c, s, a) ==
    Depth(c) <= 3 =>
        /\ IsInjective(s)
        /\ BaseOf(a.jsp) # None =>
              /\ a.at # "called" \/ a.argc # 0 => <<a.jsp, 0>> \notin Range(s)
              /\ a.at # "called" => <<a.jsp, a.argc>> \notin Range(s)
        /\ a.jsp = c /\ a.at = "base" => s = Inner(c, Depth(c))

Constructing(c, s, f, e, a, lo, up) ==
    /\ Within(c, a.jsp) /\ (a.at = "self" => up \in {"top", "construct"})
    /\ Follows(c, f, a, lo) /\ Reached(c, s, f, e, a, up) /\ Once(c, s, a)

\* What the p-th activation makes
MakerFits(h, ac, b, fb, e, p) ==
    /\ ac[p].k = "internal" => InnerFits(h[ac[p].inst].cls, b[ac[p].inst], ac[p])
    /\ ac[p].k = "construct" =>
          p > 1 /\ Constructing(h[ac[p].inst].cls, b[ac[p].inst], ac[p].inst \in fb, e,
                                ac[p], ac[p - 1], Upper(ac, p))

\* An instance has one maker, or one for each of the classes it is constructed
\* for.
Beneath(x, y) == /\ x.k = "construct" /\ x.at = "self" /\ y.k = "construct"
                 /\ Depth(y.jsp) < Depth(x.jsp)
OneMaker(ac) ==
    \A p, q \in 1..Len(ac) :
        p < q /\ IsMaker(ac[p]) /\ IsMaker(ac[q]) /\ ac[p].inst = ac[q].inst =>
            Beneath(ac[p], ac[q])

\* An instance that is done has no maker any more.
Complete(c, s, f, m) == (~f => s = Due(c, m)) /\ (Depth(c) <= 3 => IsInjective(s))
DoneFits(h, ac, b, dn, fb) ==
    \A d \in dn :
        /\ d[1] \in 1..Len(h)
        /\ \A p \in 1..Len(ac) : IsMaker(ac[p]) => ac[p].inst # d[1]
        /\ Complete(h[d[1]].cls, b[d[1]], d[1] \in fb, d[2])

Order(h, ac, b, dn, fb, e) ==
    /\ b \in Seq(Seq(Classes \X Int)) /\ Len(b) = Len(h)
    /\ \A p \in 1..Len(ac) : MakerFits(h, ac, b, fb, e, p)
    /\ OneMaker(ac) /\ DoneFits(h, ac, b, dn, fb)

\* What is known of the activations
Seated(n, a) ==
    /\ a.k # "top" /\ (IsMaker(a) => a.inst \in 1..n)
    /\ a.k = "construct" => a.jsp \in Classes /\ a.argc \in Nat /\ a.at \in {"base", "self", "called"}
Known(h, ac) ==
    /\ Len(h) \in Nat /\ \A i \in 1..Len(h) : h[i].cls \in Classes
    /\ Len(ac) \in Nat /\ \A p \in 1..Len(ac) : Seated(Len(h), ac[p])

\* Another result, and another activation above
LEMMA Otherwise ==
    ASSUME NEW c, NEW s, NEW f, NEW e, NEW a, NEW lo, NEW up, NEW e2, NEW up2,
           Constructing(c, s, f, e, a, lo, up),
           a.at = "self" => up2 = "construct" \/ (up2 = "top" /\ Reached(c, s, f, e2, a, "top"))
    PROVE  Constructing(c, s, f, e2, a, lo, up2)
  <1>1. /\ Within(c, a.jsp) /\ Follows(c, f, a, lo) /\ Once(c, s, a) /\ Reached(c, s, f, e, a, up)
    BY DEF Constructing
  <1>2. Reached(c, s, f, e2, a, up2)
    <2>1. CASE a.at = "self" /\ up2 = "construct"
      BY <1>1, <2>1 DEF Reached
    <2>2. CASE a.at # "self"
      BY <1>1, <2>2 DEF Reached
    <2>3. QED
      BY <2>1, <2>2
  <1>3. QED
    BY <1>1, <1>2 DEF Constructing

\* The first k activations go on, and what comes above them makes nothing.
LEMMA OrderPrefix ==
    ASSUME NEW h, NEW ac, NEW b, NEW dn, NEW fb, NEW e, Order(h, ac, b, dn, fb, e), Known(h, ac),
           NEW g, Len(g) = Len(h), \A i \in 1..Len(h) : g[i].cls = h[i].cls,
           NEW ad, Len(ad) \in Nat, NEW k \in 0..Len(ac), k <= Len(ad),
           \A p \in 1..k : ad[p] = ac[p], \A p \in (k + 1)..Len(ad) : ~IsMaker(ad[p]), NEW e2,
           k >= 1 /\ ac[k].k = "construct" /\ ac[k].at = "self" =>
               Len(ad) = k /\ Reached(h[ac[k].inst].cls, b[ac[k].inst], ac[k].inst \in fb, e2,
                                      ac[k], "top")
    PROVE  Order(g, ad, b, dn, fb, e2)
  <1>1. Len(h) \in Nat /\ Len(ac) \in Nat /\ \A p \in 1..Len(ac) : Seated(Len(h), ac[p])
    BY DEF Known
  <1>2. \A p \in 1..Len(ad) : IsMaker(ad[p]) => p \in 1..k
    BY <1>1
  <1>3. \A p \in 1..k : p \in 1..Len(ac) /\ p \in 1..Len(ad)
    BY <1>1
  <1>4. ASSUME NEW p \in 1..Len(ad) PROVE MakerFits(g, ad, b, fb, e2, p)
    <2>1. CASE ~IsMaker(ad[p])
      BY <2>1 DEF MakerFits, IsMaker
    <2>2. CASE IsMaker(ad[p])
      <3>1. p \in 1..k /\ p \in 1..Len(ac) /\ MakerFits(h, ac, b, fb, e, p) /\ ad[p] = ac[p]
        BY <1>2, <1>3, <2>2 DEF Order
      <3>2. PICK a, i : a = ac[p] /\ i = ac[p].inst
        OBVIOUS
      <3>3. i \in 1..Len(h) /\ g[i].cls = h[i].cls /\ IsMaker(a)
        BY <1>1, <2>2, <3>1, <3>2 DEF Seated
      <3>4. CASE a.k # "construct"
        BY <3>1, <3>2, <3>3, <3>4 DEF MakerFits
      <3>5. CASE a.k = "construct"
        <4>1. /\ p > 1 /\ Constructing(h[i].cls, b[i], i \in fb, e, a, ac[p - 1], Upper(ac, p))
          BY <3>1, <3>2, <3>5 DEF MakerFits
        <4>2. ad[p - 1] = ac[p - 1]
          <5>1. p - 1 \in 1..k
            BY <1>1, <3>1, <4>1
          <5>2. QED
            BY <5>1
        <4>3. a.at = "self" => \/ Upper(ad, p) = "construct"
                               \/ /\ Upper(ad, p) = "top"
                                  /\ Reached(h[i].cls, b[i], i \in fb, e2, a, "top")
          <5>1. CASE p = k
            <6>1. a.at = "self" => Len(ad) = k /\ Reached(h[i].cls, b[i], i \in fb, e2, a, "top")
              BY <1>1, <3>1, <3>2, <3>5, <5>1
            <6>2. Len(ad) = k => Upper(ad, p) = "top"
              BY <1>1, <5>1 DEF Upper
            <6>3. QED
              BY <6>1, <6>2
          <5>2. CASE p # k
            <6>1. p + 1 \in 1..k /\ p < Len(ac) /\ p < Len(ad)
              BY <1>1, <3>1, <5>2
            <6>2. Upper(ac, p) = ac[p + 1].k /\ Upper(ad, p) = ac[p + 1].k /\ p + 1 \in 1..Len(ac)
              BY <1>3, <6>1 DEF Upper
            <6>3. ac[p + 1].k # "top"
              BY <1>1, <6>2 DEF Seated
            <6>4. a.at = "self" => Upper(ac, p) \in {"top", "construct"}
              BY <4>1 DEF Constructing
            <6>5. QED
              BY <6>2, <6>3, <6>4
          <5>3. QED
            BY <5>1, <5>2
        <4>4. Constructing(h[i].cls, b[i], i \in fb, e2, a, ac[p - 1], Upper(ad, p))
          BY <4>1, <4>3, Otherwise
        <4>5. QED
          BY <3>1, <3>2, <3>3, <3>5, <4>1, <4>2, <4>4 DEF MakerFits
      <3>6. QED
        BY <3>4, <3>5
    <2>3. QED
      BY <2>1, <2>2
  <1>5. OneMaker(ad)
    <2>1. ASSUME NEW p \in 1..Len(ad), NEW q \in 1..Len(ad), p < q, IsMaker(ad[p]), IsMaker(ad[q]),
                 ad[p].inst = ad[q].inst
          PROVE  Beneath(ad[p], ad[q])
      <3>1. p \in 1..Len(ac) /\ q \in 1..Len(ac) /\ ad[p] = ac[p] /\ ad[q] = ac[q]
        BY <1>2, <1>3, <2>1
      <3>2. QED
        BY <2>1, <3>1 DEF Order, OneMaker
    <2>2. QED
      BY <2>1 DEF OneMaker
  <1>6. DoneFits(g, ad, b, dn, fb)
    <2>1. ASSUME NEW d \in dn
          PROVE  /\ d[1] \in 1..Len(g)
                 /\ \A p \in 1..Len(ad) : IsMaker(ad[p]) => ad[p].inst # d[1]
                 /\ Complete(g[d[1]].cls, b[d[1]], d[1] \in fb, d[2])
      <3>1. /\ d[1] \in 1..Len(h)
            /\ \A p \in 1..Len(ac) : IsMaker(ac[p]) => ac[p].inst # d[1]
            /\ Complete(h[d[1]].cls, b[d[1]], d[1] \in fb, d[2])
        BY DEF Order, DoneFits
      <3>2. g[d[1]].cls = h[d[1]].cls
        BY <3>1
      <3>3. ASSUME NEW p \in 1..Len(ad), IsMaker(ad[p]) PROVE ad[p].inst # d[1]
        BY <1>2, <1>3, <3>1, <3>3
      <3>4. QED
        BY <3>1, <3>2, <3>3
    <2>2. QED
      BY <2>1 DEF DoneFits
  <1>7. QED
    BY <1>4, <1>5, <1>6 DEF Order

\* What is on top changes, goes or calls something, and makes nothing before
\* and after but what it gives up.
LEMMA OrderTopmost ==
    ASSUME NEW h, NEW ac, NEW b, NEW dn, NEW fb, NEW e, Order(h, ac, b, dn, fb, e), Known(h, ac),
           Len(ac) >= 1, ac[Len(ac)].k # "construct",
           NEW g, Len(g) = Len(h), \A i \in 1..Len(h) : g[i].cls = h[i].cls,
           NEW ad, Len(ad) \in Nat, Len(ac) - 1 <= Len(ad),
           \A p \in 1..(Len(ac) - 1) : ad[p] = ac[p],
           \A p \in Len(ac)..Len(ad) : ~IsMaker(ad[p]), NEW e2
    PROVE  Order(g, ad, b, dn, fb, e2)
  <1>1. PICK k : k = Len(ac) - 1
    OBVIOUS
  <1>2. Len(ac) \in Nat /\ \A p \in 1..Len(ac) : Seated(Len(h), ac[p])
    BY DEF Known
  <1>3. /\ k \in 0..Len(ac) /\ k <= Len(ad) /\ k + 1 = Len(ac) /\ k < Len(ac) /\ k \in 0..Len(ad)
    BY <1>1, <1>2
  <1>4. /\ \A p \in 1..k : ad[p] = ac[p]
        /\ \A p \in (k + 1)..Len(ad) : ~IsMaker(ad[p])
    BY <1>1, <1>3
  <1>5. k >= 1 => ~(ac[k].k = "construct" /\ ac[k].at = "self")
    <2>1. ASSUME k >= 1, ac[k].k = "construct", ac[k].at = "self" PROVE FALSE
      <3>1. k \in 1..Len(ac) /\ Len(ac) \in 1..Len(ac)
        BY <1>2, <1>3, <2>1
      <3>2. MakerFits(h, ac, b, fb, e, k)
        BY <3>1 DEF Order
      <3>3. Upper(ac, k) \in {"top", "construct"}
        BY <2>1, <3>2 DEF MakerFits, Constructing
      <3>4. Upper(ac, k) = ac[Len(ac)].k
        BY <1>3 DEF Upper
      <3>5. ac[Len(ac)].k # "top"
        BY <1>2, <3>1 DEF Seated
      <3>6. QED
        BY <3>3, <3>4, <3>5
    <2>2. QED
      BY <2>1
  <1>6. k >= 1 /\ ac[k].k = "construct" /\ ac[k].at = "self" =>
            Len(ad) = k /\ Reached(h[ac[k].inst].cls, b[ac[k].inst], ac[k].inst \in fb, e2,
                                   ac[k], "top")
    BY <1>5
  <1>7. k \in 0..Len(ac) /\ k <= Len(ad)
    BY <1>3
  <1>8. QED
    BY <1>4, <1>6, <1>7, OrderPrefix

\* The lists when a is added, which makes the instance that is added
Grows(h, ac, b, g, ad, bb, a) ==
    /\ Len(g) = Len(h) + 1 /\ (\A i \in 1..Len(h) : g[i].cls = h[i].cls)
    /\ a.k = "internal" /\ a.inst = Len(h) + 1 /\ InnerFits(g[Len(h) + 1].cls, <<>>, a)
    /\ Len(ad) = Len(ac) + 1 /\ ad[Len(ac) + 1] = a /\ (\A p \in 1..Len(ac) : ad[p] = ac[p])
    /\ bb \in Seq(Seq(Classes \X Int)) /\ Len(bb) = Len(b) + 1
    /\ (\A i \in 1..Len(b) : bb[i] = b[i]) /\ bb[Len(b) + 1] = <<>>

\* An instance is made, with its maker on top
LEMMA OrderGrow ==
    ASSUME NEW h, NEW ac, NEW b, NEW dn, NEW fb, NEW e, Order(h, ac, b, dn, fb, e), Known(h, ac),
           ac = <<>> \/ ac[Len(ac)].k # "construct",
           NEW g, NEW ad, NEW bb, NEW a, Grows(h, ac, b, g, ad, bb, a), NEW e2
    PROVE  Order(g, ad, bb, dn, fb, e2)
  <1>0. /\ Len(g) = Len(h) + 1 /\ \A i \in 1..Len(h) : g[i].cls = h[i].cls
        /\ a.k = "internal" /\ a.inst = Len(h) + 1 /\ InnerFits(g[Len(h) + 1].cls, <<>>, a)
        /\ Len(ad) = Len(ac) + 1 /\ ad[Len(ac) + 1] = a /\ \A p \in 1..Len(ac) : ad[p] = ac[p]
        /\ bb \in Seq(Seq(Classes \X Int)) /\ Len(bb) = Len(b) + 1
        /\ bb[Len(b) + 1] = <<>> /\ \A i \in 1..Len(b) : bb[i] = b[i]
    BY DEF Grows
  <1> USE <1>0
  <1>1. Len(h) \in Nat /\ Len(ac) \in Nat /\ \A p \in 1..Len(ac) : Seated(Len(h), ac[p])
    BY DEF Known
  <1>2. Len(b) = Len(h)
    BY DEF Order
  <1>3. PICK n, k : n = Len(h) + 1 /\ k = Len(ac) + 1
    OBVIOUS
  <1>4. \A p \in 1..Len(ad) : p = k \/ (p \in 1..Len(ac) /\ p # k /\ ad[p] = ac[p])
    BY <1>1, <1>3
  <1>5. \A p \in 1..Len(ac) : IsMaker(ac[p]) => ac[p].inst \in 1..Len(h) /\ ac[p].inst # n
    BY <1>1, <1>3 DEF Seated
  <1>6. ASSUME NEW p \in 1..Len(ad) PROVE MakerFits(g, ad, bb, fb, e2, p)
    <2>1. CASE p = k
      <3>1. ad[p] = a /\ a.inst = n /\ bb[n] = <<>> /\ a.k = "internal"
        BY <1>2, <1>3, <2>1
      <3>2. InnerFits(g[n].cls, bb[n], a)
        BY <1>3, <3>1
      <3>3. QED
        BY <3>1, <3>2 DEF MakerFits
    <2>2. CASE p # k
      <3>1. p \in 1..Len(ac) /\ ad[p] = ac[p] /\ MakerFits(h, ac, b, fb, e, p)
        BY <1>4, <2>2 DEF Order
      <3>2. CASE ~IsMaker(ac[p])
        BY <3>1, <3>2 DEF MakerFits, IsMaker
      <3>3. CASE IsMaker(ac[p])
        <4>1. PICK x, i : x = ac[p] /\ i = ac[p].inst
          OBVIOUS
        <4>2. i \in 1..Len(h) /\ g[i].cls = h[i].cls /\ bb[i] = b[i]
          BY <1>2, <1>5, <3>1, <3>3, <4>1
        <4>3. CASE x.k # "construct"
          BY <3>1, <4>1, <4>2, <4>3 DEF MakerFits
        <4>4. CASE x.k = "construct"
          <5>1. p > 1 /\ Constructing(h[i].cls, b[i], i \in fb, e, x, ac[p - 1], Upper(ac, p))
            BY <3>1, <4>1, <4>4 DEF MakerFits
          <5>2. p - 1 \in 1..Len(ac) /\ p < Len(ac) /\ p + 1 \in 1..Len(ac)
                /\ p + 1 \in 1..Len(ad) /\ p < Len(ad)
            <6>1. p # Len(ac)
              <7>1. ac # <<>>
                BY <1>1, <3>1
              <7>2. QED
                BY <4>1, <4>4, <7>1
            <6>2. QED
              BY <1>1, <3>1, <5>1, <6>1
          <5>3. ad[p - 1] = ac[p - 1] /\ Upper(ad, p) = Upper(ac, p)
                /\ Upper(ac, p) = ac[p + 1].k
            BY <5>2 DEF Upper
          <5>4. ac[p + 1].k # "top"
            BY <1>1, <5>2 DEF Seated
          <5>5. x.at = "self" => Upper(ac, p) = "construct"
            BY <5>1, <5>3, <5>4 DEF Constructing
          <5>6. Constructing(h[i].cls, b[i], i \in fb, e2, x, ac[p - 1], Upper(ac, p))
            BY <5>1, <5>5, Otherwise
          <5>7. QED
            BY <3>1, <4>1, <4>2, <4>4, <5>1, <5>3, <5>6 DEF MakerFits
        <4>5. QED
          BY <4>3, <4>4
      <3>4. QED
        BY <3>2, <3>3
    <2>3. QED
      BY <2>1, <2>2
  <1>7. OneMaker(ad)
    <2>1. ASSUME NEW p \in 1..Len(ad), NEW q \in 1..Len(ad), p < q, IsMaker(ad[p]), IsMaker(ad[q]),
                 ad[p].inst = ad[q].inst
          PROVE  Beneath(ad[p], ad[q])
      <3>1. p \in 1..Len(ac) /\ ad[p] = ac[p]
        BY <1>1, <1>3, <1>4, <2>1
      <3>2. q # k
        BY <1>3, <1>5, <2>1, <3>1
      <3>3. q \in 1..Len(ac) /\ ad[q] = ac[q]
        BY <1>4, <3>2
      <3>4. QED
        BY <2>1, <3>1, <3>3 DEF Order, OneMaker
    <2>2. QED
      BY <2>1 DEF OneMaker
  <1>8. DoneFits(g, ad, bb, dn, fb)
    <2>1. ASSUME NEW d \in dn
          PROVE  /\ d[1] \in 1..Len(g)
                 /\ \A p \in 1..Len(ad) : IsMaker(ad[p]) => ad[p].inst # d[1]
                 /\ Complete(g[d[1]].cls, bb[d[1]], d[1] \in fb, d[2])
      <3>1. /\ d[1] \in 1..Len(h)
            /\ \A p \in 1..Len(ac) : IsMaker(ac[p]) => ac[p].inst # d[1]
            /\ Complete(h[d[1]].cls, b[d[1]], d[1] \in fb, d[2])
        BY DEF Order, DoneFits
      <3>2. g[d[1]].cls = h[d[1]].cls /\ bb[d[1]] = b[d[1]] /\ d[1] \in 1..Len(g) /\ d[1] # n
        <4>1. g[d[1]].cls = h[d[1]].cls
          BY <3>1
        <4>2. bb[d[1]] = b[d[1]]
          BY <1>2, <3>1
        <4>3. d[1] \in 1..Len(g) /\ d[1] # n
          BY <1>1, <1>3, <3>1
        <4>4. QED
          BY <4>1, <4>2, <4>3
      <3>3. ASSUME NEW p \in 1..Len(ad), IsMaker(ad[p]) PROVE ad[p].inst # d[1]
        BY <1>3, <1>4, <3>1, <3>2, <3>3
      <3>4. QED
        BY <3>1, <3>2, <3>3
    <2>2. QED
      BY <2>1 DEF DoneFits
  <1>9. QED
    BY <1>2, <1>6, <1>7, <1>8 DEF Order

\* The lists when a class is constructed within the construction of another.
Pushes(h, ac, b, fb, ad, a, e2, n) ==
    /\ n = Len(ac) /\ n >= 1 /\ ac[n].k = "construct" /\ ac[n].at = "self"
    /\ a.k = "construct" /\ a.inst = ac[n].inst /\ Depth(a.jsp) < Depth(ac[n].jsp)
    /\ a.jsp \in Classes
    /\ Constructing(h[a.inst].cls, b[a.inst], a.inst \in fb, e2, a, ac[n], "top")
    /\ Len(ad) = n + 1 /\ ad[n + 1] = a /\ (\A p \in 1..n : ad[p] = ac[p])

\* A class is constructed within the construction of another.
LEMMA OrderPush ==
    ASSUME NEW h, NEW ac, NEW b, NEW dn, NEW fb, NEW e, Order(h, ac, b, dn, fb, e), Known(h, ac),
           prog \in Programs, NEW n, NEW a, NEW e2, NEW ad, Pushes(h, ac, b, fb, ad, a, e2, n)
    PROVE  Order(h, ad, b, dn, fb, e2)
  <1>0. /\ n = Len(ac) /\ n >= 1 /\ ac[n].k = "construct" /\ ac[n].at = "self"
        /\ a.k = "construct" /\ a.inst = ac[n].inst /\ Depth(a.jsp) < Depth(ac[n].jsp)
        /\ a.jsp \in Classes
        /\ Constructing(h[a.inst].cls, b[a.inst], a.inst \in fb, e2, a, ac[n], "top")
        /\ Len(ad) = n + 1 /\ ad[n + 1] = a /\ \A p \in 1..n : ad[p] = ac[p]
    BY DEF Pushes
  <1> USE <1>0
  <1>1. n \in Nat /\ n \in 1..Len(ac) /\ \A p \in 1..n : Seated(Len(h), ac[p])
    BY DEF Known
  <1>2. PICK k : k = n + 1
    OBVIOUS
  <1>3. \A p \in 1..Len(ad) : p = k \/ (p \in 1..n /\ p # k /\ ad[p] = ac[p])
    BY <1>1, <1>2
  <1>4. ad[k] = a /\ IsMaker(ac[n])
    BY <1>2 DEF IsMaker
  <1>5. ASSUME NEW p \in 1..Len(ad) PROVE MakerFits(h, ad, b, fb, e2, p)
    <2>1. CASE p = k
      <3>1. ad[p] = a /\ p - 1 = n /\ n \in 1..n /\ p > 1 /\ p = Len(ad)
        BY <1>1, <1>2, <1>4, <2>1
      <3>2. ad[p - 1] = ac[n] /\ Upper(ad, p) = "top"
        BY <1>2, <2>1, <3>1 DEF Upper
      <3>3. QED
        BY <3>1, <3>2 DEF MakerFits
    <2>2. CASE p # k
      <3>1. p \in 1..n /\ p \in 1..Len(ac) /\ ad[p] = ac[p] /\ MakerFits(h, ac, b, fb, e, p)
        BY <1>3, <2>2 DEF Order
      <3>2. PICK x, i : x = ac[p] /\ i = ac[p].inst
        OBVIOUS
      <3>3. CASE x.k # "construct"
        BY <3>1, <3>2, <3>3 DEF MakerFits
      <3>4. CASE x.k = "construct"
        <4>1. p > 1 /\ Constructing(h[i].cls, b[i], i \in fb, e, x, ac[p - 1], Upper(ac, p))
          BY <3>1, <3>2, <3>4 DEF MakerFits
        <4>2. p - 1 \in 1..n /\ p < Len(ad)
          BY <1>1, <3>1, <4>1
        <4>3. ad[p - 1] = ac[p - 1] /\ Upper(ad, p) = ad[p + 1].k
          BY <4>2 DEF Upper
        <4>4. x.at = "self" => Upper(ad, p) = "construct"
          <5>1. CASE p = n
            BY <1>2, <1>4, <4>3, <5>1
          <5>2. CASE p # n
            <6>1. p + 1 \in 1..n /\ p < Len(ac)
              BY <1>1, <3>1, <5>2
            <6>2. Upper(ac, p) = ac[p + 1].k /\ Upper(ad, p) = ac[p + 1].k
              BY <4>3, <6>1 DEF Upper
            <6>3. ac[p + 1].k # "top"
              BY <1>1, <6>1 DEF Seated
            <6>4. QED
              BY <4>1, <6>2, <6>3 DEF Constructing
          <5>3. QED
            BY <5>1, <5>2
        <4>5. Constructing(h[i].cls, b[i], i \in fb, e2, x, ac[p - 1], Upper(ad, p))
          BY <4>1, <4>4, Otherwise
        <4>6. QED
          BY <3>1, <3>2, <3>4, <4>1, <4>3, <4>5 DEF MakerFits
      <3>5. QED
        BY <3>3, <3>4
    <2>3. QED
      BY <2>1, <2>2
  <1>6. OneMaker(ad)
    <2>1. ASSUME NEW p \in 1..Len(ad), NEW q \in 1..Len(ad), p < q, IsMaker(ad[p]), IsMaker(ad[q]),
                 ad[p].inst = ad[q].inst
          PROVE  Beneath(ad[p], ad[q])
      <3>1. p \in 1..n /\ ad[p] = ac[p]
        BY <1>1, <1>2, <1>3, <2>1
      <3>2. CASE q # k
        <4>1. q \in 1..n /\ ad[q] = ac[q]
          BY <1>3, <3>2
        <4>2. QED
          BY <2>1, <3>1, <4>1 DEF Order, OneMaker
      <3>3. CASE q = k
        <4>1. ad[q] = a /\ ac[p].inst = ac[n].inst /\ IsMaker(ac[p])
          BY <1>4, <2>1, <3>1, <3>3
        <4>2. CASE p = n
          BY <3>1, <4>1, <4>2 DEF Beneath
        <4>3. CASE p # n
          <5>1. p < n
            BY <1>1, <3>1, <4>3
          <5>2. Beneath(ac[p], ac[n])
            BY <1>1, <1>4, <3>1, <4>1, <5>1 DEF Order, OneMaker
          <5>3. PICK x, y, z : x = Depth(ac[p].jsp) /\ y = Depth(ac[n].jsp) /\ z = Depth(a.jsp)
            OBVIOUS
          <5>4. ac[p].jsp \in Classes /\ ac[n].jsp \in Classes
            BY <1>1, <3>1, <5>2 DEF Beneath, Seated
          <5>5. x \in Nat /\ y \in Nat /\ z \in Nat
            BY <5>3, <5>4, WithinSelf
          <5>6. y < x /\ z < y
            BY <5>2, <5>3 DEF Beneath
          <5>7. z < x
            BY <5>5, <5>6
          <5>8. QED
            BY <3>1, <4>1, <5>2, <5>3, <5>7 DEF Beneath
        <4>4. QED
          BY <4>2, <4>3
      <3>4. QED
        BY <3>2, <3>3
    <2>2. QED
      BY <2>1 DEF OneMaker
  <1>7. DoneFits(h, ad, b, dn, fb)
    <2>1. ASSUME NEW d \in dn
          PROVE  /\ d[1] \in 1..Len(h)
                 /\ \A p \in 1..Len(ad) : IsMaker(ad[p]) => ad[p].inst # d[1]
                 /\ Complete(h[d[1]].cls, b[d[1]], d[1] \in fb, d[2])
      <3>1. /\ d[1] \in 1..Len(h)
            /\ \A p \in 1..Len(ac) : IsMaker(ac[p]) => ac[p].inst # d[1]
            /\ Complete(h[d[1]].cls, b[d[1]], d[1] \in fb, d[2])
        BY DEF Order, DoneFits
      <3>2. ac[n].inst # d[1]
        BY <1>1, <1>4, <3>1
      <3>3. ASSUME NEW p \in 1..Len(ad), IsMaker(ad[p]) PROVE ad[p].inst # d[1]
        BY <1>3, <1>4, <3>1, <3>2, <3>3
      <3>4. QED
        BY <3>1, <3>3
    <2>2. QED
      BY <2>1 DEF DoneFits
  <1>8. QED
    BY <1>5, <1>6, <1>7 DEF Order

\* A construction succeeds: the instance has no maker any more
LEMMA OrderDone ==
    ASSUME NEW h, NEW ac, NEW b, NEW dn, NEW fb, NEW e, Order(h, ac, b, dn, fb, e),
           NEW i \in 1..Len(h), NEW m, \A p \in 1..Len(ac) : IsMaker(ac[p]) => ac[p].inst # i,
           Complete(h[i].cls, b[i], i \in fb, m)
    PROVE  Order(h, ac, b, dn \cup {<<i, m>>}, fb, e)
  <1>1. DoneFits(h, ac, b, dn, fb)
    BY DEF Order
  <1>2. PICK x : x = <<i, m>>
    OBVIOUS
  <1>3. x[1] = i /\ x[2] = m
    BY <1>2
  <1>4. DoneFits(h, ac, b, dn \cup {x}, fb)
    BY <1>1, <1>3 DEF DoneFits
  <1>5. QED
    BY <1>2, <1>4 DEF Order

\* A construction beneath the one that goes on
LEMMA OnceBeneath ==
    ASSUME NEW c, NEW s, NEW a, Once(c, s, a), a.at = "self", NEW S, s \in Seq(S),
           NEW t, t = s \/ \E x \in S : t = Append(s, x) /\ x[1] # a.jsp,
           Depth(c) <= 3 => IsInjective(t)
    PROVE  Once(c, t, a)
  <1>1. ASSUME NEW m, <<a.jsp, m>> \notin Range(s) PROVE <<a.jsp, m>> \notin Range(t)
    <2>1. CASE t = s
      BY <1>1, <2>1
    <2>2. CASE t # s
      <3>1. PICK x \in S : t = Append(s, x) /\ x[1] # a.jsp
        BY <2>2
      <3>2. Range(t) = Range(s) \cup {x}
        BY <3>1, OneAdded
      <3>3. PICK y : y = <<a.jsp, m>>
        OBVIOUS
      <3>4. y[1] = a.jsp /\ y # x
        BY <3>1, <3>3
      <3>5. QED
        BY <1>1, <3>2, <3>3, <3>4
    <2>3. QED
      BY <2>1, <2>2
  <1>2. QED
    BY <1>1 DEF Once

\* At most a constructor of y is added.
OneLonger(S, s, t, y) == t = s \/ \E x \in S : t = Append(s, x) /\ x[1] = y

\* What it makes is what the other makes, with the other above it.
LEMMA MakesBeneath ==
    ASSUME prog \in Programs, NEW c \in Classes, NEW s, NEW f, NEW e, NEW a, NEW lo, NEW up,
           Constructing(c, s, f, e, a, lo, up), a.at = "self",
           NEW y, Within(c, y), Depth(y) < Depth(a.jsp),
           NEW S, s \in Seq(S), NEW t, OneLonger(S, s, t, y), Depth(c) <= 3 => IsInjective(t),
           NEW f2, f => f2, NEW e2
    PROVE  Constructing(c, t, f2, e2, a, lo, "construct")
  <1>1. /\ Within(c, a.jsp) /\ Follows(c, f, a, lo) /\ Once(c, s, a)
    BY DEF Constructing
  <1>2. PICK z : z = a.jsp
    OBVIOUS
  <1>3. Depth(z) \in 1..Depth(c) /\ Depth(y) \in 1..Depth(c) /\ Depth(c) \in Nat
        /\ (BaseOf(z) = None <=> Depth(z) = 1)
    BY <1>1, <1>2, WithinIs
  <1>4. BaseOf(a.jsp) # None /\ y # a.jsp
    BY <1>2, <1>3
  <1>5. Once(c, t, a)
    <2>1. t = s \/ \E x \in S : t = Append(s, x) /\ x[1] # a.jsp
      BY <1>4 DEF OneLonger
    <2>2. QED
      BY <1>1, <2>1, OnceBeneath
  <1>6. Follows(c, f2, a, lo)
    BY <1>1 DEF Follows
  <1>7. Reached(c, t, f2, e2, a, "construct")
    BY <1>4 DEF Reached
  <1>8. QED
    BY <1>1, <1>5, <1>6, <1>7 DEF Constructing

\* The lists when what is on top of them goes on as u, and what has been built of
\* i is s then.
Advances(h, ac, b, fb, g, ad, bb, fc, u, s, i, n) ==
    /\ n = Len(ac) /\ n >= 1 /\ IsMaker(ac[n]) /\ i = ac[n].inst /\ IsMaker(u) /\ u.inst = i
    /\ (ac[n].k = "construct" => u.k = "construct" /\ u.jsp = ac[n].jsp)
    /\ \/ s = b[i]
       \/ \E x \in Classes \X Int : s = Append(b[i], x) /\ (ac[n].k = "construct" => x[1] = ac[n].jsp)
    /\ bb = [b EXCEPT ![i] = s] /\ fb \subseteq fc /\ fc \subseteq fb \cup {i}
    /\ Len(g) = Len(h) /\ (\A j \in 1..Len(h) : g[j].cls = h[j].cls)
    /\ Len(ad) \in {n, n + 1} /\ ad[n] = u /\ (\A p \in 1..(n - 1) : ad[p] = ac[p])
    /\ (Len(ad) = n + 1 => ~IsMaker(ad[n + 1]))

\* What makes an instance goes on, and may call a constructor.
LEMMA OrderTop ==
    ASSUME NEW h, NEW ac, NEW b, NEW dn, NEW fb, NEW e, Order(h, ac, b, dn, fb, e), Known(h, ac),
           prog \in Programs, NEW g, NEW ad, NEW bb, NEW fc, NEW u, NEW s, NEW i, NEW n,
           Advances(h, ac, b, fb, g, ad, bb, fc, u, s, i, n), NEW e2,
           u.k = "internal" => InnerFits(h[i].cls, s, u),
           u.k = "construct" =>
               n > 1 /\ Constructing(h[i].cls, s, i \in fc, e2, u, ac[n - 1], Upper(ad, n))
    PROVE  Order(g, ad, bb, dn, fc, e2)
  <1>a. /\ n = Len(ac) /\ n >= 1 /\ IsMaker(ac[n]) /\ i = ac[n].inst /\ IsMaker(u) /\ u.inst = i
        /\ ac[n].k = "construct" => u.k = "construct" /\ u.jsp = ac[n].jsp
    BY DEF Advances
  <1>b. \/ s = b[i]
        \/ \E x \in Classes \X Int : s = Append(b[i], x) /\ (ac[n].k = "construct" => x[1] = ac[n].jsp)
    BY DEF Advances
  <1>c. bb = [b EXCEPT ![i] = s] /\ fb \subseteq fc /\ fc \subseteq fb \cup {i}
    BY DEF Advances
  <1>d. Len(g) = Len(h) /\ \A j \in 1..Len(h) : g[j].cls = h[j].cls
    BY DEF Advances
  <1>e. /\ Len(ad) \in {n, n + 1} /\ ad[n] = u /\ \A p \in 1..(n - 1) : ad[p] = ac[p]
    BY DEF Advances
  <1>f. Len(ad) = n + 1 => ~IsMaker(ad[n + 1])
    BY DEF Advances
  <1> USE <1>a, <1>b, <1>c, <1>d, <1>e, <1>f
  <1> DEFINE S == Classes \X Int
  <1>1. /\ n \in Nat /\ n \in 1..Len(ac) /\ \A p \in 1..n : Seated(Len(h), ac[p])
        /\ Len(h) \in Nat /\ \A j \in 1..Len(h) : h[j].cls \in Classes
    BY DEF Known
  <1>2. b \in Seq(Seq(S)) /\ Len(b) = Len(h) /\ i \in 1..Len(h)
    BY <1>1 DEF Order, Seated
  <1>3. s \in Seq(S) /\ b[i] \in Seq(S)
    <2> HIDE DEF S
    <2>1. b[i] \in Seq(S)
      BY <1>2
    <2>2. \A x \in S : Append(b[i], x) \in Seq(S)
      BY <2>1, OneAdded
    <2>3. QED
      BY <2>1, <2>2 DEF S
  <1>4. bb \in Seq(Seq(S)) /\ Len(bb) = Len(h) /\ bb[i] = s /\ \A j \in 1..Len(h) : j # i => bb[j] = b[j]
    <2> HIDE DEF S
    <2>1. QED
      BY <1>2, <1>3
  <1>5. \A p \in 1..Len(ad) :
           (p = n) \/ (p \in 1..(n - 1) /\ p \in 1..n /\ p # n /\ p < n /\ ad[p] = ac[p])
           \/ (p = n + 1 /\ p > n /\ ~IsMaker(ad[p]))
    <2> TAKE p \in 1..Len(ad)
    <2>1. p = n \/ (p \in 1..(n - 1) /\ p \in 1..n /\ p # n /\ p < n)
          \/ (p = n + 1 /\ p > n /\ Len(ad) = n + 1)
      <3>1. CASE Len(ad) = n
        BY <1>1, <3>1
      <3>2. CASE Len(ad) = n + 1
        BY <1>1, <3>2
      <3>3. QED
        BY <3>1, <3>2
    <2>2. CASE p = n
      BY <2>2
    <2>3. CASE p \in 1..(n - 1) /\ p \in 1..n /\ p # n /\ p < n
      BY <2>3
    <2>4. CASE p = n + 1 /\ p > n /\ Len(ad) = n + 1
      BY <2>4
    <2>5. QED
      BY <2>1, <2>2, <2>3, <2>4
  <1>6. ASSUME NEW p \in 1..(n - 1), IsMaker(ac[p]), ac[p].inst = i
        PROVE  Beneath(ac[p], ac[n])
    <2>1. p \in 1..Len(ac) /\ p < n
      BY <1>1, <1>6
    <2>2. QED
      BY <1>1, <1>6, <2>1 DEF Order, OneMaker
  <1>7. ASSUME NEW p \in 1..Len(ad) PROVE MakerFits(g, ad, bb, fc, e2, p)
    <2>1. CASE p = n
      <3>1. ad[n] = u /\ g[i].cls = h[i].cls /\ ad[n].inst = i
        BY <1>2
      <3>2. u.k = "construct" => n > 1 /\ ad[n - 1] = ac[n - 1]
        <4>1. n > 1 => n - 1 \in 1..(n - 1)
          BY <1>1
        <4>2. QED
          BY <4>1
      <3>3. u.k = "internal" => InnerFits(g[ad[n].inst].cls, bb[ad[n].inst], ad[n])
        BY <1>4, <3>1
      <3>4. u.k = "construct" =>
               n > 1 /\ Constructing(g[ad[n].inst].cls, bb[ad[n].inst], ad[n].inst \in fc, e2,
                                     ad[n], ad[n - 1], Upper(ad, n))
        BY <1>4, <3>1, <3>2
      <3>5. MakerFits(g, ad, bb, fc, e2, n)
        BY <3>1, <3>3, <3>4 DEF MakerFits
      <3>6. QED
        BY <2>1, <3>5
    <2>2. CASE p \in 1..(n - 1) /\ p \in 1..n /\ p # n /\ p < n /\ ad[p] = ac[p]
      <3>1. MakerFits(h, ac, b, fb, e, p)
        BY <2>2 DEF Order
      <3>2. CASE ~IsMaker(ac[p])
        BY <2>2, <3>2 DEF MakerFits, IsMaker
      <3>3. CASE IsMaker(ac[p])
        <4>1. PICK x, j : x = ac[p] /\ j = ac[p].inst
          OBVIOUS
        <4>2. j \in 1..Len(h) /\ g[j].cls = h[j].cls /\ IsMaker(x) /\ h[j].cls \in Classes
          BY <1>1, <2>2, <3>3, <4>1 DEF Seated
        <4>3. CASE x.k # "construct"
          <5>1. j # i
            BY <1>6, <2>2, <3>3, <4>1, <4>3 DEF Beneath
          <5>2. bb[j] = b[j]
            BY <1>4, <4>2, <5>1
          <5>3. QED
            BY <2>2, <3>1, <4>1, <4>2, <4>3, <5>2 DEF MakerFits
        <4>4. CASE x.k = "construct"
          <5>1. p > 1 /\ Constructing(h[j].cls, b[j], j \in fb, e, x, ac[p - 1], Upper(ac, p))
            BY <3>1, <4>1, <4>4 DEF MakerFits
          <5>2. p - 1 \in 1..(n - 1) /\ p < Len(ad) /\ p < Len(ac) /\ p + 1 \in 1..n
            BY <1>1, <2>2, <5>1
          <5>3. ad[p - 1] = ac[p - 1] /\ Upper(ac, p) = ac[p + 1].k /\ Upper(ad, p) = ad[p + 1].k
            BY <5>2 DEF Upper
          <5>4. x.at = "self" => Upper(ad, p) = "construct"
            <6>1. ac[p + 1].k # "top"
              BY <1>1, <5>2 DEF Seated
            <6>2. x.at = "self" => ac[p + 1].k = "construct"
              BY <5>1, <5>3, <6>1 DEF Constructing
            <6>3. CASE p + 1 = n
              BY <5>3, <6>2, <6>3
            <6>4. CASE p + 1 # n
              <7>1. p + 1 \in 1..(n - 1)
                BY <1>1, <5>2, <6>4
              <7>2. QED
                BY <5>3, <6>2, <7>1
            <6>5. QED
              BY <6>3, <6>4
          <5>5. CASE j # i
            <6>1. bb[j] = b[j] /\ (j \in fc <=> j \in fb)
              BY <1>4, <4>2, <5>5
            <6>2. Constructing(h[j].cls, b[j], j \in fb, e2, x, ac[p - 1], Upper(ad, p))
              BY <5>1, <5>4, Otherwise
            <6>3. (j \in fc) = (j \in fb)
              BY <6>1
            <6>4. QED
              BY <2>2, <4>1, <4>2, <4>4, <5>1, <5>3, <6>1, <6>2, <6>3 DEF MakerFits
          <5>6. CASE j = i
            <6>1. Beneath(x, ac[n])
              BY <1>6, <2>2, <3>3, <4>1, <5>6
            <6>2. x.at = "self" /\ u.k = "construct" /\ u.jsp = ac[n].jsp /\ ac[n].k = "construct"
                  /\ Depth(u.jsp) < Depth(x.jsp)
              BY <6>1 DEF Beneath
            <6>3. Within(h[i].cls, u.jsp) /\ Once(h[i].cls, s, u)
              BY <6>2 DEF Constructing
            <6>4. Depth(h[i].cls) <= 3 => IsInjective(s)
              BY <6>3 DEF Once
            <6>5. s = b[i] \/ \E y \in S : s = Append(b[i], y) /\ y[1] = u.jsp
              BY <6>2
            <6>6. Constructing(h[i].cls, b[i], i \in fb, e, x, ac[p - 1], Upper(ac, p))
              BY <5>1, <5>6
            <6>7. i \in fb => i \in fc
              OBVIOUS
            <6>8. h[i].cls \in Classes
              BY <4>2, <5>6
            <6>9. PICK y, c, lo, v, up : /\ y = u.jsp /\ c = h[i].cls /\ lo = ac[p - 1] /\ v = b[i]
                                         /\ up = Upper(ac, p)
              OBVIOUS
            <6>10. /\ Within(c, y) /\ Depth(y) < Depth(x.jsp) /\ c \in Classes
                   /\ OneLonger(S, v, s, y)
                   /\ Constructing(c, v, i \in fb, e, x, lo, up) /\ v \in Seq(S)
                   /\ Depth(c) <= 3 => IsInjective(s)
              BY <1>3, <6>2, <6>3, <6>4, <6>5, <6>6, <6>8, <6>9 DEF OneLonger
            <6> HIDE DEF S
            <6>11. Constructing(c, s, i \in fc, e2, x, lo, "construct")
              <7>1. PICK f, f2 : f = (i \in fb) /\ f2 = (i \in fc)
                OBVIOUS
              <7>2. Constructing(c, v, f, e, x, lo, up) /\ (f => f2)
                BY <6>7, <6>10, <7>1
              <7>3. Constructing(c, s, f2, e2, x, lo, "construct")
                BY <6>2, <6>10, <7>2, MakesBeneath
              <7>4. QED
                BY <7>1, <7>3
            <6>12. Upper(ad, p) = "construct"
              BY <5>4, <6>2
            <6>13. /\ ad[p] = x /\ x.inst = i /\ g[i].cls = c /\ bb[i] = s /\ ad[p - 1] = lo
              BY <1>4, <2>2, <4>1, <4>2, <5>3, <5>6, <6>9
            <6>14. QED
              BY <4>4, <5>1, <6>11, <6>12, <6>13 DEF MakerFits
          <5>7. QED
            BY <5>5, <5>6
        <4>5. QED
          BY <4>3, <4>4
      <3>4. QED
        BY <3>2, <3>3
    <2>3. CASE ~IsMaker(ad[p])
      BY <2>3 DEF MakerFits, IsMaker
    <2>4. QED
      BY <1>5, <2>1, <2>2, <2>3
  <1>8. OneMaker(ad)
    <2>1. ASSUME NEW p \in 1..Len(ad), NEW q \in 1..Len(ad), p < q, IsMaker(ad[p]), IsMaker(ad[q]),
                 ad[p].inst = ad[q].inst
          PROVE  Beneath(ad[p], ad[q])
      <3>1. q \in 1..n /\ p \in 1..(n - 1) /\ ad[p] = ac[p] /\ p \in 1..Len(ac)
        BY <1>1, <1>5, <2>1
      <3>2. CASE q = n
        <4>1. Beneath(ac[p], ac[n])
          BY <1>6, <2>1, <3>1, <3>2
        <4>2. u.k = "construct" /\ u.jsp = ac[n].jsp
          BY <4>1 DEF Beneath
        <4>3. QED
          BY <3>1, <3>2, <4>1, <4>2 DEF Beneath
      <3>3. CASE q # n
        <4>1. q \in 1..(n - 1) /\ ad[q] = ac[q] /\ q \in 1..Len(ac)
          <5>1. q \in 1..(n - 1) /\ q \in 1..Len(ac)
            BY <1>1, <3>1, <3>3
          <5>2. QED
            BY <5>1
        <4>2. QED
          BY <2>1, <3>1, <4>1 DEF Order, OneMaker
      <3>4. QED
        BY <3>2, <3>3
    <2>2. QED
      BY <2>1 DEF OneMaker
  <1>9. DoneFits(g, ad, bb, dn, fc)
    <2>1. ASSUME NEW d \in dn
          PROVE  /\ d[1] \in 1..Len(g)
                 /\ \A p \in 1..Len(ad) : IsMaker(ad[p]) => ad[p].inst # d[1]
                 /\ Complete(g[d[1]].cls, bb[d[1]], d[1] \in fc, d[2])
      <3>1. /\ d[1] \in 1..Len(h)
            /\ \A p \in 1..Len(ac) : IsMaker(ac[p]) => ac[p].inst # d[1]
            /\ Complete(h[d[1]].cls, b[d[1]], d[1] \in fb, d[2])
        BY DEF Order, DoneFits
      <3>2. d[1] # i
        BY <1>1, <3>1
      <3>3. g[d[1]].cls = h[d[1]].cls /\ bb[d[1]] = b[d[1]] /\ (d[1] \in fc) = (d[1] \in fb)
        <4>1. g[d[1]].cls = h[d[1]].cls /\ bb[d[1]] = b[d[1]]
          BY <1>4, <3>1, <3>2
        <4>2. d[1] \in fc <=> d[1] \in fb
          BY <3>2
        <4>3. QED
          BY <4>1, <4>2
      <3>4. ASSUME NEW p \in 1..Len(ad), IsMaker(ad[p]) PROVE ad[p].inst # d[1]
        <4>1. CASE p = n
          BY <3>2, <4>1
        <4>2. CASE p \in 1..n /\ ad[p] = ac[p]
          BY <3>1, <3>4, <4>2
        <4>3. QED
          BY <1>5, <3>4, <4>1, <4>2
      <3>5. QED
        BY <3>1, <3>3, <3>4
    <2>2. QED
      BY <2>1 DEF DoneFits
  <1>10. QED
    BY <1>4, <1>7, <1>8, <1>9 DEF Order

-----------------------------------------------------------------------------
(* The steps                                                               *)

\* The constructors that have been called so far
Ordered == Order(heap, acts, built, done, fellback, err)

\* What is known of the activations of a state
LEMMA KnownNow ==
    ASSUME Inv
    PROVE  Known(heap, acts)
  <1>1. /\ Len(heap) \in Nat /\ Len(acts) \in Nat /\ \A i \in 1..Len(heap) : heap[i].cls \in Classes
        /\ \A p \in 1..Len(acts) : acts[p] \in Acts(Classes, Len(heap))
    BY InvSays
  <1>2. ASSUME NEW p \in 1..Len(acts) PROVE Seated(Len(heap), acts[p])
    <2>1. PICK n, a : n = Len(heap) /\ a = acts[p]
      OBVIOUS
    <2>2. n \in Nat /\ a \in Acts(Classes, n)
      BY <1>1, <2>1
    <2>3. /\ a.k \in {"frame", "internal", "construct", "host", "call", "run"}
          /\ a.k = "internal" => a \in Internals(Classes, n)
          /\ a.k = "construct" => a \in Constructs(Classes, n)
          /\ a.k = "host" => a \in Hosts(Classes, n)
      BY <2>2, ActTypes
    <2>4. a.k = "internal" => a.inst \in 1..n
      BY <2>2, <2>3, InternalTypes
    <2>5. /\ a.k = "construct" => /\ a.inst \in 1..n /\ a.jsp \in Classes /\ a.argc \in Nat
                                  /\ a.at \in {"base", "self", "called"}
          /\ a.k = "host" => a.inst \in 1..n
      BY <2>2, <2>3, WaitTypes
    <2>6. Seated(n, a)
      BY <2>3, <2>4, <2>5 DEF Seated, IsMaker
    <2>7. QED
      BY <2>1, <2>6
  <1>3. QED
    BY <1>1, <1>2 DEF Known

\* The constructors to be called do not change.
LEMMA CtorsStay ==
    ASSUME prog' = prog
    PROVE  /\ Classes' = Classes
           /\ \A c : Depth(c)' = Depth(c) /\ BaseOf(c)' = BaseOf(c)
           /\ \A c, k : Up(c, k)' = Up(c, k) /\ Inner(c, k)' = Inner(c, k)
           /\ \A c, m : Ctors(c, m)' = Ctors(c, m) /\ Due(c, m)' = Due(c, m)
           /\ \A c, x : Within(c, x)' <=> Within(c, x)
  <1>1. /\ Classes' = Classes /\ \A c : Chain(c)' = Chain(c) /\ BaseOf(c)' = BaseOf(c)
        /\ \A c : Place(c)' = Place(c)
        /\ \A c, s : Declares(c, s)' = Declares(c, s)
    BY ProgramStays
  <1>2. \A c : Depth(c)' = Depth(c)
    BY <1>1 DEF Depth
  <1>3. \A c : Seen(c)' = Seen(c)
    BY <1>1 DEF Seen, Late
  <1>4. \A c, k : Up(c, k)' = Up(c, k)
    BY <1>1 DEF Up
  <1>5. \A c, k : Inner(c, k)' = Inner(c, k)
    BY <1>4 DEF Inner
  <1>6. \A c, m, k : Runs(c, m, k)' = Runs(c, m, k)
    BY <1>1, <1>3, <1>4 DEF Runs
  <1>7. \A c, m : Ctors(c, m)' = Ctors(c, m)
    BY <1>1, <1>4, <1>6 DEF Ctors
  <1>8. \A c, m : Due(c, m)' = Due(c, m)
    BY <1>1, <1>7 DEF Due
  <1>9. \A c, x : Within(c, x)' <=> Within(c, x)
    BY <1>1, <1>2 DEF Within
  <1>10. QED
    BY <1>1, <1>2, <1>4, <1>5, <1>7, <1>8, <1>9

\* The order in the next state
LEMMA OrderStays ==
    ASSUME prog' = prog, Order(heap', acts', built', done', fellback', err')
    PROVE  Ordered'
  <1>1. /\ Classes' = Classes
        /\ \A c : Depth(c)' = Depth(c) /\ BaseOf(c)' = BaseOf(c)
        /\ \A c, k : Up(c, k)' = Up(c, k) /\ Inner(c, k)' = Inner(c, k)
        /\ \A c, m : Ctors(c, m)' = Ctors(c, m) /\ Due(c, m)' = Due(c, m)
        /\ \A c, x : Within(c, x)' <=> Within(c, x)
    BY CtorsStay
  <1>2. \A c, s, a : InnerFits(c, s, a)' <=> InnerFits(c, s, a)
    BY <1>1 DEF InnerFits
  <1>3. \A c, f, a, lo : Follows(c, f, a, lo)' <=> Follows(c, f, a, lo)
    BY <1>1 DEF Follows
  <1>4. \A c, s, f, e, a, up : Reached(c, s, f, e, a, up)' <=> Reached(c, s, f, e, a, up)
    BY <1>1 DEF Reached
  <1>5. \A c, s, a : Once(c, s, a)' <=> Once(c, s, a)
    BY <1>1 DEF Once
  <1>6. \A c, s, f, e, a, lo, up :
            Constructing(c, s, f, e, a, lo, up)' <=> Constructing(c, s, f, e, a, lo, up)
    BY <1>1, <1>3, <1>4, <1>5 DEF Constructing
  <1>7. \A h, ac, b, fb, e, p : MakerFits(h, ac, b, fb, e, p)' <=> MakerFits(h, ac, b, fb, e, p)
    BY <1>2, <1>6 DEF MakerFits
  <1>8. \A ac : OneMaker(ac)' <=> OneMaker(ac)
    BY <1>1 DEF OneMaker, Beneath
  <1>9. \A h, ac, b, dn, fb : DoneFits(h, ac, b, dn, fb)' <=> DoneFits(h, ac, b, dn, fb)
    BY <1>1 DEF DoneFits, Complete
  <1>10. \A h, ac, b, dn, fb, e : Order(h, ac, b, dn, fb, e)' <=> Order(h, ac, b, dn, fb, e)
    BY <1>1, <1>7, <1>8, <1>9 DEF Order
  <1>11. QED
    BY <1>10 DEF Ordered

\* An error in the program stays one.
LEMMA LinkedStays ==
    ASSUME Inv, Linked, UNCHANGED classVars \/ qinterpPrepare
    PROVE  Linked'
  <1>1. prog \in Programs /\ prepared \in 0..Len(prog) /\ Len(prog) \in Nat
    BY DeclTypes DEF Inv, ClassInv
  <1>2. CASE UNCHANGED classVars
    BY <1>2 DEF classVars, Linked, Classes
  <1>3. CASE qinterpPrepare
    <2>1. /\ prog' = prog /\ prepared' = prepared + 1 /\ ~refused
          /\ refused' \/ prog[prepared + 1].base \in Classes \cup {None}
      BY <1>3 DEF qinterpPrepare
    <2>2. Classes' = Classes
      BY <2>1 DEF Classes
    <2>3. ASSUME ~refused', NEW k \in 1..prepared' PROVE prog[k].base \in Classes \cup {None}
      <3>1. k \in 1..prepared \/ k = prepared + 1
        BY <1>1, <2>1
      <3>2. QED
        BY <2>1, <2>3, <3>1 DEF Linked
    <2>4. QED
      BY <2>1, <2>2, <2>3 DEF Linked
  <1>4. QED
    BY <1>2, <1>3

\* How long the lists of the next state are
LEMMA NextLists ==
    ASSUME Inv'
    PROVE  /\ Len(heap') \in Nat /\ DOMAIN heap' = 1..Len(heap')
           /\ Len(acts') \in Nat /\ acts' \in Seq(Acts(Classes', Len(heap')))
  <1>1. State(Classes, Depths, heap, stack, acts)'
    BY DEF Inv, TypeInv
  <1>2. heap' \in Heaps(Classes', Len(heap')) /\ acts' \in Seq(Acts(Classes', Len(heap')))
    BY <1>1 DEF State
  <1>3. QED
    BY <1>2 DEF Heaps

\* What is on top goes on, goes, or calls something, and makes nothing.
Passes(ac, ad) ==
    /\ Len(ad) \in Nat /\ Len(ac) - 1 <= Len(ad)
    /\ \A p \in 1..(Len(ac) - 1) : ad[p] = ac[p]
    /\ \A p \in Len(ac)..Len(ad) : ~IsMaker(ad[p])

\* The ways in which it does
LEMMA WaysToPass ==
    ASSUME NEW A, NEW ac \in Seq(A), ac # <<>>, NEW f, ~IsMaker(f),
           NEW ad, \/ ad = SubSeq(ac, 1, Len(ac) - 1)
                   \/ ad = ac /\ ~IsMaker(ac[Len(ac)])
                   \/ ad = [ac EXCEPT ![Len(ac)] = f]
                   \/ ad = Append(ac, f) /\ ~IsMaker(ac[Len(ac)])
    PROVE  Passes(ac, ad)
  <1>1. PICK n : n = Len(ac)
    OBVIOUS
  <1>2. n \in Nat /\ n >= 1 /\ n - 1 \in 0..n /\ DOMAIN ac = 1..n
    BY <1>1
  <1>3. CASE ad = SubSeq(ac, 1, Len(ac) - 1)
    <2>1. Len(ad) = n - 1 /\ \A p \in 1..(n - 1) : ad[p] = ac[p]
      BY <1>1, <1>2, <1>3, Slices
    <2>2. QED
      BY <1>1, <1>2, <2>1 DEF Passes
  <1>4. CASE ad = ac /\ ~IsMaker(ac[Len(ac)])
    <2>1. \A p \in n..Len(ad) : p = n
      BY <1>1, <1>2, <1>4
    <2>2. QED
      BY <1>1, <1>2, <1>4, <2>1 DEF Passes
  <1>5. CASE ad = [ac EXCEPT ![Len(ac)] = f]
    <2>1. Len(ad) = n /\ ad[n] = f /\ \A p \in 1..(n - 1) : ad[p] = ac[p]
      BY <1>1, <1>2, <1>5
    <2>2. \A p \in n..Len(ad) : p = n
      BY <1>2, <2>1
    <2>3. QED
      BY <1>1, <1>2, <2>1, <2>2 DEF Passes
  <1>6. CASE ad = Append(ac, f) /\ ~IsMaker(ac[Len(ac)])
    <2>1. Len(ad) = n + 1 /\ ad[n + 1] = f /\ \A p \in 1..n : ad[p] = ac[p]
      BY <1>1, <1>2, <1>6
    <2>2. \A p \in n..Len(ad) : p = n \/ p = n + 1
      BY <1>2, <2>1
    <2>3. \A p \in n..Len(ad) : ~IsMaker(ad[p])
      BY <1>1, <1>2, <1>6, <2>1, <2>2
    <2>4. \A p \in 1..(n - 1) : p \in 1..n
      BY <1>2
    <2>5. QED
      BY <1>1, <1>2, <2>1, <2>3, <2>4 DEF Passes
  <1>7. QED
    BY <1>3, <1>4, <1>5, <1>6

\* A list of instances is as long as one with the same of them.
LEMMA AsLong ==
    ASSUME Inv, Inv', Same(heap', heap)
    PROVE  Len(heap') = Len(heap) /\ \A i \in 1..Len(heap) : heap'[i].cls = heap[i].cls
  <1>1. Len(heap) \in Nat /\ DOMAIN heap = 1..Len(heap)
    BY InvSays
  <1>2. Len(heap') \in Nat /\ DOMAIN heap' = 1..Len(heap')
    BY NextLists
  <1>3. PICK m, n : m = Len(heap) /\ n = Len(heap')
    OBVIOUS
  <1>4. m \in Nat /\ n \in Nat /\ 1..m = 1..n
    BY <1>1, <1>2, <1>3 DEF Same
  <1>5. (m >= 1 => m \in 1..m) /\ (n >= 1 => n \in 1..n)
    BY <1>4
  <1>6. m <= n /\ n <= m
    BY <1>4, <1>5
  <1>7. QED
    BY <1>1, <1>3, <1>4, <1>6 DEF Same

\* Then the order is kept.
LEMMA TopmostKept ==
    ASSUME Inv, Inv', Ordered, acts # <<>>, Top.k # "construct", prog' = prog,
           built' = built, done' = done, fellback' = fellback, Same(heap', heap),
           Passes(acts, acts')
    PROVE  Ordered'
  <1>1. Known(heap, acts) /\ Len(acts) \in Nat /\ Len(acts) >= 1 /\ Top = acts[Len(acts)]
    BY KnownNow, InvSays DEF Top
  <1>2. Len(heap') = Len(heap) /\ \A i \in 1..Len(heap) : heap'[i].cls = heap[i].cls
    BY AsLong
  <1>3. Order(heap', acts', built, done, fellback, err')
    BY <1>1, <1>2, OrderTopmost DEF Ordered, Passes
  <1>4. QED
    BY <1>3, OrderStays

-----------------------------------------------------------------------------
(* The steps of methods                                                    *)

\* A frame goes on, goes, or calls a method.
LEMMA FrameGoesOn ==
    ASSUME Inv, Inv', Ordered, acts # <<>>, Top.k = "frame", UNCHANGED classVars,
           built' = built, done' = done, fellback' = fellback, Same(heap', heap),
           NEW f, f.k = "frame",
           \/ acts' = acts
           \/ acts' = Below
           \/ acts' = [acts EXCEPT ![Len(acts)] = f]
           \/ acts' = Append(acts, f)
    PROVE  Ordered'
  <1>1. acts \in Seq(Acts(Classes, Len(heap)))
    BY InvSays DEF Fits, State
  <1>2. ~IsMaker(f) /\ ~IsMaker(acts[Len(acts)]) /\ Top.k # "construct"
    BY DEF IsMaker, Top
  <1>3. Passes(acts, acts')
    <2>1. PICK ad : ad = acts'
      OBVIOUS
    <2>2. \/ ad = SubSeq(acts, 1, Len(acts) - 1)
          \/ ad = acts /\ ~IsMaker(acts[Len(acts)])
          \/ ad = [acts EXCEPT ![Len(acts)] = f]
          \/ ad = Append(acts, f) /\ ~IsMaker(acts[Len(acts)])
      BY <1>2, <2>1 DEF Below
    <2>3. Passes(acts, ad)
      BY <1>1, <1>2, <2>2, WaysToPass
    <2>4. QED
      BY <2>1, <2>3
  <1>4. prog' = prog
    BY DEF classVars
  <1>5. QED
    BY <1>2, <1>3, <1>4, TopmostKept

\* A method that is called is a frame above the caller
LEMMA EnterAdds ==
    ASSUME NEW h, NEW st, NEW vs, NEW ctx, NEW sig, Enter(h, st, vs, ctx, sig)
    PROVE  /\ fellback' = fellback
           /\ \E f : f.k = "frame" /\ (acts' = acts \/ acts' = Append(acts, f))
  <1>1. PICK f : f = Frame(ctx, jsclassFindMethod(ctx, sig), sig, vs, TRUE, Len(st))
    OBVIOUS
  <1>2. f.k = "frame"
    BY <1>1 DEF Frame
  <1>3. fellback' = fellback /\ (acts' = acts \/ acts' = Append(acts, f))
    BY <1>1 DEF Enter, history
  <1>4. QED
    BY <1>2, <1>3

\* The calls of a method
LEMMA CallsOrdered ==
    ASSUME Inv, Ordered, NEW sig \in Sigs, NEW args \in Operands,
           (\E o \in 1..Len(Top.locals) : Call(o, sig, args)) \/ callBaseMethod(sig, args)
    PROVE  Ordered'
  <1>1. Inv' /\ Same(heap', heap)
    BY CallKeeps, BaseCallKeeps
  <1>2. /\ acts # <<>> /\ Top.k = "frame" /\ UNCHANGED classVars /\ built' = built /\ done' = done
    BY DEF Call, callBaseMethod, Running
  <1>3. /\ fellback' = fellback
        /\ \E f : f.k = "frame" /\ (acts' = acts \/ acts' = Append(acts, f))
    <2>1. CASE \E o \in 1..Len(Top.locals) : Call(o, sig, args)
      <3>1. PICK o \in 1..Len(Top.locals) : Call(o, sig, args)
        BY <2>1
      <3>2. PICK h, vs : \/ Enter(h, stack, vs, heap[vs[1]].cls, sig)
                         \/ UNCHANGED <<acts, history>>
        BY <3>1 DEF Call
      <3>3. CASE Enter(h, stack, vs, heap[vs[1]].cls, sig)
        BY <3>3, EnterAdds
      <3>4. CASE UNCHANGED <<acts, history>>
        BY <1>2, <3>4 DEF history, Top
      <3>5. QED
        BY <3>2, <3>3, <3>4
    <2>2. CASE callBaseMethod(sig, args)
      <3>1. PICK h, vs, c : Enter(h, stack, vs, c, sig)
        BY <2>2 DEF callBaseMethod
      <3>2. QED
        BY <3>1, EnterAdds
    <2>3. QED
      BY <2>1, <2>2
  <1>4. QED
    BY <1>1, <1>2, <1>3, FrameGoesOn

\* The other steps of a method but OP_NEW, and its end
LEMMA MethodOrdered ==
    ASSUME Inv, Ordered,
           \/ \E o \in Vars : StoreLocal(o) \/ LoadLocal(o)
           \/ \E f : StoreField(f) \/ LoadField(f) \/ OP_DEREF(f)
           \/ Return \/ Throw \/ Unwind \/ Resume
    PROVE  Ordered'
  <1>1. CASE \E o \in Vars : StoreLocal(o)
    <2>1. PICK o \in Vars : StoreLocal(o)
      BY <1>1
    <2>2. Inv' /\ Same(heap', heap)
      BY <2>1, StoreLocalKeeps
    <2>3. /\ acts # <<>> /\ Top.k = "frame" /\ UNCHANGED classVars /\ built' = built /\ done' = done
          /\ fellback' = fellback
      BY <2>1 DEF StoreLocal, Running
    <2>4. acts' = [acts EXCEPT ![Len(acts)] = Put(Top, o, Peek)]
      BY <2>1 DEF StoreLocal, Top, Put
    <2>5. Put(Top, o, Peek).k = "frame"
      <3>1. Len(heap) \in Nat /\ Top \in Frames(Classes, Len(heap)) /\ o \in 1..Len(Top.locals)
        BY <2>3, TopFrame, InvSays DEF Vars
      <3>2. Peek \in 0..Len(heap)
        BY <2>1, <2>3, Popped DEF StoreLocal
      <3>3. QED
        BY <2>3, <3>1, <3>2, LocalPut
    <2>6. QED
      BY <2>2, <2>3, <2>4, <2>5, FrameGoesOn
  <1>2. CASE \/ \E o \in Vars : LoadLocal(o)
             \/ \E f : StoreField(f) \/ LoadField(f) \/ OP_DEREF(f)
    <2>1. Inv' /\ Same(heap', heap)
      BY <1>2, StoreFieldKeeps, LoadsKeep, DerefKeeps
    <2>2. /\ acts # <<>> /\ Top.k = "frame" /\ UNCHANGED classVars /\ built' = built /\ done' = done
          /\ fellback' = fellback /\ acts' = acts
      BY <1>2 DEF StoreField, LoadField, LoadLocal, Load, OP_DEREF, Running, history
    <2>3. QED
      BY <2>1, <2>2, FrameGoesOn
  <1>3. CASE Return \/ Throw \/ Unwind
    <2>1. Inv' /\ Same(heap', heap)
      BY <1>3, LeavingKeeps
    <2>2. /\ acts # <<>> /\ Top.k = "frame" /\ UNCHANGED classVars /\ built' = built /\ done' = done
          /\ fellback' = fellback /\ acts' = Below
      BY <1>3 DEF Return, Throw, Unwind, Running, leaveFrame, history
    <2>3. QED
      BY <2>1, <2>2, FrameGoesOn
  <1>4. CASE Resume
    <2>1. Inv'
      BY <1>4, ResumeKeeps
    <2>2. /\ acts # <<>> /\ Top.k = "frame" /\ UNCHANGED classVars /\ built' = built /\ done' = done
          /\ fellback' = fellback /\ acts' = acts /\ heap' = heap
      BY <1>4 DEF Resume, history
    <2>3. Same(heap', heap)
      BY <2>2 DEF Same
    <2>4. QED
      BY <2>1, <2>2, <2>3, FrameGoesOn
  <1>5. QED
    BY <1>1, <1>2, <1>3, <1>4

\* The end of a call from the host, and what ends in an error
LEMMA EndsOrdered ==
    ASSUME Inv, Ordered, RunReturns \/ CallReturns \/ MakeFails
    PROVE  Ordered'
  <1>1. CASE RunReturns \/ CallReturns
    <2>1. Inv' /\ Same(heap', heap)
      BY <1>1, RunReturnsKeeps, CallReturnsKeeps
    <2>2. /\ acts # <<>> /\ ~IsMaker(Top) /\ UNCHANGED classVars /\ built' = built /\ done' = done
          /\ fellback' = fellback /\ acts' = Below
      BY <1>1 DEF RunReturns, CallReturns, IsMaker
    <2>3. acts \in Seq(Acts(Classes, Len(heap)))
      BY InvSays DEF Fits, State
    <2>4. PICK f : f = Top
      OBVIOUS
    <2>5. ~IsMaker(f) /\ acts' = SubSeq(acts, 1, Len(acts) - 1)
      BY <2>2, <2>4 DEF Below
    <2>6. Passes(acts, acts')
      BY <2>2, <2>3, <2>5, WaysToPass
    <2>7. prog' = prog /\ Top.k # "construct"
      BY <2>2 DEF classVars, IsMaker
    <2>8. QED
      BY <2>1, <2>2, <2>6, <2>7, TopmostKept
  <1>2. CASE MakeFails
    <2>1. /\ acts = <<>> /\ acts' = acts /\ heap' = heap /\ built' = built /\ done' = done
          /\ fellback' = fellback /\ prog' = prog
      BY <1>2 DEF MakeFails, history, classVars
    <2>2. Known(heap, acts) /\ Len(acts) = 0
      BY <2>1, KnownNow
    <2>3. Order(heap', acts', built, done, fellback, err')
      BY <2>1, <2>2, OrderPrefix DEF Ordered
    <2>4. QED
      BY <2>1, <2>3, OrderStays
  <1>3. QED
    BY <1>1, <1>2

-----------------------------------------------------------------------------
(* The makers of instances                                                 *)

\* The internal constructors that a new instance has to run are all of them.
LEMMA AllInner ==
    ASSUME prog \in Programs, NEW c \in Classes, NEW a, a.todo = Reverse(Chain(c))
    PROVE  InnerFits(c, <<>>, a)
  <1>1. PICK n : n = Depth(c)
    OBVIOUS
  <1>2. n \in Nat /\ Chain(c) \in Seq(Classes) /\ Len(Chain(c)) = n
    BY <1>1, WithinSelf, Above DEF Depth
  <1>3. PICK r : r = [j \in 1..n |-> Chain(c)[(n - j) + 1]]
    OBVIOUS
  <1>4. a.todo = r
    BY <1>2, <1>3 DEF Reverse
  <1>5. \A j \in 1..n : Chain(c)[(n - j) + 1] \in Classes
    BY <1>2
  <1>6. Len(r) = n
    BY <1>2, <1>3, <1>5
  <1>7. ASSUME NEW j \in 1..n PROVE r[j] = Up(c, n - n + j)
    <2>1. (n - j) + 1 = n + 1 - (n - n + j)
      BY <1>2
    <2>2. QED
      BY <1>2, <1>3, <2>1 DEF Up
  <1>8. Inner(c, n - n) = <<>>
    <2>1. n - n = 0 /\ 0 \in 0..n
      BY <1>2
    <2>2. Inner(c, 0) \in Seq(Classes \X Int) /\ Len(Inner(c, 0)) = 0
      BY <1>1, <1>2, <2>1, InnerIs
    <2>3. PICK s : s = Inner(c, 0)
      OBVIOUS
    <2>4. s \in Seq(Classes \X Int) /\ Len(s) = 0
      BY <2>2, <2>3
    <2>5. s = <<>>
      BY <2>4
    <2>6. QED
      BY <2>1, <2>3, <2>5
  <1>9. n <= n
    BY <1>2
  <1>10. QED
    BY <1>1, <1>4, <1>6, <1>7, <1>8, <1>9 DEF InnerFits

\* An instance is made
LEMMA MakeOrdered ==
    ASSUME Inv, Ordered, NEW c \in Classes, NEW args, NEW byhost, Make(c, args, byhost),
           acts = <<>> \/ Top.k # "construct"
    PROVE  Ordered'
  <1>1. PICK x : x = jsinstConstruct(c)
    OBVIOUS
  <1>2. PICK a : a = Internal(Len(heap) + 1, Reverse(Chain(c)), args, byhost)
    OBVIOUS
  <1>3. /\ heap' = Append(heap, x) /\ built' = Append(built, <<>>) /\ acts' = Append(acts, a)
        /\ done' = done /\ fellback' = fellback /\ prog' = prog
    BY <1>1, <1>2 DEF Make, Internal, history, classVars
  <1>4. a.k = "internal" /\ a.inst = Len(heap) + 1 /\ a.todo = Reverse(Chain(c)) /\ x.cls = c
    BY <1>1, <1>2 DEF Internal, jsinstConstruct
  <1>5. /\ prog \in Programs /\ Known(heap, acts) /\ heap \in Seq(Insts(Classes, Len(heap)))
        /\ acts \in Seq(Acts(Classes, Len(heap))) /\ Len(heap) \in Nat
    BY KnownNow, InvSays DEF Fits, State, Heaps
  <1>6. built \in Seq(Seq(Classes \X Int)) /\ Len(built) = Len(heap)
    BY DEF Ordered, Order
  <1>7. PICK g : g = Append(heap, x)
    OBVIOUS
  <1>8. Len(g) = Len(heap) + 1 /\ g[Len(heap) + 1].cls = c /\ \A i \in 1..Len(heap) : g[i].cls = heap[i].cls
    BY <1>4, <1>5, <1>7
  <1>9. PICK ad : ad = Append(acts, a)
    OBVIOUS
  <1>10. Len(ad) = Len(acts) + 1 /\ ad[Len(acts) + 1] = a /\ \A p \in 1..Len(acts) : ad[p] = acts[p]
    BY <1>5, <1>9
  <1>11. PICK bb : bb = Append(built, <<>>)
    OBVIOUS
  <1>12. /\ bb \in Seq(Seq(Classes \X Int)) /\ Len(bb) = Len(built) + 1 /\ bb[Len(built) + 1] = <<>>
         /\ \A i \in 1..Len(built) : bb[i] = built[i]
    <2> DEFINE S == Seq(Classes \X Int)
    <2>1. <<>> \in S
      OBVIOUS
    <2> HIDE DEF S
    <2>2. built \in Seq(S)
      BY <1>6 DEF S
    <2>3. bb \in Seq(S) /\ Len(bb) = Len(built) + 1 /\ bb[Len(built) + 1] = <<>>
          /\ \A i \in 1..Len(built) : bb[i] = built[i]
      BY <1>11, <2>1, <2>2
    <2>4. QED
      BY <2>3 DEF S
  <1>13. InnerFits(g[Len(heap) + 1].cls, <<>>, a)
    BY <1>4, <1>5, <1>8, AllInner
  <1>14. acts = <<>> \/ acts[Len(acts)].k # "construct"
    BY DEF Top
  <1>15. Order(heap, acts, built, done, fellback, err)
    BY DEF Ordered
  <1>16. PICK e2 : e2 = err'
    OBVIOUS
  <1>17. Order(g, ad, bb, done, fellback, e2)
    <2>1. Known(heap, acts)
      BY <1>5
    <2>2. a.k = "internal" /\ a.inst = Len(heap) + 1
      BY <1>4
    <2>3. Len(g) = Len(heap) + 1 /\ \A i \in 1..Len(heap) : g[i].cls = heap[i].cls
      BY <1>8
    <2>4. QED
      <3>1. Grows(heap, acts, built, g, ad, bb, a)
        BY <1>10, <1>12, <1>13, <2>2, <2>3 DEF Grows
      <3>2. QED
        BY <1>14, <1>15, <2>1, <3>1, OrderGrow
  <1>18. Order(heap', acts', built', done', fellback', err')
    BY <1>3, <1>7, <1>9, <1>11, <1>16, <1>17
  <1>19. QED
    BY <1>3, <1>18, OrderStays

\* OP_NEW and createJSClassInstance
LEMMA NewOrdered ==
    ASSUME Inv, Ordered,
           \/ \E c, args : OP_NEW(c, args)
           \/ \E c \in Classes, n \in 0..1 : createJSClassInstance(c, n)
    PROVE  Ordered'
  <1>1. CASE \E c, args : OP_NEW(c, args)
    <2>1. PICK c, args : OP_NEW(c, args)
      BY <1>1
    <2>2. acts # <<>> /\ Top.k = "frame"
      BY <2>1 DEF OP_NEW, Running
    <2>3. CASE c \in Classes
      <3>1. PICK vs, b : Make(c, vs, b)
        BY <2>1, <2>3 DEF OP_NEW
      <3>2. QED
        BY <2>2, <2>3, <3>1, MakeOrdered
    <2>4. CASE c \notin Classes
      <3>1. /\ UNCHANGED classVars /\ heap' = heap /\ acts' = acts /\ built' = built /\ done' = done
            /\ fellback' = fellback /\ prog' = prog
        BY <2>1, <2>4 DEF OP_NEW, history, classVars
      <3>2. Known(heap, acts) /\ Order(heap, acts, built, done, fellback, err) /\ Top = acts[Len(acts)]
            /\ Len(acts) \in Nat
        BY KnownNow, InvSays DEF Ordered, Top
      <3>3. PICK e2 : e2 = err'
        OBVIOUS
      <3>4. /\ Len(acts) \in 0..Len(acts) /\ Len(acts) <= Len(acts)
            /\ \A p \in (Len(acts) + 1)..Len(acts) : ~IsMaker(acts[p])
        BY <3>2
      <3>5. Order(heap, acts, built, done, fellback, e2)
        BY <2>2, <3>2, <3>4, OrderPrefix
      <3>6. QED
        BY <3>1, <3>3, <3>5, OrderStays
    <2>5. QED
      BY <2>3, <2>4
  <1>2. CASE \E c \in Classes, n \in 0..1 : createJSClassInstance(c, n)
    <2>1. PICK c \in Classes, n \in 0..1 : createJSClassInstance(c, n)
      BY <1>2
    <2>2. acts = <<>>
      BY <2>1 DEF createJSClassInstance, Idle
    <2>3. PICK vs, b : Make(c, vs, b)
      BY <2>1 DEF createJSClassInstance
    <2>4. QED
      BY <2>2, <2>3, MakeOrdered
  <1>3. QED
    BY <1>1, <1>2

\* The host calls a method, while nothing is being made.
LEMMA HostCallsOrdered ==
    ASSUME Inv, Inv', Ordered, qinterpRun \/ (\E sig \in Sigs : qinterpCall(sig))
    PROVE  Ordered'
  <1>1. /\ acts = <<>> /\ prog' = prog /\ built' = built /\ done' = done /\ fellback' = fellback
    BY DEF qinterpRun, qinterpCall, Idle, classVars, history
  <1>2. Len(acts') \in Nat /\ \A p \in 1..Len(acts') : ~IsMaker(acts'[p])
    <2>1. CASE qinterpRun
      <3>1. PICK x, y : acts' = <<x, y>> /\ x.k = "run" /\ y.k = "frame"
        BY <2>1 DEF qinterpRun, Frame
      <3>2. Len(acts') = 2 /\ acts'[1] = x /\ acts'[2] = y /\ \A p \in 1..2 : p = 1 \/ p = 2
        BY <3>1
      <3>3. QED
        BY <3>1, <3>2 DEF IsMaker
    <2>2. CASE \E sig \in Sigs : qinterpCall(sig)
      <3>1. PICK x : x.k = "call" /\ (acts' = <<x>> \/ \E y : acts' = <<x, y>> /\ y.k = "frame")
        BY <2>2 DEF qinterpCall, Frame
      <3>2. CASE acts' = <<x>>
        <4>1. Len(acts') = 1 /\ acts'[1] = x /\ \A p \in 1..1 : p = 1
          BY <3>2
        <4>2. QED
          BY <3>1, <4>1 DEF IsMaker
      <3>3. CASE \E y : acts' = <<x, y>> /\ y.k = "frame"
        <4>1. PICK y : acts' = <<x, y>> /\ y.k = "frame"
          BY <3>3
        <4>2. Len(acts') = 2 /\ acts'[1] = x /\ acts'[2] = y /\ \A p \in 1..2 : p = 1 \/ p = 2
          BY <4>1
        <4>3. QED
          BY <3>1, <4>1, <4>2 DEF IsMaker
      <3>4. QED
        BY <3>1, <3>2, <3>3
    <2>3. QED
      BY <2>1, <2>2
  <1>3. Len(heap') = Len(heap) /\ \A i \in 1..Len(heap) : heap'[i].cls = heap[i].cls
    <2>1. Same(heap', heap)
      BY HostCallKeeps DEF qinterpRun, Same
    <2>2. QED
      BY <2>1, AsLong
  <1>4. Known(heap, acts) /\ Len(acts) = 0 /\ Order(heap, acts, built, done, fellback, err)
    BY <1>1, KnownNow DEF Ordered
  <1>5. PICK e2, ad, g : e2 = err' /\ ad = acts' /\ g = heap'
    OBVIOUS
  <1>6. Len(ad) \in Nat /\ \A p \in (0 + 1)..Len(ad) : ~IsMaker(ad[p])
    BY <1>2, <1>5
  <1>7. 0 \in 0..Len(acts) /\ 0 <= Len(ad) /\ \A p \in 1..0 : ad[p] = acts[p]
    BY <1>4, <1>6
  <1>8. Order(g, ad, built, done, fellback, e2)
    BY <1>3, <1>4, <1>5, <1>6, <1>7, OrderPrefix
  <1>9. QED
    BY <1>1, <1>5, <1>8, OrderStays

-----------------------------------------------------------------------------
(* The internal constructors                                               *)

\* One more of them is called.
LEMMA InnerNext ==
    ASSUME prog \in Programs, NEW c \in Classes, NEW s, NEW a, InnerFits(c, s, a),
           a.todo \in Seq(Classes), a.todo # <<>>, NEW u, u.todo = Tail(a.todo)
    PROVE  InnerFits(c, Append(s, <<Head(a.todo), -1>>), u)
  <1>1. PICK t, w, d : t = a.todo /\ w = Len(t) /\ d = Depth(c)
    OBVIOUS
  <1>2. t \in Seq(Classes) /\ t # <<>>
    BY <1>1
  <1>3. /\ w \in Nat /\ w >= 1 /\ Len(Tail(t)) = w - 1 /\ Head(t) = t[1]
        /\ \A j \in 1..(w - 1) : Tail(t)[j] = t[j + 1]
    BY <1>1, <1>2
  <1>4. /\ w <= d /\ s = Inner(c, d - w)
        /\ \A j \in 1..w : t[j] = Up(c, d - w + j)
    BY <1>1 DEF InnerFits
  <1>5. d \in Nat
    BY <1>1, WithinSelf
  <1>6. PICK m : m = d - w
    OBVIOUS
  <1>7. m \in 0..d /\ m < d /\ d - (w - 1) = m + 1 /\ 1 \in 1..w
    BY <1>3, <1>4, <1>5, <1>6
  <1>8. Append(s, <<Up(c, m + 1), -1>>) = Inner(c, m + 1)
    BY <1>1, <1>4, <1>6, <1>7, InnerIs
  <1>9. Head(t) = Up(c, m + 1)
    BY <1>3, <1>4, <1>6, <1>7
  <1>10. ASSUME NEW j \in 1..(w - 1) PROVE Tail(t)[j] = Up(c, d - (w - 1) + j)
    <2>1. j + 1 \in 1..w /\ d - w + (j + 1) = d - (w - 1) + j
      BY <1>3, <1>5
    <2>2. QED
      BY <1>3, <1>4, <2>1
  <1>11. w - 1 <= d
    BY <1>3, <1>4, <1>5
  <1>12. Append(s, <<Head(t), -1>>) = Inner(c, d - (w - 1))
    BY <1>7, <1>8, <1>9
  <1>13. u.todo = Tail(t) /\ Depth(c) = d
    BY <1>1
  <1>14. QED
    BY <1>1, <1>3, <1>10, <1>11, <1>12, <1>13 DEF InnerFits

\* All of them have been called.
LEMMA InnerAll ==
    ASSUME prog \in Programs, NEW c \in Classes, NEW s, NEW a, InnerFits(c, s, a), a.todo = <<>>
    PROVE  s = Inner(c, Depth(c))
  <1>1. Depth(c) \in Nat /\ Len(a.todo) = 0
    BY WithinSelf
  <1>2. Depth(c) - 0 = Depth(c)
    BY <1>1
  <1>3. QED
    BY <1>1, <1>2 DEF InnerFits

\* No other constructor is one of them.
LEMMA NotInner ==
    ASSUME prog \in Programs, NEW c \in Classes, NEW s, s = Inner(c, Depth(c))
    PROVE  IsInjective(s) /\ \A x, m : m \in Nat => <<x, m>> \notin Range(s)
  <1>1. Depth(c) \in 0..Depth(c)
    BY WithinSelf
  <1>2. IsInjective(s) /\ \A y \in Range(s) : y[2] = -1
    BY <1>1, InnerIs
  <1>3. ASSUME NEW x, NEW m \in Nat, <<x, m>> \in Range(s) PROVE FALSE
    <2>1. PICK y : y = <<x, m>>
      OBVIOUS
    <2>2. y[2] = m /\ y \in Range(s)
      BY <1>3, <2>1
    <2>3. QED
      BY <1>2, <2>2
  <1>4. QED
    BY <1>2, <1>3

\* With all of them a construction starts.
LEMMA StartFits ==
    ASSUME prog \in Programs, NEW c \in Classes, NEW s, s = Inner(c, Depth(c)),
           NEW a, a.jsp = c, a.at = "base", a.argc \in Nat, NEW f, NEW e, NEW lo, NEW up
    PROVE  Constructing(c, s, f, e, a, lo, up)
  <1>1. IsInjective(s) /\ <<a.jsp, 0>> \notin Range(s) /\ <<a.jsp, a.argc>> \notin Range(s)
    BY NotInner
  <1>2. Within(c, a.jsp)
    BY WithinSelf
  <1>3. Once(c, s, a)
    BY <1>1 DEF Once
  <1>4. Reached(c, s, f, e, a, up)
    BY DEF Reached
  <1>5. QED
    BY <1>2, <1>3, <1>4 DEF Constructing, Follows

\* callInternalConstructors calls one, or starts the construction.
LEMMA InternalOrdered ==
    ASSUME Inv, Inv', Ordered, callInternalConstructors
    PROVE  Ordered'
  <1> DEFINE n == Len(acts)
             i == Top.inst
             c == heap[Top.inst].cls
             L == Len(heap)
  <1>1. /\ acts # <<>> /\ Top.k = "internal" /\ prog' = prog /\ done' = done /\ fellback' = fellback
    BY DEF callInternalConstructors, classVars
  <1>2. /\ n \in Nat /\ n >= 1 /\ Top = acts[n] /\ Top \in Acts(Classes, L) /\ L \in Nat
        /\ acts \in Seq(Acts(Classes, L)) /\ prog \in Programs /\ Known(heap, acts)
        /\ Order(heap, acts, built, done, fellback, err)
    BY <1>1, TopIs, InvSays, KnownNow DEF Fits, State, Ordered
  <1>3. Top \in Internals(Classes, L)
    BY <1>1, <1>2, ActTypes
  <1>4. /\ i \in 1..L /\ Top.todo \in Seq(Classes) /\ Len(Top.args) \in Nat /\ Top.args \in Seq(0..L)
        /\ DOMAIN Top = {"k", "inst", "todo", "args", "byhost"}
    BY <1>2, <1>3, InternalTypes
  <1>5. c \in Classes /\ heap \in Heaps(Classes, L)
    BY <1>4, InvSays
  <1>6. InnerFits(c, built[i], Top)
    <2>1. n \in 1..Len(acts)
      BY <1>2
    <2>2. MakerFits(heap, acts, built, fellback, err, n)
      BY <1>2, <2>1 DEF Order
    <2>3. QED
      BY <1>1, <1>2, <2>2 DEF MakerFits
  <1>7. IsMaker(acts[n])
    BY <1>1, <1>2 DEF IsMaker
  <1> HIDE DEF n, i, c, L
  <1>8. Len(Below) = n - 1 /\ \A p \in 1..(n - 1) : Below[p] = acts[p]
    <2>1. n - 1 \in 0..Len(acts)
      BY <1>2 DEF n
    <2>2. QED
      BY <1>2, <2>1, Slices DEF Below, n
  <1>9. CASE err # "NONE"
    <2>1. acts' = Below /\ heap' = heap /\ built' = built
      BY <1>9 DEF callInternalConstructors
    <2>2. Same(heap', heap)
      BY <2>1 DEF Same
    <2>3. PICK f : f = [k |-> "run"]
      OBVIOUS
    <2>4. ~IsMaker(f)
      BY <2>3 DEF IsMaker
    <2>5. Passes(acts, acts')
      BY <1>1, <1>2, <2>1, <2>4, WaysToPass DEF Below
    <2>6. QED
      BY <1>1, <2>1, <2>2, <2>5, TopmostKept
  <1>10. CASE err = "NONE" /\ Top.todo # <<>>
    <2> DEFINE x == <<Head(Top.todo), -1>>
               u == [Top EXCEPT !.todo = Tail(@)]
    <2>1. PICK f : f = Frame(Head(Top.todo), jsclassFindMethod(Head(Top.todo), <<Init0, 0>>),
                             <<Init0, 0>>, <<i>>, TRUE, Len(stack))
      OBVIOUS
    <2>2. /\ heap' = jsinstRef(heap, i) /\ built' = [built EXCEPT ![i] = Append(built[i], x)]
          /\ acts' = Append([acts EXCEPT ![n] = u], f)
      BY <1>2, <1>10, <2>1 DEF callInternalConstructors, n, i
    <2>3. ~IsMaker(f)
      BY <2>1 DEF Frame, IsMaker
    <2>4. u.k = "internal" /\ u.inst = i /\ u.todo = Tail(Top.todo)
      BY <1>1, <1>4 DEF i
    <2>5. Head(Top.todo) \in Classes
      <3>1. PICK q : q = Top.todo
        OBVIOUS
      <3>2. q \in Seq(Classes) /\ q # <<>>
        BY <1>4, <1>10, <3>1
      <3>3. Head(q) \in Classes
        BY <3>2
      <3>4. QED
        BY <3>1, <3>3
    <2>6. x \in Classes \X Int
      BY <2>5
    <2> HIDE DEF u
    <2>7. InnerFits(c, Append(built[i], x), u)
      BY <1>2, <1>4, <1>5, <1>6, <1>10, <2>4, InnerNext
    <2> HIDE DEF x
    <2>8. PICK g : g = heap'
      OBVIOUS
    <2>9. Len(g) = Len(heap) /\ \A j \in 1..Len(heap) : g[j].cls = heap[j].cls
      <3>1. i \in 0..L
        BY <1>2, <1>4
      <3>2. Same(heap', heap)
        BY <1>2, <1>5, <2>2, <3>1, RefTypes
      <3>3. QED
        BY <2>8, <3>2, AsLong
    <2>10. PICK ac, ad : ac = [acts EXCEPT ![n] = u] /\ ad = Append(ac, f)
      OBVIOUS
    <2>11. Len(ad) = n + 1 /\ ad[n] = u /\ (\A p \in 1..(n - 1) : ad[p] = acts[p]) /\ ad[n + 1] = f
      <3>1. DOMAIN acts = 1..n /\ n \in 1..n /\ n - 1 \in Nat
        BY <1>2 DEF n
      <3>2. DOMAIN ac = 1..n /\ ac[n] = u /\ \A p \in 1..(n - 1) : ac[p] = acts[p]
        BY <2>10, <3>1
      <3>3. ac = [p \in 1..n |-> ac[p]]
        BY <2>10, <3>1
      <3>4. Len(ac) = n /\ ac \in Seq({ac[p] : p \in 1..n})
        BY <1>2, <3>3
      <3>5. Len(ad) = n + 1 /\ ad[n + 1] = f /\ \A p \in 1..n : ad[p] = ac[p]
        BY <1>2, <2>10, <3>4
      <3>6. \A p \in 1..(n - 1) : p \in 1..n
        BY <1>2
      <3>7. QED
        BY <3>1, <3>2, <3>5, <3>6
    <2>12. PICK s, bb : s = Append(built[i], x) /\ bb = [built EXCEPT ![i] = s]
      OBVIOUS
    <2>13. Advances(heap, acts, built, fellback, g, ad, bb, fellback, u, s, i, n)
      <3>1. /\ n = Len(acts) /\ i = acts[n].inst /\ acts[n].k = "internal"
        BY <1>1, <1>2 DEF n, i
      <3>2. IsMaker(u) /\ u.inst = i
        BY <2>4 DEF IsMaker
      <3>3. \E y \in Classes \X Int : s = Append(built[i], y) /\ (acts[n].k = "construct" => y[1] = acts[n].jsp)
        BY <2>6, <2>12, <3>1
      <3>4. QED
        BY <1>2, <1>7, <2>3, <2>9, <2>11, <2>12, <3>1, <3>2, <3>3 DEF Advances
    <2>14. PICK e2 : e2 = err'
      OBVIOUS
    <2>15. Order(g, ad, bb, done, fellback, e2)
      <3>1. u.k = "internal" => InnerFits(heap[i].cls, s, u)
        BY <2>7, <2>12 DEF c, i
      <3>2. u.k # "construct"
        BY <2>4
      <3>3. QED
        BY <1>2, <2>13, <3>1, <3>2, OrderTop
    <2>16. g = heap' /\ ad = acts' /\ bb = built' /\ e2 = err'
      BY <2>2, <2>8, <2>10, <2>12, <2>14
    <2>17. QED
      BY <1>1, <2>15, <2>16, OrderStays
  <1>11. CASE err = "NONE" /\ Top.todo = <<>>
    <2>1. PICK u : /\ acts' = Append(Below, u) /\ u.inst = i /\ u.jsp = c /\ u.argc = Len(Top.args)
                   /\ u.k = "host" \/ (u.k = "construct" /\ u.at = "base" /\ ~Top.byhost)
      <3>1. CASE Top.byhost
        BY <1>11, <3>1 DEF callInternalConstructors, i, c
      <3>2. CASE ~Top.byhost
        BY <1>11, <3>2 DEF callInternalConstructors, i, c
      <3>3. QED
        BY <3>1, <3>2
    <2>2. /\ built' = built /\ heap' = jsinstRefs(heap, Top.args \o IF Top.byhost THEN <<i>> ELSE <<>>)
      BY <1>11 DEF callInternalConstructors, i
    <2>3. Same(heap', heap)
      <3> DEFINE V == 0..L
                 q == IF Top.byhost THEN <<i>> ELSE <<>>
      <3>1. <<i>> \in Seq(V) /\ <<>> \in Seq(V)
        BY <1>2, <1>4
      <3>2. Top.args \in Seq(V) /\ q \in Seq(V)
        BY <1>4, <3>1
      <3>3. heap' = jsinstRefs(heap, Top.args \o q)
        BY <2>2
      <3> HIDE DEF V, q
      <3>4. Top.args \o q \in Seq(V)
        BY <3>2, Joined
      <3>5. QED
        BY <1>2, <1>5, <3>3, <3>4, RefsTypes DEF V
    <2>4. built[i] = Inner(c, Depth(c))
      BY <1>2, <1>5, <1>6, <1>11, InnerAll
    <2>5. u.k = "construct" => n > 1
      <3>1. Bottom(Top) <=> Len(acts) = 1
        BY <1>1, TopIs
      <3>2. u.k = "construct" => ~Bottom(Top)
        BY <1>1, <2>1 DEF Bottom
      <3>3. ASSUME u.k = "construct" PROVE n > 1
        <4>1. n # 1
          BY <3>1, <3>2, <3>3 DEF n
        <4>2. QED
          BY <1>2, <4>1
      <3>4. QED
        BY <3>3
    <2>6. PICK g, ad, e2 : g = heap' /\ ad = acts' /\ e2 = err'
      OBVIOUS
    <2>7. Len(ad) = n /\ ad[n] = u /\ \A p \in 1..(n - 1) : ad[p] = acts[p]
      <3>1. n - 1 \in Nat /\ Below \in Seq(Acts(Classes, L))
        <4>1. n - 1 \in 0..Len(acts)
          BY <1>2 DEF n
        <4>2. QED
          BY <1>2, <4>1, Slices DEF Below, n
      <3>2. Len(Append(Below, u)) = (n - 1) + 1 /\ Append(Below, u)[(n - 1) + 1] = u
            /\ \A p \in 1..(n - 1) : Append(Below, u)[p] = Below[p]
        BY <1>8, <3>1
      <3>3. QED
        BY <1>2, <1>8, <2>1, <2>6, <3>2
    <2>8. Advances(heap, acts, built, fellback, g, ad, built, fellback, u, built[i], i, n)
      <3>1. /\ n = Len(acts) /\ i = acts[n].inst /\ acts[n].k = "internal"
        BY <1>1, <1>2 DEF n, i
      <3>2. IsMaker(u) /\ u.inst = i
        BY <2>1 DEF IsMaker
      <3>3. Len(g) = Len(heap) /\ \A j \in 1..Len(heap) : g[j].cls = heap[j].cls
        BY <2>3, <2>6, AsLong
      <3>4. built = [built EXCEPT ![i] = built[i]]
        <4>1. built \in Seq(Seq(Classes \X Int))
          BY <1>2 DEF Order
        <4>2. QED
          BY <4>1
      <3>5. Len(ad) \in {n, n + 1} /\ (Len(ad) = n + 1 => ~IsMaker(ad[n + 1]))
        BY <1>2, <2>7
      <3>6. QED
        BY <1>2, <1>7, <2>7, <3>1, <3>2, <3>3, <3>4, <3>5 DEF Advances
    <2>9. PICK lo, up, f : lo = acts[n - 1] /\ up = Upper(ad, n) /\ f = (i \in fellback)
      OBVIOUS
    <2>10. u.k = "construct" => Constructing(c, built[i], f, e2, u, lo, up)
      <3>1. u.argc \in Nat /\ u.jsp = c
        BY <1>4, <2>1
      <3>2. PICK v : v = built[i]
        OBVIOUS
      <3>3. v = Inner(c, Depth(c))
        BY <2>4, <3>2
      <3>4. u.k = "construct" => u.at = "base"
        BY <2>1
      <3>5. u.k = "construct" => Constructing(c, v, f, e2, u, lo, up)
        BY <1>2, <1>5, <3>1, <3>3, <3>4, StartFits
      <3>6. QED
        BY <3>2, <3>5
    <2>11. /\ u.k # "internal"
           /\ u.k = "construct" =>
                 n > 1 /\ Constructing(heap[i].cls, built[i], i \in fellback, e2, u, acts[n - 1], Upper(ad, n))
      <3>1. u.k # "internal"
        BY <2>1
      <3>2. QED
        BY <2>5, <2>9, <2>10, <3>1 DEF c, i
    <2>12. Order(g, ad, built, done, fellback, e2)
      BY <1>2, <2>8, <2>11, OrderTop
    <2>13. QED
      BY <1>1, <2>2, <2>6, <2>12, OrderStays
  <1>12. QED
    BY <1>9, <1>10, <1>11

-----------------------------------------------------------------------------
(* The constructors of the classes                                         *)

\* u is the construction a, at another place.
GoesTo(a, u, at) == u.jsp = a.jsp /\ u.inst = a.inst /\ u.argc = a.argc /\ u.at = at

\* v is the one of its base class.
GoesUp(a, v) == v.jsp = BaseOf(a.jsp) /\ v.inst = a.inst /\ v.argc = a.argc /\ v.at = "base"

\* A construction turns to its base class, or to its own constructor.
LEMMA TurnsFrom ==
    ASSUME NEW c, NEW s, NEW f, NEW e, NEW a, NEW lo, NEW up, Constructing(c, s, f, e, a, lo, up),
           a.at = "base", NEW u, GoesTo(a, u, "self"), NEW e2, NEW up2, up2 \in {"top", "construct"},
           up2 = "construct" \/ BaseOf(a.jsp) = None \/ e2 # "NONE"
    PROVE  Constructing(c, s, f, e2, u, lo, up2)
  <1>1. /\ Within(c, a.jsp) /\ Follows(c, f, a, lo) /\ Once(c, s, a) /\ Reached(c, s, f, e, a, up)
    BY DEF Constructing
  <1>2. u.jsp = a.jsp /\ u.inst = a.inst /\ u.argc = a.argc /\ u.at = "self"
    BY DEF GoesTo
  <1>3. Follows(c, f, u, lo)
    BY <1>1, <1>2 DEF Follows
  <1>4. Once(c, s, u)
    BY <1>1, <1>2 DEF Once
  <1>5. Reached(c, s, f, e2, u, up2)
    BY <1>1, <1>2 DEF Reached
  <1>6. QED
    BY <1>1, <1>2, <1>3, <1>4, <1>5 DEF Constructing

\* The base class is constructed within it.
LEMMA TurnsTo ==
    ASSUME prog \in Programs, NEW c \in Classes, NEW s, NEW f, NEW e, NEW a, NEW lo, NEW up,
           Constructing(c, s, f, e, a, lo, up), a.at = "base", a.argc \in Nat, BaseOf(a.jsp) # None,
           NEW u, GoesTo(a, u, "self"), u.k = "construct", NEW v, GoesUp(a, v), NEW e2
    PROVE  Constructing(c, s, f, e2, v, u, "top") /\ v.jsp \in Classes /\ Depth(v.jsp) < Depth(a.jsp)
  <1>0. v.jsp = BaseOf(a.jsp) /\ v.inst = a.inst /\ v.argc = a.argc /\ v.at = "base"
    BY DEF GoesUp
  <1> USE <1>0
  <1>1. /\ Within(c, a.jsp) /\ Once(c, s, a) /\ Reached(c, s, f, e, a, up)
    BY DEF Constructing
  <1>2. u.jsp = a.jsp /\ u.inst = a.inst /\ u.argc = a.argc /\ u.at = "self"
    BY DEF GoesTo
  <1>3. PICK x, y : x = a.jsp /\ y = BaseOf(a.jsp)
    OBVIOUS
  <1>4. /\ Within(c, y) /\ Depth(y) = Depth(x) - 1 /\ Depth(x) \in 1..Depth(c) /\ Depth(c) \in Nat
        /\ (Depth(x) = Depth(c) <=> x = c)
    BY <1>1, <1>3, WithinIs
  <1>5. /\ y \in Classes /\ Depth(y) \in 1..Depth(c) /\ (BaseOf(y) = None <=> Depth(y) = 1)
        /\ (Depth(y) = Depth(c) <=> y = c)
    BY <1>4, WithinIs
  <1>6. y # c /\ Depth(y) < Depth(x)
    BY <1>4, <1>5
  <1>7. Follows(c, f, v, u)
    BY <1>2 DEF Follows
  <1>8. Reached(c, s, f, e2, v, "top")
    BY <1>1 DEF Reached
  <1>9. Once(c, s, v)
    <2>1. ASSUME Depth(c) <= 3
          PROVE  /\ IsInjective(s)
                 /\ BaseOf(y) # None => /\ <<y, 0>> \notin Range(s)
                                        /\ <<y, a.argc>> \notin Range(s)
      <3>1. IsInjective(s)
        BY <1>1, <2>1 DEF Once
      <3>2. ASSUME BaseOf(y) # None PROVE <<y, 0>> \notin Range(s) /\ <<y, a.argc>> \notin Range(s)
        <4>1. Depth(x) = Depth(c)
          BY <1>4, <1>5, <2>1, <3>2
        <4>2. s = Inner(c, Depth(c))
          BY <1>1, <1>3, <1>4, <2>1, <4>1 DEF Once
        <4>3. QED
          BY <4>2, NotInner
      <3>3. QED
        BY <3>1, <3>2
    <2>2. v.jsp = y /\ v.jsp # c
      BY <1>3, <1>6
    <2>3. QED
      BY <2>1, <2>2 DEF Once
  <1>10. Constructing(c, s, f, e2, v, u, "top")
    BY <1>3, <1>4, <1>7, <1>8, <1>9 DEF Constructing
  <1>11. QED
    BY <1>3, <1>5, <1>6, <1>10

\* x is the constructor of the class, which is found.
HasOwn(c, s, a, x) ==
    /\ s \in Seq(Classes \X Int) /\ a.at = "self" /\ a.argc \in Nat
    /\ x = <<a.jsp, a.argc>> /\ jsclassFindMethod(c, x) # None

\* The constructor of the class is called.
LEMMA CallsOwn ==
    ASSUME ClassInv, Ready, Linked, Regular(prog), NEW c \in Classes, NEW s,
           NEW f, NEW a, NEW lo, Constructing(c, s, f, "NONE", a, lo, "top"),
           NEW x, HasOwn(c, s, a, x), NEW u, GoesTo(a, u, "called"), NEW e2, NEW up2
    PROVE  Constructing(c, Append(s, x), f, e2, u, lo, up2) /\ x \in Classes \X Int
  <1>e. PICK e : e = "NONE"
    OBVIOUS
  <1>0. /\ s \in Seq(Classes \X Int) /\ a.at = "self" /\ a.argc \in Nat
        /\ x = <<a.jsp, a.argc>> /\ jsclassFindMethod(c, x) # None
        /\ Constructing(c, s, f, e, a, lo, "top")
    BY <1>e DEF HasOwn
  <1> USE <1>0, <1>e
  <1>1. /\ Within(c, a.jsp) /\ Follows(c, f, a, lo) /\ Once(c, s, a) /\ Reached(c, s, f, e, a, "top")
    BY DEF Constructing
  <1>2. u.jsp = a.jsp /\ u.inst = a.inst /\ u.argc = a.argc /\ u.at = "called"
    BY DEF GoesTo
  <1>3. PICK y, m, t : y = a.jsp /\ m = a.argc /\ t = Append(s, x)
    OBVIOUS
  <1>4. x = <<y, m>> /\ m \in Nat /\ Within(c, y)
    BY <1>1, <1>3
  <1>5. BaseOf(y) # None
    <2>1. jsclassFindMethod(c, <<y, m>>) # None
      BY <1>4
    <2>2. QED
      BY <1>4, <2>1, FoundIs
  <1>6. Ctors(c, m)[Depth(y)] = Append(Ctors(c, m)[Depth(y) - 1], x)
    <2>1. Ctors(c, m)[Depth(y)] = IF jsclassFindMethod(c, <<y, m>>) = None
                                      THEN Ctors(c, m)[Depth(y) - 1]
                                      ELSE Append(Ctors(c, m)[Depth(y) - 1], <<y, m>>)
      BY <1>4, CtorsOf
    <2>2. QED
      BY <1>4, <2>1
  <1>7. x \in Classes \X Int
    BY <1>4, <1>1 DEF Within
  <1>8. Range(t) = Range(s) \cup {x} /\ (IsInjective(s) /\ x \notin Range(s) => IsInjective(t))
    <2>1. PICK S : S = Classes \X Int
      OBVIOUS
    <2>2. s \in Seq(S) /\ x \in S
      BY <1>7, <2>1
    <2>3. QED
      BY <1>3, <2>2, OneAdded
  <1>9. Follows(c, f, u, lo)
    BY <1>1, <1>2 DEF Follows
  <1>10. Reached(c, t, f, e2, u, up2)
    <2>1. ASSUME ~f PROVE t = Ctors(c, m)[Depth(y)]
      <3>1. s = Ctors(c, m)[Depth(y) - 1]
        BY <1>1, <1>3, <1>5, <2>1 DEF Reached
      <3>2. QED
        BY <1>3, <1>6, <3>1
    <2>2. u.jsp = y /\ u.argc = m /\ u.at = "called"
      BY <1>2, <1>3
    <2>3. QED
      BY <1>5, <2>1, <2>2 DEF Reached
  <1>11. Once(c, t, u)
    <2>1. ASSUME Depth(c) <= 3 PROVE IsInjective(t) /\ (m # 0 => <<y, 0>> \notin Range(t))
      <3>1. IsInjective(s) /\ x \notin Range(s) /\ <<y, 0>> \notin Range(s)
        BY <1>1, <1>3, <1>5, <2>1 DEF Once
      <3>2. m # 0 => <<y, 0>> # x
        BY <1>4
      <3>3. QED
        BY <1>8, <3>1, <3>2
    <2>2. u.jsp = y /\ u.argc = m /\ u.at = "called"
      BY <1>2, <1>3
    <2>3. QED
      BY <2>1, <2>2 DEF Once
  <1>12. Constructing(c, t, f, e2, u, lo, up2)
    BY <1>1, <1>2, <1>9, <1>10, <1>11 DEF Constructing
  <1>13. QED
    BY <1>3, <1>7, <1>12

\* The class has none.
LEMMA HasNone ==
    ASSUME ClassInv, Ready, Linked, Regular(prog), NEW c \in Classes, NEW s, NEW f, NEW e, NEW a, NEW lo,
           Constructing(c, s, f, e, a, lo, "top"), a.at = "self", e = "NONE", a.argc \in Nat,
           jsclassFindMethod(c, <<a.jsp, a.argc>>) = None, NEW u, GoesTo(a, u, "called"), NEW e2, NEW up2
    PROVE  Constructing(c, s, f, e2, u, lo, up2)
  <1>1. /\ Within(c, a.jsp) /\ Follows(c, f, a, lo) /\ Once(c, s, a) /\ Reached(c, s, f, e, a, "top")
    BY DEF Constructing
  <1>2. u.jsp = a.jsp /\ u.inst = a.inst /\ u.argc = a.argc /\ u.at = "called"
    BY DEF GoesTo
  <1>3. PICK y, m : y = a.jsp /\ m = a.argc
    OBVIOUS
  <1>4. m \in Nat /\ Within(c, y) /\ jsclassFindMethod(c, <<y, m>>) = None
    BY <1>1, <1>3
  <1>5. Ctors(c, m)[Depth(y)] = Ctors(c, m)[Depth(y) - 1]
    <2>1. Ctors(c, m)[Depth(y)] = IF jsclassFindMethod(c, <<y, m>>) = None
                                      THEN Ctors(c, m)[Depth(y) - 1]
                                      ELSE Append(Ctors(c, m)[Depth(y) - 1], <<y, m>>)
      BY <1>4, CtorsOf
    <2>2. QED
      BY <1>4, <2>1
  <1>6. Follows(c, f, u, lo)
    BY <1>1, <1>2 DEF Follows
  <1>7. Reached(c, s, f, e2, u, up2)
    <2>1. ~f /\ BaseOf(y) # None => s = Ctors(c, m)[Depth(y) - 1]
      BY <1>1, <1>3 DEF Reached
    <2>2. ~f /\ BaseOf(y) = None => s = Inner(c, Depth(c))
      BY <1>1, <1>3 DEF Reached
    <2>3. u.jsp = y /\ u.argc = m /\ u.at = "called"
      BY <1>2, <1>3
    <2>4. QED
      BY <1>5, <2>1, <2>2, <2>3 DEF Reached
  <1>8. Once(c, s, u)
    BY <1>1, <1>2 DEF Once
  <1>9. QED
    BY <1>1, <1>2, <1>6, <1>7, <1>8 DEF Constructing

\* It is tried again without arguments.
LEMMA TriesAgain ==
    ASSUME NEW c, NEW s, NEW f, NEW e, NEW a, NEW lo, NEW up, Constructing(c, s, f, e, a, lo, up),
           a.at = "called", a.jsp # c, a.argc # 0, NEW f2, f2 <=> f \/ BaseOf(a.jsp) # None,
           NEW u, u.jsp = a.jsp, u.inst = a.inst, u.argc = 0, u.at = "base", NEW e2, NEW up2
    PROVE  Constructing(c, s, f2, e2, u, lo, up2)
  <1>1. /\ Within(c, a.jsp) /\ Follows(c, f, a, lo) /\ Once(c, s, a) /\ Reached(c, s, f, e, a, up)
    BY DEF Constructing
  <1>2. Follows(c, f2, u, lo)
    BY <1>1 DEF Follows
  <1>3. Reached(c, s, f2, e2, u, up2)
    BY <1>1 DEF Reached
  <1>4. Once(c, s, u)
    BY <1>1 DEF Once
  <1>5. QED
    BY <1>1, <1>2, <1>3, <1>4 DEF Constructing

\* What is known of a construction that is on top
LEMMA TopMakes ==
    ASSUME Inv, Ordered, acts # <<>>, Top.k = "construct"
    PROVE  /\ Len(acts) \in Nat /\ Len(acts) > 1 /\ Top = acts[Len(acts)] /\ prog \in Programs /\ Ready /\ ClassInv
           /\ Known(heap, acts) /\ Order(heap, acts, built, done, fellback, err)
           /\ Top.inst \in 1..Len(heap) /\ Top.jsp \in Classes /\ Top.argc \in Nat
           /\ Top \in Constructs(Classes, Len(heap)) /\ DOMAIN Top = {"k", "inst", "jsp", "argc", "at"}
           /\ heap[Top.inst].cls \in Classes /\ built[Top.inst] \in Seq(Classes \X Int)
           /\ built \in Seq(Seq(Classes \X Int)) /\ Len(built) = Len(heap)
           /\ acts \in Seq(Acts(Classes, Len(heap))) /\ Len(heap) \in Nat
           /\ Constructing(heap[Top.inst].cls, built[Top.inst], Top.inst \in fellback, err, Top,
                           acts[Len(acts) - 1], "top")
  <1> DEFINE n == Len(acts)
             i == Top.inst
             L == Len(heap)
  <1>1. /\ n \in Nat /\ n \in 1..n /\ Top = acts[n] /\ Ready /\ ClassInv /\ L \in Nat
        /\ Top \in Acts(Classes, L)
    BY TopIs
  <1>2. prog \in Programs /\ acts \in Seq(Acts(Classes, L)) /\ \A j \in 1..L : heap[j].cls \in Classes
    BY InvSays DEF Fits, State
  <1>3. Top \in Constructs(Classes, L)
    BY <1>1, ActTypes
  <1>4. /\ i \in 1..L /\ Top.jsp \in Classes /\ Top.argc \in Nat
        /\ DOMAIN Top = {"k", "inst", "jsp", "argc", "at"}
    BY <1>1, <1>3, WaitTypes
  <1>5. Known(heap, acts) /\ Order(heap, acts, built, done, fellback, err)
    BY KnownNow DEF Ordered
  <1>6. built \in Seq(Seq(Classes \X Int)) /\ Len(built) = L
    BY <1>5 DEF Order
  <1>7. built[i] \in Seq(Classes \X Int)
    <2>1. PICK S, b : S = Seq(Classes \X Int) /\ b = built
      OBVIOUS
    <2>2. b \in Seq(S) /\ i \in 1..Len(b)
      BY <1>4, <1>6, <2>1
    <2>3. b[i] \in S
      BY <2>2
    <2>4. QED
      BY <2>1, <2>3
  <1>8. MakerFits(heap, acts, built, fellback, err, n)
    BY <1>1, <1>5 DEF Order
  <1>9. Upper(acts, n) = "top"
    BY <1>1 DEF Upper
  <1>10. n > 1 /\ Constructing(heap[i].cls, built[i], i \in fellback, err, Top, acts[n - 1], "top")
    BY <1>1, <1>8, <1>9 DEF MakerFits
  <1>11. QED
    BY <1>1, <1>2, <1>3, <1>4, <1>5, <1>6, <1>7, <1>10

\* It goes on as u, and may call a frame.
Renewed(u) == [acts EXCEPT ![Len(acts)] = u]

Calling(u, v) == Append(Renewed(u), v)

\* What the construction that calls its next constructor leaves of the lists
TopIsNow(u, v) ==
    /\ Len(Renewed(u)) = Len(acts) /\ Renewed(u)[Len(acts)] = u
    /\ (\A p \in 1..(Len(acts) - 1) : Renewed(u)[p] = acts[p])
    /\ Len(Calling(u, v)) = Len(acts) + 1
    /\ Calling(u, v)[Len(acts)] = u /\ Calling(u, v)[Len(acts) + 1] = v
    /\ (\A p \in 1..(Len(acts) - 1) : Calling(u, v)[p] = acts[p])
    /\ (\A p \in 1..Len(acts) : Calling(u, v)[p] = Renewed(u)[p])

\* Only the top construction changes, and the frame it calls goes above it.
LEMMA RenewedIs ==
    ASSUME Inv, acts # <<>>, NEW u, NEW v
    PROVE  TopIsNow(u, v)
  <1>1. PICK n, ac, ad : n = Len(acts) /\ ac = Renewed(u) /\ ad = Append(ac, v)
    OBVIOUS
  <1>2. DOMAIN acts = 1..n /\ n \in 1..n /\ n \in Nat /\ n - 1 \in Nat
    <2>1. acts \in Seq(Acts(Classes, Len(heap))) /\ Len(acts) > 0
      BY InvSays DEF Fits, State
    <2>2. QED
      BY <1>1, <2>1
  <1>3. DOMAIN ac = 1..n /\ ac[n] = u /\ \A p \in 1..(n - 1) : ac[p] = acts[p]
    BY <1>1, <1>2 DEF Renewed
  <1>4. ac = [p \in 1..n |-> ac[p]]
    BY <1>1, <1>2 DEF Renewed
  <1>5. Len(ac) = n /\ ac \in Seq({ac[p] : p \in 1..n})
    BY <1>2, <1>4
  <1>6. Len(ad) = n + 1 /\ ad[n + 1] = v /\ \A p \in 1..n : ad[p] = ac[p]
    BY <1>1, <1>2, <1>5
  <1>7. \A p \in 1..(n - 1) : p \in 1..n
    BY <1>2
  <1>8. QED
    BY <1>1, <1>2, <1>3, <1>5, <1>6, <1>7 DEF Calling, TopIsNow

\* A construction goes on.
LEMMA MakesOn ==
    ASSUME Inv, Ordered, acts # <<>>, Top.k = "construct",
           NEW u, u.k = "construct", u.inst = Top.inst, u.jsp = Top.jsp,
           NEW s, s = built[Top.inst] \/ \E x \in Classes \X Int : s = Append(built[Top.inst], x) /\ x[1] = Top.jsp,
           NEW g, Len(g) = Len(heap), \A j \in 1..Len(heap) : g[j].cls = heap[j].cls,
           NEW fc, fellback \subseteq fc, fc \subseteq fellback \cup {Top.inst},
           NEW v, ~IsMaker(v), NEW ad, NEW up,
           (ad = Renewed(u) /\ up = "top") \/ (ad = Calling(u, v) /\ up = v.k),
           NEW e2, Constructing(heap[Top.inst].cls, s, Top.inst \in fc, e2, u, acts[Len(acts) - 1], up)
    PROVE  Order(g, ad, [built EXCEPT ![Top.inst] = s], done, fc, e2)
  <1>1. PICK n, i : n = Len(acts) /\ i = Top.inst
    OBVIOUS
  <1>2. /\ n \in Nat /\ n > 1 /\ n >= 1 /\ Top = acts[n] /\ prog \in Programs /\ Known(heap, acts)
        /\ Order(heap, acts, built, done, fellback, err) /\ acts \in Seq(Acts(Classes, Len(heap)))
    BY <1>1, TopMakes
  <1>3. /\ ad = Renewed(u) => Len(ad) = n /\ ad[n] = u /\ \A p \in 1..(n - 1) : ad[p] = acts[p]
        /\ ad = Calling(u, v) =>
              /\ Len(ad) = n + 1 /\ ad[n] = u /\ ad[n + 1] = v /\ \A p \in 1..(n - 1) : ad[p] = acts[p]
    <2>3. /\ Len(Renewed(u)) = Len(acts) /\ Renewed(u)[Len(acts)] = u
          /\ \A p \in 1..(Len(acts) - 1) : Renewed(u)[p] = acts[p]
          /\ Len(Calling(u, v)) = Len(acts) + 1
          /\ Calling(u, v)[Len(acts)] = u /\ Calling(u, v)[Len(acts) + 1] = v
          /\ \A p \in 1..(Len(acts) - 1) : Calling(u, v)[p] = acts[p]
      <3>1. TopIsNow(u, v)
        BY RenewedIs
      <3>2. QED
        BY <3>1 DEF TopIsNow
    <2>4. QED
      BY <1>1, <2>3
  <1>4. Len(ad) \in {n, n + 1} /\ ad[n] = u /\ (\A p \in 1..(n - 1) : ad[p] = acts[p])
        /\ (Len(ad) = n + 1 => ~IsMaker(ad[n + 1]))
    BY <1>2, <1>3
  <1>5. Upper(ad, n) = up
    BY <1>2, <1>3 DEF Upper
  <1>6. IsMaker(acts[n]) /\ IsMaker(u)
    BY <1>2 DEF IsMaker
  <1>7. PICK bb : bb = [built EXCEPT ![Top.inst] = s]
    OBVIOUS
  <1>8. Advances(heap, acts, built, fellback, g, ad, bb, fc, u, s, i, n)
    <2>1. /\ n = Len(acts) /\ n >= 1 /\ i = acts[n].inst /\ u.inst = i
          /\ (acts[n].k = "construct" => u.k = "construct" /\ u.jsp = acts[n].jsp)
      BY <1>1, <1>2
    <2>2. \/ s = built[i]
          \/ \E x \in Classes \X Int : s = Append(built[i], x) /\ (acts[n].k = "construct" => x[1] = acts[n].jsp)
      BY <1>1, <1>2
    <2>3. bb = [built EXCEPT ![i] = s] /\ fellback \subseteq fc /\ fc \subseteq fellback \cup {i}
      BY <1>1, <1>7
    <2>4. QED
      BY <1>4, <1>6, <2>1, <2>2, <2>3 DEF Advances
  <1>9. /\ u.k = "internal" => InnerFits(heap[i].cls, s, u)
        /\ u.k = "construct" =>
              n > 1 /\ Constructing(heap[i].cls, s, i \in fc, e2, u, acts[n - 1], Upper(ad, n))
    BY <1>1, <1>2, <1>5
  <1>10. Order(g, ad, bb, done, fc, e2)
    BY <1>2, <1>8, <1>9, OrderTop
  <1>11. QED
    BY <1>7, <1>10

\* What goes on as itself, or as at another place
LEMMA GoingIs ==
    ASSUME NEW C, NEW n \in Nat, NEW t \in Constructs(C, n), NEW v \in {"base", "self", "called"}
    PROVE  GoesTo(t, Going(t, v), v) /\ Going(t, v).k = "construct"
  <1>1. t.k = "construct" /\ DOMAIN t = {"k", "inst", "jsp", "argc", "at"}
    BY WaitTypes
  <1>2. QED
    BY <1>1 DEF GoesTo, Going

\* OP_CONSTRUCT starts with the base class.
LEMMA BaseOrdered ==
    ASSUME Inv, Inv', Ordered, ConstructBase
    PROVE  Ordered'
  <1> DEFINE n == Len(acts)
             i == Top.inst
             c == heap[Top.inst].cls
             u == Going(Top, "self")
             s == built[Top.inst]
  <1>1. /\ acts # <<>> /\ Top.k = "construct" /\ Top.at = "base" /\ err = "NONE" /\ err' = err
        /\ prog' = prog /\ heap' = heap /\ built' = built /\ done' = done /\ fellback' = fellback
    BY DEF ConstructBase, classVars, history
  <1>2. /\ n \in Nat /\ n > 1 /\ n >= 1 /\ Top = acts[n] /\ prog \in Programs /\ Ready /\ ClassInv
        /\ Known(heap, acts) /\ i \in 1..Len(heap) /\ Len(heap) \in Nat
        /\ Top.jsp \in Classes /\ Top.argc \in Nat /\ Top \in Constructs(Classes, Len(heap))
        /\ DOMAIN Top = {"k", "inst", "jsp", "argc", "at"} /\ c \in Classes
        /\ built \in Seq(Seq(Classes \X Int))
        /\ Constructing(c, s, i \in fellback, err, Top, acts[n - 1], "top")
    BY <1>1, TopMakes
  <1>3. GoesTo(Top, u, "self") /\ u.k = "construct"
    BY <1>2, GoingIs
  <1>4. u.inst = i /\ u.jsp = Top.jsp /\ u.at = "self"
    BY <1>3 DEF GoesTo
  <1>5. link[Top.jsp] = BaseOf(Top.jsp)
    BY <1>2, FindsNearest
  <1>6. built = [built EXCEPT ![i] = s]
    BY <1>2
  <1>7. Renewed(u) = [acts EXCEPT ![Len(acts)].at = "self"]
    BY <1>2 DEF Renewed, Going
  <1>8. PICK v : v = [k |-> "run"]
    OBVIOUS
  <1>9. ~IsMaker(v)
    BY <1>8 DEF IsMaker
  <1>10. PICK f, lo : f = (i \in fellback) /\ lo = acts[n - 1]
    OBVIOUS
  <1> HIDE DEF u, s, c
  <1>11. CASE BaseOf(Top.jsp) = None
    <2>1. acts' = Renewed(u)
      BY <1>1, <1>5, <1>7, <1>11 DEF ConstructBase
    <2>2. Constructing(c, s, f, err, u, lo, "top")
      <3>1. Constructing(c, s, f, err, Top, lo, "top")
        BY <1>2, <1>10
      <3>2. PICK t : t = Top
        OBVIOUS
      <3>3. Constructing(c, s, f, err, t, lo, "top") /\ t.at = "base" /\ GoesTo(t, u, "self") /\ BaseOf(t.jsp) = None
        BY <1>1, <1>3, <1>11, <3>1, <3>2
      <3>4. QED
        BY <3>3, TurnsFrom
    <2>3. Order(heap, Renewed(u), [built EXCEPT ![i] = s], done, fellback, err)
      BY <1>1, <1>2, <1>3, <1>4, <1>9, <1>10, <2>2, MakesOn DEF s, c
    <2>4. QED
      BY <1>1, <1>6, <2>1, <2>3, OrderStays
  <1>12. CASE BaseOf(Top.jsp) # None
    <2> DEFINE w == GoingFor(Top, link[Top.jsp])
               ac == Renewed(u)
               ad == Calling(u, w)
    <2>1. acts' = ad
      BY <1>1, <1>5, <1>7, <1>12 DEF ConstructBase, GoingFor, Calling
    <2>2. w.k = "construct" /\ w.inst = i /\ w.argc = Top.argc /\ w.jsp = BaseOf(Top.jsp) /\ w.at = "base"
      BY <1>1, <1>2, <1>5 DEF GoingFor
    <2> HIDE DEF w
    <2>3. PICK t : t = Top
      OBVIOUS
    <2>4. Constructing(c, s, f, err, t, lo, "top") /\ t.at = "base" /\ GoesTo(t, u, "self")
          /\ BaseOf(t.jsp) # None /\ t.argc \in Nat
      BY <1>1, <1>2, <1>3, <1>10, <1>12, <2>3
    <2>5. Constructing(c, s, f, "RUN", u, lo, "top")
      BY <2>4, TurnsFrom
    <2>6. Order(heap, ac, [built EXCEPT ![i] = s], done, fellback, "RUN")
      BY <1>1, <1>2, <1>3, <1>4, <1>9, <1>10, <2>5, MakesOn DEF s, c
    <2>7. Constructing(c, s, f, "NONE", w, u, "top") /\ w.jsp \in Classes /\ Depth(w.jsp) < Depth(t.jsp)
      <3>1. GoesUp(t, w)
        BY <2>2, <2>3 DEF GoesUp
      <3>2. prog \in Programs /\ c \in Classes /\ u.k = "construct"
        BY <1>2, <1>3
      <3>3. QED
        BY <2>4, <3>1, <3>2, TurnsTo
    <2>8. TopIsNow(u, w)
      BY <1>1, RenewedIs
    <2>9. /\ Len(ac) = n /\ ac[n] = u /\ Len(ad) = n + 1 /\ ad[n + 1] = w
          /\ (\A p \in 1..n : ad[p] = ac[p]) /\ (\A p \in 1..(n - 1) : ac[p] = acts[p])
      BY <2>8 DEF TopIsNow
    <2> HIDE DEF ac, ad
    <2>10. Known(heap, ac)
      <3>1. ASSUME NEW p \in 1..n PROVE Seated(Len(heap), ac[p])
        <4>1. CASE p = n
          <5>1. ac[p] = u /\ u.k = "construct" /\ u.inst \in 1..Len(heap) /\ u.jsp \in Classes
                /\ u.argc \in Nat /\ u.at \in {"base", "self", "called"}
            BY <1>2, <1>3, <1>4, <2>9, <4>1 DEF GoesTo
          <5>2. QED
            BY <5>1 DEF Seated
        <4>2. CASE p # n
          <5>1. p \in 1..(n - 1) /\ p \in 1..Len(acts)
            BY <1>2, <4>2
          <5>2. QED
            BY <1>2, <2>9, <5>1 DEF Known
        <4>3. QED
          BY <4>1, <4>2
      <3>2. QED
        BY <1>2, <2>9, <3>1 DEF Known
    <2>11. Pushes(heap, ac, built, fellback, ad, w, "NONE", n)
      <3>1. Depth(w.jsp) < Depth(ac[n].jsp)
        BY <1>4, <2>3, <2>7, <2>9
      <3>2. Constructing(heap[w.inst].cls, built[w.inst], w.inst \in fellback, "NONE", w, ac[n], "top")
        BY <1>10, <2>2, <2>7, <2>9 DEF s, c
      <3>3. /\ n = Len(ac) /\ n >= 1 /\ ac[n].k = "construct" /\ ac[n].at = "self"
            /\ w.k = "construct" /\ w.inst = ac[n].inst /\ w.jsp \in Classes
        BY <1>2, <1>3, <1>4, <2>2, <2>7, <2>9
      <3>4. QED
        BY <2>9, <3>1, <3>2, <3>3 DEF Pushes
    <2>12. Order(heap, ac, built, done, fellback, "RUN")
      BY <1>6, <2>6
    <2>13. Order(heap, ad, built, done, fellback, "NONE")
      BY <1>2, <2>10, <2>11, <2>12, OrderPush
    <2>14. QED
      BY <1>1, <2>1, <2>13, OrderStays
  <1>13. QED
    BY <1>11, <1>12

\* What a construction that ends has reached is what the one below it needs.
LEMMA BelowReached ==
    ASSUME Inv, Ordered, Linked, Regular(prog), acts # <<>>, Top.k = "construct",
           NEW e2, Top.at = "called" \/ e2 # "NONE",
           NEW a, a = acts[Len(acts) - 1], a.k = "construct", a.at = "self"
    PROVE  Reached(heap[a.inst].cls, built[a.inst], a.inst \in fellback, e2, a, "top")
  <1> DEFINE n == Len(acts)
  <1>1. /\ n \in Nat /\ n > 1 /\ Top = acts[n] /\ prog \in Programs /\ Ready /\ ClassInv
        /\ Known(heap, acts) /\ Order(heap, acts, built, done, fellback, err)
        /\ Top.inst \in 1..Len(heap) /\ Top.jsp \in Classes /\ Top.argc \in Nat
        /\ heap[Top.inst].cls \in Classes
        /\ Constructing(heap[Top.inst].cls, built[Top.inst], Top.inst \in fellback, err, Top,
                        acts[n - 1], "top")
    BY TopMakes
  <1>2. PICK t, i, c, s, f : /\ t = Top /\ i = Top.inst /\ c = heap[Top.inst].cls /\ s = built[Top.inst]
                             /\ f = (Top.inst \in fellback)
    OBVIOUS
  <1>3. Constructing(c, s, f, err, t, a, "top") /\ c \in Classes /\ (t.at = "called" \/ e2 # "NONE")
    BY <1>1, <1>2
  <1>4. Within(c, t.jsp) /\ Follows(c, f, t, a) /\ Reached(c, s, f, err, t, "top")
    BY <1>1, <1>2 DEF Constructing
  <1>5. t.jsp # c
    <2>1. Depths[Top.jsp] < Depths[heap[Top.inst].cls]
      BY TopIs
    <2>2. \A x \in Classes : Depths[x] \in Nat
      BY <1>1, WithinSelf DEF Depths, Depth
    <2>3. PICK y, z : y = Depths[t.jsp] /\ z = Depths[c]
      OBVIOUS
    <2>4. y \in Nat /\ z \in Nat /\ y < z
      BY <1>1, <1>2, <2>1, <2>2, <2>3
    <2>5. y # z
      BY <2>4
    <2>6. QED
      BY <2>3, <2>5
  <1>6. a.inst = t.inst /\ BaseOf(a.jsp) = t.jsp /\ (BaseOf(t.jsp) # None /\ ~f => t.argc = a.argc)
    BY <1>4, <1>5 DEF Follows
  <1>7. a.inst = i
    BY <1>2, <1>6
  <1>8. n - 1 \in 1..Len(acts)
    BY <1>1
  <1>9. Within(c, a.jsp) /\ a.argc \in Nat
    <2>1. MakerFits(heap, acts, built, fellback, err, n - 1) /\ Seated(Len(heap), acts[n - 1])
      BY <1>1, <1>8 DEF Order, Known
    <2>2. Constructing(heap[a.inst].cls, built[a.inst], a.inst \in fellback, err, a, acts[n - 1 - 1], Upper(acts, n - 1))
      BY <2>1 DEF MakerFits
    <2>3. Within(heap[a.inst].cls, a.jsp)
      BY <2>2 DEF Constructing
    <2>4. QED
      BY <1>2, <1>7, <2>1, <2>3 DEF Seated
  <1>10. PICK x, y : x = a.jsp /\ y = t.jsp
    OBVIOUS
  <1>11. BaseOf(x) = y /\ y \in Classes /\ None \notin Classes
    BY <1>1, <1>2, <1>6, <1>10, DeclTypes DEF Classes
  <1>12. Depth(y) = Depth(x) - 1 /\ Within(c, y) /\ (BaseOf(y) = None <=> Depth(y) = 1)
    <2>1. Within(c, x) /\ Within(c, y) /\ BaseOf(x) # None
      BY <1>4, <1>9, <1>10, <1>11
    <2>2. Depth(BaseOf(x)) = Depth(x) - 1
      BY <1>1, <1>3, <2>1, WithinIs
    <2>3. BaseOf(y) = None <=> Depth(y) = 1
      BY <1>1, <1>3, <2>1, WithinIs
    <2>4. QED
      BY <1>11, <2>1, <2>2, <2>3
  <1>13. ASSUME e2 = "NONE", ~f PROVE s = Ctors(c, a.argc)[Depth(x) - 1]
    <2>1. t.at = "called"
      BY <1>3, <1>13
    <2>2. CASE BaseOf(y) # None
      <3>1. s = Ctors(c, t.argc)[Depth(y)]
        BY <1>4, <1>10, <1>13, <2>1, <2>2 DEF Reached
      <3>2. t.argc = a.argc
        BY <1>6, <1>10, <1>13, <2>2
      <3>3. QED
        BY <1>12, <3>1, <3>2
    <2>3. CASE BaseOf(y) = None
      <3>1. s = Inner(c, Depth(c))
        BY <1>4, <1>10, <1>13, <2>3 DEF Reached
      <3>2. Ctors(c, a.argc)[1] = Inner(c, Depth(c))
        BY <1>1, <1>3, <1>9, <1>12, CtorsOf
      <3>3. QED
        BY <1>12, <2>3, <3>1, <3>2
    <2>4. QED
      BY <2>2, <2>3
  <1>14. Reached(c, s, f, e2, a, "top")
    <2>1. BaseOf(a.jsp) # None
      BY <1>10, <1>11
    <2>2. ~f /\ e2 = "NONE" => s = Ctors(c, a.argc)[Depth(a.jsp) - 1]
      BY <1>10, <1>13
    <2>3. QED
      BY <2>1, <2>2 DEF Reached
  <1>15. QED
    BY <1>2, <1>7, <1>14

\* A construction ends.
LEMMA PopOrders ==
    ASSUME Inv, Ordered, Linked, Regular(prog), acts # <<>>, Top.k = "construct",
           NEW e2, Top.at = "called" \/ e2 # "NONE",
           NEW g, Len(g) = Len(heap), \A j \in 1..Len(heap) : g[j].cls = heap[j].cls
    PROVE  Order(g, Below, built, done, fellback, e2)
  <1>1. PICK n, k : n = Len(acts) /\ k = Len(acts) - 1
    OBVIOUS
  <1>2. /\ n \in Nat /\ n > 1 /\ Known(heap, acts) /\ Order(heap, acts, built, done, fellback, err)
        /\ acts \in Seq(Acts(Classes, Len(heap)))
    BY <1>1, TopMakes
  <1>3. PICK ad : ad = Below
    OBVIOUS
  <1>4. k \in 0..Len(acts) /\ k \in 1..Len(acts) /\ k \in Nat
    BY <1>1, <1>2
  <1>5. Len(ad) = k /\ \A p \in 1..k : ad[p] = acts[p]
    BY <1>1, <1>2, <1>3, <1>4, Slices DEF Below
  <1>6. \A p \in (k + 1)..Len(ad) : ~IsMaker(ad[p])
    BY <1>4, <1>5
  <1>7. PICK a : a = acts[k]
    OBVIOUS
  <1>8. a.k = "construct" /\ a.at = "self" =>
            Reached(heap[a.inst].cls, built[a.inst], a.inst \in fellback, e2, a, "top")
    <2>1. a = acts[Len(acts) - 1]
      BY <1>1, <1>7
    <2>2. QED
      BY <2>1, BelowReached
  <1>9. k >= 1 /\ acts[k].k = "construct" /\ acts[k].at = "self" =>
            Len(ad) = k /\ Reached(heap[acts[k].inst].cls, built[acts[k].inst], acts[k].inst \in fellback,
                                   e2, acts[k], "top")
    BY <1>5, <1>7, <1>8
  <1>10. Len(ad) \in Nat /\ k <= Len(ad) /\ k \in 0..Len(acts)
    BY <1>4, <1>5
  <1>11. Order(g, ad, built, done, fellback, e2)
    <2>1. Order(heap, acts, built, done, fellback, err) /\ Known(heap, acts)
      BY <1>2
    <2>2. \A p \in 1..k : ad[p] = acts[p]
      BY <1>5
    <2>3. QED
      BY <1>6, <1>9, <1>10, <2>1, <2>2, OrderPrefix
  <1>12. QED
    BY <1>3, <1>11

\* OP_CONSTRUCT calls the constructor of the class, or gives up.
LEMMA SelfOrdered ==
    ASSUME Inv, Inv', Ordered, Linked, Regular(prog), ConstructSelf
    PROVE  Ordered'
  <1> DEFINE n == Len(acts)
             i == Top.inst
             c == heap[Top.inst].cls
             u == Going(Top, "called")
             s == built[Top.inst]
  <1>1. /\ acts # <<>> /\ Top.k = "construct" /\ Top.at = "self" /\ prog' = prog /\ done' = done
        /\ IF err = "NONE"
           THEN EnterConstructor([acts EXCEPT ![Len(acts)].at = "called"],
                                 jsinstRef(heap, Top.inst), Top.inst, <<Top.jsp, Top.argc>>)
           ELSE acts' = Below /\ UNCHANGED <<heap, stack, err, built, history>>
    BY DEF ConstructSelf, classVars
  <1>2. /\ n \in Nat /\ n > 1 /\ Top = acts[n] /\ Ready /\ ClassInv
        /\ i \in 1..Len(heap) /\ Len(heap) \in Nat
        /\ Top.jsp \in Classes /\ Top.argc \in Nat /\ Top \in Constructs(Classes, Len(heap))
        /\ c \in Classes /\ s \in Seq(Classes \X Int) /\ built \in Seq(Seq(Classes \X Int))
        /\ Constructing(c, s, i \in fellback, err, Top, acts[n - 1], "top")
    BY <1>1, TopMakes
  <1>3. CASE err # "NONE"
    <2>1. acts' = Below /\ heap' = heap /\ built' = built /\ fellback' = fellback /\ err' # "NONE"
      BY <1>1, <1>3 DEF history
    <2>2. Order(heap, Below, built, done, fellback, err')
      BY <1>1, <2>1, PopOrders
    <2>3. QED
      BY <1>1, <2>1, <2>2, OrderStays
  <1>4. CASE err = "NONE"
    <2>1. GoesTo(Top, u, "called") /\ u.k = "construct"
      BY <1>2, GoingIs
    <2>2. u.inst = i /\ u.jsp = Top.jsp
      BY <2>1 DEF GoesTo
    <2>3. Renewed(u) = [acts EXCEPT ![Len(acts)].at = "called"]
      BY <1>2 DEF Renewed, Going
    <2>4. PICK x, f, lo, t : /\ x = <<Top.jsp, Top.argc>> /\ f = (i \in fellback)
                             /\ lo = acts[n - 1] /\ t = Top
      OBVIOUS
    <2> DEFINE d == jsclassFindMethod(c, x)
               fr == Frame(c, d, x, SubSeq(stack, Len(stack) - x[2], Len(stack)), FALSE, Len(stack))
    <2>5. /\ heap' = jsinstRef(heap, i) /\ fellback' = fellback
          /\ IF d = None THEN acts' = Renewed(u) /\ built' = built
             ELSE acts' = Append(Renewed(u), fr) /\ built' = [built EXCEPT ![i] = Append(s, x)]
      BY <1>1, <1>4, <2>3, <2>4 DEF EnterConstructor, history
    <2>6. Len(heap') = Len(heap) /\ \A j \in 1..Len(heap) : heap'[j].cls = heap[j].cls
      <3>1. i \in 0..Len(heap) /\ heap \in Heaps(Classes, Len(heap))
        BY <1>2, InvSays
      <3>2. Same(heap', heap)
        BY <1>2, <2>5, <3>1, RefTypes
      <3>3. QED
        BY <3>2, AsLong
    <2>7. ~IsMaker(fr) /\ fr.k = "frame"
      BY DEF IsMaker, Frame
    <2> HIDE DEF u, s, c, fr
    <2>8. /\ Constructing(c, s, f, err, t, lo, "top") /\ t.at = "self" /\ t.argc \in Nat
          /\ GoesTo(t, u, "called") /\ x = <<t.jsp, t.argc>>
      BY <1>1, <1>2, <2>1, <2>4
    <2>9. PICK g, e2 : g = heap' /\ e2 = err'
      OBVIOUS
    <2>10. Len(g) = Len(heap) /\ \A j \in 1..Len(heap) : g[j].cls = heap[j].cls
      BY <2>6, <2>9
    <2>11. CASE d = None
      <3>1. Constructing(c, s, f, e2, u, lo, "top")
        BY <1>2, <1>4, <2>8, <2>11, HasNone
      <3>2. built = [built EXCEPT ![i] = s]
        BY <1>2 DEF s
      <3>3. Order(g, Renewed(u), [built EXCEPT ![i] = s], done, fellback, e2)
        BY <1>1, <1>2, <2>1, <2>2, <2>4, <2>7, <2>10, <3>1, MakesOn DEF s, c
      <3>4. acts' = Renewed(u) /\ built' = [built EXCEPT ![i] = s]
        BY <2>5, <2>11, <3>2
      <3>5. QED
        BY <1>1, <2>5, <2>9, <3>3, <3>4, OrderStays
    <2>12. CASE d # None
      <3>1. PICK r : r = Append(s, x)
        OBVIOUS
      <3>2. Constructing(c, r, f, e2, u, lo, "frame") /\ x \in Classes \X Int
        <4>1. HasOwn(c, s, t, x)
          BY <1>2, <2>8, <2>12 DEF HasOwn
        <4>2. Constructing(c, s, f, "NONE", t, lo, "top") /\ ClassInv /\ Ready /\ c \in Classes
          BY <1>2, <1>4, <2>8
        <4>3. Constructing(c, Append(s, x), f, e2, u, lo, "frame") /\ x \in Classes \X Int
          BY <2>8, <4>1, <4>2, CallsOwn
        <4>4. QED
          BY <3>1, <4>3
      <3>3. \E y \in Classes \X Int : r = Append(s, y) /\ y[1] = Top.jsp
        <4>1. x[1] = Top.jsp
          BY <2>4
        <4>2. QED
          BY <3>1, <3>2, <4>1
      <3>4. Order(g, Calling(u, fr), [built EXCEPT ![i] = r], done, fellback, e2)
        BY <1>1, <1>2, <2>1, <2>2, <2>4, <2>7, <2>10, <3>2, <3>3, MakesOn DEF s, c
      <3>5. acts' = Calling(u, fr) /\ built' = [built EXCEPT ![i] = r]
        BY <2>5, <2>12, <3>1 DEF Calling
      <3>6. QED
        BY <1>1, <2>5, <2>9, <3>4, <3>5, OrderStays
    <2>13. QED
      BY <2>11, <2>12
  <1>5. QED
    BY <1>3, <1>4

\* What is done has run what it had to.
LEMMA IsComplete ==
    ASSUME ClassInv, Ready, Linked, Regular(prog), NEW c \in Classes, NEW s, NEW f, NEW e, NEW a, NEW lo,
           NEW up, Constructing(c, s, f, e, a, lo, up), a.at = "called", a.jsp = c, a.argc \in Nat
    PROVE  Complete(c, s, f, a.argc)
  <1>1. Within(c, c) /\ Once(c, s, a) /\ Reached(c, s, f, e, a, up) /\ prog \in Programs
    BY DEF Constructing, ClassInv
  <1>2. PICK m : m = a.argc
    OBVIOUS
  <1>3. BaseOf(c) = None <=> Depth(c) = 1
    BY <1>1, WithinIs
  <1>4. Due(c, m) = Ctors(c, m)[Depth(c)]
    BY DEF Due, Depth
  <1>5. ASSUME ~f PROVE s = Due(c, m)
    <2>1. CASE BaseOf(c) # None
      BY <1>1, <1>2, <1>4, <1>5, <2>1 DEF Reached
    <2>2. CASE BaseOf(c) = None
      <3>1. s = Inner(c, Depth(c))
        BY <1>1, <1>5, <2>2 DEF Reached
      <3>2. Ctors(c, m)[1] = Inner(c, Depth(c)) /\ m \in Nat
        BY <1>1, <1>2, CtorsOf
      <3>3. QED
        BY <1>3, <1>4, <2>2, <3>1, <3>2
    <2>3. QED
      BY <2>1, <2>2
  <1>6. Depth(c) <= 3 => IsInjective(s)
    BY <1>1 DEF Once
  <1>7. QED
    BY <1>2, <1>5, <1>6 DEF Complete

\* The construction of the class itself is the lowest one.
LEMMA IsLowest ==
    ASSUME Inv, Ordered, acts # <<>>, Top.k = "construct", Top.jsp = heap[Top.inst].cls
    PROVE  \A p \in 1..(Len(acts) - 1) : IsMaker(acts[p]) => acts[p].inst # Top.inst
  <1>1. PICK n : n = Len(acts)
    OBVIOUS
  <1>2. /\ n \in Nat /\ n > 1 /\ Top = acts[n] /\ prog \in Programs
        /\ Order(heap, acts, built, done, fellback, err) /\ heap[Top.inst].cls \in Classes
    BY <1>1, TopMakes
  <1>3. ASSUME NEW p \in 1..(n - 1), IsMaker(acts[p]), acts[p].inst = Top.inst PROVE FALSE
    <2>1. p \in 1..Len(acts) /\ n \in 1..Len(acts) /\ p < n /\ IsMaker(acts[n])
      BY <1>1, <1>2 DEF IsMaker
    <2>2. Beneath(acts[p], acts[n])
      BY <1>2, <1>3, <2>1 DEF Order, OneMaker
    <2>3. acts[p].k = "construct" /\ Depth(Top.jsp) < Depth(acts[p].jsp)
      BY <1>2, <2>2 DEF Beneath
    <2>4. MakerFits(heap, acts, built, fellback, err, p)
      BY <1>2, <2>1 DEF Order
    <2>5. Within(heap[acts[p].inst].cls, acts[p].jsp)
      BY <2>3, <2>4 DEF MakerFits, Constructing
    <2>6. PICK c, x : c = Top.jsp /\ x = acts[p].jsp
      OBVIOUS
    <2>7. Within(c, x) /\ c \in Classes /\ Depth(c) < Depth(x)
      BY <1>2, <1>3, <2>3, <2>5, <2>6
    <2>8. Depth(x) \in 1..Depth(c) /\ Depth(c) \in Nat
      BY <1>2, <2>7, WithinIs
    <2>9. QED
      BY <2>7, <2>8
  <1>4. QED
    BY <1>1, <1>3

\* The constructor of the class has returned.
LEMMA ReturnsOrdered ==
    ASSUME Inv, Ordered, Linked, Regular(prog), ConstructReturns
    PROVE  Ordered'
  <1> DEFINE n == Len(acts)
             i == Top.inst
             c == heap[Top.inst].cls
             u == GoingWith(Top, "base", 0)
             s == built[Top.inst]
  <1>1. /\ acts # <<>> /\ Top.k = "construct" /\ Top.at = "called" /\ prog' = prog /\ built' = built
    BY DEF ConstructReturns, classVars
  <1>2. \/ /\ Top.jsp # c /\ Top.argc # 0 /\ err' = "NONE" /\ done' = done
           /\ acts' = [acts EXCEPT ![Len(acts)].at = "base", ![Len(acts)].argc = 0]
           /\ fellback' = fellback \cup (IF link[Top.jsp] = None THEN {} ELSE {i})
        \/ acts' = Below /\ done' = done /\ fellback' = fellback
        \/ /\ Top.jsp = c /\ acts' = Below /\ done' = done \cup {<<i, Top.argc>>}
           /\ fellback' = fellback
    BY DEF ConstructReturns
  <1>3. /\ n \in Nat /\ n > 1 /\ Top = acts[n] /\ Ready /\ ClassInv
        /\ i \in 1..Len(heap) /\ Len(heap) \in Nat
        /\ Top.jsp \in Classes /\ Top.argc \in Nat /\ Top \in Constructs(Classes, Len(heap))
        /\ DOMAIN Top = {"k", "inst", "jsp", "argc", "at"}
        /\ c \in Classes /\ built \in Seq(Seq(Classes \X Int))
        /\ Constructing(c, s, i \in fellback, err, Top, acts[n - 1], "top")
        /\ acts \in Seq(Acts(Classes, Len(heap)))
    BY <1>1, TopMakes
  <1>4. Inv' /\ Same(heap', heap)
    BY ConstructReturnsKeeps
  <1>5. PICK g, e2 : g = heap' /\ e2 = err'
    OBVIOUS
  <1>6. Len(g) = Len(heap) /\ \A j \in 1..Len(heap) : g[j].cls = heap[j].cls
    BY <1>4, <1>5, AsLong
  <1>7. Order(g, Below, built, done, fellback, e2)
    BY <1>1, <1>6, PopOrders
  <1>8. CASE acts' = Below /\ done' = done /\ fellback' = fellback
    BY <1>1, <1>5, <1>7, <1>8, OrderStays
  <1>9. CASE /\ Top.jsp = c /\ acts' = Below /\ done' = done \cup {<<i, Top.argc>>}
             /\ fellback' = fellback
    <2>1. PICK f, lo, t, m, ad : /\ f = (i \in fellback) /\ lo = acts[n - 1] /\ t = Top
                                 /\ m = Top.argc /\ ad = Below
      OBVIOUS
    <2>2. Complete(c, s, f, m)
      <3>1. Constructing(c, s, f, err, t, lo, "top") /\ t.at = "called" /\ t.jsp = c /\ t.argc \in Nat
        BY <1>1, <1>3, <1>9, <2>1
      <3> HIDE DEF c, s
      <3>2. Complete(c, s, f, t.argc)
        BY <1>3, <3>1, IsComplete
      <3>3. QED
        BY <2>1, <3>2
    <2>3. \A p \in 1..(n - 1) : IsMaker(acts[p]) => acts[p].inst # i
      BY <1>1, <1>9, IsLowest
    <2>4. Len(ad) = n - 1 /\ \A p \in 1..(n - 1) : ad[p] = acts[p]
      <3>1. n - 1 \in 0..Len(acts)
        BY <1>3
      <3>2. QED
        BY <1>3, <2>1, <3>1, Slices DEF Below
    <2>5. \A p \in 1..Len(ad) : IsMaker(ad[p]) => ad[p].inst # i
      BY <2>3, <2>4
    <2>6. Complete(g[i].cls, built[i], i \in fellback, m)
      BY <1>3, <1>6, <2>1, <2>2
    <2>7. i \in 1..Len(g)
      BY <1>3, <1>6
    <2>8. Order(g, ad, built, done, fellback, e2)
      BY <1>7, <2>1
    <2>9. Order(g, ad, built, done \cup {<<i, m>>}, fellback, e2)
      BY <2>5, <2>6, <2>7, <2>8, OrderDone
    <2>10. QED
      BY <1>1, <1>5, <1>9, <2>1, <2>9, OrderStays
  <1>10. CASE /\ Top.jsp # c /\ Top.argc # 0 /\ err' = "NONE" /\ done' = done
              /\ acts' = [acts EXCEPT ![Len(acts)].at = "base", ![Len(acts)].argc = 0]
              /\ fellback' = fellback \cup (IF link[Top.jsp] = None THEN {} ELSE {i})
    <2>1. acts' = Renewed(u)
      BY <1>3, <1>10 DEF GoingWith, Renewed
    <2>2. u.k = "construct" /\ u.inst = i /\ u.jsp = Top.jsp /\ u.at = "base" /\ u.argc = 0
      BY <1>1, <1>3 DEF GoingWith
    <2>3. link[Top.jsp] = BaseOf(Top.jsp)
      BY <1>3, FindsNearest
    <2>4. PICK fc, f, f2, lo, t : /\ fc = fellback' /\ f = (i \in fellback) /\ f2 = (i \in fc)
                                  /\ lo = acts[n - 1] /\ t = Top
      OBVIOUS
    <2>5. /\ fellback \subseteq fc /\ fc \subseteq fellback \cup {i}
          /\ (f2 <=> f \/ BaseOf(Top.jsp) # None)
      BY <1>10, <2>3, <2>4
    <2> HIDE DEF u, c, s
    <2>6. /\ Constructing(c, s, f, err, t, lo, "top") /\ t.at = "called" /\ t.jsp # c /\ t.argc # 0
          /\ (f2 <=> f \/ BaseOf(t.jsp) # None)
          /\ u.jsp = t.jsp /\ u.inst = t.inst /\ u.argc = 0 /\ u.at = "base"
      BY <1>1, <1>3, <1>10, <2>2, <2>4, <2>5
    <2>7. Constructing(c, s, f2, e2, u, lo, "top")
      BY <2>6, TriesAgain
    <2>8. PICK v : v = [k |-> "run"]
      OBVIOUS
    <2>9. ~IsMaker(v)
      BY <2>8 DEF IsMaker
    <2>10. Order(g, Renewed(u), [built EXCEPT ![i] = s], done, fc, e2)
      BY <1>1, <1>6, <2>2, <2>4, <2>5, <2>7, <2>9, MakesOn DEF s, c
    <2>11. built = [built EXCEPT ![i] = s]
      BY <1>3 DEF s
    <2>12. QED
      BY <1>1, <1>5, <1>10, <2>1, <2>4, <2>10, <2>11, OrderStays
  <1>11. QED
    BY <1>2, <1>8, <1>9, <1>10

\* The loop of createJSClassInstance goes on.
LEMMA HostsOn ==
    ASSUME Inv, Ordered, acts # <<>>, Top.k = "host", NEW u, u.k = "host", u.inst = Top.inst,
           NEW s, s = built[Top.inst] \/ \E x \in Classes \X Int : s = Append(built[Top.inst], x),
           NEW v, ~IsMaker(v), NEW ad, ad \in {Renewed(u), Calling(u, v)}, NEW e2
    PROVE  Order(heap, ad, [built EXCEPT ![Top.inst] = s], done, fellback, e2)
  <1>1. PICK n, i : n = Len(acts) /\ i = Top.inst
    OBVIOUS
  <1>2. /\ n \in Nat /\ n \in 1..n /\ n >= 1 /\ Top = acts[n] /\ prog \in Programs /\ Known(heap, acts)
        /\ Order(heap, acts, built, done, fellback, err)
    BY <1>1, TopIs, KnownNow, InvSays DEF Ordered
  <1>3. TopIsNow(u, v)
    BY RenewedIs
  <1>4. /\ ad = Renewed(u) => Len(ad) = n /\ ad[n] = u /\ \A p \in 1..(n - 1) : ad[p] = acts[p]
        /\ ad = Calling(u, v) =>
              /\ Len(ad) = n + 1 /\ ad[n] = u /\ ad[n + 1] = v /\ \A p \in 1..(n - 1) : ad[p] = acts[p]
    BY <1>1, <1>3 DEF TopIsNow
  <1>5. Len(ad) \in {n, n + 1} /\ ad[n] = u /\ (\A p \in 1..(n - 1) : ad[p] = acts[p])
        /\ (Len(ad) = n + 1 => ~IsMaker(ad[n + 1]))
    BY <1>2, <1>4
  <1>6. PICK bb : bb = [built EXCEPT ![Top.inst] = s]
    OBVIOUS
  <1>7. Advances(heap, acts, built, fellback, heap, ad, bb, fellback, u, s, i, n)
    <2>1. /\ n = Len(acts) /\ n >= 1 /\ i = acts[n].inst /\ u.inst = i /\ acts[n].k # "construct"
          /\ IsMaker(acts[n]) /\ IsMaker(u) /\ bb = [built EXCEPT ![i] = s]
      BY <1>1, <1>2, <1>6 DEF IsMaker
    <2>2. s = built[i] \/ \E x \in Classes \X Int : s = Append(built[i], x)
      BY <1>1
    <2>3. QED
      BY <1>5, <2>1, <2>2 DEF Advances
  <1>8. u.k # "internal" /\ u.k # "construct"
    OBVIOUS
  <1>9. Order(heap, ad, bb, done, fellback, e2)
    BY <1>2, <1>7, <1>8, OrderTop
  <1>10. QED
    BY <1>6, <1>9

\* createJSClassInstance calls a constructor, or goes to the next, or ends.
LEMMA HostOrdered ==
    ASSUME Inv, Ordered, HostConstructs \/ HostConstructed
    PROVE  Ordered'
  <1> DEFINE i == Top.inst
             s == built[Top.inst]
  <1>1. acts # <<>> /\ Top.k = "host" /\ prog' = prog /\ done' = done /\ fellback' = fellback
    BY DEF HostConstructs, HostConstructed, EnterConstructor, classVars, history
  <1>2. /\ Len(acts) \in Nat /\ Len(acts) \in 1..Len(acts) /\ Top = acts[Len(acts)]
        /\ Top \in Acts(Classes, Len(heap)) /\ Len(heap) \in Nat
        /\ acts \in Seq(Acts(Classes, Len(heap)))
    BY <1>1, TopIs, InvSays DEF Fits, State
  <1>3. Top \in Hosts(Classes, Len(heap))
    BY <1>1, <1>2, ActTypes
  <1>4. /\ i \in 1..Len(heap) /\ Top.jsp \in Classes /\ Top.argc \in Nat
        /\ DOMAIN Top = {"k", "inst", "jsp", "argc", "retry", "at"}
    BY <1>2, <1>3, WaitTypes
  <1>5. built = [built EXCEPT ![i] = s]
    <2>1. built \in Seq(Seq(Classes \X Int))
      BY DEF Ordered, Order
    <2>2. QED
      BY <2>1
  <1>6. PICK e2 : e2 = err'
    OBVIOUS
  <1>7. PICK r : r = [k |-> "run"]
    OBVIOUS
  <1>8. ~IsMaker(r)
    BY <1>7 DEF IsMaker
  <1>9. CASE HostConstructs
    <2> DEFINE u == Going(Top, "called")
    <2>1. PICK m : m = IF Top.retry THEN 0 ELSE Top.argc
      OBVIOUS
    <2>2. PICK x : x = <<Top.jsp, m>>
      OBVIOUS
    <2>3. x \in Classes \X Int
      BY <1>4, <2>1, <2>2
    <2>4. EnterConstructor([acts EXCEPT ![Len(acts)].at = "called"], heap, i, x)
      BY <1>9, <2>1, <2>2 DEF HostConstructs
    <2>5. Renewed(u) = [acts EXCEPT ![Len(acts)].at = "called"]
      BY <1>2 DEF Renewed, Going
    <2>6. u.k = "host" /\ u.inst = i
      BY <1>1, <1>4 DEF Going
    <2> DEFINE d == jsclassFindMethod(heap[i].cls, x)
               fr == Frame(heap[i].cls, d, x, SubSeq(stack, Len(stack) - x[2], Len(stack)), FALSE, Len(stack))
    <2>7. /\ heap' = heap
          /\ IF d = None THEN acts' = Renewed(u) /\ built' = built
             ELSE acts' = Append(Renewed(u), fr) /\ built' = [built EXCEPT ![i] = Append(s, x)]
      BY <2>4, <2>5 DEF EnterConstructor
    <2>8. ~IsMaker(fr)
      BY DEF IsMaker, Frame
    <2> HIDE DEF u, s, fr
    <2>9. CASE d = None
      <3>1. Order(heap, Renewed(u), [built EXCEPT ![i] = s], done, fellback, e2)
        BY <1>1, <2>6, <2>8, HostsOn DEF s
      <3>2. acts' = Renewed(u) /\ built' = [built EXCEPT ![i] = s]
        BY <1>5, <2>7, <2>9
      <3>3. QED
        BY <1>1, <1>6, <2>7, <3>1, <3>2, OrderStays
    <2>10. CASE d # None
      <3>1. PICK t : t = Append(s, x)
        OBVIOUS
      <3>2. \E y \in Classes \X Int : t = Append(s, y)
        BY <2>3, <3>1
      <3>3. Order(heap, Calling(u, fr), [built EXCEPT ![i] = t], done, fellback, e2)
        BY <1>1, <2>6, <2>8, <3>2, HostsOn DEF s
      <3>4. acts' = Calling(u, fr) /\ built' = [built EXCEPT ![i] = t]
        BY <2>7, <2>10, <3>1 DEF Calling
      <3>5. QED
        BY <1>1, <1>6, <2>7, <3>3, <3>4, OrderStays
    <2>11. QED
      BY <2>9, <2>10
  <1>10. CASE HostConstructed
    <2>1. built' = built /\ Inv' /\ Same(heap', heap)
      BY <1>10, HostConstructedKeeps DEF HostConstructed
    <2>2. PICK again, j : \/ /\ acts' = [acts EXCEPT ![Len(acts)] =
                                            [Top EXCEPT !.at = "call", !.retry = again, !.jsp = j]]
                             /\ heap' = heap
                          \/ acts' = Below
      <3> DEFINE fine  == err = "NONE" \/ (err = "UNKNOWN_METHOD" /\ Top.argc = 0)
                 ag == err = "UNKNOWN_METHOD" /\ Top.argc > 0 /\ ~Top.retry
                 more  == fine /\ link[Top.jsp] # None
                 y == IF ag THEN Top.jsp ELSE link[Top.jsp]
      <3>1. \/ /\ acts' = [acts EXCEPT ![Len(acts)] =
                              [Top EXCEPT !.at = "call", !.retry = ag,
                                          !.jsp = IF ag THEN @ ELSE link[@]]]
               /\ heap' = heap
            \/ acts' = Below
        BY <1>10 DEF HostConstructed
      <3> HIDE DEF ag
      <3>2. [Top EXCEPT !.at = "call", !.retry = ag, !.jsp = IF ag THEN @ ELSE link[@]]
                = [Top EXCEPT !.at = "call", !.retry = ag, !.jsp = y]
        BY <1>4
      <3> HIDE DEF y
      <3>3. \/ /\ acts' = [acts EXCEPT ![Len(acts)] =
                              [Top EXCEPT !.at = "call", !.retry = ag, !.jsp = y]]
               /\ heap' = heap
            \/ acts' = Below
        BY <3>1, <3>2
      <3>4. QED
        BY <3>3
    <2>3. CASE acts' = Below
      <3>1. Passes(acts, acts')
        BY <1>1, <1>2, <1>8, <2>3, WaysToPass DEF Below
      <3>2. QED
        BY <1>1, <2>1, <3>1, TopmostKept
    <2>4. CASE /\ acts' = [acts EXCEPT ![Len(acts)] =
                               [Top EXCEPT !.at = "call", !.retry = again, !.jsp = j]]
               /\ heap' = heap
      <3>1. PICK u : u = [Top EXCEPT !.at = "call", !.retry = again, !.jsp = j]
        OBVIOUS
      <3>2. u.k = "host" /\ u.inst = i
        BY <1>1, <1>4, <3>1
      <3>3. acts' = Renewed(u)
        BY <2>4, <3>1 DEF Renewed
      <3> HIDE DEF s
      <3>4. Order(heap, Renewed(u), [built EXCEPT ![i] = s], done, fellback, e2)
        BY <1>1, <1>8, <3>2, HostsOn DEF s
      <3>5. built' = [built EXCEPT ![i] = s]
        BY <1>5, <2>1
      <3>6. QED
        BY <1>1, <1>6, <2>4, <3>3, <3>4, <3>5, OrderStays
    <2>5. QED
      BY <2>2, <2>3, <2>4
  <1>11. QED
    BY <1>9, <1>10

\* Nothing is made while a program is prepared, or when nothing changes.
LEMMA StillOrdered ==
    ASSUME Inv, Ordered, qinterpPrepare \/ UNCHANGED vars
    PROVE  Ordered'
  <1>1. prog' = prog
    BY DEF qinterpPrepare, vars
  <1>2. /\ heap' = heap /\ acts' = acts /\ built' = built /\ done' = done /\ fellback' = fellback
        /\ err' = err
    BY DEF qinterpPrepare, vars, history
  <1>3. Order(heap', acts', built', done', fellback', err')
    BY <1>2 DEF Ordered
  <1>4. QED
    BY <1>1, <1>3, OrderStays

\* The invariant of the constructors
OrderInv == Inv /\ Linked /\ Regular(prog) /\ Ordered

\* No step of a method changes the classes.
LEMMA StepClasses ==
    ASSUME Step
    PROVE  UNCHANGED classVars
  <1>1. CASE \E o \in 1..Len(Top.locals), sig \in Sigs, args \in Operands :
                Len(args) = sig[2] /\ Call(o, sig, args)
    BY <1>1 DEF Call
  <1>2. CASE \E sig \in Sigs, args \in Operands : Len(args) = sig[2] /\ callBaseMethod(sig, args)
    BY <1>2 DEF callBaseMethod
  <1>3. CASE \E o \in Vars : StoreLocal(o) \/ LoadLocal(o)
    BY <1>3 DEF StoreLocal, LoadLocal, Load
  <1>4. CASE \E f \in 1..2 : StoreField(f) \/ LoadField(f) \/ OP_DEREF(f)
    BY <1>4 DEF StoreField, LoadField, Load, OP_DEREF
  <1>5. CASE \E c \in Classes \cup {"Unknown"}, args \in Operands : OP_NEW(c, args)
    BY <1>5 DEF OP_NEW, Make
  <1>6. CASE Return \/ Throw
    BY <1>6 DEF Return, Throw
  <1>7. QED
    BY <1>1, <1>2, <1>3, <1>4, <1>5, <1>6 DEF Step

\* Every step keeps the order.
LEMMA StepOrdered ==
    ASSUME Inv, Linked, Regular(prog), Ordered, [Next]_vars
    PROVE  Ordered'
  <1>1. Inv'
    BY NextInv
  <1>2. CASE Running /\ Step
    <2>1. CASE \E o \in 1..Len(Top.locals), sig \in Sigs, args \in Operands :
                   Len(args) = sig[2] /\ Call(o, sig, args)
      BY <1>1, <2>1, CallsOrdered
    <2>2. CASE \E sig \in Sigs, args \in Operands : Len(args) = sig[2] /\ callBaseMethod(sig, args)
      BY <1>1, <2>2, CallsOrdered
    <2>3. CASE \/ \E o \in Vars : StoreLocal(o) \/ LoadLocal(o)
               \/ \E f \in 1..2 : StoreField(f) \/ LoadField(f) \/ OP_DEREF(f)
               \/ Return \/ Throw
      BY <1>1, <2>3, MethodOrdered
    <2>4. CASE \E c \in Classes \cup {"Unknown"}, args \in Operands : OP_NEW(c, args)
      BY <1>1, <2>4, NewOrdered
    <2>5. QED
      BY <1>2, <2>1, <2>2, <2>3, <2>4 DEF Step
  <1>3. CASE Resume \/ Unwind
    BY <1>1, <1>3, MethodOrdered
  <1>4. CASE Calls
    BY <1>1, <1>4, InternalOrdered, BaseOrdered, SelfOrdered, ReturnsOrdered DEF Calls
  <1>5. CASE Host
    <2>1. CASE qinterpRun \/ (\E sig \in Sigs : qinterpCall(sig))
      BY <1>1, <2>1, HostCallsOrdered
    <2>2. CASE RunReturns \/ CallReturns \/ MakeFails
      BY <1>1, <2>2, EndsOrdered
    <2>3. CASE \E c \in Classes, n \in 0..1 : createJSClassInstance(c, n)
      BY <1>1, <2>3, NewOrdered
    <2>4. CASE HostConstructs \/ HostConstructed
      BY <1>1, <2>4, HostOrdered
    <2>5. QED
      BY <1>5, <2>1, <2>2, <2>3, <2>4 DEF Host
  <1>6. CASE qinterpPrepare \/ UNCHANGED vars
    BY <1>1, <1>6, StillOrdered
  <1>7. QED
    BY <1>2, <1>3, <1>4, <1>5, <1>6 DEF Next

\* Every step keeps it.
LEMMA NextOrdered ==
    ASSUME OrderInv, [Next]_vars
    PROVE  OrderInv'
  <1>1. Inv /\ Inv' /\ Linked /\ Regular(prog) /\ Ordered
    BY NextInv DEF OrderInv
  <1>2. UNCHANGED classVars \/ qinterpPrepare
    <2>1. CASE Running /\ Step
      BY <2>1, StepClasses
    <2>2. CASE Resume \/ Unwind
      BY <2>2 DEF Resume, Unwind
    <2>3. CASE Calls
      BY <2>3 DEF Calls, callInternalConstructors, ConstructBase, ConstructSelf, ConstructReturns
    <2>4. CASE Host
      BY <2>4 DEF Host, qinterpRun, RunReturns, MakeFails, createJSClassInstance, Make,
         HostConstructs, HostConstructed, qinterpCall, CallReturns
    <2>5. CASE UNCHANGED vars
      BY <2>5 DEF vars, classVars
    <2>6. QED
      BY <2>1, <2>2, <2>3, <2>4, <2>5 DEF Next
  <1>3. prog' = prog
    BY <1>2 DEF classVars, qinterpPrepare
  <1>4. Linked' /\ Regular(prog)'
    <2>1. Linked'
      BY <1>1, <1>2, LinkedStays
    <2>2. Regular(prog)'
      BY <1>1, <1>3 DEF Regular
    <2>3. QED
      BY <2>1, <2>2
  <1>5. Ordered'
    BY <1>1, StepOrdered
  <1>6. QED
    BY <1>1, <1>4, <1>5 DEF OrderInv

\* Nothing has been built at first.
LEMMA InitOrdered ==
    ASSUME Init, \A p \in Programs : Regular(p)
    PROVE  OrderInv
  <1>1. Inv
    BY InitInv
  <1>2. /\ prog \in Programs /\ prepared = 0 /\ heap = <<>> /\ acts = <<>> /\ built = <<>> /\ done = {}
    BY DEF Init
  <1>3. Linked /\ Regular(prog)
    BY <1>2 DEF Linked
  <1>4. built \in Seq(Seq(Classes \X Int)) /\ Len(built) = Len(heap) /\ Len(acts) = 0
    BY <1>2
  <1>5. \A p \in 1..Len(acts) : FALSE
    BY <1>4
  <1>6. OneMaker(acts) /\ DoneFits(heap, acts, built, done, fellback)
    BY <1>2, <1>5 DEF OneMaker, DoneFits
  <1>7. Ordered
    BY <1>4, <1>5, <1>6 DEF Ordered, Order
  <1>8. QED
    BY <1>1, <1>3, <1>7 DEF OrderInv

\* Whatever the program, the order of its classes, the arguments and the errors,
\* an instance whose construction has succeeded has run the internal constructors
\* of all its classes and then those constructors that its class sees, each of
\* them once and the base class first, as long as a method that has the name of a
\* class is a constructor of it (callInternalConstructors and callConstructors).
THEOREM ConstructsInOrder ==
    ASSUME \A p \in Programs : Regular(p)
    PROVE  Spec => []ConstructedInOrder
  <1>1. Init => OrderInv
    BY InitOrdered
  <1>2. OrderInv /\ [Next]_vars => OrderInv'
    BY NextOrdered
  <1>3. OrderInv => ConstructedInOrder
    <2> SUFFICES ASSUME OrderInv, NEW d \in done
                 PROVE  IF d[1] \notin fellback THEN built[d[1]] = Due(heap[d[1]].cls, d[2])
                        ELSE Len(Chain(heap[d[1]].cls)) <= 3 => IsInjective(built[d[1]])
      BY DEF ConstructedInOrder
    <2>1. Complete(heap[d[1]].cls, built[d[1]], d[1] \in fellback, d[2])
      BY DEF OrderInv, Ordered, Order, DoneFits
    <2>2. QED
      BY <2>1 DEF Complete, Depth
  <1>4. QED
    BY <1>1, <1>2, <1>3, PTL DEF Spec
=============================================================================
