--------------------------- MODULE NativesProofs ----------------------------
(***************************************************************************)
(* Proofs about module Natives, for any variables, keys, lengths and       *)
(* indexes and any number of instances, cells and pending references.      *)
(***************************************************************************)
EXTENDS Natives, Counting

-----------------------------------------------------------------------------
(* The invariant                                                           *)

\* Indexes of vectors, places in arrays and their numbers, and texts of keys
Marks == Int \cup {varToString(key) : key \in Keys}
         \cup {Element(d, idx) : d \in Seq(Int), idx \in Indexes \cup {<<k>> : k \in Int}}
         \cup {Block(d, idx) : d \in Seq(Int), idx \in Indexes}

Partial(S) == UNION {[D -> S] : D \in SUBSET Marks}

Insts == [cls : Classes, refcount : Int, live : BOOLEAN, made : BOOLEAN,
          elems : Partial(Nat), hidden : SUBSET Nat, dims : Seq(Int),
          num : Nat, want : Partial(Nat)]

CellSet == [v : Nat, live : BOOLEAN]

\* Variables and what is below them L, instances h, cells c and values vs that are
\* about to be cleared
Typed(L, h, c, vs) ==
    /\ h \in Seq(Insts) /\ c \in Seq(CellSet)
    /\ L \in [Roots -> 0..Len(h)] /\ vs \in Seq(0..Len(h))
    /\ \A k \in DOMAIN c : c[k].v \in 0..Len(h)

InVars(L, i)   == {x \in Roots : L[x] = i}
InCells(c, i)  == {k \in DOMAIN c : c[k].live /\ c[k].v = i}

Refs(L, c, vs, i) ==
    Cardinality(InVars(L, i)) + Cardinality(InCells(c, i)) + Cardinality(InList(vs, i))

\* An instance counts what refers to it, the values to be cleared included
Counted(L, h, c, vs) ==
    \A i \in DOMAIN h :
        IF h[i].live THEN h[i].refcount = Refs(L, c, vs, i) /\ Refs(L, c, vs, i) > 0
                     ELSE Refs(L, c, vs, i) = 0

\* The cells of an instance are at different indexes
Apart(o) ==
    /\ \A j, k \in DOMAIN o.elems : o.elems[j] = o.elems[k] => j = k
    /\ Range(o.elems) \cap o.hidden = {}

\* A cell belongs to one instance, which lives, and lives itself
Tidy(h, c) ==
    /\ \A i \in DOMAIN h : Apart(h[i]) /\ (h[i].live \/ Owned(h[i]) = {})
    /\ \A i \in DOMAIN h : \A k \in Owned(h[i]) : k \in DOMAIN c /\ c[k].live
    /\ \A i, j \in DOMAIN h : i # j => Owned(h[i]) \cap Owned(h[j]) = {}

\* Every cell that lives belongs to an instance
Complete(h, c) == \A k \in DOMAIN c : c[k].live => \E i \in DOMAIN h : k \in Owned(h[i])

Sound(L, h, c, vs) == Typed(L, h, c, vs) /\ Counted(L, h, c, vs) /\ Tidy(h, c)

\* Where the code finds what is at an index
Place(o, k) == IF o.cls = "Array" THEN Element(o.dims, <<k>>) ELSE k

\* A vector has no gaps, only a table hides cells, and an array of one
\* dimension knows of its elements within the bounds
Shaped(o) ==
    /\ o.cls = "Vector" => \E n \in Nat : DOMAIN o.elems = 0..(n - 1)
    /\ o.cls # "Hashtable" => o.hidden = {}
    /\ o.cls = "Array" /\ Len(o.dims) = 1 =>
         /\ DOMAIN o.want \in SUBSET (0..(o.dims[1] - 1))
         /\ \A b \in 0..(o.dims[1] - 1) : Place(o, b) \in DOMAIN o.elems => b \in DOMAIN o.want
    /\ o.cls = "Array" /\ Len(o.dims) = 0 => DOMAIN o.want = {}

\* What was put is there
Holds(o, c) == Len(o.dims) <= 1 =>
    /\ \A k \in DOMAIN o.want :
         Place(o, k) \in DOMAIN o.elems /\ c[o.elems[Place(o, k)]].v = o.want[k]
    /\ o.cls # "Array" => DOMAIN o.elems = DOMAIN o.want

Contents(h, c) == \A i \in DOMAIN h : h[i].live => Shaped(h[i]) /\ Holds(h[i], c)

At(o, p) == p.key \in DOMAIN o.elems /\ o.elems[p.key] = p.cell

\* The number of a pending element is that of its place, if it has one
Numbered(o, p) == Len(o.dims) <= 1 =>
    IF p.block # -1 THEN p.block \in DOMAIN o.want /\ Place(o, p.block) = p.key
                    ELSE \A b \in DOMAIN o.want : Place(o, b) # p.key

\* A pending reference is to a cell of a vector or an array: if an instance
\* still has the cell, that one has it, at the index
Pends(h, c, p) ==
    /\ p.cell \in DOMAIN c /\ p.inst \in DOMAIN h
    /\ h[p.inst].cls \in {"Vector", "Array"}
    /\ \A i \in DOMAIN h : p.cell \in Owned(h[i]) => i = p.inst /\ At(h[i], p)
    /\ h[p.inst].live /\ At(h[p.inst], p) => Numbered(h[p.inst], p)

Pendings == [cell : Nat, inst : Nat, key : Marks, block : Marks]

\* What is true of instances h, cells c, pending references P and flaws F
Rest(h, c, P, F) ==
    /\ F # {} \/ Complete(h, c)
    /\ Contents(h, c)
    /\ P \in Seq(Pendings)
    /\ \A n \in DOMAIN P : Pends(h, c, P[n])
    /\ "remade" \notin F =>
         \A n \in DOMAIN P : c[P[n].cell].live => At(h[P[n].inst], P[n])

NativeInv == Sound(locals, heap, cells, <<>>) /\ Rest(heap, cells, pending, flaws)

-----------------------------------------------------------------------------
(* The clearing of a list                                                  *)

\* The clearing of a list is defined step by step
LEMMA ClearingExists ==
    ASSUME NEW s, NEW n \in Nat
    PROVE  \E f : f = [k \in 0..n |-> IF k = 0 THEN s ELSE Cleared(f[k - 1])]
  <1> DEFINE S == {m \in Nat : \E f : f = [k \in 0..m |-> IF k = 0 THEN s ELSE Cleared(f[k - 1])]}
  <1>1. 0 \in S
    <2>1. [k \in 0..0 |-> s]
          = [k \in 0..0 |-> IF k = 0 THEN s ELSE Cleared([j \in 0..0 |-> s][k - 1])]
      OBVIOUS
    <2>2. QED
      BY <2>1
  <1>2. ASSUME NEW m \in S PROVE m + 1 \in S
    <2>1. PICK f : f = [k \in 0..m |-> IF k = 0 THEN s ELSE Cleared(f[k - 1])]
      OBVIOUS
    <2> DEFINE g == [k \in 0..(m + 1) |-> IF k = m + 1 THEN Cleared(f[m]) ELSE f[k]]
    <2>2. \A k \in 0..(m + 1) : g[k] = IF k = 0 THEN s ELSE Cleared(g[k - 1])
      <3> TAKE k \in 0..(m + 1)
      <3>1. CASE k = 0
        BY <2>1, <3>1
      <3>2. CASE k = m + 1
        <4>1. m \in Nat /\ k - 1 = m /\ k # 0 /\ m \in 0..(m + 1) /\ m # m + 1
          BY <3>2
        <4>2. g[m] = f[m] /\ g[k] = Cleared(f[m])
          BY <4>1, <3>2
        <4>3. QED
          BY <4>1, <4>2
      <3>3. CASE k \in 1..m
        <4>1. k - 1 \in 0..(m + 1) /\ k - 1 # m + 1 /\ k # 0 /\ k # m + 1 /\ k \in 0..m
          BY <3>3
        <4>2. g[k - 1] = f[k - 1] /\ g[k] = f[k] /\ f[k] = Cleared(f[k - 1])
          BY <4>1, <2>1
        <4>3. QED
          BY <4>1, <4>2
      <3>4. QED
        BY <3>1, <3>2, <3>3
    <2>3. g = [k \in 0..(m + 1) |-> IF k = 0 THEN s ELSE Cleared(g[k - 1])]
      BY <2>2
    <2>4. m + 1 \in Nat
      OBVIOUS
    <2> HIDE DEF g
    <2>5. QED
      BY <2>3, <2>4
  <1>3. S = Nat
    <2> HIDE DEF S
    <2>1. S \in SUBSET Nat
      BY DEF S
    <2>2. QED
      BY <1>1, <1>2, <2>1, Induction
  <1>4. QED
    BY <1>3

\* Its first state is the given one, and each other follows from the one before
LEMMA ClearingSteps ==
    ASSUME NEW s, NEW n \in Nat
    PROVE  /\ Clearing(s, n)[0] = s
           /\ \A k \in 0..(n - 1) : Clearing(s, n)[k + 1] = Cleared(Clearing(s, n)[k])
  <1>1. \E f : f = [k \in 0..n |-> IF k = 0 THEN s ELSE Cleared(f[k - 1])]
    BY ClearingExists
  <1>2. Clearing(s, n) = CHOOSE f : f = [k \in 0..n |-> IF k = 0 THEN s ELSE Cleared(f[k - 1])]
    BY DEF Clearing
  <1>3. PICK r : r = Clearing(s, n)
    OBVIOUS
  <1>4. r = [k \in 0..n |-> IF k = 0 THEN s ELSE Cleared(r[k - 1])]
    BY <1>1, <1>2, <1>3
  <1>5. r[0] = s
    BY <1>4
  <1>6. ASSUME NEW k \in 0..(n - 1) PROVE r[k + 1] = Cleared(r[k])
    <2>1. k + 1 \in 0..n /\ k + 1 # 0 /\ (k + 1) - 1 = k
      OBVIOUS
    <2>2. QED
      BY <1>4, <2>1
  <1>7. QED
    BY <1>3, <1>5, <1>6

-----------------------------------------------------------------------------
(* Counting                                                                *)

\* The variables and the place below them can be counted
LEMMA RootsFinite ==
    /\ IsFiniteSet(Vars) /\ IsFiniteSet(Roots) /\ Below \notin Vars
    /\ Cardinality(Vars) \in Nat /\ Cardinality(Roots) = Cardinality(Vars) + 1
  <1>1. IsFiniteSet(Vars) /\ Below \notin Vars
    BY NativeBounds
  <1>2. Cardinality(Vars) \in Nat
    BY <1>1, FS_CardinalityType
  <1>3. /\ IsFiniteSet(Vars \cup {Below})
        /\ Cardinality(Vars \cup {Below}) = Cardinality(Vars) + 1
    BY <1>1, FS_AddElement
  <1>4. QED
    BY <1>1, <1>2, <1>3 DEF Roots

\* What refers to an instance is counted by numbers
LEMMA RefTypes ==
    ASSUME NEW L, NEW h, NEW c, NEW vs, Typed(L, h, c, vs), NEW i
    PROVE  /\ IsFiniteSet(InVars(L, i)) /\ Cardinality(InVars(L, i)) \in Nat
           /\ IsFiniteSet(InCells(c, i)) /\ Cardinality(InCells(c, i)) \in Nat
           /\ IsFiniteSet(InList(vs, i)) /\ Cardinality(InList(vs, i)) \in Nat
  <1>1. IsFiniteSet(Roots) /\ InVars(L, i) \in SUBSET Roots
    BY RootsFinite DEF InVars
  <1>2. IsFiniteSet(InVars(L, i))
    BY <1>1, FS_Subset
  <1>3. Len(c) \in Nat /\ InCells(c, i) \in SUBSET (1..Len(c))
    BY DEF Typed, InCells
  <1>4. IsFiniteSet(InCells(c, i))
    <2>1. IsFiniteSet(1..Len(c))
      BY <1>3, FS_Interval
    <2>2. QED
      BY <1>3, <2>1, FS_Subset
  <1>5. IsFiniteSet(InList(vs, i))
    BY ListFinite DEF Typed
  <1>6. QED
    BY <1>2, <1>4, <1>5, FS_CardinalityType

\* Destroyed cells
LEMMA DeadTypes ==
    ASSUME NEW c \in Seq(CellSet), NEW ks
    PROVE  /\ Dead(c, ks) \in Seq(CellSet) /\ Len(Dead(c, ks)) = Len(c)
           /\ DOMAIN Dead(c, ks) = DOMAIN c /\ DOMAIN c = 1..Len(c) /\ Len(c) \in Nat
           /\ \A k \in DOMAIN c :
                Dead(c, ks)[k] = IF k \in ks THEN [v |-> Plain, live |-> FALSE] ELSE c[k]
           /\ Len(Values(c, ks)) = Len(c) /\ DOMAIN Values(c, ks) = DOMAIN c
           /\ \A k \in DOMAIN c : Values(c, ks)[k] = IF k \in ks THEN c[k].v ELSE 0
  <1>1. DOMAIN c = 1..Len(c) /\ Len(c) \in Nat /\ \A k \in DOMAIN c : c[k] \in CellSet
    BY ElementOfSeq
  <1>2. [v |-> Plain, live |-> FALSE] \in CellSet
    BY DEF CellSet, Plain
  <1>3. Dead(c, ks) \in [1..Len(c) -> CellSet]
    BY <1>1, <1>2 DEF Dead
  <1>4. Dead(c, ks) \in Seq(CellSet) /\ Len(Dead(c, ks)) = Len(c)
    BY <1>1, <1>3
  <1>5. Values(c, ks) \in [1..Len(c) -> Nat]
    BY <1>1 DEF Values, Plain, CellSet
  <1>6. Len(Values(c, ks)) = Len(c)
    BY <1>1, <1>5
  <1>7. QED
    BY <1>1, <1>4, <1>6 DEF Dead, Values, Plain

\* The cells that are destroyed are those whose values are to be cleared
LEMMA DeadCount ==
    ASSUME NEW c \in Seq(CellSet), NEW ks, \A k \in ks : k \in DOMAIN c /\ c[k].live,
           NEW i \in Nat \ {0}, IsFiniteSet(InCells(c, i))
    PROVE  Cardinality(InCells(c, i))
           = Cardinality(InCells(Dead(c, ks), i)) + Cardinality(InList(Values(c, ks), i))
  <1>1. InCells(Dead(c, ks), i) = InCells(c, i) \ ks
    BY DeadTypes DEF InCells
  <1>2. InList(Values(c, ks), i) = InCells(c, i) \cap ks
    BY DeadTypes DEF InCells, InList
  <1>3. Cardinality(InCells(c, i) \ ks) = Cardinality(InCells(c, i)) - Cardinality(InCells(c, i) \cap ks)
    BY FS_Difference, Zenon
  <1>4. /\ IsFiniteSet(InCells(c, i) \cap ks) /\ IsFiniteSet(InCells(c, i) \ ks)
    BY FS_Intersection, FS_Difference
  <1>5. /\ Cardinality(InCells(c, i)) \in Nat /\ Cardinality(InCells(c, i) \cap ks) \in Nat
        /\ Cardinality(InCells(c, i) \ ks) \in Nat
    BY <1>4, FS_CardinalityType
  <1>6. QED
    BY <1>1, <1>2, <1>3, <1>5

-----------------------------------------------------------------------------
(* varClear                                                                *)

\* What clearing values leaves of the instances g and the cells b
Kept(g, b, h, c) ==
    /\ DOMAIN h = DOMAIN g /\ DOMAIN c = DOMAIN b
    /\ \A i \in DOMAIN g :
         /\ h[i].cls = g[i].cls
         /\ h[i].live => g[i].live /\ h[i] = [g[i] EXCEPT !.refcount = h[i].refcount]
         /\ ~h[i].live /\ g[i].live => \A k \in Owned(g[i]) : ~c[k].live
    /\ \A k \in DOMAIN b : c[k] = b[k] \/ ~c[k].live

\* Clearing nothing keeps everything
LEMMA KeptSelf ==
    ASSUME NEW L, NEW h, NEW c, NEW vs, Typed(L, h, c, vs)
    PROVE  Kept(h, c, h, c)
  <1>1. \A i \in DOMAIN h : h[i] \in Insts
    BY ElementOfSeq DEF Typed
  <1>2. \A i \in DOMAIN h : h[i] = [h[i] EXCEPT !.refcount = h[i].refcount]
    BY <1>1 DEF Insts
  <1>3. QED
    BY <1>2 DEF Kept

\* The cells of an instance do not depend on its count
LEMMA OwnedOfCount ==
    ASSUME NEW o \in Insts, NEW n
    PROVE  /\ Owned([o EXCEPT !.refcount = n]) = Owned(o)
           /\ Apart([o EXCEPT !.refcount = n]) = Apart(o)
           /\ [o EXCEPT !.refcount = n].live = o.live /\ [o EXCEPT !.refcount = n].cls = o.cls
           /\ [o EXCEPT !.refcount = n].refcount = n
           /\ n \in Int => [o EXCEPT !.refcount = n] \in Insts
  BY DEF Owned, Apart, Insts

\* What is kept twice is kept
LEMMA KeptTwice ==
    ASSUME NEW f, NEW a, NEW g, NEW b, NEW h, NEW c,
           \A i \in DOMAIN f : f[i] \in Insts,
           \A k \in DOMAIN a : a[k] \in CellSet,
           \A i \in DOMAIN f : \A k \in Owned(f[i]) : k \in DOMAIN a,
           Kept(f, a, g, b), Kept(g, b, h, c)
    PROVE  Kept(f, a, h, c)
  <1>1. DOMAIN h = DOMAIN f /\ DOMAIN c = DOMAIN a /\ DOMAIN g = DOMAIN f /\ DOMAIN b = DOMAIN a
    BY DEF Kept
  <1>2. ASSUME NEW k \in DOMAIN a, ~b[k].live PROVE ~c[k].live
    BY <1>1, <1>2 DEF Kept
  <1>3. \A k \in DOMAIN a : c[k] = a[k] \/ ~c[k].live
    BY <1>1, <1>2 DEF Kept
  <1>4. ASSUME NEW i \in DOMAIN f
        PROVE  /\ h[i].cls = f[i].cls
               /\ h[i].live => f[i].live /\ h[i] = [f[i] EXCEPT !.refcount = h[i].refcount]
               /\ ~h[i].live /\ f[i].live => \A k \in Owned(f[i]) : ~c[k].live
    <2>1. h[i].cls = f[i].cls
      BY <1>1 DEF Kept
    <2>2. ASSUME h[i].live
          PROVE  f[i].live /\ h[i] = [f[i] EXCEPT !.refcount = h[i].refcount]
      <3>1. g[i].live /\ h[i] = [g[i] EXCEPT !.refcount = h[i].refcount]
        BY <1>1, <2>2 DEF Kept
      <3>2. f[i].live /\ g[i] = [f[i] EXCEPT !.refcount = g[i].refcount]
        BY <1>1, <3>1 DEF Kept
      <3>3. f[i] \in Insts
        OBVIOUS
      <3>4. QED
        BY <3>1, <3>2, <3>3 DEF Insts
    <2>3. ASSUME ~h[i].live, f[i].live, NEW k \in Owned(f[i]) PROVE ~c[k].live
      <3>1. CASE g[i].live
        <4>1. g[i] = [f[i] EXCEPT !.refcount = g[i].refcount]
          BY <1>1, <3>1 DEF Kept
        <4>2. Owned(g[i]) = Owned(f[i])
          BY <4>1, OwnedOfCount
        <4>3. QED
          BY <1>1, <2>3, <3>1, <4>2 DEF Kept
      <3>2. CASE ~g[i].live
        <4>1. ~b[k].live
          BY <1>1, <2>3, <3>2 DEF Kept
        <4>2. k \in DOMAIN a
          OBVIOUS
        <4>3. QED
          BY <1>2, <4>1, <4>2
      <3>3. QED
        BY <3>1, <3>2
    <2>4. QED
      BY <2>1, <2>2, <2>3
  <1>5. QED
    BY <1>1, <1>3, <1>4 DEF Kept

\* A destroyed instance is one without cells
LEMMA BlankTypes ==
    ASSUME NEW cls \in Classes
    PROVE  /\ Blank(cls) \in Insts /\ Blank(cls).cls = cls /\ ~Blank(cls).live
           /\ Owned(Blank(cls)) = {} /\ Apart(Blank(cls))
  <1>1. <<>> \in [{} -> Nat] /\ {} \in SUBSET Marks
    OBVIOUS
  <1>2. <<>> \in Partial(Nat) /\ <<>> \in Seq(Int) /\ DOMAIN <<>> = {}
    BY <1>1 DEF Partial
  <1>3. Blank(cls) \in Insts
    BY <1>2 DEF Blank, Insts
  <1>4. Range(<<>>) = {}
    BY <1>2 DEF Range
  <1>5. QED
    BY <1>2, <1>3, <1>4 DEF Blank, Owned, Apart

\* One reference to an instance less
LEMMA CountedLess ==
    ASSUME NEW L, NEW h, NEW c, NEW vs, NEW g, NEW b, NEW us, NEW v \in DOMAIN h,
           Typed(L, h, c, vs), Counted(L, h, c, vs), h[v].live,
           DOMAIN g = DOMAIN h,
           \A i \in DOMAIN h : i # v => g[i] = h[i],
           \A i \in DOMAIN h : Refs(L, b, us, i) = Refs(L, c, vs, i) - (IF i = v THEN 1 ELSE 0),
           \/ g[v].live /\ g[v].refcount = h[v].refcount - 1 /\ g[v].refcount > 0
           \/ ~g[v].live /\ h[v].refcount - 1 <= 0
    PROVE  Counted(L, g, b, us)
  <1>1. \A i \in DOMAIN h : Refs(L, c, vs, i) \in Nat
    BY RefTypes DEF Refs
  <1>2. ASSUME NEW i \in DOMAIN g
        PROVE  IF g[i].live THEN g[i].refcount = Refs(L, b, us, i) /\ Refs(L, b, us, i) > 0
                            ELSE Refs(L, b, us, i) = 0
    <2>1. i \in DOMAIN h /\ Refs(L, c, vs, i) \in Nat
      BY <1>1
    <2>2. CASE i = v
      <3>1. Refs(L, b, us, i) = Refs(L, c, vs, i) - 1
        BY <2>1, <2>2
      <3>2. h[i].refcount = Refs(L, c, vs, i) /\ Refs(L, c, vs, i) > 0
        BY <2>1, <2>2 DEF Counted
      <3>3. QED
        BY <2>1, <2>2, <3>1, <3>2
    <2>3. CASE i # v
      <3>1. Refs(L, b, us, i) = Refs(L, c, vs, i)
        BY <2>1, <2>3
      <3>2. QED
        BY <2>1, <2>3, <3>1 DEF Counted
    <2>4. QED
      BY <2>2, <2>3
  <1>3. QED
    BY <1>2 DEF Counted

\* The states of clearing a list of values
Lists == [h : Seq(Insts), c : Seq(CellSet), todo : Seq(Nat)]

Living(h) == {i \in DOMAIN h : h[i].live}

\* What is still to do: the values in the list, and those of the cells of
\* all instances
Work(s) == Len(s.todo) + Len(s.c) * Cardinality(Living(s.h))

Better(L, s, t) ==
    /\ t \in Lists
    /\ Sound(L, t.h, t.c, t.todo)
    /\ Kept(s.h, s.c, t.h, t.c)
    /\ Work(t) + 1 <= Work(s)

\* The instances that live are finitely many
LEMMA LivingFinite ==
    ASSUME NEW h \in Seq(Insts)
    PROVE  /\ IsFiniteSet(Living(h)) /\ Cardinality(Living(h)) \in Nat
           /\ Cardinality(Living(h)) <= Len(h)
  <1>1. Len(h) \in Nat /\ Living(h) \in SUBSET (1..Len(h))
    BY DEF Living
  <1>2. IsFiniteSet(1..Len(h)) /\ Cardinality(1..Len(h)) = Len(h)
    <2>1. PICK n \in Nat : n = Len(h)
      BY <1>1
    <2>2. IsFiniteSet(1..n) /\ Cardinality(1..n) = IF 1 > n THEN 0 ELSE n - 1 + 1
      BY FS_Interval
    <2>3. QED
      BY <2>1, <2>2
  <1>3. QED
    BY <1>1, <1>2, FS_Subset, FS_CardinalityType

\* The work is a number
LEMMA WorkNat ==
    ASSUME NEW s \in Lists
    PROVE  Work(s) \in Nat /\ Len(s.todo) <= Work(s)
  <1>1. s.h \in Seq(Insts) /\ Len(s.c) \in Nat /\ Len(s.todo) \in Nat
    BY DEF Lists
  <1>2. PICK n \in Nat : n = Cardinality(Living(s.h))
    BY <1>1, LivingFinite
  <1>3. Len(s.c) * n \in Nat
    BY <1>1
  <1>4. QED
    BY <1>1, <1>2, <1>3 DEF Work

\* A value that is no instance is just taken from the list
LEMMA ClearPlain ==
    ASSUME NEW L, NEW s \in Lists, Sound(L, s.h, s.c, s.todo), s.todo # <<>>,
           ~IsInst(Head(s.todo))
    PROVE  Better(L, s, ClearNext(s))
  <1> DEFINE t == [s EXCEPT !.todo = Tail(@)]
  <1>1. ClearNext(s) = t
    BY DEF ClearNext
  <1>2. s.h \in Seq(Insts) /\ s.c \in Seq(CellSet) /\ s.todo \in Seq(Nat)
    BY DEF Lists
  <1>3. t.h = s.h /\ t.c = s.c /\ t.todo = Tail(s.todo) /\ t \in Lists
    <2>1. Tail(s.todo) \in Seq(Nat)
      BY <1>2, HeadAndTail
    <2>2. QED
      BY <1>2, <2>1 DEF Lists
  <1>4. /\ s.todo \in Seq(0..Len(s.h)) /\ Tail(s.todo) \in Seq(0..Len(s.h))
        /\ Len(Tail(s.todo)) = Len(s.todo) - 1 /\ Len(s.todo) \in Nat
        /\ Head(s.todo) = 0
    <2>1. s.todo \in Seq(0..Len(s.h)) /\ Len(s.h) \in Nat
      BY <1>2 DEF Sound, Typed
    <2>2. /\ Tail(s.todo) \in Seq(0..Len(s.h)) /\ Head(s.todo) \in 0..Len(s.h)
          /\ Len(s.todo) \in Nat /\ Len(Tail(s.todo)) = Len(s.todo) - 1
      BY <2>1, HeadAndTail
    <2>3. QED
      BY <2>1, <2>2 DEF IsInst
  <1>5. ASSUME NEW i \in DOMAIN s.h
        PROVE  Cardinality(InList(Tail(s.todo), i)) = Cardinality(InList(s.todo, i))
    <2>1. i # 0
      BY <1>2
    <2>2. Cardinality(InList(Tail(s.todo), i)) \in Nat
      BY <1>4, ListFinite
    <2>3. Cardinality(InList(s.todo, i))
           = Cardinality(InList(Tail(s.todo), i)) + (IF Head(s.todo) = i THEN 1 ELSE 0)
      BY <1>4, CountTail
    <2>4. QED
      BY <1>4, <2>1, <2>2, <2>3
  <1>6. Sound(L, s.h, s.c, Tail(s.todo))
    <2>1. Typed(L, s.h, s.c, Tail(s.todo)) /\ Tidy(s.h, s.c)
      BY <1>4 DEF Sound, Typed
    <2>2. \A i \in DOMAIN s.h : Refs(L, s.c, Tail(s.todo), i) = Refs(L, s.c, s.todo, i)
      BY <1>5 DEF Refs
    <2>3. Counted(L, s.h, s.c, Tail(s.todo))
      BY <2>2 DEF Sound, Counted
    <2>4. QED
      BY <2>1, <2>3 DEF Sound
  <1>7. Kept(s.h, s.c, s.h, s.c)
    BY KeptSelf DEF Sound
  <1>8. Work(t) + 1 <= Work(s)
    <2>1. Len(s.c) \in Nat /\ Cardinality(Living(s.h)) \in Nat
      BY <1>2, LivingFinite
    <2>2. Len(s.c) * Cardinality(Living(s.h)) \in Nat
      BY <2>1
    <2>3. QED
      BY <1>3, <1>4, <2>2 DEF Work
  <1> HIDE DEF t
  <1>9. QED
    BY <1>1, <1>3, <1>6, <1>7, <1>8 DEF Better

\* References without the first value of the list
LEMMA RefsTail ==
    ASSUME NEW L, NEW h, NEW c, NEW vs, Typed(L, h, c, vs), vs # <<>>, NEW i
    PROVE  /\ Refs(L, c, vs, i) \in Nat /\ Refs(L, c, Tail(vs), i) \in Nat
           /\ Refs(L, c, Tail(vs), i) = Refs(L, c, vs, i) - (IF i = Head(vs) THEN 1 ELSE 0)
  <1>1. vs \in Seq(0..Len(h))
    BY DEF Typed
  <1>2. Tail(vs) \in Seq(0..Len(h))
    BY <1>1, HeadAndTail
  <1>3. /\ Cardinality(InVars(L, i)) \in Nat /\ Cardinality(InCells(c, i)) \in Nat
        /\ Cardinality(InList(vs, i)) \in Nat
    BY RefTypes
  <1>4. Cardinality(InList(Tail(vs), i)) \in Nat
    BY <1>2, ListFinite
  <1>5. Cardinality(InList(vs, i))
         = Cardinality(InList(Tail(vs), i)) + (IF Head(vs) = i THEN 1 ELSE 0)
    BY <1>1, CountTail
  <1>6. QED
    BY <1>3, <1>4, <1>5 DEF Refs

\* The values of destroyed cells and another list
LEMMA DeadRefs ==
    ASSUME NEW L, NEW h, NEW c, NEW us, Typed(L, h, c, us), NEW ks,
           \A k \in ks : k \in DOMAIN c /\ c[k].live, NEW i \in Nat \ {0}
    PROVE  /\ Values(c, ks) \in Seq(0..Len(h)) /\ Values(c, ks) \o us \in Seq(0..Len(h))
           /\ Len(Values(c, ks) \o us) = Len(c) + Len(us)
           /\ Typed(L, h, Dead(c, ks), Values(c, ks) \o us)
           /\ Refs(L, Dead(c, ks), Values(c, ks) \o us, i) = Refs(L, c, us, i)
  <1>1. /\ h \in Seq(Insts) /\ c \in Seq(CellSet) /\ us \in Seq(0..Len(h)) /\ Len(h) \in Nat
        /\ \A k \in DOMAIN c : c[k].v \in 0..Len(h)
    BY DEF Typed
  <1>2. /\ Dead(c, ks) \in Seq(CellSet) /\ DOMAIN Dead(c, ks) = DOMAIN c
        /\ DOMAIN c = 1..Len(c) /\ Len(c) \in Nat /\ DOMAIN Values(c, ks) = DOMAIN c
        /\ Len(Values(c, ks)) = Len(c)
        /\ \A k \in DOMAIN c :
             Dead(c, ks)[k] = IF k \in ks THEN [v |-> Plain, live |-> FALSE] ELSE c[k]
    BY <1>1, DeadTypes
  <1>3. Values(c, ks) \in Seq(0..Len(h))
    <2>1. Values(c, ks) = [k \in 1..Len(c) |-> IF k \in ks THEN c[k].v ELSE 0]
      BY <1>2 DEF Values, Plain
    <2>2. \A k \in 1..Len(c) : (IF k \in ks THEN c[k].v ELSE 0) \in 0..Len(h)
      BY <1>1, <1>2
    <2>3. Values(c, ks) \in [1..Len(c) -> 0..Len(h)]
      BY <2>1, <2>2
    <2>4. QED
      BY <1>2, <2>3
  <1>4. Values(c, ks) \o us \in Seq(0..Len(h)) /\ Len(Values(c, ks) \o us) = Len(c) + Len(us)
    <2>1. PICK S : S = 0..Len(h)
      OBVIOUS
    <2>2. Values(c, ks) \in Seq(S) /\ us \in Seq(S)
      BY <1>1, <1>3, <2>1
    <2>3. Values(c, ks) \o us \in Seq(S) /\ Len(Values(c, ks) \o us) = Len(Values(c, ks)) + Len(us)
      BY <2>2, ConcatProperties
    <2>4. QED
      BY <1>2, <2>1, <2>3
  <1>5. Typed(L, h, Dead(c, ks), Values(c, ks) \o us)
    <2>1. \A k \in DOMAIN c : Dead(c, ks)[k].v \in 0..Len(h)
      BY <1>1, <1>2 DEF Plain
    <2>2. L \in [Roots -> 0..Len(h)]
      BY DEF Typed
    <2>3. QED
      BY <1>1, <1>2, <1>4, <2>1, <2>2 DEF Typed
  <1>6. IsFiniteSet(InCells(c, i)) /\ Cardinality(InCells(Dead(c, ks), i)) \in Nat
    BY <1>5, RefTypes
  <1>7. Cardinality(InCells(c, i))
         = Cardinality(InCells(Dead(c, ks), i)) + Cardinality(InList(Values(c, ks), i))
    BY <1>1, <1>6, DeadCount
  <1>8. Cardinality(InList(Values(c, ks) \o us, i))
         = Cardinality(InList(Values(c, ks), i)) + Cardinality(InList(us, i))
    BY <1>1, <1>3, CountConcat
  <1>9. /\ Cardinality(InVars(L, i)) \in Nat /\ Cardinality(InList(us, i)) \in Nat
        /\ Cardinality(InList(Values(c, ks), i)) \in Nat
    BY <1>3, RefTypes, ListFinite
  <1>10. QED
    BY <1>3, <1>4, <1>5, <1>6, <1>7, <1>8, <1>9 DEF Refs

\* The first value of the list is an instance: it lives, and is counted
LEMMA FirstLives ==
    ASSUME NEW L, NEW h, NEW c, NEW vs, Sound(L, h, c, vs), vs # <<>>, IsInst(Head(vs))
    PROVE  /\ Head(vs) \in DOMAIN h /\ h[Head(vs)].live /\ h[Head(vs)] \in Insts
           /\ h[Head(vs)].refcount = Refs(L, c, vs, Head(vs)) /\ Refs(L, c, vs, Head(vs)) \in Nat
  <1>1. Typed(L, h, c, vs) /\ Counted(L, h, c, vs)
    BY DEF Sound
  <1>2. h \in Seq(Insts) /\ vs \in Seq(0..Len(h)) /\ Len(h) \in Nat
    BY <1>1 DEF Typed
  <1>3. Head(vs) \in 0..Len(h)
    BY <1>2, HeadAndTail
  <1>4. Head(vs) \in DOMAIN h
    BY <1>2, <1>3 DEF IsInst
  <1>5. /\ Refs(L, c, vs, Head(vs)) \in Nat
        /\ Refs(L, c, Tail(vs), Head(vs)) \in Nat
        /\ Refs(L, c, Tail(vs), Head(vs)) = Refs(L, c, vs, Head(vs)) - 1
    BY <1>1, RefsTail
  <1>6. h[Head(vs)].live /\ h[Head(vs)].refcount = Refs(L, c, vs, Head(vs))
    BY <1>1, <1>4, <1>5 DEF Counted
  <1>7. h[Head(vs)] \in Insts
    BY <1>2, <1>4, ElementOfSeq
  <1>8. QED
    BY <1>4, <1>5, <1>6, <1>7

\* An instance replaced by one that has the same cells, or none
LEMMA TidyReplace ==
    ASSUME NEW h \in Seq(Insts), NEW c, NEW b, Tidy(h, c), NEW v \in DOMAIN h, NEW o \in Insts,
           Apart(o), o.live \/ Owned(o) = {}, Owned(o) \in SUBSET Owned(h[v]),
           DOMAIN b = DOMAIN c,
           \A k \in DOMAIN c : b[k] = c[k] \/ k \in Owned(h[v]) \ Owned(o)
    PROVE  Tidy([h EXCEPT ![v] = o], b)
  <1> DEFINE g == [h EXCEPT ![v] = o]
  <1>1. DOMAIN g = DOMAIN h /\ g[v] = o /\ \A i \in DOMAIN h : i # v => g[i] = h[i]
    OBVIOUS
  <1> HIDE DEF g
  <1>2. \A i \in DOMAIN h : Owned(g[i]) \in SUBSET Owned(h[i])
    BY <1>1
  <1>3. \A i \in DOMAIN g : Apart(g[i]) /\ (g[i].live \/ Owned(g[i]) = {})
    BY <1>1 DEF Tidy
  <1>4. ASSUME NEW i \in DOMAIN g, NEW k \in Owned(g[i]) PROVE k \in DOMAIN b /\ b[k].live
    <2>1. k \in Owned(h[i]) /\ i \in DOMAIN h
      BY <1>1, <1>2
    <2>2. k \in DOMAIN c /\ c[k].live
      BY <2>1 DEF Tidy
    <2>3. k \notin Owned(h[v]) \ Owned(o)
      <3>1. CASE i = v
        BY <1>1, <3>1
      <3>2. CASE i # v
        BY <2>1, <3>2 DEF Tidy
      <3>3. QED
        BY <3>1, <3>2
    <2>4. QED
      BY <2>2, <2>3
  <1>5. \A i, j \in DOMAIN g : i # j => Owned(g[i]) \cap Owned(g[j]) = {}
    BY <1>1, <1>2 DEF Tidy
  <1>6. Tidy(g, b)
    BY <1>3, <1>4, <1>5 DEF Tidy
  <1>7. QED
    BY <1>6 DEF g

\* A reference that is not the last one
LEMMA ClearCounted ==
    ASSUME NEW L, NEW s \in Lists, Sound(L, s.h, s.c, s.todo), s.todo # <<>>,
           IsInst(Head(s.todo)), s.h[Head(s.todo)].refcount - 1 > 0
    PROVE  Better(L, s, ClearNext(s))
  <1>1. PICK v : v = Head(s.todo)
    OBVIOUS
  <1>2. PICK h : h = s.h
    OBVIOUS
  <1>3. PICK n : n = h[v].refcount - 1
    OBVIOUS
  <1>4. PICK o : o = [h[v] EXCEPT !.refcount = n]
    OBVIOUS
  <1>5. PICK g : g = [h EXCEPT ![v] = o]
    OBVIOUS
  <1>6. /\ v \in DOMAIN h /\ h[v].live /\ h[v] \in Insts /\ h[v].refcount \in Nat
        /\ h[v].refcount = Refs(L, s.c, s.todo, v)
    BY <1>1, <1>2, FirstLives
  <1>7. h \in Seq(Insts) /\ s.c \in Seq(CellSet) /\ s.todo \in Seq(Nat)
    BY <1>2 DEF Lists
  <1>8. /\ o \in Insts /\ o.live /\ o.cls = h[v].cls /\ Owned(o) = Owned(h[v])
        /\ Apart(o) = Apart(h[v]) /\ o.refcount = n /\ n \in Int /\ n > 0
    BY <1>1, <1>2, <1>3, <1>4, <1>6, OwnedOfCount
  <1>9. DOMAIN g = DOMAIN h /\ g[v] = o /\ (\A i \in DOMAIN h : i # v => g[i] = h[i]) /\ g \in Seq(Insts)
    BY <1>5, <1>6, <1>7, <1>8
  <1>10. ClearNext(s) = [h |-> g, c |-> s.c, todo |-> Tail(s.todo)]
    <2>1. [s.h EXCEPT ![Head(s.todo)].refcount = @ - 1] = g
      BY <1>1, <1>2, <1>3, <1>4, <1>5
    <2>2. g[Head(s.todo)].refcount > 0 /\ g[Head(s.todo)].refcount \in Int
      BY <1>1, <1>8, <1>9
    <2>3. ~(g[Head(s.todo)].refcount <= 0)
      BY <2>2
    <2>4. QED
      BY <2>1, <2>3 DEF ClearNext
  <1>11. Typed(L, h, s.c, s.todo) /\ Counted(L, h, s.c, s.todo) /\ Tidy(h, s.c)
    BY <1>2 DEF Sound
  <1>12. Tail(s.todo) \in Seq(Nat) /\ Len(s.todo) \in Nat /\ Len(Tail(s.todo)) = Len(s.todo) - 1
    BY <1>7, HeadAndTail
  <1>13. Tail(s.todo) \in Seq(0..Len(h))
    BY <1>11, HeadAndTail DEF Typed
  <1>14. Len(g) = Len(h)
    BY <1>7, <1>9
  <1>15. Typed(L, g, s.c, Tail(s.todo))
    BY <1>9, <1>11, <1>13, <1>14 DEF Typed
  <1>16. Counted(L, g, s.c, Tail(s.todo))
    <2>1. \A i \in DOMAIN h : Refs(L, s.c, Tail(s.todo), i)
            = Refs(L, s.c, s.todo, i) - (IF i = v THEN 1 ELSE 0)
      BY <1>1, <1>11, RefsTail
    <2>2. g[v].live /\ g[v].refcount = h[v].refcount - 1 /\ g[v].refcount > 0
      BY <1>3, <1>8, <1>9
    <2>3. QED
      BY <1>6, <1>9, <1>11, <2>1, <2>2, CountedLess
  <1>17. Tidy(g, s.c)
    <2>1. Apart(h[v])
      BY <1>6, <1>11 DEF Tidy
    <2>2. QED
      BY <1>5, <1>6, <1>7, <1>8, <1>11, <2>1, TidyReplace
  <1>18. Kept(h, s.c, g, s.c)
    <2>1. \A i \in DOMAIN h : h[i] \in Insts
      BY <1>7, ElementOfSeq
    <2>2. \A i \in DOMAIN h : h[i] = [h[i] EXCEPT !.refcount = h[i].refcount]
      BY <2>1 DEF Insts
    <2>3. g[v] = [h[v] EXCEPT !.refcount = g[v].refcount]
      BY <1>4, <1>8, <1>9
    <2>4. ASSUME NEW i \in DOMAIN h
          PROVE  /\ g[i].cls = h[i].cls
                 /\ g[i].live = h[i].live
                 /\ g[i] = [h[i] EXCEPT !.refcount = g[i].refcount]
      <3>1. CASE i = v
        BY <3>1, <2>3, <1>6, <1>8, <1>9
      <3>2. CASE i # v
        BY <3>2, <2>2, <1>9
      <3>3. QED
        BY <3>1, <3>2
    <2>5. QED
      BY <1>9, <2>4 DEF Kept
  <1>19. PICK t : t = [h |-> g, c |-> s.c, todo |-> Tail(s.todo)]
    OBVIOUS
  <1>20. t \in Lists /\ t.h = g /\ t.c = s.c /\ t.todo = Tail(s.todo)
    BY <1>7, <1>9, <1>12, <1>19 DEF Lists
  <1>21. Work(t) + 1 <= Work(s)
    <2>1. \A i \in DOMAIN h : g[i].live <=> h[i].live
      <3> TAKE i \in DOMAIN h
      <3>1. QED
        BY <1>6, <1>8, <1>9
    <2>2. Living(g) = Living(h)
      BY <1>9, <2>1 DEF Living
    <2>3. Len(s.c) \in Nat /\ Cardinality(Living(h)) \in Nat
      BY <1>7, LivingFinite
    <2>4. Len(s.c) * Cardinality(Living(h)) \in Nat
      BY <2>3
    <2>5. QED
      BY <1>2, <1>12, <1>20, <2>2, <2>4 DEF Work
  <1>22. Sound(L, t.h, t.c, t.todo) /\ Kept(s.h, s.c, t.h, t.c)
    BY <1>2, <1>15, <1>16, <1>17, <1>18, <1>20 DEF Sound
  <1>23. QED
    BY <1>10, <1>19, <1>20, <1>21, <1>22 DEF Better

\* The last reference: the instance and its cells are destroyed
LEMMA ClearLast ==
    ASSUME NEW L, NEW s \in Lists, Sound(L, s.h, s.c, s.todo), s.todo # <<>>,
           IsInst(Head(s.todo)), s.h[Head(s.todo)].refcount - 1 <= 0
    PROVE  Better(L, s, ClearNext(s))
  <1>1. PICK v : v = Head(s.todo)
    OBVIOUS
  <1>2. PICK h : h = s.h
    OBVIOUS
  <1>3. PICK ks : ks = Owned(h[v])
    OBVIOUS
  <1>4. PICK o : o = Blank(h[v].cls)
    OBVIOUS
  <1>5. PICK g : g = [h EXCEPT ![v] = o]
    OBVIOUS
  <1>6. /\ v \in DOMAIN h /\ h[v].live /\ h[v] \in Insts /\ h[v].refcount \in Nat
        /\ h[v].refcount = Refs(L, s.c, s.todo, v)
    BY <1>1, <1>2, FirstLives
  <1>7. h \in Seq(Insts) /\ s.c \in Seq(CellSet) /\ s.todo \in Seq(Nat)
    BY <1>2 DEF Lists
  <1>8. o \in Insts /\ ~o.live /\ o.cls = h[v].cls /\ Owned(o) = {} /\ Apart(o)
    <2>1. h[v].cls \in Classes
      BY <1>6 DEF Insts
    <2>2. QED
      BY <1>4, <2>1, BlankTypes
  <1>9. DOMAIN g = DOMAIN h /\ g[v] = o /\ (\A i \in DOMAIN h : i # v => g[i] = h[i]) /\ g \in Seq(Insts)
    BY <1>5, <1>6, <1>7, <1>8
  <1>10. PICK b : b = Dead(s.c, ks)
    OBVIOUS
  <1>11. PICK us : us = Values(s.c, ks) \o Tail(s.todo)
    OBVIOUS
  <1>12. ClearNext(s) = [h |-> g, c |-> b, todo |-> us]
    <2>1. PICK m : m = [h EXCEPT ![v].refcount = @ - 1]
      OBVIOUS
    <2>n. PICK n : n = h[v].refcount - 1
      OBVIOUS
    <2>2. m[v] = [h[v] EXCEPT !.refcount = n] /\ DOMAIN m = DOMAIN h
          /\ \A i \in DOMAIN h : i # v => m[i] = h[i]
      BY <2>1, <2>n, <1>6
    <2>3. /\ Owned(m[v]) = ks /\ m[v].live /\ m[v].cls = h[v].cls
          /\ m[v].refcount = h[v].refcount - 1
      BY <1>3, <1>6, <2>2, <2>n, OwnedOfCount
    <2>4. [m EXCEPT ![v] = Blank(@.cls)] = g
      <3>1. [m EXCEPT ![v] = Blank(@.cls)] = [m EXCEPT ![v] = o]
        BY <1>4, <1>6, <2>2, <2>3
      <3>2. [m EXCEPT ![v] = o] = [i \in DOMAIN h |-> IF i = v THEN o ELSE h[i]]
        BY <1>6, <2>2
      <3>3. g = [i \in DOMAIN h |-> IF i = v THEN o ELSE h[i]]
        BY <1>5, <1>6
      <3>4. QED
        BY <3>1, <3>2, <3>3
    <2>5. m[v].refcount <= 0
      BY <1>1, <1>2, <2>3
    <2>6. m = [s.h EXCEPT ![Head(s.todo)].refcount = @ - 1]
      BY <1>1, <1>2, <2>1
    <2>7. QED
      BY <1>1, <1>2, <1>10, <1>11, <2>3, <2>4, <2>5, <2>6 DEF ClearNext
  <1>13. Typed(L, h, s.c, s.todo) /\ Counted(L, h, s.c, s.todo) /\ Tidy(h, s.c)
    BY <1>2 DEF Sound
  <1>14. Len(s.todo) \in Nat /\ Len(Tail(s.todo)) = Len(s.todo) - 1
    BY <1>7, HeadAndTail
  <1>15. Tail(s.todo) \in Seq(0..Len(h))
    BY <1>13, HeadAndTail DEF Typed
  <1>16. Typed(L, h, s.c, Tail(s.todo))
    BY <1>13, <1>15 DEF Typed
  <1>17. \A k \in ks : k \in DOMAIN s.c /\ s.c[k].live
    BY <1>3, <1>6, <1>13 DEF Tidy
  <1>18. Len(g) = Len(h) /\ DOMAIN h = 1..Len(h) /\ Len(h) \in Nat
    BY <1>7, <1>9
  <1>19. /\ us \in Seq(0..Len(h)) /\ Len(us) = Len(s.c) + Len(Tail(s.todo))
         /\ Typed(L, h, b, us)
         /\ \A i \in Nat \ {0} : Refs(L, b, us, i) = Refs(L, s.c, Tail(s.todo), i)
    <2>1. ASSUME NEW i \in Nat \ {0}
          PROVE  /\ us \in Seq(0..Len(h)) /\ Len(us) = Len(s.c) + Len(Tail(s.todo))
                 /\ Typed(L, h, b, us)
                 /\ Refs(L, b, us, i) = Refs(L, s.c, Tail(s.todo), i)
      <3>1. PICK c, rs : c = s.c /\ rs = Tail(s.todo)
        OBVIOUS
      <3>2. Typed(L, h, c, rs) /\ (\A k \in ks : k \in DOMAIN c /\ c[k].live)
        BY <1>16, <1>17, <3>1
      <3>3. /\ Values(c, ks) \o rs \in Seq(0..Len(h))
            /\ Len(Values(c, ks) \o rs) = Len(c) + Len(rs)
            /\ Typed(L, h, Dead(c, ks), Values(c, ks) \o rs)
            /\ Refs(L, Dead(c, ks), Values(c, ks) \o rs, i) = Refs(L, c, rs, i)
        BY <3>2, DeadRefs
      <3>4. b = Dead(c, ks) /\ us = Values(c, ks) \o rs
        BY <1>10, <1>11, <3>1
      <3>5. QED
        BY <3>1, <3>3, <3>4
    <2>2. 1 \in Nat \ {0}
      OBVIOUS
    <2>3. QED
      BY <2>1, <2>2
  <1>20. Typed(L, g, b, us)
    BY <1>9, <1>18, <1>19 DEF Typed
  <1>21. Counted(L, g, b, us)
    <2>1. \A i \in DOMAIN h : Refs(L, b, us, i)
            = Refs(L, s.c, s.todo, i) - (IF i = v THEN 1 ELSE 0)
      <3>1. \A i \in DOMAIN h : Refs(L, s.c, Tail(s.todo), i)
              = Refs(L, s.c, s.todo, i) - (IF i = v THEN 1 ELSE 0)
        BY <1>1, <1>13, RefsTail
      <3>2. \A i \in DOMAIN h : i \in Nat \ {0}
        BY <1>18
      <3>3. QED
        BY <1>19, <3>1, <3>2
    <2>2. ~g[v].live /\ h[v].refcount - 1 <= 0
      BY <1>1, <1>2, <1>8, <1>9
    <2>3. QED
      BY <1>6, <1>9, <1>13, <2>1, <2>2, CountedLess
  <1>22. /\ b \in Seq(CellSet) /\ Len(b) = Len(s.c) /\ DOMAIN b = DOMAIN s.c /\ Len(s.c) \in Nat
         /\ \A k \in DOMAIN s.c :
              b[k] = IF k \in ks THEN [v |-> Plain, live |-> FALSE] ELSE s.c[k]
    <2>1. PICK c : c = s.c
      OBVIOUS
    <2>2. c \in Seq(CellSet)
      BY <1>7, <2>1
    <2>3. /\ Dead(c, ks) \in Seq(CellSet) /\ Len(Dead(c, ks)) = Len(c)
          /\ DOMAIN Dead(c, ks) = DOMAIN c /\ Len(c) \in Nat
      BY <2>2, DeadTypes
    <2>4. \A k \in DOMAIN c :
            Dead(c, ks)[k] = IF k \in ks THEN [v |-> Plain, live |-> FALSE] ELSE c[k]
      BY DEF Dead
    <2>5. QED
      BY <1>10, <2>1, <2>3, <2>4
  <1>23. Tidy(g, b)
    <2>1. PICK c : c = s.c
      OBVIOUS
    <2>2. \A k \in DOMAIN c : b[k] = c[k] \/ k \in Owned(h[v]) \ Owned(o)
      BY <1>3, <1>8, <1>22, <2>1
    <2>3. Tidy(h, c) /\ DOMAIN b = DOMAIN c
      BY <1>13, <1>22, <2>1
    <2>4. Owned(o) \in SUBSET Owned(h[v])
      BY <1>8
    <2>5. QED
      BY <1>5, <1>6, <1>7, <1>8, <2>2, <2>3, <2>4, TidyReplace
  <1>24. Kept(h, s.c, g, b)
    <2>1. \A i \in DOMAIN h : h[i] \in Insts
      BY <1>7, ElementOfSeq
    <2>2. \A i \in DOMAIN h : h[i] = [h[i] EXCEPT !.refcount = h[i].refcount]
      BY <2>1 DEF Insts
    <2>3. \A k \in ks : ~b[k].live
      BY <1>17, <1>22
    <2>4. ASSUME NEW i \in DOMAIN h
          PROVE  /\ g[i].cls = h[i].cls
                 /\ g[i].live => h[i].live /\ g[i] = [h[i] EXCEPT !.refcount = g[i].refcount]
                 /\ ~g[i].live /\ h[i].live => \A k \in Owned(h[i]) : ~b[k].live
      <3>1. CASE i = v
        BY <3>1, <2>3, <1>3, <1>8, <1>9
      <3>2. CASE i # v
        BY <3>2, <2>2, <1>9
      <3>3. QED
        BY <3>1, <3>2
    <2>5. \A k \in DOMAIN s.c : b[k] = s.c[k] \/ ~b[k].live
      BY <1>22
    <2>6. QED
      BY <1>9, <1>22, <2>4, <2>5 DEF Kept
  <1>25. PICK t : t = [h |-> g, c |-> b, todo |-> us]
    OBVIOUS
  <1>26. t \in Lists /\ t.h = g /\ t.c = b /\ t.todo = us
    <2>1. us \in Seq(Nat)
      BY <1>18, <1>19
    <2>2. QED
      BY <1>9, <1>22, <1>25, <2>1 DEF Lists
  <1>27. Work(t) + 1 <= Work(s)
    <2>1. Living(g) = Living(h) \ {v} /\ v \in Living(h)
      BY <1>6, <1>8, <1>9 DEF Living
    <2>2. IsFiniteSet(Living(h)) /\ Cardinality(Living(h)) \in Nat
      BY <1>7, LivingFinite
    <2>3. PICK n \in Nat : n = Cardinality(Living(h))
      BY <2>2
    <2>4. Cardinality(Living(g)) = n - 1
      BY <2>1, <2>2, <2>3, FS_RemoveElement
    <2>5. PICK l \in Nat : l = Len(s.c)
      BY <1>22
    <2>6. l * (n - 1) = l * n - l /\ l * n \in Nat
      OBVIOUS
    <2>7. Work(s) = Len(s.todo) + l * n
      BY <1>2, <2>3, <2>5 DEF Work
    <2>8. Work(t) = (l + (Len(s.todo) - 1)) + l * (n - 1)
      BY <1>14, <1>19, <1>22, <1>26, <2>4, <2>5 DEF Work
    <2>9. PICK p, q, w : p = l * n /\ q = l * (n - 1) /\ w = Len(s.todo)
      OBVIOUS
    <2>10. p \in Nat /\ q = p - l /\ w \in Nat
      BY <1>14, <2>6, <2>9
    <2>11. Work(s) = w + p /\ Work(t) = (l + (w - 1)) + q
      BY <2>7, <2>8, <2>9
    <2>12. QED
      BY <2>10, <2>11
  <1>28. Sound(L, t.h, t.c, t.todo) /\ Kept(s.h, s.c, t.h, t.c)
    BY <1>2, <1>20, <1>21, <1>23, <1>24, <1>26 DEF Sound
  <1>29. QED
    BY <1>12, <1>25, <1>26, <1>27, <1>28 DEF Better

\* One step of clearing a list makes the work smaller and leaves the rest sound
LEMMA ClearStep ==
    ASSUME NEW L, NEW s \in Lists, Sound(L, s.h, s.c, s.todo), s.todo # <<>>
    PROVE  Better(L, s, ClearNext(s))
  <1>1. CASE ~IsInst(Head(s.todo))
    BY <1>1, ClearPlain
  <1>2. CASE IsInst(Head(s.todo)) /\ s.h[Head(s.todo)].refcount - 1 > 0
    BY <1>2, ClearCounted
  <1>3. CASE IsInst(Head(s.todo)) /\ ~(s.h[Head(s.todo)].refcount - 1 > 0)
    <2>1. PICK h, c, vs : h = s.h /\ c = s.c /\ vs = s.todo
      OBVIOUS
    <2>2. h[Head(vs)].refcount = Refs(L, c, vs, Head(vs)) /\ Refs(L, c, vs, Head(vs)) \in Nat
      BY <1>3, <2>1, FirstLives
    <2>3. s.h[Head(s.todo)].refcount - 1 <= 0
      BY <1>3, <2>1, <2>2
    <2>4. QED
      BY <1>3, <2>3, ClearLast
  <1>4. QED
    BY <1>1, <1>2, <1>3

\* A state on the way from the instances g and the cells b
OnTheWay(L, g, b, t) ==
    /\ t \in Lists
    /\ Sound(L, t.h, t.c, t.todo)
    /\ Kept(g, b, t.h, t.c)

\* A step on the way
LEMMA WayStep ==
    ASSUME NEW L, NEW g, NEW b, NEW us, Sound(L, g, b, us), NEW t, OnTheWay(L, g, b, t)
    PROVE  /\ OnTheWay(L, g, b, Cleared(t))
           /\ t.todo = <<>> => Cleared(t) = t
           /\ t.todo # <<>> => Work(Cleared(t)) + 1 <= Work(t)
  <1>1. CASE t.todo = <<>>
    BY <1>1 DEF Cleared
  <1>2. CASE t.todo # <<>>
    <2>1. Cleared(t) = ClearNext(t)
      BY <1>2 DEF Cleared
    <2>2. Better(L, t, ClearNext(t))
      BY <1>2, ClearStep DEF OnTheWay
    <2>3. PICK u : u = ClearNext(t)
      OBVIOUS
    <2>4. /\ u \in Lists /\ Sound(L, u.h, u.c, u.todo) /\ Kept(t.h, t.c, u.h, u.c)
          /\ Work(u) + 1 <= Work(t)
      BY <2>2, <2>3 DEF Better
    <2>5. /\ \A i \in DOMAIN g : g[i] \in Insts
          /\ \A k \in DOMAIN b : b[k] \in CellSet
          /\ \A i \in DOMAIN g : \A k \in Owned(g[i]) : k \in DOMAIN b
      <3>1. g \in Seq(Insts) /\ b \in Seq(CellSet)
        BY DEF Sound, Typed
      <3>2. QED
        BY <3>1, ElementOfSeq DEF Sound, Tidy
    <2>6. Kept(g, b, u.h, u.c)
      <3>1. PICK h, c, hh, cc : h = t.h /\ c = t.c /\ hh = u.h /\ cc = u.c
        OBVIOUS
      <3>2. Kept(g, b, h, c) /\ Kept(h, c, hh, cc)
        BY <2>4, <3>1 DEF OnTheWay
      <3>3. QED
        BY <2>5, <3>1, <3>2, KeptTwice
    <2>7. QED
      BY <1>2, <2>1, <2>3, <2>4, <2>6 DEF OnTheWay
  <1>3. QED
    BY <1>1, <1>2

\* Values that are no instances count for nothing
LEMMA PlainValues ==
    ASSUME NEW L, NEW h, NEW c, NEW vs, Sound(L, h, c, vs), \A k \in DOMAIN vs : ~IsInst(vs[k])
    PROVE  Sound(L, h, c, <<>>)
  <1>1. Typed(L, h, c, vs) /\ Counted(L, h, c, vs) /\ Tidy(h, c)
    BY DEF Sound
  <1>2. Typed(L, h, c, <<>>)
    BY <1>1 DEF Typed
  <1>3. DOMAIN h = 1..Len(h) /\ Len(h) \in Nat
    BY <1>1 DEF Typed
  <1>4. ASSUME NEW i \in DOMAIN h PROVE Refs(L, c, <<>>, i) = Refs(L, c, vs, i)
    <2>1. i > 0
      BY <1>3
    <2>2. InList(vs, i) = {}
      BY <2>1 DEF InList, IsInst
    <2>3. InList(<<>>, i) = {}
      BY DEF InList
    <2>4. QED
      BY <2>2, <2>3 DEF Refs
  <1>5. Counted(L, h, c, <<>>)
    BY <1>1, <1>4 DEF Counted
  <1>6. QED
    BY <1>1, <1>2, <1>5 DEF Sound

\* After varClear the counts are right without the values that it cleared,
\* whatever was destroyed with them.
LEMMA VarClearSound ==
    ASSUME NEW L, NEW h, NEW c, NEW vs, Sound(L, h, c, vs)
    PROVE  /\ Sound(L, varClear(h, c, vs).h, varClear(h, c, vs).c, <<>>)
           /\ Kept(h, c, varClear(h, c, vs).h, varClear(h, c, vs).c)
  <1>1. CASE \A k \in DOMAIN vs : ~IsInst(vs[k])
    <2>1. varClear(h, c, vs) = [h |-> h, c |-> c]
      BY <1>1 DEF varClear
    <2>2. varClear(h, c, vs).h = h /\ varClear(h, c, vs).c = c
      BY <2>1
    <2>3. Kept(h, c, h, c)
      BY KeptSelf DEF Sound
    <2>4. Sound(L, h, c, <<>>)
      BY <1>1, PlainValues
    <2>5. QED
      BY <2>2, <2>3, <2>4
  <1>2. CASE ~(\A k \in DOMAIN vs : ~IsInst(vs[k]))
    <2>1. PICK s : s = [h |-> h, c |-> c, todo |-> vs]
      OBVIOUS
    <2>2. PICK n : n = Len(vs) + Len(c) * Len(h)
      OBVIOUS
    <2>3. PICK r : r = Clearing(s, n)
      OBVIOUS
    <2>4. varClear(h, c, vs) = [h |-> r[n].h, c |-> r[n].c]
      BY <1>2, <2>1, <2>2, <2>3 DEF varClear
    <2>5. Typed(L, h, c, vs)
      BY DEF Sound
    <2>6. /\ h \in Seq(Insts) /\ c \in Seq(CellSet) /\ vs \in Seq(0..Len(h))
          /\ Len(h) \in Nat /\ Len(c) \in Nat /\ Len(vs) \in Nat
      BY <2>5 DEF Typed
    <2>7. n \in Nat
      <3>1. Len(c) * Len(h) \in Nat
        BY <2>6
      <3>2. QED
        BY <2>2, <2>6, <3>1
    <2>8. s \in Lists /\ s.h = h /\ s.c = c /\ s.todo = vs
      <3>1. vs \in Seq(Nat)
        BY <2>6
      <3>2. QED
        BY <2>1, <2>6, <3>1 DEF Lists
    <2>9. OnTheWay(L, h, c, s)
      <3>1. Kept(h, c, h, c)
        BY <2>5, KeptSelf
      <3>2. QED
        BY <2>8, <3>1 DEF OnTheWay
    <2>10. Work(s) <= n /\ Work(s) \in Nat
      <3>1. PICK w \in Nat : w = Cardinality(Living(h)) /\ w <= Len(h)
        BY <2>6, LivingFinite
      <3>2. PICK l \in Nat, m \in Nat, d \in Nat : l = Len(c) /\ m = Len(h) /\ d = Len(vs)
        BY <2>6
      <3>3. l * w <= l * m /\ l * w \in Nat /\ l * m \in Nat
        BY <3>1, <3>2
      <3>4. Work(s) = d + l * w /\ n = d + l * m
        BY <2>2, <2>8, <3>1, <3>2 DEF Work
      <3>5. QED
        BY <3>3, <3>4
    <2>11. /\ r[0] = s
           /\ \A k \in 0..(n - 1) : r[k + 1] = Cleared(r[k])
      BY <2>3, <2>7, ClearingSteps
    <2> DEFINE S == {k \in Nat : k <= n =>
                       /\ OnTheWay(L, h, c, r[k])
                       /\ r[k].todo = <<>> \/ Work(r[k]) + k <= n}
    <2>12. 0 \in S
      BY <2>7, <2>9, <2>10, <2>11
    <2>13. ASSUME NEW k \in S PROVE k + 1 \in S
      <3>1. SUFFICES ASSUME k + 1 <= n
                     PROVE  /\ OnTheWay(L, h, c, r[k + 1])
                            /\ r[k + 1].todo = <<>> \/ Work(r[k + 1]) + (k + 1) <= n
        OBVIOUS
      <3>2. k \in Nat /\ k <= n /\ k \in 0..(n - 1)
        BY <2>7, <3>1
      <3>3. PICK t : t = r[k]
        OBVIOUS
      <3>4. OnTheWay(L, h, c, t) /\ (t.todo = <<>> \/ Work(t) + k <= n)
        BY <3>2, <3>3
      <3>5. r[k + 1] = Cleared(t)
        BY <2>11, <3>2, <3>3
      <3>6. /\ OnTheWay(L, h, c, Cleared(t))
            /\ t.todo = <<>> => Cleared(t) = t
            /\ t.todo # <<>> => Work(Cleared(t)) + 1 <= Work(t)
        BY <3>4, WayStep
      <3>7. CASE t.todo = <<>>
        BY <3>5, <3>6, <3>7
      <3>8. CASE t.todo # <<>>
        <4>1. Work(t) \in Nat
          BY <3>4, WorkNat DEF OnTheWay
        <4>2. Work(Cleared(t)) \in Nat
          BY <3>6, WorkNat DEF OnTheWay
        <4>3. Work(Cleared(t)) + (k + 1) <= n
          BY <2>7, <3>2, <3>4, <3>6, <3>8, <4>1, <4>2
        <4>4. QED
          BY <3>5, <3>6, <4>3
      <3>9. QED
        BY <3>7, <3>8
    <2>14. n \in S
      <3> HIDE DEF S
      <3>1. S \in SUBSET Nat
        BY DEF S
      <3>2. S = Nat
        BY <2>12, <2>13, <3>1, Induction
      <3>3. QED
        BY <2>7, <3>2
    <2>15. OnTheWay(L, h, c, r[n]) /\ (r[n].todo = <<>> \/ Work(r[n]) + n <= n)
      BY <2>7, <2>14
    <2> HIDE DEF S
    <2>16. PICK t : t = r[n]
      OBVIOUS
    <2>17. t \in Lists /\ Sound(L, t.h, t.c, t.todo) /\ Kept(h, c, t.h, t.c)
      BY <2>15, <2>16 DEF OnTheWay
    <2>18. t.todo = <<>>
      <3>1. CASE Work(t) + n <= n
        <4>1. Work(t) \in Nat /\ Len(t.todo) <= Work(t)
          BY <2>17, WorkNat
        <4>2. t.todo \in Seq(Nat) /\ Len(t.todo) \in Nat
          BY <2>17 DEF Lists
        <4>3. Len(t.todo) = 0
          BY <2>7, <3>1, <4>1, <4>2
        <4>4. QED
          BY <4>2, <4>3
      <3>2. QED
        BY <2>15, <2>16, <3>1
    <2>19. varClear(h, c, vs).h = t.h /\ varClear(h, c, vs).c = t.c
      BY <2>4, <2>16
    <2>20. QED
      BY <2>17, <2>18, <2>19
  <1>3. QED
    BY <1>1, <1>2

-----------------------------------------------------------------------------
(* What clearing keeps                                                     *)

\* Other fields of an instance that do not depend on its count
LEMMA FieldsOfCount ==
    ASSUME NEW o \in Insts, NEW n, NEW g, g = [o EXCEPT !.refcount = n]
    PROVE  /\ g.cls = o.cls /\ g.elems = o.elems /\ g.hidden = o.hidden /\ g.dims = o.dims
           /\ g.want = o.want /\ g.made = o.made /\ g.live = o.live /\ Owned(g) = Owned(o)
  BY DEF Insts, Owned

\* An instance with the same elements and indexes holds the same
LEMMA SameShape ==
    ASSUME NEW o, NEW g, NEW c,
           g.cls = o.cls, g.elems = o.elems, g.hidden = o.hidden, g.dims = o.dims,
           g.want = o.want
    PROVE  /\ Shaped(o) => Shaped(g)
           /\ Holds(o, c) => Holds(g, c)
           /\ \A p : At(g, p) <=> At(o, p)
           /\ \A p : Numbered(o, p) => Numbered(g, p)
  <1>1. \A k : Place(g, k) = Place(o, k)
    BY DEF Place
  <1>2. QED
    BY <1>1 DEF Shaped, Holds, At, Numbered

\* A holder keeps what it holds if its cells stay
LEMMA HoldsSame ==
    ASSUME NEW o, NEW b, NEW c, Holds(o, c), \A k \in Owned(o) : b[k] = c[k]
    PROVE  Holds(o, b)
  <1>1. \A e \in DOMAIN o.elems : o.elems[e] \in Owned(o)
    BY DEF Owned, Range
  <1>2. QED
    BY <1>1 DEF Holds

\* What is left after clearing is as complete, holds the same and has the same
\* references pending.
LEMMA TidyRest ==
    ASSUME NEW h \in Seq(Insts), NEW c, NEW P, NEW F, Rest(h, c, P, F), Tidy(h, c),
           NEW g, NEW b, Kept(h, c, g, b), Tidy(g, b)
    PROVE  Rest(g, b, P, F)
  <1>1. DOMAIN g = DOMAIN h /\ DOMAIN b = DOMAIN c
    BY DEF Kept
  <1>2. Tidy(h, c) /\ Tidy(g, b)
    OBVIOUS
  <1>3. \A i \in DOMAIN h : h[i] \in Insts
    BY ElementOfSeq
  <1>4. ASSUME NEW i \in DOMAIN h, g[i].live
        PROVE  /\ h[i].live
               /\ g[i].cls = h[i].cls /\ g[i].elems = h[i].elems /\ g[i].hidden = h[i].hidden
               /\ g[i].dims = h[i].dims /\ g[i].want = h[i].want /\ Owned(g[i]) = Owned(h[i])
    <2>1. h[i].live /\ g[i] = [h[i] EXCEPT !.refcount = g[i].refcount]
      BY <1>4 DEF Kept
    <2>2. PICK o, f, r : o = h[i] /\ f = g[i] /\ r = g[i].refcount
      OBVIOUS
    <2>3. o \in Insts /\ f = [o EXCEPT !.refcount = r]
      BY <1>3, <2>1, <2>2
    <2>4. /\ f.cls = o.cls /\ f.elems = o.elems /\ f.hidden = o.hidden /\ f.dims = o.dims
          /\ f.want = o.want /\ Owned(f) = Owned(o)
      BY <2>3 DEF Insts, Owned
    <2>5. QED
      BY <2>1, <2>2, <2>4
  <1>5. ASSUME NEW i \in DOMAIN h PROVE Owned(g[i]) \in SUBSET Owned(h[i])
    <2>1. CASE g[i].live
      BY <1>4, <2>1
    <2>2. CASE ~g[i].live
      BY <1>1, <1>2, <2>2 DEF Tidy
    <2>3. QED
      BY <2>1, <2>2
  <1>6. ASSUME NEW i \in DOMAIN h, NEW k \in Owned(h[i]), b[k].live
        PROVE  g[i].live
    <2>1. h[i].live
      BY <1>2 DEF Tidy
    <2>2. QED
      BY <1>6, <2>1 DEF Kept
  <1>7. \A k \in DOMAIN c : b[k].live => b[k] = c[k]
    BY DEF Kept
  <1>8. F # {} \/ Complete(g, b)
    <2>1. SUFFICES ASSUME Complete(h, c) PROVE Complete(g, b)
      BY DEF Rest
    <2>2. SUFFICES ASSUME NEW k \in DOMAIN b, b[k].live
                   PROVE  \E i \in DOMAIN g : k \in Owned(g[i])
      BY DEF Complete
    <2>3. k \in DOMAIN c /\ c[k].live
      BY <1>1, <1>7, <2>2
    <2>4. PICK i \in DOMAIN h : k \in Owned(h[i])
      BY <2>1, <2>3 DEF Complete
    <2>5. g[i].live
      BY <1>6, <2>2, <2>4
    <2>6. k \in Owned(g[i])
      BY <1>4, <2>4, <2>5
    <2>7. QED
      BY <1>1, <2>6
  <1>9. Contents(g, b)
    <2>1. SUFFICES ASSUME NEW i \in DOMAIN g, g[i].live PROVE Shaped(g[i]) /\ Holds(g[i], b)
      BY DEF Contents
    <2>2. i \in DOMAIN h
      BY <1>1
    <2>3. /\ h[i].live
          /\ g[i].cls = h[i].cls /\ g[i].elems = h[i].elems /\ g[i].hidden = h[i].hidden
          /\ g[i].dims = h[i].dims /\ g[i].want = h[i].want /\ Owned(g[i]) = Owned(h[i])
      BY <1>4, <2>1, <2>2
    <2>4. Shaped(h[i]) /\ Holds(h[i], c)
      BY <2>2, <2>3 DEF Rest, Contents
    <2>5. Shaped(g[i]) /\ Holds(g[i], c)
      BY <2>3, <2>4, SameShape
    <2>6. \A k \in Owned(g[i]) : k \in DOMAIN b /\ b[k].live
      BY <1>2, <2>1 DEF Tidy
    <2>7. \A k \in Owned(g[i]) : b[k] = c[k]
      BY <1>1, <1>7, <2>6
    <2>8. QED
      BY <2>5, <2>7, HoldsSame
  <1>10. P \in Seq(Pendings)
    BY DEF Rest
  <1>11. ASSUME NEW n \in DOMAIN P PROVE Pends(g, b, P[n])
    <2>1. PICK p : p = P[n]
      OBVIOUS
    <2>2. Pends(h, c, p)
      BY <2>1 DEF Rest
    <2>3. /\ p.cell \in DOMAIN c /\ p.inst \in DOMAIN h /\ h[p.inst].cls \in {"Vector", "Array"}
          /\ \A i \in DOMAIN h : p.cell \in Owned(h[i]) => i = p.inst /\ At(h[i], p)
          /\ h[p.inst].live /\ At(h[p.inst], p) => Numbered(h[p.inst], p)
      BY <2>2 DEF Pends
    <2>4. g[p.inst].cls \in {"Vector", "Array"}
      BY <2>3 DEF Kept
    <2>5. ASSUME NEW i \in DOMAIN g, p.cell \in Owned(g[i]) PROVE i = p.inst /\ At(g[i], p)
      <3>1. i \in DOMAIN h /\ p.cell \in Owned(h[i])
        BY <1>1, <1>5, <2>5
      <3>2. i = p.inst /\ At(h[i], p)
        BY <2>3, <3>1
      <3>3. g[i].live
        BY <1>2, <2>5 DEF Tidy
      <3>4. g[i].elems = h[i].elems
        BY <1>4, <3>1, <3>3
      <3>5. QED
        BY <3>2, <3>4 DEF At
    <2>6. ASSUME g[p.inst].live, At(g[p.inst], p) PROVE Numbered(g[p.inst], p)
      <3>1. PICK i \in DOMAIN h : i = p.inst
        BY <2>3
      <3>2. /\ h[i].live
            /\ g[i].cls = h[i].cls /\ g[i].elems = h[i].elems /\ g[i].hidden = h[i].hidden
            /\ g[i].dims = h[i].dims /\ g[i].want = h[i].want
        BY <1>4, <2>6, <3>1
      <3>3. At(h[i], p)
        BY <2>6, <3>1, <3>2 DEF At
      <3>4. Numbered(h[i], p)
        BY <2>3, <3>1, <3>2, <3>3
      <3>5. Numbered(g[i], p)
        BY <3>2, <3>4, SameShape
      <3>6. QED
        BY <3>1, <3>5
    <2>7. QED
      BY <1>1, <2>1, <2>3, <2>4, <2>5, <2>6 DEF Pends
  <1>12. ASSUME "remade" \notin F, NEW n \in DOMAIN P, b[P[n].cell].live
         PROVE  At(g[P[n].inst], P[n])
    <2>1. PICK p : p = P[n]
      OBVIOUS
    <2>2. p.cell \in DOMAIN c /\ p.inst \in DOMAIN h
      BY <2>1 DEF Rest, Pends
    <2>3. c[p.cell].live
      BY <1>7, <1>12, <2>1, <2>2
    <2>4. At(h[p.inst], p)
      BY <1>12, <2>1, <2>3 DEF Rest
    <2>5. p.cell \in Owned(h[p.inst])
      BY <2>4 DEF At, Owned, Range
    <2>6. g[p.inst].live
      BY <1>6, <1>12, <2>1, <2>2, <2>5
    <2>7. g[p.inst].elems = h[p.inst].elems
      BY <1>4, <2>2, <2>6
    <2>8. QED
      BY <2>1, <2>4, <2>7 DEF At
  <1>13. QED
    BY <1>8, <1>9, <1>10, <1>11, <1>12 DEF Rest

\* So it is for sound states.
LEMMA KeptRest ==
    ASSUME NEW L, NEW h, NEW c, NEW vs, Sound(L, h, c, vs), NEW P, NEW F, Rest(h, c, P, F),
           NEW M, NEW g, NEW b, NEW us, Sound(M, g, b, us), Kept(h, c, g, b)
    PROVE  Rest(g, b, P, F)
  <1>1. h \in Seq(Insts) /\ Tidy(h, c) /\ Tidy(g, b)
    BY DEF Sound, Typed
  <1>2. QED
    BY <1>1, TidyRest

-----------------------------------------------------------------------------
(* Values on the stack and in variables                                    *)

\* What refers to an instance is an instance that lives
LEMMA HeldLives ==
    ASSUME NEW L, NEW h, NEW c, NEW vs, Sound(L, h, c, vs), NEW i \in DOMAIN h,
           \/ \E x \in Roots : L[x] = i
           \/ \E k \in DOMAIN c : c[k].live /\ c[k].v = i
           \/ \E k \in DOMAIN vs : vs[k] = i
    PROVE  h[i].live
  <1>1. Typed(L, h, c, vs) /\ Counted(L, h, c, vs)
    BY DEF Sound
  <1>2. /\ IsFiniteSet(InVars(L, i)) /\ Cardinality(InVars(L, i)) \in Nat
        /\ IsFiniteSet(InCells(c, i)) /\ Cardinality(InCells(c, i)) \in Nat
        /\ IsFiniteSet(InList(vs, i)) /\ Cardinality(InList(vs, i)) \in Nat
    BY <1>1, RefTypes
  <1>3. SUFFICES ASSUME ~h[i].live PROVE FALSE
    OBVIOUS
  <1>4. Refs(L, c, vs, i) = 0
    BY <1>1, <1>3 DEF Counted
  <1>5. /\ Cardinality(InVars(L, i)) = 0 /\ Cardinality(InCells(c, i)) = 0
        /\ Cardinality(InList(vs, i)) = 0
    BY <1>2, <1>4 DEF Refs
  <1>6. InVars(L, i) = {} /\ InCells(c, i) = {} /\ InList(vs, i) = {}
    BY <1>2, <1>5, FS_EmptySet
  <1>7. QED
    BY <1>6 DEF InVars, InCells, InList

\* Counts that change as the references do
LEMMA CountedAs ==
    ASSUME NEW L, NEW h, NEW c, NEW vs, NEW M, NEW g, NEW b, NEW us,
           Typed(L, h, c, vs), Counted(L, h, c, vs), DOMAIN g = DOMAIN h,
           \A i \in DOMAIN h :
              \/ /\ g[i].live <=> h[i].live
                 /\ g[i].refcount = h[i].refcount
                 /\ Refs(M, b, us, i) = Refs(L, c, vs, i)
              \/ /\ g[i].live /\ h[i].live
                 /\ g[i].refcount = h[i].refcount + 1
                 /\ Refs(M, b, us, i) = Refs(L, c, vs, i) + 1
    PROVE  Counted(M, g, b, us)
  <1>1. \A i \in DOMAIN h : Refs(L, c, vs, i) \in Nat
    BY RefTypes DEF Refs
  <1>2. ASSUME NEW i \in DOMAIN g
        PROVE  IF g[i].live THEN g[i].refcount = Refs(M, b, us, i) /\ Refs(M, b, us, i) > 0
                            ELSE Refs(M, b, us, i) = 0
    <2>1. i \in DOMAIN h /\ Refs(L, c, vs, i) \in Nat
      BY <1>1
    <2>2. IF h[i].live THEN h[i].refcount = Refs(L, c, vs, i) /\ Refs(L, c, vs, i) > 0
                       ELSE Refs(L, c, vs, i) = 0
      BY <2>1 DEF Counted
    <2>3. CASE /\ g[i].live <=> h[i].live
               /\ g[i].refcount = h[i].refcount
               /\ Refs(M, b, us, i) = Refs(L, c, vs, i)
      BY <2>2, <2>3
    <2>4. CASE /\ g[i].live /\ h[i].live
               /\ g[i].refcount = h[i].refcount + 1
               /\ Refs(M, b, us, i) = Refs(L, c, vs, i) + 1
      BY <2>1, <2>2, <2>4
    <2>5. QED
      BY <2>1, <2>3, <2>4
  <1>3. QED
    BY <1>2 DEF Counted

\* A list of one value
LEMMA CountOne ==
    ASSUME NEW S, NEW v \in S, NEW i
    PROVE  /\ Cardinality(InList(<<v>>, i)) = IF v = i THEN 1 ELSE 0
           /\ Cardinality(InList(<<>>, i)) = 0
  <1>1. InList(<<>>, i) = {}
    BY DEF InList
  <1>2. InList(<<v>>, i) = IF v = i THEN {1} ELSE {}
    BY DEF InList
  <1>3. Cardinality({}) = 0 /\ Cardinality({1}) = 1
    BY FS_EmptySet, FS_Singleton
  <1>4. QED
    BY <1>1, <1>2, <1>3

\* One reference more
LEMMA RefFields ==
    ASSUME NEW h \in Seq(Insts), NEW v \in 0..Len(h)
    PROVE  /\ jsinstRef(h, v) \in Seq(Insts) /\ DOMAIN jsinstRef(h, v) = DOMAIN h
           /\ Len(jsinstRef(h, v)) = Len(h)
           /\ \A i \in DOMAIN h : i # v => jsinstRef(h, v)[i] = h[i]
           /\ v \in DOMAIN h =>
                jsinstRef(h, v)[v] = [h[v] EXCEPT !.refcount = h[v].refcount + 1]
           /\ v = 0 \/ v \in DOMAIN h
  <1>1. Len(h) \in Nat /\ DOMAIN h = 1..Len(h)
    OBVIOUS
  <1>2. CASE v = 0
    <2>1. jsinstRef(h, v) = h
      BY <1>2 DEF jsinstRef, IsInst
    <2>2. QED
      BY <1>1, <1>2, <2>1
  <1>3. CASE v # 0
    <2>1. v \in DOMAIN h /\ IsInst(v)
      BY <1>1, <1>3 DEF IsInst
    <2>2. h[v] \in Insts /\ h[v].refcount + 1 \in Int
      <3>1. h[v] \in Insts
        BY <2>1, ElementOfSeq
      <3>2. QED
        BY <3>1 DEF Insts
    <2>3. PICK o : o = [h[v] EXCEPT !.refcount = h[v].refcount + 1]
      OBVIOUS
    <2>4. o \in Insts
      BY <2>2, <2>3, OwnedOfCount
    <2>5. jsinstRef(h, v) = [h EXCEPT ![v] = o]
      BY <2>1, <2>3 DEF jsinstRef
    <2>6. PICK g : g = [h EXCEPT ![v] = o]
      OBVIOUS
    <2>7. g \in Seq(Insts) /\ DOMAIN g = DOMAIN h /\ Len(g) = Len(h)
      BY <2>1, <2>4, <2>6
    <2>8. g[v] = o /\ \A i \in DOMAIN h : i # v => g[i] = h[i]
      BY <2>1, <2>6
    <2>9. QED
      BY <2>1, <2>3, <2>5, <2>6, <2>7, <2>8
  <1>4. QED
    BY <1>2, <1>3

\* Instances that differ in their counts only are as tidy
LEMMA TidyCounts ==
    ASSUME NEW h, NEW g, NEW c, Tidy(h, c), DOMAIN g = DOMAIN h,
           \A i \in DOMAIN h : /\ Owned(g[i]) = Owned(h[i]) /\ Apart(g[i]) = Apart(h[i])
                               /\ g[i].live <=> h[i].live
    PROVE  Tidy(g, c)
  <1>1. \A i \in DOMAIN g : Apart(g[i]) /\ (g[i].live \/ Owned(g[i]) = {})
    BY DEF Tidy
  <1>2. \A i \in DOMAIN g : \A k \in Owned(g[i]) : k \in DOMAIN c /\ c[k].live
    BY DEF Tidy
  <1>3. \A i, j \in DOMAIN g : i # j => Owned(g[i]) \cap Owned(g[j]) = {}
    BY DEF Tidy
  <1>4. QED
    BY <1>1, <1>2, <1>3 DEF Tidy

\* A value is counted when it is on the stack
LEMMA RefSound ==
    ASSUME NEW L, NEW h, NEW c, Sound(L, h, c, <<>>), NEW v \in 0..Len(h), v # 0 => h[v].live
    PROVE  Sound(L, jsinstRef(h, v), c, <<v>>) /\ Kept(h, c, jsinstRef(h, v), c)
  <1>1. Typed(L, h, c, <<>>) /\ Counted(L, h, c, <<>>) /\ Tidy(h, c)
    BY DEF Sound
  <1>2. h \in Seq(Insts)
    BY <1>1 DEF Typed
  <1>3. PICK g : g = jsinstRef(h, v)
    OBVIOUS
  <1>4. /\ g \in Seq(Insts) /\ DOMAIN g = DOMAIN h /\ Len(g) = Len(h)
        /\ \A i \in DOMAIN h : i # v => g[i] = h[i]
        /\ v \in DOMAIN h => g[v] = [h[v] EXCEPT !.refcount = h[v].refcount + 1]
        /\ v = 0 \/ v \in DOMAIN h
    <2>1. /\ jsinstRef(h, v) \in Seq(Insts) /\ DOMAIN jsinstRef(h, v) = DOMAIN h
          /\ Len(jsinstRef(h, v)) = Len(h)
          /\ \A i \in DOMAIN h : i # v => jsinstRef(h, v)[i] = h[i]
          /\ v \in DOMAIN h =>
               jsinstRef(h, v)[v] = [h[v] EXCEPT !.refcount = h[v].refcount + 1]
          /\ v = 0 \/ v \in DOMAIN h
      BY <1>2, RefFields
    <2>2. QED
      BY <1>3, <2>1
  <1>5. \A i \in DOMAIN h : h[i] \in Insts /\ i # 0
    BY <1>2, ElementOfSeq
  <1>6. ASSUME NEW i \in DOMAIN h
        PROVE  /\ Owned(g[i]) = Owned(h[i]) /\ Apart(g[i]) = Apart(h[i])
               /\ g[i].live <=> h[i].live
               /\ g[i].cls = h[i].cls
               /\ g[i] = [h[i] EXCEPT !.refcount = g[i].refcount]
               /\ g[i].refcount = h[i].refcount + (IF i = v THEN 1 ELSE 0)
    <2>1. h[i] \in Insts /\ h[i].refcount \in Int
      BY <1>5 DEF Insts
    <2>2. CASE i = v
      <3>1. PICK n : n = h[i].refcount + 1
        OBVIOUS
      <3>2. g[i] = [h[i] EXCEPT !.refcount = n]
        BY <1>4, <2>2, <3>1
      <3>3. g[i].refcount = n
        BY <2>1, <3>2, OwnedOfCount
      <3>4. QED
        BY <2>1, <2>2, <3>1, <3>2, <3>3, OwnedOfCount
    <2>3. CASE i # v
      <3>1. g[i] = h[i] /\ h[i] = [h[i] EXCEPT !.refcount = h[i].refcount]
        BY <1>4, <2>1, <2>3 DEF Insts
      <3>2. QED
        BY <2>1, <2>3, <3>1
    <2>4. QED
      BY <2>2, <2>3
  <1>7. Typed(L, g, c, <<v>>)
    BY <1>1, <1>4 DEF Typed
  <1>8. Tidy(g, c)
    BY <1>1, <1>4, <1>6, TidyCounts
  <1>9. Counted(L, g, c, <<v>>)
    <2>1. ASSUME NEW i \in DOMAIN h
          PROVE  \/ /\ g[i].live <=> h[i].live
                    /\ g[i].refcount = h[i].refcount
                    /\ Refs(L, c, <<v>>, i) = Refs(L, c, <<>>, i)
                 \/ /\ g[i].live /\ h[i].live
                    /\ g[i].refcount = h[i].refcount + 1
                    /\ Refs(L, c, <<v>>, i) = Refs(L, c, <<>>, i) + 1
      <3>1. /\ Cardinality(InVars(L, i)) \in Nat /\ Cardinality(InCells(c, i)) \in Nat
        BY <1>1, RefTypes
      <3>2. /\ Cardinality(InList(<<v>>, i)) = IF v = i THEN 1 ELSE 0
            /\ Cardinality(InList(<<>>, i)) = 0
        BY CountOne
      <3>3. h[i].refcount \in Int /\ i # 0
        BY <1>5 DEF Insts
      <3>4. Refs(L, c, <<v>>, i) = Refs(L, c, <<>>, i) + (IF i = v THEN 1 ELSE 0)
        BY <3>1, <3>2 DEF Refs
      <3>5. Refs(L, c, <<>>, i) \in Nat
        BY <3>1, <3>2 DEF Refs
      <3>6. /\ g[i].refcount = h[i].refcount + (IF i = v THEN 1 ELSE 0)
            /\ g[i].live <=> h[i].live
        BY <1>6
      <3>7. CASE i = v
        BY <3>3, <3>4, <3>5, <3>6, <3>7
      <3>8. CASE i # v
        BY <3>3, <3>4, <3>5, <3>6, <3>8
      <3>9. QED
        BY <3>7, <3>8
    <2>2. QED
      BY <1>1, <1>4, <2>1, CountedAs
  <1>10. Kept(h, c, g, c)
    BY <1>4, <1>6 DEF Kept
  <1>11. QED
    BY <1>3, <1>7, <1>8, <1>9, <1>10 DEF Sound

\* A set with and without an element
LEMMA Without ==
    ASSUME NEW S, IsFiniteSet(S), NEW y
    PROVE  /\ Cardinality(S \ {y}) \in Nat /\ IsFiniteSet(S \ {y})
           /\ Cardinality(S) = Cardinality(S \ {y}) + (IF y \in S THEN 1 ELSE 0)
  <1>1. CASE y \in S
    <2>1. IsFiniteSet(S \ {y}) /\ Cardinality(S \ {y}) = Cardinality(S) - 1
      BY <1>1, FS_RemoveElement
    <2>2. Cardinality(S) \in Nat /\ Cardinality(S \ {y}) \in Nat
      BY <2>1, FS_CardinalityType
    <2>3. QED
      BY <1>1, <2>1, <2>2
  <1>2. CASE y \notin S
    <2>1. S \ {y} = S
      BY <1>2
    <2>2. Cardinality(S) \in Nat
      BY FS_CardinalityType
    <2>3. PICK T : T = S \ {y}
      OBVIOUS
    <2>4. T = S
      BY <2>1, <2>3
    <2>5. Cardinality(T) \in Nat /\ IsFiniteSet(T) /\ Cardinality(S) = Cardinality(T) + 0
      BY <2>2, <2>4
    <2>6. QED
      BY <1>2, <2>3, <2>5
  <1>3. QED
    BY <1>1, <1>2

\* The value on the stack goes to a variable, and the old one of the variable
\* is to be cleared.
LEMMA SwapSound ==
    ASSUME NEW L, NEW h, NEW c, NEW v \in 0..Len(h), Sound(L, h, c, <<v>>), NEW y \in Roots
    PROVE  Sound([L EXCEPT ![y] = v], h, c, <<L[y]>>)
  <1>1. Typed(L, h, c, <<v>>) /\ Counted(L, h, c, <<v>>) /\ Tidy(h, c)
    BY DEF Sound
  <1>2. L \in [Roots -> 0..Len(h)] /\ <<v>> \in Seq(0..Len(h))
    BY <1>1 DEF Typed
  <1>3. v \in 0..Len(h) /\ L[y] \in 0..Len(h)
    BY <1>2
  <1>4. PICK M : M = [L EXCEPT ![y] = v]
    OBVIOUS
  <1>5. M \in [Roots -> 0..Len(h)] /\ M[y] = v /\ \A x \in Roots : x # y => M[x] = L[x]
    BY <1>2, <1>3, <1>4
  <1>6. Typed(M, h, c, <<L[y]>>)
    BY <1>1, <1>3, <1>5 DEF Typed
  <1>7. ASSUME NEW i \in DOMAIN h PROVE Refs(M, c, <<L[y]>>, i) = Refs(L, c, <<v>>, i)
    <2>1. IsFiniteSet(InVars(L, i)) /\ IsFiniteSet(InVars(M, i)) /\ Cardinality(InCells(c, i)) \in Nat
      BY <1>1, <1>6, RefTypes
    <2>2. InVars(L, i) \ {y} = InVars(M, i) \ {y}
      BY <1>5 DEF InVars
    <2>3. y \in InVars(L, i) <=> L[y] = i
      BY DEF InVars
    <2>4. y \in InVars(M, i) <=> v = i
      BY <1>5 DEF InVars
    <2>5. PICK n \in Nat : n = Cardinality(InVars(L, i) \ {y})
      BY <2>1, Without
    <2>6. Cardinality(InVars(L, i)) = n + (IF L[y] = i THEN 1 ELSE 0)
      BY <2>1, <2>3, <2>5, Without
    <2>7. Cardinality(InVars(M, i)) = n + (IF v = i THEN 1 ELSE 0)
      <3>1. PICK R, S : R = InVars(M, i) \ {y} /\ S = InVars(M, i)
        OBVIOUS
      <3>2. Cardinality(S) = Cardinality(S \ {y}) + (IF y \in S THEN 1 ELSE 0)
        BY <2>1, <3>1, Without
      <3>3. Cardinality(R) = n
        BY <2>2, <2>5, <3>1
      <3>4. QED
        BY <2>4, <3>1, <3>2, <3>3
    <2>8. /\ Cardinality(InList(<<v>>, i)) = IF v = i THEN 1 ELSE 0
          /\ Cardinality(InList(<<L[y]>>, i)) = IF L[y] = i THEN 1 ELSE 0
      BY CountOne
    <2>9. QED
      BY <2>1, <2>6, <2>7, <2>8 DEF Refs
  <1>8. Counted(M, h, c, <<L[y]>>)
    BY <1>1, <1>7 DEF Counted
  <1>9. QED
    BY <1>1, <1>4, <1>6, <1>8 DEF Sound

\* An answer that is an instance that lives, or no instance, goes to a variable.
LEMMA AnswerSound ==
    ASSUME NEW L, NEW h, NEW c, Sound(L, h, c, <<>>), NEW P, NEW F, Rest(h, c, P, F),
           NEW v \in 0..Len(h), v # 0 => h[v].live, NEW y \in Roots,
           NEW m, m = varClear(jsinstRef(h, v), c, <<L[y]>>)
    PROVE  /\ Sound([L EXCEPT ![y] = v], m.h, m.c, <<>>)
           /\ Rest(m.h, m.c, P, F)
  <1>1. PICK g : g = jsinstRef(h, v)
    OBVIOUS
  <1>2. Sound(L, g, c, <<v>>) /\ Kept(h, c, g, c)
    BY <1>1, RefSound
  <1>3. PICK M, us : M = [L EXCEPT ![y] = v] /\ us = <<L[y]>>
    OBVIOUS
  <1>4. Sound(M, g, c, us)
    <2>1. v \in 0..Len(g)
      <3>1. h \in Seq(Insts)
        BY DEF Sound, Typed
      <3>2. Len(g) = Len(h)
        BY <1>1, <3>1, RefFields
      <3>3. QED
        BY <3>2
    <2>2. QED
      BY <1>2, <1>3, <2>1, SwapSound
  <1>5. m = varClear(g, c, us)
    BY <1>1, <1>3
  <1>6. Sound(M, m.h, m.c, <<>>) /\ Kept(g, c, m.h, m.c)
    BY <1>4, <1>5, VarClearSound
  <1>7. Rest(g, c, P, F)
    BY <1>2, KeptRest
  <1>8. Rest(m.h, m.c, P, F)
    BY <1>4, <1>6, <1>7, KeptRest
  <1>9. QED
    BY <1>3, <1>6, <1>8

\* The variables, one after the other
LEMMA SequenceOfVars ==
    ASSUME NEW n, n = Cardinality(Vars), NEW f, f = SetToSeq(Vars)
    PROVE  /\ f \in [1..n -> Vars] /\ n \in Nat
           /\ \A j, k \in 1..n : f[j] = f[k] => j = k
           /\ \A x \in Vars : \E k \in 1..n : f[k] = x
  <1>1. n \in Nat /\ IsFiniteSet(Vars)
    BY RootsFinite
  <1>2. ExistsBijection(1..n, Vars)
    <2>1. PICK m \in Nat : ExistsBijection(1..m, Vars)
      BY <1>1, FS_NatBijection
    <2>2. m = n
      BY <2>1, FS_CountingElements
    <2>3. QED
      BY <2>1, <2>2
  <1>3. PICK g : g \in Bijection(1..n, Vars)
    BY <1>2 DEF ExistsBijection
  <1>4. g \in [1..n -> Vars] /\ IsInjective(g)
    BY <1>3 DEF Bijection, Injection, IsInjective
  <1>5. f \in [1..n -> Vars] /\ IsInjective(f)
    BY <1>4 DEF SetToSeq
  <1>6. \A j, k \in 1..n : f[j] = f[k] => j = k
    BY <1>5 DEF IsInjective
  <1>7. \A x \in Vars : \E k \in 1..n : f[k] = x
    <2>1. IsFiniteSet(1..n) /\ Cardinality(1..n) = n
      <3>1. PICK m \in Nat : m = n
        BY <1>1
      <3>2. IsFiniteSet(1..m) /\ Cardinality(1..m) = IF 1 > m THEN 0 ELSE m - 1 + 1
        BY FS_Interval
      <3>3. QED
        BY <3>1, <3>2
    <2>2. PICK R : R = {f[k] : k \in 1..n}
      OBVIOUS
    <2>3. R \in SUBSET Vars
      BY <1>5, <2>2
    <2>4. f \in Bijection(1..n, R)
      BY <1>5, <1>6, <2>2 DEF Bijection, Injection, Surjection, IsInjective
    <2>5. Cardinality(R) = n
      BY <2>1, <2>4, FS_Bijection DEF ExistsBijection
    <2>6. R = Vars
      BY <1>1, <2>3, <2>5, FS_Subset
    <2>7. QED
      BY <2>2, <2>6
  <1>8. QED
    BY <1>1, <1>5, <1>6, <1>7

\* The variables, one after the other, and then what is below them
LEMMA SlotsOfRoots ==
    /\ Slots \in [1..Cardinality(Roots) -> Roots] /\ Cardinality(Roots) \in Nat
    /\ \A j, k \in 1..Cardinality(Roots) : Slots[j] = Slots[k] => j = k
    /\ \A x \in Roots : \E k \in 1..Cardinality(Roots) : Slots[k] = x
  <1>1. PICK n, f, g : n = Cardinality(Vars) /\ f = SetToSeq(Vars) /\ g = Slots
    OBVIOUS
  <1>2. /\ f \in [1..n -> Vars] /\ n \in Nat
        /\ \A j, k \in 1..n : f[j] = f[k] => j = k
        /\ \A x \in Vars : \E k \in 1..n : f[k] = x
    BY <1>1, SequenceOfVars
  <1>3. Cardinality(Roots) = n + 1 /\ Below \notin Vars
    BY <1>1, RootsFinite
  <1>4. f \in Seq(Vars) /\ Len(f) = n
    BY <1>2
  <1>5. /\ DOMAIN g = 1..(n + 1) /\ g[n + 1] = Below
        /\ \A k \in 1..n : g[k] = f[k]
    BY <1>1, <1>2, <1>4 DEF Slots
  <1>6. g \in [1..(n + 1) -> Roots]
    <2>1. \A k \in 1..(n + 1) : k \in 1..n \/ k = n + 1
      BY <1>2
    <2>2. \A k \in 1..(n + 1) : g[k] \in Vars \/ g[k] = Below
      BY <1>2, <1>5, <2>1
    <2>3. g = [k \in 1..(n + 1) |-> g[k]]
      <3>1. g \in Seq(Roots)
        <4>1. f \in Seq(Roots) /\ Below \in Roots
          BY <1>2 DEF Roots
        <4>2. Append(f, Below) \in Seq(Roots)
          BY <4>1
        <4>3. QED
          BY <1>1, <4>2 DEF Slots
      <3>2. g = [k \in 1..Len(g) |-> g[k]] /\ 1..Len(g) = DOMAIN g
        BY <3>1
      <3>3. QED
        BY <1>5, <3>2
    <2>4. QED
      BY <2>2, <2>3 DEF Roots
  <1>7. ASSUME NEW j \in 1..(n + 1), NEW k \in 1..(n + 1), g[j] = g[k] PROVE j = k
    <2>1. (j \in 1..n \/ j = n + 1) /\ (k \in 1..n \/ k = n + 1)
      BY <1>2
    <2>2. \A i \in 1..n : g[i] # Below
      BY <1>2, <1>3, <1>5
    <2>3. QED
      BY <1>2, <1>5, <1>7, <2>1, <2>2
  <1>8. ASSUME NEW x \in Roots PROVE \E k \in 1..(n + 1) : g[k] = x
    <2>1. CASE x = Below
      <3>1. n + 1 \in 1..(n + 1)
        BY <1>2
      <3>2. QED
        BY <1>5, <2>1, <3>1
    <2>2. CASE x \in Vars
      <3>1. PICK k \in 1..n : f[k] = x
        BY <1>2, <2>2
      <3>2. k \in 1..(n + 1) /\ g[k] = x
        BY <1>2, <1>5, <3>1
      <3>3. QED
        BY <3>2
    <2>3. QED
      BY <2>1, <2>2 DEF Roots
  <1>9. n + 1 \in Nat
    BY <1>2
  <1>10. QED
    BY <1>1, <1>3, <1>6, <1>7, <1>8, <1>9

\* The values of variables L, in the order of Slots
ValuesOf(L) == [k \in DOMAIN Slots |-> L[Slots[k]]]

Nothing == [x \in Roots |-> Plain]

\* The variables go, and their values are to be cleared.
LEMMA LeaveSound ==
    ASSUME NEW L, NEW h, NEW c, Sound(L, h, c, <<>>)
    PROVE  Sound(Nothing, h, c, ValuesOf(L))
  <1>1. Typed(L, h, c, <<>>) /\ Counted(L, h, c, <<>>) /\ Tidy(h, c)
    BY DEF Sound
  <1>2. PICK n \in Nat : n = Cardinality(Roots)
    BY SlotsOfRoots
  <1>3. /\ Slots \in [1..n -> Roots]
        /\ \A j, k \in 1..n : Slots[j] = Slots[k] => j = k
        /\ \A x \in Roots : \E k \in 1..n : Slots[k] = x
    BY <1>2, SlotsOfRoots
  <1>4. PICK vs : vs = ValuesOf(L)
    OBVIOUS
  <1>5. L \in [Roots -> 0..Len(h)] /\ h \in Seq(Insts) /\ Len(h) \in Nat
    BY <1>1 DEF Typed
  <1>6. vs = [k \in 1..n |-> L[Slots[k]]]
    BY <1>3, <1>4 DEF ValuesOf
  <1>7. vs \in [1..n -> 0..Len(h)]
    BY <1>3, <1>5, <1>6
  <1>8. vs \in Seq(0..Len(h))
    BY <1>7
  <1>9. Nothing \in [Roots -> 0..Len(h)]
    BY <1>5 DEF Nothing, Plain
  <1>10. Typed(Nothing, h, c, vs)
    BY <1>1, <1>8, <1>9 DEF Typed
  <1>11. ASSUME NEW i \in DOMAIN h PROVE Refs(Nothing, c, vs, i) = Refs(L, c, <<>>, i)
    <2>1. i # 0
      BY <1>5
    <2>2. InVars(Nothing, i) = {}
      BY <2>1 DEF InVars, Nothing, Plain
    <2>3. InList(<<>>, i) = {}
      BY DEF InList
    <2>4. PICK f : f = [k \in InList(vs, i) |-> Slots[k]]
      OBVIOUS
    <2>5. InList(vs, i) \in SUBSET (1..n) /\ \A k \in 1..n : k \in InList(vs, i) <=> L[Slots[k]] = i
      BY <1>6 DEF InList
    <2>6. \A x \in Roots : x \in InVars(L, i) <=> L[x] = i
      BY DEF InVars
    <2>7. InVars(L, i) \in SUBSET Roots
      BY DEF InVars
    <2>8. f \in [InList(vs, i) -> InVars(L, i)]
      BY <1>3, <2>4, <2>5, <2>6
    <2>9. \A j, k \in InList(vs, i) : f[j] = f[k] => j = k
      BY <1>3, <2>4, <2>5
    <2>10. \A x \in InVars(L, i) : \E k \in InList(vs, i) : f[k] = x
      BY <1>3, <2>4, <2>5, <2>6, <2>7
    <2>11. f \in Bijection(InList(vs, i), InVars(L, i))
      BY <2>8, <2>9, <2>10 DEF Bijection, Injection, Surjection, IsInjective
    <2>12. ExistsBijection(InList(vs, i), InVars(L, i))
      BY <2>11 DEF ExistsBijection
    <2>13. IsFiniteSet(InList(vs, i)) /\ Cardinality(InList(vs, i)) \in Nat
      BY <1>8, ListFinite
    <2>14. Cardinality(InVars(L, i)) = Cardinality(InList(vs, i))
      BY <2>12, <2>13, FS_Bijection
    <2>15. Cardinality({}) = 0
      BY FS_EmptySet
    <2>16. Cardinality(InCells(c, i)) \in Nat
      BY <1>1, RefTypes
    <2>17. QED
      <3>1. Cardinality(InVars(Nothing, i)) = 0 /\ Cardinality(InList(<<>>, i)) = 0
        BY <2>2, <2>3, <2>15
      <3>2. QED
        BY <2>13, <2>14, <2>16, <3>1 DEF Refs
  <1>12. Counted(Nothing, h, c, vs)
    BY <1>1, <1>11 DEF Counted
  <1>13. QED
    BY <1>1, <1>4, <1>10, <1>12 DEF Sound

\* No reference is pending when the method is left.
LEMMA RestWithout ==
    ASSUME NEW h, NEW c, NEW P, NEW F, Rest(h, c, P, F)
    PROVE  Rest(h, c, <<>>, F)
  BY DEF Rest

\* The method is left: the state after it
LEMMA LeaveRest ==
    ASSUME NEW L, NEW h, NEW c, Sound(L, h, c, <<>>), NEW P, NEW F, Rest(h, c, P, F),
           NEW m, m = varClear(h, c, ValuesOf(L))
    PROVE  Sound(Nothing, m.h, m.c, <<>>) /\ Rest(m.h, m.c, <<>>, F)
  <1>1. PICK us : us = ValuesOf(L)
    OBVIOUS
  <1>2. Sound(Nothing, h, c, us)
    BY <1>1, LeaveSound
  <1>3. Sound(Nothing, m.h, m.c, <<>>) /\ Kept(h, c, m.h, m.c)
    BY <1>1, <1>2, VarClearSound
  <1>4. Rest(m.h, m.c, P, F)
    BY <1>2, <1>3, KeptRest
  <1>5. QED
    BY <1>3, <1>4, RestWithout

-----------------------------------------------------------------------------
(* New instances                                                           *)

\* An instance without elements
Fresh(o) ==
    /\ o \in Insts /\ o.live
    /\ o.elems = <<>> /\ o.hidden = {} /\ o.want = <<>>

\* It has no cells, and holds nothing.
LEMMA FreshFields ==
    ASSUME NEW o, Fresh(o)
    PROVE  /\ Owned(o) = {} /\ Apart(o) /\ Shaped(o)
           /\ \A c : Holds(o, c)
           /\ \A p : ~At(o, p)
  <1>1. o.elems = <<>> /\ o.hidden = {} /\ o.want = <<>> /\ DOMAIN <<>> = {}
    BY DEF Fresh
  <1>2. Owned(o) = {}
    BY <1>1 DEF Owned, Range
  <1>3. Apart(o)
    BY <1>1 DEF Apart, Range
  <1>4. 0 \in Nat /\ {} = 0..(0 - 1)
    OBVIOUS
  <1>5. DOMAIN o.elems = {} /\ DOMAIN o.want = {}
    BY <1>1
  <1>6. Shaped(o)
    BY <1>1, <1>4, <1>5 DEF Shaped
  <1>7. \A c : Holds(o, c)
    BY <1>5 DEF Holds
  <1>8. QED
    BY <1>2, <1>3, <1>5, <1>6, <1>7 DEF At

\* A new instance at the end
LEMMA AppendFields ==
    ASSUME NEW S, NEW h \in Seq(S), NEW o \in S
    PROVE  /\ Append(h, o) \in Seq(S) /\ Len(Append(h, o)) = Len(h) + 1
           /\ Append(h, o)[Len(h) + 1] = o /\ Len(h) \in Nat
           /\ DOMAIN h = 1..Len(h) /\ DOMAIN Append(h, o) = 1..(Len(h) + 1)
           /\ \A i \in DOMAIN h : Append(h, o)[i] = h[i]
  OBVIOUS

\* A new instance is counted once, for the stack.
LEMMA NewSound ==
    ASSUME NEW L, NEW h, NEW c, Sound(L, h, c, <<>>), NEW o, Fresh(o), o.refcount = 1
    PROVE  Sound(L, Append(h, o), c, <<Len(h) + 1>>) /\ Len(h) + 1 \in 0..Len(Append(h, o))
  <1>1. Typed(L, h, c, <<>>) /\ Counted(L, h, c, <<>>) /\ Tidy(h, c)
    BY DEF Sound
  <1>2. h \in Seq(Insts) /\ o \in Insts
    BY <1>1 DEF Typed, Fresh
  <1>3. PICK g, n : g = Append(h, o) /\ n = Len(h) + 1
    OBVIOUS
  <1>4. /\ g \in Seq(Insts) /\ Len(g) = n /\ g[n] = o /\ Len(h) \in Nat /\ n = Len(h) + 1
        /\ DOMAIN h = 1..Len(h) /\ DOMAIN g = 1..n
        /\ \A i \in DOMAIN h : g[i] = h[i]
    BY <1>2, <1>3, AppendFields
  <1>5. n \in Nat /\ n # 0 /\ n \in DOMAIN g /\ n \notin DOMAIN h /\ n \in 0..Len(g)
    BY <1>4
  <1>6. \A i \in DOMAIN g : i \in DOMAIN h \/ i = n
    BY <1>4
  <1>7. 0..Len(h) \in SUBSET (0..Len(g))
    BY <1>4
  <1>8. Typed(L, g, c, <<n>>)
    <2>1. L \in [Roots -> 0..Len(h)] /\ c \in Seq(CellSet) /\ \A k \in DOMAIN c : c[k].v \in 0..Len(h)
      BY <1>1 DEF Typed
    <2>2. L \in [Roots -> 0..Len(g)] /\ \A k \in DOMAIN c : c[k].v \in 0..Len(g)
      BY <1>7, <2>1
    <2>3. <<n>> \in Seq(0..Len(g))
      BY <1>5
    <2>4. QED
      BY <1>4, <2>1, <2>2, <2>3 DEF Typed
  <1>9. /\ Owned(o) = {} /\ Apart(o)
    BY FreshFields
  <1>10. Tidy(g, c)
    <2>1. \A i \in DOMAIN g : Apart(g[i]) /\ (g[i].live \/ Owned(g[i]) = {})
      BY <1>1, <1>4, <1>6, <1>9 DEF Tidy
    <2>2. \A i \in DOMAIN g : \A k \in Owned(g[i]) : k \in DOMAIN c /\ c[k].live
      BY <1>1, <1>4, <1>6, <1>9 DEF Tidy
    <2>3. \A i, j \in DOMAIN g : i # j => Owned(g[i]) \cap Owned(g[j]) = {}
      BY <1>1, <1>4, <1>6, <1>9 DEF Tidy
    <2>4. QED
      BY <2>1, <2>2, <2>3 DEF Tidy
  <1>11. Counted(L, g, c, <<n>>)
    <2>1. ASSUME NEW i \in DOMAIN g
          PROVE  IF g[i].live THEN g[i].refcount = Refs(L, c, <<n>>, i) /\ Refs(L, c, <<n>>, i) > 0
                              ELSE Refs(L, c, <<n>>, i) = 0
      <3>1. /\ Cardinality(InList(<<n>>, i)) = IF n = i THEN 1 ELSE 0
            /\ Cardinality(InList(<<>>, i)) = 0
        BY CountOne
      <3>2. CASE i \in DOMAIN h
        <4>1. n # i
          BY <1>5, <3>2
        <4>2. Refs(L, c, <<n>>, i) = Refs(L, c, <<>>, i)
          BY <3>1, <4>1 DEF Refs
        <4>3. QED
          BY <1>1, <1>4, <3>2, <4>2 DEF Counted
      <3>3. CASE i = n
        <4>1. InVars(L, i) = {} /\ InCells(c, i) = {}
          <5>1. \A k \in 0..Len(h) : k # n
            BY <1>4
          <5>2. QED
            BY <1>1, <3>3, <5>1 DEF Typed, InVars, InCells
        <4>2. Cardinality(InVars(L, i)) = 0 /\ Cardinality(InCells(c, i)) = 0
          BY <4>1, FS_EmptySet
        <4>3. Refs(L, c, <<n>>, i) = 1
          BY <3>1, <3>3, <4>2 DEF Refs
        <4>4. g[i].live /\ g[i].refcount = 1
          BY <1>4, <3>3 DEF Fresh
        <4>5. QED
          BY <4>3, <4>4
      <3>4. QED
        BY <1>6, <3>2, <3>3
    <2>2. QED
      BY <2>1 DEF Counted
  <1>12. QED
    BY <1>3, <1>5, <1>8, <1>10, <1>11 DEF Sound

\* It changes nothing else.
LEMMA NewRest ==
    ASSUME NEW L, NEW h, NEW c, NEW vs, Sound(L, h, c, vs), NEW P, NEW F, Rest(h, c, P, F),
           NEW o, Fresh(o)
    PROVE  Rest(Append(h, o), c, P, F)
  <1>1. h \in Seq(Insts) /\ o \in Insts
    BY DEF Sound, Typed, Fresh
  <1>2. PICK g, n : g = Append(h, o) /\ n = Len(h) + 1
    OBVIOUS
  <1>3. /\ g \in Seq(Insts) /\ g[n] = o /\ Len(h) \in Nat /\ n = Len(h) + 1
        /\ DOMAIN h = 1..Len(h) /\ DOMAIN g = 1..n
        /\ \A i \in DOMAIN h : g[i] = h[i]
    BY <1>1, <1>2, AppendFields
  <1>4. \A i \in DOMAIN g : i \in DOMAIN h \/ i = n
    BY <1>3
  <1>5. \A i \in DOMAIN h : i \in DOMAIN g
    BY <1>3
  <1>6. Owned(o) = {} /\ Shaped(o) /\ Holds(o, c)
    BY FreshFields
  <1>7. Complete(h, c) => Complete(g, c)
    BY <1>3, <1>5 DEF Complete
  <1>8. Contents(g, c)
    BY <1>3, <1>4, <1>6 DEF Rest, Contents
  <1>9. ASSUME NEW p, Pends(h, c, p) PROVE Pends(g, c, p)
    <2>1. p.cell \in DOMAIN c /\ p.inst \in DOMAIN h /\ h[p.inst].cls \in {"Vector", "Array"}
      BY <1>9 DEF Pends
    <2>2. p.inst \in DOMAIN g /\ g[p.inst] = h[p.inst]
      BY <1>3, <1>5, <2>1
    <2>3. \A i \in DOMAIN g : p.cell \in Owned(g[i]) => i = p.inst /\ At(g[i], p)
      BY <1>3, <1>4, <1>6, <1>9 DEF Pends
    <2>4. g[p.inst].live /\ At(g[p.inst], p) => Numbered(g[p.inst], p)
      BY <1>9, <2>2 DEF Pends
    <2>5. QED
      BY <2>1, <2>2, <2>3, <2>4 DEF Pends
  <1>10. \A n1 \in DOMAIN P : Pends(g, c, P[n1])
    BY <1>9 DEF Rest
  <1>11. "remade" \notin F =>
            \A n1 \in DOMAIN P : c[P[n1].cell].live => At(g[P[n1].inst], P[n1])
    <2>1. \A n1 \in DOMAIN P : P[n1].inst \in DOMAIN h
      BY DEF Rest, Pends
    <2>2. QED
      BY <1>3, <2>1 DEF Rest
  <1>12. P \in Seq(Pendings) /\ (F # {} \/ Complete(h, c))
    BY DEF Rest
  <1>13. QED
    BY <1>2, <1>7, <1>8, <1>10, <1>11, <1>12 DEF Rest

\* A new instance goes to a variable.
LEMMA NewAnswer ==
    ASSUME NEW L, NEW h, NEW c, Sound(L, h, c, <<>>), NEW P, NEW F, Rest(h, c, P, F),
           NEW o, Fresh(o), o.refcount = 1, NEW y \in Roots,
           NEW m, m = varClear(Append(h, o), c, <<L[y]>>)
    PROVE  /\ Sound([L EXCEPT ![y] = Len(h) + 1], m.h, m.c, <<>>)
           /\ Rest(m.h, m.c, P, F)
  <1>1. PICK g, v : g = Append(h, o) /\ v = Len(h) + 1
    OBVIOUS
  <1>2. Sound(L, g, c, <<v>>) /\ v \in 0..Len(g)
    BY <1>1, NewSound
  <1>3. PICK M, us : M = [L EXCEPT ![y] = v] /\ us = <<L[y]>>
    OBVIOUS
  <1>4. Sound(M, g, c, us)
    BY <1>2, <1>3, SwapSound
  <1>5. Sound(M, m.h, m.c, <<>>) /\ Kept(g, c, m.h, m.c)
    BY <1>1, <1>3, <1>4, VarClearSound
  <1>6. Rest(g, c, P, F)
    BY <1>1, NewRest
  <1>7. Rest(m.h, m.c, P, F)
    BY <1>4, <1>5, <1>6, KeptRest
  <1>8. QED
    BY <1>1, <1>3, <1>5, <1>7

-----------------------------------------------------------------------------
(* An instance that changes, and its cells not                             *)

\* The instance i is replaced by one that is counted alike.
LEMMA ReplaceSound ==
    ASSUME NEW L, NEW h, NEW c, NEW vs, Sound(L, h, c, vs), NEW i \in DOMAIN h, NEW o \in Insts,
           o.refcount = h[i].refcount, o.live <=> h[i].live, Apart(o),
           Owned(o) \in SUBSET Owned(h[i])
    PROVE  Sound(L, [h EXCEPT ![i] = o], c, vs)
  <1>1. Typed(L, h, c, vs) /\ Counted(L, h, c, vs) /\ Tidy(h, c) /\ h \in Seq(Insts)
    BY DEF Sound, Typed
  <1>2. PICK g : g = [h EXCEPT ![i] = o]
    OBVIOUS
  <1>3. g \in Seq(Insts) /\ DOMAIN g = DOMAIN h /\ Len(g) = Len(h)
    BY <1>1, <1>2
  <1>4. g[i] = o /\ \A j \in DOMAIN h : j # i => g[j] = h[j]
    BY <1>2
  <1>5. Typed(L, g, c, vs)
    BY <1>1, <1>3 DEF Typed
  <1>6. \A j \in DOMAIN h : (g[j].live <=> h[j].live) /\ g[j].refcount = h[j].refcount
    BY <1>4
  <1>7. Counted(L, g, c, vs)
    BY <1>1, <1>3, <1>6 DEF Counted
  <1>8. o.live \/ Owned(o) = {}
    BY <1>1 DEF Tidy
  <1>9. Tidy(g, c)
    <2>1. \A k \in DOMAIN c : c[k] = c[k] \/ k \in Owned(h[i]) \ Owned(o)
      OBVIOUS
    <2>2. QED
      BY <1>1, <1>2, <1>8, <2>1, TidyReplace
  <1>10. QED
    BY <1>2, <1>5, <1>7, <1>9 DEF Sound

\* It is emptied: its cells are lost, which is a flaw.
LEMMA EmptiedRest ==
    ASSUME NEW h \in Seq(Insts), NEW c, NEW P, NEW F, Rest(h, c, P, F), NEW i \in DOMAIN h,
           NEW o, Fresh(o), o.cls = h[i].cls, NEW G, F \in SUBSET G,
           Owned(h[i]) # {} => G # {} /\ ("remade" \in G \/ h[i].cls = "Hashtable")
    PROVE  Rest([h EXCEPT ![i] = o], c, P, G)
  <1>1. PICK g : g = [h EXCEPT ![i] = o]
    OBVIOUS
  <1>2. DOMAIN g = DOMAIN h /\ g[i] = o /\ \A j \in DOMAIN h : j # i => g[j] = h[j]
    BY <1>1
  <1>3. Owned(o) = {} /\ Shaped(o) /\ Holds(o, c) /\ \A p : ~At(o, p)
    BY FreshFields
  <1>4. G # {} \/ Complete(g, c)
    <2>1. SUFFICES ASSUME G = {} PROVE Complete(g, c)
      OBVIOUS
    <2>2. F = {} /\ Owned(h[i]) = {}
      BY <2>1
    <2>3. \A j \in DOMAIN h : Owned(g[j]) = Owned(h[j])
      BY <1>2, <1>3, <2>2
    <2>4. Complete(h, c)
      BY <2>2 DEF Rest
    <2>5. QED
      BY <1>2, <2>3, <2>4 DEF Complete
  <1>5. Contents(g, c)
    BY <1>2, <1>3 DEF Rest, Contents
  <1>6. ASSUME NEW p, Pends(h, c, p) PROVE Pends(g, c, p)
    <2>1. p.cell \in DOMAIN c /\ p.inst \in DOMAIN h /\ h[p.inst].cls \in {"Vector", "Array"}
      BY <1>6 DEF Pends
    <2>2. p.inst \in DOMAIN g /\ g[p.inst].cls \in {"Vector", "Array"}
      BY <1>2, <2>1
    <2>3. \A j \in DOMAIN g : p.cell \in Owned(g[j]) => j = p.inst /\ At(g[j], p)
      BY <1>2, <1>3, <1>6 DEF Pends
    <2>4. g[p.inst].live /\ At(g[p.inst], p) => Numbered(g[p.inst], p)
      BY <1>2, <1>3, <1>6, <2>1 DEF Pends
    <2>5. QED
      BY <2>1, <2>2, <2>3, <2>4 DEF Pends
  <1>7. ASSUME "remade" \notin G, NEW n \in DOMAIN P, c[P[n].cell].live
        PROVE  At(g[P[n].inst], P[n])
    <2>1. PICK p : p = P[n]
      OBVIOUS
    <2>2. "remade" \notin F
      BY <1>7
    <2>3. At(h[p.inst], p) /\ Pends(h, c, p)
      BY <1>7, <2>1, <2>2 DEF Rest
    <2>4. p.inst \in DOMAIN h /\ h[p.inst].cls # "Hashtable"
      BY <2>3 DEF Pends
    <2>5. p.cell \in Owned(h[p.inst])
      BY <2>3 DEF At, Owned, Range
    <2>6. p.inst # i
      BY <1>7, <2>4, <2>5
    <2>7. QED
      BY <1>2, <2>1, <2>3, <2>4, <2>6
  <1>8. P \in Seq(Pendings) /\ \A n \in DOMAIN P : Pends(g, c, P[n])
    BY <1>6 DEF Rest
  <1>9. QED
    BY <1>1, <1>4, <1>5, <1>7, <1>8 DEF Rest

\* An instance that the stack refers to
LEMMA OneReference ==
    ASSUME NEW m \in Insts, NEW q, q = [m EXCEPT !.refcount = 1, !.live = TRUE]
    PROVE  /\ q \in Insts /\ q.live /\ q.elems = m.elems /\ q.hidden = m.hidden
           /\ q.want = m.want /\ q.refcount = 1 /\ q.cls = m.cls /\ q.dims = m.dims
  <1>1. PICK n \in Int : n = 1
    OBVIOUS
  <1>2. PICK t \in BOOLEAN : t = TRUE
    OBVIOUS
  <1>3. q = [m EXCEPT !.refcount = n, !.live = t]
    BY <1>1, <1>2
  <1>4. /\ q \in Insts /\ q.live = t /\ q.elems = m.elems /\ q.hidden = m.hidden
        /\ q.want = m.want /\ q.refcount = n /\ q.cls = m.cls /\ q.dims = m.dims
    BY <1>3 DEF Insts
  <1>5. QED
    BY <1>1, <1>2, <1>4

\* An instance that a variable and what is below it refer to
LEMMA TwoReferences ==
    ASSUME NEW m \in Insts, NEW q, q = [m EXCEPT !.refcount = 2, !.live = TRUE]
    PROVE  /\ q \in Insts /\ q.live /\ q.elems = m.elems /\ q.hidden = m.hidden
           /\ q.want = m.want /\ q.refcount = 2 /\ q.cls = m.cls /\ q.dims = m.dims
  <1>1. PICK n \in Int : n = 2
    OBVIOUS
  <1>2. PICK t \in BOOLEAN : t = TRUE
    OBVIOUS
  <1>3. q = [m EXCEPT !.refcount = n, !.live = t]
    BY <1>1, <1>2
  <1>4. /\ q \in Insts /\ q.live = t /\ q.elems = m.elems /\ q.hidden = m.hidden
        /\ q.want = m.want /\ q.refcount = n /\ q.cls = m.cls /\ q.dims = m.dims
    BY <1>3 DEF Insts
  <1>5. QED
    BY <1>1, <1>2, <1>4

\* What the constructors make of an instance
LEMMA MadeFields ==
    ASSUME NEW o \in Insts, NEW ds \in Seq(Int)
    PROVE  /\ Fresh(Made(o, ds)) /\ Made(o, ds).cls = o.cls
           /\ Made(o, ds).refcount = o.refcount
           /\ Fresh([Made(o, ds) EXCEPT !.refcount = 1, !.live = TRUE])
           /\ [Made(o, ds) EXCEPT !.refcount = 1, !.live = TRUE].refcount = 1
  <1>1. o.cls \in Classes /\ o.refcount \in Int
    BY DEF Insts
  <1>2. Blank(o.cls) \in Insts
    BY <1>1, BlankTypes
  <1>3. PICK b : b = Blank(o.cls)
    OBVIOUS
  <1>4. b \in Insts /\ b.elems = <<>> /\ b.hidden = {} /\ b.want = <<>> /\ b.cls = o.cls
    BY <1>2, <1>3 DEF Blank
  <1>5. Made(o, ds) = [b EXCEPT !.refcount = o.refcount, !.live = TRUE, !.made = TRUE, !.dims = ds]
    BY <1>3 DEF Made
  <1>6. PICK m : m = Made(o, ds)
    OBVIOUS
  <1>7. /\ m \in Insts /\ m.live /\ m.elems = <<>> /\ m.hidden = {} /\ m.want = <<>>
        /\ m.cls = o.cls /\ m.refcount = o.refcount
    BY <1>1, <1>4, <1>5, <1>6 DEF Insts
  <1>8. PICK q : q = [m EXCEPT !.refcount = 1, !.live = TRUE]
    OBVIOUS
  <1>9. /\ q \in Insts /\ q.live /\ q.elems = <<>> /\ q.hidden = {} /\ q.want = <<>>
        /\ q.refcount = 1
    BY <1>7, <1>8, OneReference
  <1>10. QED
    BY <1>6, <1>7, <1>8, <1>9 DEF Fresh

\* An instance that no constructor was called for
LEMMA BlankFresh ==
    ASSUME NEW cls \in Classes, NEW q, q = [Blank(cls) EXCEPT !.refcount = 1, !.live = TRUE]
    PROVE  Fresh(q) /\ q.refcount = 1
  <1>1. PICK b : b = Blank(cls)
    OBVIOUS
  <1>2. b \in Insts /\ b.elems = <<>> /\ b.hidden = {} /\ b.want = <<>>
    BY <1>1, BlankTypes DEF Blank
  <1>3. q = [b EXCEPT !.refcount = 1, !.live = TRUE]
    BY <1>1
  <1>4. /\ q \in Insts /\ q.live /\ q.elems = <<>> /\ q.hidden = {} /\ q.want = <<>>
        /\ q.refcount = 1
    BY <1>2, <1>3, OneReference
  <1>5. QED
    BY <1>4 DEF Fresh

\* A constructor makes the instance anew, or leaves it alone.
LEMMA ConstructedIs ==
    ASSUME NEW o \in Insts, NEW args \in Seq(Int)
    PROVE  Constructed(o, args).o = o \/ \E ds \in Seq(Int) : Constructed(o, args).o = Made(o, ds)
  <1>1. o.cls \in {"Array", "Vector", "StringBuffer", "DateTime", "Hashtable"}
    BY DEF Insts, Classes
  <1>2. <<>> \in Seq(Int)
    OBVIOUS
  <1>3. CASE o.cls = "Array"
    <2>1. Constructed(o, args) = array_arrayX(o, args)
      BY <1>3 DEF Constructed
    <2>2. array_arrayX(o, args).o \in {Made(o, args), Made(o, <<>>)}
      BY DEF array_arrayX
    <2>3. QED
      BY <1>2, <2>1, <2>2
  <1>4. CASE o.cls = "Vector"
    <2>1. Constructed(o, args) = vector_vector(o)
      BY <1>4 DEF Constructed
    <2>2. vector_vector(o).o \in {o, Made(o, <<>>)}
      BY DEF vector_vector
    <2>3. QED
      BY <1>2, <2>1, <2>2
  <1>5. CASE o.cls = "StringBuffer"
    <2>1. Constructed(o, args) = stringbuffer_stringbuffer(o, args)
      BY <1>5 DEF Constructed
    <2>2. stringbuffer_stringbuffer(o, args).o \in {o, Made(o, <<>>)}
      BY DEF stringbuffer_stringbuffer
    <2>3. QED
      BY <1>2, <2>1, <2>2
  <1>6. CASE o.cls = "DateTime"
    <2>1. Constructed(o, args) = datetime_datetime(o)
      BY <1>6 DEF Constructed
    <2>2. datetime_datetime(o).o \in {o, Made(o, <<>>)}
      BY DEF datetime_datetime
    <2>3. QED
      BY <1>2, <2>1, <2>2
  <1>7. CASE o.cls = "Hashtable"
    <2>1. Constructed(o, args) = hashtable_hashtable(o)
      BY <1>7 DEF Constructed
    <2>2. hashtable_hashtable(o).o \in {o, Made(o, <<>>)}
      BY DEF hashtable_hashtable
    <2>3. QED
      BY <1>2, <2>1, <2>2
  <1>8. QED
    BY <1>1, <1>3, <1>4, <1>5, <1>6, <1>7

-----------------------------------------------------------------------------
(* An instance that changes with its cells                                 *)

\* What a pending reference p to the instance h needs when it becomes o and the
\* cells become b
Follows(h, o, b, G, p) ==
    /\ p.cell \in Owned(o) => At(o, p)
    /\ At(o, p) => Numbered(o, p)
    /\ "remade" \notin G /\ At(h, p) /\ b[p.cell].live => At(o, p)

\* The instance x becomes o: it may have new cells, and lose or change those it has.
Changes(h, c, x, o, b, F, G) ==
    /\ x \in DOMAIN h /\ h[x].live /\ o.live /\ o.cls = h[x].cls
    /\ DOMAIN c \in SUBSET DOMAIN b /\ F \in SUBSET G
    /\ \A k \in DOMAIN c : b[k] = c[k] \/ \A i \in DOMAIN h : i # x => k \notin Owned(h[i])
    /\ \A k \in DOMAIN c : b[k].live => c[k].live
    /\ \A k \in DOMAIN b \ DOMAIN c : k \in Owned(o)
    /\ \A k \in Owned(o) : k \in Owned(h[x]) \/ k \in DOMAIN b \ DOMAIN c
    /\ \A k \in Owned(h[x]) : k \in Owned(o) \/ ~b[k].live \/ G # {}
    /\ Shaped(o) /\ Holds(o, b)

\* The rest stays true if what is pending follows the change.
LEMMA ChangeRest ==
    ASSUME NEW h \in Seq(Insts), NEW c, NEW P, NEW F, Tidy(h, c), Rest(h, c, P, F),
           NEW x, NEW o, NEW b, NEW G, Changes(h, c, x, o, b, F, G),
           \A n \in DOMAIN P : Pends(h, c, P[n]) /\ P[n].inst = x => Follows(h[x], o, b, G, P[n])
    PROVE  Rest([h EXCEPT ![x] = o], b, P, G)
  <1>1. PICK g : g = [h EXCEPT ![x] = o]
    OBVIOUS
  <1>2. /\ x \in DOMAIN h /\ h[x].live /\ o.live /\ o.cls = h[x].cls
        /\ DOMAIN c \in SUBSET DOMAIN b /\ F \in SUBSET G
        /\ Shaped(o) /\ Holds(o, b)
    BY DEF Changes
  <1>3. /\ \A k \in DOMAIN c : b[k] = c[k] \/ \A i \in DOMAIN h : i # x => k \notin Owned(h[i])
        /\ \A k \in DOMAIN c : b[k].live => c[k].live
    BY DEF Changes
  <1>4. /\ \A k \in DOMAIN b \ DOMAIN c : k \in Owned(o)
        /\ \A k \in Owned(o) : k \in Owned(h[x]) \/ k \in DOMAIN b \ DOMAIN c
        /\ \A k \in Owned(h[x]) : k \in Owned(o) \/ ~b[k].live \/ G # {}
    BY DEF Changes
  <1>5. DOMAIN g = DOMAIN h /\ g[x] = o /\ \A i \in DOMAIN h : i # x => g[i] = h[i]
    BY <1>1, <1>2
  <1>6. G # {} \/ Complete(g, b)
    <2>1. SUFFICES ASSUME G = {}, NEW k \in DOMAIN b, b[k].live
                   PROVE  \E i \in DOMAIN g : k \in Owned(g[i])
      BY DEF Complete
    <2>2. F = {}
      BY <1>2, <2>1
    <2>3. Complete(h, c)
      BY <2>2 DEF Rest
    <2>4. CASE k \notin DOMAIN c
      BY <1>2, <1>4, <1>5, <2>4
    <2>5. CASE k \in DOMAIN c
      <3>1. c[k].live
        BY <1>3, <2>1, <2>5
      <3>2. PICK i \in DOMAIN h : k \in Owned(h[i])
        BY <2>3, <2>5, <3>1 DEF Complete
      <3>3. CASE i = x
        BY <1>4, <1>5, <2>1, <3>2, <3>3
      <3>4. CASE i # x
        BY <1>5, <3>2, <3>4
      <3>5. QED
        BY <3>3, <3>4
    <2>6. QED
      BY <2>4, <2>5
  <1>7. ASSUME NEW i \in DOMAIN g, g[i].live PROVE Shaped(g[i]) /\ Holds(g[i], b)
    <2>1. CASE i = x
      BY <1>2, <1>5, <2>1
    <2>2. CASE i # x
      <3>1. g[i] = h[i] /\ i \in DOMAIN h
        BY <1>5, <2>2
      <3>2. Shaped(h[i]) /\ Holds(h[i], c)
        BY <1>7, <3>1 DEF Rest, Contents
      <3>3. \A k \in Owned(h[i]) : k \in DOMAIN c
        BY <3>1 DEF Tidy
      <3>4. \A k \in Owned(h[i]) : b[k] = c[k]
        BY <1>3, <2>2, <3>1, <3>3
      <3>5. Holds(h[i], b)
        BY <3>2, <3>4, HoldsSame
      <3>6. QED
        BY <3>1, <3>2, <3>5
    <2>3. QED
      BY <2>1, <2>2
  <1>8. ASSUME NEW n \in DOMAIN P PROVE Pends(g, b, P[n])
    <2>1. PICK p : p = P[n]
      OBVIOUS
    <2>2. Pends(h, c, p) /\ (p.inst = x => Follows(h[x], o, b, G, p))
      BY <2>1 DEF Rest
    <2>3. p.cell \in DOMAIN c /\ p.inst \in DOMAIN h /\ h[p.inst].cls \in {"Vector", "Array"}
      BY <2>2 DEF Pends
    <2>4. p.cell \in DOMAIN b /\ p.inst \in DOMAIN g /\ g[p.inst].cls \in {"Vector", "Array"}
      BY <1>2, <1>5, <2>3
    <2>5. ASSUME NEW i \in DOMAIN g, p.cell \in Owned(g[i]) PROVE i = p.inst /\ At(g[i], p)
      <3>1. CASE i = x
        <4>1. p.cell \in Owned(h[x])
          BY <1>4, <1>5, <2>3, <2>5, <3>1
        <4>2. x = p.inst
          BY <1>2, <2>2, <4>1 DEF Pends
        <4>3. At(o, p)
          BY <1>5, <2>2, <2>5, <3>1, <4>2 DEF Follows
        <4>4. QED
          BY <1>5, <3>1, <4>2, <4>3
      <3>2. CASE i # x
        BY <1>5, <2>2, <2>5, <3>2 DEF Pends
      <3>3. QED
        BY <3>1, <3>2
    <2>6. ASSUME g[p.inst].live, At(g[p.inst], p) PROVE Numbered(g[p.inst], p)
      <3>1. CASE p.inst = x
        BY <1>5, <2>2, <2>6, <3>1 DEF Follows
      <3>2. CASE p.inst # x
        BY <1>5, <2>2, <2>3, <2>6, <3>2 DEF Pends
      <3>3. QED
        BY <3>1, <3>2
    <2>7. QED
      BY <2>1, <2>4, <2>5, <2>6 DEF Pends
  <1>9. ASSUME "remade" \notin G, NEW n \in DOMAIN P, b[P[n].cell].live
        PROVE  At(g[P[n].inst], P[n])
    <2>1. PICK p : p = P[n]
      OBVIOUS
    <2>2. Pends(h, c, p) /\ (p.inst = x => Follows(h[x], o, b, G, p))
      BY <2>1 DEF Rest
    <2>3. p.cell \in DOMAIN c /\ p.inst \in DOMAIN h
      BY <2>2 DEF Pends
    <2>4. "remade" \notin F /\ c[p.cell].live
      BY <1>2, <1>3, <1>9, <2>1, <2>3
    <2>5. At(h[p.inst], p)
      BY <2>1, <2>4 DEF Rest
    <2>6. CASE p.inst = x
      BY <1>5, <1>9, <2>1, <2>2, <2>5, <2>6 DEF Follows
    <2>7. CASE p.inst # x
      BY <1>5, <2>1, <2>3, <2>5, <2>7
    <2>8. QED
      BY <2>6, <2>7
  <1>10. P \in Seq(Pendings)
    BY DEF Rest
  <1>11. QED
    BY <1>1, <1>6, <1>7, <1>8, <1>9, <1>10 DEF Rest, Contents

\* A new cell
Celled(c, w) == Append(c, [v |-> w, live |-> TRUE])

\* The value on the stack goes to a new cell of the instance x.
LEMMA CellSound ==
    ASSUME NEW L, NEW h, NEW c, NEW w \in 0..Len(h), Sound(L, h, c, <<w>>),
           NEW x \in DOMAIN h, NEW o \in Insts, o.live, h[x].live, o.refcount = h[x].refcount,
           Apart(o), \A k \in Owned(o) : k \in Owned(h[x]) \/ k = Len(c) + 1
    PROVE  Sound(L, [h EXCEPT ![x] = o], Celled(c, w), <<>>)
  <1>1. Typed(L, h, c, <<w>>) /\ Counted(L, h, c, <<w>>) /\ Tidy(h, c)
    BY DEF Sound
  <1>2. h \in Seq(Insts) /\ c \in Seq(CellSet) /\ L \in [Roots -> 0..Len(h)] /\ Len(h) \in Nat
    BY <1>1 DEF Typed
  <1>3. PICK g, b, n, e : /\ g = [h EXCEPT ![x] = o] /\ b = Celled(c, w) /\ n = Len(c) + 1
                          /\ e = [v |-> w, live |-> TRUE]
    OBVIOUS
  <1>4. g \in Seq(Insts) /\ DOMAIN g = DOMAIN h /\ Len(g) = Len(h)
    BY <1>2, <1>3
  <1>5. g[x] = o /\ \A i \in DOMAIN h : i # x => g[i] = h[i]
    BY <1>3
  <1>6. e \in CellSet /\ e.v = w /\ e.live
    BY <1>2, <1>3 DEF CellSet
  <1>7. /\ b \in Seq(CellSet) /\ b[n] = e /\ n \in Nat
        /\ DOMAIN c = 1..Len(c) /\ DOMAIN b = 1..n /\ Len(c) \in Nat
        /\ \A k \in DOMAIN c : b[k] = c[k]
    <2>1. b = Append(c, e)
      BY <1>3 DEF Celled
    <2>2. QED
      BY <1>2, <1>3, <1>6, <2>1, AppendFields
  <1>8. n = Len(c) + 1 /\ n \notin DOMAIN c /\ n \in DOMAIN b /\ \A k \in DOMAIN b : k \in DOMAIN c \/ k = n
    BY <1>3, <1>7
  <1>9. Typed(L, g, b, <<>>)
    <2>1. \A k \in DOMAIN c : c[k].v \in 0..Len(h)
      BY <1>1 DEF Typed
    <2>2. \A k \in DOMAIN b : b[k].v \in 0..Len(g)
      BY <1>4, <1>6, <1>7, <1>8, <2>1
    <2>3. QED
      BY <1>2, <1>4, <1>7, <2>2 DEF Typed
  <1>10. Tidy(g, b)
    <2>1. \A i \in DOMAIN h : \A k \in Owned(h[i]) : k \in DOMAIN c /\ c[k].live
      BY <1>1 DEF Tidy
    <2>2. \A i \in DOMAIN g : Apart(g[i]) /\ (g[i].live \/ Owned(g[i]) = {})
      BY <1>1, <1>4, <1>5 DEF Tidy
    <2>3. \A k \in Owned(o) : k \in Owned(h[x]) \/ k = n
      BY <1>8
    <2>4. \A i \in DOMAIN g : \A k \in Owned(g[i]) : k \in DOMAIN b /\ b[k].live
      <3> TAKE i \in DOMAIN g
      <3> TAKE k \in Owned(g[i])
      <3>1. CASE k = n
        BY <1>6, <1>7, <1>8, <3>1
      <3>2. CASE k # n
        <4>1. k \in Owned(h[i]) /\ i \in DOMAIN h
          BY <1>4, <1>5, <2>3, <3>2
        <4>2. k \in DOMAIN c /\ c[k].live
          BY <2>1, <4>1
        <4>3. k \in DOMAIN b
          BY <1>7, <1>8, <4>2
        <4>4. QED
          BY <1>7, <4>2, <4>3
      <3>3. QED
        BY <3>1, <3>2
    <2>5. \A i \in DOMAIN h : n \notin Owned(h[i])
      BY <1>8, <2>1
    <2>6. \A i, j \in DOMAIN g : i # j => Owned(g[i]) \cap Owned(g[j]) = {}
      BY <1>1, <1>4, <1>5, <2>3, <2>5 DEF Tidy
    <2>7. QED
      BY <2>2, <2>4, <2>6 DEF Tidy
  <1>11. Counted(L, g, b, <<>>)
    <2>1. ASSUME NEW i \in DOMAIN h PROVE Refs(L, b, <<>>, i) = Refs(L, c, <<w>>, i)
      <3>1. /\ IsFiniteSet(InCells(c, i)) /\ Cardinality(InCells(c, i)) \in Nat
            /\ IsFiniteSet(InCells(b, i)) /\ Cardinality(InVars(L, i)) \in Nat
        BY <1>1, <1>9, RefTypes
      <3>2. /\ Cardinality(InList(<<w>>, i)) = IF w = i THEN 1 ELSE 0
            /\ Cardinality(InList(<<>>, i)) = 0
        BY CountOne
      <3>3. InCells(b, i) \ {n} = InCells(c, i)
        BY <1>7, <1>8 DEF InCells
      <3>4. n \in InCells(b, i) <=> w = i
        BY <1>6, <1>7, <1>8 DEF InCells
      <3>5. PICK R, S : R = InCells(b, i) \ {n} /\ S = InCells(b, i)
        OBVIOUS
      <3>6. Cardinality(S) = Cardinality(S \ {n}) + (IF n \in S THEN 1 ELSE 0)
        BY <3>1, <3>5, Without
      <3>7. Cardinality(S) = Cardinality(InCells(c, i)) + (IF w = i THEN 1 ELSE 0)
        BY <3>3, <3>4, <3>5, <3>6
      <3>8. QED
        BY <3>1, <3>2, <3>5, <3>7 DEF Refs
    <2>2. \A i \in DOMAIN h : (g[i].live <=> h[i].live) /\ g[i].refcount = h[i].refcount
      BY <1>5
    <2>3. QED
      BY <1>1, <1>4, <2>1, <2>2 DEF Counted
  <1>12. QED
    BY <1>3, <1>9, <1>10, <1>11 DEF Sound

\* Entries with another value, or one more
LEMMA PutFields ==
    ASSUME NEW f, NEW k, NEW v
    PROVE  /\ DOMAIN Put(f, k, v) = DOMAIN f \cup {k}
           /\ Put(f, k, v)[k] = v
           /\ \A j \in DOMAIN f : j # k => Put(f, k, v)[j] = f[j]
  BY DEF Put

\* They have their type.
LEMMA PutTypes ==
    ASSUME NEW f \in Partial(Nat), NEW k \in Marks, NEW v \in Nat
    PROVE  Put(f, k, v) \in Partial(Nat)
  <1>1. PICK D \in SUBSET Marks : f \in [D -> Nat]
    BY DEF Partial
  <1>2. D \cup {k} \in SUBSET Marks
    BY <1>1
  <1>3. Put(f, k, v) \in [D \cup {k} -> Nat]
    BY <1>1 DEF Put
  <1>4. QED
    BY <1>2, <1>3 DEF Partial

\* An instance with a new cell
LEMMA WithFields ==
    ASSUME NEW o \in Insts, NEW k \in Marks, NEW cell \in Nat, NEW v \in Nat,
           NEW q, q = With(o, k, cell, v)
    PROVE  /\ q \in Insts /\ q.cls = o.cls /\ q.refcount = o.refcount /\ q.live = o.live
           /\ q.hidden = o.hidden /\ q.dims = o.dims /\ q.made = o.made /\ q.num = o.num
           /\ q.elems = Put(o.elems, k, cell) /\ q.want = Put(o.want, k, v)
  <1>1. PICK e, w : e = Put(o.elems, k, cell) /\ w = Put(o.want, k, v)
    OBVIOUS
  <1>2. o.elems \in Partial(Nat) /\ o.want \in Partial(Nat)
    BY DEF Insts
  <1>3. e \in Partial(Nat) /\ w \in Partial(Nat)
    BY <1>1, <1>2, PutTypes
  <1>4. q = [o EXCEPT !.elems = e, !.want = w]
    BY <1>1 DEF With
  <1>5. /\ q \in Insts /\ q.cls = o.cls /\ q.refcount = o.refcount /\ q.live = o.live
        /\ q.hidden = o.hidden /\ q.dims = o.dims /\ q.made = o.made /\ q.num = o.num
        /\ q.elems = e /\ q.want = w
    BY <1>3, <1>4 DEF Insts
  <1>6. QED
    BY <1>1, <1>5

\* Its cells
LEMMA PutOwned ==
    ASSUME NEW o, NEW q, NEW k, NEW n, q.elems = Put(o.elems, k, n), q.hidden = o.hidden,
           Apart(o), n \notin Owned(o)
    PROVE  /\ Apart(q) /\ n \in Owned(q)
           /\ \A j \in Owned(q) : j \in Owned(o) \/ j = n
           /\ \A j \in Owned(o) : j \in Owned(q) \/ (k \in DOMAIN o.elems /\ j = o.elems[k])
           /\ k \in DOMAIN o.elems => o.elems[k] \notin Owned(q)
  <1>1. /\ DOMAIN q.elems = DOMAIN o.elems \cup {k} /\ q.elems[k] = n
        /\ \A j \in DOMAIN o.elems : j # k => q.elems[j] = o.elems[j]
    <2>1. PICK f : f = o.elems
      OBVIOUS
    <2>2. /\ DOMAIN Put(f, k, n) = DOMAIN f \cup {k} /\ Put(f, k, n)[k] = n
          /\ \A j \in DOMAIN f : j # k => Put(f, k, n)[j] = f[j]
      BY DEF Put
    <2>3. QED
      BY <2>1, <2>2
  <1>2. \A j : j \in Owned(o) <=> (\E e \in DOMAIN o.elems : o.elems[e] = j) \/ j \in o.hidden
    BY DEF Owned, Range
  <1>3. \A j : j \in Owned(q) <=> (\E e \in DOMAIN q.elems : q.elems[e] = j) \/ j \in o.hidden
    BY DEF Owned, Range
  <1>4. /\ \A i, j \in DOMAIN o.elems : o.elems[i] = o.elems[j] => i = j
        /\ \A j \in DOMAIN o.elems : o.elems[j] \notin o.hidden
    BY DEF Apart, Range
  <1>5. \A j \in DOMAIN o.elems : o.elems[j] # n
    BY <1>2
  <1>6. n \notin o.hidden
    BY <1>2
  <1>7. \A i, j \in DOMAIN q.elems : q.elems[i] = q.elems[j] => i = j
    BY <1>1, <1>4, <1>5
  <1>8. \A j \in DOMAIN q.elems : q.elems[j] \notin q.hidden
    BY <1>1, <1>4, <1>6
  <1>9. Apart(q)
    BY <1>7, <1>8 DEF Apart, Range
  <1>10. n \in Owned(q)
    BY <1>1, <1>3
  <1>11. \A j \in Owned(q) : j \in Owned(o) \/ j = n
    BY <1>1, <1>2, <1>3
  <1>12. ASSUME NEW j \in Owned(o), j \notin Owned(q) PROVE k \in DOMAIN o.elems /\ j = o.elems[k]
    <2>1. PICK e \in DOMAIN o.elems : o.elems[e] = j
      BY <1>2, <1>3, <1>12
    <2>2. e = k
      BY <1>1, <1>3, <1>12, <2>1
    <2>3. QED
      BY <2>1, <2>2
  <1>13. ASSUME k \in DOMAIN o.elems, o.elems[k] \in Owned(q) PROVE FALSE
    <2>1. o.elems[k] \notin o.hidden
      BY <1>4, <1>13
    <2>2. PICK e \in DOMAIN q.elems : q.elems[e] = o.elems[k]
      BY <1>3, <1>13, <2>1
    <2>3. e # k
      BY <1>1, <1>5, <1>13, <2>2
    <2>4. e \in DOMAIN o.elems /\ o.elems[e] = o.elems[k]
      BY <1>1, <2>2, <2>3
    <2>5. QED
      BY <1>4, <1>13, <2>3, <2>4
  <1>14. QED
    BY <1>9, <1>10, <1>11, <1>12, <1>13

\* A value that was put with its cell is held.
LEMMA PutHolds ==
    ASSUME NEW o, NEW q, NEW k, NEW n, NEW w, NEW b, NEW c,
           q.elems = Put(o.elems, k, n), q.want = Put(o.want, k, w), q.cls = o.cls,
           q.dims = o.dims, o.cls # "Array", Holds(o, c), b[n].v = w,
           n \notin Owned(o), \A j \in Owned(q) : j # n => b[j] = c[j]
    PROVE  Holds(q, b)
  <1>1. /\ DOMAIN q.elems = DOMAIN o.elems \cup {k} /\ q.elems[k] = n
        /\ \A j \in DOMAIN o.elems : j # k => q.elems[j] = o.elems[j]
    BY DEF Put
  <1>2. /\ DOMAIN q.want = DOMAIN o.want \cup {k} /\ q.want[k] = w
        /\ \A j \in DOMAIN o.want : j # k => q.want[j] = o.want[j]
    BY DEF Put
  <1>3. \A j : Place(q, j) = j /\ Place(o, j) = j
    BY DEF Place
  <1>4. SUFFICES ASSUME Len(o.dims) <= 1
                 PROVE  /\ \A j \in DOMAIN q.want :
                             j \in DOMAIN q.elems /\ b[q.elems[j]].v = q.want[j]
                        /\ DOMAIN q.elems = DOMAIN q.want
    BY <1>3 DEF Holds
  <1>5. /\ \A j \in DOMAIN o.want : j \in DOMAIN o.elems /\ c[o.elems[j]].v = o.want[j]
        /\ DOMAIN o.elems = DOMAIN o.want
    BY <1>3, <1>4 DEF Holds
  <1>6. ASSUME NEW j \in DOMAIN q.want
        PROVE  j \in DOMAIN q.elems /\ b[q.elems[j]].v = q.want[j]
    <2>1. CASE j = k
      BY <1>1, <1>2, <2>1
    <2>2. CASE j # k
      <3>1. j \in DOMAIN o.want /\ q.want[j] = o.want[j] /\ q.elems[j] = o.elems[j] /\ j \in DOMAIN q.elems
        BY <1>1, <1>2, <1>5, <2>2
      <3>2. q.elems[j] \in Owned(q)
        BY <3>1 DEF Owned, Range
      <3>3. CASE q.elems[j] = n
        <4>1. j \in DOMAIN o.elems
          BY <1>5, <3>1
        <4>2. o.elems[j] \in Owned(o)
          BY <4>1 DEF Owned, Range
        <4>3. QED
          BY <3>1, <3>3, <4>2
      <3>4. CASE q.elems[j] # n
        BY <1>5, <3>1, <3>2, <3>4
      <3>5. QED
        BY <3>3, <3>4
    <2>3. QED
      BY <2>1, <2>2
  <1>7. QED
    BY <1>1, <1>2, <1>5, <1>6

\* What is pending on a vector follows if the cell that was there is destroyed.
LEMMA PutFollows ==
    ASSUME NEW o, NEW q, NEW k, NEW n, NEW w, NEW b, NEW G, NEW p,
           q.elems = Put(o.elems, k, n), q.want = Put(o.want, k, w), q.cls = o.cls,
           q.dims = o.dims, q.hidden = o.hidden, o.cls = "Vector", Apart(o), n \notin Owned(o),
           p.cell # n, p.cell \in Owned(o) => At(o, p), At(o, p) => Numbered(o, p),
           k \in DOMAIN o.elems => ~b[o.elems[k]].live
    PROVE  Follows(o, q, b, G, p)
  <1>1. /\ DOMAIN q.elems = DOMAIN o.elems \cup {k} /\ q.elems[k] = n
        /\ \A j \in DOMAIN o.elems : j # k => q.elems[j] = o.elems[j]
    BY DEF Put
  <1>2. DOMAIN q.want = DOMAIN o.want \cup {k}
    BY DEF Put
  <1>3. \A j : Place(q, j) = j /\ Place(o, j) = j
    BY DEF Place
  <1>4. /\ \A j \in Owned(q) : j \in Owned(o) \/ j = n
        /\ k \in DOMAIN o.elems => o.elems[k] \notin Owned(q)
    BY PutOwned
  <1>5. ASSUME At(o, p), p.key # k PROVE At(q, p)
    BY <1>1, <1>5 DEF At
  <1>6. ASSUME p.cell \in Owned(q) PROVE At(q, p)
    <2>1. At(o, p)
      BY <1>4, <1>6
    <2>2. p.key # k
      BY <1>4, <1>6, <2>1 DEF At
    <2>3. QED
      BY <1>5, <2>1, <2>2
  <1>7. ASSUME At(q, p) PROVE Numbered(q, p)
    <2>1. p.key # k
      BY <1>1, <1>7 DEF At
    <2>2. At(o, p)
      BY <1>1, <1>7, <2>1 DEF At
    <2>3. Numbered(o, p)
      BY <2>2
    <2>4. SUFFICES ASSUME Len(q.dims) <= 1
                   PROVE  IF p.block # -1 THEN p.block \in DOMAIN q.want /\ p.block = p.key
                                          ELSE \A j \in DOMAIN q.want : j # p.key
      BY <1>3 DEF Numbered
    <2>5. IF p.block # -1 THEN p.block \in DOMAIN o.want /\ p.block = p.key
                          ELSE \A j \in DOMAIN o.want : j # p.key
      BY <1>3, <2>3, <2>4 DEF Numbered
    <2>6. QED
      BY <1>2, <2>1, <2>5
  <1>8. ASSUME At(o, p), b[p.cell].live PROVE At(q, p)
    <2>1. p.key # k
      BY <1>8 DEF At
    <2>2. QED
      BY <1>5, <1>8, <2>1
  <1>9. QED
    BY <1>6, <1>7, <1>8 DEF Follows

\* Another reference, and then the instance i changed: in either order
LEMMA RefReplace ==
    ASSUME NEW h \in Seq(Insts), NEW v \in 0..Len(h), NEW i \in DOMAIN h, NEW o \in Insts,
           o.refcount = h[i].refcount, NEW q,
           q = [o EXCEPT !.refcount = jsinstRef(h, v)[i].refcount]
    PROVE  jsinstRef([h EXCEPT ![i] = o], v) = [jsinstRef(h, v) EXCEPT ![i] = q]
  <1>1. Len(h) \in Nat /\ DOMAIN h = 1..Len(h) /\ h[i] \in Insts
    BY ElementOfSeq
  <1>2. o = [o EXCEPT !.refcount = o.refcount]
    BY DEF Insts
  <1>3. CASE v = 0
    <2>1. jsinstRef(h, v) = h /\ jsinstRef([h EXCEPT ![i] = o], v) = [h EXCEPT ![i] = o]
      BY <1>3 DEF jsinstRef, IsInst
    <2>2. q = o
      BY <1>2, <2>1
    <2>3. QED
      BY <2>1, <2>2
  <1>4. CASE v # 0
    <2>1. v \in DOMAIN h /\ IsInst(v)
      BY <1>1, <1>4 DEF IsInst
    <2>2. PICK g, e : g = [h EXCEPT ![i] = o] /\ e = jsinstRef(h, v)
      OBVIOUS
    <2>3. DOMAIN g = DOMAIN h /\ g[i] = o /\ \A j \in DOMAIN h : j # i => g[j] = h[j]
      BY <2>2
    <2>4. /\ jsinstRef(g, v) = [g EXCEPT ![v] = [g[v] EXCEPT !.refcount = g[v].refcount + 1]]
          /\ e = [h EXCEPT ![v] = [h[v] EXCEPT !.refcount = h[v].refcount + 1]]
      BY <2>1, <2>2 DEF jsinstRef
    <2>5. DOMAIN e = DOMAIN h /\ (\A j \in DOMAIN h : j # v => e[j] = h[j])
          /\ e[v] = [h[v] EXCEPT !.refcount = h[v].refcount + 1]
      BY <2>1, <2>4
    <2>6. CASE i = v
      <3>1. e[i].refcount = h[i].refcount + 1
        BY <1>1, <2>5, <2>6 DEF Insts
      <3>2. q = [o EXCEPT !.refcount = o.refcount + 1]
        BY <2>2, <3>1
      <3>3. jsinstRef(g, v) = [h EXCEPT ![i] = q]
        BY <2>2, <2>3, <2>4, <2>6, <3>2
      <3>4. [e EXCEPT ![i] = q] = [h EXCEPT ![i] = q]
        BY <2>4, <2>6
      <3>5. QED
        BY <2>2, <3>3, <3>4
    <2>7. CASE i # v
      <3>1. e[i] = h[i]
        BY <2>5, <2>7
      <3>2. q = o
        BY <1>2, <2>2, <3>1
      <3>3. g[v] = h[v]
        BY <2>1, <2>3, <2>7
      <3>4. jsinstRef(g, v) = [g EXCEPT ![v] = e[v]]
        BY <2>4, <2>5, <3>3
      <3>5. [g EXCEPT ![v] = e[v]] = [j \in DOMAIN h |-> IF j = v THEN e[v] ELSE IF j = i THEN o ELSE h[j]]
        BY <2>2, <2>3
      <3>6. [e EXCEPT ![i] = o] = [j \in DOMAIN h |-> IF j = v THEN e[v] ELSE IF j = i THEN o ELSE h[j]]
        BY <2>5, <2>7
      <3>7. QED
        BY <2>2, <3>2, <3>4, <3>5, <3>6
    <2>8. QED
      BY <2>6, <2>7
  <1>5. QED
    BY <1>3, <1>4

-----------------------------------------------------------------------------
(* The actions                                                             *)

\* The types of the variables
LEMMA StateTypes ==
    ASSUME NativeInv
    PROVE  /\ heap \in Seq(Insts) /\ cells \in Seq(CellSet) /\ locals \in [Roots -> 0..Len(heap)]
           /\ Len(heap) \in Nat /\ DOMAIN heap = 1..Len(heap)
           /\ Len(cells) \in Nat /\ DOMAIN cells = 1..Len(cells)
           /\ Tidy(heap, cells)
           /\ \A k \in DOMAIN cells : cells[k].v \in 0..Len(heap)
           /\ \A i \in DOMAIN heap : heap[i] \in Insts
  <1>1. /\ heap \in Seq(Insts) /\ cells \in Seq(CellSet) /\ locals \in [Roots -> 0..Len(heap)]
        /\ Tidy(heap, cells) /\ \A k \in DOMAIN cells : cells[k].v \in 0..Len(heap)
    BY DEF NativeInv, Sound, Typed
  <1>2. QED
    BY <1>1, ElementOfSeq

\* A variable holds an instance that lives, or none.
LEMMA VarLives ==
    ASSUME NativeInv, NEW y \in Roots
    PROVE  /\ locals[y] \in 0..Len(heap)
           /\ locals[y] # 0 => heap[locals[y]].live
           /\ IsInst(locals[y]) => /\ locals[y] \in DOMAIN heap /\ heap[locals[y]].live
                                   /\ heap[locals[y]] \in Insts
  <1>1. locals[y] \in 0..Len(heap) /\ DOMAIN heap = 1..Len(heap) /\ Len(heap) \in Nat
    BY StateTypes
  <1>2. ASSUME locals[y] # 0 PROVE locals[y] \in DOMAIN heap /\ heap[locals[y]].live
    <2>1. locals[y] \in DOMAIN heap
      BY <1>1, <1>2
    <2>2. Sound(locals, heap, cells, <<>>)
      BY DEF NativeInv
    <2>3. QED
      BY <2>1, <2>2, HeldLives
  <1>3. IsInst(locals[y]) => locals[y] # 0
    BY DEF IsInst
  <1>4. QED
    BY <1>1, <1>2, <1>3, StateTypes

\* So does a cell that lives.
LEMMA CellLives ==
    ASSUME NativeInv, NEW k \in DOMAIN cells, cells[k].live
    PROVE  cells[k].v \in 0..Len(heap) /\ (cells[k].v # 0 => heap[cells[k].v].live)
  <1>1. cells[k].v \in 0..Len(heap) /\ DOMAIN heap = 1..Len(heap) /\ Len(heap) \in Nat
    BY StateTypes
  <1>2. ASSUME cells[k].v # 0 PROVE heap[cells[k].v].live
    <2>1. cells[k].v \in DOMAIN heap
      BY <1>1, <1>2
    <2>2. Sound(locals, heap, cells, <<>>)
      BY DEF NativeInv
    <2>3. QED
      BY <2>1, <2>2, HeldLives
  <1>3. QED
    BY <1>1, <1>2

\* What a method answers
LEMMA AnswerStep ==
    ASSUME NativeInv, NEW y \in Roots, NEW v \in 0..Len(heap), v # 0 => heap[v].live,
           Answer(y, v), Rest(heap, cells, pending', flaws')
    PROVE  NativeInv'
  <1>1. PICK m : m = varClear(jsinstRef(heap, v), cells, <<locals[y]>>)
    OBVIOUS
  <1>2. heap' = m.h /\ cells' = m.c /\ locals' = [locals EXCEPT ![y] = v]
    BY <1>1 DEF Answer
  <1>3. Sound(locals, heap, cells, <<>>)
    BY DEF NativeInv
  <1>4. Sound([locals EXCEPT ![y] = v], m.h, m.c, <<>>) /\ Rest(m.h, m.c, pending', flaws')
    BY <1>1, <1>3, AnswerSound
  <1>5. QED
    BY <1>2, <1>4 DEF NativeInv

\* The end of the method
LEMMA LeaveStep ==
    ASSUME NativeInv, NEW e, Leave(e)
    PROVE  NativeInv'
  <1>1. PICK m : m = varClear(heap, cells, ValuesOf(locals))
    OBVIOUS
  <1>2. /\ heap' = m.h /\ cells' = m.c /\ locals' = Nothing /\ pending' = <<>>
        /\ flaws' = flaws
    BY <1>1 DEF Leave, LocalValues, ValuesOf, Nothing
  <1>3. Sound(locals, heap, cells, <<>>) /\ Rest(heap, cells, pending, flaws)
    BY DEF NativeInv
  <1>4. Sound(Nothing, m.h, m.c, <<>>) /\ Rest(m.h, m.c, <<>>, flaws)
    BY <1>1, <1>3, LeaveRest
  <1>5. QED
    BY <1>2, <1>4 DEF NativeInv

\* An outcome that C leaves undefined
LEMMA FaultStep ==
    ASSUME NativeInv, Fault
    PROVE  NativeInv'
  BY DEF NativeInv, Fault

\* Fewer references pending
LEMMA RestFront ==
    ASSUME NEW h, NEW c, NEW P, NEW F, Rest(h, c, P, F), P # <<>>
    PROVE  /\ Rest(h, c, Front(P), F)
           /\ P[Len(P)] \in Pendings /\ Len(P) \in DOMAIN P
  <1>1. P \in Seq(Pendings)
    BY DEF Rest
  <1>2. Len(P) \in Nat /\ Len(P) # 0 /\ DOMAIN P = 1..Len(P)
    BY <1>1
  <1>3. Len(P) \in DOMAIN P
    BY <1>2
  <1>4. P[Len(P)] \in Pendings
    BY <1>1, <1>3, ElementOfSeq
  <1>5. PICK Q : Q = Front(P)
    OBVIOUS
  <1>6. Q = [k \in 1..(Len(P) - 1) |-> P[k]]
    BY <1>1, <1>2, <1>5 DEF Front
  <1>7. \A k \in 1..(Len(P) - 1) : k \in DOMAIN P /\ P[k] \in Pendings
    BY <1>1, <1>2, ElementOfSeq
  <1>8. Q \in [1..(Len(P) - 1) -> Pendings]
    BY <1>6, <1>7
  <1>9. Len(P) - 1 \in Nat
    BY <1>2
  <1>10. Q \in Seq(Pendings)
    BY <1>8, <1>9
  <1>11. \A k \in DOMAIN Q : k \in DOMAIN P /\ Q[k] = P[k]
    BY <1>6, <1>7
  <1>12. Rest(h, c, Q, F)
    BY <1>10, <1>11 DEF Rest
  <1>13. QED
    BY <1>3, <1>4, <1>5, <1>12

\* A value is read through a pending reference.
LEMMA ElementReadStep ==
    ASSUME NativeInv, NEW y \in Roots, ElementRead(y)
    PROVE  NativeInv'
  <1>1. PICK p : p = pending[Len(pending)]
    OBVIOUS
  <1>2. pending # <<>> /\ Rest(heap, cells, pending, flaws)
    BY DEF ElementRead, NativeInv
  <1>3. Rest(heap, cells, Front(pending), flaws) /\ Len(pending) \in DOMAIN pending
    BY <1>2, RestFront
  <1>4. p.cell \in DOMAIN cells
    BY <1>1, <1>2, <1>3 DEF Rest, Pends
  <1>5. CASE ~cells[p.cell].live
    BY <1>1, <1>5, FaultStep DEF ElementRead
  <1>6. CASE cells[p.cell].live
    <2>1. /\ Answer(y, cells[p.cell].v) /\ pending' = Front(pending) /\ flaws' = flaws
      BY <1>1, <1>6 DEF ElementRead
    <2>2. PICK v : v = cells[p.cell].v
      OBVIOUS
    <2>3. v \in 0..Len(heap) /\ (v # 0 => heap[v].live)
      BY <1>4, <1>6, <2>2, CellLives
    <2>4. Rest(heap, cells, pending', flaws')
      BY <1>3, <2>1
    <2>5. QED
      BY <2>1, <2>2, <2>3, <2>4, AnswerStep
  <1>7. QED
    BY <1>5, <1>6

\* A value is counted before it goes to a cell: what is true then
LEMMA Counting ==
    ASSUME NativeInv, NEW y \in Roots, NEW w, w = locals[y], NEW g, g = jsinstRef(heap, w)
    PROVE  /\ w \in 0..Len(heap) /\ w \in Nat /\ w \in 0..Len(g)
           /\ Sound(locals, g, cells, <<w>>)
           /\ Rest(g, cells, pending, flaws)
           /\ g \in Seq(Insts) /\ DOMAIN g = DOMAIN heap /\ Tidy(g, cells)
           /\ \A i \in DOMAIN heap : /\ g[i] \in Insts
                                     /\ g[i] = [heap[i] EXCEPT !.refcount = g[i].refcount]
                                     /\ heap[i].live => g[i].live
  <1>1. w \in 0..Len(heap) /\ (w # 0 => heap[w].live)
    BY VarLives
  <1>2. Sound(locals, heap, cells, <<>>) /\ Rest(heap, cells, pending, flaws)
    BY DEF NativeInv
  <1>3. Sound(locals, g, cells, <<w>>) /\ Kept(heap, cells, g, cells)
    BY <1>1, <1>2, RefSound
  <1>4. Rest(g, cells, pending, flaws)
    BY <1>2, <1>3, KeptRest
  <1>5. /\ heap \in Seq(Insts) /\ Len(heap) \in Nat
    BY StateTypes
  <1>6. /\ g \in Seq(Insts) /\ DOMAIN g = DOMAIN heap /\ Len(g) = Len(heap)
        /\ \A i \in DOMAIN heap : i # w => g[i] = heap[i]
        /\ w \in DOMAIN heap => g[w] = [heap[w] EXCEPT !.refcount = heap[w].refcount + 1]
    <2>1. /\ jsinstRef(heap, w) \in Seq(Insts) /\ DOMAIN jsinstRef(heap, w) = DOMAIN heap
          /\ Len(jsinstRef(heap, w)) = Len(heap)
          /\ \A i \in DOMAIN heap : i # w => jsinstRef(heap, w)[i] = heap[i]
          /\ w \in DOMAIN heap =>
               jsinstRef(heap, w)[w] = [heap[w] EXCEPT !.refcount = heap[w].refcount + 1]
      BY <1>1, <1>5, RefFields
    <2>2. QED
      BY <2>1
  <1>7. \A i \in DOMAIN heap : heap[i] \in Insts /\ g[i] \in Insts
    BY <1>5, <1>6, ElementOfSeq
  <1>8. ASSUME NEW i \in DOMAIN heap
        PROVE  /\ g[i] = [heap[i] EXCEPT !.refcount = g[i].refcount]
               /\ heap[i].live => g[i].live
    <2>1. heap[i] \in Insts
      BY <1>7
    <2>2. CASE i = w
      <3>1. g[i] = [heap[i] EXCEPT !.refcount = heap[i].refcount + 1]
        BY <1>6, <2>2
      <3>2. QED
        BY <2>1, <3>1 DEF Insts
    <2>3. CASE i # w
      <3>1. g[i] = heap[i]
        BY <1>6, <2>3
      <3>2. QED
        BY <2>1, <3>1 DEF Insts
    <2>4. QED
      BY <2>2, <2>3
  <1>9. Tidy(g, cells)
    BY <1>3 DEF Sound
  <1>10. QED
    BY <1>1, <1>3, <1>4, <1>5, <1>6, <1>7, <1>8, <1>9

Adds(c, w, b, n) == b = Celled(c, w) /\ n = Len(c) + 1

Added(c, w, b, n) ==
    /\ b \in Seq(CellSet) /\ b[n].v = w /\ b[n].live /\ n \in Nat /\ n \notin DOMAIN c
    /\ DOMAIN b = DOMAIN c \cup {n}
    /\ \A k \in DOMAIN c : b[k] = c[k]

\* The cell after the last one
LEMMA NextCell ==
    ASSUME NEW c \in Seq(CellSet), NEW w \in Nat, NEW b, NEW n, Adds(c, w, b, n)
    PROVE  Added(c, w, b, n)
  <1>1. PICK e : e = [v |-> w, live |-> TRUE]
    OBVIOUS
  <1>2. e \in CellSet /\ e.v = w /\ e.live
    BY <1>1 DEF CellSet
  <1>3. b = Append(c, e) /\ n = Len(c) + 1
    BY <1>1 DEF Celled, Adds
  <1>4. /\ b \in Seq(CellSet) /\ b[n] = e /\ Len(c) \in Nat
        /\ DOMAIN c = 1..Len(c) /\ DOMAIN b = 1..(Len(c) + 1)
        /\ \A k \in DOMAIN c : b[k] = c[k]
    BY <1>2, <1>3, AppendFields
  <1>5. DOMAIN b = DOMAIN c \cup {n} /\ n \notin DOMAIN c /\ n \in Nat
    BY <1>3, <1>4
  <1>6. QED
    BY <1>2, <1>4, <1>5 DEF Added

\* A value is added to a vector.
LEMMA AddStep ==
    ASSUME NativeInv, NEW x \in Roots, NEW y \in Roots, vector_add(x, y)
    PROVE  NativeInv'
  <1>1. PICK i, w, o, g, n, k : /\ i = locals[x] /\ w = locals[y] /\ o = heap[i]
                                /\ g = jsinstRef(heap, w) /\ n = Len(cells) + 1
                                /\ k = Cardinality(DOMAIN o.elems)
    OBVIOUS
  <1>2. /\ IsInst(i) /\ o.cls = "Vector" /\ cells' = Celled(cells, w)
        /\ heap' = jsinstRef([heap EXCEPT ![i] = With(o, k, n, w)], w)
        /\ locals' = locals /\ pending' = pending /\ flaws' = flaws
    BY <1>1 DEF vector_add, Calls, Inst, NewCell, Celled
  <1>3. i \in DOMAIN heap /\ o.live /\ o \in Insts
    BY <1>1, <1>2, VarLives
  <1>4. /\ w \in 0..Len(heap) /\ w \in Nat /\ w \in 0..Len(g)
        /\ Sound(locals, g, cells, <<w>>) /\ Rest(g, cells, pending, flaws)
        /\ g \in Seq(Insts) /\ DOMAIN g = DOMAIN heap /\ Tidy(g, cells)
        /\ g[i] \in Insts /\ g[i] = [o EXCEPT !.refcount = g[i].refcount] /\ g[i].live
    BY <1>1, <1>3, Counting
  <1>5. /\ g[i].cls = o.cls /\ g[i].elems = o.elems /\ g[i].hidden = o.hidden
        /\ g[i].dims = o.dims /\ g[i].want = o.want
    <2>1. PICK f, r : f = g[i] /\ r = g[i].refcount
      OBVIOUS
    <2>2. o \in Insts /\ f = [o EXCEPT !.refcount = r]
      BY <1>3, <1>4, <2>1
    <2>3. /\ f.cls = o.cls /\ f.elems = o.elems /\ f.hidden = o.hidden
          /\ f.dims = o.dims /\ f.want = o.want
      BY <2>2 DEF Insts
    <2>4. QED
      BY <2>1, <2>3
  <1>6. PICK d \in Nat : DOMAIN o.elems = 0..(d - 1)
    BY <1>2, <1>3, <1>4, <1>5 DEF Rest, Contents, Shaped
  <1>7. k = d /\ k \in Marks /\ k \notin DOMAIN o.elems
    <2>1. Cardinality(0..(d - 1)) = IF 0 > d - 1 THEN 0 ELSE (d - 1) - 0 + 1
      BY FS_Interval
    <2>2. k = d
      BY <1>1, <1>6, <2>1
    <2>3. QED
      BY <1>6, <2>2 DEF Marks
  <1>8. cells \in Seq(CellSet) /\ heap \in Seq(Insts)
    BY StateTypes
  <1>9. PICK b : b = Celled(cells, w)
    OBVIOUS
  <1>10. /\ b \in Seq(CellSet) /\ b[n].v = w /\ b[n].live /\ n \in Nat /\ n \notin DOMAIN cells
         /\ DOMAIN b = DOMAIN cells \cup {n} /\ \A j \in DOMAIN cells : b[j] = cells[j]
    <2>1. cells \in Seq(CellSet) /\ w \in Nat /\ Adds(cells, w, b, n)
      BY <1>1, <1>4, <1>8, <1>9 DEF Adds
    <2>2. Added(cells, w, b, n)
      BY <2>1, NextCell
    <2>3. QED
      BY <2>2 DEF Added
  <1>11. PICK a, q : a = With(o, k, n, w) /\ q = With(g[i], k, n, w)
    OBVIOUS
  <1>12. /\ a \in Insts /\ a.refcount = o.refcount
    BY <1>3, <1>4, <1>7, <1>10, <1>11, WithFields
  <1>13. /\ q \in Insts /\ q.cls = o.cls /\ q.refcount = g[i].refcount /\ q.live
         /\ q.hidden = o.hidden /\ q.dims = o.dims
         /\ q.elems = Put(o.elems, k, n) /\ q.want = Put(o.want, k, w)
    <2>1. PICK f : f = g[i]
      OBVIOUS
    <2>2. f \in Insts /\ q = With(f, k, n, w) /\ k \in Marks /\ n \in Nat /\ w \in Nat
      BY <1>4, <1>7, <1>10, <1>11, <2>1
    <2>3. /\ q \in Insts /\ q.cls = f.cls /\ q.refcount = f.refcount /\ q.live = f.live
          /\ q.hidden = f.hidden /\ q.dims = f.dims
          /\ q.elems = Put(f.elems, k, n) /\ q.want = Put(f.want, k, w)
      BY <2>2, WithFields
    <2>4. QED
      BY <1>4, <1>5, <2>1, <2>3
  <1>14. q = [a EXCEPT !.refcount = g[i].refcount]
    BY <1>3, <1>4, <1>5, <1>11 DEF With, Insts
  <1>15. heap' = [g EXCEPT ![i] = q]
    <2>1. PICK h : h = heap
      OBVIOUS
    <2>2. /\ h \in Seq(Insts) /\ w \in 0..Len(h) /\ i \in DOMAIN h /\ a \in Insts
          /\ a.refcount = h[i].refcount /\ q = [a EXCEPT !.refcount = jsinstRef(h, w)[i].refcount]
      BY <1>1, <1>3, <1>4, <1>8, <1>12, <1>14, <2>1
    <2>3. jsinstRef([h EXCEPT ![i] = a], w) = [jsinstRef(h, w) EXCEPT ![i] = q]
      BY <2>2, RefReplace
    <2>4. QED
      BY <1>1, <1>2, <1>11, <2>1, <2>3
  <1>16. Apart(g[i]) /\ (\A j \in Owned(g[i]) : j \in DOMAIN cells)
    BY <1>3, <1>4 DEF Tidy
  <1>17. n \notin Owned(g[i])
    BY <1>10, <1>16
  <1>18. /\ Apart(q) /\ n \in Owned(q)
         /\ \A j \in Owned(q) : j \in Owned(g[i]) \/ j = n
         /\ \A j \in Owned(g[i]) : j \in Owned(q)
    <2>1. PICK f : f = g[i]
      OBVIOUS
    <2>2. /\ q.elems = Put(f.elems, k, n) /\ q.hidden = f.hidden /\ Apart(f) /\ n \notin Owned(f)
          /\ k \notin DOMAIN f.elems
      BY <1>5, <1>7, <1>13, <1>16, <1>17, <2>1
    <2>3. /\ Apart(q) /\ n \in Owned(q)
          /\ \A j \in Owned(q) : j \in Owned(f) \/ j = n
          /\ \A j \in Owned(f) : j \in Owned(q) \/ (k \in DOMAIN f.elems /\ j = f.elems[k])
      BY <2>2, PutOwned
    <2>4. QED
      BY <2>1, <2>2, <2>3
  <1>19. Sound(locals, [g EXCEPT ![i] = q], b, <<>>)
    <2>1. \A j \in Owned(q) : j \in Owned(g[i]) \/ j = Len(cells) + 1
      BY <1>1, <1>18
    <2>2. QED
      BY <1>3, <1>4, <1>9, <1>13, <1>18, <2>1, CellSound
  <1>20. Shaped(q)
    <2>1. DOMAIN q.elems = DOMAIN o.elems \cup {k}
      BY <1>13 DEF Put
    <2>2. DOMAIN q.elems = 0..((d + 1) - 1) /\ d + 1 \in Nat
      BY <1>6, <1>7, <2>1
    <2>3. q.hidden = {}
      <3>1. Shaped(g[i])
        BY <1>3, <1>4 DEF Rest, Contents
      <3>2. QED
        BY <1>2, <1>5, <1>13, <3>1 DEF Shaped
    <2>4. QED
      BY <1>2, <1>13, <2>2, <2>3 DEF Shaped
  <1>21. Holds(q, b)
    <2>1. PICK f : f = g[i]
      OBVIOUS
    <2>2. Holds(f, cells)
      BY <1>3, <1>4, <2>1 DEF Rest, Contents
    <2>3. /\ q.elems = Put(f.elems, k, n) /\ q.want = Put(f.want, k, w) /\ q.cls = f.cls
          /\ q.dims = f.dims /\ f.cls # "Array" /\ n \notin Owned(f)
      BY <1>2, <1>5, <1>13, <1>17, <2>1
    <2>4. \A j \in Owned(q) : j # n => b[j] = cells[j]
      BY <1>10, <1>16, <1>18
    <2>5. QED
      BY <1>10, <2>2, <2>3, <2>4, PutHolds
  <1>22. Changes(g, cells, i, q, b, flaws, flaws)
    <2>1. \A j \in DOMAIN b \ DOMAIN cells : j = n
      BY <1>10
    <2>2. n \in DOMAIN b \ DOMAIN cells
      BY <1>10
    <2>3. DOMAIN cells \in SUBSET DOMAIN b
      BY <1>10
    <2>4. QED
      BY <1>3, <1>4, <1>5, <1>10, <1>13, <1>18, <1>20, <1>21, <2>1, <2>2, <2>3 DEF Changes
  <1>23. ASSUME NEW p, Pends(g, cells, p), p.inst = i PROVE Follows(g[i], q, b, flaws, p)
    <2>1. PICK f : f = g[i]
      OBVIOUS
    <2>2. /\ q.elems = Put(f.elems, k, n) /\ q.want = Put(f.want, k, w) /\ q.cls = f.cls
          /\ q.dims = f.dims /\ q.hidden = f.hidden /\ f.cls = "Vector" /\ Apart(f)
          /\ n \notin Owned(f) /\ k \notin DOMAIN f.elems
      BY <1>2, <1>5, <1>7, <1>13, <1>16, <1>17, <2>1
    <2>3. p.cell # n /\ (p.cell \in Owned(f) => At(f, p)) /\ (At(f, p) => Numbered(f, p))
      BY <1>3, <1>4, <1>10, <1>23, <2>1 DEF Pends
    <2>4. Follows(f, q, b, flaws, p)
      BY <2>2, <2>3, PutFollows
    <2>5. QED
      BY <2>1, <2>4
  <1>24. Rest([g EXCEPT ![i] = q], b, pending, flaws)
    BY <1>4, <1>22, <1>23, ChangeRest
  <1>25. QED
    BY <1>2, <1>9, <1>15, <1>19, <1>24 DEF NativeInv

\* Methods that only answer
LEMMA AsksStep ==
    ASSUME NativeInv, NEW z \in Roots, NEW rs, \A r \in rs : r.v = Plain, Asks(rs, z)
    PROVE  NativeInv'
  <1>1. PICK r \in rs : \/ r.err # None /\ Fail(r.err)
                        \/ r.err = None /\ Answer(z, r.v) /\ UNCHANGED <<pending, err, flaws>>
    BY DEF Asks
  <1>2. CASE r.err # None /\ Fail(r.err)
    BY <1>2, LeaveStep DEF Fail
  <1>3. CASE r.err = None /\ Answer(z, r.v) /\ UNCHANGED <<pending, err, flaws>>
    <2>1. Answer(z, 0) /\ pending' = pending /\ flaws' = flaws
      BY <1>3 DEF Plain
    <2>2. Rest(heap, cells, pending', flaws')
      BY <2>1 DEF NativeInv
    <2>3. 0 \in 0..Len(heap)
      BY StateTypes
    <2>4. QED
      BY <2>1, <2>2, <2>3, AnswerStep
  <1>4. QED
    BY <1>1, <1>2, <1>3

\* They answer a value that is no instance.
LEMMA AnswersPlain ==
    ASSUME NEW o, NEW v
    PROVE  /\ \A r \in Static(v) : r.v = Plain
           /\ o.cls \in Classes => \A r \in OfInstance(o, v) : r.v = Plain
  <1>1. \A e : Ok(Plain).v = Plain /\ Not(e).v = Plain
    BY DEF Ok, Not
  <1>2. \A r \in Static(v) : r.v = Plain
    BY <1>1 DEF Static, object_parseInt, object_parseFloat, object_toString, object_typename,
               object_length, math_exp, math_rand
  <1>3. /\ array_dims(o).v = Plain /\ (\A d : array_length(o, d).v = Plain)
        /\ vector_size(o).v = Plain /\ stringbuffer_tostring(o).v = Plain
        /\ datetime_tomilliseconds(o).v = Plain /\ datetime_diffms(o, v).v = Plain
    BY <1>1 DEF array_dims, array_length, vector_size, stringbuffer_tostring,
               datetime_tomilliseconds, datetime_diffms
  <1>4. ASSUME o.cls \in Classes, NEW r \in OfInstance(o, v) PROVE r.v = Plain
    <2>1. CASE o.cls = "Array"
      BY <1>3, <2>1 DEF OfInstance
    <2>2. CASE o.cls = "Vector"
      BY <1>3, <2>2 DEF OfInstance
    <2>3. CASE o.cls = "StringBuffer"
      BY <1>3, <2>3 DEF OfInstance
    <2>4. CASE o.cls = "DateTime"
      BY <1>3, <2>4 DEF OfInstance
    <2>5. CASE o.cls = "Hashtable"
      BY <2>5 DEF OfInstance
    <2>6. QED
      BY <1>4, <2>1, <2>2, <2>3, <2>4, <2>5 DEF Classes
  <1>5. QED
    BY <1>2, <1>4

\* An assignment of one variable to another
LEMMA AssignStep ==
    ASSUME NativeInv, NEW x \in Roots, NEW v \in 0..Len(heap), v # 0 => heap[v].live, Assign(x, v)
    PROVE  NativeInv'
  <1>1. Answer(x, v) /\ pending' = pending /\ flaws' = flaws
    BY DEF Assign
  <1>2. Rest(heap, cells, pending', flaws')
    BY <1>1 DEF NativeInv
  <1>3. QED
    BY <1>1, <1>2, AnswerStep

\* new
LEMMA NewStep ==
    ASSUME NativeInv, NEW x \in Roots, NEW cls \in Classes, NEW args \in Lengths, New(x, cls, args)
    PROVE  NativeInv'
  <1>1. PICK r : r = IF <<cls, cls, Len(args)>> \in Intrinsics THEN Constructed(Blank(cls), args)
                     ELSE [o |-> Blank(cls),
                           err |-> IF args = <<>> THEN None ELSE "UNKNOWN_METHOD"]
    OBVIOUS
  <1>2. PICK q : q = [r.o EXCEPT !.refcount = 1, !.live = TRUE]
    OBVIOUS
  <1>3. PICK m : m = varClear(Append(heap, q), cells, <<locals[x]>>)
    OBVIOUS
  <1>4. CASE r.err # None
    <2>1. Fail(r.err)
      BY <1>1, <1>4 DEF New
    <2>2. QED
      BY <2>1, LeaveStep DEF Fail
  <1>5. CASE r.err = None
    <2>1. /\ heap' = m.h /\ cells' = m.c /\ locals' = [locals EXCEPT ![x] = Len(heap) + 1]
          /\ pending' = pending /\ flaws' = flaws
      BY <1>1, <1>2, <1>3, <1>5 DEF New
    <2>2. Fresh(q) /\ q.refcount = 1
      <3>1. args \in Seq(Int) /\ Blank(cls) \in Insts
        BY NativeBounds, BlankTypes
      <3>2. r.o = Blank(cls) \/ \E ds \in Seq(Int) : r.o = Made(Blank(cls), ds)
        BY <1>1, <3>1, ConstructedIs
      <3>3. CASE r.o = Blank(cls)
        BY <1>2, <3>3, BlankFresh
      <3>4. CASE \E ds \in Seq(Int) : r.o = Made(Blank(cls), ds)
        BY <1>2, <3>1, <3>4, MadeFields
      <3>5. QED
        BY <3>2, <3>3, <3>4
    <2>3. Sound(locals, heap, cells, <<>>) /\ Rest(heap, cells, pending, flaws)
      BY DEF NativeInv
    <2>4. Sound([locals EXCEPT ![x] = Len(heap) + 1], m.h, m.c, <<>>)
          /\ Rest(m.h, m.c, pending, flaws)
      BY <1>3, <2>2, <2>3, NewAnswer
    <2>5. QED
      BY <2>1, <2>4 DEF NativeInv
  <1>6. QED
    BY <1>4, <1>5

\* DateTime::now
LEMMA NowStep ==
    ASSUME NativeInv, NEW y \in Roots, datetime_now(y)
    PROVE  NativeInv'
  <1>1. PICK q : q = [Made(Blank("DateTime"), <<>>) EXCEPT !.refcount = 1, !.live = TRUE]
    OBVIOUS
  <1>2. PICK m : m = varClear(Append(heap, q), cells, <<locals[y]>>)
    OBVIOUS
  <1>3. /\ heap' = m.h /\ cells' = m.c /\ locals' = [locals EXCEPT ![y] = Len(heap) + 1]
        /\ pending' = pending /\ flaws' = flaws
    BY <1>1, <1>2 DEF datetime_now, datetime_datetime
  <1>4. Blank("DateTime") \in Insts /\ <<>> \in Seq(Int)
    BY BlankTypes DEF Classes
  <1>5. Fresh(q) /\ q.refcount = 1
    BY <1>1, <1>4, MadeFields
  <1>6. Sound(locals, heap, cells, <<>>) /\ Rest(heap, cells, pending, flaws)
    BY DEF NativeInv
  <1>7. Sound([locals EXCEPT ![y] = Len(heap) + 1], m.h, m.c, <<>>)
        /\ Rest(m.h, m.c, pending, flaws)
    BY <1>2, <1>5, <1>6, NewAnswer
  <1>8. QED
    BY <1>3, <1>7 DEF NativeInv

\* The value of a key
LEMMA GetStep ==
    ASSUME NativeInv, NEW x \in Roots, NEW key, NEW y \in Roots, hashtable_get(x, key, y)
    PROVE  NativeInv'
  <1>1. PICK k, o : k = varToString(key) /\ o = Inst(x)
    OBVIOUS
  <1>2. PICK v : v = IF k \in DOMAIN o.elems THEN cells[o.elems[k]].v ELSE Plain
    OBVIOUS
  <1>3. Answer(y, v) /\ pending' = pending /\ flaws' = flaws /\ IsInst(locals[x])
    BY <1>1, <1>2 DEF hashtable_get, Calls
  <1>4. Rest(heap, cells, pending', flaws')
    BY <1>3 DEF NativeInv
  <1>5. v \in 0..Len(heap) /\ (v # 0 => heap[v].live)
    <2>1. CASE k \in DOMAIN o.elems
      <3>1. PICK n : n = o.elems[k]
        OBVIOUS
      <3>2. locals[x] \in DOMAIN heap /\ o = heap[locals[x]]
        BY <1>1, <1>3, VarLives DEF Inst
      <3>3. n \in Owned(o)
        BY <2>1, <3>1 DEF Owned, Range
      <3>4. n \in DOMAIN cells /\ cells[n].live
        BY <3>2, <3>3, StateTypes DEF Tidy
      <3>5. QED
        BY <1>2, <2>1, <3>1, <3>4, CellLives
    <2>2. CASE k \notin DOMAIN o.elems
      BY <1>2, <2>2, StateTypes DEF Plain
    <2>3. QED
      BY <2>1, <2>2
  <1>6. QED
    BY <1>3, <1>4, <1>5, AnswerStep

\* A record without its entries
Bare(o) == [o EXCEPT !.elems = <<>>, !.hidden = {}, !.want = <<>>]

\* A table that lost its entries is as fresh as a new one.
LEMMA BareFields ==
    ASSUME NEW o \in Insts, o.live, NEW q, q = Bare(o)
    PROVE  Fresh(q) /\ q.cls = o.cls /\ q.refcount = o.refcount /\ q.live
  <1>0. q = [o EXCEPT !.elems = <<>>, !.hidden = {}, !.want = <<>>]
    BY DEF Bare
  <1>1. /\ q.live = o.live /\ q.elems = <<>> /\ q.hidden = {} /\ q.want = <<>>
        /\ q.cls = o.cls /\ q.refcount = o.refcount /\ q.made = o.made /\ q.dims = o.dims
        /\ q.num = o.num
    BY <1>0 DEF Insts
  <1>2. <<>> \in Partial(Nat)
    <2>1. <<>> \in [{} -> Nat] /\ {} \in SUBSET Marks
      OBVIOUS
    <2>2. QED
      BY <2>1 DEF Partial
  <1>3. q \in Insts
    BY <1>0, <1>2 DEF Insts
  <1>4. QED
    BY <1>1, <1>3 DEF Fresh

\* A table is cleared.
LEMMA TableClearStep ==
    ASSUME NativeInv, NEW x \in Roots, hashtable_clear(x)
    PROVE  NativeInv'
  <1>1. PICK i, o, q : i = locals[x] /\ o = heap[i] /\ q = Bare(o)
    OBVIOUS
  <1>2. /\ IsInst(i) /\ o.cls = "Hashtable" /\ cells' = cells /\ locals' = locals
        /\ pending' = pending
        /\ flaws' = flaws \cup (IF Owned(o) = {} THEN {} ELSE {"lost"})
    BY <1>1 DEF hashtable_clear, Calls, Inst
  <1>3. i \in DOMAIN heap /\ o.live /\ o \in Insts /\ heap \in Seq(Insts)
    BY <1>1, <1>2, VarLives, StateTypes
  <1>4. heap' = [heap EXCEPT ![i] = q]
    <2>1. heap' = [heap EXCEPT ![i].elems = <<>>, ![i].hidden = {}, ![i].want = <<>>]
      BY <1>1 DEF hashtable_clear
    <2>2. QED
      BY <1>1, <1>3, <2>1 DEF Bare, Insts
  <1>5. Fresh(q) /\ q.cls = o.cls /\ q.refcount = o.refcount /\ q.live
    BY <1>1, <1>3, BareFields
  <1>6. Owned(q) = {} /\ Apart(q) /\ q \in Insts
    BY <1>5, FreshFields DEF Fresh
  <1>7. Sound(locals, heap, cells, <<>>) /\ Rest(heap, cells, pending, flaws)
    BY DEF NativeInv
  <1>8. Sound(locals, [heap EXCEPT ![i] = q], cells, <<>>)
    BY <1>1, <1>3, <1>5, <1>6, <1>7, ReplaceSound
  <1>9. Owned(heap[i]) # {} => flaws' # {} /\ heap[i].cls = "Hashtable"
    BY <1>1, <1>2
  <1>10. Rest([heap EXCEPT ![i] = q], cells, pending, flaws')
    <2>1. flaws \in SUBSET flaws'
      BY <1>2
    <2>2. PICK G : G = flaws'
      OBVIOUS
    <2>3. QED
      BY <1>1, <1>3, <1>5, <1>7, <1>9, <2>1, <2>2, EmptiedRest
  <1>11. QED
    BY <1>2, <1>4, <1>8, <1>10 DEF NativeInv

\* A text grows.
LEMMA AppendStep ==
    ASSUME NativeInv, NEW x \in Roots, stringbuffer_append(x)
    PROVE  NativeInv'
  <1>1. PICK i, o, q : i = locals[x] /\ o = heap[i] /\ q = [o EXCEPT !.num = o.num + 1]
    OBVIOUS
  <1>2. IsInst(i) /\ o.cls = "StringBuffer" /\ cells' = cells /\ locals' = locals
        /\ pending' = pending /\ flaws' = flaws
    BY <1>1 DEF stringbuffer_append, Calls, Inst
  <1>3. i \in DOMAIN heap /\ o.live /\ o \in Insts /\ heap \in Seq(Insts)
    BY <1>1, <1>2, VarLives, StateTypes
  <1>4. heap' = [heap EXCEPT ![i] = q]
    <2>1. heap' = [heap EXCEPT ![i].num = @ + 1]
      BY <1>1 DEF stringbuffer_append
    <2>2. QED
      BY <1>1, <1>3, <2>1
  <1>5. /\ q.cls = o.cls /\ q.elems = o.elems /\ q.hidden = o.hidden /\ q.dims = o.dims
        /\ q.want = o.want /\ q.refcount = o.refcount /\ q.live = o.live /\ q \in Insts
    <2>1. PICK n \in Nat : n = o.num + 1
      BY <1>3 DEF Insts
    <2>2. q = [o EXCEPT !.num = n]
      BY <1>1, <2>1
    <2>3. QED
      BY <1>3, <2>2 DEF Insts
  <1>6. Owned(q) = Owned(o) /\ Apart(o)
    BY <1>1, <1>3, <1>5, StateTypes DEF Owned, Tidy
  <1>7. Apart(q)
    BY <1>5, <1>6 DEF Apart
  <1>8. Sound(locals, heap, cells, <<>>) /\ Rest(heap, cells, pending, flaws)
    BY DEF NativeInv
  <1>9. Sound(locals, [heap EXCEPT ![i] = q], cells, <<>>)
    BY <1>1, <1>3, <1>5, <1>6, <1>7, <1>8, ReplaceSound
  <1>10. Shaped(q) /\ Holds(q, cells)
    <2>1. Shaped(o) /\ Holds(o, cells)
      BY <1>1, <1>3, <1>8 DEF Rest, Contents
    <2>2. QED
      BY <1>5, <2>1, SameShape
  <1>11. Changes(heap, cells, i, q, cells, flaws, flaws)
    BY <1>1, <1>3, <1>5, <1>6, <1>10 DEF Changes
  <1>12. \A n \in DOMAIN pending :
            Pends(heap, cells, pending[n]) => pending[n].inst # i
    BY <1>1, <1>2 DEF Pends
  <1>13. Tidy(heap, cells)
    BY StateTypes
  <1>14. Rest([heap EXCEPT ![i] = q], cells, pending, flaws)
    BY <1>3, <1>8, <1>11, <1>12, <1>13, ChangeRest
  <1>15. QED
    BY <1>2, <1>4, <1>9, <1>14 DEF NativeInv

\* A constructor is called again.
LEMMA RemakeStep ==
    ASSUME NativeInv, NEW x \in Roots, NEW args \in Lengths, Remake(x, args)
    PROVE  NativeInv'
  <1>1. PICK i, o, r, g : /\ i = locals[x] /\ o = heap[i] /\ r = Constructed(o, args)
                          /\ g = [heap EXCEPT ![i] = r.o]
    OBVIOUS
  <1>2. PICK us, m : /\ us = IF r.err = None THEN <<>> ELSE ValuesOf(locals)
                     /\ m = varClear(g, cells, us)
    OBVIOUS
  <1>3. /\ IsInst(i) /\ heap' = m.h /\ cells' = m.c
        /\ locals' = IF r.err = None THEN locals ELSE Nothing
        /\ pending' = IF r.err = None THEN pending ELSE <<>>
        /\ flaws' = flaws \cup (IF Owned(r.o) # Owned(o) THEN {"remade"} ELSE {})
    BY <1>1, <1>2 DEF Remake, Inst, LocalValues, ValuesOf, Nothing
  <1>4. i \in DOMAIN heap /\ o.live /\ o \in Insts /\ heap \in Seq(Insts)
    BY <1>1, <1>3, VarLives, StateTypes
  <1>5. Sound(locals, heap, cells, <<>>) /\ Rest(heap, cells, pending, flaws)
    BY DEF NativeInv
  <1>6. r.o = o \/ \E ds \in Seq(Int) : r.o = Made(o, ds)
    <2>1. args \in Seq(Int)
      BY NativeBounds
    <2>2. QED
      BY <1>1, <1>4, <2>1, ConstructedIs
  <1>7. Sound(locals, g, cells, <<>>) /\ Rest(g, cells, pending, flaws')
    <2>1. CASE r.o = o
      <3>1. g = heap
        BY <1>1, <1>4, <2>1
      <3>2. flaws' = flaws
        BY <1>3, <2>1
      <3>3. QED
        BY <1>5, <3>1, <3>2
    <2>2. CASE \E ds \in Seq(Int) : r.o = Made(o, ds)
      <3>0. PICK ds \in Seq(Int) : r.o = Made(o, ds)
        BY <2>2
      <3>1. PICK q : q = Made(o, ds) /\ r.o = q
        BY <3>0
      <3>2. Fresh(q) /\ q.cls = o.cls /\ q.refcount = o.refcount
        <4>1. Fresh(Made(o, ds)) /\ Made(o, ds).cls = o.cls /\ Made(o, ds).refcount = o.refcount
          BY <1>4, MadeFields
        <4>2. QED
          BY <3>1, <4>1
      <3>3. Owned(q) = {} /\ Apart(q) /\ q \in Insts /\ q.live
        BY <3>2, FreshFields DEF Fresh
      <3>4. Sound(locals, [heap EXCEPT ![i] = q], cells, <<>>)
        BY <1>1, <1>4, <1>5, <3>2, <3>3, ReplaceSound
      <3>5. PICK G : G = flaws'
        OBVIOUS
      <3>6. flaws \in SUBSET G /\ (Owned(heap[i]) # {} => G # {} /\ "remade" \in G)
        BY <1>1, <1>3, <3>1, <3>3, <3>5
      <3>7. Rest([heap EXCEPT ![i] = q], cells, pending, G)
        BY <1>1, <1>4, <1>5, <3>2, <3>6, EmptiedRest
      <3>8. QED
        BY <1>1, <3>1, <3>4, <3>5, <3>7
    <2>3. QED
      BY <1>6, <2>1, <2>2
  <1>8. CASE r.err = None
    <2>1. Sound(locals, m.h, m.c, <<>>) /\ Kept(g, cells, m.h, m.c)
      BY <1>2, <1>7, <1>8, VarClearSound
    <2>2. Rest(m.h, m.c, pending, flaws')
      <3>1. PICK G : G = flaws'
        OBVIOUS
      <3>2. QED
        BY <1>7, <2>1, <3>1, KeptRest
    <2>3. QED
      BY <1>3, <1>8, <2>1, <2>2 DEF NativeInv
  <1>9. CASE r.err # None
    <2>1. m = varClear(g, cells, ValuesOf(locals))
      BY <1>2, <1>9
    <2>2. PICK G : G = flaws'
      OBVIOUS
    <2>3. Sound(Nothing, m.h, m.c, <<>>) /\ Rest(m.h, m.c, <<>>, G)
      BY <1>7, <2>1, <2>2, LeaveRest
    <2>4. QED
      BY <1>3, <1>9, <2>2, <2>3 DEF NativeInv
  <1>10. QED
    BY <1>8, <1>9

\* One reference more is pending.
LEMMA PendRest ==
    ASSUME NEW h, NEW c, NEW P, NEW F, Rest(h, c, P, F), NEW p \in Pendings, Pends(h, c, p),
           At(h[p.inst], p)
    PROVE  Rest(h, c, Append(P, p), F)
  <1>1. P \in Seq(Pendings)
    BY DEF Rest
  <1>2. PICK Q : Q = Append(P, p)
    OBVIOUS
  <1>3. /\ Q \in Seq(Pendings) /\ Q[Len(P) + 1] = p /\ Len(P) \in Nat
        /\ DOMAIN P = 1..Len(P) /\ DOMAIN Q = 1..(Len(P) + 1)
        /\ \A n \in DOMAIN P : Q[n] = P[n]
    BY <1>1, <1>2, AppendFields
  <1>4. \A n \in DOMAIN Q : Q[n] = p \/ (n \in DOMAIN P /\ Q[n] = P[n])
    BY <1>3
  <1>5. ASSUME NEW n \in DOMAIN Q PROVE Pends(h, c, Q[n])
    BY <1>4 DEF Rest
  <1>6. ASSUME "remade" \notin F, NEW n \in DOMAIN Q, c[Q[n].cell].live PROVE At(h[Q[n].inst], Q[n])
    BY <1>4, <1>6 DEF Rest
  <1>7. QED
    BY <1>2, <1>3, <1>5, <1>6 DEF Rest

\* A reference to an element of a vector
LEMMA ElementAtStep ==
    ASSUME NativeInv, NEW x \in Roots, NEW k \in Places, vector_elementat(x, k)
    PROVE  NativeInv'
  <1>1. PICK i, o : i = locals[x] /\ o = heap[i]
    OBVIOUS
  <1>2. IsInst(i) /\ o.cls = "Vector"
    BY <1>1 DEF vector_elementat, Calls, Inst
  <1>3. i \in DOMAIN heap /\ o.live /\ o \in Insts
    BY <1>1, <1>2, VarLives
  <1>4. CASE k = NotInt \/ k \notin DOMAIN o.elems
    <2>1. Fail("TYPE_MISMATCH") \/ Fail("INDEX_OUT_OF_BOUNDS")
      BY <1>1, <1>4 DEF vector_elementat, Inst
    <2>2. QED
      BY <2>1, LeaveStep DEF Fail
  <1>5. CASE k # NotInt /\ k \in DOMAIN o.elems
    <2>1. PICK p : p = [cell |-> o.elems[k], inst |-> i, key |-> k, block |-> k]
      OBVIOUS
    <2>2. pending' = Append(pending, p) /\ UNCHANGED <<locals, heap, cells, flaws>>
      BY <1>1, <1>5, <2>1 DEF vector_elementat, Inst
    <2>3. /\ p.cell = o.elems[k] /\ p.inst = i /\ p.key = k /\ p.block = k
      BY <2>1
    <2>4. Sound(locals, heap, cells, <<>>) /\ Rest(heap, cells, pending, flaws)
          /\ Tidy(heap, cells)
      BY StateTypes DEF NativeInv
    <2>5. p.cell \in Owned(o)
      BY <1>5, <2>3 DEF Owned, Range
    <2>6. p.cell \in DOMAIN cells
      BY <1>1, <1>3, <2>4, <2>5 DEF Tidy
    <2>7. At(o, p)
      BY <1>5, <2>3 DEF At
    <2>8. \A j \in DOMAIN heap : p.cell \in Owned(heap[j]) => j = i
      BY <1>1, <1>3, <2>4, <2>5 DEF Tidy
    <2>9. Shaped(o) /\ Holds(o, cells)
      BY <1>1, <1>3, <2>4 DEF Rest, Contents
    <2>10. k \in Nat
      BY <1>2, <1>5, <2>9 DEF Shaped
    <2>11. Numbered(o, p)
      <3>1. Place(o, k) = k
        BY <1>2 DEF Place
      <3>2. Len(o.dims) <= 1 => k \in DOMAIN o.want
        BY <1>2, <1>5, <2>9 DEF Holds
      <3>3. QED
        BY <2>3, <2>10, <3>1, <3>2 DEF Numbered
    <2>12. Pends(heap, cells, p)
      BY <1>1, <1>2, <1>3, <2>3, <2>6, <2>7, <2>8, <2>11 DEF Pends
    <2>13. p \in Pendings
      <3>1. p.cell \in Nat /\ i \in Nat /\ k \in Marks
        BY <1>3, <2>6, <2>10, StateTypes DEF Marks
      <3>2. QED
        BY <2>1, <2>3, <3>1 DEF Pendings
    <2>14. Rest(heap, cells, Append(pending, p), flaws)
      BY <1>1, <2>3, <2>4, <2>7, <2>12, <2>13, PendRest
    <2>15. QED
      BY <2>2, <2>4, <2>14 DEF NativeInv
  <1>6. QED
    BY <1>4, <1>5

\* A record that hides cells more, which are no cells of its entries
LEMMA HidesMore ==
    ASSUME NEW a, NEW q, NEW H, Apart(a), q.elems = a.elems, q.hidden = a.hidden \cup H,
           H \cap Owned(a) = {}
    PROVE  Apart(q) /\ Owned(q) = Owned(a) \cup H
  BY DEF Apart, Owned

\* A value is put into a table.
LEMMA PutStep ==
    ASSUME NativeInv, NEW x \in Roots, NEW key \in Keys, NEW y \in Roots, hashtable_put(x, key, y)
    PROVE  NativeInv'
  <1>1. PICK i, w, o, g, n, k, old :
             /\ i = locals[x] /\ w = locals[y] /\ o = heap[i]
             /\ g = jsinstRef(heap, w) /\ n = Len(cells) + 1
             /\ k = varToString(key)
             /\ old = IF k \in DOMAIN o.elems THEN {o.elems[k]} ELSE {}
    OBVIOUS
  <1>2. PICK H \in {{}, old} :
             /\ heap' = jsinstRef([heap EXCEPT ![i] =
                           Hiding(With(@, k, n, w), H)], w)
             /\ flaws' = flaws \cup (IF H = old THEN {} ELSE {"lost"})
    BY <1>1 DEF hashtable_put, Inst
  <1>3. /\ IsInst(i) /\ o.cls = "Hashtable" /\ cells' = Celled(cells, w)
        /\ locals' = locals /\ pending' = pending
    BY <1>1 DEF hashtable_put, Calls, Inst, NewCell, Celled
  <1>4. i \in DOMAIN heap /\ o.live /\ o \in Insts
    BY <1>1, <1>3, VarLives
  <1>5. /\ w \in 0..Len(heap) /\ w \in Nat /\ w \in 0..Len(g)
        /\ Sound(locals, g, cells, <<w>>) /\ Rest(g, cells, pending, flaws)
        /\ g \in Seq(Insts) /\ DOMAIN g = DOMAIN heap /\ Tidy(g, cells)
        /\ g[i] \in Insts /\ g[i] = [o EXCEPT !.refcount = g[i].refcount] /\ g[i].live
    BY <1>1, <1>4, Counting
  <1>6. PICK f, rc : f = g[i] /\ rc = g[i].refcount
    OBVIOUS
  <1>7. /\ f.cls = o.cls /\ f.elems = o.elems /\ f.hidden = o.hidden
        /\ f.dims = o.dims /\ f.want = o.want /\ rc \in Int /\ f.refcount = rc /\ f.live
    <2>1. o \in Insts /\ f = [o EXCEPT !.refcount = rc] /\ f \in Insts
      BY <1>4, <1>5, <1>6
    <2>2. /\ f.cls = o.cls /\ f.elems = o.elems /\ f.hidden = o.hidden
          /\ f.dims = o.dims /\ f.want = o.want /\ f.refcount \in Int
      BY <2>1 DEF Insts
    <2>3. QED
      BY <1>5, <1>6, <2>2
  <1>8. k \in Marks
    BY <1>1 DEF Marks
  <1>9. cells \in Seq(CellSet) /\ heap \in Seq(Insts)
    BY StateTypes
  <1>10. PICK b : b = Celled(cells, w)
    OBVIOUS
  <1>11. /\ b \in Seq(CellSet) /\ b[n].v = w /\ b[n].live /\ n \in Nat /\ n \notin DOMAIN cells
         /\ DOMAIN b = DOMAIN cells \cup {n} /\ \A j \in DOMAIN cells : b[j] = cells[j]
    <2>1. cells \in Seq(CellSet) /\ w \in Nat /\ Adds(cells, w, b, n)
      BY <1>1, <1>5, <1>9, <1>10 DEF Adds
    <2>2. Added(cells, w, b, n)
      BY <2>1, NextCell
    <2>3. QED
      BY <2>2 DEF Added
  <1>12. Apart(f) /\ (\A j \in Owned(f) : j \in DOMAIN cells)
    BY <1>4, <1>5, <1>6 DEF Tidy
  <1>13. n \notin Owned(f)
    BY <1>11, <1>12
  <1>14. PICK a : a = With(o, k, n, w)
    OBVIOUS
  <1>15. /\ a \in Insts /\ a.refcount = o.refcount /\ a.cls = o.cls /\ a.live = o.live
         /\ a.hidden = o.hidden /\ a.dims = o.dims
         /\ a.elems = Put(o.elems, k, n) /\ a.want = Put(o.want, k, w)
    <2>1. o \in Insts /\ a = With(o, k, n, w) /\ k \in Marks /\ n \in Nat /\ w \in Nat
      BY <1>4, <1>5, <1>8, <1>11, <1>14
    <2>2. QED
      BY <2>1, WithFields
  <1>16. /\ Apart(a) /\ n \in Owned(a)
         /\ \A j \in Owned(a) : j \in Owned(f) \/ j = n
         /\ \A j \in Owned(f) : j \in Owned(a) \/ (k \in DOMAIN f.elems /\ j = f.elems[k])
         /\ k \in DOMAIN f.elems => f.elems[k] \notin Owned(a)
    <2>1. a.elems = Put(f.elems, k, n) /\ a.hidden = f.hidden
      BY <1>7, <1>15
    <2>2. QED
      BY <1>12, <1>13, <2>1, PutOwned
  <1>17. \A j \in H : k \in DOMAIN f.elems /\ j = f.elems[k] /\ j \in Owned(f) /\ j \in Nat
    <2>1. f \in Insts
      BY <1>5, <1>6
    <2>2. \A j \in H : k \in DOMAIN f.elems /\ j = f.elems[k]
      BY <1>1, <1>2, <1>7
    <2>3. \A j \in H : j \in Owned(f)
      BY <2>2 DEF Owned, Range
    <2>4. DOMAIN cells \in SUBSET Nat
      BY StateTypes
    <2>5. QED
      BY <1>12, <2>2, <2>3, <2>4
  <1>18. PICK e, q : e = [a EXCEPT !.hidden = a.hidden \cup H] /\ q = [e EXCEPT !.refcount = rc]
    OBVIOUS
  <1>19. /\ e \in Insts /\ e.refcount = o.refcount /\ e.cls = o.cls /\ e.live = o.live
         /\ e.hidden = o.hidden \cup H /\ e.dims = o.dims
         /\ e.elems = Put(o.elems, k, n) /\ e.want = Put(o.want, k, w)
    <2>1. PICK S : S = a.hidden \cup H
      OBVIOUS
    <2>2. a.hidden \in SUBSET Nat
      BY <1>15 DEF Insts
    <2>3. S \in SUBSET Nat /\ e = [a EXCEPT !.hidden = S]
      BY <1>17, <1>18, <2>1, <2>2
    <2>4. /\ e \in Insts /\ e.refcount = a.refcount /\ e.cls = a.cls /\ e.live = a.live
          /\ e.hidden = S /\ e.dims = a.dims /\ e.elems = a.elems /\ e.want = a.want
      BY <1>15, <2>3 DEF Insts
    <2>5. QED
      BY <1>15, <2>1, <2>4
  <1>20. /\ q \in Insts /\ q.refcount = rc /\ q.cls = o.cls /\ q.live
         /\ q.hidden = o.hidden \cup H /\ q.dims = o.dims
         /\ q.elems = Put(o.elems, k, n) /\ q.want = Put(o.want, k, w)
    <2>1. /\ q \in Insts /\ q.refcount = rc /\ q.cls = e.cls /\ q.live = e.live
          /\ q.hidden = e.hidden /\ q.dims = e.dims /\ q.elems = e.elems /\ q.want = e.want
      BY <1>7, <1>18, <1>19 DEF Insts
    <2>2. QED
      BY <1>4, <1>19, <2>1
  <1>21. heap' = [g EXCEPT ![i] = q]
    <2>1. PICK h : h = heap
      OBVIOUS
    <2>2. /\ h \in Seq(Insts) /\ w \in 0..Len(h) /\ i \in DOMAIN h /\ e \in Insts
          /\ e.refcount = h[i].refcount /\ q = [e EXCEPT !.refcount = jsinstRef(h, w)[i].refcount]
      <3>1. rc = jsinstRef(h, w)[i].refcount
        BY <1>1, <1>6, <2>1
      <3>2. q = [e EXCEPT !.refcount = jsinstRef(h, w)[i].refcount]
        BY <1>18, <3>1
      <3>3. QED
        BY <1>1, <1>4, <1>5, <1>9, <1>19, <2>1, <3>2
    <2>3. jsinstRef([h EXCEPT ![i] = e], w) = [jsinstRef(h, w) EXCEPT ![i] = q]
      BY <2>2, RefReplace
    <2>4. heap' = jsinstRef([heap EXCEPT ![i] = e], w)
      <3>1. With(heap[i], k, n, w) = a /\ Hiding(a, H) = e
        BY <1>1, <1>14, <1>18 DEF Hiding
      <3>2. Hiding(With(heap[i], k, n, w), H) = e
        BY <3>1
      <3>3. QED
        BY <1>2, <3>2
    <2>5. QED
      BY <1>1, <2>1, <2>3, <2>4
  <1>22. Apart(q) /\ Owned(q) = Owned(a) \cup H
    <2>1. q.elems = a.elems /\ q.hidden = a.hidden \cup H /\ H \cap Owned(a) = {}
      BY <1>15, <1>16, <1>17, <1>20
    <2>2. QED
      BY <1>16, <2>1, HidesMore
  <1>23. \A j \in Owned(q) : j \in Owned(f) \/ j = n
    BY <1>16, <1>17, <1>22
  <1>24. \A j \in Owned(f) : j \in Owned(q) \/ flaws' # {}
    <2>1. TAKE j \in Owned(f)
    <2>2. CASE H = old
      BY <1>1, <1>7, <1>16, <1>22, <2>2
    <2>3. CASE H # old
      BY <1>2, <2>3
    <2>4. QED
      BY <2>2, <2>3
  <1>25. Sound(locals, [g EXCEPT ![i] = q], b, <<>>)
    <2>1. /\ i \in DOMAIN g /\ g[i].live /\ q.refcount = g[i].refcount /\ q.live /\ Apart(q)
          /\ \A j \in Owned(q) : j \in Owned(g[i]) \/ j = Len(cells) + 1
      BY <1>1, <1>4, <1>5, <1>6, <1>20, <1>22, <1>23
    <2>2. QED
      BY <1>5, <1>10, <1>20, <2>1, CellSound
  <1>26. Shaped(q)
    BY <1>3, <1>20 DEF Shaped
  <1>27. Holds(q, b)
    <2>1. Holds(f, cells)
      BY <1>4, <1>5, <1>6 DEF Rest, Contents
    <2>2. /\ q.elems = Put(f.elems, k, n) /\ q.want = Put(f.want, k, w) /\ q.cls = f.cls
          /\ q.dims = f.dims /\ f.cls # "Array"
      BY <1>3, <1>7, <1>20
    <2>3. \A j \in Owned(q) : j # n => b[j] = cells[j]
      BY <1>11, <1>12, <1>23
    <2>4. QED
      BY <1>11, <1>13, <2>1, <2>2, <2>3, PutHolds
  <1>28. PICK G : G = flaws'
    OBVIOUS
  <1>29. Changes(g, cells, i, q, b, flaws, G)
    <2>1. \A j \in DOMAIN b \ DOMAIN cells : j \in Owned(q)
      BY <1>11, <1>16, <1>22
    <2>2. \A j \in Owned(q) : j \in Owned(g[i]) \/ j \in DOMAIN b \ DOMAIN cells
      BY <1>6, <1>11, <1>23
    <2>3. DOMAIN cells \in SUBSET DOMAIN b /\ flaws \in SUBSET G
      BY <1>2, <1>11, <1>28
    <2>4. \A j \in Owned(g[i]) : j \in Owned(q) \/ G # {}
      BY <1>6, <1>24, <1>28
    <2>5. i \in DOMAIN g /\ g[i].live /\ q.live /\ q.cls = g[i].cls
      BY <1>4, <1>5, <1>6, <1>7, <1>20
    <2>6. QED
      BY <1>11, <1>26, <1>27, <2>1, <2>2, <2>3, <2>4, <2>5 DEF Changes
  <1>30. \A j \in DOMAIN pending : Pends(g, cells, pending[j]) => pending[j].inst # i
    BY <1>3, <1>6, <1>7 DEF Pends
  <1>31. Rest([g EXCEPT ![i] = q], b, pending, G)
    BY <1>5, <1>29, <1>30, ChangeRest
  <1>32. QED
    BY <1>3, <1>10, <1>21, <1>25, <1>28, <1>31 DEF NativeInv

-----------------------------------------------------------------------------
(* Elements of arrays                                                      *)

\* The place of an element of an array of one dimension
LEMMA ElementOne ==
    ASSUME NEW d, NEW k \in Int, d[1] \in Int
    PROVE  Element(d, <<k>>) = k * d[1]
  <1>1. PICK f : f = [j \in DOMAIN <<k>> |-> <<k>>[j] * d[j]]
    OBVIOUS
  <1>2. PICK a : a = k * d[1]
    OBVIOUS
  <1>3. a \in Int
    BY <1>2
  <1>4. DOMAIN <<k>> = 1..1
    OBVIOUS
  <1>5. f = [j \in 1..1 |-> a]
    BY <1>1, <1>2, <1>4
  <1>6. f \in Seq(Int) /\ Len(f) = 1 /\ f[1] = a
    BY <1>3, <1>5
  <1> DEFINE R(r) == r = [i \in 0..1 |-> IF i = 0 THEN 0 ELSE r[i - 1] + f[i]]
  <1>7. Element(d, <<k>>) = (CHOOSE r : R(r))[1]
    BY <1>1, <1>6 DEF Element, SumOver, Repeat
  <1>8. R([i \in 0..1 |-> IF i = 0 THEN 0 ELSE a])
    BY <1>3, <1>6
  <1>9. R(CHOOSE r : R(r))
    BY <1>8
  <1>10. ASSUME NEW r, R(r) PROVE r[1] = a
    BY <1>3, <1>6, <1>10
  <1>11. QED
    BY <1>2, <1>7, <1>9, <1>10

\* Its number is its index.
LEMMA BlockOne ==
    ASSUME NEW d, NEW k \in Int, d[1] \in Int
    PROVE  Block(d, <<k>>) = k
  <1> DEFINE R(r) == r = [i \in 0..1 |-> IF i = 0 THEN 0 ELSE r[i - 1] * d[i] + <<k>>[i]]
  <1>1. Len(<<k>>) = 1 /\ <<k>>[1] = k
    OBVIOUS
  <1>2. Block(d, <<k>>) = (CHOOSE r : R(r))[1]
    BY <1>1 DEF Block, Repeat
  <1>3. 0 * d[1] = 0 /\ 0 * d[1] + k = k
    OBVIOUS
  <1>4. R([i \in 0..1 |-> IF i = 0 THEN 0 ELSE k])
    BY <1>1, <1>3
  <1>5. R(CHOOSE r : R(r))
    BY <1>4
  <1>6. ASSUME NEW r, R(r) PROVE r[1] = k
    BY <1>1, <1>3, <1>6
  <1>7. QED
    BY <1>2, <1>5, <1>6

\* An index within the bounds has a place that no other index has.
LEMMA OwnPlace ==
    ASSUME NEW o \in Insts, o.cls = "Array", Len(o.dims) = 1, NEW z \in 0..(o.dims[1] - 1),
           NEW j \in Int, Place(o, j) = Place(o, z)
    PROVE  j = z
  <1>1. PICK d : d = o.dims[1]
    OBVIOUS
  <1>2. d \in Int
    BY <1>1 DEF Insts
  <1>3. z \in Int /\ d # 0
    BY <1>1, <1>2
  <1>4. j * d = z * d
    BY <1>1, <1>2, <1>3, ElementOne DEF Place
  <1>5. \A a, b \in Int : a * d = b * d => a = b
    BY <1>2, <1>3
  <1>6. QED
    BY <1>3, <1>4, <1>5

\* What the index of an array of one dimension stands for
LEMMA IndexOne ==
    ASSUME NEW o \in Insts, o.cls = "Array", NEW idx \in Seq(Int), Len(idx) = 1, Len(o.dims) = 1
    PROVE  \E j \in Int : /\ Element(o.dims, idx) = Place(o, j) /\ Block(o.dims, idx) = j
                          /\ InRange(o.dims, idx) <=> j \in 0..(o.dims[1] - 1)
  <1>1. PICK j \in Int : idx = <<j>>
    <2>1. PICK j : j = idx[1]
      OBVIOUS
    <2>2. j \in Int /\ <<j>> \in Seq(Int) /\ Len(<<j>>) = 1 /\ <<j>>[1] = j
      BY <2>1
    <2>3. \A i \in 1..Len(idx) : idx[i] = <<j>>[i]
      BY <2>1, <2>2
    <2>4. idx = <<j>>
      BY <2>2, <2>3, SeqEqual
    <2>5. QED
      BY <2>2, <2>4
  <1>2. o.dims[1] \in Int
    BY DEF Insts
  <1>3. Element(o.dims, idx) = Place(o, j)
    BY <1>1 DEF Place
  <1>4. Block(o.dims, idx) = j
    BY <1>1, <1>2, BlockOne
  <1>5. InRange(o.dims, idx) <=> j \in 0..(o.dims[1] - 1)
    BY <1>1 DEF InRange
  <1>6. QED
    BY <1>3, <1>4, <1>5

\* An array q that is o with the cell e at the place k, which has the number z
\* if it is within the bounds; the cells were c and are b
Itemed(o, q, k, e, z, c, b) ==
    /\ o \in Insts /\ q \in Insts /\ o.cls = "Array" /\ Len(o.dims) # 0
    /\ q.cls = o.cls /\ q.hidden = o.hidden /\ q.dims = o.dims /\ q.refcount = o.refcount
    /\ q.live = o.live
    /\ DOMAIN q.elems = DOMAIN o.elems \cup {k} /\ q.elems[k] = e
    /\ \A d \in DOMAIN o.elems : q.elems[d] = o.elems[d]
    /\ Len(o.dims) = 1 =>
         /\ DOMAIN q.want = DOMAIN o.want \cup ({z} \ {-1})
         /\ \A d \in DOMAIN o.want : q.want[d] = o.want[d]
         /\ z # -1 /\ z \notin DOMAIN o.want => q.want[z] = 0
         /\ \E j \in Int : k = Place(o, j) /\ z = IF j \in 0..(o.dims[1] - 1) THEN j ELSE -1
    /\ \A d \in DOMAIN c : d \in DOMAIN b /\ b[d] = c[d]
    /\ k \notin DOMAIN o.elems => /\ e \notin DOMAIN c /\ b[e].v = 0
                                  /\ DOMAIN b = DOMAIN c \cup {e}
    /\ k \in DOMAIN o.elems => b = c

\* An array has one dimension, or more, if it has any.
LEMMA Dimensions ==
    ASSUME NEW o \in Insts, Len(o.dims) # 0
    PROVE  Len(o.dims) = 1 \/ ~(Len(o.dims) <= 1)
  <1>1. PICK d \in Seq(Int) : d = o.dims
    BY DEF Insts
  <1>2. PICK n \in Nat : n = Len(d)
    OBVIOUS
  <1>3. n # 0
    BY <1>1, <1>2
  <1>4. n = 1 \/ ~(n <= 1)
    BY <1>3
  <1>5. n = Len(o.dims)
    BY <1>1, <1>2
  <1>6. QED
    BY <1>4, <1>5

\* The place of an index is the same in arrays of the same lengths.
LEMMA SamePlace ==
    ASSUME NEW o, NEW q, q.cls = o.cls, q.dims = o.dims
    PROVE  \A k : Place(q, k) = Place(o, k)
  BY DEF Place

\* The array holds what was put, and knows of its elements.
LEMMA ItemShape ==
    ASSUME NEW o, NEW q, NEW k, NEW e, NEW z, NEW c, NEW b, Itemed(o, q, k, e, z, c, b),
           Shaped(o), Holds(o, c), \A d \in Owned(o) : d \in DOMAIN c
    PROVE  Shaped(q) /\ Holds(q, b)
  <1>1. \A d : Place(q, d) = Place(o, d)
    BY SamePlace DEF Itemed
  <1>2. q.cls = "Array" /\ q.hidden = {} /\ o.cls = "Array" /\ Len(q.dims) # 0
        /\ q.dims = o.dims /\ o \in Insts
    BY DEF Itemed, Shaped
  <1>3. CASE Len(o.dims) # 1
    <2>1. Len(o.dims) = 1 \/ ~(Len(o.dims) <= 1)
      BY <1>2, Dimensions
    <2>2. ~(Len(q.dims) <= 1)
      BY <1>2, <1>3, <2>1
    <2>3. QED
      BY <1>2, <1>3, <2>2 DEF Shaped, Holds
  <1>4. CASE Len(o.dims) = 1
    <2>1. /\ DOMAIN q.want = DOMAIN o.want \cup ({z} \ {-1})
          /\ \A d \in DOMAIN o.want : q.want[d] = o.want[d]
          /\ z # -1 /\ z \notin DOMAIN o.want => q.want[z] = 0
      BY <1>4 DEF Itemed
    <2>2. PICK j \in Int : k = Place(o, j) /\ z = IF j \in 0..(o.dims[1] - 1) THEN j ELSE -1
      BY <1>4 DEF Itemed
    <2>3. /\ DOMAIN o.want \in SUBSET (0..(o.dims[1] - 1))
          /\ \A d \in 0..(o.dims[1] - 1) : Place(o, d) \in DOMAIN o.elems => d \in DOMAIN o.want
      BY <1>2, <1>4 DEF Shaped
    <2>4. z # -1 => z = j /\ j \in 0..(o.dims[1] - 1)
      BY <2>2
    <2>5. j \in 0..(o.dims[1] - 1) => z = j /\ z # -1
      BY <2>2
    <2>6. DOMAIN q.elems = DOMAIN o.elems \cup {k} /\ q.elems[k] = e
      BY DEF Itemed
    <2>7. DOMAIN q.want \in SUBSET (0..(o.dims[1] - 1))
      BY <2>1, <2>3, <2>4
    <2>8. ASSUME NEW d \in 0..(o.dims[1] - 1), Place(o, d) \in DOMAIN q.elems
          PROVE  d \in DOMAIN q.want
      <3>1. CASE Place(o, d) \in DOMAIN o.elems
        BY <2>1, <2>3, <3>1
      <3>2. CASE Place(o, d) = Place(o, j)
        <4>1. j = d
          BY <1>2, <1>4, <3>2, OwnPlace
        <4>2. QED
          BY <2>1, <2>5, <4>1
      <3>3. QED
        BY <2>2, <2>6, <2>8, <3>1, <3>2
    <2>9. Shaped(q)
      BY <1>1, <1>2, <1>4, <2>7, <2>8 DEF Shaped
    <2>10. ASSUME NEW d \in DOMAIN q.want
           PROVE  Place(o, d) \in DOMAIN q.elems /\ b[q.elems[Place(o, d)]].v = q.want[d]
      <3>1. CASE d \in DOMAIN o.want
        <4>1. Place(o, d) \in DOMAIN o.elems /\ c[o.elems[Place(o, d)]].v = o.want[d]
          BY <1>4, <3>1 DEF Holds
        <4>2. o.elems[Place(o, d)] \in DOMAIN c
          BY <4>1 DEF Owned, Range
        <4>3. b[o.elems[Place(o, d)]] = c[o.elems[Place(o, d)]]
              /\ q.elems[Place(o, d)] = o.elems[Place(o, d)]
          BY <4>1, <4>2 DEF Itemed
        <4>4. QED
          BY <2>1, <2>6, <3>1, <4>1, <4>3
      <3>2. CASE d \notin DOMAIN o.want
        <4>1. d = z /\ z # -1 /\ d = j
          BY <2>1, <2>4, <3>2
        <4>2. k \notin DOMAIN o.elems
          BY <2>2, <2>3, <2>4, <3>2, <4>1
        <4>3. b[e].v = 0
          BY <4>2 DEF Itemed
        <4>4. QED
          BY <2>1, <2>2, <2>6, <3>2, <4>1, <4>3
      <3>3. QED
        BY <3>1, <3>2
    <2>11. Holds(q, b)
      BY <1>1, <1>2, <2>10 DEF Holds
    <2>12. QED
      BY <2>9, <2>11
  <1>5. QED
    BY <1>3, <1>4

\* It has the cell, and the ones it had.
LEMMA ItemOwned ==
    ASSUME NEW o, NEW q, NEW k, NEW e, NEW z, NEW c, NEW b, Itemed(o, q, k, e, z, c, b),
           Apart(o), \A d \in Owned(o) : d \in DOMAIN c
    PROVE  Apart(q) /\ Owned(q) = Owned(o) \cup {e} /\ e \in DOMAIN b
           /\ (k \in DOMAIN o.elems => Owned(q) = Owned(o))
  <1>1. /\ DOMAIN q.elems = DOMAIN o.elems \cup {k} /\ q.elems[k] = e /\ q.hidden = o.hidden
        /\ \A d \in DOMAIN o.elems : q.elems[d] = o.elems[d]
        /\ k \notin DOMAIN o.elems => e \notin DOMAIN c /\ DOMAIN b = DOMAIN c \cup {e}
        /\ k \in DOMAIN o.elems => b = c
    BY DEF Itemed
  <1>2. Range(q.elems) = Range(o.elems) \cup {e}
    BY <1>1 DEF Range
  <1>3. Owned(q) = Owned(o) \cup {e}
    BY <1>1, <1>2 DEF Owned
  <1>4. \A d \in DOMAIN o.elems : o.elems[d] \in Owned(o)
    BY DEF Owned, Range
  <1>5. CASE k \in DOMAIN o.elems
    <2>1. e = o.elems[k] /\ e \in Owned(o)
      BY <1>1, <1>4, <1>5
    <2>2. Apart(q)
      BY <1>1, <1>2, <1>5, <2>1 DEF Apart, Range
    <2>3. QED
      BY <1>1, <1>3, <1>5, <2>1, <2>2
  <1>6. CASE k \notin DOMAIN o.elems
    <2>1. e \notin Owned(o)
      BY <1>1, <1>6
    <2>2. e \notin o.hidden /\ e \notin Range(o.elems)
      BY <2>1 DEF Owned
    <2>3. \A i, j \in DOMAIN q.elems : q.elems[i] = q.elems[j] => i = j
      BY <1>1, <1>4, <2>1 DEF Apart
    <2>4. Apart(q)
      BY <1>1, <1>2, <2>2, <2>3 DEF Apart
    <2>5. QED
      BY <1>1, <1>3, <1>6, <2>4
  <1>7. QED
    BY <1>5, <1>6

\* References that are pending to its elements are as before.
LEMMA ItemFollows ==
    ASSUME NEW o, NEW q, NEW k, NEW e, NEW z, NEW c, NEW b, Itemed(o, q, k, e, z, c, b),
           Shaped(o), Apart(o), \A d \in Owned(o) : d \in DOMAIN c, NEW G, NEW p, p.cell \in DOMAIN c,
           p.cell \in Owned(o) => At(o, p), At(o, p) => Numbered(o, p)
    PROVE  Follows(o, q, b, G, p)
  <1>1. \A d : Place(q, d) = Place(o, d)
    BY SamePlace DEF Itemed
  <1>2. /\ DOMAIN q.elems = DOMAIN o.elems \cup {k} /\ q.elems[k] = e /\ q.dims = o.dims
        /\ \A d \in DOMAIN o.elems : q.elems[d] = o.elems[d]
        /\ k \notin DOMAIN o.elems => e \notin DOMAIN c
    BY DEF Itemed
  <1>3. At(q, p) <=> At(o, p)
    BY <1>2 DEF At
  <1>4. p.cell \in Owned(q) => p.cell \in Owned(o)
    <2>1. Owned(q) = Owned(o) \cup {e} /\ (k \in DOMAIN o.elems => Owned(q) = Owned(o))
      BY ItemOwned
    <2>2. QED
      BY <1>2, <2>1
  <1>5. ASSUME At(o, p) PROVE Numbered(q, p)
    <2>1. SUFFICES ASSUME Len(q.dims) <= 1
                   PROVE  IF p.block # -1 THEN p.block \in DOMAIN q.want /\ Place(q, p.block) = p.key
                          ELSE \A d \in DOMAIN q.want : Place(q, d) # p.key
      BY DEF Numbered
    <2>2. IF p.block # -1 THEN p.block \in DOMAIN o.want /\ Place(o, p.block) = p.key
                          ELSE \A d \in DOMAIN o.want : Place(o, d) # p.key
      BY <1>2, <1>5, <2>1 DEF Numbered
    <2>3. Len(o.dims) = 1
      <3>1. o \in Insts /\ Len(o.dims) # 0
        BY DEF Itemed
      <3>2. Len(o.dims) = 1 \/ ~(Len(o.dims) <= 1)
        BY <3>1, Dimensions
      <3>3. QED
        BY <1>2, <2>1, <3>2
    <2>4. /\ DOMAIN q.want = DOMAIN o.want \cup ({z} \ {-1})
      BY <2>3 DEF Itemed
    <2>5. PICK j \in Int : k = Place(o, j) /\ z = IF j \in 0..(o.dims[1] - 1) THEN j ELSE -1
      BY <2>3 DEF Itemed
    <2>6. CASE p.block # -1
      BY <1>1, <2>2, <2>4, <2>6
    <2>7. CASE p.block = -1
      <3>1. z # -1 => Place(o, z) = k
        BY <2>5
      <3>2. z # -1 /\ z \notin DOMAIN o.want => p.key # k
        <4>1. SUFFICES ASSUME z # -1, z \notin DOMAIN o.want, p.key = k PROVE FALSE
          OBVIOUS
        <4>2. k \in DOMAIN o.elems
          BY <1>5, <4>1 DEF At
        <4>3. z = j /\ z \in 0..(o.dims[1] - 1) /\ o.cls = "Array"
          BY <2>5, <4>1 DEF Itemed
        <4>4. z \in DOMAIN o.want
          BY <2>3, <2>5, <4>2, <4>3 DEF Shaped
        <4>5. QED
          BY <4>1, <4>4
      <3>3. QED
        BY <1>1, <2>2, <2>4, <2>7, <3>1, <3>2
    <2>8. QED
      BY <2>6, <2>7
  <1>6. QED
    BY <1>3, <1>4, <1>5 DEF Follows

\* The entry for an index of an array: the cell that is there, or a new one
ItemOf(o, idx, n) ==
    LET k == Element(o.dims, idx)
        e == IF k \notin DOMAIN o.elems THEN n ELSE o.elems[k]
    IN [o EXCEPT !.elems = Put(o.elems, k, e),
                 !.want = IF InRange(o.dims, idx) THEN PutNew(o.want, Block(o.dims, idx), Plain)
                          ELSE o.want]

GivesItem(o, idx, c, n, b, q, k, e, z) ==
    /\ n = Len(c) + 1
    /\ k = Element(o.dims, idx)
    /\ q = ItemOf(o, idx, n)
    /\ e = IF k \notin DOMAIN o.elems THEN n ELSE o.elems[k]
    /\ b = IF k \notin DOMAIN o.elems THEN Celled(c, 0) ELSE c
    /\ z = IF InRange(o.dims, idx) THEN Block(o.dims, idx) ELSE -1

\* It is an entry in the sense above.
LEMMA ItemIs ==
    ASSUME NEW o \in Insts, o.cls = "Array", NEW idx \in Indexes, Len(idx) = Len(o.dims),
           Len(idx) # 0, NEW c \in Seq(CellSet), NEW n, NEW b, NEW q, NEW k, NEW e, NEW z,
           GivesItem(o, idx, c, n, b, q, k, e, z)
    PROVE  Itemed(o, q, k, e, z, c, b) /\ k \in Marks /\ z \in Marks
  <1> USE DEF GivesItem
  <1>1. idx \in Seq(Int) /\ o.dims \in Seq(Int) /\ o.elems \in Partial(Nat)
        /\ o.want \in Partial(Nat)
    BY NativeBounds DEF Insts
  <1>2. k \in Marks /\ z \in Marks /\ Block(o.dims, idx) \in Marks
    BY <1>1 DEF Marks
  <1>3. n \in Nat /\ (k \in DOMAIN o.elems => o.elems[k] \in Nat)
    <2>1. n \in Nat
      OBVIOUS
    <2>2. k \in DOMAIN o.elems => o.elems[k] \in Nat
      BY <1>1 DEF Partial
    <2>3. QED
      BY <2>1, <2>2
  <1>4. e \in Nat
    BY <1>3
  <1>5. PICK E, W : /\ E = Put(o.elems, k, e)
                    /\ W = IF InRange(o.dims, idx) THEN PutNew(o.want, Block(o.dims, idx), Plain)
                           ELSE o.want
    OBVIOUS
  <1>6. E \in Partial(Nat)
    BY <1>1, <1>2, <1>4, <1>5, PutTypes
  <1>7. W \in Partial(Nat)
    <2>1. CASE InRange(o.dims, idx) /\ Block(o.dims, idx) \notin DOMAIN o.want
      <3>1. PICK m : m = Block(o.dims, idx)
        OBVIOUS
      <3>2. W = Put(o.want, m, 0)
        BY <1>5, <2>1, <3>1 DEF PutNew, Plain
      <3>3. QED
        BY <1>1, <1>2, <3>1, <3>2, PutTypes
    <2>2. CASE ~(InRange(o.dims, idx) /\ Block(o.dims, idx) \notin DOMAIN o.want)
      BY <1>1, <1>5, <2>2 DEF PutNew
    <2>3. QED
      BY <2>1, <2>2
  <1>8. q = [o EXCEPT !.elems = E, !.want = W]
    BY <1>5 DEF ItemOf
  <1>9. /\ q \in Insts /\ q.cls = o.cls /\ q.hidden = o.hidden /\ q.dims = o.dims
        /\ q.refcount = o.refcount /\ q.live = o.live /\ q.elems = E /\ q.want = W
    BY <1>6, <1>7, <1>8 DEF Insts
  <1>10. DOMAIN E = DOMAIN o.elems \cup {k} /\ E[k] = e
    BY <1>5 DEF Put
  <1>11. \A d \in DOMAIN o.elems : E[d] = o.elems[d]
    BY <1>5 DEF Put
  <1>12. ASSUME Len(o.dims) = 1
         PROVE  /\ DOMAIN W = DOMAIN o.want \cup ({z} \ {-1})
                /\ \A d \in DOMAIN o.want : W[d] = o.want[d]
                /\ z # -1 /\ z \notin DOMAIN o.want => W[z] = 0
                /\ \E j \in Int : k = Place(o, j) /\ z = IF j \in 0..(o.dims[1] - 1) THEN j ELSE -1
    <2>1. PICK j \in Int : /\ Element(o.dims, idx) = Place(o, j) /\ Block(o.dims, idx) = j
                           /\ InRange(o.dims, idx) <=> j \in 0..(o.dims[1] - 1)
      BY <1>1, <1>12, IndexOne
    <2>2. k = Place(o, j) /\ z = IF j \in 0..(o.dims[1] - 1) THEN j ELSE -1
      BY <2>1
    <2>3. W = IF j \in 0..(o.dims[1] - 1) THEN PutNew(o.want, j, 0) ELSE o.want
      BY <1>5, <2>1 DEF Plain
    <2>4. CASE j \in 0..(o.dims[1] - 1)
      <3>1. z = j /\ z # -1 /\ W = PutNew(o.want, z, 0)
        BY <2>2, <2>3, <2>4
      <3>2. /\ DOMAIN W = DOMAIN o.want \cup {z}
            /\ \A d \in DOMAIN o.want : W[d] = o.want[d]
            /\ z \notin DOMAIN o.want => W[z] = 0
        BY <3>1 DEF PutNew, Put
      <3>3. QED
        BY <2>2, <3>1, <3>2
    <2>5. CASE j \notin 0..(o.dims[1] - 1)
      <3>1. z = -1 /\ W = o.want
        BY <2>2, <2>3, <2>5
      <3>2. QED
        BY <2>2, <3>1
    <2>6. QED
      BY <2>4, <2>5
  <1>13. /\ \A d \in DOMAIN c : d \in DOMAIN b /\ b[d] = c[d]
         /\ k \notin DOMAIN o.elems => /\ e \notin DOMAIN c /\ b[e].v = 0
                                       /\ DOMAIN b = DOMAIN c \cup {e}
         /\ k \in DOMAIN o.elems => b = c
    <2>1. CASE k \notin DOMAIN o.elems
      <3>1. c \in Seq(CellSet) /\ 0 \in Nat /\ Adds(c, 0, b, e)
        BY <2>1 DEF Adds
      <3>2. Added(c, 0, b, e)
        BY <3>1, NextCell
      <3>3. QED
        BY <2>1, <3>2 DEF Added
    <2>2. CASE k \in DOMAIN o.elems
      BY <2>2
    <2>3. QED
      BY <2>1, <2>2
  <1>14. QED
    BY <1>2, <1>9, <1>10, <1>11, <1>12, <1>13 DEF Itemed

\* A value that is no instance goes to a cell uncounted.
LEMMA PlainSound ==
    ASSUME NEW L, NEW h, NEW c, Sound(L, h, c, <<>>)
    PROVE  Sound(L, h, c, <<0>>) /\ 0 \in 0..Len(h)
  <1>1. jsinstRef(h, 0) = h
    BY DEF jsinstRef, IsInst
  <1>2. 0 \in 0..Len(h)
    BY DEF Sound, Typed
  <1>3. QED
    BY <1>1, <1>2, RefSound

\* There is no [] without an index.
LEMMA NoEmptyIndex ==
    <<"Array", "[]", 0>> \notin Intrinsics
  <1> DEFINE t == <<"Array", "[]", 0>>
  <1>1. t \notin ArrayMethods
    <2>1. t \notin {<<"Array", "[]", n>> : n \in 1..ARRAY_MAX_DIMS}
      BY DEF ARRAY_MAX_DIMS
    <2>2. QED
      BY <2>1 DEF ArrayMethods
  <1>2. t \notin ArrayConstructors
    BY DEF ArrayConstructors
  <1>3. t \notin ObjectMethods
    BY DEF ObjectMethods
  <1>4. t \notin VectorMethods /\ t \notin StringBufferMethods
    BY DEF VectorMethods, StringBufferMethods
  <1>5. t \notin DateTimeMethods /\ t \notin MathMethods /\ t \notin HashtableMethods
    BY DEF DateTimeMethods, MathMethods, HashtableMethods
  <1>6. QED
    BY <1>1, <1>2, <1>3, <1>4, <1>5 DEF Intrinsics

\* A reference to an element of an array
LEMMA ItemStep ==
    ASSUME NativeInv, NEW x \in Roots, NEW idx \in Indexes, array_itemX(x, idx)
    PROVE  NativeInv'
  <1>1. PICK i, o, n : i = locals[x] /\ o = heap[i] /\ n = Len(cells) + 1
    OBVIOUS
  <1>2. IsInst(i) /\ o.cls = "Array" /\ <<"Array", "[]", Len(idx)>> \in Intrinsics
    BY <1>1 DEF array_itemX, Calls, Inst
  <1>3. i \in DOMAIN heap /\ o.live /\ o \in Insts
    BY <1>1, <1>2, VarLives
  <1>4. CASE ~(o.made /\ Len(idx) = Len(o.dims) /\ NotInt \notin Range(idx))
    <2>1. \/ Fail("TYPE_MISMATCH") \/ Fault \/ Fail("WRONG_ARRAY_INDEXS")
      BY <1>1, <1>4 DEF array_itemX, Inst
    <2>2. QED
      BY <2>1, LeaveStep, FaultStep DEF Fail
  <1>5. CASE o.made /\ Len(idx) = Len(o.dims) /\ NotInt \notin Range(idx)
    <2>1. PICK k, in : k = Element(o.dims, idx) /\ (in <=> InRange(o.dims, idx))
      OBVIOUS
    <2>2. PICK e, z, b, q, p : /\ e = IF k \notin DOMAIN o.elems THEN n ELSE o.elems[k]
                               /\ z = IF InRange(o.dims, idx) THEN Block(o.dims, idx) ELSE -1
                               /\ b = IF k \notin DOMAIN o.elems THEN Celled(cells, 0) ELSE cells
                               /\ q = ItemOf(o, idx, n)
                               /\ p = [cell |-> e, inst |-> i, key |-> k, block |-> z]
      OBVIOUS
    <2>3. /\ cells' = b /\ pending' = Append(pending, p) /\ locals' = locals /\ flaws' = flaws
      BY <1>1, <1>5, <2>1, <2>2 DEF array_itemX, Inst, NewCell, Celled, Plain
    <2>4. heap' = [heap EXCEPT ![i] = q]
      <3>1. PICK E, W : /\ E = Put(o.elems, k, e)
                        /\ W = IF InRange(o.dims, idx) THEN PutNew(o.want, z, Plain) ELSE o.want
        OBVIOUS
      <3>2. heap' = [heap EXCEPT ![i].elems = E, ![i].want = W]
        BY <1>1, <1>5, <2>1, <2>2, <3>1 DEF array_itemX, Inst
      <3>3. q = [o EXCEPT !.elems = E, !.want = W]
        BY <2>1, <2>2, <3>1 DEF ItemOf
      <3>4. heap \in Seq(Insts)
        BY StateTypes
      <3>5. QED
        BY <1>1, <1>3, <3>2, <3>3, <3>4 DEF Insts
    <2>5. /\ cells \in Seq(CellSet) /\ heap \in Seq(Insts) /\ Tidy(heap, cells)
          /\ Sound(locals, heap, cells, <<>>) /\ Rest(heap, cells, pending, flaws)
      BY StateTypes DEF NativeInv
    <2>6. Itemed(o, q, k, e, z, cells, b) /\ k \in Marks /\ z \in Marks
      <3>1. Len(idx) # 0
        BY <1>2, NoEmptyIndex
      <3>2. GivesItem(o, idx, cells, n, b, q, k, e, z)
        BY <1>1, <2>1, <2>2 DEF GivesItem
      <3>3. QED
        BY <1>2, <1>3, <1>5, <2>5, <3>1, <3>2, ItemIs
    <2>7. /\ o \in Insts /\ q \in Insts /\ q.cls = o.cls /\ q.dims = o.dims
          /\ q.refcount = o.refcount /\ q.live
          /\ k \in DOMAIN q.elems /\ q.elems[k] = e
          /\ \A d \in DOMAIN cells : d \in DOMAIN b /\ b[d] = cells[d]
          /\ k \notin DOMAIN o.elems => e \notin DOMAIN cells /\ DOMAIN b = DOMAIN cells \cup {e}
          /\ k \in DOMAIN o.elems => b = cells
      BY <1>3, <2>6 DEF Itemed
    <2>8. Apart(o) /\ \A d \in Owned(o) : d \in DOMAIN cells
      BY <1>1, <1>3, <2>5 DEF Tidy
    <2>9. Shaped(o) /\ Holds(o, cells)
      BY <1>1, <1>3, <2>5 DEF Rest, Contents
    <2>10. /\ Apart(q) /\ Owned(q) = Owned(o) \cup {e} /\ e \in DOMAIN b
           /\ (k \in DOMAIN o.elems => Owned(q) = Owned(o))
      BY <2>6, <2>8, ItemOwned
    <2>11. Shaped(q) /\ Holds(q, b)
      BY <2>6, <2>8, <2>9, ItemShape
    <2>12. Sound(locals, [heap EXCEPT ![i] = q], b, <<>>)
      <3>1. CASE k \in DOMAIN o.elems
        <4>1. /\ q.refcount = heap[i].refcount /\ (q.live <=> heap[i].live)
              /\ Owned(q) \in SUBSET Owned(heap[i]) /\ b = cells
          BY <1>1, <1>3, <2>7, <2>10, <3>1
        <4>2. QED
          BY <1>3, <2>5, <2>7, <2>10, <4>1, ReplaceSound
      <3>2. CASE k \notin DOMAIN o.elems
        <4>1. Sound(locals, heap, cells, <<0>>) /\ 0 \in 0..Len(heap)
          BY <2>5, PlainSound
        <4>2. /\ q.refcount = heap[i].refcount /\ heap[i].live
              /\ \A d \in Owned(q) : d \in Owned(heap[i]) \/ d = Len(cells) + 1
          BY <1>1, <1>3, <2>2, <2>7, <2>10, <3>2
        <4>3. b = Celled(cells, 0)
          BY <2>2, <3>2
        <4>4. Sound(locals, [heap EXCEPT ![i] = q], Celled(cells, 0), <<>>)
          BY <1>3, <2>7, <2>10, <4>1, <4>2, CellSound
        <4>5. QED
          BY <4>3, <4>4
      <3>3. QED
        BY <3>1, <3>2
    <2>13. Changes(heap, cells, i, q, b, flaws, flaws)
      <3>1. \A d \in DOMAIN b \ DOMAIN cells : d \in Owned(q)
        BY <2>7, <2>10
      <3>2. \A d \in Owned(q) : d \in Owned(heap[i]) \/ d \in DOMAIN b \ DOMAIN cells
        BY <1>1, <2>7, <2>10
      <3>3. DOMAIN cells \in SUBSET DOMAIN b
        BY <2>7
      <3>4. \A d \in Owned(heap[i]) : d \in Owned(q)
        BY <1>1, <2>10
      <3>5. heap[i].live /\ q.live /\ q.cls = heap[i].cls
        BY <1>1, <1>3, <2>7
      <3>6. QED
        BY <1>3, <2>7, <2>11, <3>1, <3>2, <3>3, <3>4, <3>5 DEF Changes
    <2>14. ASSUME NEW r, Pends(heap, cells, r), r.inst = i PROVE Follows(heap[i], q, b, flaws, r)
      <3>1. /\ r.cell \in DOMAIN cells /\ (r.cell \in Owned(o) => At(o, r))
            /\ (At(o, r) => Numbered(o, r))
        BY <1>1, <1>3, <2>14 DEF Pends
      <3>2. Follows(o, q, b, flaws, r)
        BY <2>6, <2>8, <2>9, <3>1, ItemFollows
      <3>3. QED
        BY <1>1, <3>2
    <2>15. PICK f : f = [heap EXCEPT ![i] = q]
      OBVIOUS
    <2>16. Rest(f, b, pending, flaws)
      BY <2>5, <2>13, <2>14, <2>15, ChangeRest
    <2>17. f[i] = q /\ DOMAIN f = DOMAIN heap /\ i \in DOMAIN f /\ Tidy(f, b)
      BY <1>3, <2>12, <2>15 DEF Sound
    <2>18. p.cell = e /\ p.inst = i /\ p.key = k /\ p.block = z
      BY <2>2
    <2>19. At(q, p)
      BY <2>7, <2>18 DEF At
    <2>20. Numbered(q, p)
      <3>1. SUFFICES ASSUME Len(q.dims) <= 1
                     PROVE  IF z # -1 THEN z \in DOMAIN q.want /\ Place(q, z) = k
                            ELSE \A d \in DOMAIN q.want : Place(q, d) # k
        BY <2>18 DEF Numbered
      <3>2. Len(o.dims) = 1
        <4>1. Len(o.dims) # 0
          BY <2>6 DEF Itemed
        <4>2. Len(o.dims) = 1 \/ ~(Len(o.dims) <= 1)
          BY <1>3, <4>1, Dimensions
        <4>3. QED
          BY <2>7, <3>1, <4>2
      <3>3. DOMAIN q.want = DOMAIN o.want \cup ({z} \ {-1})
        BY <2>6, <3>2 DEF Itemed
      <3>4. PICK j \in Int : k = Place(o, j) /\ z = IF j \in 0..(o.dims[1] - 1) THEN j ELSE -1
        BY <2>6, <3>2 DEF Itemed
      <3>5. \A d : Place(q, d) = Place(o, d)
        BY <2>7, SamePlace
      <3>6. CASE z # -1
        BY <3>3, <3>4, <3>5, <3>6
      <3>7. CASE z = -1
        <4>1. j \notin 0..(o.dims[1] - 1)
          BY <3>4, <3>7
        <4>2. ASSUME NEW d \in DOMAIN q.want PROVE Place(o, d) # k
          <5>1. d \in 0..(o.dims[1] - 1)
            BY <1>2, <2>9, <3>2, <3>3, <3>7, <4>2 DEF Shaped
          <5>2. QED
            BY <1>2, <1>3, <3>2, <3>4, <4>1, <5>1, OwnPlace
        <4>3. QED
          BY <3>5, <3>7, <4>2
      <3>8. QED
        BY <3>6, <3>7
    <2>21. Pends(f, b, p)
      <3>1. \A d \in DOMAIN f : e \in Owned(f[d]) => d = i
        BY <2>10, <2>17 DEF Tidy
      <3>2. QED
        BY <1>2, <2>7, <2>10, <2>17, <2>18, <2>19, <2>20, <3>1 DEF Pends
    <2>22. p \in Pendings
      <3>1. e \in Nat /\ i \in Nat
        <4>1. b \in Seq(CellSet)
          BY <2>12 DEF Sound, Typed
        <4>2. DOMAIN b = 1..Len(b) /\ DOMAIN heap = 1..Len(heap)
          BY <2>5, <4>1
        <4>3. QED
          BY <1>3, <2>10, <4>2
      <3>2. QED
        BY <2>2, <2>6, <3>1 DEF Pendings
    <2>23. Rest(f, b, Append(pending, p), flaws)
      BY <2>16, <2>17, <2>18, <2>19, <2>21, <2>22, PendRest
    <2>24. QED
      BY <2>3, <2>4, <2>12, <2>15, <2>23 DEF NativeInv
  <1>6. QED
    BY <1>4, <1>5

-----------------------------------------------------------------------------
(* Values that are cleared while a container still has the cells they were *)
(* in.  The run is the same as one where the container is changed first.   *)

AsList(s) == s = [h |-> s.h, c |-> s.c, todo |-> s.todo]

\* What becomes of the instance v, and of the others
Drops(s, t, v) ==
    /\ DOMAIN t.h = DOMAIN s.h
    /\ \A j \in DOMAIN s.h : j # v => t.h[j] = s.h[j]
    /\ IF s.h[v].refcount - 1 <= 0 /\ s.h[v].live
       THEN /\ t.h[v] = Blank(s.h[v].cls)
            /\ t.c = Dead(s.c, Owned(s.h[v]))
            /\ t.todo = Values(s.c, Owned(s.h[v])) \o Tail(s.todo)
       ELSE /\ t.h[v] = [s.h[v] EXCEPT !.refcount = s.h[v].refcount - 1]
            /\ t.c = s.c /\ t.todo = Tail(s.todo)

\* The next value is an instance
LEMMA NextDrops ==
    ASSUME NEW s, AsList(s), NEW v, v = Head(s.todo), IsInst(v), v \in DOMAIN s.h,
           s.h[v] \in Insts
    PROVE  Drops(s, ClearNext(s), v) /\ AsList(ClearNext(s))
  <1>1. PICK h, n, o, g : /\ h = s.h /\ n = h[v].refcount - 1 /\ o = [h[v] EXCEPT !.refcount = n]
                          /\ g = [h EXCEPT ![v] = o]
    OBVIOUS
  <1>2. /\ o.refcount = n /\ o.live = h[v].live /\ o.cls = h[v].cls /\ Owned(o) = Owned(h[v])
    BY <1>1, OwnedOfCount
  <1>3. [s.h EXCEPT ![Head(s.todo)].refcount = @ - 1] = g
    BY <1>1
  <1>4. g[v] = o /\ DOMAIN g = DOMAIN h /\ \A j \in DOMAIN h : j # v => g[j] = h[j]
    BY <1>1
  <1>5. PICK ks : ks = Owned(h[v])
    OBVIOUS
  <1>6. CASE n <= 0 /\ h[v].live
    <2>1. PICK f : f = [g EXCEPT ![v] = Blank(h[v].cls)]
      OBVIOUS
    <2>2. ClearNext(s) = [h |-> f, c |-> Dead(s.c, ks), todo |-> Values(s.c, ks) \o Tail(s.todo)]
      BY <1>2, <1>3, <1>4, <1>5, <1>6, <2>1 DEF ClearNext
    <2>3. f[v] = Blank(h[v].cls) /\ DOMAIN f = DOMAIN h /\ \A j \in DOMAIN h : j # v => f[j] = h[j]
      BY <1>1, <1>4, <2>1
    <2>4. PICK t : t = ClearNext(s)
      OBVIOUS
    <2>5. /\ t.h = f /\ t.c = Dead(s.c, ks) /\ t.todo = Values(s.c, ks) \o Tail(s.todo)
          /\ AsList(t)
      BY <2>2, <2>4 DEF AsList
    <2>6. s.h[v].refcount - 1 <= 0 /\ s.h[v].live
      BY <1>1, <1>6
    <2>7. Drops(s, t, v)
      BY <1>1, <1>5, <2>3, <2>5, <2>6 DEF Drops
    <2>8. QED
      BY <2>4, <2>5, <2>7
  <1>7. CASE ~(n <= 0 /\ h[v].live)
    <2>1. ClearNext(s) = [h |-> g, c |-> s.c, todo |-> Tail(s.todo)]
      BY <1>2, <1>3, <1>4, <1>7 DEF ClearNext
    <2>2. PICK t : t = ClearNext(s)
      OBVIOUS
    <2>3. t.h = g /\ t.c = s.c /\ t.todo = Tail(s.todo) /\ AsList(t)
      BY <2>1, <2>2 DEF AsList
    <2>4. ~(s.h[v].refcount - 1 <= 0 /\ s.h[v].live)
      BY <1>1, <1>7
    <2>5. g[v] = [s.h[v] EXCEPT !.refcount = s.h[v].refcount - 1]
      BY <1>1, <1>4
    <2>6. Drops(s, t, v)
      BY <1>1, <1>4, <2>3, <2>4, <2>5 DEF Drops
    <2>7. QED
      BY <2>2, <2>3, <2>6
  <1>8. QED
    BY <1>6, <1>7

\* It is none.
LEMMA NextPlain ==
    ASSUME NEW s, AsList(s), ~IsInst(Head(s.todo)), NEW t, t = ClearNext(s)
    PROVE  t.h = s.h /\ t.c = s.c /\ t.todo = Tail(s.todo) /\ AsList(t)
  <1>1. t = [s EXCEPT !.todo = Tail(@)]
    BY DEF ClearNext
  <1>2. t = [h |-> s.h, c |-> s.c, todo |-> Tail(s.todo)]
    BY <1>1 DEF AsList
  <1>3. QED
    BY <1>2 DEF AsList

\* The states s and u differ in what the instance i is, apart from its count.
Alike(i, a, t, s, u) ==
    /\ AsList(s)
    /\ s.c = u.c /\ s.todo = u.todo /\ DOMAIN s.h = DOMAIN u.h
    /\ \A j \in DOMAIN u.h : j # i => s.h[j] = u.h[j]
    /\ s.h[i] = [a EXCEPT !.refcount = u.h[i].refcount]
    /\ u.h[i] = [t EXCEPT !.refcount = u.h[i].refcount]

\* An instance that a variable holds has another reference if it is in a list.
LEMMA HeldTwice ==
    ASSUME NEW L, NEW h, NEW c, NEW vs, Sound(L, h, c, vs), NEW x \in Roots,
           vs # <<>>, Head(vs) = L[x], IsInst(L[x])
    PROVE  L[x] \in DOMAIN h /\ h[L[x]].live /\ h[L[x]].refcount - 1 > 0
           /\ h[L[x]].refcount \in Nat
  <1>1. PICK i : i = L[x]
    OBVIOUS
  <1>2. Typed(L, h, c, vs)
    BY DEF Sound
  <1>3. /\ i \in DOMAIN h /\ h[i].live /\ h[i] \in Insts
        /\ h[i].refcount = Refs(L, c, vs, i) /\ Refs(L, c, vs, i) \in Nat
    BY <1>1, FirstLives
  <1>4. /\ IsFiniteSet(InVars(L, i)) /\ Cardinality(InVars(L, i)) \in Nat
        /\ IsFiniteSet(InCells(c, i)) /\ Cardinality(InCells(c, i)) \in Nat
        /\ IsFiniteSet(InList(vs, i)) /\ Cardinality(InList(vs, i)) \in Nat
    BY <1>2, RefTypes
  <1>5. x \in InVars(L, i)
    BY <1>1 DEF InVars
  <1>6. 1 \in InList(vs, i)
    BY <1>1, <1>2 DEF InList, Typed
  <1>7. Cardinality(InVars(L, i)) # 0 /\ Cardinality(InList(vs, i)) # 0
    BY <1>4, <1>5, <1>6, FS_EmptySet
  <1>8. PICK a \in Nat, b \in Nat, d \in Nat : /\ a = Cardinality(InVars(L, i))
                                               /\ b = Cardinality(InCells(c, i))
                                               /\ d = Cardinality(InList(vs, i))
    BY <1>4
  <1>9. h[i].refcount = a + b + d /\ a # 0 /\ d # 0
    BY <1>3, <1>7, <1>8 DEF Refs
  <1>10. a + b + d - 1 > 0
    BY <1>9
  <1>11. QED
    BY <1>1, <1>3, <1>9, <1>10

\* They stay alike if a variable holds the instance.
LEMMA AlikeStep ==
    ASSUME NEW L, NEW x \in Roots, NEW i, i = L[x], NEW a \in Insts, NEW t \in Insts,
           NEW s, NEW u \in Lists, Sound(L, u.h, u.c, u.todo), Alike(i, a, t, s, u),
           i \in DOMAIN u.h, u.todo # <<>>
    PROVE  Alike(i, a, t, ClearNext(s), ClearNext(u))
  <1>1. PICK v, h : v = Head(u.todo) /\ h = u.h
    OBVIOUS
  <1>2. AsList(u)
    BY DEF AsList, Lists
  <1>3. /\ AsList(s) /\ s.c = u.c /\ s.todo = u.todo /\ DOMAIN s.h = DOMAIN h
        /\ \A j \in DOMAIN h : j # i => s.h[j] = h[j]
        /\ s.h[i] = [a EXCEPT !.refcount = h[i].refcount]
        /\ h[i] = [t EXCEPT !.refcount = h[i].refcount]
    BY <1>1 DEF Alike
  <1>4. PICK p, q : p = ClearNext(s) /\ q = ClearNext(u)
    OBVIOUS
  <1>5. CASE ~IsInst(v)
    <2>1. p.h = s.h /\ p.c = s.c /\ p.todo = Tail(s.todo) /\ AsList(p)
      BY <1>1, <1>3, <1>4, <1>5, NextPlain
    <2>2. q.h = u.h /\ q.c = u.c /\ q.todo = Tail(u.todo)
      BY <1>1, <1>2, <1>4, <1>5, NextPlain
    <2>3. QED
      BY <1>1, <1>3, <1>4, <2>1, <2>2 DEF Alike
  <1>6. CASE IsInst(v)
    <2>1. v \in DOMAIN h /\ h[v].live /\ h[v] \in Insts
      BY <1>1, <1>6, FirstLives
    <2>2. h[i] \in Insts /\ h[i].refcount \in Int
      <3>1. h \in Seq(Insts) /\ i \in DOMAIN h
        BY <1>1 DEF Lists
      <3>2. h[i] \in Insts
        BY <3>1, ElementOfSeq
      <3>3. QED
        BY <3>2 DEF Insts
    <2>3. s.h[v] \in Insts
      <3>1. CASE v = i
        BY <1>3, <2>2, <3>1 DEF Insts
      <3>2. QED
        BY <1>3, <2>1, <3>1
    <2>4. Drops(s, p, v) /\ AsList(p)
      BY <1>1, <1>3, <1>4, <1>6, <2>1, <2>3, NextDrops
    <2>5. Drops(u, q, v)
      BY <1>1, <1>2, <1>4, <1>6, <2>1, NextDrops
    <2>6. CASE v = i
      <3>1. h[i].refcount - 1 > 0
        BY <1>1, <1>6, <2>6, HeldTwice
      <3>2. PICK n : n = h[i].refcount - 1
        OBVIOUS
      <3>3. n \in Int /\ ~(n <= 0)
        BY <2>2, <3>1, <3>2
      <3>4. s.h[i].refcount = h[i].refcount
        BY <1>3 DEF Insts
      <3>5. /\ DOMAIN p.h = DOMAIN h /\ (\A j \in DOMAIN h : j # i => p.h[j] = s.h[j])
            /\ p.h[i] = [s.h[i] EXCEPT !.refcount = n] /\ p.c = s.c /\ p.todo = Tail(s.todo)
        BY <1>3, <2>4, <2>6, <3>2, <3>3, <3>4 DEF Drops
      <3>6. /\ DOMAIN q.h = DOMAIN h /\ (\A j \in DOMAIN h : j # i => q.h[j] = h[j])
            /\ q.h[i] = [h[i] EXCEPT !.refcount = n] /\ q.c = u.c /\ q.todo = Tail(u.todo)
        BY <1>1, <2>5, <2>6, <3>2, <3>3 DEF Drops
      <3>7. q.h[i].refcount = n
        BY <2>2, <3>6 DEF Insts
      <3>8. p.h[i] = [a EXCEPT !.refcount = n]
        BY <1>3, <3>5 DEF Insts
      <3>9. q.h[i] = [t EXCEPT !.refcount = n]
        <4>1. PICK m : m = h[i].refcount
          OBVIOUS
        <4>2. h[i] = [t EXCEPT !.refcount = m]
          BY <1>3, <4>1
        <4>3. QED
          BY <3>6, <4>2 DEF Insts
      <3>10. QED
        BY <1>1, <1>3, <1>4, <2>4, <3>5, <3>6, <3>7, <3>8, <3>9 DEF Alike
    <2>7. CASE v # i
      <3>1. s.h[v] = h[v]
        BY <1>3, <2>1, <2>7
      <3>2. /\ DOMAIN p.h = DOMAIN h /\ (\A j \in DOMAIN h : j # v => p.h[j] = s.h[j])
            /\ DOMAIN q.h = DOMAIN h /\ (\A j \in DOMAIN h : j # v => q.h[j] = h[j])
            /\ p.h[v] = q.h[v] /\ p.c = q.c /\ p.todo = q.todo
        <4>1. PICK o, ks, n : o = h[v] /\ ks = Owned(o) /\ n = o.refcount - 1
          OBVIOUS
        <4>2. s.h[v] = o /\ u.h[v] = o /\ s.c = u.c /\ s.todo = u.todo
          BY <1>1, <1>3, <3>1, <4>1
        <4>3. CASE n <= 0 /\ o.live
          <5>1. /\ p.h[v] = Blank(o.cls) /\ p.c = Dead(u.c, ks)
                /\ p.todo = Values(u.c, ks) \o Tail(u.todo)
            BY <2>4, <4>1, <4>2, <4>3 DEF Drops
          <5>2. /\ q.h[v] = Blank(o.cls) /\ q.c = Dead(u.c, ks)
                /\ q.todo = Values(u.c, ks) \o Tail(u.todo)
            BY <2>5, <4>1, <4>2, <4>3 DEF Drops
          <5>3. QED
            BY <1>1, <1>3, <2>4, <2>5, <5>1, <5>2 DEF Drops
        <4>4. CASE ~(n <= 0 /\ o.live)
          <5>1. p.h[v] = [o EXCEPT !.refcount = n] /\ p.c = u.c /\ p.todo = Tail(u.todo)
            BY <2>4, <4>1, <4>2, <4>4 DEF Drops
          <5>2. q.h[v] = [o EXCEPT !.refcount = n] /\ q.c = u.c /\ q.todo = Tail(u.todo)
            BY <2>5, <4>1, <4>2, <4>4 DEF Drops
          <5>3. QED
            BY <1>1, <1>3, <2>4, <2>5, <5>1, <5>2 DEF Drops
        <4>5. QED
          BY <4>3, <4>4
      <3>3. p.h[i] = s.h[i] /\ q.h[i] = h[i]
        BY <1>1, <2>7, <3>2
      <3>4. \A j \in DOMAIN h : j # i => p.h[j] = q.h[j]
        BY <1>3, <3>2
      <3>5. QED
        BY <1>1, <1>3, <1>4, <2>4, <3>2, <3>3, <3>4 DEF Alike
    <2>8. QED
      BY <2>6, <2>7
  <1>7. QED
    BY <1>5, <1>6

\* The outcomes m and w of such runs
Twins(i, a, t, m, w) ==
    /\ m.c = w.c /\ DOMAIN m.h = DOMAIN w.h
    /\ \A j \in DOMAIN w.h : j # i => m.h[j] = w.h[j]
    /\ m.h[i] = [a EXCEPT !.refcount = w.h[i].refcount]
    /\ w.h[i] = [t EXCEPT !.refcount = w.h[i].refcount]

\* The instances g and h before them
Twin(i, a, t, g, h) ==
    /\ h[i] = [t EXCEPT !.refcount = h[i].refcount]
    /\ g = [h EXCEPT ![i] = [a EXCEPT !.refcount = h[i].refcount]]

\* The runs on them end alike.
LEMMA AlikeRun ==
    ASSUME NEW L, NEW x \in Roots, NEW i, i = L[x], NEW a \in Insts, NEW t \in Insts,
           NEW h, NEW c, NEW vs, Sound(L, h, c, vs), i \in DOMAIN h, NEW g, Twin(i, a, t, g, h)
    PROVE  Twins(i, a, t, varClear(g, c, vs), varClear(h, c, vs))
  <1>1. /\ h[i] = [t EXCEPT !.refcount = h[i].refcount]
        /\ g = [h EXCEPT ![i] = [a EXCEPT !.refcount = h[i].refcount]]
    BY DEF Twin
  <1>2. Typed(L, h, c, vs)
    BY DEF Sound
  <1>3. /\ h \in Seq(Insts) /\ c \in Seq(CellSet) /\ vs \in Seq(0..Len(h))
        /\ Len(h) \in Nat /\ Len(c) \in Nat /\ Len(vs) \in Nat
    BY <1>2 DEF Typed
  <1>4. h[i] \in Insts /\ h[i].refcount \in Int
    <2>1. h[i] \in Insts
      BY <1>3, ElementOfSeq
    <2>2. QED
      BY <2>1 DEF Insts
  <1>5. /\ DOMAIN g = DOMAIN h /\ (\A j \in DOMAIN h : j # i => g[j] = h[j])
        /\ g[i] = [a EXCEPT !.refcount = h[i].refcount]
    BY <1>1
  <1>6. Len(g) = Len(h)
    <2>1. [a EXCEPT !.refcount = h[i].refcount] \in Insts
      BY <1>4 DEF Insts
    <2>2. g \in Seq(Insts)
      BY <1>1, <1>3, <2>1
    <2>3. QED
      BY <1>3, <1>5, <2>2
  <1>7. CASE \A k \in DOMAIN vs : ~IsInst(vs[k])
    <2>1. PICK m, w : m = varClear(g, c, vs) /\ w = varClear(h, c, vs)
      OBVIOUS
    <2>2. m = [h |-> g, c |-> c] /\ w = [h |-> h, c |-> c]
      BY <1>7, <2>1 DEF varClear
    <2>3. m.h = g /\ m.c = c /\ w.h = h /\ w.c = c
      BY <2>2
    <2>4. Twins(i, a, t, m, w)
      BY <1>1, <1>5, <2>3 DEF Twins
    <2>5. QED
      BY <2>1, <2>4
  <1>8. CASE ~(\A k \in DOMAIN vs : ~IsInst(vs[k]))
    <2>1. PICK s, u : s = [h |-> g, c |-> c, todo |-> vs] /\ u = [h |-> h, c |-> c, todo |-> vs]
      OBVIOUS
    <2>2. PICK n : n = Len(vs) + Len(c) * Len(h)
      OBVIOUS
    <2>3. PICK r, f : r = Clearing(s, n) /\ f = Clearing(u, n)
      OBVIOUS
    <2>4. varClear(g, c, vs) = [h |-> r[n].h, c |-> r[n].c]
      BY <1>6, <1>8, <2>1, <2>2, <2>3 DEF varClear
    <2>5. varClear(h, c, vs) = [h |-> f[n].h, c |-> f[n].c]
      BY <1>8, <2>1, <2>2, <2>3 DEF varClear
    <2>6. n \in Nat
      <3>1. Len(c) * Len(h) \in Nat
        BY <1>3
      <3>2. QED
        BY <1>3, <2>2, <3>1
    <2>7. u \in Lists /\ u.h = h /\ u.c = c /\ u.todo = vs
      <3>1. vs \in Seq(Nat)
        BY <1>3
      <3>2. QED
        BY <1>3, <2>1, <3>1 DEF Lists
    <2>8. OnTheWay(L, h, c, u)
      <3>1. Kept(h, c, h, c)
        BY <1>2, KeptSelf
      <3>2. QED
        BY <2>7, <3>1 DEF OnTheWay
    <2>9. AsList(s) /\ s.h = g /\ s.c = c /\ s.todo = vs
      BY <2>1 DEF AsList
    <2>10. Alike(i, a, t, s, u)
      BY <1>1, <1>5, <2>7, <2>9 DEF Alike
    <2>11. /\ r[0] = s
           /\ \A k \in 0..(n - 1) : r[k + 1] = Cleared(r[k])
      BY <2>3, <2>6, ClearingSteps
    <2>12. /\ f[0] = u
           /\ \A k \in 0..(n - 1) : f[k + 1] = Cleared(f[k])
      BY <2>3, <2>6, ClearingSteps
    <2> DEFINE S == {k \in Nat : k <= n => OnTheWay(L, h, c, f[k]) /\ Alike(i, a, t, r[k], f[k])}
    <2>13. 0 \in S
      BY <2>8, <2>10, <2>11, <2>12
    <2>14. ASSUME NEW k \in S PROVE k + 1 \in S
      <3>1. SUFFICES ASSUME k + 1 <= n
                     PROVE  OnTheWay(L, h, c, f[k + 1]) /\ Alike(i, a, t, r[k + 1], f[k + 1])
        OBVIOUS
      <3>2. k \in Nat /\ k <= n /\ k \in 0..(n - 1)
        BY <2>6, <3>1
      <3>3. PICK p, q : p = r[k] /\ q = f[k]
        OBVIOUS
      <3>4. OnTheWay(L, h, c, q) /\ Alike(i, a, t, p, q)
        BY <3>2, <3>3
      <3>5. r[k + 1] = Cleared(p) /\ f[k + 1] = Cleared(q)
        BY <2>11, <2>12, <3>2, <3>3
      <3>6. OnTheWay(L, h, c, Cleared(q))
        BY <3>4, WayStep
      <3>7. Alike(i, a, t, Cleared(p), Cleared(q))
        <4>1. q.todo = p.todo
          BY <3>4 DEF Alike
        <4>2. CASE q.todo = <<>>
          BY <3>4, <4>1, <4>2 DEF Cleared
        <4>3. CASE q.todo # <<>>
          <5>1. /\ q \in Lists /\ Sound(L, q.h, q.c, q.todo) /\ DOMAIN q.h = DOMAIN h
            BY <3>4 DEF OnTheWay, Kept
          <5>2. Alike(i, a, t, ClearNext(p), ClearNext(q))
            BY <3>4, <4>3, <5>1, AlikeStep
          <5>3. QED
            BY <4>1, <4>3, <5>2 DEF Cleared
        <4>4. QED
          BY <4>2, <4>3
      <3>8. QED
        BY <3>5, <3>6, <3>7
    <2>15. n \in S
      <3> HIDE DEF S
      <3>1. S \in SUBSET Nat
        BY DEF S
      <3>2. S = Nat
        BY <2>13, <2>14, <3>1, Induction
      <3>3. QED
        BY <2>6, <3>2
    <2>16. Alike(i, a, t, r[n], f[n])
      BY <2>6, <2>15
    <2> HIDE DEF S
    <2>17. PICK p, q : p = r[n] /\ q = f[n]
      OBVIOUS
    <2>18. PICK m, w : m = varClear(g, c, vs) /\ w = varClear(h, c, vs)
      OBVIOUS
    <2>19. m.h = p.h /\ m.c = p.c /\ w.h = q.h /\ w.c = q.c
      BY <2>4, <2>5, <2>17, <2>18
    <2>20. Alike(i, a, t, p, q)
      BY <2>16, <2>17
    <2>21. Twins(i, a, t, m, w)
      BY <2>19, <2>20 DEF Alike, Twins
    <2>22. QED
      BY <2>18, <2>21
  <1>9. QED
    BY <1>7, <1>8

\* Cells that no instance has are destroyed: their values are to be cleared.
LEMMA StraySound ==
    ASSUME NEW L, NEW h, NEW c, Sound(L, h, c, <<>>), NEW ks,
           \A k \in ks : k \in DOMAIN c /\ c[k].live,
           \A i \in DOMAIN h : \A k \in Owned(h[i]) : k \notin ks
    PROVE  Sound(L, h, Dead(c, ks), Values(c, ks))
  <1>1. Typed(L, h, c, <<>>) /\ Counted(L, h, c, <<>>) /\ Tidy(h, c)
    BY DEF Sound
  <1>2. h \in Seq(Insts) /\ c \in Seq(CellSet) /\ DOMAIN h = 1..Len(h) /\ Len(h) \in Nat
    BY <1>1 DEF Typed
  <1>3. ASSUME NEW i \in Nat \ {0}
        PROVE  /\ Values(c, ks) \in Seq(0..Len(h)) /\ Values(c, ks) \o <<>> \in Seq(0..Len(h))
               /\ Typed(L, h, Dead(c, ks), Values(c, ks) \o <<>>)
               /\ Refs(L, Dead(c, ks), Values(c, ks) \o <<>>, i) = Refs(L, c, <<>>, i)
    <2>1. PICK us : us = <<>>
      OBVIOUS
    <2>2. Typed(L, h, c, us)
      BY <1>1, <2>1
    <2>3. /\ Values(c, ks) \in Seq(0..Len(h)) /\ Values(c, ks) \o us \in Seq(0..Len(h))
          /\ Typed(L, h, Dead(c, ks), Values(c, ks) \o us)
          /\ Refs(L, Dead(c, ks), Values(c, ks) \o us, i) = Refs(L, c, us, i)
      BY <2>2, DeadRefs
    <2>4. QED
      BY <2>1, <2>3
  <1>4. PICK vs : vs = Values(c, ks)
    OBVIOUS
  <1>5. vs \in Seq(0..Len(h)) /\ Typed(L, h, Dead(c, ks), vs \o <<>>)
    BY <1>3, <1>4
  <1>6. vs \o <<>> = vs
    BY <1>5
  <1>7. Typed(L, h, Dead(c, ks), vs)
    BY <1>5, <1>6
  <1>8. \A i \in DOMAIN h : Refs(L, Dead(c, ks), vs, i) = Refs(L, c, <<>>, i)
    BY <1>2, <1>3, <1>4, <1>6
  <1>9. Counted(L, h, Dead(c, ks), vs)
    BY <1>1, <1>8 DEF Counted
  <1>10. Tidy(h, Dead(c, ks))
    <2>1. /\ DOMAIN Dead(c, ks) = DOMAIN c
          /\ \A k \in DOMAIN c : Dead(c, ks)[k] = IF k \in ks THEN [v |-> Plain, live |-> FALSE] ELSE c[k]
      BY <1>2, DeadTypes
    <2>2. \A i \in DOMAIN h : \A k \in Owned(h[i]) : k \in DOMAIN c /\ c[k].live /\ k \notin ks
      BY <1>1 DEF Tidy
    <2>3. \A i \in DOMAIN h : \A k \in Owned(h[i]) : k \in DOMAIN Dead(c, ks) /\ Dead(c, ks)[k].live
      BY <2>1, <2>2
    <2>4. QED
      BY <1>1, <2>3 DEF Tidy
  <1>11. QED
    BY <1>4, <1>7, <1>9, <1>10 DEF Sound

\* A record without elements
Emptied(o) == [o EXCEPT !.elems = <<>>, !.want = <<>>]

\* What a record without elements is
LEMMA EmptiedFields ==
    ASSUME NEW o \in Insts, o.live, o.hidden = {}, NEW q, q = Emptied(o)
    PROVE  Fresh(q) /\ q.cls = o.cls /\ q.refcount = o.refcount /\ q.live /\ q.dims = o.dims
  <1>1. q = [o EXCEPT !.elems = <<>>, !.want = <<>>]
    BY DEF Emptied
  <1>2. /\ q.live = o.live /\ q.elems = <<>> /\ q.hidden = {} /\ q.want = <<>>
        /\ q.cls = o.cls /\ q.refcount = o.refcount /\ q.dims = o.dims
    BY <1>1 DEF Insts
  <1>3. <<>> \in Partial(Nat)
    <2>1. <<>> \in [{} -> Nat] /\ {} \in SUBSET Marks
      OBVIOUS
    <2>2. QED
      BY <2>1 DEF Partial
  <1>4. q \in Insts
    BY <1>1, <1>3 DEF Insts
  <1>5. QED
    BY <1>2, <1>4 DEF Fresh

\* A vector is cleared.
LEMMA VectorClearStep ==
    ASSUME NativeInv, NEW x \in Roots, vector_clear(x)
    PROVE  NativeInv'
  <1>1. PICK i, o, t, ks : i = locals[x] /\ o = heap[i] /\ t = Emptied(o) /\ ks = Owned(o)
    OBVIOUS
  <1>2. PICK b, vs : b = Dead(cells, ks) /\ vs = Values(cells, ks)
    OBVIOUS
  <1>3. PICK m : m = varClear(heap, b, vs)
    OBVIOUS
  <1>4. /\ IsInst(i) /\ o.cls = "Vector" /\ cells' = m.c
        /\ heap' = [m.h EXCEPT ![i].elems = <<>>, ![i].want = <<>>]
        /\ locals' = locals /\ pending' = pending /\ flaws' = flaws
    BY <1>1, <1>2, <1>3 DEF vector_clear, Calls, Inst, varDestruct
  <1>5. i \in DOMAIN heap /\ o.live /\ o \in Insts
    BY <1>1, <1>4, VarLives
  <1>6. /\ cells \in Seq(CellSet) /\ heap \in Seq(Insts) /\ Tidy(heap, cells)
        /\ Sound(locals, heap, cells, <<>>) /\ Rest(heap, cells, pending, flaws)
    BY StateTypes DEF NativeInv
  <1>7. Shaped(o) /\ Holds(o, cells)
    BY <1>1, <1>5, <1>6 DEF Rest, Contents
  <1>8. Fresh(t) /\ t.cls = o.cls /\ t.refcount = o.refcount /\ t.live
    <2>1. o.hidden = {}
      BY <1>4, <1>7 DEF Shaped
    <2>2. QED
      BY <1>1, <1>5, <2>1, EmptiedFields
  <1>9. Owned(t) = {} /\ Apart(t) /\ Shaped(t) /\ Holds(t, b) /\ t \in Insts /\ \A p : ~At(t, p)
    BY <1>8, FreshFields DEF Fresh
  <1>10. PICK h : h = [heap EXCEPT ![i] = t]
    OBVIOUS
  <1>11. Sound(locals, h, cells, <<>>)
    BY <1>1, <1>5, <1>6, <1>8, <1>9, <1>10, ReplaceSound
  <1>12. DOMAIN h = DOMAIN heap /\ h[i] = t /\ \A j \in DOMAIN heap : j # i => h[j] = heap[j]
    BY <1>5, <1>10
  <1>13. \A k \in ks : k \in DOMAIN cells /\ cells[k].live
    BY <1>1, <1>5, <1>6 DEF Tidy
  <1>14. \A j \in DOMAIN h : \A k \in Owned(h[j]) : k \notin ks
    <2>1. \A j \in DOMAIN heap : j # i => Owned(heap[j]) \cap ks = {}
      BY <1>1, <1>5, <1>6 DEF Tidy
    <2>2. QED
      BY <1>9, <1>12, <2>1
  <1>15. Sound(locals, h, b, vs)
    BY <1>2, <1>11, <1>13, <1>14, StraySound
  <1>16. PICK w : w = varClear(h, b, vs)
    OBVIOUS
  <1>17. Sound(locals, w.h, w.c, <<>>) /\ Kept(h, b, w.h, w.c)
    BY <1>15, <1>16, VarClearSound
  <1>18. Twins(i, o, t, m, w)
    <2>1. h[i] = [t EXCEPT !.refcount = h[i].refcount]
      BY <1>9, <1>12 DEF Insts
    <2>2. o = [o EXCEPT !.refcount = h[i].refcount]
      BY <1>5, <1>8, <1>12 DEF Insts
    <2>3. heap = [h EXCEPT ![i] = o]
      <3>1. heap = [j \in DOMAIN heap |-> heap[j]]
        BY <1>6
      <3>2. [h EXCEPT ![i] = o] = [j \in DOMAIN heap |-> IF j = i THEN o ELSE h[j]]
        BY <1>12
      <3>3. \A j \in DOMAIN heap : (IF j = i THEN o ELSE h[j]) = heap[j]
        BY <1>1, <1>12
      <3>4. QED
        BY <3>1, <3>2, <3>3
    <2>4. heap = [h EXCEPT ![i] = [o EXCEPT !.refcount = h[i].refcount]]
      BY <2>2, <2>3
    <2>5. Twin(i, o, t, heap, h)
      BY <2>1, <2>4 DEF Twin
    <2>6. PICK L, g : L = locals /\ g = heap
      OBVIOUS
    <2>7. i = L[x] /\ i \in DOMAIN h /\ Twin(i, o, t, g, h) /\ Sound(L, h, b, vs)
      BY <1>1, <1>5, <1>12, <1>15, <2>5, <2>6
    <2>8. Twins(i, o, t, varClear(g, b, vs), varClear(h, b, vs))
      BY <1>5, <1>9, <2>7, AlikeRun
    <2>9. QED
      BY <1>3, <1>16, <2>6, <2>8
  <1>19. heap' = w.h /\ cells' = w.c
    <2>1. PICK r : r = w.h[i].refcount
      OBVIOUS
    <2>2. /\ m.c = w.c /\ DOMAIN m.h = DOMAIN w.h /\ (\A j \in DOMAIN w.h : j # i => m.h[j] = w.h[j])
          /\ m.h[i] = [o EXCEPT !.refcount = r] /\ w.h[i] = [t EXCEPT !.refcount = r]
      BY <1>18, <2>1 DEF Twins
    <2>3. i \in DOMAIN w.h
      BY <1>5, <1>12, <1>17 DEF Kept
    <2>4. heap' = [m.h EXCEPT ![i] = Emptied(m.h[i])]
      <3>1. PICK f, e : f = m.h /\ e = f[i]
        OBVIOUS
      <3>2. [f EXCEPT ![i].elems = <<>>, ![i].want = <<>>]
            = [f EXCEPT ![i] = [e EXCEPT !.elems = <<>>, !.want = <<>>]]
        BY <3>1
      <3>3. QED
        BY <1>4, <3>1, <3>2 DEF Emptied
    <2>5. Emptied([o EXCEPT !.refcount = r]) = [t EXCEPT !.refcount = r]
      BY <1>1, <1>5 DEF Emptied, Insts
    <2>6. Emptied(m.h[i]) = w.h[i]
      BY <2>2, <2>5
    <2>7. w.h \in Seq(Insts)
      BY <1>17 DEF Sound, Typed
    <2>8. w.h = [j \in DOMAIN w.h |-> w.h[j]]
      BY <2>7
    <2>9. heap' = [j \in DOMAIN w.h |-> IF j = i THEN w.h[i] ELSE m.h[j]]
      BY <2>2, <2>4, <2>6
    <2>10. \A j \in DOMAIN w.h : (IF j = i THEN w.h[i] ELSE m.h[j]) = w.h[j]
      BY <2>2
    <2>11. QED
      BY <1>4, <2>2, <2>8, <2>9, <2>10
  <1>20. /\ DOMAIN b = DOMAIN cells
         /\ \A k \in DOMAIN cells : b[k] = IF k \in ks THEN [v |-> Plain, live |-> FALSE] ELSE cells[k]
    <2>1. /\ DOMAIN Dead(cells, ks) = DOMAIN cells
          /\ \A k \in DOMAIN cells :
               Dead(cells, ks)[k] = IF k \in ks THEN [v |-> Plain, live |-> FALSE] ELSE cells[k]
      BY DEF Dead
    <2>2. QED
      BY <1>2, <2>1
  <1>21. Changes(heap, cells, i, t, b, flaws, flaws)
    <2>1. \A k \in DOMAIN cells : b[k] = cells[k] \/ k \in ks
      BY <1>20
    <2>2. \A j \in DOMAIN heap : j # i => Owned(heap[j]) \cap ks = {}
      BY <1>1, <1>5, <1>6 DEF Tidy
    <2>3. \A k \in ks : ~b[k].live
      BY <1>13, <1>20
    <2>4. \A k \in DOMAIN cells : b[k].live => cells[k].live
      BY <1>20, <2>3
    <2>5. QED
      BY <1>1, <1>5, <1>8, <1>9, <1>20, <2>1, <2>2, <2>3, <2>4 DEF Changes
  <1>22. ASSUME NEW p, Pends(heap, cells, p), p.inst = i PROVE Follows(heap[i], t, b, flaws, p)
    <2>1. At(o, p) => p.cell \in ks
      BY <1>1 DEF At, Owned, Range
    <2>2. p.cell \in ks => ~b[p.cell].live
      BY <1>13, <1>20
    <2>3. QED
      BY <1>1, <1>9, <2>1, <2>2 DEF Follows
  <1>23. Rest(h, b, pending, flaws)
    BY <1>6, <1>10, <1>21, <1>22, ChangeRest
  <1>24. Rest(w.h, w.c, pending, flaws)
    BY <1>15, <1>17, <1>23, KeptRest
  <1>25. QED
    BY <1>4, <1>17, <1>19, <1>24 DEF NativeInv

\* An element of a vector is replaced.
LEMMA SetElementStep ==
    ASSUME NativeInv, NEW x \in Roots, NEW k \in Places, NEW y \in Roots,
           vector_setelementat(x, k, y)
    PROVE  NativeInv'
  <1>1. PICK i, w, o, g, n, e : /\ i = locals[x] /\ w = locals[y] /\ o = heap[i]
                                /\ g = jsinstRef(heap, w) /\ n = Len(cells) + 1
                                /\ e = o.elems[k]
    OBVIOUS
  <1>2. IsInst(i) /\ o.cls = "Vector"
    BY <1>1 DEF vector_setelementat, Calls, Inst
  <1>3. i \in DOMAIN heap /\ o.live /\ o \in Insts
    BY <1>1, <1>2, VarLives
  <1>4. CASE k = NotInt \/ k \notin DOMAIN o.elems
    <2>1. Fail("TYPE_MISMATCH") \/ Fault
      BY <1>1, <1>4 DEF vector_setelementat, Inst
    <2>2. QED
      BY <2>1, LeaveStep, FaultStep DEF Fail
  <1>5. CASE k # NotInt /\ k \in DOMAIN o.elems
    <2>1. PICK b, a : b = Celled(cells, w) /\ a = Dead(b, {e})
      OBVIOUS
    <2>2. PICK vs : vs = Values(b, {e})
      OBVIOUS
    <2>3. PICK m : m = varClear(g, a, vs)
      OBVIOUS
    <2>4. /\ heap' = [m.h EXCEPT ![i] = With(m.h[i], k, n, w)] /\ cells' = m.c
          /\ locals' = locals /\ pending' = pending /\ flaws' = flaws
      BY <1>1, <1>5, <2>1, <2>2, <2>3 DEF vector_setelementat, Inst, NewCell, Celled, varDestruct
    <2>5. /\ w \in 0..Len(heap) /\ w \in Nat /\ w \in 0..Len(g)
          /\ Sound(locals, g, cells, <<w>>) /\ Rest(g, cells, pending, flaws)
          /\ g \in Seq(Insts) /\ DOMAIN g = DOMAIN heap /\ Tidy(g, cells)
          /\ g[i] \in Insts /\ g[i] = [o EXCEPT !.refcount = g[i].refcount] /\ g[i].live
      BY <1>1, <1>3, Counting
    <2>6. PICK f, rc : f = g[i] /\ rc = g[i].refcount
      OBVIOUS
    <2>7. /\ f.cls = o.cls /\ f.elems = o.elems /\ f.hidden = o.hidden /\ f \in Insts
          /\ f.dims = o.dims /\ f.want = o.want /\ rc \in Int /\ f.refcount = rc /\ f.live
      <3>1. o \in Insts /\ f = [o EXCEPT !.refcount = rc] /\ f \in Insts
        BY <1>3, <2>5, <2>6
      <3>2. /\ f.cls = o.cls /\ f.elems = o.elems /\ f.hidden = o.hidden
            /\ f.dims = o.dims /\ f.want = o.want /\ f.refcount \in Int
        BY <3>1 DEF Insts
      <3>3. QED
        BY <2>5, <2>6, <3>1, <3>2
    <2>8. Apart(f) /\ (\A j \in Owned(f) : j \in DOMAIN cells /\ cells[j].live)
      BY <1>3, <2>5, <2>6 DEF Tidy
    <2>9. Shaped(f) /\ Holds(f, cells)
      BY <1>3, <2>5, <2>6 DEF Rest, Contents
    <2>10. k \in Marks
      BY <1>2, <1>5, <2>7, <2>9 DEF Shaped, Marks
    <2>11. cells \in Seq(CellSet) /\ heap \in Seq(Insts)
      BY StateTypes
    <2>12. /\ b \in Seq(CellSet) /\ b[n].v = w /\ b[n].live /\ n \in Nat /\ n \notin DOMAIN cells
           /\ DOMAIN b = DOMAIN cells \cup {n} /\ \A j \in DOMAIN cells : b[j] = cells[j]
      <3>1. cells \in Seq(CellSet) /\ w \in Nat /\ Adds(cells, w, b, n)
        BY <1>1, <2>1, <2>5, <2>11 DEF Adds
      <3>2. Added(cells, w, b, n)
        BY <3>1, NextCell
      <3>3. QED
        BY <3>2 DEF Added
    <2>13. n \notin Owned(f)
      BY <2>8, <2>12
    <2>14. e \in Owned(f) /\ e # n /\ e \in DOMAIN cells /\ e \in DOMAIN b /\ b[e].live
      <3>1. e \in Owned(f)
        BY <1>1, <1>5, <2>7 DEF Owned, Range
      <3>2. QED
        BY <2>8, <2>12, <2>13, <3>1
    <2>15. PICK q : q = With(f, k, n, w)
      OBVIOUS
    <2>16. /\ q \in Insts /\ q.cls = f.cls /\ q.refcount = f.refcount /\ q.live
           /\ q.hidden = f.hidden /\ q.dims = f.dims
           /\ q.elems = Put(f.elems, k, n) /\ q.want = Put(f.want, k, w)
      <3>1. f \in Insts /\ q = With(f, k, n, w) /\ k \in Marks /\ n \in Nat /\ w \in Nat
        BY <2>5, <2>7, <2>10, <2>12, <2>15
      <3>2. /\ q \in Insts /\ q.cls = f.cls /\ q.refcount = f.refcount /\ q.live = f.live
            /\ q.hidden = f.hidden /\ q.dims = f.dims
            /\ q.elems = Put(f.elems, k, n) /\ q.want = Put(f.want, k, w)
        BY <3>1, WithFields
      <3>3. QED
        BY <2>7, <3>2
    <2>17. /\ Apart(q) /\ n \in Owned(q)
           /\ \A j \in Owned(q) : j \in Owned(f) \/ j = n
           /\ \A j \in Owned(f) : j \in Owned(q) \/ j = e
           /\ e \notin Owned(q)
      <3>1. /\ Apart(q) /\ n \in Owned(q)
            /\ \A j \in Owned(q) : j \in Owned(f) \/ j = n
            /\ \A j \in Owned(f) : j \in Owned(q) \/ (k \in DOMAIN f.elems /\ j = f.elems[k])
            /\ k \in DOMAIN f.elems => f.elems[k] \notin Owned(q)
        BY <2>8, <2>13, <2>16, PutOwned
      <3>2. k \in DOMAIN f.elems /\ e = f.elems[k]
        BY <1>1, <1>5, <2>7
      <3>3. QED
        BY <3>1, <3>2
    <2>18. PICK h : h = [g EXCEPT ![i] = q]
      OBVIOUS
    <2>19. DOMAIN h = DOMAIN g /\ h[i] = q /\ \A j \in DOMAIN g : j # i => h[j] = g[j]
      BY <1>3, <2>5, <2>18
    <2>20. Sound(locals, h, b, <<>>)
      <3>1. /\ i \in DOMAIN g /\ g[i].live /\ q.refcount = g[i].refcount /\ q.live /\ Apart(q)
            /\ \A j \in Owned(q) : j \in Owned(g[i]) \/ j = Len(cells) + 1
        BY <1>1, <1>3, <2>5, <2>6, <2>16, <2>17
      <3>2. Sound(locals, [g EXCEPT ![i] = q], Celled(cells, w), <<>>)
        BY <2>5, <2>16, <3>1, CellSound
      <3>3. QED
        BY <2>1, <2>18, <3>2
    <2>21. Sound(locals, h, a, vs)
      <3>1. \A j \in DOMAIN g : j # i => e \notin Owned(g[j])
        BY <1>3, <2>5, <2>6, <2>14 DEF Tidy
      <3>2. \A j \in DOMAIN h : \A d \in Owned(h[j]) : d \notin {e}
        BY <2>17, <2>19, <3>1
      <3>3. \A d \in {e} : d \in DOMAIN b /\ b[d].live
        BY <2>14
      <3>4. PICK ks : ks = {e}
        OBVIOUS
      <3>5. Sound(locals, h, Dead(b, ks), Values(b, ks))
        BY <2>20, <3>2, <3>3, <3>4, StraySound
      <3>6. QED
        BY <2>1, <2>2, <3>4, <3>5
    <2>22. PICK u : u = varClear(h, a, vs)
      OBVIOUS
    <2>23. Sound(locals, u.h, u.c, <<>>) /\ Kept(h, a, u.h, u.c)
      BY <2>21, <2>22, VarClearSound
    <2>24. Twins(i, f, q, m, u)
      <3>1. h[i] = [q EXCEPT !.refcount = h[i].refcount]
        BY <2>16, <2>19 DEF Insts
      <3>2. f = [f EXCEPT !.refcount = h[i].refcount]
        BY <2>7, <2>16, <2>19 DEF Insts
      <3>3. g = [h EXCEPT ![i] = f]
        <4>1. g = [j \in DOMAIN g |-> g[j]]
          BY <2>5
        <4>2. [h EXCEPT ![i] = f] = [j \in DOMAIN g |-> IF j = i THEN f ELSE h[j]]
          BY <2>19
        <4>3. \A j \in DOMAIN g : (IF j = i THEN f ELSE h[j]) = g[j]
          BY <2>6, <2>19
        <4>4. QED
          BY <4>1, <4>2, <4>3
      <3>4. g = [h EXCEPT ![i] = [f EXCEPT !.refcount = h[i].refcount]]
        BY <3>2, <3>3
      <3>5. Twin(i, f, q, g, h)
        BY <3>1, <3>4 DEF Twin
      <3>6. PICK L : L = locals
        OBVIOUS
      <3>7. i = L[x] /\ i \in DOMAIN h /\ Twin(i, f, q, g, h) /\ Sound(L, h, a, vs)
        BY <1>1, <1>3, <2>5, <2>19, <2>21, <3>5, <3>6
      <3>8. Twins(i, f, q, varClear(g, a, vs), varClear(h, a, vs))
        BY <2>7, <2>16, <3>7, AlikeRun
      <3>9. QED
        BY <2>3, <2>22, <3>8
    <2>25. heap' = u.h /\ cells' = u.c
      <3>1. PICK r : r = u.h[i].refcount
        OBVIOUS
      <3>2. /\ m.c = u.c /\ DOMAIN m.h = DOMAIN u.h /\ (\A j \in DOMAIN u.h : j # i => m.h[j] = u.h[j])
            /\ m.h[i] = [f EXCEPT !.refcount = r] /\ u.h[i] = [q EXCEPT !.refcount = r]
        BY <2>24, <3>1 DEF Twins
      <3>3. i \in DOMAIN u.h
        BY <1>3, <2>5, <2>19, <2>23 DEF Kept
      <3>4. With([f EXCEPT !.refcount = r], k, n, w) = [q EXCEPT !.refcount = r]
        BY <2>7, <2>15 DEF With, Insts
      <3>5. With(m.h[i], k, n, w) = u.h[i]
        BY <3>2, <3>4
      <3>6. u.h \in Seq(Insts)
        BY <2>23 DEF Sound, Typed
      <3>7. u.h = [j \in DOMAIN u.h |-> u.h[j]]
        BY <3>6
      <3>8. heap' = [j \in DOMAIN u.h |-> IF j = i THEN u.h[i] ELSE m.h[j]]
        BY <2>4, <3>2, <3>5
      <3>9. \A j \in DOMAIN u.h : (IF j = i THEN u.h[i] ELSE m.h[j]) = u.h[j]
        BY <3>2
      <3>10. QED
        BY <2>4, <3>2, <3>7, <3>8, <3>9
    <2>26. /\ DOMAIN a = DOMAIN b
           /\ \A j \in DOMAIN b : a[j] = IF j = e THEN [v |-> Plain, live |-> FALSE] ELSE b[j]
      BY <2>1 DEF Dead
    <2>27. ~a[e].live /\ \A j \in DOMAIN cells : j # e => a[j] = cells[j]
      <3>1. a[e] = [v |-> Plain, live |-> FALSE]
        BY <2>14, <2>26
      <3>2. QED
        BY <2>12, <2>26, <3>1
    <2>28. a[n].v = w /\ a[n].live /\ n \in DOMAIN a
      BY <2>12, <2>14, <2>26
    <2>29. Shaped(q)
      <3>1. PICK d \in Nat : DOMAIN f.elems = 0..(d - 1)
        BY <1>2, <2>7, <2>9 DEF Shaped
      <3>2. DOMAIN q.elems = DOMAIN f.elems \cup {k}
        BY <2>16 DEF Put
      <3>3. DOMAIN q.elems = 0..(d - 1)
        BY <1>5, <2>7, <3>1, <3>2
      <3>4. q.hidden = {} /\ q.cls = "Vector"
        BY <1>2, <2>7, <2>9, <2>16 DEF Shaped
      <3>5. QED
        BY <3>1, <3>3, <3>4 DEF Shaped
    <2>30. Holds(q, a)
      <3>1. \A j \in Owned(q) : j # n => a[j] = cells[j]
        BY <2>8, <2>17, <2>27
      <3>2. f.cls # "Array"
        BY <1>2, <2>7
      <3>3. QED
        BY <2>9, <2>13, <2>16, <2>28, <3>1, <3>2, PutHolds
    <2>31. Changes(g, cells, i, q, a, flaws, flaws)
      <3>1. \A j \in DOMAIN a \ DOMAIN cells : j \in Owned(q)
        BY <2>12, <2>17, <2>26
      <3>2. \A j \in Owned(q) : j \in Owned(g[i]) \/ j \in DOMAIN a \ DOMAIN cells
        BY <2>6, <2>12, <2>17, <2>26
      <3>3. DOMAIN cells \in SUBSET DOMAIN a
        BY <2>12, <2>26
      <3>4. \A j \in Owned(g[i]) : j \in Owned(q) \/ ~a[j].live
        BY <2>6, <2>17, <2>27
      <3>5. i \in DOMAIN g /\ g[i].live /\ q.live /\ q.cls = g[i].cls
        BY <1>3, <2>5, <2>6, <2>16
      <3>6. \A j \in DOMAIN g : j # i => e \notin Owned(g[j])
        BY <1>3, <2>5, <2>6, <2>14 DEF Tidy
      <3>7. \A j \in DOMAIN cells : a[j] = cells[j] \/ \A d \in DOMAIN g : d # i => j \notin Owned(g[d])
        BY <2>27, <3>6
      <3>8. \A j \in DOMAIN cells : a[j].live => cells[j].live
        BY <2>27
      <3>9. QED
        BY <2>29, <2>30, <3>1, <3>2, <3>3, <3>4, <3>5, <3>7, <3>8 DEF Changes
    <2>32. ASSUME NEW p, Pends(g, cells, p), p.inst = i PROVE Follows(g[i], q, a, flaws, p)
      <3>1. /\ p.cell # n /\ (p.cell \in Owned(f) => At(f, p)) /\ (At(f, p) => Numbered(f, p))
        BY <1>3, <2>5, <2>6, <2>12, <2>32 DEF Pends
      <3>2. f.cls = "Vector" /\ ~a[f.elems[k]].live
        BY <1>1, <1>2, <2>7, <2>27
      <3>3. Follows(f, q, a, flaws, p)
        BY <2>8, <2>13, <2>16, <3>1, <3>2, PutFollows
      <3>4. QED
        BY <2>6, <3>3
    <2>33. Rest(h, a, pending, flaws)
      BY <2>5, <2>18, <2>31, <2>32, ChangeRest
    <2>34. Rest(u.h, u.c, pending, flaws)
      BY <2>21, <2>23, <2>33, KeptRest
    <2>35. QED
      BY <2>4, <2>23, <2>25, <2>34 DEF NativeInv
  <1>6. QED
    BY <1>4, <1>5

\* Cells b and c are the same, but for the value of one that lives: y in b, w in c
Differs(b, c, e, y, w) ==
    /\ DOMAIN b = DOMAIN c /\ e \in DOMAIN c
    /\ \A k \in DOMAIN c : k # e => b[k] = c[k]
    /\ b[e] = [v |-> y, live |-> TRUE] /\ c[e] = [v |-> w, live |-> TRUE]

\* Two runs of varClear, s and u, are the same until the cell e goes
Shadows(e, y, w, s, u) ==
    /\ AsList(s) /\ AsList(u) /\ e \in DOMAIN s.c
    /\ s.c[e].live => s.h = u.h /\ s.todo = u.todo /\ Differs(s.c, u.c, e, y, w)

\* Cells that differ in one that stays differ there after others go.
LEMMA DiffersDead ==
    ASSUME NEW b, NEW c, NEW e, NEW y, NEW w, Differs(b, c, e, y, w), NEW ks, e \notin ks
    PROVE  Differs(Dead(b, ks), Dead(c, ks), e, y, w) /\ Values(b, ks) = Values(c, ks)
  <1>1. /\ DOMAIN b = DOMAIN c /\ e \in DOMAIN c
        /\ \A k \in DOMAIN c : k # e => b[k] = c[k]
        /\ b[e] = [v |-> y, live |-> TRUE] /\ c[e] = [v |-> w, live |-> TRUE]
    BY DEF Differs
  <1>2. PICK D : D = DOMAIN c
    OBVIOUS
  <1>3. PICK p, q : p = Dead(b, ks) /\ q = Dead(c, ks)
    OBVIOUS
  <1>4. /\ p = [k \in D |-> IF k \in ks THEN [v |-> Plain, live |-> FALSE] ELSE b[k]]
        /\ q = [k \in D |-> IF k \in ks THEN [v |-> Plain, live |-> FALSE] ELSE c[k]]
    BY <1>1, <1>2, <1>3 DEF Dead
  <1>5. Differs(p, q, e, y, w)
    BY <1>1, <1>2, <1>4 DEF Differs
  <1>6. Values(b, ks) = [k \in D |-> IF k \in ks THEN b[k].v ELSE Plain]
    BY <1>1, <1>2 DEF Values
  <1>7. Values(c, ks) = [k \in D |-> IF k \in ks THEN c[k].v ELSE Plain]
    BY <1>1, <1>2 DEF Values
  <1>8. \A k \in D : (IF k \in ks THEN b[k].v ELSE Plain) = (IF k \in ks THEN c[k].v ELSE Plain)
    BY <1>1, <1>2
  <1>9. QED
    BY <1>3, <1>5, <1>6, <1>7, <1>8

\* ClearNext on an instance, by its parts
Drop(h, v)       == [h EXCEPT ![v].refcount = @ - 1]
Ended(g, v)      == g[v].refcount <= 0 /\ g[v].live
Blanked(g, v)    == [g EXCEPT ![v] = Blank(@.cls)]

\* A step t from s that clears the instance v, with its count less one in g
Looks(s, v, g, ks, t) ==
    v = Head(s.todo) /\ IsInst(v) /\ g = Drop(s.h, v) /\ ks = Owned(g[v]) /\ t = ClearNext(s)

Parts(s, v, g, ks, t) ==
    /\ AsList(t)
    /\ Ended(g, v) => /\ t.h = Blanked(g, v) /\ t.c = Dead(s.c, ks)
                      /\ t.todo = Values(s.c, ks) \o Tail(s.todo)
    /\ ~Ended(g, v) => t.h = g /\ t.c = s.c /\ t.todo = Tail(s.todo)

\* What the step makes of the parts.
LEMMA NextParts ==
    ASSUME NEW s, NEW v, NEW g, NEW ks, NEW t, Looks(s, v, g, ks, t)
    PROVE  Parts(s, v, g, ks, t)
  <1>1. CASE Ended(g, v)
    <2>1. t = [h |-> Blanked(g, v), c |-> Dead(s.c, ks), todo |-> Values(s.c, ks) \o Tail(s.todo)]
      BY <1>1 DEF ClearNext, Ended, Blanked, Drop, Looks
    <2>2. PICK a, b, d : a = Blanked(g, v) /\ b = Dead(s.c, ks) /\ d = Values(s.c, ks) \o Tail(s.todo)
      OBVIOUS
    <2>3. t = [h |-> a, c |-> b, todo |-> d]
      BY <2>1, <2>2
    <2>4. t.h = a /\ t.c = b /\ t.todo = d /\ AsList(t)
      BY <2>3 DEF AsList
    <2>5. QED
      BY <1>1, <2>2, <2>4 DEF Parts
  <1>2. CASE ~Ended(g, v)
    <2>1. t = [h |-> g, c |-> s.c, todo |-> Tail(s.todo)]
      BY <1>2 DEF ClearNext, Ended, Drop, Looks
    <2>2. PICK b, d : b = s.c /\ d = Tail(s.todo)
      OBVIOUS
    <2>3. t = [h |-> g, c |-> b, todo |-> d]
      BY <2>1, <2>2
    <2>4. t.h = g /\ t.c = b /\ t.todo = d /\ AsList(t)
      BY <2>3 DEF AsList
    <2>5. QED
      BY <1>2, <2>2, <2>4 DEF Parts
  <1>3. QED
    BY <1>1, <1>2

\* A cell that is not there stays so.
LEMMA ShadowStep ==
    ASSUME NEW e, NEW y, NEW w, NEW s, NEW u, Shadows(e, y, w, s, u)
    PROVE  Shadows(e, y, w, Cleared(s), Cleared(u))
  <1>1. AsList(s) /\ AsList(u) /\ e \in DOMAIN s.c
    BY DEF Shadows
  <1>2. ASSUME NEW t, AsList(t), t.todo # <<>>
        PROVE  /\ AsList(ClearNext(t)) /\ (e \in DOMAIN t.c => e \in DOMAIN ClearNext(t).c)
               /\ e \in DOMAIN t.c /\ ClearNext(t).c[e].live => t.c[e].live
    <2>1. PICK v, p : v = Head(t.todo) /\ p = ClearNext(t)
      OBVIOUS
    <2>2. CASE ~IsInst(v)
      <3>1. p.c = t.c /\ AsList(p)
        BY <1>2, <2>1, <2>2, NextPlain
      <3>2. QED
        BY <2>1, <3>1
    <2>3. CASE IsInst(v)
      <3>1. PICK g, ks : g = Drop(t.h, v) /\ ks = Owned(g[v])
        OBVIOUS
      <3>2. AsList(p) /\ (p.c = t.c \/ p.c = Dead(t.c, ks))
        <4>1. Looks(t, v, g, ks, p)
          BY <2>1, <2>3, <3>1 DEF Looks
        <4>2. Parts(t, v, g, ks, p)
          BY <4>1, NextParts
        <4>3. QED
          BY <4>2 DEF Parts
      <3>3. QED
        BY <2>1, <3>2 DEF Dead
    <2>4. QED
      BY <2>2, <2>3
  <1>3. /\ AsList(Cleared(s)) /\ AsList(Cleared(u)) /\ e \in DOMAIN Cleared(s).c
        /\ Cleared(s).c[e].live => s.c[e].live
    BY <1>1, <1>2 DEF Cleared
  <1>4. PICK p, q : p = Cleared(s) /\ q = Cleared(u)
    OBVIOUS
  <1>5. ASSUME p.c[e].live
        PROVE  p.h = q.h /\ p.todo = q.todo /\ Differs(p.c, q.c, e, y, w)
    <2>1. s.h = u.h /\ s.todo = u.todo /\ Differs(s.c, u.c, e, y, w)
      BY <1>3, <1>4, <1>5 DEF Shadows
    <2>2. CASE s.todo = <<>>
      BY <1>4, <2>1, <2>2 DEF Cleared
    <2>3. CASE s.todo # <<>>
      <3>1. p = ClearNext(s) /\ q = ClearNext(u)
        BY <1>4, <2>1, <2>3 DEF Cleared
      <3>2. PICK v : v = Head(s.todo)
        OBVIOUS
      <3>3. CASE ~IsInst(v)
        <4>1. p.h = s.h /\ p.c = s.c /\ p.todo = Tail(s.todo)
          BY <1>1, <3>1, <3>2, <3>3, NextPlain
        <4>2. q.h = u.h /\ q.c = u.c /\ q.todo = Tail(u.todo)
          BY <1>1, <2>1, <3>1, <3>2, <3>3, NextPlain
        <4>3. QED
          BY <2>1, <4>1, <4>2
      <3>4. CASE IsInst(v)
        <4>1. PICK g, ks : g = Drop(s.h, v) /\ ks = Owned(g[v])
          OBVIOUS
        <4>2. /\ Ended(g, v) => /\ p.h = Blanked(g, v) /\ p.c = Dead(s.c, ks)
                                /\ p.todo = Values(s.c, ks) \o Tail(s.todo)
              /\ ~Ended(g, v) => p.h = g /\ p.c = s.c /\ p.todo = Tail(s.todo)
          <5>1. Looks(s, v, g, ks, p)
            BY <3>1, <3>2, <3>4, <4>1 DEF Looks
          <5>2. Parts(s, v, g, ks, p)
            BY <5>1, NextParts
          <5>3. QED
            BY <5>2 DEF Parts
        <4>3. v = Head(u.todo) /\ g = Drop(u.h, v)
          BY <2>1, <3>2, <4>1
        <4>4. /\ Ended(g, v) => /\ q.h = Blanked(g, v) /\ q.c = Dead(u.c, ks)
                                /\ q.todo = Values(u.c, ks) \o Tail(u.todo)
              /\ ~Ended(g, v) => q.h = g /\ q.c = u.c /\ q.todo = Tail(u.todo)
          <5>1. Looks(u, v, g, ks, q)
            BY <3>1, <3>4, <4>1, <4>3 DEF Looks
          <5>2. Parts(u, v, g, ks, q)
            BY <5>1, NextParts
          <5>3. QED
            BY <5>2 DEF Parts
        <4>5. CASE ~Ended(g, v)
          BY <2>1, <4>2, <4>4, <4>5
        <4>6. CASE Ended(g, v)
          <5>1. e \notin ks
            <6>1. p.c = Dead(s.c, ks)
              BY <4>2, <4>6
            <6>2. QED
              BY <1>1, <1>5, <6>1 DEF Dead
          <5>2. PICK b, c : b = s.c /\ c = u.c
            OBVIOUS
          <5>3. Differs(Dead(b, ks), Dead(c, ks), e, y, w) /\ Values(b, ks) = Values(c, ks)
            BY <2>1, <5>1, <5>2, DiffersDead
          <5>4. QED
            BY <2>1, <4>2, <4>4, <4>6, <5>2, <5>3
        <4>7. QED
          BY <4>5, <4>6
      <3>5. QED
        BY <3>3, <3>4
    <2>4. QED
      BY <2>2, <2>3
  <1>6. QED
    BY <1>3, <1>4, <1>5 DEF Shadows

\* The runs end the same if the cell is still there.
LEMMA ShadowRun ==
    ASSUME NEW h \in Seq(Insts), NEW b \in Seq(CellSet), NEW c \in Seq(CellSet), NEW vs,
           Len(vs) \in Nat, NEW e, NEW y, NEW w, Differs(b, c, e, y, w),
           NEW m, m = varClear(h, b, vs), NEW z, z = varClear(h, c, vs), m.c[e].live
    PROVE  m.h = z.h /\ Differs(m.c, z.c, e, y, w)
  <1>1. Len(h) \in Nat /\ Len(b) \in Nat /\ Len(b) = Len(c) /\ e \in DOMAIN b
    BY DEF Differs
  <1>2. CASE \A k \in DOMAIN vs : ~IsInst(vs[k])
    <2>1. m = [h |-> h, c |-> b] /\ z = [h |-> h, c |-> c]
      BY <1>2 DEF varClear
    <2>2. QED
      BY <2>1
  <1>3. CASE ~(\A k \in DOMAIN vs : ~IsInst(vs[k]))
    <2>1. PICK s, u : s = [h |-> h, c |-> b, todo |-> vs] /\ u = [h |-> h, c |-> c, todo |-> vs]
      OBVIOUS
    <2>2. PICK n : n = Len(vs) + Len(c) * Len(h)
      OBVIOUS
    <2>3. PICK r, f : r = Clearing(s, n) /\ f = Clearing(u, n)
      OBVIOUS
    <2>4. m = [h |-> r[n].h, c |-> r[n].c]
      BY <1>1, <1>3, <2>1, <2>2, <2>3 DEF varClear
    <2>5. z = [h |-> f[n].h, c |-> f[n].c]
      BY <1>3, <2>1, <2>2, <2>3 DEF varClear
    <2>6. n \in Nat
      <3>1. Len(c) * Len(h) \in Nat
        BY <1>1
      <3>2. QED
        BY <2>2, <3>1
    <2>7. /\ AsList(s) /\ s.h = h /\ s.c = b /\ s.todo = vs
          /\ AsList(u) /\ u.h = h /\ u.c = c /\ u.todo = vs
      BY <2>1 DEF AsList
    <2>8. Shadows(e, y, w, s, u)
      BY <1>1, <2>7 DEF Shadows
    <2>9. /\ r[0] = s
          /\ \A k \in 0..(n - 1) : r[k + 1] = Cleared(r[k])
      BY <2>3, <2>6, ClearingSteps
    <2>10. /\ f[0] = u
           /\ \A k \in 0..(n - 1) : f[k + 1] = Cleared(f[k])
      BY <2>3, <2>6, ClearingSteps
    <2> DEFINE S == {k \in Nat : k <= n => Shadows(e, y, w, r[k], f[k])}
    <2>11. 0 \in S
      BY <2>8, <2>9, <2>10
    <2>12. ASSUME NEW k \in S PROVE k + 1 \in S
      <3>1. SUFFICES ASSUME k + 1 <= n
                     PROVE  Shadows(e, y, w, r[k + 1], f[k + 1])
        OBVIOUS
      <3>2. k \in Nat /\ k <= n /\ k \in 0..(n - 1)
        BY <2>6, <3>1
      <3>3. PICK p, q : p = r[k] /\ q = f[k]
        OBVIOUS
      <3>4. Shadows(e, y, w, p, q)
        BY <3>2, <3>3
      <3>5. r[k + 1] = Cleared(p) /\ f[k + 1] = Cleared(q)
        BY <2>9, <2>10, <3>2, <3>3
      <3>6. QED
        BY <3>4, <3>5, ShadowStep
    <2>13. n \in S
      <3> HIDE DEF S
      <3>1. S \in SUBSET Nat
        BY DEF S
      <3>2. S = Nat
        BY <2>11, <2>12, <3>1, Induction
      <3>3. QED
        BY <2>6, <3>2
    <2>14. Shadows(e, y, w, r[n], f[n])
      BY <2>6, <2>13
    <2> HIDE DEF S
    <2>15. PICK p, q : p = r[n] /\ q = f[n]
      OBVIOUS
    <2>16. m.h = p.h /\ m.c = p.c /\ z.h = q.h /\ z.c = q.c
      BY <2>4, <2>5, <2>15
    <2>17. Shadows(e, y, w, p, q)
      BY <2>14, <2>15
    <2>18. QED
      BY <2>16, <2>17 DEF Shadows
  <1>4. QED
    BY <1>2, <1>3

\* A value goes to a cell, and the old one of the cell is to be cleared.
LEMMA CellSwap ==
    ASSUME NEW L, NEW h, NEW c, NEW w \in 0..Len(h), Sound(L, h, c, <<w>>), NEW e \in DOMAIN c,
           NEW y, NEW b, Differs(c, b, e, y, w), b \in Seq(CellSet), y \in 0..Len(h)
    PROVE  Sound(L, h, b, <<y>>)
  <1>1. Typed(L, h, c, <<w>>) /\ Counted(L, h, c, <<w>>) /\ Tidy(h, c)
    BY DEF Sound
  <1>2. /\ DOMAIN b = DOMAIN c
        /\ \A k \in DOMAIN c : k # e => b[k] = c[k]
        /\ b[e].v = w /\ b[e].live /\ c[e].v = y /\ c[e].live
    BY DEF Differs
  <1>3. Typed(L, h, b, <<y>>)
    <2>1. \A k \in DOMAIN b : b[k].v \in 0..Len(h)
      BY <1>1, <1>2 DEF Typed
    <2>2. QED
      BY <1>1, <2>1 DEF Typed
  <1>4. ASSUME NEW i \in DOMAIN h PROVE Refs(L, b, <<y>>, i) = Refs(L, c, <<w>>, i)
    <2>1. IsFiniteSet(InCells(c, i)) /\ IsFiniteSet(InCells(b, i)) /\ Cardinality(InVars(L, i)) \in Nat
      BY <1>1, <1>3, RefTypes
    <2>2. InCells(c, i) \ {e} = InCells(b, i) \ {e}
      BY <1>2 DEF InCells
    <2>3. e \in InCells(c, i) <=> y = i
      BY <1>2 DEF InCells
    <2>4. e \in InCells(b, i) <=> w = i
      BY <1>2 DEF InCells
    <2>5. PICK n \in Nat : n = Cardinality(InCells(c, i) \ {e})
      BY <2>1, Without
    <2>6. Cardinality(InCells(c, i)) = n + (IF y = i THEN 1 ELSE 0)
      BY <2>1, <2>3, <2>5, Without
    <2>7. Cardinality(InCells(b, i)) = n + (IF w = i THEN 1 ELSE 0)
      <3>1. PICK R, S : R = InCells(b, i) \ {e} /\ S = InCells(b, i)
        OBVIOUS
      <3>2. Cardinality(S) = Cardinality(S \ {e}) + (IF e \in S THEN 1 ELSE 0)
        BY <2>1, <3>1, Without
      <3>3. Cardinality(R) = n
        BY <2>2, <2>5, <3>1
      <3>4. QED
        BY <2>4, <3>1, <3>2, <3>3
    <2>8. /\ Cardinality(InList(<<w>>, i)) = IF w = i THEN 1 ELSE 0
          /\ Cardinality(InList(<<y>>, i)) = IF y = i THEN 1 ELSE 0
      BY CountOne
    <2>9. QED
      BY <2>1, <2>6, <2>7, <2>8 DEF Refs
  <1>5. Counted(L, h, b, <<y>>)
    BY <1>1, <1>4 DEF Counted
  <1>6. Tidy(h, b)
    <2>1. \A k \in DOMAIN c : k \in DOMAIN b /\ (c[k].live => b[k].live)
      BY <1>2
    <2>2. QED
      BY <1>1, <2>1 DEF Tidy
  <1>7. QED
    BY <1>3, <1>5, <1>6 DEF Sound

\* The instance o, with the value w in its history at a number
Noted(o, z, w, q) ==
    /\ o \in Insts /\ q \in Insts
    /\ q.cls = o.cls /\ q.hidden = o.hidden /\ q.dims = o.dims /\ q.refcount = o.refcount
    /\ q.elems = o.elems /\ (q.live <=> o.live)
    /\ z = -1 => q.want = o.want
    /\ z # -1 => q.want = Put(o.want, z, w)

\* It owns the same, and holds the value where the reference p is to.
LEMMA NotedHolds ==
    ASSUME NEW o, NEW q, NEW p, NEW w, NEW y, NEW b, NEW c, Noted(o, p.block, w, q), Apart(o),
           At(o, p), Numbered(o, p), Shaped(o), Holds(o, c), Differs(c, b, p.cell, y, w),
           \A k \in Owned(o) : k \in DOMAIN c
    PROVE  /\ Shaped(q) /\ Holds(q, b) /\ Apart(q) /\ Owned(q) = Owned(o)
           /\ \A r : At(q, r) <=> At(o, r)
           /\ \A r : Numbered(o, r) => Numbered(q, r)
  <1>1. /\ o \in Insts /\ q \in Insts
        /\ q.cls = o.cls /\ q.hidden = o.hidden /\ q.dims = o.dims
        /\ q.elems = o.elems
    BY DEF Noted
  <1>2. p.key \in DOMAIN o.elems /\ o.elems[p.key] = p.cell
    BY DEF At
  <1>3. /\ DOMAIN b = DOMAIN c
        /\ \A k \in DOMAIN c : k # p.cell => b[k] = c[k]
        /\ b[p.cell].v = w
    BY DEF Differs
  <1>4. Apart(q) /\ Owned(q) = Owned(o) /\ \A r : At(q, r) <=> At(o, r)
    BY <1>1 DEF Apart, Owned, At
  <1>5. \A k : Place(q, k) = Place(o, k)
    BY <1>1, SamePlace
  <1>6. /\ Len(o.dims) <= 1 => DOMAIN q.want = DOMAIN o.want
        /\ \A k \in DOMAIN o.want : k # p.block \/ p.block = -1 => q.want[k] = o.want[k]
        /\ p.block # -1 => q.want[p.block] = w
    <2>1. CASE p.block = -1
      BY <2>1 DEF Noted
    <2>2. CASE p.block # -1
      <3>1. q.want = Put(o.want, p.block, w)
        BY <2>2 DEF Noted
      <3>2. PICK f, k : f = o.want /\ k = p.block
        OBVIOUS
      <3>3. /\ DOMAIN Put(f, k, w) = DOMAIN f \cup {k}
            /\ Put(f, k, w)[k] = w
            /\ \A j \in DOMAIN f : j # k => Put(f, k, w)[j] = f[j]
        BY DEF Put
      <3>4. Len(o.dims) <= 1 => k \in DOMAIN f
        BY <2>2, <3>2 DEF Numbered
      <3>5. PICK t : t = Put(f, k, w)
        OBVIOUS
      <3>6. /\ DOMAIN t = DOMAIN f \cup {k} /\ t[k] = w /\ q.want = t
            /\ \A j \in DOMAIN f : j # k => t[j] = f[j]
        BY <3>1, <3>2, <3>3, <3>5
      <3>7. Len(o.dims) <= 1 => DOMAIN t = DOMAIN f
        BY <3>4, <3>6
      <3>8. QED
        BY <2>2, <3>2, <3>6, <3>7
    <2>3. QED
      BY <2>1, <2>2
  <1>7. Len(o.dims) \in Nat
    <2>1. o.dims \in Seq(Int)
      BY <1>1 DEF Insts
    <2>2. QED
      BY <2>1
  <1>8. Shaped(q)
    <2>1. PICK n \in Nat : n = Len(o.dims)
      BY <1>7
    <2>2. Len(q.dims) = n
      BY <1>1, <2>1
    <2>3. n = 0 \/ n = 1 => DOMAIN q.want = DOMAIN o.want
      <3>1. Len(o.dims) <= 1 => DOMAIN q.want = DOMAIN o.want
        BY <1>6
      <3>2. n <= 1 => DOMAIN q.want = DOMAIN o.want
        BY <2>1, <3>1
      <3>3. ASSUME n = 0 \/ n = 1 PROVE n <= 1
        BY <3>3
      <3>4. QED
        BY <3>2, <3>3
    <2>4. q.cls = "Vector" => \E j \in Nat : DOMAIN q.elems = 0..(j - 1)
      <3>1. o.cls = "Vector" => \E j \in Nat : DOMAIN o.elems = 0..(j - 1)
        BY DEF Shaped
      <3>2. QED
        BY <1>1, <3>1
    <2>5. q.cls # "Hashtable" => q.hidden = {}
      BY <1>1 DEF Shaped
    <2>6. q.cls = "Array" /\ n = 1 =>
             /\ DOMAIN q.want \in SUBSET (0..(q.dims[1] - 1))
             /\ \A j \in 0..(q.dims[1] - 1) : Place(q, j) \in DOMAIN q.elems => j \in DOMAIN q.want
      BY <1>1, <1>5, <2>1, <2>3 DEF Shaped
    <2>7. q.cls = "Array" /\ n = 0 => DOMAIN q.want = {}
      BY <1>1, <2>1, <2>3 DEF Shaped
    <2>8. QED
      BY <2>2, <2>4, <2>5, <2>6, <2>7 DEF Shaped
  <1>9. \A r : Numbered(o, r) => Numbered(q, r)
    BY <1>1, <1>5, <1>6 DEF Numbered
  <1>10. ASSUME Len(o.dims) <= 1, NEW k \in DOMAIN o.want
         PROVE  Place(o, k) \in DOMAIN o.elems /\ b[o.elems[Place(o, k)]].v = q.want[k]
    <2>1. PICK j, e : j = Place(o, k) /\ e = o.elems[Place(o, k)]
      OBVIOUS
    <2>2. j \in DOMAIN o.elems /\ e = o.elems[j] /\ c[e].v = o.want[k]
      BY <1>10, <2>1 DEF Holds
    <2>3. e \in DOMAIN c
      BY <2>2 DEF Owned, Range
    <2>4. CASE e # p.cell
      <3>1. b[e] = c[e]
        BY <1>3, <2>3, <2>4
      <3>2. k # p.block \/ p.block = -1
        <4>1. CASE p.block # -1
          <5>1. Place(o, p.block) = p.key
            BY <1>10, <4>1 DEF Numbered
          <5>2. QED
            BY <1>2, <2>1, <2>2, <2>4, <5>1
        <4>2. QED
          BY <4>1
      <3>3. QED
        BY <1>6, <2>1, <2>2, <3>1, <3>2
    <2>5. CASE e = p.cell
      <3>1. j = p.key
        BY <1>2, <2>2, <2>5 DEF Apart
      <3>2. p.block # -1
        BY <1>10, <2>1, <3>1 DEF Numbered
      <3>3. Place(o, p.block) = p.key /\ p.block \in DOMAIN o.want
        BY <1>10, <3>2 DEF Numbered
      <3>4. k = p.block
        <4>1. PICK z : z = p.block
          OBVIOUS
        <4>2. Place(o, k) = Place(o, z) /\ z \in DOMAIN o.want
          BY <2>1, <3>1, <3>3, <4>1
        <4>3. CASE o.cls # "Array"
          BY <4>1, <4>2, <4>3 DEF Place
        <4>4. CASE o.cls = "Array"
          <5>1. Len(o.dims) # 0
            BY <4>2, <4>4 DEF Shaped
          <5>2. Len(o.dims) = 1
            BY <1>1, <1>10, <5>1, Dimensions
          <5>3. PICK n : n = o.dims[1]
            OBVIOUS
          <5>4. DOMAIN o.want \in SUBSET (0..(n - 1))
            BY <4>4, <5>2, <5>3 DEF Shaped
          <5>5. n \in Int
            <6>1. o.dims \in Seq(Int)
              BY <1>1 DEF Insts
            <6>2. QED
              BY <5>2, <5>3, <6>1
          <5>6. k \in Int /\ z \in 0..(n - 1)
            BY <4>2, <5>4, <5>5
          <5>7. k = z
            BY <1>1, <4>2, <4>4, <5>2, <5>3, <5>6, OwnPlace
          <5>8. QED
            BY <4>1, <5>7
        <4>5. QED
          BY <4>3, <4>4
      <3>5. QED
        BY <1>3, <1>6, <2>1, <2>2, <2>5, <3>2, <3>4
    <2>6. QED
      BY <2>4, <2>5
  <1>11. Holds(q, b)
    <2>1. SUFFICES ASSUME Len(o.dims) <= 1
                   PROVE  /\ \A k \in DOMAIN q.want :
                               Place(q, k) \in DOMAIN q.elems /\ b[q.elems[Place(q, k)]].v = q.want[k]
                          /\ q.cls # "Array" => DOMAIN q.elems = DOMAIN q.want
      BY <1>1 DEF Holds
    <2>2. DOMAIN q.want = DOMAIN o.want
      BY <1>6, <2>1
    <2>3. o.cls # "Array" => DOMAIN o.elems = DOMAIN o.want
      BY <2>1 DEF Holds
    <2>4. QED
      BY <1>1, <1>5, <1>10, <2>1, <2>2, <2>3
  <1>12. QED
    BY <1>4, <1>8, <1>9, <1>11

\* Instances g are h, but for the history of one
Notes(h, g) ==
    g = h \/ \E i \in DOMAIN h, q \in Insts :
       /\ g = [h EXCEPT ![i] = q] /\ q.refcount = h[i].refcount
       /\ (q.live <=> h[i].live) /\ Apart(q) /\ Owned(q) = Owned(h[i])

\* A reference is written through: what the pending ones, and the history,
\* say of the containers stays so.
LEMMA WriteRest ==
    ASSUME NEW h \in Seq(Insts), NEW c, NEW P, NEW F, Tidy(h, c), Rest(h, c, P, F),
           NEW p \in Pendings, Pends(h, c, p), NEW y, NEW w \in Nat, NEW b,
           Differs(c, b, p.cell, y, w)
    PROVE  Rest(Written(h, p, w), b, P, F) /\ Notes(h, Written(h, p, w))
  <1>0. PICK g : g = Written(h, p, w)
    OBVIOUS
  <1>1. /\ DOMAIN b = DOMAIN c /\ p.cell \in DOMAIN c
        /\ \A k \in DOMAIN c : k # p.cell => b[k] = c[k]
        /\ b[p.cell].v = w /\ b[p.cell].live /\ c[p.cell].live
    BY DEF Differs
  <1>2. \A k \in DOMAIN c : b[k].live <=> c[k].live
    BY <1>1
  <1>3. PICK i, o : i = p.inst /\ o = h[i]
    OBVIOUS
  <1>4. i \in DOMAIN h /\ \A j \in DOMAIN h : p.cell \in Owned(h[j]) => j = i /\ At(h[j], p)
    BY <1>3 DEF Pends
  <1>5. o \in Insts
    BY <1>3, <1>4, ElementOfSeq
  <1>6. CASE ~At(o, p)
    <2>1. g = h
      BY <1>0, <1>3, <1>6 DEF Written, At
    <2>2. \A j \in DOMAIN h : p.cell \notin Owned(h[j])
      BY <1>3, <1>4, <1>6
    <2>3. Contents(h, b)
      <3>1. SUFFICES ASSUME NEW j \in DOMAIN h, h[j].live PROVE Shaped(h[j]) /\ Holds(h[j], b)
        BY DEF Contents
      <3>2. PICK a : a = h[j]
        OBVIOUS
      <3>3. Shaped(a) /\ Holds(a, c)
        BY <3>1, <3>2 DEF Rest, Contents
      <3>4. \A k \in Owned(a) : b[k] = c[k]
        <4>1. \A k \in Owned(a) : k \in DOMAIN c
          BY <3>1, <3>2 DEF Tidy
        <4>2. QED
          BY <1>1, <2>2, <3>1, <3>2, <4>1
      <3>5. Holds(a, b)
        BY <3>3, <3>4, HoldsSame
      <3>6. QED
        BY <3>2, <3>3, <3>5
    <2>4. F # {} \/ Complete(h, b)
      BY <1>1, <1>2 DEF Rest, Complete
    <2>5. \A n \in DOMAIN P : Pends(h, b, P[n]) /\ P[n].cell \in DOMAIN c
      BY <1>1 DEF Rest, Pends
    <2>6. Rest(h, b, P, F)
      BY <1>2, <2>3, <2>4, <2>5 DEF Rest
    <2>7. QED
      BY <1>0, <2>1, <2>6 DEF Notes
  <1>7. CASE At(o, p)
    <2>1. p.cell \in Owned(o) /\ p.key \in DOMAIN o.elems /\ o.elems[p.key] = p.cell
      BY <1>7 DEF At, Owned, Range
    <2>2. o.live /\ Apart(o) /\ \A k \in Owned(o) : k \in DOMAIN c
      BY <1>3, <1>4, <2>1 DEF Tidy
    <2>3. Shaped(o) /\ Holds(o, c) /\ Numbered(o, p)
      BY <1>3, <1>4, <1>7, <2>2 DEF Rest, Contents, Pends
    <2>4. PICK q : q = IF p.block = -1 THEN o ELSE [o EXCEPT !.want = Put(o.want, p.block, w)]
      OBVIOUS
    <2>5. Noted(o, p.block, w, q)
      <3>1. CASE p.block = -1
        BY <1>5, <2>4, <3>1 DEF Noted
      <3>2. CASE p.block # -1
        <4>1. o.want \in Partial(Nat) /\ p.block \in Marks
          BY <1>5 DEF Insts, Pendings
        <4>2. PICK f : f = Put(o.want, p.block, w)
          OBVIOUS
        <4>3. f \in Partial(Nat)
          BY <4>1, <4>2, PutTypes
        <4>4. q = [o EXCEPT !.want = f]
          BY <2>4, <3>2, <4>2
        <4>5. q \in Insts
          BY <1>5, <4>3, <4>4 DEF Insts
        <4>6. /\ q.cls = o.cls /\ q.hidden = o.hidden /\ q.dims = o.dims /\ q.refcount = o.refcount
              /\ q.elems = o.elems /\ q.live = o.live /\ q.want = f
          BY <1>5, <4>4 DEF Insts
        <4>7. QED
          BY <1>5, <3>2, <4>2, <4>5, <4>6 DEF Noted
      <3>3. QED
        BY <3>1, <3>2
    <2>6. /\ Shaped(q) /\ Holds(q, b) /\ Apart(q) /\ Owned(q) = Owned(o)
          /\ \A r : At(q, r) <=> At(o, r)
          /\ \A r : Numbered(o, r) => Numbered(q, r)
      BY <2>2, <2>3, <2>5, <1>7, NotedHolds
    <2>7. q \in Insts /\ q.refcount = o.refcount /\ (q.live <=> o.live) /\ q.cls = o.cls
      BY <2>5 DEF Noted
    <2>8. g = [h EXCEPT ![i] = q]
      <3>1. CASE p.block = -1
        <4>1. g = h /\ q = h[i]
          BY <1>0, <1>3, <2>4, <3>1 DEF Written
        <4>2. QED
          BY <1>4, <4>1
      <3>2. CASE p.block # -1
        <4>1. g = [h EXCEPT ![i].want = Put(@, p.block, w)]
          BY <1>0, <1>3, <2>1, <3>2 DEF Written
        <4>2. q = [h[i] EXCEPT !.want = Put(h[i].want, p.block, w)]
          BY <1>3, <2>4, <3>2
        <4>3. QED
          BY <4>1, <4>2
      <3>3. QED
        BY <3>1, <3>2
    <2>9. Changes(h, c, i, q, b, F, F)
      <3>1. \A k \in DOMAIN c : b[k] = c[k] \/ \A j \in DOMAIN h : j # i => k \notin Owned(h[j])
        BY <1>1, <1>4
      <3>2. h[i].live /\ q.live /\ q.cls = h[i].cls /\ Owned(q) = Owned(h[i])
        BY <1>3, <2>2, <2>6, <2>7
      <3>3. QED
        BY <1>1, <1>2, <1>4, <2>6, <3>1, <3>2 DEF Changes
    <2>10. ASSUME NEW n \in DOMAIN P, Pends(h, c, P[n]), P[n].inst = i
           PROVE  Follows(h[i], q, b, F, P[n])
      <3>1. PICK r : r = P[n]
        OBVIOUS
      <3>2. r.cell \in Owned(o) => At(o, r)
        BY <1>3, <1>4, <2>10, <3>1 DEF Pends
      <3>3. At(o, r) => Numbered(o, r)
        BY <1>3, <2>2, <2>10, <3>1 DEF Pends
      <3>4. QED
        BY <1>3, <2>6, <3>1, <3>2, <3>3 DEF Follows
    <2>11. Rest([h EXCEPT ![i] = q], b, P, F)
      BY <2>9, <2>10, ChangeRest
    <2>12. QED
      BY <1>0, <1>3, <1>4, <2>6, <2>7, <2>8, <2>11 DEF Notes
  <1>8. QED
    BY <1>6, <1>7

\* A value is written through a reference.
LEMMA ElementWriteStep ==
    ASSUME NativeInv, NEW y \in Roots, ElementWrite(y)
    PROVE  NativeInv'
  <1>1. PICK p, w, g, u : /\ p = pending[Len(pending)] /\ w = locals[y] /\ g = jsinstRef(heap, w)
                          /\ u = cells[p.cell].v
    OBVIOUS
  <1>2. PICK m : m = varClear(g, cells, <<u>>)
    OBVIOUS
  <1>3. CASE ~cells[p.cell].live \/ ~m.c[p.cell].live
    <2>1. Fault
      BY <1>1, <1>2, <1>3 DEF ElementWrite
    <2>2. QED
      BY <2>1, FaultStep
  <1>4. CASE cells[p.cell].live /\ m.c[p.cell].live
    <2>1. /\ heap' = Written(m.h, p, w) /\ cells' = [m.c EXCEPT ![p.cell].v = w]
          /\ pending' = Front(pending) /\ locals' = locals /\ flaws' = flaws
      BY <1>1, <1>2, <1>4 DEF ElementWrite
    <2>2. pending # <<>>
      BY DEF ElementWrite
    <2>3. /\ w \in Nat /\ w \in 0..Len(g)
          /\ Sound(locals, g, cells, <<w>>)
          /\ Rest(g, cells, pending, flaws)
          /\ g \in Seq(Insts) /\ DOMAIN g = DOMAIN heap /\ Tidy(g, cells)
      BY <1>1, Counting
    <2>4. p \in Pendings /\ Len(pending) \in DOMAIN pending
      BY <1>1, <2>2, <2>3, RestFront
    <2>5. Pends(g, cells, p)
      BY <1>1, <2>3, <2>4 DEF Rest
    <2>6. PICK e : e = p.cell
      OBVIOUS
    <2>7. e \in DOMAIN cells
      BY <2>5, <2>6 DEF Pends
    <2>8. /\ cells \in Seq(CellSet) /\ u \in 0..Len(g) /\ cells[e] \in CellSet
      <3>1. Typed(locals, g, cells, <<w>>)
        BY <2>3 DEF Sound
      <3>2. cells \in Seq(CellSet) /\ u \in 0..Len(g)
        BY <1>1, <2>6, <2>7, <3>1 DEF Typed
      <3>3. QED
        BY <2>7, <3>2, ElementOfSeq
    <2>9. PICK b : b = [cells EXCEPT ![e] = [v |-> w, live |-> TRUE]]
      OBVIOUS
    <2>10. b \in Seq(CellSet) /\ Differs(cells, b, e, u, w)
      <3>1. [v |-> w, live |-> TRUE] \in CellSet
        BY <2>3 DEF CellSet
      <3>2. b \in Seq(CellSet)
        BY <2>7, <2>8, <2>9, <3>1, ExceptSeq
      <3>3. cells[e] = [v |-> u, live |-> TRUE]
        <4>1. PICK r : r = cells[e]
          OBVIOUS
        <4>2. r \in CellSet /\ r.live /\ r.v = u
          BY <1>1, <1>4, <2>6, <2>8, <4>1
        <4>3. r = [v |-> r.v, live |-> r.live] /\ r.live \in BOOLEAN
          BY <4>2 DEF CellSet
        <4>4. r.live = TRUE
          BY <4>2, <4>3
        <4>5. r = [v |-> u, live |-> TRUE]
          BY <4>2, <4>3, <4>4
        <4>6. QED
          BY <4>1, <4>5
      <3>4. QED
        BY <2>7, <2>9, <3>2, <3>3 DEF Differs
    <2>11. Sound(locals, g, b, <<u>>)
      <3>1. PICK L, c : L = locals /\ c = cells
        OBVIOUS
      <3>2. /\ w \in 0..Len(g) /\ Sound(L, g, c, <<w>>) /\ e \in DOMAIN c /\ Differs(c, b, e, u, w)
            /\ b \in Seq(CellSet) /\ u \in 0..Len(g)
        BY <2>3, <2>7, <2>8, <2>10, <3>1
      <3>3. Sound(L, g, b, <<u>>)
        BY <3>2, CellSwap
      <3>4. QED
        BY <3>1, <3>3
    <2>12. PICK z : z = varClear(g, b, <<u>>)
      OBVIOUS
    <2>13. Sound(locals, z.h, z.c, <<>>) /\ Kept(g, b, z.h, z.c)
      BY <2>11, <2>12, VarClearSound
    <2>14. m.h = z.h /\ Differs(m.c, z.c, e, u, w)
      <3>1. PICK c, vs : c = cells /\ vs = <<u>>
        OBVIOUS
      <3>2. /\ c \in Seq(CellSet) /\ Len(vs) \in Nat /\ Differs(c, b, e, u, w)
            /\ m = varClear(g, c, vs) /\ z = varClear(g, b, vs) /\ m.c[e].live
        BY <1>2, <1>4, <2>6, <2>8, <2>10, <2>12, <3>1
      <3>3. QED
        BY <2>3, <2>10, <3>2, ShadowRun
    <2>15. PICK k, d, a : k = z.h /\ d = m.c /\ a = z.c
      OBVIOUS
    <2>16. Differs(d, a, e, u, w) /\ Sound(locals, k, a, <<>>) /\ Kept(g, b, k, a) /\ m.h = k
      BY <2>13, <2>14, <2>15
    <2>17. /\ DOMAIN d = DOMAIN a /\ e \in DOMAIN a
           /\ \A j \in DOMAIN a : j # e => d[j] = a[j]
           /\ d[e] = [v |-> u, live |-> TRUE] /\ a[e] = [v |-> w, live |-> TRUE]
      BY <2>16 DEF Differs
    <2>18. Tidy(k, a) /\ k \in Seq(Insts) /\ a \in Seq(CellSet)
      BY <2>16 DEF Sound, Typed
    <2>19. Tidy(k, d)
      <3>1. \A j \in DOMAIN a : j \in DOMAIN d /\ (a[j].live => d[j].live)
        BY <2>17
      <3>2. QED
        BY <2>18, <3>1 DEF Tidy
    <2>20. Kept(g, cells, k, d)
      <3>1. /\ DOMAIN b = DOMAIN cells /\ \A j \in DOMAIN b : j # e => b[j] = cells[j]
            /\ cells[e] = [v |-> u, live |-> TRUE]
        BY <2>10 DEF Differs
      <3>2. \A j \in DOMAIN cells : d[j] = cells[j] \/ ~d[j].live
        <4>1. \A j \in DOMAIN b : a[j] = b[j] \/ ~a[j].live
          BY <2>16 DEF Kept
        <4>2. DOMAIN a = DOMAIN b
          BY <2>16 DEF Kept
        <4>3. QED
          BY <2>17, <3>1, <4>1, <4>2
      <3>3. ASSUME NEW i \in DOMAIN g, ~k[i].live, g[i].live, NEW j \in Owned(g[i])
            PROVE  ~d[j].live
        <4>1. ~a[j].live
          BY <2>16, <3>3 DEF Kept
        <4>2. j \in DOMAIN cells
          BY <2>3, <3>3 DEF Tidy
        <4>3. DOMAIN a = DOMAIN b
          BY <2>16 DEF Kept
        <4>4. QED
          BY <2>17, <3>1, <4>1, <4>2, <4>3
      <3>4. DOMAIN k = DOMAIN g /\ DOMAIN d = DOMAIN cells
        BY <2>16, <2>17, <3>1 DEF Kept
      <3>5. \A i \in DOMAIN g :
               /\ k[i].cls = g[i].cls
               /\ k[i].live => g[i].live /\ k[i] = [g[i] EXCEPT !.refcount = k[i].refcount]
        BY <2>16 DEF Kept
      <3>6. QED
        BY <3>2, <3>3, <3>4, <3>5 DEF Kept
    <2>21. Rest(k, d, pending, flaws)
      BY <2>3, <2>19, <2>20, TidyRest
    <2>22. Pends(k, d, p)
      BY <1>1, <2>4, <2>21 DEF Rest
    <2>23. PICK f : f = Written(k, p, w)
      OBVIOUS
    <2>24. Rest(f, a, pending, flaws) /\ Notes(k, f)
      <3>1. Differs(d, a, p.cell, u, w)
        BY <2>6, <2>16
      <3>2. QED
        BY <2>3, <2>4, <2>18, <2>19, <2>21, <2>22, <2>23, <3>1, WriteRest
    <2>25. Sound(locals, f, a, <<>>)
      <3>1. CASE f = k
        BY <2>16, <3>1
      <3>2. CASE f # k
        <4>1. PICK i \in DOMAIN k, q \in Insts :
                 /\ f = [k EXCEPT ![i] = q] /\ q.refcount = k[i].refcount
                 /\ (q.live <=> k[i].live) /\ Apart(q) /\ Owned(q) = Owned(k[i])
          BY <2>24, <3>2 DEF Notes
        <4>2. PICK L, us : L = locals /\ us = <<>>
          OBVIOUS
        <4>3. Sound(L, k, a, us) /\ Owned(q) \in SUBSET Owned(k[i])
          BY <2>16, <4>1, <4>2
        <4>4. Sound(L, [k EXCEPT ![i] = q], a, us)
          BY <4>1, <4>3, ReplaceSound
        <4>5. QED
          BY <4>1, <4>2, <4>4
      <3>3. QED
        BY <3>1, <3>2
    <2>26. cells' = a
      <3>1. a = [j \in DOMAIN a |-> a[j]]
        BY <2>18
      <3>2. cells' = [d EXCEPT ![e] = [d[e] EXCEPT !.v = w]]
        BY <2>1, <2>6, <2>15
      <3>3. [d[e] EXCEPT !.v = w] = a[e]
        <4>1. PICK r : r = d[e]
          OBVIOUS
        <4>2. r = [v |-> u, live |-> TRUE]
          BY <2>17, <4>1
        <4>3. [r EXCEPT !.v = w] = [v |-> w, live |-> TRUE]
          <5>1. r \in CellSet /\ r.live = TRUE /\ w \in Nat
            <6>1. u \in Nat
              BY <2>3, <2>8
            <6>2. QED
              BY <2>3, <4>2, <6>1 DEF CellSet
          <5>2. PICK q : q = [r EXCEPT !.v = w]
            OBVIOUS
          <5>3. q \in CellSet /\ q.v = w /\ q.live = r.live
            BY <5>1, <5>2 DEF CellSet
          <5>4. q = [v |-> q.v, live |-> q.live]
            BY <5>3 DEF CellSet
          <5>5. QED
            BY <5>1, <5>2, <5>3, <5>4
        <4>4. QED
          BY <2>17, <4>1, <4>3
      <3>4. PICK x : x = a[e]
        OBVIOUS
      <3>5. cells' = [d EXCEPT ![e] = x]
        BY <3>2, <3>3, <3>4
      <3>6. cells' = [j \in DOMAIN d |-> IF j = e THEN x ELSE d[j]]
        BY <3>5
      <3>7. cells' = [j \in DOMAIN a |-> a[j]]
        BY <2>17, <3>4, <3>6
      <3>8. QED
        BY <3>1, <3>7
    <2>27. heap' = f
      BY <2>1, <2>15, <2>16, <2>23
    <2>28. Rest(f, a, Front(pending), flaws)
      BY <2>2, <2>24, RestFront
    <2>29. QED
      BY <2>1, <2>25, <2>26, <2>27, <2>28 DEF NativeInv
  <1>5. QED
    BY <1>3, <1>4

\* An array of n cells, the first ones, that hold no instance
Filled(q, n) ==
    /\ q \in Insts /\ q.cls = "Array" /\ q.live /\ q.refcount = 2 /\ q.hidden = {}
    /\ Len(q.dims) = 1 /\ q.dims[1] = n
    /\ \A k \in 0..(n - 1) : Place(q, k) \in DOMAIN q.elems /\ q.elems[Place(q, k)] = k + 1
    /\ \A e \in DOMAIN q.elems : \E k \in 0..(n - 1) : e = Place(q, k)
    /\ q.want = [k \in 0..(n - 1) |-> 0]

\* The multiples of a number have their factor back.
LEMMA Quotient ==
    ASSUME NEW n \in Nat \ {0}, NEW k \in Nat
    PROVE  (k * n) \div n = k
  OBVIOUS

\* The array of the arguments.
LEMMA HelperFilled ==
    ASSUME NEW n \in Nat \ {0}, NEW o, o = array_arrayX(Blank("Array"), <<n>>).o,
           NEW q, q = [HelperSet(o, n) EXCEPT !.refcount = 2, !.live = TRUE]
    PROVE  Filled(q, n)
  <1>1. o = Made(Blank("Array"), <<n>>)
    <2>1. \A k \in DOMAIN <<n>> : ~(<<n>>[k] < 0)
      OBVIOUS
    <2>2. {k \in DOMAIN <<n>> : <<n>>[k] < 0} = {}
      BY <2>1
    <2>3. PICK d : d = <<n>>
      OBVIOUS
    <2>4. {k \in DOMAIN d : d[k] < 0} = {}
      BY <2>2, <2>3
    <2>5. array_arrayX(Blank("Array"), d).o = Made(Blank("Array"), d)
      BY <2>4 DEF array_arrayX
    <2>6. QED
      BY <2>3, <2>5
  <1>2. PICK d : d = <<n>>
    OBVIOUS
  <1>3. d \in Seq(Int) /\ Len(d) = 1 /\ d[1] = n
    BY <1>2
  <1>4. "Array" \in Classes
    BY DEF Classes
  <1>5. PICK z : z = Blank("Array")
    OBVIOUS
  <1>6. z \in Insts /\ z.cls = "Array"
    BY <1>4, <1>5, BlankTypes
  <1>7. Fresh(o) /\ o.cls = "Array"
    <2>1. Fresh(Made(z, d)) /\ Made(z, d).cls = z.cls
      BY <1>3, <1>6, MadeFields
    <2>2. QED
      BY <1>1, <1>2, <1>5, <1>6, <2>1
  <1>8. o \in Insts /\ o.hidden = {} /\ o.dims = d
    <2>1. o.dims = d
      BY <1>1, <1>2, <1>5 DEF Made, Blank
    <2>2. QED
      BY <1>7, <2>1 DEF Fresh
  <1>9. PICK D, E, W : /\ D = {Element(o.dims, <<k>>) : k \in 0..(n - 1)}
                       /\ E = [e \in D |-> (e \div n) + 1]
                       /\ W = [k \in 0..(n - 1) |-> 0]
    OBVIOUS
  <1>10. q = [[o EXCEPT !.want = W, !.elems = E] EXCEPT !.refcount = 2, !.live = TRUE]
    BY <1>9 DEF HelperSet, Plain
  <1>11. \A k \in 0..(n - 1) : Element(o.dims, <<k>>) = k * n /\ k * n \in Int
    <2>1. SUFFICES ASSUME NEW k \in 0..(n - 1) PROVE Element(d, <<k>>) = k * n /\ k * n \in Int
      BY <1>8
    <2>2. Element(d, <<k>>) = k * d[1]
      BY <1>3, ElementOne
    <2>3. QED
      BY <1>3, <2>2
  <1>12. D \in SUBSET Int
    BY <1>9, <1>11
  <1>13. \A k \in 0..(n - 1) : k * n \in D /\ E[k * n] = k + 1
    <2>1. SUFFICES ASSUME NEW k \in 0..(n - 1) PROVE k * n \in D /\ E[k * n] = k + 1
      OBVIOUS
    <2>2. PICK e : e = k * n
      OBVIOUS
    <2>3. e \in D /\ E[e] = (e \div n) + 1
      BY <1>9, <1>11, <2>2
    <2>4. e \div n = k
      BY <2>2, Quotient
    <2>5. QED
      BY <2>2, <2>3, <2>4
  <1>14. \A e \in D : \E k \in 0..(n - 1) : e = k * n
    BY <1>9, <1>11
  <1>15. E \in Partial(Nat)
    <2>1. D \in SUBSET Marks
      BY <1>12 DEF Marks
    <2>2. \A e \in D : E[e] \in Nat
      BY <1>13, <1>14
    <2>3. E \in [D -> Nat]
      BY <1>9, <2>2
    <2>4. QED
      BY <2>1, <2>3 DEF Partial
  <1>16. W \in Partial(Nat)
    <2>1. 0..(n - 1) \in SUBSET Marks
      BY DEF Marks
    <2>2. W \in [0..(n - 1) -> Nat]
      BY <1>9
    <2>3. QED
      BY <2>1, <2>2 DEF Partial
  <1>17. /\ q \in Insts /\ q.cls = o.cls /\ q.live /\ q.refcount = 2 /\ q.hidden = o.hidden
         /\ q.dims = o.dims /\ q.elems = E /\ q.want = W
    <2>1. PICK m : m = [o EXCEPT !.want = W, !.elems = E]
      OBVIOUS
    <2>2. /\ m \in Insts /\ m.cls = o.cls /\ m.hidden = o.hidden /\ m.dims = o.dims
          /\ m.elems = E /\ m.want = W
      BY <1>8, <1>15, <1>16, <2>1 DEF Insts
    <2>3. q = [m EXCEPT !.refcount = 2, !.live = TRUE]
      BY <1>10, <2>1
    <2>4. /\ q \in Insts /\ q.live /\ q.elems = m.elems /\ q.hidden = m.hidden
          /\ q.want = m.want /\ q.refcount = 2 /\ q.cls = m.cls /\ q.dims = m.dims
      BY <2>2, <2>3, TwoReferences
    <2>5. QED
      BY <2>2, <2>4
  <1>18. \A k \in 0..(n - 1) : Place(q, k) = k * n
    BY <1>7, <1>11, <1>17 DEF Place
  <1>19. /\ \A k \in 0..(n - 1) : Place(q, k) \in DOMAIN q.elems /\ q.elems[Place(q, k)] = k + 1
         /\ \A e \in DOMAIN q.elems : \E k \in 0..(n - 1) : e = Place(q, k)
    <2>1. DOMAIN q.elems = D
      BY <1>9, <1>17
    <2>2. QED
      BY <1>13, <1>14, <1>17, <1>18, <2>1
  <1>20. Len(q.dims) = 1 /\ q.dims[1] = n
    BY <1>3, <1>8, <1>17
  <1>21. QED
    BY <1>7, <1>8, <1>9, <1>17, <1>19, <1>20 DEF Filled

\* Its places are apart, and what it holds is what it was given.
LEMMA FilledFields ==
    ASSUME NEW n \in Nat \ {0}, NEW q, Filled(q, n), NEW c,
           c = [k \in 1..n |-> [v |-> Plain, live |-> TRUE]]
    PROVE  /\ q \in Insts /\ q.live /\ q.refcount = 2
           /\ Apart(q) /\ Owned(q) = 1..n /\ Shaped(q) /\ Holds(q, c)
           /\ c \in Seq(CellSet) /\ DOMAIN c = 1..n /\ \A k \in 1..n : c[k].v = 0 /\ c[k].live
  <1>1. /\ q \in Insts /\ q.cls = "Array" /\ q.live /\ q.refcount = 2 /\ q.hidden = {}
        /\ Len(q.dims) = 1 /\ q.dims[1] = n
        /\ \A k \in 0..(n - 1) : Place(q, k) \in DOMAIN q.elems /\ q.elems[Place(q, k)] = k + 1
        /\ \A e \in DOMAIN q.elems : \E k \in 0..(n - 1) : e = Place(q, k)
        /\ q.want = [k \in 0..(n - 1) |-> 0]
    BY DEF Filled
  <1>2. DOMAIN c = 1..n /\ \A k \in 1..n : c[k].v = 0 /\ c[k].live /\ c[k] \in CellSet
    BY DEF Plain, CellSet
  <1>3. c \in Seq(CellSet)
    <2>1. c \in [1..n -> CellSet]
      BY <1>2
    <2>2. n \in Nat
      OBVIOUS
    <2>3. QED
      BY <2>1, <2>2, SeqDef
  <1>4. PICK f : f = q.elems
    OBVIOUS
  <1>5. Range(f) = 1..n
    <2>1. ASSUME NEW e \in 1..n PROVE e \in Range(f)
      <3>1. e - 1 \in 0..(n - 1) /\ (e - 1) + 1 = e
        OBVIOUS
      <3>2. PICK a : a = Place(q, e - 1)
        OBVIOUS
      <3>3. a \in DOMAIN f /\ f[a] = e
        BY <1>1, <1>4, <3>1, <3>2
      <3>4. QED
        BY <3>3 DEF Range
    <2>2. ASSUME NEW a \in DOMAIN f PROVE f[a] \in 1..n
      <3>1. PICK k \in 0..(n - 1) : a = Place(q, k)
        BY <1>1, <1>4
      <3>2. f[a] = k + 1
        BY <1>1, <1>4, <3>1
      <3>3. QED
        BY <3>2
    <2>3. QED
      BY <2>1, <2>2 DEF Range
  <1>6. Owned(q) = 1..n
    BY <1>1, <1>4, <1>5 DEF Owned
  <1>7. Apart(q)
    <2>1. ASSUME NEW a \in DOMAIN f, NEW d \in DOMAIN f, f[a] = f[d] PROVE a = d
      <3>1. PICK j \in 0..(n - 1) : a = Place(q, j)
        BY <1>1, <1>4
      <3>2. PICK k \in 0..(n - 1) : d = Place(q, k)
        BY <1>1, <1>4
      <3>3. f[a] = j + 1 /\ f[d] = k + 1
        BY <1>1, <1>4, <3>1, <3>2
      <3>4. j + 1 = k + 1 /\ j \in Int /\ k \in Int
        <4>1. f[a] = f[d]
          BY <2>1
        <4>2. j + 1 = k + 1
          BY <3>3, <4>1, Zenon
        <4>3. QED
          BY <4>2
      <3>5. QED
        <4>1. j = k
          BY <3>4
        <4>2. QED
          BY <3>1, <3>2, <4>1
    <2>2. QED
      BY <1>1, <1>4, <2>1 DEF Apart
  <1>8. DOMAIN q.want = 0..(n - 1) /\ \A k \in 0..(n - 1) : q.want[k] = 0
    BY <1>1
  <1>9. Shaped(q)
    BY <1>1, <1>8 DEF Shaped
  <1>10. \A k \in DOMAIN q.want : Place(q, k) \in DOMAIN q.elems /\ c[q.elems[Place(q, k)]].v = q.want[k]
    <2>1. SUFFICES ASSUME NEW k \in 0..(n - 1)
                   PROVE  Place(q, k) \in DOMAIN q.elems /\ c[q.elems[Place(q, k)]].v = 0
      BY <1>8
    <2>2. PICK a : a = Place(q, k)
      OBVIOUS
    <2>3. a \in DOMAIN q.elems /\ q.elems[a] = k + 1
      BY <1>1, <2>2
    <2>4. k + 1 \in 1..n
      OBVIOUS
    <2>5. QED
      BY <1>2, <2>2, <2>3, <2>4
  <1>11. Holds(q, c)
    BY <1>1, <1>10 DEF Holds
  <1>12. QED
    BY <1>1, <1>2, <1>3, <1>6, <1>7, <1>9, <1>11

\* The host makes the array of the arguments.
LEMMA ScriptStep ==
    ASSUME NativeInv, NEW x \in Vars, NEW n \in Nat \ {0}, ScriptArguments(x, n)
    PROVE  NativeInv'
  <1>1. PICK o, q, c : /\ o = array_arrayX(Blank("Array"), <<n>>).o
                       /\ q = [HelperSet(o, n) EXCEPT !.refcount = 2, !.live = TRUE]
                       /\ c = [k \in 1..n |-> [v |-> Plain, live |-> TRUE]]
    OBVIOUS
  <1>2. /\ heap = <<>> /\ cells = <<>> /\ heap' = <<q>> /\ cells' = c
        /\ locals' = [locals EXCEPT ![x] = 1, ![Below] = 1]
        /\ pending' = pending /\ flaws' = flaws
    BY <1>1 DEF ScriptArguments
  <1>3. Filled(q, n)
    BY <1>1, HelperFilled
  <1>4. /\ q \in Insts /\ q.live /\ q.refcount = 2
        /\ Apart(q) /\ Owned(q) = 1..n /\ Shaped(q) /\ Holds(q, c)
        /\ c \in Seq(CellSet) /\ DOMAIN c = 1..n /\ \A k \in 1..n : c[k].v = 0 /\ c[k].live
    BY <1>1, <1>3, FilledFields
  <1>5. PICK h, L : h = <<q>> /\ L = [locals EXCEPT ![x] = 1, ![Below] = 1]
    OBVIOUS
  <1>6. h \in Seq(Insts) /\ Len(h) = 1 /\ DOMAIN h = {1} /\ h[1] = q
    BY <1>4, <1>5
  <1>7. locals \in [Roots -> 0..0] /\ DOMAIN cells = {}
    <2>1. locals \in [Roots -> 0..Len(heap)]
      BY StateTypes
    <2>2. QED
      BY <1>2, <2>1
  <1>8. /\ L \in [Roots -> 0..1] /\ L[x] = 1 /\ L[Below] = 1
        /\ \A y \in Roots : y # x /\ y # Below => L[y] = 0
    <2>1. x \in Roots /\ Below \in Roots
      BY DEF Roots
    <2>2. QED
      BY <1>5, <1>7, <2>1
  <1>9. Typed(L, h, c, <<>>)
    <2>1. \A k \in DOMAIN c : c[k].v \in 0..1
      BY <1>4
    <2>2. QED
      BY <1>4, <1>6, <1>8, <2>1 DEF Typed
  <1>10. Refs(L, c, <<>>, 1) = 2
    <2>1. InVars(L, 1) = {x, Below}
      <3>1. x \in Roots /\ Below \in Roots
        BY DEF Roots
      <3>2. QED
        BY <1>8, <3>1 DEF InVars
    <2>2. InCells(c, 1) = {}
      BY <1>4 DEF InCells
    <2>3. Cardinality(InList(<<>>, 1)) = 0
      BY CountOne
    <2>4. Cardinality({x, Below}) = 2
      <3>1. IsFiniteSet({x}) /\ Cardinality({x}) = 1
        BY FS_Singleton
      <3>2. Below \notin {x} /\ {x} \cup {Below} = {x, Below}
        BY RootsFinite
      <3>3. Cardinality({x} \cup {Below}) = Cardinality({x}) + 1
        BY <3>1, <3>2, FS_AddElement
      <3>4. QED
        BY <3>1, <3>2, <3>3
    <2>5. Cardinality(InCells(c, 1)) = 0
      BY <2>2, FS_EmptySet
    <2>6. QED
      <3>1. PICK a, b, d : /\ a = Cardinality(InVars(L, 1)) /\ b = Cardinality(InCells(c, 1))
                           /\ d = Cardinality(InList(<<>>, 1))
        OBVIOUS
      <3>2. a = 2 /\ b = 0 /\ d = 0
        BY <2>1, <2>3, <2>4, <2>5, <3>1
      <3>3. Refs(L, c, <<>>, 1) = a + b + d
        BY <3>1 DEF Refs
      <3>4. QED
        BY <3>2, <3>3
  <1>11. Counted(L, h, c, <<>>)
    BY <1>4, <1>6, <1>10 DEF Counted
  <1>12. Tidy(h, c)
    BY <1>4, <1>6 DEF Tidy
  <1>13. Sound(L, h, c, <<>>)
    BY <1>9, <1>11, <1>12 DEF Sound
  <1>14. pending \in Seq(Pendings) /\ \A k \in DOMAIN pending : FALSE
    <2>1. Rest(heap, cells, pending, flaws)
      BY DEF NativeInv
    <2>2. \A k \in DOMAIN pending : pending[k].cell \in DOMAIN cells
      BY <2>1 DEF Rest, Pends
    <2>3. QED
      BY <1>7, <2>1, <2>2 DEF Rest
  <1>15. Contents(h, c)
    BY <1>4, <1>6 DEF Contents
  <1>16. Complete(h, c)
    BY <1>4, <1>6 DEF Complete
  <1>17. Rest(h, c, pending, flaws)
    BY <1>14, <1>15, <1>16 DEF Rest
  <1>18. QED
    BY <1>2, <1>5, <1>13, <1>17 DEF NativeInv

\* Before the first statement, nothing is there.
LEMMA InitInv ==
    Init => NativeInv
  <1>1. SUFFICES ASSUME Init PROVE NativeInv
    OBVIOUS
  <1>2. /\ locals = [x \in Roots |-> 0] /\ heap = <<>> /\ cells = <<>> /\ pending = <<>>
    BY <1>1 DEF Init, Plain
  <1>3. Typed(locals, heap, cells, <<>>)
    <2>1. heap \in Seq(Insts) /\ cells \in Seq(CellSet) /\ Len(heap) = 0
      BY <1>2
    <2>2. locals \in [Roots -> 0..Len(heap)]
      BY <1>2, <2>1
    <2>3. <<>> \in Seq(0..Len(heap)) /\ \A k \in DOMAIN cells : cells[k].v \in 0..Len(heap)
      BY <1>2
    <2>4. QED
      BY <2>1, <2>2, <2>3 DEF Typed
  <1>4. DOMAIN heap = {} /\ DOMAIN cells = {} /\ DOMAIN pending = {}
    BY <1>2
  <1>5. Counted(locals, heap, cells, <<>>) /\ Tidy(heap, cells)
    BY <1>4 DEF Counted, Tidy
  <1>6. pending \in Seq(Pendings)
    BY <1>2
  <1>7. Rest(heap, cells, pending, flaws)
    BY <1>4, <1>6 DEF Rest, Complete, Contents
  <1>8. QED
    BY <1>3, <1>5, <1>7 DEF NativeInv, Sound

\* A step of a vector, a table or another instance.
LEMMA InstanceStep ==
    ASSUME NativeInv, NEW x \in Vars, IsInst(locals[x]), OnInstance(x)
    PROVE  NativeInv'
  <1>0. \A z \in Vars : z \in Roots
    BY DEF Roots
  <1> USE <1>0
  <1>1. CASE Is(x, "Vector") /\ OnVector(x)
    <2>1. CASE \E y \in Vars : vector_add(x, y)
      BY <2>1, AddStep
    <2>2. CASE \E k \in Places : vector_elementat(x, k)
      BY <2>2, ElementAtStep
    <2>3. CASE \E k \in Places, y \in Vars : vector_setelementat(x, k, y)
      BY <2>3, SetElementStep
    <2>4. CASE vector_clear(x)
      BY <2>4, VectorClearStep
    <2>5. QED
      BY <1>1, <2>1, <2>2, <2>3, <2>4 DEF OnVector
  <1>2. CASE Is(x, "Hashtable") /\ OnHashtable(x)
    <2>1. CASE \E key \in Keys, y \in Vars : hashtable_put(x, key, y)
      BY <2>1, PutStep
    <2>2. CASE \E key \in Keys, y \in Vars : hashtable_get(x, key, y)
      BY <2>2, GetStep
    <2>3. CASE hashtable_clear(x)
      BY <2>3, TableClearStep
    <2>4. QED
      BY <1>2, <2>1, <2>2, <2>3 DEF OnHashtable
  <1>3. CASE \E idx \in Indexes : array_itemX(x, idx)
    BY <1>3, ItemStep
  <1>4. CASE stringbuffer_append(x)
    BY <1>4, AppendStep
  <1>5. CASE \E args \in Lengths : Remake(x, args)
    BY <1>5, RemakeStep
  <1>6. CASE UnknownMethod(x)
    BY <1>6, LeaveStep DEF UnknownMethod, Fail
  <1>7. CASE \E y \in Vars : Asks(OfInstance(Inst(x), locals[y]), y)
    <2>1. PICK y \in Vars : Asks(OfInstance(Inst(x), locals[y]), y)
      BY <1>7
    <2>2. Inst(x).cls \in Classes
      BY VarLives DEF Inst, Insts
    <2>3. PICK o, v : o = Inst(x) /\ v = locals[y]
      OBVIOUS
    <2>4. \A r \in OfInstance(o, v) : r.v = Plain
      BY <2>2, <2>3, AnswersPlain
    <2>5. PICK rs : rs = OfInstance(o, v)
      OBVIOUS
    <2>6. Asks(rs, y) /\ \A r \in rs : r.v = Plain
      BY <2>1, <2>3, <2>4, <2>5
    <2>7. QED
      BY <2>6, AsksStep
  <1>8. QED
    BY <1>1, <1>2, <1>3, <1>4, <1>5, <1>6, <1>7 DEF OnInstance

\* An instance is made.
LEMMA MakesStep ==
    ASSUME NativeInv, Makes
    PROVE  NativeInv'
  <1>0. \A z \in Vars : z \in Roots
    BY DEF Roots
  <1> USE <1>0
  <1>1. CASE \E x \in Vars, cls \in Classes, args \in Lengths : New(x, cls, args)
    BY <1>1, NewStep
  <1>2. CASE \E x \in Vars : datetime_now(x)
    BY <1>2, NowStep
  <1>3. CASE \E x \in Vars : HostArguments(x)
    <2>1. PICK x \in Vars : HostArguments(x)
      BY <1>3
    <2>2. PICK n \in 1..2 : ScriptArguments(x, n)
      BY <2>1 DEF HostArguments
    <2>3. n \in Nat \ {0}
      OBVIOUS
    <2>4. QED
      BY <2>2, <2>3, ScriptStep
  <1>4. QED
    BY <1>1, <1>2, <1>3 DEF Makes

\* A statement of the method.
LEMMA StatementStep ==
    ASSUME NativeInv, Statement
    PROVE  NativeInv'
  <1>0. \A z \in Vars : z \in Roots
    BY DEF Roots
  <1> USE <1>0
  <1>1. CASE \E x \in Vars : Asks(Static(locals[x]), x)
    <2>1. PICK x \in Vars : Asks(Static(locals[x]), x)
      BY <1>1
    <2>2. PICK v, rs : v = locals[x] /\ rs = Static(v)
      OBVIOUS
    <2>3. \A r \in Static(v) : r.v = Plain
      BY AnswersPlain
    <2>4. Asks(rs, x) /\ \A r \in rs : r.v = Plain
      BY <2>1, <2>2, <2>3
    <2>5. QED
      BY <2>4, AsksStep
  <1>2. CASE \E y \in Vars : ElementRead(y)
    BY <1>2, ElementReadStep
  <1>3. CASE \E y \in Vars : ElementWrite(y)
    BY <1>3, ElementWriteStep
  <1>4. CASE \E x, y \in Vars : Assign(x, locals[y])
    <2>1. PICK x \in Vars, y \in Vars : Assign(x, locals[y])
      BY <1>4
    <2>2. PICK v : v = locals[y]
      OBVIOUS
    <2>3. v \in 0..Len(heap) /\ (v # 0 => heap[v].live) /\ Assign(x, v)
      BY <2>1, <2>2, VarLives
    <2>4. QED
      BY <2>3, AssignStep
  <1>5. CASE \E x \in Vars : Assign(x, Plain)
    <2>1. PICK x \in Vars : Assign(x, 0)
      BY <1>5 DEF Plain
    <2>2. 0 \in 0..Len(heap)
      BY StateTypes
    <2>3. QED
      BY <2>1, <2>2, AssignStep
  <1>6. CASE Ends
    BY <1>6, LeaveStep DEF Ends
  <1>7. QED
    BY <1>1, <1>2, <1>3, <1>4, <1>5, <1>6 DEF Statement

\* Whatever the method does next, and whatever the host does, the invariant is
\* kept.
LEMMA NextInv ==
    ASSUME NativeInv, [Next]_vars
    PROVE  NativeInv'
  <1>1. CASE Makes
    BY <1>1, MakesStep
  <1>2. CASE \E x \in Vars : IsInst(locals[x]) /\ OnInstance(x)
    BY <1>2, InstanceStep
  <1>3. CASE Statement
    BY <1>3, StatementStep
  <1>4. CASE UNCHANGED vars
    BY <1>4 DEF vars, NativeInv
  <1>5. QED
    BY <1>1, <1>2, <1>3, <1>4 DEF Next

-----------------------------------------------------------------------------
(* The theorems                                                            *)

\* In every run of a method the invariant holds, whatever containers hold one
\* another and whatever references are pending while elements are read,
\* replaced and destroyed (varClear, the finalizers, the methods of
\* intrinsics.c).
THEOREM NativeInvariance == Spec => []NativeInv
  BY InitInv, NextInv, PTL DEF Spec

\* The count of an instance is the number of variables, elements and values left
\* below the method on the operand stack that hold it (jsinstRef, varClear, the
\* finalizers of the containers, createJSClassInstance).
THEOREM CountsStayRight == Spec => []CountsAgree
  <1>1. NativeInv => CountsAgree
    <2>1. SUFFICES ASSUME NativeInv, NEW i \in DOMAIN heap
                   PROVE  IF heap[i].live THEN heap[i].refcount = References(i) /\ References(i) > 0
                                          ELSE References(i) = 0
      BY DEF CountsAgree
    <2>2. Typed(locals, heap, cells, <<>>) /\ Counted(locals, heap, cells, <<>>)
      BY <2>1 DEF NativeInv, Sound
    <2>3. PICK a, b, d : /\ a = Cardinality(InVars(locals, i)) /\ b = Cardinality(InCells(cells, i))
                         /\ d = Cardinality(InList(<<>>, i))
      OBVIOUS
    <2>4. d = 0
      BY <2>3, CountOne
    <2>5. a \in Nat /\ b \in Nat
      BY <2>2, <2>3, RefTypes
    <2>6. Refs(locals, cells, <<>>, i) = a + b + d
      BY <2>3 DEF Refs
    <2>7. References(i) = a + b
      BY <2>3 DEF References, InVars, InCells
    <2>8. References(i) = Refs(locals, cells, <<>>, i)
      BY <2>4, <2>5, <2>6, <2>7
    <2>9. QED
      BY <2>2, <2>8 DEF Counted
  <1>2. QED
    BY <1>1, NativeInvariance, PTL

\* Every element that was not destroyed belongs to one container that lives,
\* unless a table or a second call of a constructor lost it (the finalizers,
\* vector_setelementat, vector_clear, hashtable_put, hashtable_clear).
THEOREM ElementsStayOwned == Spec => []ElementsOwned
  <1>1. NativeInv => ElementsOwned
    <2>1. SUFFICES ASSUME NativeInv, NEW k \in DOMAIN cells
                   PROVE  /\ ~cells[k].live => Holders(k) = {}
                          /\ cells[k].live =>
                               Cardinality(Holders(k)) = 1 \/ (flaws # {} /\ Holders(k) = {})
      BY DEF ElementsOwned
    <2>2. Tidy(heap, cells) /\ (flaws # {} \/ Complete(heap, cells))
      BY <2>1 DEF NativeInv, Sound, Rest
    <2>3. ~cells[k].live => Holders(k) = {}
      BY <2>2 DEF Tidy, Holders
    <2>4. CASE Holders(k) = {}
      <3>1. cells[k].live => ~Complete(heap, cells)
        BY <2>1, <2>2, <2>4 DEF Complete, Holders, Tidy
      <3>2. QED
        BY <2>2, <2>3, <2>4, <3>1
    <2>5. CASE Holders(k) # {}
      <3>1. PICK i : i \in Holders(k)
        BY <2>5
      <3>2. Holders(k) = {i}
        BY <2>2, <3>1 DEF Tidy, Holders
      <3>3. Cardinality(Holders(k)) = 1
        BY <3>2, FS_Singleton
      <3>4. QED
        BY <2>3, <3>3
    <2>6. QED
      BY <2>4, <2>5
  <1>2. QED
    BY <1>1, NativeInvariance, PTL

\* A pending reference is to the element at its index, or to a destroyed one
\* (vector_elementat, array_itemX, OP_ASSIGN).
THEOREM ReferencesStayRight == Spec => []RefersToItsElement
  <1>1. NativeInv => RefersToItsElement
    BY DEF NativeInv, Rest, RefersToItsElement, At
  <1>2. QED
    BY <1>1, NativeInvariance, PTL

\* A container holds at every index what was last put there (vector_add,
\* vector_setelementat, hashtable_put, array_itemX, OP_ASSIGN).
THEOREM ContentsStayRight == Spec => []HoldsWhatWasPut
  <1>1. NativeInv => HoldsWhatWasPut
    <2>1. SUFFICES ASSUME NativeInv, NEW i \in DOMAIN heap, heap[i].live, Len(heap[i].dims) <= 1
                   PROVE  /\ \A k \in DOMAIN heap[i].want : Content(i, k) = heap[i].want[k]
                          /\ heap[i].cls # "Array" => DOMAIN heap[i].elems = DOMAIN heap[i].want
      BY DEF HoldsWhatWasPut
    <2>2. Holds(heap[i], cells)
      BY <2>1 DEF NativeInv, Rest, Contents
    <2>3. PICK o : o = heap[i]
      OBVIOUS
    <2>4. /\ \A k \in DOMAIN o.want : cells[o.elems[Place(o, k)]].v = o.want[k]
          /\ o.cls # "Array" => DOMAIN o.elems = DOMAIN o.want
      BY <2>1, <2>2, <2>3 DEF Holds
    <2>5. \A k : Content(i, k) = cells[o.elems[Place(o, k)]].v
      BY <2>3 DEF Content, Place
    <2>6. QED
      BY <2>3, <2>4, <2>5
  <1>2. QED
    BY <1>1, NativeInvariance, PTL
=============================================================================
