------------------------------ MODULE Natives ------------------------------
(***************************************************************************)
(* The native classes of the interpreter (intrinsics.c, and their tables   *)
(* in qinterpLoadIntrinsics): Array, Vector, Hashtable, StringBuffer,      *)
(* DateTime, and the static methods of Object and Math, as a method with a *)
(* few variables uses them.                                                *)
(*                                                                         *)
(* A container owns cells, variants of their own on the C heap.  The       *)
(* method [] answers a reference to a cell and not its value.  Such a      *)
(* reference is pending on the operand stack while the rest of its         *)
(* statement is evaluated, which may call any other method before it is    *)
(* read or assigned through.  A value is an instance, by its number in the *)
(* heap, or Plain: a number, a string or null.  The vector and the table   *)
(* inside the containers are of a library that is not part of the          *)
(* repository: vectorElementAt answers NULL beyond the end, and            *)
(* hashtableAdd either replaces an entry or hides it behind the new one.   *)
(***************************************************************************)
EXTENDS Integers, Sequences, FiniteSets, SequencesExt, FiniteSetsExt, TLC

CONSTANTS
    Vars,        \* the variables of the method
    Keys,        \* keys, pairs <<type, text>>
    Lengths,     \* argument lists of constructors
    Indexes,     \* argument lists of []
    MaxInsts,    \* bound: instances made
    MaxCells,    \* bound: cells made
    MaxPending,  \* bound: references on the stack at a time
    MaxText      \* bound: appends to a StringBuffer

VARIABLES
    locals,   \* the variables, and what lies below them on the operand stack
    heap,     \* the instances made:
              \* [cls, refcount, live, made, elems, hidden, dims, num, want],
              \* want a history, what was put where
    cells,    \* the cells made: [v, live]
    pending,  \* references on the stack: [cell, inst, key, block]
    err,      \* the result of the last call, or ENDED
    flaws     \* history: how cells came to have no owner

vars == <<locals, heap, cells, pending, err, flaws>>

\* What holds values besides elements: the variables, and the place of the operand
\* stack below the frame of the method, where the host may have left a value
Below == "below"
Roots == Vars \cup {Below}

Plain  == 0
NotInt == -100    \* an argument that varGetInt refuses
None   == "NONE"

ASSUME NativeBounds ==
    /\ {MaxInsts, MaxCells, MaxPending, MaxText} \subseteq Nat
    /\ IsFiniteSet(Vars) /\ Below \notin Vars
    /\ \A l \in Lengths \cup Indexes : l \in Seq(Int)

-----------------------------------------------------------------------------
(* qinterpLoadIntrinsics: the methods and how many arguments they take     *)

ARRAY_MAX_DIMS == 10

ObjectMethods ==
    {<<"Object", n, 1>> : n \in {"parseInt", "parseFloat", "toString", "typename",
                                 "length"}} \cup {<<"Object", "toString", 0>>}
ArrayConstructors == {<<"Array", "Array", n>> : n \in 1..ARRAY_MAX_DIMS}
ArrayMethods ==
    {<<"Array", "[]", n>> : n \in 1..ARRAY_MAX_DIMS}
    \cup {<<"Array", "length", 0>>, <<"Array", "length", 1>>, <<"Array", "dims", 0>>}
VectorMethods ==
    {<<"Vector", "Vector", 0>>, <<"Vector", "add", 1>>, <<"Vector", "size", 0>>,
     <<"Vector", "length", 0>>, <<"Vector", "elementAt", 1>>, <<"Vector", "[]", 1>>,
     <<"Vector", "setElementAt", 2>>, <<"Vector", "clear", 0>>}
StringBufferMethods ==
    {<<"StringBuffer", "StringBuffer", 0>>, <<"StringBuffer", "StringBuffer", 1>>,
     <<"StringBuffer", "append", 1>>, <<"StringBuffer", "toString", 0>>}
DateTimeMethods ==
    {<<"DateTime", "DateTime", 0>>, <<"DateTime", "diffms", 1>>,
     <<"DateTime", "now", 0>>, <<"DateTime", "toMilliseconds", 0>>}
MathMethods == {<<"Math", "rand", 0>>, <<"Math", "exp", 1>>}
HashtableMethods ==
    {<<"Hashtable", "Hashtable", 0>>, <<"Hashtable", "put", 2>>,
     <<"Hashtable", "get", 1>>, <<"Hashtable", "clear", 0>>}

Intrinsics == ObjectMethods \cup ArrayConstructors \cup ArrayMethods \cup VectorMethods
              \cup StringBufferMethods \cup DateTimeMethods \cup MathMethods
              \cup HashtableMethods

Classes == {"Array", "Vector", "StringBuffer", "DateTime", "Hashtable"}

-----------------------------------------------------------------------------
(* References                                                              *)

IsInst(v) == v > 0

\* F applied n times from z on
Repeat(F(_, _), z, n) == LET r[k \in 0..n] == IF k = 0 THEN z ELSE F(r[k - 1], k) IN r[n]

\* The entries f with v at k, and with v there only if k has none
Put(f, k, v)    == [j \in DOMAIN f \cup {k} |-> IF j = k THEN v ELSE f[j]]
PutNew(f, k, v) == IF k \in DOMAIN f THEN f ELSE Put(f, k, v)

\* An instance without native data, and what is left of a destroyed one
Blank(cls) == [cls |-> cls, refcount |-> 0, live |-> FALSE, made |-> FALSE,
               elems |-> <<>>, hidden |-> {}, dims |-> <<>>, num |-> 0, want |-> <<>>]

jsinstRef(h, v) == IF IsInst(v) THEN [h EXCEPT ![v].refcount = @ + 1] ELSE h

\* What the finalizer of a container destroys
Owned(o) == Range(o.elems) \cup o.hidden

Dead(c, ks) == [k \in DOMAIN c |-> IF k \in ks THEN [v |-> Plain, live |-> FALSE]
                                  ELSE c[k]]
Values(c, ks) == [k \in DOMAIN c |-> IF k \in ks THEN c[k].v ELSE Plain]

\* varClear on the next value of a list: the finalizer of an instance that
\* has no reference left destroys its cells, and so their values.
ClearNext(s) ==
    LET v  == Head(s.todo)
        h  == [s.h EXCEPT ![v].refcount = @ - 1]
        ks == Owned(h[v])
    IN IF ~IsInst(v) THEN [s EXCEPT !.todo = Tail(@)]
       ELSE IF h[v].refcount <= 0 /\ h[v].live
       THEN [h |-> [h EXCEPT ![v] = Blank(@.cls)],
             c |-> Dead(s.c, ks),
             todo |-> Values(s.c, ks) \o Tail(s.todo)]
       ELSE [h |-> h, c |-> s.c, todo |-> Tail(s.todo)]

\* The values of a list one after the other: each finalizer runs once, and adds
\* at most the values of all cells.
Cleared(s) == IF s.todo = <<>> THEN s ELSE ClearNext(s)
Clearing(s, n) == LET r[k \in 0..n] == IF k = 0 THEN s ELSE Cleared(r[k - 1]) IN r

varClear(h, c, vs) ==
    LET n == Len(vs) + Len(c) * Len(h)
        s == Clearing([h |-> h, c |-> c, todo |-> vs], n)[n]
    IN IF \A k \in DOMAIN vs : ~IsInst(vs[k]) THEN [h |-> h, c |-> c]
       ELSE [h |-> s.h, c |-> s.c]

\* varDestruct on cells
varDestruct(h, c, ks) == varClear(h, Dead(c, ks), Values(c, ks))

\* What a method answers goes to a variable: the value is on the stack when
\* the old one of the variable is cleared (OP_RVALUE, OP_ASSIGN).
Answer(y, v) ==
    LET m == varClear(jsinstRef(heap, v), cells, <<locals[y]>>)
    IN /\ heap' = m.h
       /\ cells' = m.c
       /\ locals' = [locals EXCEPT ![y] = v]

Slots == Append(SetToSeq(Vars), Below)
LocalValues == [k \in DOMAIN Slots |-> locals[Slots[k]]]

\* The method is left and its variables go.  leaveFrame keeps what is below them,
\* and the host lets it go next: qinterpRun takes it for the result of a main that
\* has none, and qinterpDestruct clears the rest of the stack.
Leave(e) ==
    LET m == varClear(heap, cells, LocalValues)
    IN /\ heap' = m.h
       /\ cells' = m.c
       /\ locals' = [x \in Roots |-> Plain]
       /\ pending' = <<>>
       /\ err' = e
       /\ UNCHANGED flaws

\* An error that is no exception ends the run.
Fail(e) == Leave(e)

\* A step whose outcome C leaves undefined
Fault == err' = "FAULT" /\ UNCHANGED <<locals, heap, cells, pending, flaws>>

Running == err = None
Inst(x) == heap[locals[x]]

\* A call of a method of cls on the variable x
Calls(x, cls, name, n) ==
    /\ Running
    /\ IsInst(locals[x])
    /\ Inst(x).cls = cls
    /\ <<cls, name, n>> \in Intrinsics

-----------------------------------------------------------------------------
(* Constructors: what they make of an instance o, and what they answer     *)

\* The native data that the instance had is forgotten.
Made(o, ds) == [Blank(o.cls) EXCEPT !.refcount = o.refcount, !.live = TRUE,
                                    !.made = TRUE, !.dims = ds]

\* The native data is there before the lengths are checked, one by one.
array_arrayX(o, lens) ==
    LET bad == {k \in DOMAIN lens : lens[k] < 0}
    IN [o   |-> Made(o, IF bad = {} THEN lens ELSE <<>>),
        err |-> IF bad = {} THEN None
                ELSE IF lens[Min(bad)] = NotInt THEN "TYPE_MISMATCH"
                ELSE "INDEX_OUT_OF_BOUNDS"]

vector_vector(o) == [o |-> Made(o, <<>>), err |-> None]

stringbuffer_stringbuffer(o, args) ==
    IF args # <<>> /\ args[1] = NotInt THEN [o |-> o, err |-> "TYPE_MISMATCH"]
    ELSE [o |-> Made(o, <<>>), err |-> None]

datetime_datetime(o) == [o |-> Made(o, <<>>), err |-> None]

hashtable_hashtable(o) == [o |-> Made(o, <<>>), err |-> None]

Constructed(o, args) ==
    CASE o.cls = "Array"        -> array_arrayX(o, args)
      [] o.cls = "Vector"       -> vector_vector(o)
      [] o.cls = "StringBuffer" -> stringbuffer_stringbuffer(o, args)
      [] o.cls = "DateTime"     -> datetime_datetime(o)
      [] o.cls = "Hashtable"    -> hashtable_hashtable(o)

\* x = new cls(args): no constructor is called without arguments if there is
\* none.  The instance of a constructor that fails goes with the stack: its
\* finalizer finds an empty vector.
New(x, cls, args) ==
    /\ Running
    /\ Len(heap) < MaxInsts
    /\ LET i    == Len(heap) + 1
           here == <<cls, cls, Len(args)>> \in Intrinsics
           r    == IF here THEN Constructed(Blank(cls), args)
                   ELSE [o |-> Blank(cls),
                         err |-> IF args = <<>> THEN None ELSE "UNKNOWN_METHOD"]
           m    == varClear(Append(heap, [r.o EXCEPT !.refcount = 1, !.live = TRUE]), cells,
                            <<locals[x]>>)
       IN IF r.err # None THEN Fail(r.err)
          ELSE /\ heap' = m.h
               /\ cells' = m.c
               /\ locals' = [locals EXCEPT ![x] = i]
               /\ UNCHANGED <<pending, err, flaws>>

\* x.Vector(): a constructor is a public method like others.  The native
\* data it replaces is not destroyed.
Remake(x, args) ==
    /\ Running
    /\ IsInst(locals[x])
    /\ <<Inst(x).cls, Inst(x).cls, Len(args)>> \in Intrinsics
    /\ LET r == Constructed(Inst(x), args)
           i == locals[x]
           m == varClear([heap EXCEPT ![i] = r.o], cells,
                         IF r.err = None THEN <<>> ELSE LocalValues)
       IN /\ heap' = m.h
          /\ cells' = m.c
          /\ locals' = IF r.err = None THEN locals ELSE [z \in Roots |-> Plain]
          /\ pending' = IF r.err = None THEN pending ELSE <<>>
          /\ err' = r.err
          /\ flaws' = flaws \cup (IF Owned(r.o) # Owned(Inst(x)) THEN {"remade"} ELSE {})

\* datetime_now: createJSClassInstance leaves this on the stack, where the
\* end of the call takes it away.
datetime_now(y) ==
    /\ Running
    /\ Len(heap) < MaxInsts
    /\ LET o == datetime_datetime(Blank("DateTime")).o
           m == varClear(Append(heap, [o EXCEPT !.refcount = 1, !.live = TRUE]), cells, <<locals[y]>>)
       IN heap' = m.h /\ cells' = m.c
    /\ locals' = [locals EXCEPT ![y] = Len(heap) + 1]
    /\ UNCHANGED <<pending, err, flaws>>

-----------------------------------------------------------------------------
(* Vector                                                                  *)

NewCell(v) == Append(cells, [v |-> v, live |-> TRUE])

\* The instance with a new cell for the value at an index
With(o, k, cell, v) == [o EXCEPT !.elems = Put(@, k, cell), !.want = Put(@, k, v)]

vector_add(x, y) ==
    /\ Calls(x, "Vector", "add", 1)
    /\ Len(cells) < MaxCells
    /\ LET k == Cardinality(DOMAIN Inst(x).elems)
       IN /\ cells' = NewCell(locals[y])
          /\ heap' = jsinstRef([heap EXCEPT ![locals[x]] = With(@, k, Len(cells) + 1, locals[y])],
                               locals[y])
    /\ UNCHANGED <<locals, pending, err, flaws>>

\* A mutant: indexes count from one.
ElementBefore(x, k) ==
    /\ Calls(x, "Vector", "[]", 1)
    /\ Len(pending) < MaxPending
    /\ k - 1 \in DOMAIN Inst(x).elems
    /\ pending' = Append(pending, [cell |-> Inst(x).elems[k - 1], inst |-> locals[x],
                                   key |-> k, block |-> k])
    /\ UNCHANGED <<locals, heap, cells, err, flaws>>

vector_elementat(x, k) ==
    /\ Calls(x, "Vector", "[]", 1)
    /\ Len(pending) < MaxPending
    /\ IF k = NotInt THEN Fail("TYPE_MISMATCH")
       ELSE IF k \notin DOMAIN Inst(x).elems THEN Fail("INDEX_OUT_OF_BOUNDS")
       ELSE /\ pending' = Append(pending, [cell |-> Inst(x).elems[k], inst |-> locals[x],
                                           key |-> k, block |-> k])
            /\ UNCHANGED <<locals, heap, cells, err, flaws>>

\* The element that is replaced is destroyed without a look at whether it is
\* there.
vector_setelementat(x, k, y) ==
    /\ Calls(x, "Vector", "setElementAt", 2)
    /\ Len(cells) < MaxCells
    /\ IF k = NotInt THEN Fail("TYPE_MISMATCH")
       ELSE IF k \notin DOMAIN Inst(x).elems THEN Fault
       ELSE /\ LET m == varDestruct(jsinstRef(heap, locals[y]), NewCell(locals[y]),
                                    {Inst(x).elems[k]})
               IN /\ heap' = [m.h EXCEPT ![locals[x]] = With(@, k, Len(cells) + 1, locals[y])]
                  /\ cells' = m.c
            /\ UNCHANGED <<locals, pending, err, flaws>>

\* A mutant: the elements are not destroyed.
ClearForgets(x) ==
    /\ Calls(x, "Vector", "clear", 0)
    /\ heap' = [heap EXCEPT ![locals[x]].elems = <<>>, ![locals[x]].want = <<>>]
    /\ UNCHANGED <<locals, cells, pending, err, flaws>>

vector_clear(x) ==
    /\ Calls(x, "Vector", "clear", 0)
    /\ LET m == varDestruct(heap, cells, Owned(Inst(x)))
       IN /\ heap' = [m.h EXCEPT ![locals[x]].elems = <<>>, ![locals[x]].want = <<>>]
          /\ cells' = m.c
    /\ UNCHANGED <<locals, pending, err, flaws>>

-----------------------------------------------------------------------------
(* Hashtable                                                               *)

\* A key is the text of a value, whatever its type.
varToString(key) == key[2]

\* The table with cells more behind the entries that are found
Hiding(o, cs) == [o EXCEPT !.hidden = @ \cup cs]

\* A mutant: a second entry for a key goes behind the first.
PutBehind(x, key, y) ==
    /\ Calls(x, "Hashtable", "put", 2)
    /\ Len(cells) < MaxCells
    /\ LET k == varToString(key)
           o == With(Inst(x), k, Len(cells) + 1, locals[y])
       IN /\ cells' = NewCell(locals[y])
          /\ heap' = jsinstRef([heap EXCEPT ![locals[x]] =
                 IF k \in DOMAIN @.elems
                 THEN [o EXCEPT !.elems = Inst(x).elems, !.hidden = @ \cup {Len(cells) + 1}]
                 ELSE o], locals[y])
    /\ UNCHANGED <<locals, pending, err, flaws>>

hashtable_put(x, key, y) ==
    /\ Calls(x, "Hashtable", "put", 2)
    /\ Len(cells) < MaxCells
    /\ LET k    == varToString(key)
           old  == IF k \in DOMAIN Inst(x).elems THEN {Inst(x).elems[k]} ELSE {}
       IN /\ cells' = NewCell(locals[y])
          /\ \E hidden \in {{}, old} :
                /\ heap' = jsinstRef([heap EXCEPT ![locals[x]] =
                              Hiding(With(@, k, Len(cells) + 1, locals[y]), hidden)], locals[y])
                /\ flaws' = flaws \cup (IF hidden = old THEN {} ELSE {"lost"})
    /\ UNCHANGED <<locals, pending, err>>

\* A copy of the value, or null
hashtable_get(x, key, y) ==
    /\ Calls(x, "Hashtable", "get", 1)
    /\ LET k == varToString(key)
       IN Answer(y, IF k \in DOMAIN Inst(x).elems THEN cells[Inst(x).elems[k]].v ELSE Plain)
    /\ UNCHANGED <<pending, err, flaws>>

\* The table is destroyed, and the values in it are not.
hashtable_clear(x) ==
    /\ Calls(x, "Hashtable", "clear", 0)
    /\ heap' = [heap EXCEPT ![locals[x]].elems = <<>>, ![locals[x]].hidden = {},
                          ![locals[x]].want = <<>>]
    /\ flaws' = flaws \cup (IF Owned(Inst(x)) = {} THEN {} ELSE {"lost"})
    /\ UNCHANGED <<locals, cells, pending, err>>

-----------------------------------------------------------------------------
(* Array                                                                   *)

SumOver(f) == Repeat(LAMBDA n, k : n + f[k], 0, Len(f))

\* The place of an element
Element(dims, idx) == SumOver([k \in DOMAIN idx |-> idx[k] * dims[k]])

InRange(dims, idx) == \A k \in DOMAIN idx : idx[k] \in 0..(dims[k] - 1)

\* Its number in block format, for the history: the last index runs fastest.
Block(dims, idx) == Repeat(LAMBDA n, k : n * dims[k] + idx[k], 0, Len(idx))

\* An element that is not there yet is made.  The array of a call without
\* native data has an arbitrary magic number.
array_itemX(x, idx) ==
    /\ Calls(x, "Array", "[]", Len(idx))
    /\ Len(pending) < MaxPending
    /\ IF ~Inst(x).made THEN (Fail("TYPE_MISMATCH") \/ Fault)
       ELSE IF Len(idx) # Len(Inst(x).dims) THEN Fail("WRONG_ARRAY_INDEXS")
       ELSE IF NotInt \in Range(idx) THEN Fail("TYPE_MISMATCH")
       ELSE LET o     == Inst(x)
                k     == Element(o.dims, idx)
                fresh == k \notin DOMAIN o.elems
                cell  == IF fresh THEN Len(cells) + 1 ELSE o.elems[k]
                in    == InRange(o.dims, idx)
                b     == IF in THEN Block(o.dims, idx) ELSE -1
            IN /\ cell <= MaxCells
               /\ cells' = IF fresh THEN NewCell(Plain) ELSE cells
               /\ heap' = [heap EXCEPT
                     ![locals[x]].elems = Put(@, k, cell),
                     ![locals[x]].want = IF in THEN PutNew(@, b, Plain) ELSE @]
               /\ pending' = Append(pending, [cell |-> cell, inst |-> locals[x],
                                              key |-> k, block |-> b])
               /\ UNCHANGED <<locals, err, flaws>>

\* arrayHelperSet, n times, for an array of n cells
HelperSet(o, n) ==
    [o EXCEPT !.want = [k \in 0..(n - 1) |-> Plain],
              !.elems = [e \in {Element(o.dims, <<k>>) : k \in 0..(n - 1)} |-> (e \div n) + 1]]

\* The array of the arguments of main: arrayHelperConstruct on an instance
\* made without a constructor, then its elements.  The `this` that
\* createJSClassInstance pushed stays below the argument, and is counted too.
ScriptArguments(x, n) ==
    /\ Running
    /\ heap = <<>> /\ cells = <<>>
    /\ n \in 1..MaxCells
    /\ LET o == array_arrayX(Blank("Array"), <<n>>).o
       IN heap' = <<[HelperSet(o, n) EXCEPT !.refcount = 2, !.live = TRUE]>>
    /\ cells' = [k \in 1..n |-> [v |-> Plain, live |-> TRUE]]
    /\ locals' = [locals EXCEPT ![x] = 1, ![Below] = 1]
    /\ UNCHANGED <<pending, err, flaws>>

\* The host calls main with them
HostArguments(x) == \E n \in 1..2 : ScriptArguments(x, n)

-----------------------------------------------------------------------------
(* Methods that only answer: an error, or a value                          *)

Ok(v) == [err |-> None, v |-> v]
Not(e) == [err |-> e, v |-> Plain]

varGetFloat(v) == ~IsInst(v)

object_parseInt(v)   == IF IsInst(v) THEN Not("TYPE_MISMATCH") ELSE Ok(Plain)
object_parseFloat(v) == IF IsInst(v) THEN Not("TYPE_MISMATCH") ELSE Ok(Plain)
object_toString(v)   == Ok(Plain)
object_typename(v)   == Ok(Plain)
object_length(v)     == Ok(Plain)
math_exp(v)          == IF varGetFloat(v) THEN Ok(Plain) ELSE Not("TYPE_MISMATCH")
math_rand            == Ok(Plain)

array_length(o, d) ==
    IF ~o.made \/ d = NotInt THEN Not("TYPE_MISMATCH")
    ELSE IF d >= Len(o.dims) THEN Not("INDEX_OUT_OF_BOUNDS") ELSE Ok(Plain)

array_dims(o) == IF o.made THEN Ok(Plain) ELSE Not("TYPE_MISMATCH")

vector_size(o) == Ok(Plain)
stringbuffer_tostring(o) == Ok(Plain)
datetime_tomilliseconds(o) == Ok(Plain)
datetime_diffms(o, v) ==
    IF ~IsInst(v) THEN Not("TYPE_MISMATCH")
    ELSE IF heap[v].cls # "DateTime" THEN Not("TYPE_MISMATCH") ELSE Ok(Plain)

Static(v) == {object_parseInt(v), object_parseFloat(v), object_toString(v),
              object_typename(v), object_length(v), math_exp(v), math_rand}

OfInstance(o, v) ==
    CASE o.cls = "Array"        -> {array_dims(o)} \cup {array_length(o, d) : d \in {0, 1, NotInt}}
      [] o.cls = "Vector"       -> {vector_size(o)}
      [] o.cls = "StringBuffer" -> {stringbuffer_tostring(o)}
      [] o.cls = "DateTime"     -> {datetime_tomilliseconds(o), datetime_diffms(o, v)}
      [] o.cls = "Hashtable"    -> {}

\* y = x.method(y), and x = Class::method(x)
Asks(rs, z) ==
    /\ Running
    /\ \E r \in rs :
          \/ r.err # None /\ Fail(r.err)
          \/ r.err = None /\ Answer(z, r.v) /\ UNCHANGED <<pending, err, flaws>>

stringbuffer_append(x) ==
    /\ Calls(x, "StringBuffer", "append", 1)
    /\ Inst(x).num < MaxText
    /\ heap' = [heap EXCEPT ![locals[x]].num = @ + 1]
    /\ UNCHANGED <<locals, cells, pending, err, flaws>>

-----------------------------------------------------------------------------
(* The rest of the method                                                  *)

\* y = a[k]: the reference on top is read when the whole right side of the
\* assignment is evaluated.
ElementRead(y) ==
    /\ Running
    /\ pending # <<>>
    /\ LET p == pending[Len(pending)]
       IN IF ~cells[p.cell].live THEN Fault
          ELSE /\ Answer(y, cells[p.cell].v)
               /\ pending' = Front(pending)
               /\ UNCHANGED <<err, flaws>>

\* For the history: the element, if it still is one, has this value now.
Written(h, p, v) ==
    LET o == h[p.inst]
    IN IF p.block # -1 /\ p.key \in DOMAIN o.elems /\ o.elems[p.key] = p.cell
       THEN [h EXCEPT ![p.inst].want = Put(@, p.block, v)]
       ELSE h

\* A mutant: the new value is not counted.
WriteUncounted(y) ==
    /\ Running
    /\ pending # <<>>
    /\ LET p == pending[Len(pending)]
           m == varClear(heap, cells, <<cells[p.cell].v>>)
       IN /\ cells[p.cell].live /\ m.c[p.cell].live
          /\ heap' = Written(m.h, p, locals[y])
          /\ cells' = [m.c EXCEPT ![p.cell].v = locals[y]]
          /\ pending' = Front(pending)
    /\ UNCHANGED <<locals, err, flaws>>

\* a[k] = y: the old value goes first, and with it, if it was the last
\* reference to the container, the element.
ElementWrite(y) ==
    /\ Running
    /\ pending # <<>>
    /\ LET p == pending[Len(pending)]
           m == varClear(jsinstRef(heap, locals[y]), cells, <<cells[p.cell].v>>)
       IN IF ~cells[p.cell].live \/ ~m.c[p.cell].live THEN Fault
          ELSE /\ heap' = Written(m.h, p, locals[y])
               /\ cells' = [m.c EXCEPT ![p.cell].v = locals[y]]
               /\ pending' = Front(pending)
               /\ UNCHANGED <<locals, err, flaws>>

Assign(x, v) == Running /\ Answer(x, v) /\ UNCHANGED <<pending, err, flaws>>

\* A method that the class does not have
UnknownMethod(x) == Running /\ IsInst(locals[x]) /\ Fail("UNKNOWN_METHOD")

\* The end of the method
Ends ==
    /\ Running
    /\ pending = <<>>
    /\ Leave("ENDED")

-----------------------------------------------------------------------------
Init ==
    /\ locals = [x \in Roots |-> Plain]
    /\ heap = <<>> /\ cells = <<>> /\ pending = <<>>
    /\ err = None
    /\ flaws = {}

Places == {i[1] : i \in {j \in Indexes : Len(j) = 1}}

OnVector(x) ==
    \/ \E y \in Vars : vector_add(x, y)
    \/ \E k \in Places : vector_elementat(x, k)
    \/ \E k \in Places, y \in Vars : vector_setelementat(x, k, y)
    \/ vector_clear(x)

OnHashtable(x) ==
    \/ \E key \in Keys, y \in Vars : hashtable_put(x, key, y) \/ hashtable_get(x, key, y)
    \/ hashtable_clear(x)

Is(x, cls) == Running /\ IsInst(locals[x]) /\ Inst(x).cls = cls

OnInstance(x) ==
    \/ Is(x, "Vector") /\ OnVector(x)
    \/ Is(x, "Hashtable") /\ OnHashtable(x)
    \/ Is(x, "Array") /\ \E idx \in Indexes : array_itemX(x, idx)
    \/ Is(x, "StringBuffer") /\ stringbuffer_append(x)
    \/ \E args \in Lengths : Remake(x, args)
    \/ UnknownMethod(x)
    \/ \E y \in Vars : Asks(OfInstance(Inst(x), locals[y]), y)

\* The instance is made by a constructor, as an answer, or by the host.
Makes ==
    \/ \E x \in Vars, cls \in Classes, args \in Lengths : New(x, cls, args)
    \/ \E x \in Vars : datetime_now(x)
    \/ \E x \in Vars : HostArguments(x)

Statement ==
    \/ \E x \in Vars : Asks(Static(locals[x]), x)
    \/ \E y \in Vars : ElementRead(y) \/ ElementWrite(y)
    \/ \E x, y \in Vars : Assign(x, locals[y])
    \/ \E x \in Vars : Assign(x, Plain)
    \/ Ends

Next ==
    \/ Len(heap) < MaxInsts /\ Makes
    \/ \E x \in Vars : IsInst(locals[x]) /\ OnInstance(x)
    \/ Running /\ Statement

Spec == Init /\ [][Next]_vars

-----------------------------------------------------------------------------
(* Properties                                                              *)

References(i) ==
    Cardinality({x \in Roots : locals[x] = i})
    + Cardinality({k \in DOMAIN cells : cells[k].live /\ cells[k].v = i})

\* The count of an instance is the number of variables, elements and values left
\* below the method on the operand stack that hold it, in whatever order containers
\* hold one another, are changed, cleared and destroyed; an instance is destroyed
\* exactly when that number becomes zero (varConstructDup, the finalizers,
\* createJSClassInstance, OP_ASSIGN through [] ).
CountsAgree ==
    \A i \in DOMAIN heap :
        IF heap[i].live THEN heap[i].refcount = References(i) /\ References(i) > 0
                        ELSE References(i) = 0

Holders(k) == {i \in DOMAIN heap : heap[i].live /\ k \in Owned(heap[i])}

\* Every element belongs to one container, and is destroyed when it is
\* replaced or its container is cleared or destroyed, and not before.  The
\* exceptions are a table whose entry is replaced or that is cleared, and a
\* constructor that is called again, which lose elements.
ElementsOwned ==
    /\ \A k \in DOMAIN cells : ~cells[k].live => Holders(k) = {}
    /\ \A k \in DOMAIN cells : cells[k].live =>
           Cardinality(Holders(k)) = 1 \/ (flaws # {} /\ Holders(k) = {})

\* A reference that is pending is to the element that is now at its index, or
\* to one that was destroyed: growing a container moves no element
\* (vector_elementat, array_itemX).
RefersToItsElement ==
    "remade" \notin flaws =>
        \A n \in DOMAIN pending :
            LET p == pending[n] IN cells[p.cell].live =>
                p.key \in DOMAIN heap[p.inst].elems /\ heap[p.inst].elems[p.key] = p.cell

\* What is at an index, by the way that the code finds it
Content(i, k) ==
    LET o == heap[i]
        e == IF o.cls = "Array" THEN Element(o.dims, <<k>>) ELSE k
    IN cells[o.elems[e]].v

\* A vector, a table and an array of one dimension hold at every index what
\* was last put there, through a method or through a reference.
HoldsWhatWasPut ==
    \A i \in DOMAIN heap : heap[i].live /\ Len(heap[i].dims) <= 1 =>
        /\ \A k \in DOMAIN heap[i].want : Content(i, k) = heap[i].want[k]
        /\ heap[i].cls # "Array" => DOMAIN heap[i].elems = DOMAIN heap[i].want

\* "Arrays use the x[1,2,3] syntax and are block (not ragged) format": so
\* does an array of two dimensions.
BlockArraysHold ==
    \A i \in DOMAIN heap : heap[i].live /\ Len(heap[i].dims) = 2 =>
        \A b \in DOMAIN heap[i].want :
            LET d == heap[i].dims
                e == Element(d, <<b \div d[2], b % d[2]>>)
            IN cells[heap[i].elems[e]].v = heap[i].want[b]
=============================================================================
