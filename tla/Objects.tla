------------------------------ MODULE Objects ------------------------------
(***************************************************************************)
(* Classes and instances of the interpreter: the preparation of a program  *)
(* (qinterpPrepare, jsclassInitVtab), the making of an instance with its   *)
(* internal constructors and its constructors (OP_NEW and OP_CONSTRUCT),   *)
(* calls of methods and of methods of the base class, fields, exceptions   *)
(* on their way through the callers, and the counting of references        *)
(* (jsclass.c, interp.c, interpinner.c, native.c).                         *)
(*                                                                         *)
(* A program is its class declarations.  What its methods do is any        *)
(* sequence of the steps below: a step is the code that the compiler emits *)
(* for one expression or statement.  A value is an instance, by its number *)
(* in the heap, or Plain, which stands for all others.  The C functions    *)
(* that wait for a call to return are activations on the same stack as the *)
(* frames of methods.  The build is the release: an ASSERT is no guard.    *)
(***************************************************************************)
EXTENDS Integers, Sequences, FiniteSets, SequencesExt, TLC

CONSTANTS
    Programs,     \* sequences of declarations [name, base, nfields, methods],
                  \* the first of them that of the intrinsic class Object
    Valued,       \* the names of the methods that return a value
    MaxOperands,  \* bound: values that a frame leaves on the stack
    Bounds        \* by the number of classes: [insts, acts, runs], the
                  \* instances made, the activations at a time, and the calls
                  \* from the host

VARIABLES
    prog,      \* the program
    prepared,  \* how many of its classes qinterpPrepare has done
    refused,   \* qinterpPrepare has returned false
    link,      \* baseclass, None at first
    vtable,    \* the method tables: [on, m], m from signatures to classes
    heap,      \* the instances made: [cls, refcount, fields, live]
    stack,     \* the operand stack
    acts,      \* the activations, the running one last
    err,       \* Run, or what the call that just ended has returned
    host,      \* [inst, refs]: the instance the host holds, its references
    runs,      \* how often the host has called
    built,     \* history: for every instance, the constructors entered
    done,      \* history: the instances whose OP_CONSTRUCT succeeded
    missed,    \* history: the classes and signatures not found
    fellback,  \* history: the instances whose construction was tried again
    flaws      \* history: how references came to be miscounted

vars == <<prog, prepared, refused, link, vtable, heap, stack, acts, err, host,
          runs, built, done, missed, fellback, flaws>>
classVars == <<prog, prepared, refused, link, vtable>>
history == <<missed, fellback, flaws>>

None  == "none"
Plain == 0
Run   == "RUN"
Init0 == "@@constructor"

ClassesOf(p) == {p[k].name : k \in DOMAIN p}
DeclOf(p, c) == p[CHOOSE k \in DOMAIN p : p[k].name = c]

\* Two classes with one name, and a class among its own base classes, on which
\* the code would not come to an end, are left out.
ASSUME ProgramsAssumption ==
    \A p \in Programs :
        /\ p \in Seq([name : STRING \ {None}, base : STRING, nfields : Nat,
                       methods : SUBSET (STRING \X Nat)])
        /\ p # <<>>
        /\ \A j, k \in DOMAIN p : p[j].name = p[k].name => j = k
        /\ \E rank \in [ClassesOf(p) -> 0..(Len(p) - 1)] : \A k \in DOMAIN p :
              p[k].base \in ClassesOf(p) => rank[p[k].base] < rank[p[k].name]

ASSUME ObjectBounds ==
    /\ MaxOperands \in Nat
    /\ \A p \in Programs : Bounds[Len(p)] \in [insts : Nat, acts : Nat, runs : Nat]

-----------------------------------------------------------------------------
(* Declarations                                                            *)

MaxInsts == Bounds[Len(prog)].insts
MaxActs  == Bounds[Len(prog)].acts
MaxRuns  == Bounds[Len(prog)].runs

Classes == ClassesOf(prog)
Decl(c) == DeclOf(prog, c)

\* A signature is a name and the number of arguments after this; every class
\* has an internal constructor.
Methods(c) == Decl(c).methods \cup {<<Init0, 0>>}
Declares(c, sig) == sig \in Methods(c)

\* The offsets of the fields of a class, which start anew in every class
Offsets(c) == 1..Decl(c).nfields

\* For every program, the classes from each to its root, as they are declared
Chains ==
    [p \in Programs |->
        LET t[n \in 0..Len(p)] ==
                [c \in ClassesOf(p) |->
                    IF n = 0 THEN <<>>
                    ELSE IF DeclOf(p, c).base \in ClassesOf(p)
                    THEN <<c>> \o t[n - 1][DeclOf(p, c).base]
                    ELSE <<c>>]
        IN t[Len(p)]]
Chain(c) == Chains[prog][c]

-----------------------------------------------------------------------------
(* qinterpPrepare                                                          *)

\* A table m, and over it the methods of the class c
Over(c, m) ==
    [s \in Methods(c) \cup DOMAIN m |-> IF Declares(c, s) THEN c ELSE m[s]]

\* jsclassInitVtab: the table of the base class, which is made first if it
\* does not exist, and over it the methods of the class itself.
Tables(lk) ==
    LET t[n \in 0..Len(prog)] ==
            [c \in Classes |->
                Over(c, IF lk[c] = None \/ n = 0 THEN <<>>
                        ELSE IF vtable[lk[c]].on THEN vtable[lk[c]].m
                        ELSE t[n - 1][lk[c]])]
    IN t[Len(prog)]

\* The class c and the base classes that get their tables with it
Untabled(lk, c) ==
    {Chain(c)[k] : k \in {k \in DOMAIN Chain(c) :
        \A j \in 2..k : ~vtable[Chain(c)[j]].on /\ lk[Chain(c)[j - 1]] = Chain(c)[j]}}

\* A mutant: the base class does not get its table first.
VtabWithoutBase(lk, c) ==
    [vtable EXCEPT ![c] = [on |-> TRUE, m |-> Over(c, vtable[lk[c]].m)]]

jsclassInitVtab(lk, c) ==
    [b \in Classes |-> IF b \in Untabled(lk, c)
                       THEN [on |-> TRUE, m |-> Tables(lk)[b]]
                       ELSE vtable[b]]

\* One turn of the loop.  A base class may come later in the program.  The
\* last part, the static @@constructor, may end in an error.
qinterpPrepare ==
    /\ prepared < Len(prog) /\ ~refused
    /\ LET d  == prog[prepared + 1]
           lk == [link EXCEPT ![d.name] = d.base]
       IN IF d.base = None
          THEN /\ UNCHANGED <<link, vtable>>
               /\ refused' \in BOOLEAN
          ELSE IF d.base \notin Classes
          THEN /\ UNCHANGED <<link, vtable>>
               /\ refused' = TRUE
          ELSE /\ link' = lk
               /\ vtable' = jsclassInitVtab(lk, d.name)
               /\ refused' \in BOOLEAN
    /\ prepared' = prepared + 1
    /\ UNCHANGED <<prog, heap, stack, acts, err, host, runs, built, done, history>>

Ready == prepared = Len(prog) /\ ~refused

\* jsclassFindMethod: the class whose method is found, or None
jsclassFindMethod(c, sig) ==
    IF vtable[c].on
    THEN IF sig \in DOMAIN vtable[c].m THEN vtable[c].m[sig] ELSE None
    ELSE IF Declares(c, sig) THEN c ELSE None

-----------------------------------------------------------------------------
(* References                                                              *)

IsInst(v) == v # Plain

\* The places where a value is in a list
At(i, vs) == {k \in DOMAIN vs : vs[k] = i}
Count(i, vs) == Cardinality(At(i, vs))

jsinstRef(h, v) == IF IsInst(v) THEN [h EXCEPT ![v].refcount = @ + 1] ELSE h

\* jsinstRef on every value of a list
jsinstRefs(h, vs) ==
    [i \in DOMAIN h |-> [h[i] EXCEPT !.refcount = @ + Count(i, vs)]]

\* varClear on the next value of a list: an instance whose last reference
\* goes is destroyed, and its fields are cleared in turn.
ClearNext(s) ==
    LET v == Head(s.todo)
        h == [s.h EXCEPT ![v].refcount = @ - 1]
    IN IF ~IsInst(v) THEN [s EXCEPT !.todo = Tail(@)]
       ELSE IF h[v].refcount <= 0 /\ h[v].live
       THEN [h |-> [h EXCEPT ![v].live = FALSE,
                             ![v].fields = [k \in DOMAIN @ |-> Plain]],
             todo |-> h[v].fields \o Tail(s.todo)]
       ELSE [h |-> h, todo |-> Tail(s.todo)]

\* The fields of all instances
FieldsIn(h) == UNION {{i} \X (DOMAIN h[i].fields) : i \in DOMAIN h}

\* The whole list, which takes no more steps than there are values on it and
\* fields.
Cleared(s) == IF s.todo = <<>> THEN s ELSE ClearNext(s)
Clearing(s, n) == LET r[k \in 0..n] == IF k = 0 THEN s ELSE Cleared(r[k - 1]) IN r

varClear(h, vs) ==
    LET n == Len(vs) + Cardinality(FieldsIn(h))
    IN Clearing([h |-> h, todo |-> vs], n)[n].h

\* A mutant: the new value is not counted.
AssignUncounted(h, old, new) == varClear(h, <<old>>)

\* varAssign: the old value is cleared before the new one is referenced.
varAssign(h, old, new) == jsinstRef(varClear(h, <<old>>), new)

jsinstConstruct(c) ==
    [cls |-> c, refcount |-> 1, live |-> TRUE,
     fields |-> [k \in 1..Cardinality(UNION {{j} \X Offsets(Chain(c)[j]) :
                                             j \in DOMAIN Chain(c)}) |-> Plain]]

-----------------------------------------------------------------------------
(* Frames                                                                  *)

Top     == acts[Len(acts)]
Below   == SubSeq(acts, 1, Len(acts) - 1)
Running == acts # <<>> /\ Top.k = "frame" /\ err = Run
Peek    == stack[Len(stack)]
Ret(sig) == sig[1] \in Valued

\* The frame of a method that def declares, found in ctx.  Its locals are
\* this, the arguments and one variable; owned says that this and the
\* arguments were taken off the stack, and not left there (nopop).
Frame(ctx, def, sig, args, owned, base) ==
    [k |-> "frame", ctx |-> ctx, def |-> def, sig |-> sig, owned |-> owned,
     base |-> base, locals |-> args \o <<Plain>>]

Owned(f) == IF f.owned THEN f.locals ELSE <<f.locals[Len(f.locals)]>>

\* A mutant: the locals are dropped without being cleared (vectorClear).
LeaveLocals(e, rv) ==
    LET result == IF e = "EXCEPTION" \/ (e = "NONE" /\ Ret(Top.sig))
                  THEN <<rv>> ELSE <<>>
    IN /\ heap' = varClear(jsinstRefs(heap, result),
                           SubSeq(stack, Top.base + 1, Len(stack)))
       /\ stack' = SubSeq(stack, 1, Top.base) \o result
       /\ acts' = Below
       /\ err' = e

\* The end of _interp and leaveFrame: what the method left on the stack goes,
\* then its locals, then the result or the exception is pushed.
leaveFrame(e, rv) ==
    LET result == IF e = "EXCEPTION" \/ (e = "NONE" /\ Ret(Top.sig))
                  THEN <<rv>> ELSE <<>>
    IN /\ heap' = varClear(jsinstRefs(heap, result),
                           SubSeq(stack, Top.base + 1, Len(stack)) \o Owned(Top))
       /\ stack' = SubSeq(stack, 1, Top.base) \o result
       /\ acts' = Below
       /\ err' = e

\* callInstMethod and callBaseMethod, with the values vs on top of st: they
\* become the locals of the method that is looked up in ctx.  If there is
\* none, the topmost value is dropped without being cleared.
Enter(h, st, vs, ctx, sig) ==
    LET def == jsclassFindMethod(ctx, sig)
    IN IF def = None
       THEN /\ heap' = h
            /\ stack' = st \o Front(vs)
            /\ flaws' = flaws \cup (IF IsInst(Last(vs)) THEN {"leak"} ELSE {})
            /\ missed' = missed \cup {<<ctx, sig>>}
            /\ err' = "UNKNOWN_METHOD"
            /\ UNCHANGED <<acts, fellback>>
       ELSE /\ Len(acts) < MaxActs
            /\ heap' = h
            /\ stack' = st
            /\ acts' = Append(acts, Frame(ctx, def, sig, vs, TRUE, Len(st)))
            /\ err' = Run
            /\ UNCHANGED history

\* callInstMethod with nopop, for a constructor: the locals are a copy of the
\* topmost values of the stack, as many as the constructor has.
EnterConstructor(below, h, i, sig) ==
    LET def == jsclassFindMethod(heap[i].cls, sig)
        vs  == SubSeq(stack, Len(stack) - sig[2], Len(stack))
    IN /\ IF def = None
          THEN /\ err' = "UNKNOWN_METHOD"
               /\ acts' = below
               /\ missed' = missed \cup {<<heap[i].cls, sig>>}
               /\ UNCHANGED <<built, fellback, flaws>>
          ELSE /\ err' = Run
               /\ Len(acts) < MaxActs
               /\ acts' = Append(below, Frame(heap[i].cls, def, sig, vs, FALSE,
                                              Len(stack)))
               /\ built' = [built EXCEPT ![i] = Append(@, sig)]
               /\ UNCHANGED history
       /\ heap' = h
       /\ UNCHANGED stack

-----------------------------------------------------------------------------
(* Steps of a method                                                       *)

This == Top.locals[1]

\* OP_CALL on the instance in a variable
Call(o, sig, args) ==
    /\ Running
    /\ Len(stack) - Top.base < MaxOperands
    /\ LET vs == [k \in 1..(Len(args) + 1) |->
                     IF k = 1 THEN Top.locals[o] ELSE Top.locals[args[k - 1]]]
           h  == jsinstRefs(heap, vs)
       IN IF IsInst(vs[1])
          THEN Enter(h, stack, vs, heap[vs[1]].cls, sig)
          ELSE /\ heap' = h     \* looked up as a static method of Object
               /\ stack' = stack \o vs
               /\ err' = "UNKNOWN_METHOD"
               /\ UNCHANGED <<acts, history>>
    /\ UNCHANGED <<classVars, host, runs, built, done>>

\* OP_BASECALL: the base is the one of the class of the instance.
callBaseMethod(sig, args) ==
    /\ Running
    /\ Len(stack) - Top.base < MaxOperands
    /\ IsInst(This)
    /\ LET vs  == [k \in 1..(Len(args) + 1) |->
                      IF k = 1 THEN This ELSE Top.locals[args[k - 1]]]
           cls == heap[This].cls
       IN Enter(jsinstRefs(heap, vs), stack, vs,
                IF link[cls] = None THEN cls ELSE link[cls], sig)
    /\ UNCHANGED <<classVars, host, runs, built, done>>

\* An assignment of the topmost value to a variable.  In a constructor, the
\* value that is cleared in a parameter belongs to the stack.
StoreLocal(o) ==
    /\ Running
    /\ Len(stack) > Top.base
    /\ LET old == Top.locals[o]
       IN /\ heap' = varClear(varAssign(heap, old, Peek), <<Peek>>)
          /\ acts' = [acts EXCEPT ![Len(acts)].locals[o] = Peek]
          /\ flaws' = flaws \cup (IF ~Top.owned /\ o < Len(Top.locals)
                                     /\ {old, Peek} # {Plain}
                                  THEN {"parameter"} ELSE {})
    /\ stack' = Front(stack)
    /\ UNCHANGED <<classVars, err, host, runs, built, done, missed, fellback>>

\* The same to a field of this: the offset is the one in the class of the
\* method.
StoreField(f) ==
    /\ Running
    /\ Len(stack) > Top.base
    /\ IsInst(This) /\ f \in Offsets(Top.def)
    /\ f \in DOMAIN heap[This].fields
    /\ heap' = varClear([varAssign(heap, heap[This].fields[f], Peek)
                            EXCEPT ![This].fields[f] = Peek], <<Peek>>)
    /\ stack' = Front(stack)
    /\ UNCHANGED <<classVars, acts, err, host, runs, built, done, history>>

\* A variable, or a field of this, as a value
Load(v) ==
    /\ Len(stack) - Top.base < MaxOperands
    /\ heap' = jsinstRef(heap, v)
    /\ stack' = Append(stack, v)
    /\ UNCHANGED <<classVars, acts, err, host, runs, built, done, history>>

LoadLocal(o) == Running /\ Load(Top.locals[o])

LoadField(f) ==
    /\ Running
    /\ IsInst(This) /\ f \in Offsets(Top.def)
    /\ f \in DOMAIN heap[This].fields
    /\ Load(heap[This].fields[f])

\* OP_DEREF and OP_RVALUE: a field of the instance on top of the stack, which
\* is popped before the field is read.  qinterpFindField knows the fields of
\* its own class alone.
OP_DEREF(f) ==
    /\ Running
    /\ Len(stack) > Top.base /\ IsInst(Peek)
    /\ IF f \notin Offsets(heap[Peek].cls)
       THEN /\ err' = "FIELD_NOT_FOUND"
            /\ UNCHANGED <<heap, stack, flaws>>
       ELSE LET h == varClear(heap, <<Peek>>)
                v == h[Peek].fields[f]
            IN /\ heap' = jsinstRef(h, v)
               /\ stack' = Append(Front(stack), v)
               /\ flaws' = flaws \cup (IF h[Peek].live THEN {} ELSE {"temporary"})
               /\ UNCHANGED err
    /\ UNCHANGED <<classVars, acts, host, runs, built, done, missed, fellback>>

\* return, with the topmost value if there is one
Return ==
    /\ Running
    /\ leaveFrame("NONE", IF Ret(Top.sig) /\ Len(stack) > Top.base
                          THEN Peek ELSE Plain)
    /\ UNCHANGED <<classVars, host, runs, built, done, history>>

\* throw of the topmost value, outside of every try
Throw ==
    /\ Running
    /\ Len(stack) > Top.base
    /\ leaveFrame("EXCEPTION", Peek)
    /\ UNCHANGED <<classVars, host, runs, built, done, history>>

Results == {"NONE", "EXCEPTION", "UNKNOWN_METHOD", "INTERNAL_ERROR2",
            "CLASS_NOT_FOUND", "FIELD_NOT_FOUND"}

\* What a call returns to the method that made it: an exception may be caught
\* there, and stays on the stack.
Resume ==
    /\ acts # <<>> /\ Top.k = "frame"
    /\ err \in {"NONE", "EXCEPTION"}
    /\ err' = Run
    /\ UNCHANGED <<classVars, heap, stack, acts, host, runs, built, done, history>>

Unwind ==
    /\ acts # <<>> /\ Top.k = "frame"
    /\ err \in Results \ {"NONE"}
    /\ leaveFrame(err, IF err = "EXCEPTION" THEN Peek ELSE Plain)
    /\ UNCHANGED <<classVars, host, runs, built, done, history>>

-----------------------------------------------------------------------------
(* OP_NEW: the instance, and its internal constructors                     *)

\* The instance has one reference, which its maker holds.
Make(c, args, byhost) ==
    /\ Len(heap) < MaxInsts /\ Len(acts) < MaxActs
    /\ heap' = Append(heap, jsinstConstruct(c))
    /\ built' = Append(built, <<>>)
    /\ acts' = Append(acts, [k |-> "internal", inst |-> Len(heap) + 1,
                             todo |-> Reverse(Chain(c)), args |-> args,
                             byhost |-> byhost])
    /\ UNCHANGED <<classVars, stack, done, history>>

OP_NEW(c, args) ==
    /\ Running
    /\ Len(stack) - Top.base < MaxOperands
    /\ IF c \in Classes
       THEN /\ Make(c, [k \in DOMAIN args |-> Top.locals[args[k]]], FALSE)
            /\ err' = "NONE"
            /\ UNCHANGED <<host, runs>>
       ELSE /\ err' = "CLASS_NOT_FOUND"
            /\ UNCHANGED <<classVars, heap, stack, acts, host, runs, built, done, history>>

\* callInternalConstructors: the base class first.  Whatever error one of
\* them ends in, the instance keeps the reference of its maker.
callInternalConstructors ==
    /\ acts # <<>> /\ Top.k = "internal"
    /\ LET i == Top.inst IN
       CASE err # "NONE" ->
              /\ acts' = Below
              /\ err' = "INTERNAL_ERROR2"
              /\ flaws' = flaws \cup {"leak"}
              /\ UNCHANGED <<heap, stack, built>>
         [] err = "NONE" /\ Top.todo # <<>> ->
              LET c == Head(Top.todo) IN
              /\ Len(acts) < MaxActs
              /\ heap' = jsinstRef(heap, i)
              /\ acts' = Append([acts EXCEPT ![Len(acts)].todo = Tail(@)],
                                Frame(c, jsclassFindMethod(c, <<Init0, 0>>),
                                      <<Init0, 0>>, <<i>>, TRUE, Len(stack)))
              /\ built' = [built EXCEPT ![i] = Append(@, <<c, -1>>)]
              /\ err' = Run
              /\ UNCHANGED <<stack, flaws>>
         [] OTHER ->    \* this and the arguments are pushed
              /\ stack' = Append(stack, i) \o Top.args
              /\ heap' = jsinstRefs(heap,
                                 Top.args \o IF Top.byhost THEN <<i>> ELSE <<>>)
              /\ acts' = Append(Below,
                     IF Top.byhost
                     THEN [k |-> "host", inst |-> i, jsp |-> heap[i].cls,
                           argc |-> Len(Top.args), retry |-> FALSE, at |-> "call"]
                     ELSE [k |-> "construct", inst |-> i, jsp |-> heap[i].cls,
                           argc |-> Len(Top.args), at |-> "base"])
              /\ err' = "NONE"
              /\ UNCHANGED <<built, flaws>>
    /\ UNCHANGED <<classVars, host, runs, done, missed, fellback>>

-----------------------------------------------------------------------------
(* OP_CONSTRUCT                                                            *)

\* A mutant: the constructors of the base classes are not called.
ConstructAlone ==
    /\ acts # <<>> /\ Top.k = "construct"
    /\ Top.at = "base" /\ err = "NONE"
    /\ acts' = [acts EXCEPT ![Len(acts)].at = "self"]
    /\ UNCHANGED <<classVars, heap, stack, err, host, runs, built, done, history>>

\* callConstructors(jsp, inst, argc) first calls itself for the base class.
ConstructBase ==
    /\ acts # <<>> /\ Top.k = "construct"
    /\ Top.at = "base" /\ err = "NONE"
    /\ IF link[Top.jsp] = None
       THEN acts' = [acts EXCEPT ![Len(acts)].at = "self"]
       ELSE /\ Len(acts) < MaxActs
            /\ acts' = Append([acts EXCEPT ![Len(acts)].at = "self"],
                              [Top EXCEPT !.jsp = link[Top.jsp]])
    /\ UNCHANGED <<classVars, heap, stack, err, host, runs, built, done, history>>

\* Then it calls the constructor of jsp, holding the instance meanwhile.
ConstructSelf ==
    /\ acts # <<>> /\ Top.k = "construct"
    /\ Top.at = "self"
    /\ IF err = "NONE"
       THEN EnterConstructor([acts EXCEPT ![Len(acts)].at = "called"],
                             jsinstRef(heap, Top.inst), Top.inst,
                             <<Top.jsp, Top.argc>>)
       ELSE /\ acts' = Below     \* a base class has failed
            /\ UNCHANGED <<heap, stack, err, built, history>>
    /\ UNCHANGED <<classVars, host, runs, done>>

\* A default constructor may be missing.  Where a base class has failed with
\* arguments, all is tried again from there without.  The last of the calls,
\* the one for the class of the instance, takes the arguments off the stack.
ConstructReturns ==
    /\ acts # <<>> /\ Top.k = "construct"
    /\ Top.at = "called" /\ err # Run
    /\ LET h    == varClear(heap, <<Top.inst>>)
           fine == err = "NONE" \/ (Top.argc = 0 /\ err = "UNKNOWN_METHOD")
           last == Top.jsp = heap[Top.inst].cls
           n    == Len(stack) - Top.argc
       IN CASE ~fine /\ ~last /\ Top.argc # 0 ->
                 /\ acts' = [acts EXCEPT ![Len(acts)].at = "base",
                                         ![Len(acts)].argc = 0]
                 /\ err' = "NONE"
                 /\ fellback' = fellback \cup
                        (IF link[Top.jsp] = None THEN {} ELSE {Top.inst})
                 /\ heap' = h
                 /\ UNCHANGED <<stack, done>>
            [] ~fine /\ (last \/ Top.argc = 0) ->
                 /\ acts' = Below
                 /\ heap' = h
                 /\ UNCHANGED <<stack, err, done, fellback>>
            [] fine /\ last ->
                 /\ acts' = Below
                 /\ err' = "NONE"
                 /\ stack' = SubSeq(stack, 1, n)
                 /\ heap' = varClear(h, SubSeq(stack, n + 1, Len(stack)))
                 /\ done' = done \cup {<<Top.inst, Top.argc>>}
                 /\ UNCHANGED fellback
            [] OTHER ->
                 /\ acts' = Below
                 /\ err' = "NONE"
                 /\ heap' = h
                 /\ UNCHANGED <<stack, done, fellback>>
    /\ UNCHANGED <<classVars, host, runs, built, missed, flaws>>

-----------------------------------------------------------------------------
(* The host: qinterpRun, createJSClassInstance and qinterpCall             *)

Idle == Ready /\ acts = <<>> /\ runs < MaxRuns

\* qinterpRun of a static method: no this, and two variables
qinterpRun ==
    /\ Idle
    /\ LET c == prog[Len(prog)].name
       IN acts' = <<[k |-> "run"],
                    Frame(c, c, <<"main", 0>>, <<Plain, Plain>>, TRUE, Len(stack))>>
    /\ runs' = runs + 1
    /\ UNCHANGED <<classVars, heap, stack, err, host, built, done, history>>

\* The result, or whatever is on top of the stack, goes to the host.  It may
\* be the instance that createJSClassInstance has left there, and whose only
\* reference that is.
RunReturns ==
    /\ acts # <<>> /\ Top.k = "run" /\ err # Run
    /\ flaws' = flaws \cup (IF host.inst \in Range(stack) \ {Plain} /\ host.refs = 0
                            THEN {"uncounted"} ELSE {})
    /\ heap' = IF stack = <<>> THEN heap ELSE varClear(heap, <<Peek>>)
    /\ stack' = IF stack = <<>> THEN stack ELSE Front(stack)
    /\ acts' = Below
    /\ err' = Run
    /\ UNCHANGED <<classVars, host, runs, built, done, missed, fellback>>

createJSClassInstance(c, argc) ==
    /\ Idle
    /\ host.inst = Plain
    /\ Make(c, [k \in 1..argc |-> Plain], TRUE)
    /\ err' = "NONE"
    /\ runs' = runs + 1
    /\ UNCHANGED host

\* It has failed inside the internal constructors
MakeFails ==
    /\ acts = <<>> /\ err # Run
    /\ err' = Run
    /\ UNCHANGED <<classVars, heap, stack, acts, host, runs, built, done, history>>

\* Its loop over the constructors, from the class to its root
HostConstructs ==
    /\ acts # <<>> /\ Top.k = "host" /\ Top.at = "call"
    /\ EnterConstructor([acts EXCEPT ![Len(acts)].at = "called"], heap, Top.inst,
                        <<Top.jsp, IF Top.retry THEN 0 ELSE Top.argc>>)
    /\ UNCHANGED <<classVars, host, runs, done>>

\* The instance, with this and its arguments still on the stack, goes to the
\* host after the last; an error ends the loop before.
HostConstructed ==
    /\ acts # <<>> /\ Top.k = "host" /\ Top.at = "called" /\ err # Run
    /\ LET fine   == err = "NONE" \/ (err = "UNKNOWN_METHOD" /\ Top.argc = 0)
           again  == err = "UNKNOWN_METHOD" /\ Top.argc > 0 /\ ~Top.retry
           more   == fine /\ link[Top.jsp] # None
       IN IF more \/ again
          THEN /\ acts' = [acts EXCEPT ![Len(acts)] =
                              [Top EXCEPT !.at = "call", !.retry = again,
                                          !.jsp = IF again THEN @ ELSE link[@]]]
               /\ err' = "NONE"
               /\ UNCHANGED <<heap, host>>
          ELSE /\ acts' = Below
               /\ err' = Run
               /\ heap' = varClear(heap, <<Top.inst>>)
               /\ host' = IF fine THEN [inst |-> Top.inst, refs |-> 0] ELSE host
    /\ UNCHANGED <<classVars, stack, runs, built, done, history>>

\* qinterpCall with plain arguments: it counts a reference of its own, and
\* one for the variant that becomes this.
qinterpCall(sig) ==
    /\ Idle
    /\ host.inst # Plain
    /\ LET i    == host.inst
           def  == jsclassFindMethod(heap[i].cls, sig)
           args == [k \in 1..sig[2] |-> Plain]
           call == [k |-> "call", inst |-> i]
       IN IF def = None
          THEN /\ acts' = <<call>>
               /\ heap' = jsinstRef(jsinstRef(heap, i), i)
               /\ stack' = stack \o Front(<<i>> \o args)
               /\ err' = "UNKNOWN_METHOD"
               /\ missed' = missed \cup {<<heap[i].cls, sig>>}
               /\ flaws' = flaws \cup (IF sig[2] = 0 THEN {"leak"} ELSE {})
          ELSE /\ acts' = <<call, Frame(heap[i].cls, def, sig, <<i>> \o args, TRUE,
                                       Len(stack))>>
               /\ heap' = jsinstRef(jsinstRef(heap, i), i)
               /\ UNCHANGED <<stack, err, missed, flaws>>
    /\ runs' = runs + 1
    /\ UNCHANGED <<classVars, host, built, done, fellback>>

\* The stack is emptied.  If that leaves the one reference of the call, the
\* host gets one; then the variant is destroyed.
CallReturns ==
    /\ acts # <<>> /\ Top.k = "call" /\ err # Run
    /\ LET i  == Top.inst
           h  == varClear(heap, stack)
           hh == IF h[i].refcount = 1 THEN jsinstRef(h, i) ELSE h
           n  == host.refs + IF h[i].refcount = 1 THEN 1 ELSE 0
       IN /\ heap' = varClear(hh, <<i>>)
          /\ host' = [host EXCEPT !.refs = n]
          /\ flaws' = flaws \cup (IF n = 0 THEN {"uncounted"} ELSE {})
    /\ stack' = <<>>
    /\ acts' = Below
    /\ err' = Run
    /\ UNCHANGED <<classVars, runs, built, done, missed, fellback>>

-----------------------------------------------------------------------------
Init ==
    /\ prog \in Programs
    /\ prepared = 0 /\ refused = FALSE
    /\ link = [c \in Classes |-> None]
    /\ vtable = [c \in Classes |-> [on |-> FALSE, m |-> <<>>]]
    /\ heap = <<>> /\ stack = <<>> /\ acts = <<>> /\ err = Run
    /\ host = [inst |-> Plain, refs |-> 0]
    /\ runs = 0 /\ built = <<>> /\ done = {}
    /\ missed = {} /\ fellback = {} /\ flaws = {}

\* The methods that a program names: its own, and one that it does not have
Sigs == {s \in UNION {prog[k].methods : k \in DOMAIN prog} : s[1] \notin Classes}
        \cup {<<"undeclared", 0>>}
Vars     == 2..Len(Top.locals)
Operands == {<<>>} \cup {<<o>> : o \in Vars}

Step ==
    \/ \E o \in 1..Len(Top.locals), sig \in Sigs, args \in Operands :
           Len(args) = sig[2] /\ Call(o, sig, args)
    \/ \E sig \in Sigs, args \in Operands :
           Len(args) = sig[2] /\ callBaseMethod(sig, args)
    \/ \E o \in Vars : StoreLocal(o) \/ LoadLocal(o)
    \/ \E f \in 1..2 : StoreField(f) \/ LoadField(f) \/ OP_DEREF(f)
    \/ \E c \in Classes \cup {"Unknown"}, args \in Operands : OP_NEW(c, args)
    \/ Return
    \/ Throw

Calls == callInternalConstructors \/ ConstructBase \/ ConstructSelf
         \/ ConstructReturns

Host == qinterpRun \/ RunReturns \/ MakeFails
        \/ (\E c \in Classes, n \in 0..1 : createJSClassInstance(c, n))
        \/ HostConstructs \/ HostConstructed
        \/ (\E sig \in Sigs : qinterpCall(sig))
        \/ CallReturns

Next == qinterpPrepare \/ (Running /\ Step) \/ Resume \/ Unwind \/ Calls \/ Host

Spec == Init /\ [][Next]_vars

-----------------------------------------------------------------------------
(* Properties                                                              *)

\* The references that an activation holds: the locals that a frame owns, and
\* those that the C functions count for themselves.
Held(a) ==
    CASE a.k = "frame"     -> Owned(a)
      [] a.k = "construct" -> IF a.at = "called" THEN <<a.inst>> ELSE <<>>
      [] a.k = "run"       -> <<>>
      [] OTHER             -> <<a.inst>>

References(i) ==
    Count(i, stack)
    + Cardinality(UNION {{n} \X At(i, Held(acts[n])) : n \in DOMAIN acts})
    + Cardinality(UNION {{n} \X At(i, heap[n].fields) : n \in DOMAIN heap})
    + (IF host.inst = i THEN host.refs ELSE 0)

\* No instance is destroyed while something refers to it (jsinstRef and
\* jsinstDeref): neither a variable, a field, an operand, nor a constructor or
\* a host that is in the middle of a call, nor a host between its calls.  The
\* exceptions are a constructor that assigns to a parameter, the field of an
\* instance that is in no variable, and a host whose instance was only on the
\* stack.
NothingDangles ==
    flaws \cap {"parameter", "temporary", "uncounted"} = {} =>
        /\ \A i \in DOMAIN heap :
              IF heap[i].live THEN heap[i].refcount >= References(i)
                              ELSE References(i) = 0
        /\ host.inst # Plain => heap[host.inst].live

\* No reference is counted that is not there: an instance that nothing
\* refers to is destroyed, after every exception and error but the ones where
\* a method is unknown or an internal constructor fails.
NothingLeaks ==
    flaws = {} =>
        \A i \in DOMAIN heap : heap[i].live =>
            /\ heap[i].refcount <= References(i)
            /\ heap[i].refcount > 0

\* The classes whose methods c sees: those up to the first that is declared
\* after the class which extends it, and that class.  A table is copied from
\* that of the base class before the base class has its own base class.
Place(c) == CHOOSE k \in DOMAIN prog : prog[k].name = c
Late(c) == {k \in 2..Len(Chain(c)) : Place(Chain(c)[k - 1]) < Place(Chain(c)[k])}
Seen(c) == IF Late(c) = {} THEN DOMAIN Chain(c) ELSE 1..Min(Late(c))

\* The first of them that declares the method
Nearest(c, sig) ==
    LET ks == {k \in Seen(c) : Declares(Chain(c)[k], sig)}
    IN IF ks = {} THEN None ELSE Chain(c)[Min(ks)]

\* A method that runs is the nearest one to the class that the call names,
\* and a method that is not found is declared nowhere above it, in whatever
\* order the classes come in the program.  Only what is beyond a base class
\* that is declared too late is not found.
DispatchesToNearest ==
    /\ \A k \in DOMAIN acts :
          acts[k].k = "frame" /\ acts[k].sig # <<"main", 0>> =>
              acts[k].def = Nearest(acts[k].ctx, acts[k].sig)
    /\ \A m \in missed : Nearest(m[1], m[2]) = None

\* A method that has the name of a class is a constructor of that class, and
\* Object, which alone extends none, has no constructor (programDefineClass).
Regular(p) ==
    /\ Init0 \notin ClassesOf(p)
    /\ \A c \in ClassesOf(p) : \A s \in DeclOf(p, c).methods :
          s[1] \in ClassesOf(p) => s[1] = c /\ DeclOf(p, c).base # None

\* The k-th class from the root, and whether c sees its constructor with argc
\* arguments
Up(c, k) == Chain(c)[Len(Chain(c)) + 1 - k]
Runs(c, argc, k) ==
    Len(Chain(c)) + 1 - k \in Seen(c) /\ Declares(Up(c, k), <<Up(c, k), argc>>)

\* The list s with those of x[1], ..., x[k] after it whose number is in on, for
\* every k up to n
Added(s, x, on, n) ==
    LET r[k \in 0..n] == IF k = 0 THEN s
                         ELSE IF k \in on THEN Append(r[k - 1], x[k])
                         ELSE r[k - 1]
    IN r

\* The constructors that a construction with argc arguments has to run, up to
\* those of each class: the internal ones of all classes come first.
Ctors(c, argc) ==
    LET n == Len(Chain(c))
    IN Added([k \in 1..n |-> <<Up(c, k), -1>>], [k \in 1..n |-> <<Up(c, k), argc>>],
             {k \in 1..n : Runs(c, argc, k)}, n)
Due(c, argc) == Ctors(c, argc)[Len(Chain(c))]

\* An instance whose construction has succeeded has run the internal
\* constructors of all its classes and then the constructors of those that its
\* class sees, each of them once and the base class first.  Where a constructor
\* was missing and the default one of a base class stood in for it, no
\* constructor ran more than once, as long as there are two levels below Object.
ConstructedInOrder ==
    \A d \in done :
        LET i == d[1] c == heap[i].cls IN
        IF i \notin fellback THEN built[i] = Due(c, d[2])
        ELSE Len(Chain(c)) <= 3 => IsInjective(built[i])
=============================================================================
