---------------------------- MODULE InterpProofs ----------------------------
(***************************************************************************)
(* What holds of the machine for every program, every answer of the native *)
(* methods and every number of runs: see the theorems at the end.          *)
(*                                                                         *)
(* The argument is by frames.  FrameOK says of one frame what the          *)
(* invariants say of all of them; the lemmas say that the operations on    *)
(* frames and blocks of interpinner.c keep it; a step of the machine only  *)
(* applies such operations to the current frame, pushes a frame or pops    *)
(* one.                                                                    *)
(***************************************************************************)
EXTENDS Interp, SequenceTheorems, WellFoundedInduction, TLAPS

-----------------------------------------------------------------------------
(* What the operators of variant.c yield: never a reference, for any width *)
(* of the machine word.                                                    *)

(* Wrapping around yields a word (arithmetic on int32 in variant.c).       *)
LEMMA WrapIsWord == ASSUME NEW n \in Int PROVE Wrap(n) \in Word
BY HalfWordAssumption DEF Wrap, Word

(* A word is an integer.                                                   *)
LEMMA WordIsInt == Word \subseteq Int
BY HalfWordAssumption DEF Word

(* C's division of integers is an integer (varAssignOpDiv).                *)
LEMMA TruncDivIsInt ==
  ASSUME NEW a \in Int, NEW b \in Int, b # 0
  PROVE  TruncDiv(a, b) \in Int
BY DEF TruncDiv, Abs

(* A BOOL is no reference.                                                 *)
LEMMA BoolIsPlain == ASSUME NEW b PROVE BoolV(b) \in Plain
BY DEF BoolV, Plain, Value, Types

(* A comparison yields a BOOL (varAssignOpEQ and the others).              *)
LEMMA CompareIsPlain ==
  ASSUME NEW op, NEW a \in Int, NEW b \in Int
  PROVE  VarCompare(op, a, b) \in Plain
BY DEF VarCompare, BoolV, Plain, Value, Types

(* Arithmetic yields an INT (varAssignOpPlus and the others).              *)
LEMMA ArithIsPlain ==
  ASSUME NEW op, NEW a \in Int, NEW b \in Int,
         op \in Arith, op \in {"DIV", "MOD"} => b # 0
  PROVE  VarArith(op, a, b) \in Plain
<1>1. ASSUME NEW n \in Int PROVE IntV(Wrap(n)) \in Plain
  BY <1>1, WrapIsWord, WordIsInt DEF IntV, Plain, Value, Types
<1>2. a + b \in Int /\ a - b \in Int /\ a * b \in Int
  OBVIOUS
<1>3. CASE op \in {"DIV", "MOD"}
  <2>1. TruncDiv(a, b) \in Int
    BY <1>3, TruncDivIsInt
  <2>2. a - b * TruncDiv(a, b) \in Int
    BY <2>1
  <2>3. QED
    BY <1>1, <1>3, <2>1, <2>2 DEF VarArith
<1>4. CASE op \in {"ADD", "SUB", "MULT"}
  BY <1>1, <1>2, <1>4 DEF VarArith
<1>5. QED
  BY <1>3, <1>4 DEF Arith

(* The bitwise operators yield an INT (varAssignOpBinOr and the others).   *)
LEMMA BitsIsPlain ==
  ASSUME NEW op, NEW a \in Int, NEW b \in Int
  PROVE  VarBits(op, a, b) \in Plain /\ VarShift(a) \in Plain
<1>1. Wrap(a) \in Word /\ Wrap(b) \in Word
  BY WrapIsWord
<1>2. ASSUME NEW w \in Word PROVE IntV(w) \in Plain
  BY <1>2, WordIsInt DEF IntV, Plain, Value, Types
<1>3. QED
  BY <1>1, <1>2, BitOpsAssumption DEF VarBits, VarShift

(* A binary operator of the machine yields no reference.                   *)
LEMMA BinOpIsPlain ==
  ASSUME NEW op \in BinOps, NEW x \in Value, NEW y \in Value
  PROVE  VarBinOp(op, x, y).val \in Plain
<1>1. varGetInt(x) \in Int /\ varGetInt(y) \in Int
  BY DEF varGetInt, Value
<1>2. Void \in Plain
  BY DEF Void, Plain, Value, Types
<1>3. CASE op \in Logic
  <2>1. VarBinOp(op, x, y) = Ok(VarLogic(op, x, y))
    BY <1>3, Zenon DEF VarBinOp, Logic, Shifts
  <2>2. VarLogic(op, x, y) \in Plain
    BY BoolIsPlain DEF VarLogic
  <2>3. QED
    BY <2>1, <2>2 DEF Ok
<1>4. CASE op \in Shifts
  BY <1>1, <1>2, <1>4, BitsIsPlain
     DEF VarBinOp, Ok, Mismatch, Shifts, Logic
<1>5. CASE op \in Compare
  BY <1>1, <1>2, <1>5, CompareIsPlain
     DEF VarBinOp, Ok, Mismatch, Compare, Shifts, Logic
<1>6. CASE op \in BitOps
  BY <1>1, <1>2, <1>6, BitsIsPlain
     DEF VarBinOp, Ok, Mismatch, BitOps, Compare, Shifts, Logic
<1>7. CASE op \in Arith
  <2>1. varGetInt(y) = 0 => DivTraps(varGetInt(x), varGetInt(y))
    BY DEF DivTraps
  <2>2. QED
    BY <1>1, <1>2, <1>7, <2>1, ArithIsPlain
       DEF VarBinOp, Ok, Mismatch, Trap, Arith, BitOps, Compare, Shifts, Logic
<1>8. QED
  BY <1>3, <1>4, <1>5, <1>6, <1>7 DEF BinOps

(* Nor does a unary one (varNegate, varLogNot, varComp).                   *)
LEMMA UnOpIsPlain ==
  ASSUME NEW op, NEW x \in Value
  PROVE  VarUnOp(op, x).val \in Plain
<1>1. varGetInt(x) \in Int
  BY DEF varGetInt, Value
<1>2. Wrap(-varGetInt(x)) \in Int /\ Wrap(-varGetInt(x) - 1) \in Int
  <2>1. -varGetInt(x) \in Int /\ -varGetInt(x) - 1 \in Int
    BY <1>1
  <2>2. QED
    BY <2>1, WrapIsWord, WordIsInt, Zenon
<1>3. QED
  BY <1>2 DEF VarUnOp, Ok, Mismatch, IntV, BoolV, Void, Plain, Value, Types

-----------------------------------------------------------------------------
(* Frames                                                                  *)

(* The blocks of a frame with n locals.                                    *)
BlocksOK(bs, n) ==
  /\ bs \in Seq(BlockFrame)
  /\ \A b \in 1 .. Len(bs) : bs[b].floor <= n
  /\ \A b, c \in 1 .. Len(bs) : b <= c => bs[b].floor <= bs[c].floor
  /\ \A b \in 1 .. Len(bs) : bs[b].blockcount <= b

FrameOK(p, f) ==
  /\ f \in Frame
  /\ f.meth \in DOMAIN p.methods
  /\ ~p.methods[f.meth].isnative
  /\ f.locals \in Seq(Plain)
  /\ f.retval \in Plain
  /\ BlocksOK(f.blocks, Len(f.locals))

(* All frames are, and the first found the operand stack empty.            *)
FramesOK(p, fs) ==
  /\ fs \in Seq(Frame)
  /\ \A k \in 1 .. Len(fs) : FrameOK(p, fs[k])
  /\ fs # << >> => fs[1].base = 0

IInv ==
  /\ prog \in Programs
  /\ answers \in Seq(NativeAnswer)
  /\ stack \in Seq(Value)
  /\ FramesOK(prog, frames)
  /\ out \in Seq([meth : Nat, args : Seq(Plain)])
  /\ results \in Seq([err : Errors, val : Value])
  /\ fault \in {"none", "underflow", "wild", "trap"}
  /\ IdleClean

-----------------------------------------------------------------------------
(* Values.                                                                 *)

(* The constants VOID and NULL and the BOOLs are values.                   *)
LEMMA ConstantsArePlain ==
  /\ Void \in Plain
  /\ Null \in Plain
  /\ \A n \in Int : IntV(n) \in Plain
  /\ Plain \subseteq Value
BY DEF Void, Null, IntV, Plain, Value, Types

(* A reference is followed to a value that is none (varDeref).             *)
LEMMA DerefIsPlain ==
  ASSUME NEW p, NEW fs, FramesOK(p, fs), NEW x \in Value
  PROVE  DerefIn(fs, x) \in Plain
<1>1. CASE x.t # "PTR"
  BY <1>1 DEF DerefIn, Plain
<1>2. CASE x.t = "PTR" /\ x.f \in DOMAIN fs /\ x.v \in DOMAIN fs[x.f].locals
  <2>1. x.f \in 1 .. Len(fs)
    BY <1>2, LenProperties DEF FramesOK
  <2>2. fs[x.f].locals \in Seq(Plain)
    BY <2>1 DEF FramesOK, FrameOK
  <2>3. x.v \in 1 .. Len(fs[x.f].locals)
    BY <1>2, <2>2, LenProperties
  <2>4. fs[x.f].locals[x.v] \in Plain
    BY <2>2, <2>3, ElementOfSeq
  <2>5. QED
    BY <1>2, <2>4 DEF DerefIn
<1>3. CASE x.t = "PTR" /\ ~(x.f \in DOMAIN fs /\ x.v \in DOMAIN fs[x.f].locals)
  BY <1>3, ConstantsArePlain DEF DerefIn
<1>4. QED
  BY <1>1, <1>2, <1>3

-----------------------------------------------------------------------------
(* Operations on one frame.                                                *)

(* Setting the pc, the error or the return value keeps a frame well formed *)
(* (the assignments of _interp to curframe).                               *)
LEMMA MarkKeepsFrame ==
  ASSUME NEW p, NEW f, FrameOK(p, f), NEW pc \in Int, NEW e \in Errors, NEW x \in Plain
  PROVE  /\ FrameOK(p, [f EXCEPT !.pc = pc])
         /\ FrameOK(p, [f EXCEPT !.err = e])
         /\ FrameOK(p, [f EXCEPT !.pc = pc, !.err = e])
         /\ FrameOK(p, [f EXCEPT !.retval = x])
         /\ FrameOK(p, [f EXCEPT !.retval = x, !.err = e])
BY ConstantsArePlain DEF FrameOK, Frame

(* A block above the others that starts where the locals end.              *)
LEMMA AppendKeepsBlocks ==
  ASSUME NEW bs, NEW n \in Nat, NEW m \in Nat, BlocksOK(bs, n),
         NEW b \in BlockFrame, b.floor = n, b.blockcount <= Len(bs) + 1
  PROVE  BlocksOK(Append(bs, b), n + m)
<1> DEFINE new == Append(bs, b)
<1>1. bs \in Seq(BlockFrame) /\ Len(bs) \in Nat
  BY LenProperties DEF BlocksOK
<1>2. new \in Seq(BlockFrame) /\ Len(new) = Len(bs) + 1
  BY <1>1
<1>3. \A k \in 1 .. Len(new) : new[k] = IF k = Len(bs) + 1 THEN b ELSE bs[k]
  BY <1>1
<1>4. \A k \in 1 .. Len(bs) : /\ bs[k].floor \in Nat /\ bs[k].floor <= n
                              /\ bs[k].blockcount <= k
  <2>1. \A k \in 1 .. Len(bs) : bs[k] \in BlockFrame
    BY <1>1, ElementOfSeq
  <2>2. QED
    BY <2>1 DEF BlockFrame, BlocksOK
<1>5. b.floor \in Nat /\ b.blockcount \in Nat
  BY DEF BlockFrame
<1> HIDE DEF new
<1>6. \A k \in 1 .. Len(new) : new[k].floor <= n + m
  BY <1>1, <1>2, <1>3, <1>4, <1>5
<1>7. ASSUME NEW k \in 1 .. Len(new), NEW c \in 1 .. Len(new), k <= c
      PROVE  new[k].floor <= new[c].floor
  <2>1. CASE c = Len(bs) + 1
    BY <1>1, <1>2, <1>3, <1>4, <1>5, <2>1
  <2>2. CASE c # Len(bs) + 1
    <3>1. k \in 1 .. Len(bs) /\ c \in 1 .. Len(bs)
      BY <1>1, <1>2, <1>7, <2>2
    <3>2. new[k] = bs[k] /\ new[c] = bs[c]
      BY <1>1, <1>3, <3>1, <1>2
    <3>3. QED
      BY <1>7, <3>1, <3>2 DEF BlocksOK
  <2>3. QED
    BY <2>1, <2>2
<1>8. \A k \in 1 .. Len(new) : new[k].blockcount <= k
  BY <1>1, <1>2, <1>3, <1>4, <1>5
<1>9. QED
  BY <1>2, <1>6, <1>7, <1>8 DEF BlocksOK, new

(* Entering a block adds one above the others (enterBlock).                *)
LEMMA EnterKeepsFrame ==
  ASSUME NEW p, NEW f, FrameOK(p, f), NEW n \in Nat
  PROVE  FrameOK(p, enterBlock(f, n)) /\ enterBlock(f, n).base = f.base
<1> DEFINE new == [i \in 1 .. n |-> Void]
           b   == [floor |-> Len(f.locals), breakpc |-> getBreak(f),
                   blockcount |-> getBreakBlockCount(f), catchpc |-> -1]
           g   == enterBlock(f, n)
<1>1. f \in Frame /\ f.locals \in Seq(Plain) /\ f.blocks \in Seq(BlockFrame)
  BY DEF FrameOK, BlocksOK
<1>2. g = [f EXCEPT !.locals = f.locals \o new, !.blocks = Append(f.blocks, b)]
  BY DEF enterBlock
<1>3. new \in Seq(Plain) /\ Len(new) = n
  BY ConstantsArePlain
<1>4. /\ f.locals \o new \in Seq(Plain)
      /\ Len(f.locals \o new) = Len(f.locals) + n
  BY <1>1, <1>3, ConcatProperties
<1>5. Len(f.locals) \in Nat /\ Len(f.blocks) \in Nat
  BY <1>1, LenProperties
<1>6. b \in BlockFrame /\ b.floor = Len(f.locals) /\ b.blockcount <= Len(f.blocks) + 1
  <2>1. CASE f.blocks = << >>
    BY <1>5, <2>1 DEF getBreak, getBreakBlockCount, BlockFrame
  <2>2. CASE f.blocks # << >>
    <3>1. Len(f.blocks) \in 1 .. Len(f.blocks)
      BY <1>1, <2>2, EmptySeq
    <3>2. f.blocks[Len(f.blocks)] \in BlockFrame
      BY <1>1, <3>1, ElementOfSeq
    <3>3. f.blocks[Len(f.blocks)].blockcount <= Len(f.blocks)
      BY <3>1 DEF FrameOK, BlocksOK
    <3>4. QED
      BY <1>5, <2>2, <3>2, <3>3 DEF getBreak, getBreakBlockCount, BlockFrame
  <2>3. QED
    BY <2>1, <2>2
<1>7. BlocksOK(Append(f.blocks, b), Len(f.locals) + n)
  <2>1. BlocksOK(f.blocks, Len(f.locals))
    BY DEF FrameOK
  <2>2. QED
    BY <1>5, <1>6, <2>1, AppendKeepsBlocks
<1>8. f.locals \o new \in Seq(Value)
  BY <1>4, ConstantsArePlain, SeqMonotonic
<1>9. Append(f.blocks, b) \in Seq(BlockFrame)
  BY <1>1, <1>6
<1> HIDE DEF new, b
<1>10. g \in Frame
  BY <1>1, <1>2, <1>8, <1>9 DEF Frame
<1>11. g.locals = f.locals \o new /\ g.blocks = Append(f.blocks, b)
  BY <1>1, <1>2 DEF Frame
<1>12. g.meth = f.meth /\ g.retval = f.retval /\ g.base = f.base
  BY <1>1, <1>2 DEF Frame
<1> HIDE DEF g
<1>13. FrameOK(p, g)
  BY <1>4, <1>7, <1>10, <1>11, <1>12 DEF FrameOK
<1>14. QED
  BY <1>12, <1>13 DEF g

(* Leaving blocks gives back their locals and no others (leaveBlock).      *)
LEMMA LeaveKeepsFrame ==
  ASSUME NEW p, NEW f, FrameOK(p, f), NEW k \in Nat
  PROVE  FrameOK(p, leaveTo(f, k)) /\ leaveTo(f, k).base = f.base
<1>1. CASE k >= Len(f.blocks)
  BY <1>1 DEF leaveTo
<1>2. CASE ~(k >= Len(f.blocks))
  <2> DEFINE top == f.blocks[k + 1].floor
             ls  == SubSeq(f.locals, 1, top)
             bs  == SubSeq(f.blocks, 1, k)
             g   == leaveTo(f, k)
  <2>1. f \in Frame /\ f.locals \in Seq(Plain) /\ f.blocks \in Seq(BlockFrame)
    BY DEF FrameOK, BlocksOK
  <2>2. Len(f.blocks) \in Nat /\ Len(f.locals) \in Nat /\ k + 1 \in 1 .. Len(f.blocks)
    BY <1>2, <2>1, LenProperties
  <2>3. f.blocks[k + 1] \in BlockFrame
    BY <2>1, <2>2, ElementOfSeq
  <2>4. top \in Nat /\ top <= Len(f.locals)
    BY <2>2, <2>3 DEF FrameOK, BlocksOK, BlockFrame
  <2>5. g = [f EXCEPT !.locals = ls, !.blocks = bs]
    BY <1>2 DEF leaveTo
  <2>6. \A i \in 1 .. top : f.locals[i] \in Plain
    BY <2>1, <2>2, <2>4, ElementOfSeq
  <2>7. ls \in Seq(Plain) /\ Len(ls) = top
    BY <2>4, <2>6, SubSeqProperties
  <2>8. \A i \in 1 .. k : f.blocks[i] \in BlockFrame
    BY <2>1, <2>2, ElementOfSeq
  <2>9. /\ bs \in Seq(BlockFrame)
        /\ Len(bs) = k
        /\ \A i \in 1 .. k : bs[i] = f.blocks[i]
    BY <2>8, SubSeqProperties
  <2>10. BlocksOK(f.blocks, Len(f.locals))
    BY DEF FrameOK
  <2> HIDE DEF bs, ls, g
  <2>11. BlocksOK(bs, top)
    <3>1. \A b \in 1 .. k : bs[b].floor <= top
      BY <2>2, <2>9, <2>10 DEF BlocksOK
    <3>2. \A b, c \in 1 .. k : b <= c => bs[b].floor <= bs[c].floor
      BY <2>2, <2>9, <2>10 DEF BlocksOK
    <3>3. \A b \in 1 .. k : bs[b].blockcount <= b
      BY <2>2, <2>9, <2>10 DEF BlocksOK
    <3>4. QED
      BY <2>9, <3>1, <3>2, <3>3 DEF BlocksOK
  <2>12. ls \in Seq(Value)
    BY <2>7, ConstantsArePlain, SeqMonotonic
  <2>13. g \in Frame
    BY <2>1, <2>5, <2>9, <2>12 DEF Frame
  <2>14. /\ g.locals = ls /\ g.blocks = bs
         /\ g.meth = f.meth /\ g.retval = f.retval /\ g.base = f.base
    BY <2>1, <2>5 DEF Frame
  <2>15. FrameOK(p, g)
    BY <2>7, <2>11, <2>13, <2>14 DEF FrameOK
  <2>16. QED
    BY <2>14, <2>15 DEF g
<1>3. QED
  BY <1>1, <1>2

(* The block on top may get another break target or handler (setBreak and  *)
(* setTry).                                                                *)
LEMMA SetKeepsFrame ==
  ASSUME NEW p, NEW f, FrameOK(p, f), f.blocks # << >>, NEW target \in Int
  PROVE  /\ FrameOK(p, setBreak(f, target)) /\ setBreak(f, target).base = f.base
         /\ FrameOK(p, setTry(f, target)) /\ setTry(f, target).base = f.base
<1>1. f \in Frame /\ f.blocks \in Seq(BlockFrame) /\ BlocksOK(f.blocks, Len(f.locals))
  BY DEF FrameOK, BlocksOK
<1>2. Len(f.blocks) \in 1 .. Len(f.blocks)
  BY <1>1, EmptySeq
<1> DEFINE n == Len(f.blocks)
           old == f.blocks[n]
<1>3. old \in BlockFrame
  BY <1>1, <1>2, ElementOfSeq
<1>4. ASSUME NEW new \in BlockFrame, new.floor = old.floor, new.blockcount <= n
      PROVE  /\ FrameOK(p, [f EXCEPT !.blocks = [f.blocks EXCEPT ![n] = new]])
             /\ [f EXCEPT !.blocks = [f.blocks EXCEPT ![n] = new]].base = f.base
  <2> DEFINE bs == [f.blocks EXCEPT ![n] = new]
             g  == [f EXCEPT !.blocks = bs]
  <2>1. /\ bs \in Seq(BlockFrame)
        /\ Len(bs) = n
        /\ \A j \in 1 .. n : bs[j] = IF j = n THEN new ELSE f.blocks[j]
    BY <1>1, <1>2, ExceptSeq
  <2>2. g \in Frame /\ g.blocks = bs /\ g.locals = f.locals /\ g.meth = f.meth
        /\ g.retval = f.retval /\ g.base = f.base
    BY <1>1, <2>1 DEF Frame
  <2> HIDE DEF bs
  <2>3. /\ \A j \in 1 .. n : bs[j].floor = f.blocks[j].floor
        /\ \A j \in 1 .. n : bs[j].blockcount <= j
    BY <1>1, <1>4, <2>1 DEF BlocksOK
  <2>4. BlocksOK(bs, Len(f.locals))
    BY <1>1, <2>1, <2>3 DEF BlocksOK
  <2> HIDE DEF g
  <2>5. FrameOK(p, g)
    BY <2>2, <2>4 DEF FrameOK
  <2>6. QED
    BY <2>2, <2>5 DEF g, bs
<1>5. setBreak(f, target) =
        [f EXCEPT !.blocks = [f.blocks EXCEPT ![n] =
           [old EXCEPT !.breakpc = target, !.blockcount = n]]]
  BY <1>1, <1>2, <1>3 DEF setBreak, Frame, BlockFrame
<1>6. setTry(f, target) =
        [f EXCEPT !.blocks = [f.blocks EXCEPT ![n] = [old EXCEPT !.catchpc = target]]]
  BY <1>1, <1>2, <1>3 DEF setTry, Frame, BlockFrame
<1> HIDE DEF old
<1>7. /\ [old EXCEPT !.breakpc = target, !.blockcount = n] \in BlockFrame
      /\ [old EXCEPT !.breakpc = target, !.blockcount = n].floor = old.floor
      /\ [old EXCEPT !.breakpc = target, !.blockcount = n].blockcount <= n
  <2>1. n \in Nat
    BY <1>1, LenProperties
  <2> HIDE DEF n
  <2>2. [old EXCEPT !.breakpc = target, !.blockcount = n] \in BlockFrame
    BY <1>3, <2>1 DEF BlockFrame
  <2>3. [old EXCEPT !.breakpc = target, !.blockcount = n].floor = old.floor
    BY <1>3, <2>1 DEF BlockFrame
  <2>4. [old EXCEPT !.breakpc = target, !.blockcount = n].blockcount = n
    BY <1>3, <2>1 DEF BlockFrame
  <2>5. QED
    BY <2>1, <2>2, <2>3, <2>4
<1>8. /\ [old EXCEPT !.catchpc = target] \in BlockFrame
      /\ [old EXCEPT !.catchpc = target].floor = old.floor
      /\ [old EXCEPT !.catchpc = target].blockcount <= n
  BY <1>1, <1>2, <1>3 DEF BlocksOK, BlockFrame, old
<1> HIDE DEF n
<1>9. QED
  BY <1>4, <1>5, <1>6, <1>7, <1>8

(* A nonempty set of numbers up to n has a greatest element.               *)
LEMMA MaxExists ==
  ASSUME NEW n \in Nat, NEW S, S \subseteq 1 .. n, S # {}
  PROVE  \E k \in S : \A j \in S : j <= k
<1> DEFINE R == OpToRel(<, Nat)
           T == {n - k : k \in S}
<1>1. T \subseteq Nat /\ T # {}
  <2>1. T \subseteq Nat
    OBVIOUS
  <2>2. PICK k \in S : TRUE
    OBVIOUS
  <2>3. n - k \in T
    BY <2>2
  <2>4. QED
    BY <2>1, <2>3
<1>2. IsWellFoundedOn(R, Nat)
  BY NatLessThanWellFounded
<1>3. \E x \in T : \A y \in T : ~(<<y, x>> \in R)
  BY <1>1, <1>2, WFMin
<1>4. PICK x \in T : \A y \in T : ~(<<y, x>> \in R)
  BY <1>3
<1>5. \A y \in T : ~(y < x)
  BY <1>1, <1>4 DEF OpToRel
<1>6. PICK k \in S : x = n - k
  BY <1>4
<1>7. \A j \in S : ~(n - j < n - k)
  BY <1>5, <1>6
<1>8. QED
  BY <1>6, <1>7

(* Looking for a handler leaves blocks and sets the pc (getCatch).         *)
LEMMA CatchKeepsFrame ==
  ASSUME NEW p, NEW f, FrameOK(p, f)
  PROVE  FrameOK(p, getCatch(f)) /\ getCatch(f).base = f.base
<1>1. f \in Frame /\ f.blocks \in Seq(BlockFrame)
  BY DEF FrameOK, BlocksOK
<1>2. ASSUME NEW k \in Nat, NEW pc \in Int
      PROVE  /\ FrameOK(p, [leaveTo(f, k) EXCEPT !.pc = pc])
             /\ [leaveTo(f, k) EXCEPT !.pc = pc].base = f.base
  <2>1. FrameOK(p, leaveTo(f, k)) /\ leaveTo(f, k).base = f.base
    BY LeaveKeepsFrame
  <2>2. "NONE" \in Errors /\ Void \in Plain
    BY ConstantsArePlain DEF Errors
  <2>3. FrameOK(p, [leaveTo(f, k) EXCEPT !.pc = pc])
    BY <2>1, <2>2, MarkKeepsFrame
  <2>4. [leaveTo(f, k) EXCEPT !.pc = pc].base = leaveTo(f, k).base
    BY <2>1 DEF FrameOK, Frame
  <2>5. QED
    BY <2>1, <2>3, <2>4
<1>3. CASE Handlers(f) = {}
  <2>1. getCatch(f) = [leaveTo(f, 0) EXCEPT !.pc = -1]
    BY <1>3 DEF getCatch
  <2>2. QED
    BY <1>2, <2>1
<1>4. CASE Handlers(f) # {}
  <2> DEFINE k == CHOOSE k \in Handlers(f) : \A j \in Handlers(f) : j <= k
  <2>1. Len(f.blocks) \in Nat /\ Handlers(f) \subseteq 1 .. Len(f.blocks)
    BY <1>1, LenProperties DEF Handlers
  <2>2. \E i \in Handlers(f) : \A j \in Handlers(f) : j <= i
    BY <1>4, <2>1, MaxExists
  <2>3. k \in Handlers(f)
    BY <2>2
  <2>4. getCatch(f) = [leaveTo(f, k) EXCEPT !.pc = f.blocks[k].catchpc]
    BY <1>4 DEF getCatch
  <2> HIDE DEF k
  <2>5. k \in Nat /\ k \in 1 .. Len(f.blocks)
    BY <2>1, <2>3
  <2>6. f.blocks[k].catchpc \in Int
    <3>1. f.blocks[k] \in BlockFrame
      BY <1>1, <2>5, ElementOfSeq
    <3>2. QED
      BY <3>1 DEF BlockFrame
  <2>7. QED
    BY <1>2, <2>4, <2>5, <2>6
<1>5. QED
  BY <1>3, <1>4

-----------------------------------------------------------------------------
(* Operations on the frames.                                               *)

(* The current frame may be replaced by one with the same base.            *)
LEMMA TopKeepsFrames ==
  ASSUME NEW p, NEW fs, FramesOK(p, fs), fs # << >>,
         NEW g, FrameOK(p, g), g.base = fs[Len(fs)].base
  PROVE  /\ FramesOK(p, [fs EXCEPT ![Len(fs)] = g])
         /\ [fs EXCEPT ![Len(fs)] = g] # << >>
         /\ Len([fs EXCEPT ![Len(fs)] = g]) = Len(fs)
<1> DEFINE gs == [fs EXCEPT ![Len(fs)] = g]
<1>1. fs \in Seq(Frame) /\ g \in Frame
  BY DEF FramesOK, FrameOK
<1>2. Len(fs) \in 1 .. Len(fs)
  BY <1>1, EmptySeq
<1>3. /\ gs \in Seq(Frame) /\ Len(gs) = Len(fs)
      /\ \A j \in 1 .. Len(fs) : gs[j] = IF j = Len(fs) THEN g ELSE fs[j]
  BY <1>1, <1>2, ExceptSeq
<1> HIDE DEF gs
<1>4. \A j \in 1 .. Len(gs) : FrameOK(p, gs[j])
  BY <1>3 DEF FramesOK
<1>5. gs # << >> /\ gs[1].base = 0
  BY <1>2, <1>3 DEF FramesOK
<1>6. QED
  BY <1>3, <1>4, <1>5 DEF FramesOK, gs

(* A frame may be pushed (enterFrame).                                     *)
LEMMA PushKeepsFrames ==
  ASSUME NEW p, NEW fs, FramesOK(p, fs),
         NEW g, FrameOK(p, g), fs = << >> => g.base = 0
  PROVE  FramesOK(p, Append(fs, g)) /\ Append(fs, g) # << >>
<1> DEFINE gs == Append(fs, g)
<1>1. fs \in Seq(Frame) /\ g \in Frame /\ Len(fs) \in Nat
  BY LenProperties DEF FramesOK, FrameOK
<1>2. /\ gs \in Seq(Frame) /\ Len(gs) = Len(fs) + 1
      /\ \A j \in 1 .. Len(gs) : gs[j] = IF j = Len(fs) + 1 THEN g ELSE fs[j]
  BY <1>1
<1>3. fs = << >> <=> Len(fs) = 0
  BY <1>1, EmptySeq
<1> HIDE DEF gs
<1>4. \A j \in 1 .. Len(gs) : FrameOK(p, gs[j])
  BY <1>1, <1>2 DEF FramesOK
<1>5. gs # << >> /\ gs[1].base = 0
  BY <1>1, <1>2, <1>3 DEF FramesOK
<1>6. QED
  BY <1>2, <1>4, <1>5 DEF FramesOK, gs

(* The first frames of well formed frames are well formed (leaveFrame).    *)
LEMMA PopKeepsFrames ==
  ASSUME NEW p, NEW fs, FramesOK(p, fs), NEW n \in 0 .. Len(fs)
  PROVE  FramesOK(p, SubSeq(fs, 1, n))
<1> DEFINE gs == SubSeq(fs, 1, n)
<1>1. fs \in Seq(Frame) /\ Len(fs) \in Nat
  BY LenProperties DEF FramesOK
<1>2. \A i \in 1 .. n : fs[i] \in Frame
  BY <1>1, ElementOfSeq
<1>3. /\ gs \in Seq(Frame) /\ Len(gs) = n
      /\ \A i \in 1 .. n : gs[i] = fs[i]
  BY <1>1, <1>2, SubSeqProperties
<1>4. fs = << >> => Len(fs) = 0
  BY EmptySeq
<1>5. gs # << >> => n # 0
  BY <1>3, EmptySeq
<1> HIDE DEF gs
<1>6. \A j \in 1 .. Len(gs) : FrameOK(p, gs[j])
  BY <1>1, <1>3 DEF FramesOK
<1>7. gs # << >> => gs[1].base = 0
  BY <1>1, <1>3, <1>4, <1>5 DEF FramesOK
<1>8. QED
  BY <1>3, <1>6, <1>7 DEF FramesOK, gs

(* A local may be assigned through a reference (varAssign).                *)
LEMMA StoreKeepsFrames ==
  ASSUME NEW p, NEW fs, FramesOK(p, fs), fs # << >>, NEW r \in Value, NEW x \in Plain
  PROVE  FramesOK(p, StoreIn(fs, r, x)) /\ StoreIn(fs, r, x) # << >>
<1>1. CASE ~(r.f \in DOMAIN fs /\ r.v \in DOMAIN fs[r.f].locals)
  BY <1>1 DEF StoreIn
<1>2. CASE r.f \in DOMAIN fs /\ r.v \in DOMAIN fs[r.f].locals
  <2> DEFINE k  == r.f
             f  == fs[k]
             ls == [f.locals EXCEPT ![r.v] = x]
             g  == [f EXCEPT !.locals = ls]
             gs == [fs EXCEPT ![k] = g]
  <2>1. fs \in Seq(Frame) /\ k \in 1 .. Len(fs)
    BY <1>2, LenProperties DEF FramesOK
  <2>2. FrameOK(p, f) /\ f \in Frame /\ f.locals \in Seq(Plain)
    BY <2>1 DEF FramesOK, FrameOK
  <2>3. r.v \in 1 .. Len(f.locals)
    BY <1>2, <2>2, LenProperties
  <2>4. ls \in Seq(Plain) /\ Len(ls) = Len(f.locals)
    BY <2>2, <2>3, ExceptSeq
  <2>5. ls \in Seq(Value)
    BY <2>4, ConstantsArePlain, SeqMonotonic
  <2>6. StoreIn(fs, r, x) = gs
    BY <1>2, <2>1, <2>2 DEF StoreIn, Frame
  <2> HIDE DEF ls
  <2>7. /\ g \in Frame /\ g.locals = ls /\ g.blocks = f.blocks
        /\ g.meth = f.meth /\ g.retval = f.retval /\ g.base = f.base
    BY <2>2, <2>5 DEF Frame
  <2> HIDE DEF g
  <2>8. FrameOK(p, g)
    BY <2>2, <2>4, <2>7 DEF FrameOK
  <2>9. /\ gs \in Seq(Frame) /\ Len(gs) = Len(fs)
        /\ \A j \in 1 .. Len(fs) : gs[j] = IF j = k THEN g ELSE fs[j]
    BY <2>1, <2>7, ExceptSeq
  <2> HIDE DEF gs
  <2>10. \A j \in 1 .. Len(gs) : FrameOK(p, gs[j])
    BY <2>8, <2>9 DEF FramesOK
  <2>11. gs # << >> /\ gs[1].base = 0
    <3>1. Len(fs) \in Nat /\ 1 \in 1 .. Len(fs)
      BY <2>1, LenProperties
    <3>2. gs[1].base = fs[1].base
      BY <2>7, <2>9, <3>1
    <3>3. QED
      BY <2>9, <3>1, <3>2, EmptySeq DEF FramesOK
  <2>12. QED
    BY <2>6, <2>9, <2>10, <2>11 DEF FramesOK
<1>3. QED
  BY <1>1, <1>2

-----------------------------------------------------------------------------
(* The instruction at hand.                                                *)

(* The frame that runs belongs to a method of a loaded program.            *)
LEMMA CurrentFrame ==
  ASSUME IInv, frames # << >>
  PROVE  /\ FrameOK(prog, curframe) /\ curframe \in Frame
         /\ Len(frames) \in Nat \ {0}
         /\ curframe.meth \in 1 .. Len(prog.methods)
         /\ IsProgram(prog)
<1>1. FramesOK(prog, frames) /\ prog \in Programs /\ frames \in Seq(Frame)
  BY DEF IInv, FramesOK
<1>2. Len(frames) \in Nat \ {0}
  BY <1>1, EmptySeq
<1>3. FrameOK(prog, curframe)
  BY <1>1, <1>2 DEF FramesOK, curframe
<1>4. IsProgram(prog)
  BY <1>1, ProgramsAssumption
<1>5. QED
  BY <1>2, <1>3, <1>4 DEF FrameOK, IsProgram

(* Its instruction has the arguments that its opcode asks for (the         *)
(* decoding in _interp).                                                   *)
LEMMA CurrentInstr ==
  ASSUME IInv, Fetches
  PROVE  /\ frames # << >>
         /\ instr \in Instr /\ nextpc \in Int
         /\ instr.op = "SCALL" => instr.arg \in 0 .. Len(prog.methods)
         /\ instr.op = "PUSH" /\ instr.mode = "CONST" => prog.consts[instr.arg] \in Plain
         /\ instr.op = "PUSH" => instr.mode \in {"IM", "CONST"}
         /\ instr.op \in {"ENTER", "LVALUE"} => instr.arg \in Nat
<1>1. frames # << >> /\ curframe.pc \in DOMAIN curmethod.code
  BY DEF Fetches, Looping
<1>2. /\ FrameOK(prog, curframe) /\ curframe \in Frame
      /\ curframe.meth \in DOMAIN prog.methods
      /\ IsProgram(prog)
  BY <1>1, CurrentFrame DEF IsProgram
<1>3. IsMethod(prog.methods[curframe.meth])
  BY <1>2 DEF IsProgram
<1>4. instr \in Instr
  BY <1>1, <1>3 DEF IsMethod, instr, curmethod
<1>5. curframe.pc \in Int
  BY <1>2 DEF Frame
<1>6. nextpc \in Int
  BY <1>5 DEF nextpc, Width
<1>7. /\ instr.op = "SCALL" => instr.arg \in 0 .. Len(prog.methods)
      /\ instr.op = "PUSH" /\ instr.mode = "CONST" => instr.arg \in DOMAIN prog.consts
      /\ instr.op = "PUSH" => instr.mode # "BLOCK"
      /\ instr.op \in {"ENTER", "LVALUE"} => instr.arg \in Nat
  BY <1>1, <1>2 DEF IsProgram, instr, curmethod
<1>8. \A c \in DOMAIN prog.consts : prog.consts[c] \in Plain
  BY <1>2 DEF IsProgram
<1>9. instr.mode \in {"IM", "CONST", "BLOCK"}
  BY <1>4 DEF Instr
<1>10. QED
  BY <1>1, <1>4, <1>6, <1>7, <1>8, <1>9

(* Moving the pc and reporting an error.                                   *)
LEMMA AdvancedOK ==
  ASSUME IInv, Fetches
  PROVE  /\ FrameOK(prog, Advanced)
         /\ Advanced.base = curframe.base /\ Advanced.blocks = curframe.blocks
         /\ \A e \in Errors : FrameOK(prog, Failed(e)) /\ Failed(e).base = curframe.base
         /\ \A pc \in Int : /\ FrameOK(prog, [curframe EXCEPT !.pc = pc])
                             /\ [curframe EXCEPT !.pc = pc].base = curframe.base
<1>1. FrameOK(prog, curframe) /\ curframe \in Frame /\ nextpc \in Int
  BY CurrentFrame, CurrentInstr
<1>2. "NONE" \in Errors /\ Void \in Plain
  BY ConstantsArePlain DEF Errors
<1>3. ASSUME NEW pc \in Int
      PROVE  /\ FrameOK(prog, [curframe EXCEPT !.pc = pc])
             /\ [curframe EXCEPT !.pc = pc].base = curframe.base
             /\ [curframe EXCEPT !.pc = pc].blocks = curframe.blocks
  <2>1. FrameOK(prog, [curframe EXCEPT !.pc = pc])
    BY <1>1, <1>2, MarkKeepsFrame
  <2>2. QED
    BY <1>1, <2>1 DEF Frame
<1>4. FrameOK(prog, Advanced) /\ Advanced.base = curframe.base /\ Advanced.blocks = curframe.blocks
  BY <1>1, <1>3 DEF Advanced
<1>5. ASSUME NEW e \in Errors
      PROVE  FrameOK(prog, Failed(e)) /\ Failed(e).base = curframe.base
  <2>1. FrameOK(prog, Failed(e))
    BY <1>1, <1>2, <1>4, MarkKeepsFrame DEF Failed
  <2>2. Advanced \in Frame
    BY <1>4 DEF FrameOK
  <2>3. Failed(e).base = Advanced.base
    BY <2>2 DEF Failed, Frame
  <2>4. QED
    BY <1>4, <2>1, <2>3
<1>6. QED
  BY <1>3, <1>4, <1>5

(* Replacing the frame that runs.                                          *)
LEMMA SetTopOK ==
  ASSUME IInv, frames # << >>, NEW g, FrameOK(prog, g), g.base = curframe.base
  PROVE  FramesOK(prog, SetTop(g)) /\ SetTop(g) # << >> /\ Len(SetTop(g)) = Len(frames)
BY TopKeepsFrames DEF IInv, SetTop, curframe

(* Popping and reading operands (stackPop, stackPeek0 and stackPeek1).     *)
LEMMA StackOK ==
  ASSUME IInv, NEW n \in 0 .. Len(stack)
  PROVE  /\ Drop(n) \in Seq(Value) /\ Len(Drop(n)) = Len(stack) - n
         /\ n < Len(stack) => Peek(n) \in Value
<1>1. stack \in Seq(Value) /\ Len(stack) \in Nat
  BY LenProperties DEF IInv
<1>2. \A i \in 1 .. Len(stack) : stack[i] \in Value
  BY <1>1, ElementOfSeq
<1>3. Drop(n) \in Seq(Value) /\ Len(Drop(n)) = Len(stack) - n
  BY <1>1, <1>2, SubSeqProperties DEF Drop
<1>4. n < Len(stack) => Peek(n) \in Value
  BY <1>1, <1>2 DEF Peek
<1>5. QED
  BY <1>3, <1>4

(* A step that touches nothing but the stack, the frames and the fault     *)
(* keeps the invariant if the stack and the frames remain well formed.     *)
LEMMA KeepInv ==
  ASSUME IInv, UNCHANGED <<prog, answers, out, results>>,
         stack' \in Seq(Value),
         FramesOK(prog, frames'), frames' # << >>,
         fault' \in {"none", "underflow", "wild", "trap"}
  PROVE  IInv'
<1>1. FramesOK(prog, frames)'
  BY DEF FramesOK, FrameOK, BlocksOK
<1>2. IdleClean'
  BY DEF IdleClean
<1>3. QED
  BY <1>1, <1>2 DEF IInv

-----------------------------------------------------------------------------
(* One lemma for every group of actions.                                   *)

(* How many operands an instruction that executes finds.                   *)
LEMMA OperandsAre ==
  ASSUME IInv, NEW ops, Exec(ops)
  PROVE  /\ Fetches /\ instr.op \in ops /\ Len(stack) \in Nat
         /\ instr.op \in BinOps \cup {"ASSIGN", "ROT"} => 2 <= Len(stack)
         /\ instr.op = "ROT3" => 3 <= Len(stack)
         /\ instr.op \in UnOps \cup {"POP", "DUP", "RVALUE", "RET", "JMPZ", "JMPNZ",
                                   "INC", "DEC", "PINC", "PDEC"} => 1 <= Len(stack)
         /\ instr.op = "SCALL" /\ instr.arg # 0 => Callee.args <= Len(stack)
         /\ instr.op = "THROW" /\ Handlers(curframe) = {} => 1 <= Len(stack)
<1>1. Fetches /\ instr.op \in ops /\ Operands(instr) <= Len(stack)
  BY DEF Exec
<1>2. Len(stack) \in Nat
  BY LenProperties DEF IInv
<1>3. instr.op \in BinOps \cup {"ASSIGN", "ROT"} => Operands(instr) = 2
  BY DEF Operands, BinOps, UnOps, Compare, Arith, BitOps, Shifts, Logic
<1>4. instr.op = "ROT3" => Operands(instr) = 3
  BY DEF Operands, BinOps, UnOps, Compare, Arith, BitOps, Shifts, Logic
<1>5. instr.op \in UnOps \cup {"POP", "DUP", "RVALUE", "RET", "JMPZ", "JMPNZ",
                             "INC", "DEC", "PINC", "PDEC"} => Operands(instr) = 1
  BY DEF Operands, BinOps, UnOps, Compare, Arith, BitOps, Shifts, Logic
<1>6. instr.op = "SCALL" /\ instr.arg # 0 => Operands(instr) = Callee.args
  BY DEF Operands, Callee, BinOps, UnOps, Compare, Arith, BitOps, Shifts, Logic
<1>7. instr.op = "THROW" /\ Handlers(curframe) = {} => Operands(instr) = 1
  BY DEF Operands, BinOps, UnOps, Compare, Arith, BitOps, Shifts, Logic
<1>8. QED
  BY <1>1, <1>2, <1>3, <1>4, <1>5, <1>6, <1>7

(* Instructions that only move the pc and operands.                        *)
LEMMA StraightKeepsInv ==
  ASSUME IInv, UNCHANGED prog, DoNop \/ DoPush \/ DoDup \/ DoPop \/ DoRot \/ DoRvalue
  PROVE  IInv'
<1>1. Fetches /\ frames' = SetTop(Advanced) /\ UNCHANGED Inner
  BY DEF DoNop, DoPush, DoDup, DoPop, DoRot, DoRvalue, Exec
<1>2. frames # << >>
  BY <1>1, CurrentInstr
<1>3. FramesOK(prog, frames') /\ frames' # << >>
  BY <1>1, <1>2, AdvancedOK, SetTopOK
<1>4. stack \in Seq(Value) /\ Len(stack) \in Nat
  BY LenProperties DEF IInv
<1>5. stack' \in Seq(Value)
  <2>1. CASE DoNop
    BY <1>4, <2>1 DEF DoNop
  <2>2. CASE DoPush
    <3>1. instr.arg \in Int
      BY <1>1, CurrentInstr DEF Instr
    <3>2. /\ instr.op \in {"NULL", "PUSH"}
          /\ instr.op = "PUSH" /\ instr.mode = "CONST" => prog.consts[instr.arg] \in Plain
          /\ instr.op = "PUSH" => instr.mode \in {"IM", "CONST"}
      BY <1>1, <2>2, CurrentInstr DEF DoPush, Exec
    <3>3. (IF instr.op = "NULL" THEN Null
           ELSE IF instr.mode = "IM" THEN IntV(instr.arg)
           ELSE prog.consts[instr.arg]) \in Value
      BY <3>1, <3>2, ConstantsArePlain
    <3>4. QED
      BY <1>4, <2>2, <3>3 DEF DoPush
  <2>3. CASE DoDup
    <3>1. Exec({"DUP"})
      BY <2>3 DEF DoDup
    <3>2. 1 <= Len(stack)
      BY <3>1, OperandsAre
    <3>3. Peek(0) \in Value
      BY <1>4, <3>2, StackOK
    <3>4. QED
      BY <1>4, <2>3, <3>3 DEF DoDup
  <2>4. CASE DoPop
    <3>1. Exec({"POP"})
      BY <2>4 DEF DoPop
    <3>2. 1 <= Len(stack)
      BY <3>1, OperandsAre
    <3>3. QED
      BY <1>4, <2>4, <3>2, StackOK DEF DoPop
  <2>5. CASE DoRot
    <3> DEFINE d == IF instr.op = "ROT" THEN 1 ELSE 2
    <3>1. Exec({"ROT", "ROT3"})
      BY <2>5 DEF DoRot
    <3>2. d \in 1 .. 2 /\ d < Len(stack)
      BY <1>4, <3>1, OperandsAre
    <3>3. Peek(0) \in Value /\ Peek(d) \in Value
      BY <1>4, <3>2, StackOK
    <3>4. stack' = [stack EXCEPT ![Len(stack)] = Peek(d), ![Len(stack) - d] = Peek(0)]
      BY <2>5 DEF DoRot
    <3> HIDE DEF d
    <3>5. [stack EXCEPT ![Len(stack)] = Peek(d)] \in Seq(Value)
      BY <1>4, <3>2, <3>3
    <3>6. QED
      BY <1>4, <3>2, <3>3, <3>4, <3>5
  <2>6. CASE DoRvalue
    <3>1. Exec({"RVALUE"})
      BY <2>6 DEF DoRvalue
    <3>2. 1 <= Len(stack)
      BY <3>1, OperandsAre
    <3>3. stack[Len(stack)] \in Value /\ Len(stack) \in 1 .. Len(stack)
      BY <1>4, <3>2, ElementOfSeq
    <3>4. Deref(stack[Len(stack)]) \in Value
      BY <3>3, DerefIsPlain, ConstantsArePlain DEF Deref, IInv
    <3>5. stack' = [stack EXCEPT ![Len(stack)] = Deref(stack[Len(stack)])]
      BY <2>6 DEF DoRvalue
    <3>6. QED
      BY <1>4, <3>3, <3>4, <3>5, ExceptSeq
  <2>7. QED
    BY <2>1, <2>2, <2>3, <2>4, <2>5, <2>6
<1>6. QED
  BY <1>1, <1>3, <1>5, KeepInv DEF IInv, Inner

(* LVALUE pushes a reference, ASSIGN stores through one.                   *)
LEMMA VariablesKeepInv ==
  ASSUME IInv, UNCHANGED prog, DoLvalue \/ DoAssign
  PROVE  IInv'
<1>1. Fetches /\ UNCHANGED <<answers, out, results>>
  BY DEF DoLvalue, DoAssign, Exec
<1>2. frames # << >>
  BY <1>1, CurrentInstr
<1>3. FramesOK(prog, SetTop(Advanced)) /\ SetTop(Advanced) # << >>
  BY <1>1, <1>2, AdvancedOK, SetTopOK
<1>4. stack \in Seq(Value) /\ Len(stack) \in Nat /\ FramesOK(prog, frames)
      /\ fault \in {"none", "underflow", "wild", "trap"}
  BY LenProperties DEF IInv
<1>5. CASE stack' = stack /\ frames' = frames /\ fault' = "wild"
  BY <1>1, <1>2, <1>4, <1>5, KeepInv
<1>6. CASE DoLvalue /\ ~(stack' = stack /\ frames' = frames /\ fault' = "wild")
  <2>1. /\ stack' = Append(stack, PtrV(Len(frames), instr.arg + 1))
        /\ frames' = SetTop(Advanced) /\ fault' = fault
        /\ instr.op = "LVALUE"
    BY <1>6 DEF DoLvalue, Exec
  <2>2. instr.arg \in Nat /\ Len(frames) \in Nat
    BY <1>1, <1>2, <2>1, CurrentInstr, CurrentFrame
  <2>3. PtrV(Len(frames), instr.arg + 1) \in Value
    BY <2>2 DEF PtrV, Value, Types
  <2>4. stack' \in Seq(Value)
    BY <1>4, <2>1, <2>3
  <2>5. QED
    BY <1>1, <1>3, <1>4, <2>1, <2>4, KeepInv
<1>7. CASE DoAssign /\ ~(stack' = stack /\ frames' = frames /\ fault' = "wild")
  <2>1. /\ frames' = StoreIn(SetTop(Advanced), Peek(1), Deref(Peek(0)))
        /\ stack' = Drop(2) /\ fault' = fault
        /\ Exec({"ASSIGN"})
    BY <1>7 DEF DoAssign
  <2>2. 2 <= Len(stack)
    BY <2>1, OperandsAre
  <2>3. Peek(0) \in Value /\ Peek(1) \in Value /\ Drop(2) \in Seq(Value)
    <3>1. 0 \in 0 .. Len(stack) /\ 1 \in 0 .. Len(stack) /\ 2 \in 0 .. Len(stack)
      BY <1>4, <2>2
    <3>2. 0 < Len(stack) /\ 1 < Len(stack)
      BY <1>4, <2>2
    <3>3. Peek(0) \in Value
      BY <3>1, <3>2, StackOK
    <3>4. Peek(1) \in Value
      BY <3>1, <3>2, StackOK
    <3>5. Drop(2) \in Seq(Value)
      BY <3>1, StackOK
    <3>6. QED
      BY <3>3, <3>4, <3>5
  <2>4. Deref(Peek(0)) \in Plain
    BY <1>4, <2>3, DerefIsPlain DEF Deref
  <2>5. FramesOK(prog, frames') /\ frames' # << >>
    BY <1>3, <2>1, <2>3, <2>4, StoreKeepsFrames
  <2>6. QED
    BY <1>1, <1>4, <2>1, <2>3, <2>5, KeepInv
<1>8. QED
  BY <1>5, <1>6, <1>7

(* Binary operators replace two operands by a value.                       *)
LEMMA BinOpKeepsInv ==
  ASSUME IInv, UNCHANGED prog, DoBinOp
  PROVE  IInv'
<1> DEFINE res == VarBinOp(instr.op, Deref(Peek(1)), Deref(Peek(0)))
<1>1. /\ Exec(BinOps) /\ UNCHANGED <<answers, out, results>>
      /\ stack' = IF res.r = "ok" THEN Append(Drop(2), res.val) ELSE stack
      /\ frames' = SetTop(IF res.r = "mismatch" THEN Failed("TYPE_MISMATCH") ELSE Advanced)
      /\ fault' = IF res.r = "trap" THEN "trap" ELSE fault
  BY DEF DoBinOp
<1>2. Fetches /\ instr.op \in BinOps /\ 2 <= Len(stack) /\ Len(stack) \in Nat
  BY <1>1, OperandsAre
<1>3. Peek(0) \in Value /\ Peek(1) \in Value /\ Drop(2) \in Seq(Value)
  BY <1>2, StackOK
<1>4. Deref(Peek(0)) \in Value /\ Deref(Peek(1)) \in Value
  BY <1>3, DerefIsPlain, ConstantsArePlain DEF Deref, IInv
<1>5. res.val \in Value
  BY <1>2, <1>4, BinOpIsPlain, ConstantsArePlain
<1> HIDE DEF res
<1>6. stack' \in Seq(Value)
  BY <1>1, <1>3, <1>5 DEF IInv
<1>7. FramesOK(prog, frames') /\ frames' # << >>
  <2>1. frames # << >> /\ "TYPE_MISMATCH" \in Errors
    BY <1>2, CurrentInstr DEF Errors
  <2>2. /\ FrameOK(prog, Advanced) /\ Advanced.base = curframe.base
        /\ FrameOK(prog, Failed("TYPE_MISMATCH")) /\ Failed("TYPE_MISMATCH").base = curframe.base
    BY <1>2, <2>1, AdvancedOK
  <2>3. QED
    BY <1>1, <2>1, <2>2, SetTopOK
<1>8. fault' \in {"none", "underflow", "wild", "trap"}
  BY <1>1 DEF IInv
<1>9. QED
  BY <1>1, <1>6, <1>7, <1>8, KeepInv

(* Unary operators replace the operand or the variable it refers to.       *)
LEMMA UnOpKeepsInv ==
  ASSUME IInv, UNCHANGED prog, DoUnOp
  PROVE  IInv'
<1> DEFINE res == VarUnOp(instr.op, Deref(Peek(0)))
<1>1. /\ Exec(UnOps) /\ UNCHANGED Inner
      /\ IF res.r # "ok"
         THEN frames' = SetTop(Failed("TYPE_MISMATCH")) /\ UNCHANGED stack
         ELSE IF Peek(0).t = "PTR"
         THEN frames' = StoreIn(SetTop(Advanced), Peek(0), res.val) /\ UNCHANGED stack
         ELSE stack' = Append(Drop(1), res.val) /\ frames' = SetTop(Advanced)
  BY DEF DoUnOp
<1>2. Fetches /\ 1 <= Len(stack) /\ Len(stack) \in Nat
  BY <1>1, OperandsAre
<1>3. Peek(0) \in Value /\ Drop(1) \in Seq(Value)
  BY <1>2, StackOK
<1>4. Deref(Peek(0)) \in Value
  BY <1>3, DerefIsPlain, ConstantsArePlain DEF Deref, IInv
<1>5. res.val \in Plain /\ res.val \in Value
  BY <1>4, UnOpIsPlain, ConstantsArePlain
<1> HIDE DEF res
<1>6. stack' \in Seq(Value)
  <2>1. stack \in Seq(Value) /\ Append(Drop(1), res.val) \in Seq(Value)
    BY <1>3, <1>5 DEF IInv
  <2>2. stack' = stack \/ stack' = Append(Drop(1), res.val)
    BY <1>1
  <2>3. QED
    BY <2>1, <2>2
<1>7. FramesOK(prog, frames') /\ frames' # << >>
  <2>1. frames # << >> /\ "TYPE_MISMATCH" \in Errors
    BY <1>2, CurrentInstr DEF Errors
  <2>2. /\ FrameOK(prog, Advanced) /\ Advanced.base = curframe.base
        /\ FrameOK(prog, Failed("TYPE_MISMATCH")) /\ Failed("TYPE_MISMATCH").base = curframe.base
    BY <1>2, <2>1, AdvancedOK
  <2>3. /\ FramesOK(prog, SetTop(Advanced)) /\ SetTop(Advanced) # << >>
        /\ FramesOK(prog, SetTop(Failed("TYPE_MISMATCH"))) /\ SetTop(Failed("TYPE_MISMATCH")) # << >>
    BY <2>1, <2>2, SetTopOK
  <2>4. /\ FramesOK(prog, StoreIn(SetTop(Advanced), Peek(0), res.val))
        /\ StoreIn(SetTop(Advanced), Peek(0), res.val) # << >>
    BY <1>3, <1>5, <2>3, StoreKeepsFrames
  <2>5. QED
    BY <1>1, <2>3, <2>4
<1>8. QED
  BY <1>1, <1>6, <1>7, KeepInv DEF IInv, Inner

(* ++ and -- replace the reference and change the variable.                *)
LEMMA IncDecKeepsInv ==
  ASSUME IInv, UNCHANGED prog, DoIncDec
  PROVE  IInv'
<1> DEFINE old == Deref(Peek(0))
           new == [old EXCEPT !.v = Wrap(IF instr.op \in {"INC", "PINC"}
                                         THEN old.v + 1 ELSE old.v - 1)]
           postfix == instr.op \in {"PINC", "PDEC"}
<1>1. /\ Exec({"INC", "DEC", "PINC", "PDEC"}) /\ UNCHANGED <<answers, out, results>>
      /\ \/ fault' = "wild" /\ UNCHANGED <<stack, frames>>
         \/ /\ frames' = StoreIn(SetTop(Advanced), Peek(0), new)
            /\ stack' = Append(Drop(1), IF postfix THEN old ELSE new)
            /\ UNCHANGED fault
         \/ /\ frames' = SetTop(Failed("TYPE_MISMATCH"))
            /\ stack' = IF postfix THEN Append(Drop(1), old) ELSE stack
            /\ UNCHANGED fault
  BY DEF DoIncDec
<1>2. Fetches /\ 1 <= Len(stack) /\ Len(stack) \in Nat
  BY <1>1, OperandsAre
<1>3. Peek(0) \in Value /\ Drop(1) \in Seq(Value) /\ stack \in Seq(Value)
  BY <1>2, StackOK DEF IInv
<1>4. old \in Plain
  BY <1>3, DerefIsPlain DEF Deref, IInv
<1>5. new \in Plain
  <2>1. old.v \in Int
    BY <1>4 DEF Plain, Value
  <2>2. Wrap(old.v + 1) \in Int /\ Wrap(old.v - 1) \in Int
    <3>1. old.v + 1 \in Int /\ old.v - 1 \in Int
      BY <2>1
    <3>2. QED
      BY <3>1, WrapIsWord, WordIsInt
  <2> HIDE DEF old
  <2>3. QED
    BY <1>4, <2>2 DEF Plain, Value
<1>6. old \in Value /\ new \in Value
  BY <1>4, <1>5, ConstantsArePlain
<1> HIDE DEF old, new, postfix
<1>7. stack' \in Seq(Value)
  <2>1. \/ stack' = stack
        \/ stack' = Append(Drop(1), old) \/ stack' = Append(Drop(1), new)
    BY <1>1
  <2>2. Append(Drop(1), old) \in Seq(Value) /\ Append(Drop(1), new) \in Seq(Value)
    BY <1>3, <1>6
  <2>3. QED
    BY <1>3, <2>1, <2>2
<1>8. FramesOK(prog, frames') /\ frames' # << >>
  <2>1. frames # << >> /\ "TYPE_MISMATCH" \in Errors
    BY <1>2, CurrentInstr DEF Errors
  <2>2. /\ FrameOK(prog, Advanced) /\ Advanced.base = curframe.base
        /\ FrameOK(prog, Failed("TYPE_MISMATCH")) /\ Failed("TYPE_MISMATCH").base = curframe.base
    BY <1>2, <2>1, AdvancedOK
  <2>3. /\ FramesOK(prog, SetTop(Advanced)) /\ SetTop(Advanced) # << >>
        /\ FramesOK(prog, SetTop(Failed("TYPE_MISMATCH"))) /\ SetTop(Failed("TYPE_MISMATCH")) # << >>
    BY <2>1, <2>2, SetTopOK
  <2>4. /\ FramesOK(prog, StoreIn(SetTop(Advanced), Peek(0), new))
        /\ StoreIn(SetTop(Advanced), Peek(0), new) # << >>
    BY <1>3, <1>5, <2>3, StoreKeepsFrames
  <2>5. QED
    BY <1>1, <2>1, <2>3, <2>4 DEF IInv
<1>9. fault' \in {"none", "underflow", "wild", "trap"}
  BY <1>1 DEF IInv
<1>10. QED
  BY <1>1, <1>7, <1>8, <1>9, KeepInv

(* Entering and leaving blocks, and what is noted in the block on top.     *)
LEMMA BlockOpsKeepInv ==
  ASSUME IInv, UNCHANGED prog, DoEnter \/ DoLeave \/ DoSetBreak \/ DoTry
  PROVE  IInv'
<1>1. Fetches /\ UNCHANGED <<stack, answers, out, results>> /\ stack \in Seq(Value)
  BY DEF DoEnter, DoLeave, DoSetBreak, DoTry, Exec, Inner, IInv
<1>2. /\ frames # << >> /\ instr.arg \in Int
      /\ instr.op = "ENTER" => instr.arg \in Nat
      /\ FrameOK(prog, Advanced) /\ Advanced.base = curframe.base
      /\ Advanced.blocks = curframe.blocks
      /\ FramesOK(prog, frames)
  BY <1>1, CurrentInstr, AdvancedOK DEF Instr, IInv
<1>3. CASE DoEnter
  <2>1. /\ frames' = SetTop(enterBlock(Advanced, instr.arg)) /\ fault' = fault
        /\ instr.arg \in Nat
    BY <1>2, <1>3 DEF DoEnter, Inner, Exec
  <2>2. /\ FrameOK(prog, enterBlock(Advanced, instr.arg))
        /\ enterBlock(Advanced, instr.arg).base = curframe.base
    BY <1>2, <2>1, EnterKeepsFrame
  <2>3. FramesOK(prog, frames') /\ frames' # << >>
    BY <1>2, <2>1, <2>2, SetTopOK
  <2>4. QED
    BY <1>1, <2>1, <2>3, KeepInv DEF IInv
<1>4. CASE DoLeave
  <2>1. frames' = SetTop(leaveBlock(Advanced)) /\ fault' = fault
    BY <1>4 DEF DoLeave, Inner
  <2>2. FrameOK(prog, leaveBlock(Advanced)) /\ leaveBlock(Advanced).base = curframe.base
    <3>1. CASE Advanced.blocks = << >>
      BY <1>2, <3>1 DEF leaveBlock
    <3>2. CASE Advanced.blocks # << >>
      <4>1. Advanced.blocks \in Seq(BlockFrame)
        BY <1>2 DEF FrameOK, BlocksOK
      <4>2. Len(Advanced.blocks) - 1 \in Nat
        BY <3>2, <4>1, EmptySeq
      <4>3. QED
        BY <1>2, <3>2, <4>2, LeaveKeepsFrame DEF leaveBlock
    <3>3. QED
      BY <3>1, <3>2
  <2>3. FramesOK(prog, frames') /\ frames' # << >>
    BY <1>2, <2>1, <2>2, SetTopOK
  <2>4. QED
    BY <1>1, <2>1, <2>3, KeepInv DEF IInv
<1>5. CASE (DoSetBreak \/ DoTry) /\ curframe.blocks = << >>
  <2>1. fault' = "wild" /\ frames' = frames
    BY <1>5 DEF DoSetBreak, DoTry
  <2>2. QED
    BY <1>1, <1>2, <2>1, KeepInv
<1>6. CASE (DoSetBreak \/ DoTry) /\ curframe.blocks # << >>
  <2>1. /\ \/ frames' = SetTop(setBreak(Advanced, instr.arg))
           \/ frames' = SetTop(setTry(Advanced, instr.arg))
        /\ fault' = fault
    BY <1>6 DEF DoSetBreak, DoTry
  <2>2. /\ FrameOK(prog, setBreak(Advanced, instr.arg))
        /\ setBreak(Advanced, instr.arg).base = curframe.base
        /\ FrameOK(prog, setTry(Advanced, instr.arg))
        /\ setTry(Advanced, instr.arg).base = curframe.base
    BY <1>2, <1>6, SetKeepsFrame
  <2>3. FramesOK(prog, frames') /\ frames' # << >>
    BY <1>2, <2>1, <2>2, SetTopOK
  <2>4. QED
    BY <1>1, <2>1, <2>3, KeepInv DEF IInv
<1>7. QED
  BY <1>3, <1>4, <1>5, <1>6

(* Unconditional jumps, break and continue among them.                     *)
LEMMA JumpsKeepInv ==
  ASSUME IInv, UNCHANGED prog, DoBreak \/ DoJmp
  PROVE  IInv'
<1>1. Fetches /\ UNCHANGED <<stack, answers, out, results, fault>> /\ stack \in Seq(Value)
  BY DEF DoBreak, DoJmp, Exec, Inner, IInv
<1>2. /\ frames # << >> /\ instr.arg \in Int
      /\ FrameOK(prog, curframe) /\ curframe \in Frame
  BY <1>1, CurrentInstr, CurrentFrame DEF Instr
<1>3. getBreak(curframe) \in Int
  <2>1. curframe.blocks \in Seq(BlockFrame)
    BY <1>2 DEF FrameOK, BlocksOK
  <2>2. CASE curframe.blocks = << >>
    BY <2>2 DEF getBreak
  <2>3. CASE curframe.blocks # << >>
    <3>1. Len(curframe.blocks) \in 1 .. Len(curframe.blocks)
      BY <2>1, <2>3, EmptySeq
    <3>2. curframe.blocks[Len(curframe.blocks)] \in BlockFrame
      BY <2>1, <3>1, ElementOfSeq
    <3>3. QED
      BY <2>3, <3>2 DEF getBreak, BlockFrame
  <2>4. QED
    BY <2>2, <2>3
<1>4. {"BAD_BREAK", "BAD_CONTINUE"} \subseteq Errors /\ Void \in Plain
  BY ConstantsArePlain DEF Errors
<1> DEFINE bad == [curframe EXCEPT !.pc = -1, !.err = "BAD_BREAK"]
<1>5. FrameOK(prog, bad) /\ bad.base = curframe.base
  <2>1. FrameOK(prog, bad)
    <3>1. -1 \in Int /\ "BAD_BREAK" \in Errors
      BY DEF Errors
    <3>2. QED
      BY <1>2, <1>4, <3>1, MarkKeepsFrame
  <2>2. bad.base = curframe.base
    BY <1>2 DEF Frame
  <2>3. QED
    BY <2>1, <2>2
<1> HIDE DEF bad
<1>6. \E g : frames' = SetTop(g) /\ FrameOK(prog, g) /\ g.base = curframe.base
  <2>1. CASE DoJmp
    <3>1. frames' = SetTop([curframe EXCEPT !.pc = instr.arg])
      BY <2>1 DEF DoJmp
    <3>2. QED
      BY <1>1, <1>2, <3>1, AdvancedOK
  <2>2. CASE DoBreak
    <3> DEFINE target == getBreak(curframe)
               to == IF instr.op = "BREAK" THEN target ELSE target - 3
    <3>1. to \in Int
      BY <1>3
    <3>2. \/ frames' = SetTop([curframe EXCEPT !.pc = to])
          \/ frames' = SetTop(bad)
          \/ frames' = SetTop(Failed("BAD_CONTINUE"))
      BY <2>2 DEF DoBreak, bad
    <3> HIDE DEF to
    <3>3. CASE frames' = SetTop([curframe EXCEPT !.pc = to])
      BY <1>1, <3>1, <3>3, AdvancedOK
    <3>4. CASE frames' = SetTop(bad)
      BY <1>5, <3>4
    <3>5. CASE frames' = SetTop(Failed("BAD_CONTINUE"))
      BY <1>1, <1>4, <3>5, AdvancedOK
    <3>6. QED
      BY <3>2, <3>3, <3>4, <3>5
  <2>3. QED
    BY <2>1, <2>2
<1>7. FramesOK(prog, frames') /\ frames' # << >>
  BY <1>2, <1>6, SetTopOK
<1>8. QED
  BY <1>1, <1>7, KeepInv DEF IInv

(* Conditional jumps pop the condition and may convert a variable.         *)
LEMMA JmpIfKeepsInv ==
  ASSUME IInv, UNCHANGED prog, DoJmpIf
  PROVE  IInv'
<1> DEFINE top == Peek(0)
           cast == VarBool(Deref(top))
           target(j) == [curframe EXCEPT !.pc = IF j THEN instr.arg ELSE nextpc]
<1>1. /\ Exec({"JMPZ", "JMPNZ"}) /\ UNCHANGED Inner
      /\ \/ frames' = SetTop(Failed("TYPE_MISMATCH")) /\ UNCHANGED stack
         \/ /\ stack' = Drop(1)
            /\ \E j \in BOOLEAN : frames' \in {StoreIn(SetTop(target(j)), top, cast.val),
                                             SetTop(target(j))}
  <2>1. CASE \E nonzero \in Nonzero(top) :
               /\ stack' = Drop(1)
               /\ frames' = IF top.t = "PTR"
                            THEN StoreIn(SetTop(target(nonzero = (instr.op = "JMPNZ"))), top, cast.val)
                            ELSE SetTop(target(nonzero = (instr.op = "JMPNZ")))
    <3>1. PICK nonzero : /\ stack' = Drop(1)
                         /\ frames' = IF top.t = "PTR"
                                      THEN StoreIn(SetTop(target(nonzero = (instr.op = "JMPNZ"))), top, cast.val)
                                      ELSE SetTop(target(nonzero = (instr.op = "JMPNZ")))
      BY <2>1
    <3> DEFINE j == nonzero = (instr.op = "JMPNZ")
    <3>2. j \in BOOLEAN
      OBVIOUS
    <3>3. frames' \in {StoreIn(SetTop(target(j)), top, cast.val), SetTop(target(j))}
      BY <3>1
    <3> HIDE DEF target, top, cast, j
    <3>4. QED
      BY <3>1, <3>2, <3>3 DEF DoJmpIf
  <2>2. QED
    BY <2>1 DEF DoJmpIf
<1>2. Fetches /\ 1 <= Len(stack) /\ Len(stack) \in Nat
  BY <1>1, OperandsAre
<1>3. top \in Value /\ Drop(1) \in Seq(Value) /\ stack \in Seq(Value)
  BY <1>2, StackOK DEF IInv
<1>4. cast.val \in Plain
  BY DEF VarBool, BoolV, Plain, Value, Types
<1>5. /\ frames # << >> /\ instr.arg \in Int /\ nextpc \in Int
      /\ "TYPE_MISMATCH" \in Errors
  BY <1>2, CurrentInstr DEF Instr, Errors
<1>6. stack' \in Seq(Value)
  BY <1>1, <1>3
<1>7. \A j \in BOOLEAN : FramesOK(prog, SetTop(target(j))) /\ SetTop(target(j)) # << >>
  <2>1. TAKE j \in BOOLEAN
  <2>2. (IF j THEN instr.arg ELSE nextpc) \in Int
    BY <1>5
  <2>3. FrameOK(prog, target(j)) /\ target(j).base = curframe.base
    BY <1>2, <2>2, AdvancedOK
  <2>4. QED
    BY <1>5, <2>3, SetTopOK
<1> HIDE DEF target, top, cast
<1>8. FramesOK(prog, frames') /\ frames' # << >>
  <2>1. CASE frames' = SetTop(Failed("TYPE_MISMATCH"))
    BY <1>2, <1>5, <2>1, AdvancedOK, SetTopOK
  <2>2. ASSUME NEW j \in BOOLEAN,
               frames' \in {StoreIn(SetTop(target(j)), top, cast.val), SetTop(target(j))}
        PROVE  FramesOK(prog, frames') /\ frames' # << >>
    BY <1>3, <1>4, <1>7, <2>2, StoreKeepsFrames
  <2>3. QED
    BY <1>1, <2>1, <2>2
<1>9. QED
  BY <1>1, <1>6, <1>8, KeepInv DEF IInv, Inner

(* The arguments of a call are values, and no references (callStaticMethod *)
(* and VARDEREF).                                                          *)
LEMMA CallArgsArePlain ==
  ASSUME IInv, NEW n \in 0 .. Len(stack)
  PROVE  CallArgs(n) \in Seq(Plain) /\ Len(CallArgs(n)) = n
<1>1. stack \in Seq(Value) /\ Len(stack) \in Nat /\ FramesOK(prog, frames)
  BY LenProperties DEF IInv
<1>2. \A i \in 1 .. n : Deref(stack[Len(stack) - n + i]) \in Plain
  <2>1. TAKE i \in 1 .. n
  <2>2. Len(stack) - n + i \in 1 .. Len(stack)
    BY <1>1
  <2>3. stack[Len(stack) - n + i] \in Value
    BY <1>1, <2>2, ElementOfSeq
  <2>4. QED
    BY <1>1, <2>3, DerefIsPlain DEF Deref
<1>3. n \in Nat
  BY <1>1
<1>4. QED
  BY <1>2, <1>3 DEF CallArgs

(* The frame of a call is well formed (enterFrame).                        *)
LEMMA NewFrameOK ==
  ASSUME NEW p, NEW m \in Nat, m \in DOMAIN p.methods, ~p.methods[m].isnative,
         NEW n \in Nat, NEW args \in Seq(Plain), Len(args) = n, NEW depth \in Nat
  PROVE  FrameOK(p, NewFrame(m, n, args, depth)) /\ NewFrame(m, n, args, depth).base = depth
<1> DEFINE b == [floor |-> n, breakpc |-> -1, blockcount |-> 0, catchpc |-> -1]
           g == NewFrame(m, n, args, depth)
<1>1. b \in BlockFrame /\ b.floor = n /\ b.blockcount = 0
  BY DEF BlockFrame
<1>2. /\ g.meth = m /\ g.pc = 0 /\ g.base = depth /\ g.locals = args
      /\ g.blocks = <<b>> /\ g.retval = Void /\ g.err = "NONE"
  BY DEF NewFrame
<1> HIDE DEF b
<1>3. BlocksOK(<<b>>, n)
  BY <1>1 DEF BlocksOK
<1>4. args \in Seq(Value)
  BY ConstantsArePlain, SeqMonotonic
<1>5. <<b>> \in Seq(BlockFrame) /\ Void \in Value /\ Void \in Plain /\ "NONE" \in Errors
  BY <1>1, ConstantsArePlain DEF Errors
<1>6. g \in Frame
  BY <1>4, <1>5 DEF NewFrame, Frame, b
<1> HIDE DEF g
<1>7. FrameOK(p, g)
  BY <1>2, <1>3, <1>5, <1>6 DEF FrameOK
<1>8. QED
  BY <1>2, <1>7 DEF g

(* A call of a bytecode method pushes a frame.                             *)
LEMMA ScallKeepsInv ==
  ASSUME IInv, UNCHANGED prog, DoScall
  PROVE  IInv'
<1> DEFINE n == Callee.args
           g == NewFrame(instr.arg, n, CallArgs(n), Len(stack) - n)
<1>1. /\ Exec({"SCALL"}) /\ instr.arg # 0 /\ ~Callee.isnative
      /\ stack' = Drop(n) /\ frames' = Append(SetTop(Advanced), g)
      /\ UNCHANGED Inner
  BY DEF DoScall
<1>2. Fetches /\ instr.op = "SCALL" /\ Len(stack) \in Nat /\ n <= Len(stack)
  BY <1>1, OperandsAre
<1>3. frames # << >> /\ instr.arg \in 1 .. Len(prog.methods) /\ IsProgram(prog)
  <2>1. frames # << >> /\ instr.arg \in 0 .. Len(prog.methods)
    BY <1>2, CurrentInstr
  <2>2. IsProgram(prog)
    BY <2>1, CurrentFrame
  <2>3. Len(prog.methods) \in Nat
    BY <2>2 DEF IsProgram
  <2>4. QED
    BY <1>1, <2>1, <2>2, <2>3
<1>4. instr.arg \in Nat /\ instr.arg \in DOMAIN prog.methods /\ n \in Nat
  BY <1>3 DEF IsProgram, IsMethod, Callee
<1>5. n \in 0 .. Len(stack) /\ Len(stack) - n \in Nat
  BY <1>2, <1>4
<1>6. FrameOK(prog, g)
  <2>1. CallArgs(n) \in Seq(Plain) /\ Len(CallArgs(n)) = n
    BY <1>5, CallArgsArePlain
  <2>2. ~prog.methods[instr.arg].isnative
    BY <1>1 DEF Callee
  <2>3. QED
    BY <1>4, <1>5, <2>1, <2>2, NewFrameOK
<1>7. FramesOK(prog, SetTop(Advanced)) /\ SetTop(Advanced) # << >>
  BY <1>2, <1>3, AdvancedOK, SetTopOK
<1>8. stack' \in Seq(Value)
  BY <1>1, <1>5, StackOK
<1> HIDE DEF g
<1>9. FramesOK(prog, frames') /\ frames' # << >>
  BY <1>1, <1>6, <1>7, PushKeepsFrames
<1>10. QED
  BY <1>1, <1>8, <1>9, KeepInv DEF IInv, Inner

(* A native call notes its arguments and may push an answer.               *)
LEMMA NativeKeepsInv ==
  ASSUME IInv, UNCHANGED prog, DoNative
  PROVE  IInv'
<1> DEFINE n == Callee.args
<1>1. /\ Exec({"SCALL"}) /\ instr.arg # 0
      /\ out' = Append(out, [meth |-> instr.arg, args |-> CallArgs(n)])
      /\ UNCHANGED <<results, fault>>
      /\ \/ \E answer \in IF Len(answers) < MaxAnswers THEN Answers ELSE {Silent} :
              /\ answers' = Append(answers, answer)
              /\ stack' = Append(Drop(n), answer.val)
              /\ frames' = SetTop(Failed(answer.err))
         \/ stack' = Drop(n) /\ frames' = SetTop(Advanced) /\ UNCHANGED answers
  BY DEF DoNative
<1>2. Fetches /\ instr.op = "SCALL" /\ Len(stack) \in Nat /\ n <= Len(stack)
  BY <1>1, OperandsAre
<1>3. frames # << >> /\ instr.arg \in 1 .. Len(prog.methods) /\ IsProgram(prog)
  <2>1. frames # << >> /\ instr.arg \in 0 .. Len(prog.methods)
    BY <1>2, CurrentInstr
  <2>2. IsProgram(prog)
    BY <2>1, CurrentFrame
  <2>3. Len(prog.methods) \in Nat
    BY <2>2 DEF IsProgram
  <2>4. QED
    BY <1>1, <2>1, <2>2, <2>3
<1>4. instr.arg \in Nat /\ n \in Nat
  BY <1>3 DEF IsProgram, IsMethod, Callee
<1>5. n \in 0 .. Len(stack)
  BY <1>2, <1>4
<1>6. Drop(n) \in Seq(Value) /\ CallArgs(n) \in Seq(Plain)
  BY <1>5, StackOK, CallArgsArePlain
<1>7. out' \in Seq([meth : Nat, args : Seq(Plain)])
  BY <1>1, <1>4, <1>6 DEF IInv
<1>8. /\ stack' \in Seq(Value) /\ answers' \in Seq(NativeAnswer)
      /\ FramesOK(prog, frames') /\ frames' # << >>
  <2>1. CASE stack' = Drop(n) /\ frames' = SetTop(Advanced) /\ answers' = answers
    <3>1. FramesOK(prog, frames') /\ frames' # << >>
      BY <1>2, <1>3, <2>1, AdvancedOK, SetTopOK
    <3>2. QED
      BY <1>6, <2>1, <3>1 DEF IInv
  <2>2. ASSUME NEW answer \in IF Len(answers) < MaxAnswers THEN Answers ELSE {Silent},
               answers' = Append(answers, answer),
               stack' = Append(Drop(n), answer.val),
               frames' = SetTop(Failed(answer.err))
        PROVE  /\ stack' \in Seq(Value) /\ answers' \in Seq(NativeAnswer)
               /\ FramesOK(prog, frames') /\ frames' # << >>
    <3>1. Silent \in NativeAnswer
      BY DEF Silent, NativeAnswer, BoolV, Plain, Value, Types
    <3>2. answer \in NativeAnswer
      BY <3>1, AnswersAssumption
    <3>3. answer.val \in Value /\ answer.err \in Errors
      BY <3>2, ConstantsArePlain DEF NativeAnswer, Errors
    <3>4. stack' \in Seq(Value) /\ answers' \in Seq(NativeAnswer)
      BY <1>6, <2>2, <3>2, <3>3 DEF IInv
    <3>5. FramesOK(prog, frames') /\ frames' # << >>
      BY <1>2, <1>3, <2>2, <3>3, AdvancedOK, SetTopOK
    <3>6. QED
      BY <3>4, <3>5
  <2>3. QED
    BY <1>1, <2>1, <2>2
<1>9. FramesOK(prog, frames)'
  BY <1>8 DEF FramesOK, FrameOK, BlocksOK
<1>10. IdleClean'
  BY <1>8 DEF IdleClean
<1>11. QED
  BY <1>1, <1>7, <1>8, <1>9, <1>10 DEF IInv

(* Returns, exceptions and unknown methods.                                *)
LEMMA ReturnsKeepInv ==
  ASSUME IInv, UNCHANGED prog, DoUnknown \/ DoVret \/ DoRet \/ DoThrow
  PROVE  IInv'
<1>1. Fetches /\ UNCHANGED Inner
  BY DEF DoUnknown, DoVret, DoRet, DoThrow, Exec
<1>2. /\ frames # << >> /\ FrameOK(prog, curframe) /\ curframe \in Frame
      /\ {"UNKNOWN_METHOD", "RETURN", "EXCEPTION"} \subseteq Errors
      /\ stack \in Seq(Value) /\ Len(stack) \in Nat /\ FramesOK(prog, frames)
  BY <1>1, CurrentInstr, CurrentFrame, LenProperties DEF Errors, IInv
<1>3. CASE DoUnknown \/ DoVret
  <2>1. /\ stack' = stack
        /\ frames' = SetTop(Failed("UNKNOWN_METHOD")) \/ frames' = SetTop(Failed("RETURN"))
    BY <1>3 DEF DoUnknown, DoVret
  <2>2. FramesOK(prog, frames') /\ frames' # << >>
    BY <1>1, <1>2, <2>1, AdvancedOK, SetTopOK
  <2>3. QED
    BY <1>1, <1>2, <2>1, <2>2, KeepInv DEF IInv, Inner
<1>4. CASE DoRet
  <2> DEFINE x == Deref(Peek(0))
             f == leaveBlock(Failed("RETURN"))
             g == [f EXCEPT !.retval = x]
  <2>1. Exec({"RET"}) /\ frames' = SetTop(g) /\ stack' = Drop(1)
    BY <1>4 DEF DoRet
  <2>2. 1 <= Len(stack)
    BY <2>1, OperandsAre
  <2>3. Peek(0) \in Value /\ Drop(1) \in Seq(Value)
    BY <1>2, <2>2, StackOK
  <2>4. x \in Plain
    BY <1>2, <2>3, DerefIsPlain DEF Deref
  <2>5. FrameOK(prog, Failed("RETURN")) /\ Failed("RETURN").base = curframe.base
    BY <1>1, <1>2, AdvancedOK
  <2>6. FrameOK(prog, f) /\ f.base = curframe.base
    <3> DEFINE h == Failed("RETURN")
    <3>1. CASE h.blocks = << >>
      BY <2>5, <3>1 DEF leaveBlock
    <3>2. CASE h.blocks # << >>
      <4>1. h.blocks \in Seq(BlockFrame)
        BY <2>5 DEF FrameOK, BlocksOK
      <4>2. Len(h.blocks) - 1 \in Nat
        BY <3>2, <4>1, EmptySeq
      <4>3. f = leaveTo(h, Len(h.blocks) - 1)
        BY <3>2 DEF leaveBlock
      <4> HIDE DEF h, f
      <4>4. QED
        BY <2>5, <4>2, <4>3, LeaveKeepsFrame DEF h
    <3>3. QED
      BY <3>1, <3>2
  <2> HIDE DEF x, f
  <2>7. FrameOK(prog, g) /\ g.base = curframe.base
    <3>1. FrameOK(prog, g)
      <4>1. 0 \in Int /\ "RETURN" \in Errors
        BY DEF Errors
      <4>2. QED
        BY <2>4, <2>6, <4>1, MarkKeepsFrame
    <3>2. f \in Frame
      BY <2>6 DEF FrameOK
    <3>3. g.base = f.base
      BY <3>2 DEF Frame
    <3>4. QED
      BY <2>6, <3>1, <3>3
  <2>8. FramesOK(prog, frames') /\ frames' # << >>
    BY <1>2, <2>1, <2>7, SetTopOK
  <2>9. QED
    BY <1>1, <2>1, <2>3, <2>8, KeepInv DEF IInv, Inner
<1>5. CASE DoThrow
  <2> DEFINE f == getCatch(curframe)
             x == DerefIn(SetTop(f), Peek(0))
             g == [f EXCEPT !.retval = x, !.err = "EXCEPTION"]
  <2>1. FrameOK(prog, f) /\ f.base = curframe.base
    BY <1>2, CatchKeepsFrame
  <2>2. FramesOK(prog, SetTop(f)) /\ SetTop(f) # << >>
    BY <1>2, <2>1, SetTopOK
  <2>3. CASE Handlers(curframe) # {}
    <3>1. frames' = SetTop(f) /\ stack' = stack
      BY <1>5, <2>3 DEF DoThrow
    <3>2. QED
      BY <1>1, <1>2, <2>2, <3>1, KeepInv DEF IInv, Inner
  <2>4. CASE Handlers(curframe) = {}
    <3>1. /\ Exec({"THROW"}) /\ frames' = SetTop(g)
          /\ stack' = [stack EXCEPT ![Len(stack)] = x]
      BY <1>5, <2>4 DEF DoThrow
    <3>2. 1 <= Len(stack)
      BY <2>4, <3>1, OperandsAre
    <3>3. Peek(0) \in Value
      BY <1>2, <3>2, StackOK
    <3>4. x \in Plain /\ x \in Value
      BY <2>2, <3>3, DerefIsPlain, ConstantsArePlain
    <3> HIDE DEF x, f
    <3>5. stack' \in Seq(Value)
      BY <1>2, <3>1, <3>2, <3>4
    <3>6. FrameOK(prog, g) /\ g.base = curframe.base
      <4>1. FrameOK(prog, g)
        <5>1. 0 \in Int /\ "EXCEPTION" \in Errors
          BY DEF Errors
        <5>2. QED
          BY <2>1, <3>4, <5>1, MarkKeepsFrame
      <4>2. f \in Frame
        BY <2>1 DEF FrameOK
      <4>3. g.base = f.base
        BY <4>2 DEF Frame
      <4>4. QED
        BY <2>1, <4>1, <4>3
    <3>7. FramesOK(prog, frames') /\ frames' # << >>
      BY <1>2, <3>1, <3>6, SetTopOK
    <3>8. QED
      BY <1>1, <3>5, <3>7, KeepInv DEF IInv, Inner
  <2>5. QED
    BY <2>3, <2>4
<1>6. QED
  BY <1>3, <1>4, <1>5

-----------------------------------------------------------------------------
(* The end of a method and of a run.                                       *)

(* What leaveFrame leaves on the stack.                                    *)
LEMMA ExitStackOK ==
  ASSUME IInv, frames # << >>
  PROVE  /\ Kept \in Seq(Value) /\ ExitStack \in Seq(Value)
         /\ ExitErr \in Errors
         /\ curframe.retval \in Value /\ curframe.retval \in Plain
         /\ curframe.base = 0 => Kept = << >>
<1>1. stack \in Seq(Value) /\ Len(stack) \in Nat
  BY LenProperties DEF IInv
<1>2. FrameOK(prog, curframe) /\ curframe \in Frame
  BY CurrentFrame
<1>3. /\ curframe.base \in Nat /\ curframe.err \in Errors
      /\ curframe.retval \in Plain /\ curframe.retval \in Value
  BY <1>2, ConstantsArePlain DEF FrameOK, Frame
<1>4. ExitErr \in Errors
  BY <1>3 DEF ExitErr, Errors
<1>5. Kept \in Seq(Value)
  <2>1. CASE Len(stack) > curframe.base
    <3>1. \A i \in 1 .. curframe.base : stack[i] \in Value
      BY <1>1, <1>3, <2>1, ElementOfSeq
    <3>2. SubSeq(stack, 1, curframe.base) \in Seq(Value)
      BY <1>3, <3>1, SubSeqProperties
    <3>3. QED
      BY <2>1, <3>2 DEF Kept
  <2>2. CASE ~(Len(stack) > curframe.base)
    BY <1>1, <2>2 DEF Kept
  <2>3. QED
    BY <2>1, <2>2
<1>6. ExitStack \in Seq(Value)
  BY <1>3, <1>5 DEF ExitStack
<1>7. ASSUME curframe.base = 0 PROVE Kept = << >>
  <2>1. CASE Len(stack) > 0
    <3>1. Kept = SubSeq(stack, 1, 0)
      BY <1>7, <2>1 DEF Kept
    <3>2. QED
      BY <1>1, <3>1, SubSeqProperties
  <2>2. CASE ~(Len(stack) > 0)
    <3>1. Len(stack) = 0
      BY <1>1, <2>2
    <3>2. stack = << >>
      BY <1>1, <3>1, EmptySeq
    <3>3. QED
      BY <1>7, <2>2, <3>2 DEF Kept
  <2>3. QED
    BY <2>1, <2>2
<1>8. QED
  BY <1>3, <1>4, <1>5, <1>6, <1>7

(* A method that ends gives its caller back the machine.                   *)
LEMMA MethodExitKeepsInv ==
  ASSUME IInv, UNCHANGED prog, MethodExit
  PROVE  IInv'
<1>1. frames # << >> /\ Len(frames) > 1 /\ UNCHANGED Inner
  BY DEF MethodExit, Exits
<1>2. FramesOK(prog, frames) /\ frames \in Seq(Frame) /\ Len(frames) \in Nat
  BY LenProperties DEF IInv, FramesOK
<1>3. Len(frames) - 1 \in 1 .. Len(frames) /\ Len(frames) - 2 \in 0 .. Len(frames)
  BY <1>1, <1>2
<1>4. FrameOK(prog, caller) /\ caller \in Frame
  BY <1>2, <1>3 DEF FramesOK, FrameOK, caller
<1>5. FramesOK(prog, Below)
  BY <1>2, <1>3, PopKeepsFrames DEF Below
<1>6. Below = << >> => caller.base = 0
  <2> DEFINE m == Len(frames) - 2
  <2>1. m \in Nat
    BY <1>1, <1>2
  <2>2. \A i \in 1 .. m : frames[i] \in Frame
    BY <1>2, ElementOfSeq
  <2>3. Below = SubSeq(frames, 1, m)
    BY DEF Below
  <2> HIDE DEF m
  <2>4. Len(Below) = m
    BY <2>1, <2>2, <2>3, SubSeqProperties
  <2>5. Below = << >> => m = 0
    BY <2>4
  <2>6. Below = << >> => Len(frames) - 1 = 1
    BY <1>2, <2>5 DEF m
  <2>7. frames[1].base = 0
    BY <1>1, <1>2 DEF FramesOK
  <2>8. QED
    BY <2>6, <2>7 DEF caller
<1>7. /\ Kept \in Seq(Value) /\ ExitStack \in Seq(Value)
      /\ ExitErr \in Errors /\ curframe.retval \in Plain
  BY <1>1, ExitStackOK
<1>8. stack' \in Seq(Value)
  BY <1>7 DEF MethodExit
<1>9. \E g : frames' = Append(Below, g) /\ FrameOK(prog, g) /\ g.base = caller.base
  <2>1. CASE ExitErr # "EXCEPTION"
    <3> DEFINE g == [caller EXCEPT !.err = ExitErr]
    <3>1. frames' = Append(Below, g)
      BY <2>1 DEF MethodExit
    <3>2. 0 \in Int /\ Void \in Plain
      BY ConstantsArePlain
    <3>3. FrameOK(prog, g)
      BY <1>4, <1>7, <3>2, MarkKeepsFrame
    <3>4. g.base = caller.base
      BY <1>4 DEF Frame
    <3>5. QED
      BY <3>1, <3>3, <3>4
  <2>2. CASE ExitErr = "EXCEPTION"
    <3> DEFINE f == getCatch(caller)
               g == [f EXCEPT !.retval = curframe.retval, !.err = "EXCEPTION"]
    <3>1. frames' = Append(Below, f) \/ frames' = Append(Below, g)
      BY <2>2 DEF MethodExit
    <3>2. FrameOK(prog, f) /\ f.base = caller.base
      BY <1>4, CatchKeepsFrame
    <3> HIDE DEF f
    <3>3. FrameOK(prog, g)
      <4>1. 0 \in Int /\ "EXCEPTION" \in Errors
        BY DEF Errors
      <4>2. QED
        BY <1>7, <3>2, <4>1, MarkKeepsFrame
    <3>4. g.base = f.base
      <4>1. f \in Frame
        BY <3>2 DEF FrameOK
      <4>2. QED
        BY <4>1 DEF Frame
    <3>5. QED
      BY <3>1, <3>2, <3>3, <3>4
  <2>3. QED
    BY <2>1, <2>2
<1>10. FramesOK(prog, frames') /\ frames' # << >>
  BY <1>5, <1>6, <1>9, PushKeepsFrames
<1>11. QED
  BY <1>1, <1>8, <1>10, KeepInv DEF IInv, Inner

(* The run that ends has taken everything off the stack but its result,    *)
(* and qinterpRun takes that.                                              *)
LEMMA RunExitKeepsInv ==
  ASSUME IInv, UNCHANGED prog, RunExit
  PROVE  IInv'
<1>1. frames # << >> /\ Len(frames) = 1 /\ frames' = << >> /\ UNCHANGED <<answers, out, fault>>
  BY DEF RunExit, Exits
<1>2. curframe.base = 0
  BY <1>1 DEF IInv, FramesOK, curframe
<1>3. /\ Kept = << >> /\ ExitErr \in Errors /\ curframe.retval \in Value
  BY <1>1, <1>2, ExitStackOK
<1>4. ExitStack = << >> \/ ExitStack = <<curframe.retval>>
  BY <1>3 DEF ExitStack
<1>5. stack' = << >> /\ results' \in Seq([err : Errors, val : Value])
  <2>1. results \in Seq([err : Errors, val : Value])
    BY DEF IInv
  <2>2. CASE ExitStack = << >>
    <3>1. stack' = << >> /\ results' = Append(results, [err |-> ExitErr, val |-> Void])
      BY <2>2 DEF RunExit
    <3>2. [err |-> ExitErr, val |-> Void] \in [err : Errors, val : Value]
      BY <1>3, ConstantsArePlain
    <3>3. QED
      BY <2>1, <3>1, <3>2
  <2>3. CASE ExitStack = <<curframe.retval>>
    <3>1. /\ stack' = SubSeq(ExitStack, 1, Len(ExitStack) - 1)
          /\ results' = Append(results, [err |-> ExitErr, val |-> ExitStack[Len(ExitStack)]])
      BY <2>3 DEF RunExit
    <3>2. Len(ExitStack) = 1 /\ ExitStack[1] = curframe.retval
      BY <2>3
    <3>3. stack' = << >>
      BY <2>3, <3>1, <3>2, SubSeqProperties
    <3>4. [err |-> ExitErr, val |-> ExitStack[Len(ExitStack)]] \in [err : Errors, val : Value]
      BY <1>3, <3>2
    <3>5. QED
      BY <2>1, <3>1, <3>3, <3>4
  <2>4. QED
    BY <1>4, <2>2, <2>3
<1>6. FramesOK(prog, frames)' /\ IdleClean'
  BY <1>1, <1>5 DEF FramesOK, IdleClean
<1>7. QED
  BY <1>1, <1>5, <1>6 DEF IInv

(* A run starts on an empty stack.                                         *)
LEMMA RunKeepsInv ==
  ASSUME IInv, UNCHANGED prog, Run
  PROVE  IInv'
<1> DEFINE g == NewFrame(1, 0, << >>, Len(stack))
<1>1. frames = << >> /\ frames' = <<g>> /\ UNCHANGED <<stack, Inner>>
  BY DEF Run
<1>2. stack = << >> /\ Len(stack) = 0
  BY <1>1 DEF IInv, IdleClean
<1>3. IsProgram(prog)
  BY ProgramsAssumption DEF IInv
<1>4. 1 \in DOMAIN prog.methods /\ ~prog.methods[1].isnative
  BY <1>3 DEF IsProgram
<1>5. FrameOK(prog, g) /\ g.base = 0
  <2> DEFINE none == << >>
             zero == 0
             entry == 1
  <2>1. /\ none \in Seq(Plain) /\ Len(none) = zero /\ zero \in Nat
        /\ entry \in Nat /\ entry \in DOMAIN prog.methods /\ ~prog.methods[entry].isnative
    BY <1>4
  <2>2. g = NewFrame(entry, zero, none, zero)
    BY <1>2
  <2> HIDE DEF none, zero, entry, g
  <2>3. FrameOK(prog, g) /\ g.base = zero
    BY <2>1, <2>2, NewFrameOK
  <2>4. QED
    BY <2>3 DEF zero
<1> HIDE DEF g
<1>6. FramesOK(prog, frames') /\ frames' # << >>
  <2>1. frames' = Append(frames, g)
    BY <1>1
  <2>2. FramesOK(prog, frames)
    BY DEF IInv
  <2>3. QED
    BY <1>5, <2>1, <2>2, PushKeepsFrames
<1>7. QED
  BY <1>1, <1>2, <1>6, KeepInv DEF IInv, Inner

(* A fault is only noted.                                                  *)
LEMMA FaultKeepsInv ==
  ASSUME IInv, UNCHANGED prog, Underflow \/ WildFetch
  PROVE  IInv'
<1>1. /\ UNCHANGED <<answers, stack, frames, out, results>> /\ frames # << >>
      /\ fault' \in {"none", "underflow", "wild", "trap"}
  BY DEF Underflow, WildFetch, Fetches, Looping
<1>2. QED
  BY <1>1, KeepInv DEF IInv

-----------------------------------------------------------------------------
(* The invariant holds of every loaded program before its first run.       *)
LEMMA InitInv == Init => IInv
<1> SUFFICES ASSUME Init PROVE IInv
  OBVIOUS
<1>1. FramesOK(prog, frames) /\ IdleClean
  BY DEF Init, FramesOK, IdleClean
<1>2. QED
  BY <1>1 DEF Init, IInv

(* Every turn of the loop of _interp keeps it, and so do calls, returns    *)
(* and runs.                                                               *)
LEMMA NextInv == IInv /\ [Next]_vars => IInv'
<1> SUFFICES ASSUME IInv, [Next]_vars PROVE IInv'
  OBVIOUS
<1>1. CASE UNCHANGED vars
  BY <1>1 DEF vars, IInv, IdleClean, FramesOK, FrameOK, BlocksOK
<1>2. CASE UNCHANGED prog /\ Done
  BY <1>2 DEF Done, IInv, IdleClean, FramesOK, FrameOK, BlocksOK
<1>3. CASE UNCHANGED prog /\ Step
  <2> USE <1>3
  <2>1. CASE DoNop \/ DoPush \/ DoDup \/ DoPop \/ DoRot \/ DoRvalue
    BY <2>1, StraightKeepsInv
  <2>2. CASE DoLvalue \/ DoAssign
    BY <2>2, VariablesKeepInv
  <2>3. CASE DoBinOp \/ DoUnOp \/ DoIncDec
    BY <2>3, BinOpKeepsInv, UnOpKeepsInv, IncDecKeepsInv
  <2>4. CASE DoEnter \/ DoLeave \/ DoSetBreak \/ DoTry
    BY <2>4, BlockOpsKeepInv
  <2>5. CASE DoBreak \/ DoJmp \/ DoJmpIf
    BY <2>5, JumpsKeepInv, JmpIfKeepsInv
  <2>6. CASE DoScall \/ DoNative
    BY <2>6, ScallKeepsInv, NativeKeepsInv
  <2>7. CASE DoUnknown \/ DoVret \/ DoRet \/ DoThrow
    BY <2>7, ReturnsKeepInv
  <2>8. CASE MethodExit \/ RunExit \/ Run
    BY <2>8, MethodExitKeepsInv, RunExitKeepsInv, RunKeepsInv
  <2>9. CASE Underflow \/ WildFetch
    BY <2>9, FaultKeepsInv
  <2>10. QED
    BY <2>1, <2>2, <2>3, <2>4, <2>5, <2>6, <2>7, <2>8, <2>9 DEF Step
<1>4. QED
  BY <1>1, <1>2, <1>3 DEF Next

(* The inductive invariant of the machine.                                 *)
THEOREM Invariance == Spec => []IInv
BY InitInv, NextInv, PTL DEF Spec

-----------------------------------------------------------------------------
(* The theorems about the machine.                                         *)

(* Whatever bytecode it runs, the machine's state is well typed and every  *)
(* frame belongs to a bytecode method of the program.                      *)
THEOREM TypeCorrect == Spec => []TypeOK
<1>1. IInv => TypeOK
  <2> SUFFICES ASSUME IInv PROVE TypeOK
    OBVIOUS
  <2>1. out \in Seq([meth : Nat, args : Seq(Value)])
    <3>1. Seq(Plain) \subseteq Seq(Value)
      BY ConstantsArePlain, SeqMonotonic
    <3>2. [meth : Nat, args : Seq(Plain)] \subseteq [meth : Nat, args : Seq(Value)]
      BY <3>1
    <3>3. QED
      BY <3>2, SeqMonotonic DEF IInv
  <2>2. \A k \in DOMAIN frames : /\ frames[k].meth \in DOMAIN prog.methods
                                  /\ ~prog.methods[frames[k].meth].isnative
    BY LenProperties DEF IInv, FramesOK, FrameOK
  <2>3. QED
    BY <2>1, <2>2 DEF IInv, FramesOK, TypeOK
<1>2. QED
  BY <1>1, Invariance, PTL

(* Whatever bytecode it runs, the blocks of a frame are nested regions of  *)
(* its locals, so leaveBlock gives back what enterBlock took.              *)
THEOREM BlocksStayNested == Spec => []BlocksNested
<1>1. IInv => BlocksNested
  <2> SUFFICES ASSUME IInv, NEW k \in DOMAIN frames
               PROVE  LET f == frames[k]
                      IN  \A b \in DOMAIN f.blocks :
                            /\ f.blocks[b].floor <= Len(f.locals)
                            /\ \A c \in DOMAIN f.blocks :
                                 b <= c => f.blocks[b].floor <= f.blocks[c].floor
    BY DEF BlocksNested
  <2>1. FrameOK(prog, frames[k])
    BY LenProperties DEF IInv, FramesOK
  <2>2. BlocksOK(frames[k].blocks, Len(frames[k].locals))
    BY <2>1 DEF FrameOK
  <2>3. DOMAIN frames[k].blocks = 1 .. Len(frames[k].blocks)
    BY <2>2, LenProperties DEF BlocksOK
  <2>4. QED
    BY <2>2, <2>3 DEF BlocksOK
<1>2. QED
  BY <1>1, Invariance, PTL

(* Whatever bytecode it runs, the loop of breakBlock, which has no way     *)
(* out, is never entered.                                                  *)
THEOREM BreakLoopsNever == Spec => []BreakTerminates
<1>1. IInv => BreakTerminates
  <2> SUFFICES ASSUME IInv, NEW k \in DOMAIN frames, NEW b \in DOMAIN frames[k].blocks
               PROVE  frames[k].blocks[b].blockcount <= b
    BY DEF BreakTerminates
  <2>1. BlocksOK(frames[k].blocks, Len(frames[k].locals))
    BY LenProperties DEF IInv, FramesOK, FrameOK
  <2>2. b \in 1 .. Len(frames[k].blocks)
    BY <2>1, LenProperties DEF BlocksOK
  <2>3. QED
    BY <2>1, <2>2 DEF BlocksOK
<1>2. QED
  BY <1>1, Invariance, PTL

(* Whatever bytecode it runs, a reference to a local is only ever on the   *)
(* operand stack.                                                          *)
THEOREM ReferencesStay == Spec => []NoPtrEscapes
<1>1. IInv => NoPtrEscapes
  <2> SUFFICES ASSUME IInv PROVE NoPtrEscapes
    OBVIOUS
  <2>1. ASSUME NEW k \in DOMAIN frames
        PROVE  /\ \A i \in DOMAIN frames[k].locals : frames[k].locals[i] \in Plain
               /\ frames[k].retval \in Plain
    <3>1. FrameOK(prog, frames[k])
      BY LenProperties DEF IInv, FramesOK
    <3>2. frames[k].locals \in Seq(Plain) /\ frames[k].retval \in Plain
      BY <3>1 DEF FrameOK
    <3>3. QED
      BY <3>2, LenProperties, ElementOfSeq
  <2>2. ASSUME NEW k \in DOMAIN out, NEW i \in DOMAIN out[k].args
        PROVE  out[k].args[i] \in Plain
    <3>1. out[k] \in [meth : Nat, args : Seq(Plain)]
      BY LenProperties, ElementOfSeq DEF IInv
    <3>2. out[k].args \in Seq(Plain)
      BY <3>1
    <3>3. QED
      BY <3>2, LenProperties, ElementOfSeq
  <2>3. QED
    BY <2>1, <2>2 DEF NoPtrEscapes
<1>2. QED
  BY <1>1, Invariance, PTL

(* Whatever bytecode it runs, and however it ends, qinterpRun leaves the   *)
(* operand stack empty for the next run.                                   *)
THEOREM RunsStartClean == Spec => []IdleClean
<1>1. IInv => IdleClean
  BY DEF IInv
<1>2. QED
  BY <1>1, Invariance, PTL

-----------------------------------------------------------------------------
(* The operands of the callers.  What compiled code does is left to TLC:   *)
(* here it is supposed that each instruction uses operands of its own      *)
(* frame (OperandsOwned).                                                  *)

(* A frame starts no lower on the stack than its caller, and what it has   *)
(* found there is still there.                                             *)
Ordered(fs) == \A k \in 1 .. Len(fs) - 1 : fs[k].base <= fs[k + 1].base
BasesFit == Ordered(frames) /\ (frames # << >> => curframe.base <= Len(stack))

(* The same frames as far as their bases go.                               *)
SameBases(fs, gs) == /\ Len(gs) = Len(fs)
                     /\ \A k \in 1 .. Len(fs) : gs[k].base = fs[k].base

(* The lowest b operands are kept.                                         *)
KeepsLow(b, st, st2) == b <= Len(st2) /\ \A p \in 1 .. b : st2[p] = st[p]

(* A step within the frame that runs.                                      *)
Inside == SameBases(frames, frames') /\ KeepsLow(curframe.base, stack, stack')

(* An assignment to a local changes no base (varAssign).                   *)
LEMMA StoreBases ==
  ASSUME NEW fs \in Seq(Frame), NEW gs, SameBases(fs, gs), gs \in Seq(Frame), NEW p, NEW x
  PROVE  SameBases(fs, StoreIn(gs, p, x))
<1>1. CASE p.f \in DOMAIN gs /\ p.v \in DOMAIN gs[p.f].locals
  <2>1. PICK k, ls : k = p.f /\ ls = [gs[k].locals EXCEPT ![p.v] = x]
    OBVIOUS
  <2>2. StoreIn(gs, p, x) = [gs EXCEPT ![k].locals = ls]
    BY <1>1, <2>1 DEF StoreIn
  <2>3. k \in DOMAIN gs /\ DOMAIN gs = 1 .. Len(gs) /\ Len(gs) \in Nat
    BY <1>1, <2>1
  <2>4. gs[k] \in Frame
    BY <2>3
  <2>5. PICK f : f = [gs[k] EXCEPT !.locals = ls]
    OBVIOUS
  <2>6. f.base = gs[k].base
    BY <2>4, <2>5 DEF Frame
  <2>7. PICK hs : hs = [gs EXCEPT ![k] = f]
    OBVIOUS
  <2>8. StoreIn(gs, p, x) = hs
    BY <2>2, <2>5, <2>7
  <2>9. DOMAIN hs = 1 .. Len(gs) /\ \A j \in 1 .. Len(gs) : hs[j].base = gs[j].base
    BY <2>3, <2>6, <2>7
  <2>10. Len(hs) = Len(gs)
    BY <2>3, <2>7
  <2>11. QED
    BY <2>8, <2>9, <2>10 DEF SameBases
<1>2. CASE ~(p.f \in DOMAIN gs /\ p.v \in DOMAIN gs[p.f].locals)
  BY <1>2 DEF StoreIn
<1>3. QED
  BY <1>1, <1>2

(* Replacing the frame that runs changes no base.                          *)
LEMMA TopBases ==
  ASSUME IInv, frames # << >>, NEW g, g.base = curframe.base
  PROVE  SameBases(frames, SetTop(g))
<1>1. frames \in Seq(Frame) /\ Len(frames) \in Nat \ {0}
  BY CurrentFrame DEF IInv, FramesOK
<1>2. PICK n : n = Len(frames)
  OBVIOUS
<1>3. DOMAIN frames = 1 .. n /\ n \in 1 .. n
  BY <1>1, <1>2
<1>4. SetTop(g) = [frames EXCEPT ![n] = g] /\ curframe = frames[n]
  BY <1>2 DEF SetTop, curframe
<1>5. Len(SetTop(g)) = n
  BY <1>1, <1>2, <1>3, <1>4
<1>6. \A k \in 1 .. n : SetTop(g)[k].base = frames[k].base
  BY <1>3, <1>4
<1>7. QED
  BY <1>2, <1>5, <1>6 DEF SameBases

(* Popping, pushing and replacing operands above the lowest b.             *)
LEMMA LowKept ==
  ASSUME IInv, NEW b \in Nat, NEW n \in 0 .. Len(stack), b <= Len(stack) - n, NEW v
  PROVE  /\ KeepsLow(b, stack, stack) /\ KeepsLow(b, stack, Drop(n))
         /\ KeepsLow(b, stack, Append(Drop(n), v))
         /\ KeepsLow(b, stack, Append(stack, v))
<1>1. stack \in Seq(Value) /\ Len(stack) \in Nat
  BY LenProperties DEF IInv
<1>2. PICK st, m : st = stack /\ m = Len(stack) - n
  OBVIOUS
<1>3. m \in 0 .. Len(st) /\ b \in 0 .. m /\ st \in Seq(Value) /\ Len(st) \in Nat
  BY <1>1, <1>2
<1>4. PICK d : d = SubSeq(st, 1, m)
  OBVIOUS
<1>5. d \in Seq(Value) /\ Len(d) = m /\ \A p \in 1 .. m : d[p] = st[p]
  BY <1>3, <1>4
<1>6. d = Drop(n)
  BY <1>2, <1>4 DEF Drop
<1>7. KeepsLow(b, st, st) /\ KeepsLow(b, st, d)
  BY <1>3, <1>5 DEF KeepsLow
<1>8. KeepsLow(b, st, Append(d, v))
  <2>1. Len(Append(d, v)) = m + 1 /\ \A p \in 1 .. m : Append(d, v)[p] = d[p]
    BY <1>3, <1>5, AppendProperties
  <2>2. QED
    BY <1>3, <1>5, <2>1 DEF KeepsLow
<1>9. KeepsLow(b, st, Append(st, v))
  <2>1. Len(Append(st, v)) = Len(st) + 1 /\ \A p \in 1 .. Len(st) : Append(st, v)[p] = st[p]
    BY <1>3, AppendProperties
  <2>2. QED
    BY <1>3, <2>1 DEF KeepsLow
<1>10. QED
  BY <1>2, <1>6, <1>7, <1>8, <1>9

(* Replacing an operand above the lowest b.                                *)
LEMMA LowAltered ==
  ASSUME NEW st \in Seq(Value), NEW b \in Nat, NEW q \in 1 .. Len(st), b < q, NEW v
  PROVE  KeepsLow(b, st, [st EXCEPT ![q] = v])
<1>1. PICK r : r = [st EXCEPT ![q] = v]
  OBVIOUS
<1>2. Len(st) \in Nat /\ DOMAIN st = 1 .. Len(st)
  OBVIOUS
<1>3. Len(r) = Len(st) /\ \A p \in 1 .. Len(st) : p # q => r[p] = st[p]
  BY <1>1, <1>2
<1>4. \A p \in 1 .. b : p \in 1 .. Len(st) /\ p # q
  BY <1>2
<1>5. KeepsLow(b, st, r)
  BY <1>2, <1>3, <1>4 DEF KeepsLow
<1>6. QED
  BY <1>1, <1>5

(* How many operands an instruction uses.                                  *)
LEMMA OperandsNumber ==
  /\ instr.op \in BinOps \cup {"ASSIGN", "ROT"} => Operands(instr) = 2
  /\ instr.op = "ROT3" => Operands(instr) = 3
  /\ instr.op \in UnOps \cup {"POP", "DUP", "RVALUE", "RET", "JMPZ", "JMPNZ",
                             "INC", "DEC", "PINC", "PDEC"} => Operands(instr) = 1
  /\ instr.op = "SCALL" /\ instr.arg # 0 => Operands(instr) = Callee.args
  /\ instr.op = "THROW" /\ Handlers(curframe) = {} => Operands(instr) = 1
<1>1. instr.op \in BinOps \cup {"ASSIGN", "ROT"} => Operands(instr) = 2
  BY DEF Operands, BinOps, UnOps, Compare, Arith, BitOps, Shifts, Logic
<1>2. instr.op = "ROT3" => Operands(instr) = 3
  BY DEF Operands, BinOps, UnOps, Compare, Arith, BitOps, Shifts, Logic
<1>3. instr.op \in UnOps \cup {"POP", "DUP", "RVALUE", "RET", "JMPZ", "JMPNZ",
                             "INC", "DEC", "PINC", "PDEC"} => Operands(instr) = 1
  BY DEF Operands, BinOps, UnOps, Compare, Arith, BitOps, Shifts, Logic
<1>4. instr.op = "SCALL" /\ instr.arg # 0 => Operands(instr) = Callee.args
  BY DEF Operands, Callee, BinOps, UnOps, Compare, Arith, BitOps, Shifts, Logic
<1>5. instr.op = "THROW" /\ Handlers(curframe) = {} => Operands(instr) = 1
  BY DEF Operands, BinOps, UnOps, Compare, Arith, BitOps, Shifts, Logic
<1>6. QED
  BY <1>1, <1>2, <1>3, <1>4, <1>5

(* The operands that it uses are above those of the callers.               *)
LEMMA OwnOperands ==
  ASSUME IInv, BasesFit, OperandsOwned, NEW ops, Exec(ops)
  PROVE  /\ Fetches /\ frames # << >> /\ instr.op \in ops /\ Len(stack) \in Nat
         /\ curframe.base \in Nat /\ curframe.base <= Len(stack)
         /\ \A k \in Nat : Operands(instr) = k => curframe.base <= Len(stack) - k
<1>1. Fetches /\ instr.op \in ops /\ frames # << >>
  BY CurrentInstr DEF Exec
<1>2. Len(stack) \in Nat
  BY LenProperties DEF IInv
<1>3. curframe.base \in Nat
  BY <1>1, CurrentFrame DEF Frame
<1>4. curframe.base <= Len(stack)
  BY <1>1 DEF BasesFit
<1>5. ASSUME NEW k \in Nat, Operands(instr) = k PROVE curframe.base <= Len(stack) - k
  <2>1. CASE k = 0
    BY <1>2, <1>3, <1>4, <2>1
  <2>2. CASE k # 0
    <3>1. k - 1 \in 0 .. Operands(instr) - 1
      BY <1>5, <2>2
    <3>2. curframe.base < Len(stack) - (k - 1)
      BY <1>1, <3>1 DEF OperandsOwned
    <3>3. QED
      BY <1>2, <1>3, <3>2
  <2>3. QED
    BY <2>1, <2>2
<1>6. QED
  BY <1>1, <1>2, <1>3, <1>4, <1>5

(* An instruction that moves the pc and has at most pushed an operand or   *)
(* replaced those that it uses stays inside its frame.                     *)
LEMMA StraightInside ==
  ASSUME IInv, BasesFit, OperandsOwned, DoNop \/ DoPush \/ DoDup \/ DoPop \/ DoRot \/ DoRvalue
  PROVE  Inside
<1> DEFINE b == curframe.base
<1>1. PICK ops : Exec(ops) /\ frames' = SetTop(Advanced)
  BY DEF DoNop, DoPush, DoDup, DoPop, DoRot, DoRvalue
<1>2. /\ Fetches /\ frames # << >> /\ Len(stack) \in Nat /\ b \in Nat /\ b <= Len(stack)
      /\ \A k \in Nat : Operands(instr) = k => b <= Len(stack) - k
  BY <1>1, OwnOperands
<1>3. SameBases(frames, frames')
  BY <1>1, <1>2, AdvancedOK, TopBases
<1>4. KeepsLow(b, stack, stack) /\ \A v : KeepsLow(b, stack, Append(stack, v))
  <2>1. 0 \in 0 .. Len(stack) /\ b <= Len(stack) - 0
    BY <1>2
  <2>2. QED
    BY <1>2, <2>1, LowKept
<1>5. stack \in Seq(Value)
  BY DEF IInv
<1> HIDE DEF b
<1>6. KeepsLow(b, stack, stack')
  <2>1. CASE DoNop
    BY <1>4, <2>1 DEF DoNop
  <2>2. CASE DoPush
    BY <1>4, <2>2 DEF DoPush
  <2>3. CASE DoDup
    BY <1>4, <2>3 DEF DoDup
  <2>4. CASE DoPop
    <3>1. instr.op = "POP" /\ stack' = Drop(1)
      BY <2>4 DEF DoPop, Exec
    <3>2. b <= Len(stack) - 1 /\ 1 \in 0 .. Len(stack)
      BY <1>2, <3>1, OperandsNumber
    <3>3. QED
      BY <1>2, <3>1, <3>2, LowKept
  <2>5. CASE DoRot
    <3>1. PICK d, x, y : /\ d = (IF instr.op = "ROT" THEN 1 ELSE 2) /\ x = Peek(d) /\ y = Peek(0)
                         /\ instr.op \in {"ROT", "ROT3"}
                         /\ stack' = [stack EXCEPT ![Len(stack)] = x, ![Len(stack) - d] = y]
      BY <2>5 DEF DoRot, Exec
    <3>2. d \in 1 .. 2 /\ b < Len(stack) - d
      <4>1. CASE instr.op = "ROT"
        <5>1. b <= Len(stack) - 2 /\ d = 1
          BY <1>2, <3>1, <4>1, OperandsNumber
        <5>2. QED
          BY <1>2, <5>1
      <4>2. CASE instr.op = "ROT3"
        <5>1. b <= Len(stack) - 3 /\ d = 2
          BY <1>2, <3>1, <4>2, OperandsNumber
        <5>2. QED
          BY <1>2, <5>1
      <4>3. QED
        BY <3>1, <4>1, <4>2
    <3>3. PICK n, m : n = Len(stack) /\ m = Len(stack) - d
      OBVIOUS
    <3>4. stack' = [stack EXCEPT ![n] = x, ![m] = y]
      BY <3>1, <3>3
    <3>5. n \in Nat /\ m \in 1 .. n /\ n \in 1 .. n /\ b < m /\ b < n
      BY <1>2, <3>2, <3>3
    <3>6. Len(stack') = n /\ \A p \in 1 .. n : p # n /\ p # m => stack'[p] = stack[p]
      BY <1>5, <3>3, <3>4, <3>5
    <3>7. \A p \in 1 .. b : p \in 1 .. n /\ p # n /\ p # m
      BY <1>2, <3>5
    <3>8. QED
      BY <1>2, <3>3, <3>6, <3>7 DEF KeepsLow
  <2>6. CASE DoRvalue
    <3>1. instr.op = "RVALUE" /\ stack' = [stack EXCEPT ![Len(stack)] = Deref(@)]
      BY <2>6 DEF DoRvalue, Exec
    <3>2. PICK n, x : n = Len(stack) /\ x = Deref(stack[Len(stack)])
      OBVIOUS
    <3>3. b <= n - 1 /\ n \in 1 .. n
      BY <1>2, <3>1, <3>2, OperandsNumber
    <3>4. b < n
      BY <1>2, <3>2, <3>3
    <3>5. KeepsLow(b, stack, [stack EXCEPT ![n] = x])
      BY <1>2, <1>5, <3>2, <3>3, <3>4, LowAltered
    <3>6. QED
      BY <3>1, <3>2, <3>5
  <2>7. QED
    BY <2>1, <2>2, <2>3, <2>4, <2>5, <2>6
<1>7. QED
  BY <1>3, <1>6 DEF Inside, b

(* What the instructions within a frame make of the frames.                *)
LEMMA FramesInside ==
  ASSUME IInv, Fetches
  PROVE  /\ SameBases(frames, frames)
         /\ \A pc \in Int : SameBases(frames, SetTop([curframe EXCEPT !.pc = pc]))
         /\ \A e \in Errors : SameBases(frames, SetTop(Failed(e)))
         /\ SameBases(frames, SetTop(Advanced))
         /\ \A pc \in Int : \A p, x :
              SameBases(frames, StoreIn(SetTop([curframe EXCEPT !.pc = pc]), p, x))
         /\ \A p, x : SameBases(frames, StoreIn(SetTop(Advanced), p, x))
<1>1. frames # << >> /\ nextpc \in Int
  BY CurrentInstr
<1>2. frames \in Seq(Frame)
  BY DEF IInv, FramesOK
<1>3. SameBases(frames, frames)
  BY DEF SameBases
<1>4. ASSUME NEW pc \in Int
      PROVE  /\ SameBases(frames, SetTop([curframe EXCEPT !.pc = pc]))
             /\ \A p, x : SameBases(frames, StoreIn(SetTop([curframe EXCEPT !.pc = pc]), p, x))
  <2>1. PICK g : g = [curframe EXCEPT !.pc = pc]
    OBVIOUS
  <2>2. FrameOK(prog, g) /\ g.base = curframe.base
    BY <2>1, AdvancedOK
  <2>3. SameBases(frames, SetTop(g))
    BY <1>1, <2>2, TopBases
  <2>4. SetTop(g) \in Seq(Frame)
    BY <1>1, <2>2, SetTopOK DEF FramesOK
  <2>5. \A p, x : SameBases(frames, StoreIn(SetTop(g), p, x))
    BY <1>2, <2>3, <2>4, StoreBases
  <2>6. QED
    BY <2>1, <2>3, <2>5
<1>5. ASSUME NEW e \in Errors PROVE SameBases(frames, SetTop(Failed(e)))
  <2>1. Failed(e).base = curframe.base
    BY AdvancedOK
  <2>2. QED
    BY <1>1, <2>1, TopBases
<1>6. /\ SameBases(frames, SetTop(Advanced))
      /\ \A p, x : SameBases(frames, StoreIn(SetTop(Advanced), p, x))
  BY <1>1, <1>4 DEF Advanced
<1>7. QED
  BY <1>3, <1>4, <1>5, <1>6

(* What they make of the stack, with k operands of their own.              *)
LEMMA StackInside ==
  ASSUME IInv, BasesFit, OperandsOwned, NEW ops, Exec(ops),
         NEW k \in Nat, Operands(instr) = k
  PROVE  /\ KeepsLow(curframe.base, stack, stack)
         /\ KeepsLow(curframe.base, stack, Drop(k))
         /\ \A v : KeepsLow(curframe.base, stack, Append(Drop(k), v))
         /\ \A v : KeepsLow(curframe.base, stack, Append(stack, v))
<1>1. /\ Len(stack) \in Nat /\ curframe.base \in Nat
      /\ curframe.base <= Len(stack) - k
  BY OwnOperands
<1>2. k \in 0 .. Len(stack)
  BY <1>1
<1>3. QED
  BY <1>1, <1>2, LowKept

(* Variables and operators.                                                *)
LEMMA OperatorsInside ==
  ASSUME IInv, BasesFit, OperandsOwned, DoLvalue \/ DoAssign \/ DoBinOp \/ DoUnOp \/ DoIncDec
  PROVE  Inside
<1> DEFINE b == curframe.base
<1>1. Fetches
  BY DEF DoLvalue, DoAssign, DoBinOp, DoUnOp, DoIncDec, Exec
<1>2. "TYPE_MISMATCH" \in Errors
  BY DEF Errors
<1>3. /\ SameBases(frames, frames) /\ SameBases(frames, SetTop(Advanced))
      /\ SameBases(frames, SetTop(Failed("TYPE_MISMATCH")))
      /\ \A p, x : SameBases(frames, StoreIn(SetTop(Advanced), p, x))
  BY <1>1, <1>2, FramesInside
<1>4. KeepsLow(b, stack, stack) /\ \A v : KeepsLow(b, stack, Append(stack, v))
  <2>1. Len(stack) \in Nat /\ curframe.base \in Nat /\ curframe.base <= Len(stack)
    BY OwnOperands DEF DoLvalue, DoAssign, DoBinOp, DoUnOp, DoIncDec
  <2>2. 0 \in 0 .. Len(stack) /\ curframe.base <= Len(stack) - 0
    BY <2>1
  <2>3. QED
    BY <2>1, <2>2, LowKept
<1>5. CASE DoLvalue
  <2>1. /\ frames' = SetTop(Advanced) \/ frames' = frames
        /\ stack' = stack \/ \E v : stack' = Append(stack, v)
    BY <1>5 DEF DoLvalue
  <2>2. QED
    BY <1>3, <1>4, <2>1 DEF Inside
<1>6. CASE DoAssign
  <2>1. Exec({"ASSIGN"}) /\ instr.op = "ASSIGN"
    BY <1>6 DEF DoAssign, Exec
  <2>2. KeepsLow(b, stack, Drop(2))
    BY <2>1, OperandsNumber, StackInside
  <2>3. /\ frames' = frames \/ \E p, x : frames' = StoreIn(SetTop(Advanced), p, x)
        /\ stack' = stack \/ stack' = Drop(2)
    BY <1>6 DEF DoAssign
  <2>4. QED
    BY <1>3, <1>4, <2>2, <2>3 DEF Inside
<1>7. CASE DoBinOp
  <2>1. Exec(BinOps) /\ instr.op \in BinOps
    BY <1>7 DEF DoBinOp, Exec
  <2>2. \A v : KeepsLow(b, stack, Append(Drop(2), v))
    BY <2>1, OperandsNumber, StackInside
  <2>3. PICK res : /\ stack' = IF res.r = "ok" THEN Append(Drop(2), res.val) ELSE stack
                   /\ frames' = SetTop(IF res.r = "mismatch"
                                       THEN Failed("TYPE_MISMATCH") ELSE Advanced)
    BY <1>7 DEF DoBinOp
  <2>4. QED
    BY <1>3, <1>4, <2>2, <2>3 DEF Inside
<1>8. CASE DoUnOp
  <2>1. Exec(UnOps) /\ instr.op \in UnOps
    BY <1>8 DEF DoUnOp, Exec
  <2>2. \A v : KeepsLow(b, stack, Append(Drop(1), v))
    BY <2>1, OperandsNumber, StackInside
  <2>3. /\ \/ frames' = SetTop(Advanced) \/ frames' = SetTop(Failed("TYPE_MISMATCH"))
           \/ \E p, x : frames' = StoreIn(SetTop(Advanced), p, x)
        /\ stack' = stack \/ \E v : stack' = Append(Drop(1), v)
    BY <1>8 DEF DoUnOp
  <2>4. QED
    BY <1>3, <1>4, <2>2, <2>3 DEF Inside
<1>9. CASE DoIncDec
  <2>1. Exec({"INC", "DEC", "PINC", "PDEC"}) /\ instr.op \in {"INC", "DEC", "PINC", "PDEC"}
    BY <1>9 DEF DoIncDec, Exec
  <2>2. \A v : KeepsLow(b, stack, Append(Drop(1), v))
    BY <2>1, OperandsNumber, StackInside
  <2>3. /\ \/ frames' = frames \/ frames' = SetTop(Failed("TYPE_MISMATCH"))
           \/ \E p, x : frames' = StoreIn(SetTop(Advanced), p, x)
        /\ stack' = stack \/ \E v : stack' = Append(Drop(1), v)
    BY <1>9 DEF DoIncDec
  <2>4. QED
    BY <1>3, <1>4, <2>2, <2>3 DEF Inside
<1>10. QED
  BY <1>5, <1>6, <1>7, <1>8, <1>9

(* Blocks.                                                                 *)
LEMMA BlocksInside ==
  ASSUME IInv, BasesFit, OperandsOwned, DoEnter \/ DoLeave \/ DoSetBreak \/ DoTry
  PROVE  Inside
<1>1. Fetches /\ stack' = stack
  BY DEF DoEnter, DoLeave, DoSetBreak, DoTry, Exec, Inner
<1>2. /\ frames # << >> /\ instr.arg \in Int
      /\ instr.op = "ENTER" => instr.arg \in Nat
      /\ FrameOK(prog, Advanced) /\ Advanced.base = curframe.base
      /\ Advanced.blocks = curframe.blocks
  BY <1>1, CurrentInstr, AdvancedOK DEF Instr
<1>3. KeepsLow(curframe.base, stack, stack')
  <2>1. curframe.base <= Len(stack)
    BY <1>2 DEF BasesFit
  <2>2. QED
    BY <1>1, <2>1 DEF KeepsLow
<1>4. leaveBlock(Advanced).base = curframe.base
  <2>1. CASE Advanced.blocks = << >>
    BY <1>2, <2>1 DEF leaveBlock
  <2>2. CASE Advanced.blocks # << >>
    <3>1. Advanced.blocks \in Seq(BlockFrame)
      BY <1>2 DEF FrameOK, BlocksOK
    <3>2. Len(Advanced.blocks) - 1 \in Nat
      BY <2>2, <3>1, EmptySeq
    <3>3. QED
      BY <1>2, <2>2, <3>2, LeaveKeepsFrame DEF leaveBlock
  <2>3. QED
    BY <2>1, <2>2
<1>5. SameBases(frames, frames')
  <2>1. CASE DoEnter
    <3>1. frames' = SetTop(enterBlock(Advanced, instr.arg)) /\ instr.arg \in Nat
      BY <1>2, <2>1 DEF DoEnter, Exec
    <3>2. enterBlock(Advanced, instr.arg).base = curframe.base
      BY <1>2, <3>1, EnterKeepsFrame
    <3>3. QED
      BY <1>2, <3>1, <3>2, TopBases
  <2>2. CASE DoLeave
    <3>1. frames' = SetTop(leaveBlock(Advanced))
      BY <2>2 DEF DoLeave
    <3>2. QED
      BY <1>2, <1>4, <3>1, TopBases
  <2>3. CASE (DoSetBreak \/ DoTry) /\ curframe.blocks = << >>
    <3>1. frames' = frames
      BY <2>3 DEF DoSetBreak, DoTry
    <3>2. QED
      BY <1>1, <3>1, FramesInside
  <2>4. CASE (DoSetBreak \/ DoTry) /\ curframe.blocks # << >>
    <3>1. \/ frames' = SetTop(setBreak(Advanced, instr.arg))
          \/ frames' = SetTop(setTry(Advanced, instr.arg))
      BY <2>4 DEF DoSetBreak, DoTry
    <3>2. /\ setBreak(Advanced, instr.arg).base = curframe.base
          /\ setTry(Advanced, instr.arg).base = curframe.base
      BY <1>2, <2>4, SetKeepsFrame
    <3>3. QED
      BY <1>2, <3>1, <3>2, TopBases
  <2>5. QED
    BY <2>1, <2>2, <2>3, <2>4
<1>6. QED
  BY <1>3, <1>5 DEF Inside

(* Jumps.                                                                  *)
LEMMA JumpsInside ==
  ASSUME IInv, BasesFit, OperandsOwned, DoBreak \/ DoJmp \/ DoJmpIf
  PROVE  Inside
<1> DEFINE b == curframe.base
<1>1. Fetches
  BY DEF DoBreak, DoJmp, DoJmpIf, Exec
<1>2. /\ frames # << >> /\ instr.arg \in Int /\ nextpc \in Int
      /\ curframe \in Frame /\ "TYPE_MISMATCH" \in Errors
  BY <1>1, CurrentInstr, CurrentFrame DEF Instr, Errors
<1>3. /\ SameBases(frames, SetTop(Failed("TYPE_MISMATCH")))
      /\ \A pc \in Int : SameBases(frames, SetTop([curframe EXCEPT !.pc = pc]))
      /\ \A pc \in Int : \A p, x :
           SameBases(frames, StoreIn(SetTop([curframe EXCEPT !.pc = pc]), p, x))
  BY <1>1, <1>2, FramesInside
<1>4. KeepsLow(b, stack, stack)
  <2>1. curframe.base <= Len(stack)
    BY <1>2 DEF BasesFit
  <2>2. QED
    BY <2>1 DEF KeepsLow
<1>5. CASE DoBreak \/ DoJmp
  <2>1. PICK g : frames' = SetTop(g) /\ g.base = curframe.base
    <3>1. ASSUME NEW pc PROVE [curframe EXCEPT !.pc = pc].base = curframe.base
      BY <1>2 DEF Frame
    <3>2. ASSUME NEW pc, NEW e
          PROVE  [curframe EXCEPT !.pc = pc, !.err = e].base = curframe.base
      BY <1>2 DEF Frame
    <3>3. Failed("BAD_CONTINUE").base = curframe.base
      BY <1>1, AdvancedOK DEF Errors
    <3>4. \/ \E pc : frames' = SetTop([curframe EXCEPT !.pc = pc])
          \/ \E pc, e : frames' = SetTop([curframe EXCEPT !.pc = pc, !.err = e])
          \/ frames' = SetTop(Failed("BAD_CONTINUE"))
      BY <1>5 DEF DoBreak, DoJmp
    <3>5. CASE \E pc : frames' = SetTop([curframe EXCEPT !.pc = pc])
      <4>1. PICK pc, g : g = [curframe EXCEPT !.pc = pc] /\ frames' = SetTop(g)
        BY <3>5
      <4>2. g.base = curframe.base
        BY <3>1, <4>1
      <4>3. QED
        BY <4>1, <4>2
    <3>6. CASE \E pc, e : frames' = SetTop([curframe EXCEPT !.pc = pc, !.err = e])
      <4>1. PICK pc, e, g : g = [curframe EXCEPT !.pc = pc, !.err = e] /\ frames' = SetTop(g)
        BY <3>6
      <4>2. g.base = curframe.base
        BY <3>2, <4>1
      <4>3. QED
        BY <4>1, <4>2
    <3>7. QED
      BY <3>3, <3>4, <3>5, <3>6
  <2>2. SameBases(frames, frames')
    BY <1>2, <2>1, TopBases
  <2>3. stack' = stack
    BY <1>5 DEF DoBreak, DoJmp, Inner
  <2>4. QED
    BY <1>4, <2>2, <2>3 DEF Inside
<1>6. CASE DoJmpIf
  <2>1. Exec({"JMPZ", "JMPNZ"}) /\ instr.op \in {"JMPZ", "JMPNZ"}
    BY <1>6 DEF DoJmpIf, Exec
  <2>2. KeepsLow(b, stack, Drop(1))
    BY <2>1, OperandsNumber, StackInside
  <2>3. \/ frames' = SetTop(Failed("TYPE_MISMATCH")) /\ stack' = stack
        \/ \E pc \in {instr.arg, nextpc} :
             /\ stack' = Drop(1)
             /\ \/ frames' = SetTop([curframe EXCEPT !.pc = pc])
                \/ \E p, x : frames' = StoreIn(SetTop([curframe EXCEPT !.pc = pc]), p, x)
    BY <1>6 DEF DoJmpIf
  <2>4. CASE frames' = SetTop(Failed("TYPE_MISMATCH")) /\ stack' = stack
    BY <1>3, <1>4, <2>4 DEF Inside
  <2>5. ASSUME NEW pc \in {instr.arg, nextpc}, stack' = Drop(1),
               \/ frames' = SetTop([curframe EXCEPT !.pc = pc])
               \/ \E p, x : frames' = StoreIn(SetTop([curframe EXCEPT !.pc = pc]), p, x)
        PROVE  Inside
    <3>1. pc \in Int
      BY <1>2, <2>5
    <3>2. SameBases(frames, frames')
      BY <1>3, <2>5, <3>1
    <3>3. QED
      BY <2>2, <2>5, <3>2 DEF Inside
  <2>6. QED
    BY <2>3, <2>4, <2>5
<1>7. QED
  BY <1>5, <1>6

(* Native calls, and the instructions that end a method.                   *)
LEMMA ReturnsInside ==
  ASSUME IInv, BasesFit, OperandsOwned, DoNative \/ DoUnknown \/ DoVret \/ DoRet \/ DoThrow
  PROVE  Inside
<1> DEFINE b == curframe.base
<1>1. Fetches
  BY DEF DoNative, DoUnknown, DoVret, DoRet, DoThrow, Exec
<1>2. /\ frames # << >> /\ FrameOK(prog, curframe) /\ curframe \in Frame
      /\ stack \in Seq(Value) /\ Len(stack) \in Nat
  BY <1>1, CurrentInstr, CurrentFrame, LenProperties DEF IInv
<1>3. /\ SameBases(frames, SetTop(Advanced))
      /\ \A e \in Errors : SameBases(frames, SetTop(Failed(e)))
  BY <1>1, FramesInside
<1>4. KeepsLow(b, stack, stack)
  <2>1. curframe.base <= Len(stack)
    BY <1>2 DEF BasesFit
  <2>2. QED
    BY <2>1 DEF KeepsLow
<1>5. CASE DoNative
  <2>1. Exec({"SCALL"}) /\ instr.op = "SCALL" /\ instr.arg # 0
    BY <1>5 DEF DoNative, Exec
  <2>2. Callee.args \in Nat
    <3>1. instr.arg \in 1 .. Len(prog.methods) /\ IsProgram(prog)
      BY <1>1, <1>2, <2>1, CurrentInstr, CurrentFrame
    <3>2. QED
      BY <3>1 DEF IsProgram, IsMethod, Callee
  <2>3. PICK k : k = Callee.args
    OBVIOUS
  <2>4. k \in Nat /\ Operands(instr) = k
    BY <2>1, <2>2, <2>3, OperandsNumber
  <2>5. KeepsLow(b, stack, Drop(k)) /\ \A v : KeepsLow(b, stack, Append(Drop(k), v))
    BY <2>1, <2>4, StackInside
  <2>6. KeepsLow(b, stack, stack')
    <3>1. stack' = Drop(k) \/ \E v : stack' = Append(Drop(k), v)
      BY <1>5, <2>3 DEF DoNative
    <3>2. QED
      BY <2>5, <3>1
  <2>7. SameBases(frames, frames')
    <3>1. CASE Callee.hasretval
      <4>1. PICK answer \in Answers \cup {Silent} : frames' = SetTop(Failed(answer.err))
        BY <1>5, <3>1 DEF DoNative
      <4>2. answer \in NativeAnswer
        <5>1. Silent \in NativeAnswer
          BY ConstantsArePlain, BoolIsPlain DEF Silent, NativeAnswer
        <5>2. QED
          BY <4>1, <5>1, AnswersAssumption
      <4>3. answer.err \in Errors
        BY <4>2 DEF NativeAnswer, Errors
      <4>4. QED
        BY <1>3, <4>1, <4>3
    <3>2. CASE ~Callee.hasretval
      BY <1>3, <1>5, <3>2 DEF DoNative
    <3>3. QED
      BY <3>1, <3>2
  <2>8. QED
    BY <2>6, <2>7 DEF Inside
<1>6. CASE DoUnknown \/ DoVret
  <2>1. \E e \in {"UNKNOWN_METHOD", "RETURN"} : frames' = SetTop(Failed(e))
    BY <1>6 DEF DoUnknown, DoVret
  <2>2. SameBases(frames, frames')
    BY <1>3, <2>1 DEF Errors
  <2>3. stack' = stack
    BY <1>6 DEF DoUnknown, DoVret
  <2>4. QED
    BY <1>4, <2>2, <2>3 DEF Inside
<1>7. CASE DoRet
  <2>1. Exec({"RET"}) /\ instr.op = "RET" /\ stack' = Drop(1)
    BY <1>7 DEF DoRet, Exec
  <2>2. KeepsLow(b, stack, Drop(1))
    BY <2>1, OperandsNumber, StackInside
  <2>3. PICK f, x : f = leaveBlock(Failed("RETURN")) /\ frames' = SetTop([f EXCEPT !.retval = x])
    BY <1>7 DEF DoRet
  <2>4. FrameOK(prog, f) /\ f.base = curframe.base
    <3>1. PICK g : g = Failed("RETURN")
      OBVIOUS
    <3>2. FrameOK(prog, g) /\ g.base = curframe.base
      BY <1>1, <3>1, AdvancedOK DEF Errors
    <3>3. CASE g.blocks = << >>
      BY <2>3, <3>1, <3>2, <3>3 DEF leaveBlock
    <3>4. CASE g.blocks # << >>
      <4>1. Len(g.blocks) - 1 \in Nat
        BY <3>2, <3>4, EmptySeq DEF FrameOK, BlocksOK
      <4>2. QED
        BY <2>3, <3>1, <3>2, <3>4, <4>1, LeaveKeepsFrame DEF leaveBlock
    <3>5. QED
      BY <3>3, <3>4
  <2>5. [f EXCEPT !.retval = x].base = curframe.base
    BY <2>4 DEF FrameOK, Frame
  <2>6. SameBases(frames, frames')
    BY <1>2, <2>3, <2>5, TopBases
  <2>7. QED
    BY <2>1, <2>2, <2>6 DEF Inside
<1>8. CASE DoThrow
  <2>1. Exec({"THROW"}) /\ instr.op = "THROW"
    BY <1>8 DEF DoThrow, Exec
  <2>2. PICK f : f = getCatch(curframe)
    OBVIOUS
  <2>3. FrameOK(prog, f) /\ f.base = curframe.base
    BY <1>2, <2>2, CatchKeepsFrame
  <2>4. CASE Handlers(curframe) # {}
    <3>1. frames' = SetTop(f) /\ stack' = stack
      BY <1>8, <2>2, <2>4 DEF DoThrow
    <3>2. QED
      BY <1>2, <1>4, <2>3, <3>1, TopBases DEF Inside
  <2>5. CASE Handlers(curframe) = {}
    <3>1. PICK x, n : /\ frames' = SetTop([f EXCEPT !.retval = x, !.err = "EXCEPTION"])
                      /\ stack' = [stack EXCEPT ![n] = x] /\ n = Len(stack)
      BY <1>8, <2>2, <2>5 DEF DoThrow
    <3>2. [f EXCEPT !.retval = x, !.err = "EXCEPTION"].base = curframe.base
      BY <2>3 DEF FrameOK, Frame
    <3>3. SameBases(frames, frames')
      BY <1>2, <3>1, <3>2, TopBases
    <3>4. b \in Nat /\ b <= n - 1
      BY <2>1, <2>5, <3>1, OperandsNumber, OwnOperands
    <3>5. n \in 1 .. Len(stack) /\ b < n
      BY <1>2, <3>1, <3>4
    <3>6. KeepsLow(b, stack, stack')
      BY <1>2, <3>1, <3>4, <3>5, LowAltered
    <3>7. QED
      BY <3>3, <3>6 DEF Inside
  <2>6. QED
    BY <2>4, <2>5
<1>9. QED
  BY <1>5, <1>6, <1>7, <1>8

(* A frame that starts no lower may be pushed, and frames with the same    *)
(* bases are in the same order.                                            *)
LEMMA OrderKept ==
  ASSUME NEW fs \in Seq(Frame), Ordered(fs)
  PROVE  /\ \A g : (fs # << >> => fs[Len(fs)].base <= g.base) => Ordered(Append(fs, g))
         /\ \A gs : SameBases(fs, gs) => Ordered(gs)
<1>1. Len(fs) \in Nat
  OBVIOUS
<1>2. ASSUME NEW g, fs # << >> => fs[Len(fs)].base <= g.base
      PROVE  Ordered(Append(fs, g))
  <2>1. PICK hs, n : hs = Append(fs, g) /\ n = Len(fs)
    OBVIOUS
  <2>2. n \in Nat /\ Len(hs) = n + 1 /\ hs[n + 1] = g /\ \A k \in 1 .. n : hs[k] = fs[k]
    BY <1>1, <2>1, AppendProperties
  <2>3. ASSUME NEW k \in 1 .. n PROVE hs[k].base <= hs[k + 1].base
    <3>1. CASE k = n
      <4>1. fs # << >> /\ hs[k] = fs[n]
        BY <2>1, <2>2, <2>3, <3>1
      <4>2. QED
        BY <1>2, <2>1, <2>2, <3>1, <4>1
    <3>2. CASE k # n
      <4>1. k \in 1 .. n - 1 /\ k + 1 \in 1 .. n
        BY <2>2, <2>3, <3>2
      <4>2. fs[k].base <= fs[k + 1].base
        BY <2>1, <4>1 DEF Ordered
      <4>3. QED
        BY <2>2, <2>3, <4>1, <4>2
    <3>3. QED
      BY <3>1, <3>2
  <2>4. Len(hs) - 1 = n
    BY <2>2
  <2>5. QED
    BY <2>1, <2>3, <2>4 DEF Ordered
<1>3. ASSUME NEW gs, SameBases(fs, gs) PROVE Ordered(gs)
  <2>1. Len(gs) = Len(fs) /\ \A k \in 1 .. Len(fs) : gs[k].base = fs[k].base
    BY <1>3 DEF SameBases
  <2>2. \A k \in 1 .. Len(fs) - 1 : k \in 1 .. Len(fs) /\ k + 1 \in 1 .. Len(fs)
    BY <1>1
  <2>3. QED
    BY <2>1, <2>2 DEF Ordered
<1>4. QED
  BY <1>2, <1>3

(* A step within the frame that runs keeps the bases in place.             *)
LEMMA InsideFits ==
  ASSUME IInv, BasesFit, frames # << >>, Inside
  PROVE  BasesFit' /\ KeepsLow(curframe.base, stack, stack')
<1>1. frames \in Seq(Frame) /\ Len(frames) \in Nat \ {0}
  BY CurrentFrame DEF IInv, FramesOK
<1>2. SameBases(frames, frames') /\ KeepsLow(curframe.base, stack, stack')
  BY DEF Inside
<1>3. Ordered(frames')
  BY <1>1, <1>2, OrderKept DEF BasesFit
<1>4. curframe'.base = curframe.base
  BY <1>1, <1>2 DEF SameBases, curframe
<1>5. curframe'.base <= Len(stack')
  BY <1>2, <1>4 DEF KeepsLow
<1>6. QED
  BY <1>2, <1>3, <1>5 DEF BasesFit, Ordered

(* A call starts where its arguments were (enterFrame).                    *)
LEMMA ScallFits ==
  ASSUME IInv, BasesFit, OperandsOwned, DoScall
  PROVE  BasesFit' /\ KeepsLow(curframe.base, stack, stack')
<1>1. PICK n : /\ n = Callee.args
               /\ stack' = Drop(n)
               /\ frames' = Append(SetTop(Advanced),
                              NewFrame(instr.arg, n, CallArgs(n), Len(stack) - n))
  BY DEF DoScall
<1>2. Exec({"SCALL"}) /\ instr.op = "SCALL" /\ instr.arg # 0
  BY DEF DoScall, Exec
<1>3. /\ Fetches /\ frames # << >> /\ Len(stack) \in Nat /\ curframe.base \in Nat
      /\ \A k \in Nat : Operands(instr) = k => curframe.base <= Len(stack) - k
  BY <1>2, OwnOperands
<1>4. n \in Nat
  <2>1. instr.arg \in 1 .. Len(prog.methods) /\ IsProgram(prog)
    BY <1>2, <1>3, CurrentInstr, CurrentFrame
  <2>2. QED
    BY <1>1, <2>1 DEF IsProgram, IsMethod, Callee
<1>5. Operands(instr) = n
  BY <1>1, <1>2, OperandsNumber
<1>6. curframe.base <= Len(stack) - n /\ n \in 0 .. Len(stack)
  BY <1>3, <1>4, <1>5
<1>7. KeepsLow(curframe.base, stack, stack')
  BY <1>1, <1>2, <1>4, <1>5, StackInside
<1>8. Len(stack') = Len(stack) - n
  BY <1>1, <1>6, StackOK
<1>9. PICK fs, g : /\ fs = SetTop(Advanced) /\ g.base = Len(stack) - n
                   /\ frames' = Append(fs, g)
  BY <1>1 DEF NewFrame
<1>10. fs \in Seq(Frame) /\ fs # << >> /\ SameBases(frames, fs)
  <2>1. Advanced.base = curframe.base /\ FrameOK(prog, Advanced)
    BY <1>3, AdvancedOK
  <2>2. QED
    BY <1>3, <1>9, <2>1, SetTopOK, TopBases DEF FramesOK
<1>11. frames \in Seq(Frame) /\ Len(frames) \in Nat \ {0}
  BY <1>3, CurrentFrame DEF IInv, FramesOK
<1>12. Ordered(fs)
  BY <1>10, <1>11, OrderKept DEF BasesFit
<1>13. fs[Len(fs)].base = curframe.base
  BY <1>10, <1>11 DEF SameBases, curframe
<1>14. Ordered(frames')
  BY <1>6, <1>9, <1>10, <1>12, <1>13, OrderKept
<1>15. curframe' = g
  BY <1>9, <1>10, AppendProperties DEF curframe
<1>16. QED
  BY <1>7, <1>8, <1>9, <1>14, <1>15 DEF BasesFit, Ordered

(* What a method leaves on the stack starts where its frame did            *)
(* (leaveFrame).                                                           *)
LEMMA ExitKeeps ==
  ASSUME IInv, BasesFit, frames # << >>
  PROVE  /\ Len(Kept) = curframe.base /\ Kept \in Seq(Value)
         /\ KeepsLow(curframe.base, stack, Kept)
         /\ KeepsLow(curframe.base, stack, ExitStack)
         /\ Len(ExitStack) = curframe.base +
              (IF ExitErr = "EXCEPTION" \/ (ExitErr = "NONE" /\ curmethod.hasretval) THEN 1 ELSE 0)
<1>1. PICK b, st : b = curframe.base /\ st = stack
  OBVIOUS
<1>2. st \in Seq(Value) /\ Len(st) \in Nat /\ b \in Nat /\ b <= Len(st)
  BY <1>1, LenProperties, CurrentFrame DEF IInv, BasesFit, Frame
<1>3. PICK kept : kept = Kept
  OBVIOUS
<1>4. kept = IF Len(st) > b THEN SubSeq(st, 1, b) ELSE st
  BY <1>1, <1>3 DEF Kept
<1>5. kept \in Seq(Value) /\ Len(kept) = b /\ \A p \in 1 .. b : kept[p] = st[p]
  BY <1>2, <1>4
<1>6. PICK more : more = Append(kept, curframe.retval)
  OBVIOUS
<1>7. Len(more) = b + 1 /\ \A p \in 1 .. b : more[p] = kept[p]
  BY <1>2, <1>5, <1>6, AppendProperties
<1>8. KeepsLow(b, st, kept) /\ KeepsLow(b, st, more)
  BY <1>2, <1>5, <1>7 DEF KeepsLow
<1>9. ExitStack = IF ExitErr = "EXCEPTION" \/ (ExitErr = "NONE" /\ curmethod.hasretval)
                  THEN more ELSE kept
  <2>1. ExitStack = IF ExitErr = "EXCEPTION" \/ (ExitErr = "NONE" /\ curmethod.hasretval)
                    THEN Append(Kept, curframe.retval) ELSE Kept
    BY DEF ExitStack
  <2>2. QED
    BY <1>3, <1>6, <2>1
<1>10. QED
  BY <1>1, <1>2, <1>3, <1>5, <1>7, <1>8, <1>9

(* Back in the caller, which starts no higher (leaveFrame and OP_SCALL).   *)
LEMMA MethodExitFits ==
  ASSUME IInv, BasesFit, MethodExit
  PROVE  BasesFit' /\ KeepsLow(curframe.base, stack, stack')
<1>1. frames # << >> /\ Len(frames) > 1
  BY DEF MethodExit, Exits
<1>2. PICK n : n = Len(frames)
  OBVIOUS
<1>3. frames \in Seq(Frame) /\ n \in Nat /\ n > 1 /\ curframe.base \in Nat
  BY <1>1, <1>2, CurrentFrame DEF IInv, FramesOK, Frame
<1>4. FrameOK(prog, caller) /\ caller \in Frame /\ caller = frames[n - 1]
  <2>1. n - 1 \in 1 .. n
    BY <1>3
  <2>2. QED
    BY <1>2, <2>1 DEF IInv, FramesOK, FrameOK, caller
<1>5. PICK g : frames' = Append(Below, g) /\ g.base = caller.base
  <2>1. CASE ExitErr # "EXCEPTION"
    <3>1. PICK g : g = [caller EXCEPT !.err = ExitErr]
      OBVIOUS
    <3>2. frames' = Append(Below, g) /\ g.base = caller.base
      BY <1>4, <2>1, <3>1 DEF MethodExit, Frame
    <3>3. QED
      BY <3>2
  <2>2. CASE ExitErr = "EXCEPTION"
    <3>1. PICK f, g : /\ f = getCatch(caller)
                      /\ g = [f EXCEPT !.retval = curframe.retval, !.err = "EXCEPTION"]
      OBVIOUS
    <3>2. frames' = Append(Below, f) \/ frames' = Append(Below, g)
      BY <2>2, <3>1 DEF MethodExit
    <3>3. f \in Frame /\ f.base = caller.base
      BY <1>4, <3>1, CatchKeepsFrame DEF FrameOK
    <3>4. g.base = f.base
      BY <3>1, <3>3 DEF Frame
    <3>5. QED
      BY <3>2, <3>3, <3>4
  <2>3. QED
    BY <2>1, <2>2
<1>6. caller.base <= curframe.base
  <2>1. n - 1 \in 1 .. n - 1 /\ (n - 1) + 1 = n
    BY <1>3
  <2>2. frames[n - 1].base <= frames[(n - 1) + 1].base
    BY <1>2, <2>1 DEF BasesFit, Ordered
  <2>3. QED
    BY <1>2, <1>4, <2>1, <2>2 DEF curframe
<1>7. Ordered(frames')
  <2>1. PICK m : m = n - 2
    OBVIOUS
  <2>2. m \in 0 .. n - 2
    BY <1>3, <2>1
  <2>3. PICK fs : fs = SubSeq(frames, 1, m)
    OBVIOUS
  <2>4. fs \in Seq(Frame) /\ Len(fs) = m /\ \A k \in 1 .. m : fs[k] = frames[k]
    BY <1>2, <1>3, <2>2, <2>3
  <2>5. fs = Below
    BY <1>2, <2>1, <2>3 DEF Below
  <2>6. Ordered(fs)
    <3>1. ASSUME NEW k \in 1 .. m - 1 PROVE fs[k].base <= fs[k + 1].base
      <4>1. k \in 1 .. m /\ k + 1 \in 1 .. m /\ k \in 1 .. n - 1
        BY <1>3, <2>2, <3>1
      <4>2. frames[k].base <= frames[k + 1].base
        BY <1>2, <4>1 DEF BasesFit, Ordered
      <4>3. QED
        BY <2>4, <4>1, <4>2
    <3>2. QED
      BY <2>4, <3>1 DEF Ordered
  <2>7. fs # << >> => fs[Len(fs)].base <= g.base
    <3>1. CASE m = 0
      BY <2>4, <3>1
    <3>2. CASE m # 0
      <4>1. m \in 1 .. m /\ m \in 1 .. n - 1 /\ m + 1 = n - 1
        BY <1>3, <2>1, <2>2, <3>2
      <4>2. frames[m].base <= frames[m + 1].base
        BY <1>2, <4>1 DEF BasesFit, Ordered
      <4>3. QED
        BY <1>4, <1>5, <2>4, <4>1, <4>2
    <3>3. QED
      BY <3>1, <3>2
  <2>8. QED
    BY <1>5, <2>4, <2>5, <2>6, <2>7, OrderKept
<1>8. KeepsLow(curframe.base, stack, stack')
  <2>1. stack' = ExitStack \/ stack' = Kept
    BY DEF MethodExit
  <2>2. QED
    BY <1>1, <2>1, ExitKeeps
<1>9. curframe' = g
  <2>1. FramesOK(prog, Below)
    <3>1. Len(frames) - 2 \in 0 .. Len(frames)
      BY <1>2, <1>3
    <3>2. QED
      BY <3>1, PopKeepsFrames DEF IInv, Below
  <2>2. Below \in Seq(Frame)
    BY <2>1 DEF FramesOK
  <2>3. QED
    BY <1>5, <2>2, AppendProperties DEF curframe
<1>10. curframe'.base <= Len(stack')
  <2>1. caller.base \in Nat
    BY <1>4 DEF Frame
  <2>2. stack' = ExitStack \/ stack' = Kept
    BY DEF MethodExit
  <2>3. Len(stack') \in Nat /\ curframe.base <= Len(stack')
    BY <1>1, <1>3, <2>2, ExitKeeps DEF KeepsLow
  <2>4. QED
    BY <1>3, <1>5, <1>6, <1>9, <2>1, <2>3
<1>11. QED
  BY <1>7, <1>8, <1>10 DEF BasesFit, Ordered

(* The beginning and the end of a run, and a process that goes wrong.      *)
LEMMA RunsFit ==
  ASSUME IInv, BasesFit, RunExit \/ Run \/ Underflow \/ WildFetch \/ Done
  PROVE  BasesFit' /\ (frames # << >> => KeepsLow(curframe.base, stack, stack'))
<1>1. stack \in Seq(Value) /\ Len(stack) \in Nat
  BY LenProperties DEF IInv
<1>2. CASE RunExit
  <2>1. frames # << >> /\ Len(frames) = 1 /\ frames' = << >>
    BY <1>2 DEF RunExit, Exits
  <2>2. curframe.base = 0
    BY <2>1 DEF IInv, FramesOK, curframe
  <2>3. ExitStack \in Seq(Value)
    BY <2>1, ExitStackOK
  <2>4. Len(stack') \in Nat
    <3>1. CASE ExitStack = << >>
      BY <1>2, <3>1 DEF RunExit
    <3>2. CASE ExitStack # << >>
      <4>1. PICK st, n : st = ExitStack /\ n = Len(ExitStack) - 1
        OBVIOUS
      <4>2. st \in Seq(Value) /\ n \in 0 .. Len(st)
        BY <2>3, <3>2, <4>1
      <4>3. Len(SubSeq(st, 1, n)) = n /\ n \in Nat
        BY <4>2
      <4>4. QED
        BY <1>2, <3>2, <4>1, <4>3 DEF RunExit
    <3>3. QED
      BY <3>1, <3>2
  <2>5. KeepsLow(0, stack, stack')
    BY <2>4 DEF KeepsLow
  <2>6. QED
    BY <2>1, <2>2, <2>5 DEF BasesFit, Ordered
<1>3. CASE Run
  <2>1. frames = << >> /\ stack' = stack
    BY <1>3 DEF Run
  <2>2. PICK g : frames' = <<g>> /\ g.base = Len(stack)
    BY <1>3 DEF Run, NewFrame
  <2>3. curframe' = g /\ Ordered(frames')
    BY <2>2 DEF curframe, Ordered
  <2>4. QED
    BY <1>1, <2>1, <2>2, <2>3 DEF BasesFit, Ordered
<1>4. CASE Underflow \/ WildFetch \/ Done
  <2>1. frames' = frames /\ stack' = stack
    BY <1>4 DEF Underflow, WildFetch, Done
  <2>2. frames # << >> => KeepsLow(curframe.base, stack, stack')
    BY <2>1 DEF BasesFit, KeepsLow
  <2>3. QED
    BY <2>1, <2>2 DEF BasesFit, Ordered, curframe
<1>5. QED
  BY <1>2, <1>3, <1>4

(* Every step keeps the bases in place and the operands of the callers     *)
(* untouched.                                                              *)
LEMMA NextFits ==
  ASSUME IInv, BasesFit, OperandsOwned, [Next]_vars
  PROVE  BasesFit' /\ (frames # << >> => KeepsLow(curframe.base, stack, stack'))
<1>1. CASE UNCHANGED vars
  <2>1. frames' = frames /\ stack' = stack
    BY <1>1 DEF vars
  <2>2. frames # << >> => KeepsLow(curframe.base, stack, stack')
    BY <2>1 DEF BasesFit, KeepsLow
  <2>3. QED
    BY <2>1, <2>2 DEF BasesFit, Ordered, curframe
<1>2. CASE Next
  <2>1. CASE Inside /\ frames # << >>
    BY <2>1, InsideFits
  <2>2. CASE DoNop \/ DoPush \/ DoDup \/ DoPop \/ DoRot \/ DoRvalue
    <3>1. frames # << >>
      BY <2>2 DEF DoNop, DoPush, DoDup, DoPop, DoRot, DoRvalue, Exec, Fetches, Looping
    <3>2. QED
      BY <2>1, <2>2, <3>1, StraightInside
  <2>3. CASE DoLvalue \/ DoAssign \/ DoBinOp \/ DoUnOp \/ DoIncDec
    <3>1. frames # << >>
      BY <2>3 DEF DoLvalue, DoAssign, DoBinOp, DoUnOp, DoIncDec, Exec, Fetches, Looping
    <3>2. QED
      BY <2>1, <2>3, <3>1, OperatorsInside
  <2>4. CASE DoEnter \/ DoLeave \/ DoSetBreak \/ DoTry
    <3>1. frames # << >>
      BY <2>4 DEF DoEnter, DoLeave, DoSetBreak, DoTry, Exec, Fetches, Looping
    <3>2. QED
      BY <2>1, <2>4, <3>1, BlocksInside
  <2>5. CASE DoBreak \/ DoJmp \/ DoJmpIf
    <3>1. frames # << >>
      BY <2>5 DEF DoBreak, DoJmp, DoJmpIf, Exec, Fetches, Looping
    <3>2. QED
      BY <2>1, <2>5, <3>1, JumpsInside
  <2>6. CASE DoNative \/ DoUnknown \/ DoVret \/ DoRet \/ DoThrow
    <3>1. frames # << >>
      BY <2>6 DEF DoNative, DoUnknown, DoVret, DoRet, DoThrow, Exec, Fetches, Looping
    <3>2. QED
      BY <2>1, <2>6, <3>1, ReturnsInside
  <2>7. CASE DoScall
    BY <2>7, ScallFits
  <2>8. CASE MethodExit
    BY <2>8, MethodExitFits
  <2>9. CASE RunExit \/ Run \/ Underflow \/ WildFetch \/ Done
    BY <2>9, RunsFit
  <2>10. QED
    BY <1>2, <2>2, <2>3, <2>4, <2>5, <2>6, <2>7, <2>8, <2>9 DEF Next, Step
<1>3. QED
  BY <1>1, <1>2

(* As long as every instruction uses operands of its own frame, as those   *)
(* of a compiled program do, no step of a called method takes or changes   *)
(* an operand of its callers, for every program and every native answer.   *)
THEOREM CallersKept == Spec /\ []OperandsOwned => CallerOperandsKept
<1> DEFINE Keep == frames # << >> => /\ curframe.base <= Len(stack')
                                     /\ \A p \in 1 .. curframe.base : stack'[p] = stack[p]
<1>1. Init => BasesFit
  BY DEF Init, BasesFit, Ordered
<1>2. IInv /\ BasesFit /\ OperandsOwned /\ [Next]_vars => BasesFit'
  BY NextFits
<1>3. IInv /\ BasesFit /\ OperandsOwned /\ [Next]_vars => [Keep]_vars
  BY NextFits DEF KeepsLow
<1>4. QED
  BY <1>1, <1>2, <1>3, Invariance, PTL DEF Spec, CallerOperandsKept

(* As long as they do, a call that ends leaves one value when the method   *)
(* returns one, or the exception for a handler of the caller, and nothing  *)
(* else: the ASSERTs of callStaticMethod on stackcount and of OP_SCALL.    *)
THEOREM CallsBalanced == Spec /\ []OperandsOwned => CallBalance
<1> DEFINE Balance == MethodExit /\ ExitErr \in {"NONE", "EXCEPTION"} =>
              Len(stack') = curframe.base +
                (IF ExitErr = "NONE" THEN (IF curmethod.hasretval THEN 1 ELSE 0)
                                     ELSE (IF Handlers(caller) # {} THEN 1 ELSE 0))
<1>1. Init => BasesFit
  BY DEF Init, BasesFit, Ordered
<1>2. IInv /\ BasesFit /\ OperandsOwned /\ [Next]_vars => BasesFit'
  BY NextFits
<1>3. IInv /\ BasesFit => Balance
  <2> SUFFICES ASSUME IInv, BasesFit, MethodExit, ExitErr \in {"NONE", "EXCEPTION"}
               PROVE  Len(stack') = curframe.base +
                        (IF ExitErr = "NONE" THEN (IF curmethod.hasretval THEN 1 ELSE 0)
                                             ELSE (IF Handlers(caller) # {} THEN 1 ELSE 0))
    OBVIOUS
  <2>1. frames # << >>
    BY DEF MethodExit, Exits
  <2>2. /\ Len(Kept) = curframe.base
        /\ Len(ExitStack) = curframe.base +
             (IF ExitErr = "EXCEPTION" \/ (ExitErr = "NONE" /\ curmethod.hasretval)
              THEN 1 ELSE 0)
    BY <2>1, ExitKeeps
  <2>3. curframe.base \in Nat
    BY <2>1, CurrentFrame DEF Frame
  <2>4. CASE ExitErr = "NONE"
    <3>1. stack' = ExitStack
      BY <2>4 DEF MethodExit
    <3>2. QED
      BY <2>2, <2>4, <3>1
  <2>5. CASE ExitErr = "EXCEPTION"
    <3>1. stack' = IF Handlers(caller) # {} THEN ExitStack ELSE Kept
      BY <2>5 DEF MethodExit
    <3>2. QED
      BY <2>2, <2>3, <2>5, <3>1
  <2>6. QED
    BY <2>4, <2>5
<1>4. QED
  BY <1>1, <1>2, <1>3, Invariance, PTL DEF Spec, CallBalance
=============================================================================
