------------------------------ MODULE Variant ------------------------------
(***************************************************************************)
(* The values of the JSPP machine (variant.c): a type tag and one word of  *)
(* data.  A PTR is a reference to slot v of the locals of frame f; every   *)
(* other value has f = 0.  Floats, strings and delegates are left out: the *)
(* control of the machine only tells "a number" from "not a number", and   *)
(* INST stands for every operand that is not a number.                     *)
(*                                                                         *)
(* The operators below take operands that the caller has already           *)
(* dereferenced (normalize in variant.c).                                  *)
(***************************************************************************)
EXTENDS Integers

CONSTANTS HalfWord,     \* an int32 ranges over -HalfWord .. HalfWord - 1:
                        \* 2^31 in the build, smaller for TLC
          BitAnd(_, _), \* the C operators &, |, ^ and >> on words
          BitOr(_, _),
          BitXor(_, _),
          BitShr(_, _)

Word == -HalfWord .. HalfWord - 1

ASSUME HalfWordAssumption == HalfWord \in Nat \ {0}
ASSUME BitOpsAssumption ==
  \A a, b \in Word : /\ BitAnd(a, b) \in Word
                     /\ BitOr(a, b) \in Word
                     /\ BitXor(a, b) \in Word
                     /\ BitShr(a, b) \in Word

Types == {"VOID", "NULL", "INT", "CHAR", "BOOL", "INST", "PTR"}

Value == [t : Types, v : Int, f : Nat]

(* Everything but a reference.                                             *)
Plain == {x \in Value : x.t # "PTR"}

Void     == [t |-> "VOID", v |-> 0, f |-> 0]
Null     == [t |-> "NULL", v |-> 0, f |-> 0]
IntV(n)  == [t |-> "INT",  v |-> n, f |-> 0]
BoolV(b) == [t |-> "BOOL", v |-> IF b THEN 1 ELSE 0, f |-> 0]
PtrV(f, i) == [t |-> "PTR", v |-> i, f |-> f]

varIsNumeric(x) == x.t \in {"VOID", "NULL", "INT", "CHAR", "BOOL"}

(* What varGetInt yields; only asked of numbers.                           *)
varGetInt(x) == IF x.t \in {"VOID", "NULL"} THEN 0 ELSE x.v

(* Arithmetic on int32 wraps around in the builds the project targets.     *)
Wrap(n) == ((n + HalfWord) % (2 * HalfWord)) - HalfWord

(* C division truncates towards zero, \div towards minus infinity.         *)
Abs(n) == IF n < 0 THEN -n ELSE n
TruncDiv(a, b) == LET q == Abs(a) \div Abs(b)
                  IN  IF (a < 0) # (b < 0) THEN -q ELSE q

(* The division instruction of x86 traps on a quotient that is no word.    *)
DivTraps(a, b) == b = 0 \/ (a = -HalfWord /\ b = -1)

Ok(val)  == [r |-> "ok", val |-> val]
Mismatch == [r |-> "mismatch", val |-> Void]
Trap     == [r |-> "trap", val |-> Void]       \* SIGFPE

Compare == {"EQ", "NEQ", "LT", "LTEQ", "GT", "GTEQ"}
Arith   == {"ADD", "SUB", "MULT", "DIV", "MOD"}
BitOps  == {"BINAND", "BINOR", "XOR"}
Shifts  == {"RSHIFT", "LSHIFT"}
Logic   == {"AND", "OR"}
BinOps  == Compare \cup Arith \cup BitOps \cup Shifts \cup Logic
UnOps   == {"NEGATE", "NOT", "COMPL"}

(* varAssignOpEQ .. varAssignOpGE                                          *)
VarCompare(op, a, b) ==
  BoolV(CASE op = "EQ"   -> a = b
          [] op = "NEQ"  -> a # b
          [] op = "LT"   -> a < b
          [] op = "LTEQ" -> a <= b
          [] op = "GT"   -> a > b
          [] OTHER       -> a >= b)

(* varAssignOpPlus .. varAssignOpMod                                       *)
VarArith(op, a, b) ==
  IntV(Wrap(CASE op = "ADD"  -> a + b
              [] op = "SUB"  -> a - b
              [] op = "MULT" -> a * b
              [] op = "DIV"  -> TruncDiv(a, b)
              [] OTHER       -> a - b * TruncDiv(a, b)))

(* varAssignOpBinOr, varAssignOpBinAnd, varAssignOpBinXOr                  *)
VarBits(op, a, b) ==
  IntV(CASE op = "BINAND" -> BitAnd(Wrap(a), Wrap(b))
         [] op = "BINOR"  -> BitOr(Wrap(a), Wrap(b))
         [] OTHER         -> BitXor(Wrap(a), Wrap(b)))

(* Both shift opcodes call varAssignOpRightShift, which reads its first    *)
(* argument twice: x >> y and x << y are both x >> x.                      *)
VarShift(a) == IntV(BitShr(Wrap(a), Wrap(a)))

(* The operand of && and || that is not a number counts as 1.              *)
Truth(x) == ~varIsNumeric(x) \/ varGetInt(x) # 0

VarLogic(op, x, y) ==
  BoolV(IF op = "AND" THEN Truth(x) /\ Truth(y) ELSE Truth(x) \/ Truth(y))

(* x is the operand below the top of the stack, y the top.                 *)
VarBinOp(op, x, y) ==
  CASE op \in Logic -> Ok(VarLogic(op, x, y))
    [] op \in Shifts -> IF varIsNumeric(x) THEN Ok(VarShift(varGetInt(x)))
                                           ELSE Mismatch
    [] op \in BinOps \ (Logic \cup Shifts) ->
         IF ~(varIsNumeric(x) /\ varIsNumeric(y)) THEN Mismatch
         ELSE IF op \in Compare THEN Ok(VarCompare(op, varGetInt(x), varGetInt(y)))
         ELSE IF op \in BitOps THEN Ok(VarBits(op, varGetInt(x), varGetInt(y)))
         ELSE IF op \in {"DIV", "MOD"} /\ DivTraps(varGetInt(x), varGetInt(y)) THEN Trap
         ELSE Ok(VarArith(op, varGetInt(x), varGetInt(y)))

(* varNegate, varLogNot, varComp                                           *)
VarUnOp(op, x) ==
  IF ~varIsNumeric(x) THEN Mismatch
  ELSE Ok(CASE op = "NEGATE" -> IntV(Wrap(-varGetInt(x)))
            [] op = "NOT"    -> BoolV(varGetInt(x) = 0)
            [] OTHER         -> IntV(Wrap(-varGetInt(x) - 1)))
=============================================================================
