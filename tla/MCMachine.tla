----------------------------- MODULE MCMachine -----------------------------
(***************************************************************************)
(* The machine on bytecode that no compiler vouches for: every code of two *)
(* free instructions after a prefix that sets the scene, run twice.  What  *)
(* must hold here must hold whatever the compiler emits.                   *)
(***************************************************************************)
EXTENDS MCInterp

I0(op)      == [op |-> op, mode |-> "IM", arg |-> 0]
I(op, mode, arg) == [op |-> op, mode |-> mode, arg |-> arg]

(* Lay instructions out in words.                                          *)
RECURSIVE Assemble(_, _, _)
Assemble(is, pc, code) ==
  IF is = << >> THEN [code |-> code, len |-> pc]
  ELSE Assemble(Tail(is), pc + Width(Head(is)), code @@ (pc :> Head(is)))

Bytecode(is, args, hasretval) ==
  LET asm == Assemble(is, 0, << >>)
  IN  [code |-> asm.code, len |-> asm.len, args |-> args,
       hasretval |-> hasretval, isnative |-> FALSE]

NativeCode(args, hasretval) ==
  [code |-> << >>, len |-> 0, args |-> args, hasretval |-> hasretval, isnative |-> TRUE]

(* Two methods to call: one returns its argument, one throws it.           *)
Helpers == <<Bytecode(<<I("LVALUE", "BLOCK", 0), I0("RET")>>, 1, TRUE),
             Bytecode(<<I("LVALUE", "BLOCK", 0), I0("RVALUE"), I0("THROW")>>, 1, FALSE),
             NativeCode(0, TRUE),
             NativeCode(1, FALSE)>>

(* Jumps lead forward, so that no code pushes without end.                 *)
Free == {I0(op) : op \in NoArg \ (BinOps \cup {"CONTINUE"})}
   \cup {I0(op) : op \in {"ADD", "DIV", "EQ", "XOR", "LSHIFT", "AND"}}
   \cup {I(op, "IM", arg) : op \in {"ENTER", "PUSH"}, arg \in {0, 1}}
   \cup {I("PUSH", "CONST", 1), I("LINE", "IM", 1)}
   \cup {I("LVALUE", "BLOCK", arg) : arg \in {0, 2}}
   \cup {I(op, "IM", 20) : op \in {"SETBREAK", "TRY", "JMP", "JMPZ", "JMPNZ"}}
   \cup {I("SCALL", "CONST", m) : m \in 0 .. 5 \ {1}}

Prefixes == {<<I("ENTER", "IM", 2), I("TRY", "IM", 14), I("LVALUE", "BLOCK", 1), I("PUSH", "IM", 1)>>,
             <<I("ENTER", "IM", 1), I("SETBREAK", "IM", 17), I("ENTER", "IM", 1), I0("NULL"),
               I("LVALUE", "BLOCK", 0)>>,
             <<I("ENTER", "IM", 1), I("LVALUE", "BLOCK", 0), I("PUSH", "IM", 7), I0("ASSIGN"),
               I("LVALUE", "BLOCK", 0)>>}

MCMachinePrograms ==
  {[methods |-> <<Bytecode(p \o <<i, j>> \o <<I0("LEAVE"), I0("CONTINUE")>>, 0, h)>> \o Helpers,
    consts |-> <<BoolV(TRUE)>>] : p \in Prefixes, i \in Free, j \in Free, h \in BOOLEAN}
=============================================================================
