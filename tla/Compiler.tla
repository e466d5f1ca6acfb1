------------------------------ MODULE Compiler ------------------------------
(***************************************************************************)
(* The JSPP compiler (parse.c, program.c): a recursive descent that emits  *)
(* code as it reads.  A node of the source is a record: k the production,  *)
(* n a number (a literal, a variable, a method), b the nodes below.  The   *)
(* state of the compilation is that of `program' and its current method:   *)
(* the code, the next pc, the stack of symbol tables and the isrhs flag.   *)
(* Every operator below takes that state and yields the next one.          *)
(***************************************************************************)
EXTENDS Integers, Sequences, TLC

Node(k, n, b) == [k |-> k, n |-> n, b |-> b]

Start == [code |-> << >>, pc |-> 0, syms |-> << >>, cumulative |-> 0,
          isrhs |-> FALSE, hasretval |-> FALSE]

-----------------------------------------------------------------------------
(* Emission (program.c).                                                   *)

Emit(c, op, mode, arg, width) ==
  [c EXCEPT !.code = @ @@ (c.pc :> [op |-> op, mode |-> mode, arg |-> arg]),
            !.pc = @ + width,
            !.hasretval = @ \/ op = "RET"]

Emit0(c, op)            == Emit(c, op, "IM", 0, 1)
Emit1(c, op, mode, arg) == Emit(c, op, mode, arg, 3)

(* programEmitArgAt: the argument of the instruction at pc.                *)
EmitArgAt(c, pc, arg) == [c EXCEPT !.code[pc].arg = arg]

FixUp(c, pc) == EmitArgAt(c, pc, c.pc)

-----------------------------------------------------------------------------
(* Symbol tables.  Each scope numbers its variables from where the scope   *)
(* around it was when it was opened.                                       *)

symtabEnter(c) ==
  [Emit1(c, "ENTER", "IM", 0) EXCEPT
     !.syms = Append(@, [vars |-> << >>, count |-> 0, patchupPc |-> c.pc,
                         cumulative |-> IF @ = << >> THEN 0 ELSE @[Len(@)].cumulative])]

symtabNote(c, name) ==
  [c EXCEPT !.syms[Len(c.syms)] =
     [@ EXCEPT !.vars = Append(@, <<name, c.syms[Len(c.syms)].cumulative>>),
               !.cumulative = @ + 1, !.count = @ + 1]]

(* Mutant: the count of locals is not patched into the ENTER.              *)
symtabExitNoPatch(c) == [c EXCEPT !.syms = SubSeq(@, 1, Len(@) - 1)]

symtabExit(c) ==
  LET top == c.syms[Len(c.syms)]
  IN  [EmitArgAt(c, top.patchupPc, top.count) EXCEPT
         !.syms = SubSeq(@, 1, Len(@) - 1)]

(* The innermost scope that knows the name, and its latest entry there.    *)
symtabLookup(c, name) ==
  LET Knows(s) == \E i \in DOMAIN c.syms[s].vars : c.syms[s].vars[i][1] = name
      scope == CHOOSE s \in DOMAIN c.syms :
                 Knows(s) /\ \A r \in DOMAIN c.syms : Knows(r) => r <= s
      vs    == c.syms[scope].vars
      entry == CHOOSE i \in DOMAIN vs :
                 vs[i][1] = name /\ \A j \in DOMAIN vs : vs[j][1] = name => j <= i
  IN  vs[entry][2]

-----------------------------------------------------------------------------
(* Expressions.                                                            *)

BinaryOps == {"EQ", "NEQ", "LT", "LTEQ", "GT", "GTEQ", "ADD", "SUB", "MULT",
              "DIV", "MOD", "AND", "OR", "BINAND", "BINOR", "XOR",
              "LSHIFT", "RSHIFT"}

Rhs(c, flag) == [c EXCEPT !.isrhs = flag]

lvalue(c, name) == Emit1(c, "LVALUE", "BLOCK", symtabLookup(c, name))

(* The assignments that first combine the old value with the new one.      *)
AssignOps == ("+=" :> "ADD") @@ ("-=" :> "SUB") @@ ("*=" :> "MULT") @@ ("/=" :> "DIV")
          @@ ("%=" :> "MOD") @@ ("^=" :> "XOR") @@ ("|=" :> "BINOR") @@ ("&=" :> "BINAND")

(* The end of an assignment, with the instruction that combines, if any.   *)
assigned(c, ops) ==
  LET d == Emit0(c, "RVALUE")
  IN  Rhs(Emit0(IF ops = << >> THEN d ELSE Emit0(d, ops[1]), "ASSIGN"), FALSE)

(* ++ and --: the value is dropped unless a right-hand side is being read. *)
IncDec(c, op) == LET d == Emit0(c, op)
                 IN  IF d.isrhs THEN d ELSE Emit0(d, "POP")

RECURSIVE expr(_, _)
RECURSIVE exprs(_, _)

(* arglist_call: each argument in turn.                                    *)
exprs(c, es) == IF es = << >> THEN c ELSE exprs(expr(c, Head(es)), Tail(es))

expr(c, e) ==
  CASE e.k = "int"  -> Emit1(c, "PUSH", "IM", e.n)
    [] e.k = "null" -> Emit0(c, "NULL")
    [] e.k = "var"  -> lvalue(c, e.n)
    [] e.k = "call" -> Emit1(exprs(c, e.b), "SCALL", "CONST", e.n)
    [] e.k = "set"  -> assigned(expr(Rhs(lvalue(c, e.n), TRUE), e.b[1]), << >>)
    [] e.k \in DOMAIN AssignOps ->
         assigned(expr(Emit0(Rhs(lvalue(c, e.n), TRUE), "DUP"), e.b[1]), <<AssignOps[e.k]>>)
    [] e.k \in {"INC", "DEC", "PINC", "PDEC"} -> IncDec(lvalue(c, e.n), e.k)
    [] e.k \in {"NEGATE", "NOT"} -> Emit0(expr(c, e.b[1]), e.k)
    [] e.k \in BinaryOps -> Emit0(expr(expr(c, e.b[1]), e.b[2]), e.k)

-----------------------------------------------------------------------------
(* Statements.                                                             *)

RECURSIVE stmts(_, _)
RECURSIVE stmt(_, _)

stmts(c, ss) == IF ss = << >> THEN c ELSE stmts(stmt(c, Head(ss)), Tail(ss))

stmtblock(c, b) == symtabExit(Emit0(stmts(symtabEnter(c), b.b), "LEAVE"))

sif(c, s) ==
  LET c1 == Emit1(expr(c, s.b[1]), "JMPZ", "IM", 0)
      exitPc == c1.pc - 3
      c2 == Emit1(stmtblock(c1, s.b[2]), "JMP", "IM", 0)
      endPc == c2.pc - 3
      c3 == FixUp(c2, exitPc)
  IN  FixUp(IF Len(s.b) = 3 THEN stmtblock(c3, s.b[3]) ELSE c3, endPc)

swhile(c, s) ==
  LET c1 == Emit1(c, "SETBREAK", "IM", 0)
      breakPc == c1.pc - 3
      topPc == c1.pc
      c2 == Emit1(Rhs(expr(Rhs(c1, TRUE), s.b[1]), FALSE), "JMPZ", "IM", 0)
      exitPc == c2.pc - 3
      c3 == Emit1(stmtblock(c2, s.b[2]), "JMP", "IM", topPc)
  IN  Emit1(FixUp(FixUp(c3, exitPc), breakPc), "SETBREAK", "IM", -1)

(* sfor, evalfor and postfor, with all three parts of the header present.  *)
sfor(c, s) ==
  LET c1 == Emit1(stmt(c, s.b[1]), "SETBREAK", "IM", 0)
      breakPc == c1.pc - 3
      evalPc == c1.pc
      c2 == Emit1(expr(c1, s.b[2]), "JMPZ", "IM", 0)
      exitPc == c2.pc - 3
      c3 == Emit1(c2, "JMP", "IM", 0)
      skipPostPc == c3.pc - 3
      postPc == c3.pc
      c4 == FixUp(Emit1(expr(c3, s.b[3]), "JMP", "IM", evalPc), skipPostPc)
      c5 == Emit1(stmtblock(c4, s.b[4]), "JMP", "IM", postPc)
  IN  Emit1(FixUp(FixUp(c5, exitPc), breakPc), "SETBREAK", "IM", -1)

(* switchblock: the cases, each with the default that may follow it.  A    *)
(* case node holds its literal in n and its statements in b.               *)
RECURSIVE cases(_, _, _)

cases(c, cs, defaultPc) ==
  IF cs = << >>
  THEN Emit1(c, "JMP", "IM", defaultPc)
  ELSE LET s == Head(cs)
       IN  IF s.k = "case"
           THEN LET c1 == Emit1(Emit0(c, "DUP"), "PUSH", "IM", s.n)
                    c2 == Emit1(Emit0(c1, "EQ"), "JMPZ", "IM", 0)
                    c3 == FixUp(stmts(c2, s.b), c2.pc - 3)
                IN  cases(c3, Tail(cs), defaultPc)
           ELSE LET c1 == Emit1(c, "JMP", "IM", 0)
                    c2 == FixUp(stmts(c1, s.b), c1.pc - 3)
                IN  cases(c2, Tail(cs), c1.pc)

sswitch(c, s) ==
  LET c1 == Emit1(expr(c, s.b[1]), "SETBREAK", "IM", 0)
      breakPc == c1.pc - 3
      c2 == Emit0(cases(symtabEnter(c1), Tail(s.b), -1), "LEAVE")
  IN  FixUp(symtabExit(c2), breakPc)

(* Mutant: a return without a value is compiled like one with a value.     *)
sreturnAlwaysRet(c, s) ==
  IF s.b = << >> THEN Emit0(Emit0(c, "LEAVE"), "RET")
  ELSE Rhs(Emit0(expr(Rhs([c EXCEPT !.hasretval = TRUE], TRUE), s.b[1]), "RET"), FALSE)

sreturn(c, s) ==
  IF s.b = << >> THEN Emit0(Emit0(c, "LEAVE"), "VRET")
  ELSE Rhs(Emit0(expr(Rhs([c EXCEPT !.hasretval = TRUE], TRUE), s.b[1]), "RET"), FALSE)

localvar(c, s) ==
  LET c1 == symtabNote(c, s.n)
  IN  IF s.b = << >> THEN c1
      ELSE Rhs(Emit0(expr(Rhs(lvalue(c1, s.n), TRUE), s.b[1]), "ASSIGN"), FALSE)

(* n is the catch variable; b the try, catch and, possibly, finally block. *)
(* The handler stores the exception and asks for the finally block to come *)
(* back to the catch block (the TRUE it pushes).                           *)
dotry(c, s) ==
  LET c1 == Emit1(c, "TRY", "IM", -1)
      c2 == Emit1(stmtblock(c1, s.b[1]), "PUSH", "IM", 0)
      c3 == Emit1(c2, "JMP", "IM", 0)
      endtrypc == c3.pc - 3
      c4 == symtabNote(FixUp(c3, c.pc), s.n)
      c5 == Emit0(Emit0(lvalue(c4, s.n), "ROT"), "ASSIGN")
      c6 == Emit1(Emit1(c5, "PUSH", "IM", 1), "JMP", "IM", 0)
      finallypc == c6.pc - 3
      startcatchpc == c6.pc
      c7 == FixUp(FixUp(stmtblock(c6, s.b[2]), endtrypc), finallypc)
      c8 == IF Len(s.b) = 3 THEN stmtblock(c7, s.b[3]) ELSE c7
  IN  Emit1(c8, "JMPNZ", "IM", startcatchpc)

stmt(c, s) ==
  CASE s.k = "if"       -> sif(c, s)
    [] s.k = "while"    -> swhile(c, s)
    [] s.k = "for"      -> sfor(c, s)
    [] s.k = "switch"   -> sswitch(c, s)
    [] s.k = "return"   -> sreturn(c, s)
    [] s.k = "decl"     -> localvar(c, s)
    [] s.k = "break"    -> Emit0(c, "BREAK")
    [] s.k = "continue" -> Emit0(c, "CONTINUE")
    [] s.k = "try"      -> dotry(c, s)
    [] s.k = "throw"    -> Emit0(expr(c, s.b[1]), "THROW")
    [] s.k = "expr"     -> expr(c, s.b[1])

-----------------------------------------------------------------------------
(* Methods.  A declaration is [args, body, native, returns]; the arguments *)
(* are counted among the variables of the method's outermost block.        *)

RECURSIVE noteAll(_, _)
noteAll(c, names) ==
  IF names = << >> THEN c ELSE noteAll(symtabNote(c, Head(names)), Tail(names))

methodbody(c, b) == symtabExit(Emit0(stmts(c, b), "LEAVE"))

method(m) ==
  LET c == methodbody(noteAll(symtabEnter(Start), m.args), m.body)
  IN  [code |-> c.code, len |-> c.pc, args |-> Len(m.args),
       hasretval |-> c.hasretval, isnative |-> FALSE]

nativeMethod(m) ==
  [code |-> << >>, len |-> 0, args |-> Len(m.args),
   hasretval |-> m.returns, isnative |-> TRUE]

Compile(src) ==
  [methods |-> [k \in DOMAIN src |-> IF src[k].native THEN nativeMethod(src[k])
                                                      ELSE method(src[k])],
   consts  |-> << >>,
   src     |-> src]
=============================================================================
