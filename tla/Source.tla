------------------------------- MODULE Source -------------------------------
(***************************************************************************)
(* What a JSPP method means, read off its source: a structured evaluator   *)
(* over the nodes of module Compiler that knows nothing of bytecode, of    *)
(* the operand stack or of block frames.  It is the reference the compiled *)
(* code is compared with.                                                  *)
(*                                                                         *)
(* s is the state of an evaluation: the variables, the native calls made,  *)
(* the answers consumed, how the last statement ended (sig) and the value  *)
(* that goes with it.  p holds what does not change: the methods and the   *)
(* tape of native answers.                                                 *)
(***************************************************************************)
EXTENDS Variant, Sequences, TLC

Fresh(out, used) == [env |-> << >>, out |-> out, used |-> used,
                     sig |-> "ok", val |-> Void]

(* Bind the variable, or rebind it.                                        *)
Bind(s, name, x) == [s EXCEPT !.env = (name :> x) @@ @]

Give(s, x) == [s EXCEPT !.val = x]
End(s, sig) == [s EXCEPT !.sig = sig]

Typed(s, res) == IF res.r # "ok" THEN End(s, "TYPE_MISMATCH") ELSE Give(s, res.val)

(* A condition holds of a number other than zero; no other value is one.   *)
IsCond(x) == varIsNumeric(x)
Holds(x)  == varGetInt(x) # 0

RECURSIVE EvalArgs(_, _, _, _)
RECURSIVE ExecAll(_, _, _)
RECURSIVE Loop(_, _, _)

-----------------------------------------------------------------------------
(* Expressions: the operands from left to right, then what is done to them.*)

(* A native method answers from the tape, and No when that is used up.     *)
InvokeNative(k, s, p, vals) ==
  LET answer == IF s.used < Len(p.tape) THEN p.tape[s.used + 1]
                ELSE [err |-> "NONE", val |-> BoolV(FALSE)]
      t == [s EXCEPT !.out = Append(@, [meth |-> k, args |-> vals])]
  IN  IF ~p.src[k].returns THEN t
      ELSE [t EXCEPT !.used = @ + 1, !.val = answer.val,
                     !.sig = IF answer.err = "NONE" THEN "ok" ELSE answer.err]

(* A method is called by value, in an environment of its own; t is how it  *)
(* ended.                                                                  *)
Arguments(m, vals) ==
  [a \in {m.args[i] : i \in DOMAIN m.args} |-> vals[CHOOSE i \in DOMAIN m.args : m.args[i] = a]]

Returned(s, t) ==
  [s EXCEPT !.out = t.out, !.used = t.used,
            !.val = IF t.sig = "ok" THEN Void ELSE t.val,
            !.sig = IF t.sig = "return" THEN "ok" ELSE t.sig]

Invoke(k, s, p, vals) ==
  IF p.src[k].native THEN InvokeNative(k, s, p, vals)
  ELSE Returned(s, ExecAll(p.src[k].body,
                           [Fresh(s.out, s.used) EXCEPT !.env = Arguments(p.src[k], vals)], p))

Apply(e, s, p, vals) ==
  CASE e.k = "int"  -> Give(s, IntV(e.n))
    [] e.k = "null" -> Give(s, Null)
    [] e.k = "var"  -> Give(s, s.env[e.n])
    [] e.k = "call" -> Invoke(e.n, s, p, vals)
    [] e.k = "set"  -> Bind(s, e.n, vals[1])
    [] e.k \in {"+=", "*="} ->
         LET t == Typed(s, VarBinOp(IF e.k = "+=" THEN "ADD" ELSE "MULT", s.env[e.n], vals[1]))
         IN  IF t.sig # "ok" THEN t ELSE Bind(t, e.n, t.val)
    [] e.k \in {"INC", "PINC", "DEC", "PDEC"} ->
         LET old == s.env[e.n]
             new == IntV(Wrap(IF e.k \in {"INC", "PINC"} THEN old.v + 1 ELSE old.v - 1))
         IN  IF old.t # "INT" THEN End(s, "TYPE_MISMATCH")
             ELSE Give(Bind(s, e.n, new), IF e.k \in {"INC", "DEC"} THEN new ELSE old)
    [] e.k \in {"NEGATE", "NOT"} -> Typed(s, VarUnOp(e.k, vals[1]))
    [] OTHER -> Typed(s, VarBinOp(e.k, vals[1], vals[2]))

(* The state and the values after the expressions es.                      *)
Done1(e, r, p) == IF r[1].sig # "ok" THEN r[1] ELSE Apply(e, r[1], p, r[2])
Onward(r, es, p, vals) == EvalArgs(Tail(es), r, p, Append(vals, r.val))

EvalArgs(es, s, p, vals) ==
  IF es = << >> \/ s.sig # "ok" THEN <<s, vals>>
  ELSE Onward(Done1(Head(es), EvalArgs(Head(es).b, s, p, << >>), p), es, p, vals)

-----------------------------------------------------------------------------
(* Statements.                                                             *)

(* The expressions a statement starts with.                                *)
Lead(st) == CASE st.k \in {"expr", "decl", "return", "throw"} -> st.b
              [] st.k \in {"if", "switch"} -> <<st.b[1]>>
              [] OTHER -> << >>

(* The statements of the first case whose literal equals the value; those  *)
(* of the default when there is none.                                      *)
Chosen(cs, x) ==
  LET Hit(i) == cs[i].k = "case" /\ varIsNumeric(x) /\ varGetInt(x) = cs[i].n
      hits   == {i \in DOMAIN cs : Hit(i)}
      defs   == {i \in DOMAIN cs : cs[i].k = "default"}
      First(S) == cs[CHOOSE i \in S : \A j \in S : i <= j].b
  IN  IF hits # {} THEN First(hits) ELSE IF defs # {} THEN First(defs) ELSE << >>

(* The statements that a statement leads to.  A for is a while whose third *)
(* part is evaluated after every turn.                                     *)
Within(st, x) ==
  CASE st.k = "switch" -> Chosen(Tail(st.b), x)
    [] st.k = "if" -> IF Holds(x) THEN st.b[2].b
                      ELSE IF Len(st.b) = 3 THEN st.b[3].b ELSE << >>
    [] st.k = "for" -> <<st.b[1], [st EXCEPT !.k = "while", !.b = <<st.b[2], st.b[4], st.b[3]>>]>>
    [] st.k = "try" -> st.b[1].b

Again(st, t, p) ==
  IF t.sig = "break" THEN End(t, "ok")
  ELSE IF t.sig \notin {"ok", "continue"} THEN t
  ELSE Loop(st, EvalArgs(SubSeq(st.b, 3, Len(st.b)), End(t, "ok"), p, << >>)[1], p)

Turn(st, r, p) ==
  IF r[1].sig # "ok" THEN r[1]
  ELSE IF ~IsCond(r[2][1]) THEN End(r[1], "TYPE_MISMATCH")
  ELSE IF ~Holds(r[2][1]) THEN r[1]
  ELSE Again(st, ExecAll(st.b[2].b, r[1], p), p)

Loop(st, s, p) ==
  IF s.sig # "ok" THEN s ELSE Turn(st, EvalArgs(<<st.b[1]>>, s, p, << >>), p)

(* The catch block after the try block ended in t, the finally block after *)
(* either ended in c.                                                      *)
Catch(st, t, p) ==
  IF t.sig # "throw" THEN t ELSE ExecAll(st.b[2].b, Bind(End(t, "ok"), st.n, t.val), p)

Resume(c, f) == IF f.sig # "ok" THEN f ELSE [f EXCEPT !.sig = c.sig, !.val = c.val]

Finally(st, c, p) ==
  IF Len(st.b) < 3 \/ c.sig \notin {"ok", "break", "continue", "return", "throw"} THEN c
  ELSE Resume(c, ExecAll(st.b[3].b, End(c, "ok"), p))

Ended(st, t, p) ==
  CASE st.k = "switch" /\ t.sig = "break" -> End(t, "ok")
    [] st.k = "try" -> Finally(st, Catch(st, t, p), p)
    [] OTHER -> t

(* s and x are the state and the value after the leading expression.       *)
ExecOn(st, s, x, p) ==
  CASE st.k = "expr" -> s
    [] st.k = "decl" -> Bind(s, st.n, x)
    [] st.k \in {"return", "throw"} -> End(Give(s, x), st.k)
    [] st.k = "while" -> Loop(st, s, p)
    [] st.k = "if" /\ ~IsCond(x) -> End(s, "TYPE_MISMATCH")
    [] st.k \in {"switch", "for", "try"} \/ (st.k = "if" /\ IsCond(x)) ->
         Ended(st, ExecAll(Within(st, x), s, p), p)
    [] OTHER -> End(s, st.k)                    \* break, continue

Exec1(st, r, p) ==
  IF r[1].sig # "ok" THEN r[1]
  ELSE ExecOn(st, r[1], IF r[2] = << >> THEN Void ELSE r[2][1], p)

ExecAll(ss, s, p) ==
  IF ss = << >> \/ s.sig # "ok" THEN s
  ELSE ExecAll(Tail(ss), Exec1(Head(ss), EvalArgs(Lead(Head(ss)), s, p, << >>), p), p)

(* Run the first method: what qinterpRun should report.                    *)
Meaning(src, tape) ==
  LET t == Invoke(1, Fresh(<< >>, 0), [src |-> src, tape |-> tape], << >>)
  IN  [out |-> t.out, used |-> t.used,
       result |-> [err |-> IF t.sig = "ok" THEN "NONE"
                           ELSE IF t.sig = "throw" THEN "EXCEPTION" ELSE t.sig,
                   val |-> IF t.sig \in {"ok", "throw"} THEN t.val ELSE Void]]
=============================================================================
