------------------------------ MODULE MCInterp ------------------------------
(***************************************************************************)
(* What the instances of Interp for TLC share: the words, what natives     *)
(* answer and the programs of a structured sublanguage.                    *)
(***************************************************************************)
EXTENDS Interp, Syntax, Bitwise

(* Words of four bits, in two's complement.  x86 masks a shift count.      *)
MCHalfWord == 8
Unsigned(n) == n % 16
MCBitAnd(a, b) == Wrap(Unsigned(a) & Unsigned(b))
MCBitOr(a, b)  == Wrap(Unsigned(a) | Unsigned(b))
MCBitXor(a, b) == Wrap(Unsigned(a) ^^ Unsigned(b))
MCBitShr(a, b) == a \div 2 ^ (b % 4)

(* What the natives answer: yes, no, an object, an error.                  *)
Yes == [err |-> "NONE", val |-> BoolV(TRUE)]
No  == Silent
Obj == [err |-> "NONE", val |-> [t |-> "INST", v |-> 1, f |-> 0]]
Bad == [err |-> "TYPE_MISMATCH", val |-> Void]

-----------------------------------------------------------------------------
(* The structured sublanguage: conditions compare or call, a try is left   *)
(* by its end or its handler returns, only loops that hold no other loop   *)
(* or switch use break and continue, and every case of a switch leaves it. *)

Simple == {Ex(PostInc(vx)),
           Note(Var(vx)),
           Ex(Assign(vx, Giver(Var(vx)))),
           Ex(AddTo(vx, Ask)),
           Ex(Times(vx, Lit(2))),
           Ex(Giver(Op("MULT", Var(vx), Ask)))}
Throwing == {Throw(Op("SUB", Lit(1), Var(vx))), Ex(Thrower)}
Leaving  == {Return(Var(vx)), Return0} \cup Throwing
Jumping  == {Break, Continue}
Flat     == Simple \cup Leaving

Bodies(S) == {<<s>> : s \in S} \cup {<<Let(vy, Op("ADD", Var(vx), Lit(3))), s>> : s \in S}

Loops(S) == {While(Ask, b) : b \in Bodies(S)}
       \cup {For(Ex(Assign(vi, Lit(0))), Op("LT", Var(vi), Lit(2)), PostInc(vi), b) :
               b \in Bodies(S)}

Ifs(S) == {If(Ask, b) : b \in Bodies(S)}
     \cup {IfElse(Op("AND", Ask, Op("NEQ", Var(vx), Lit(2))), <<s>>, <<Note(Lit(6)), l>>) :
             s \in S, l \in Leaving}

Tries(S) == {Try(b, ve, <<Note(Var(ve)), Return(Var(vx))>>) : b \in Bodies(S)}
       \cup {TryFinally(<<s>>, ve, <<Return(Var(ve))>>, <<Note(Lit(5))>>) :
               s \in S \cap (Simple \cup Throwing)}

Switches(S) == {Switch(Op("ADD", Var(vx), Ask),
                       <<Case(0, <<s, Break>>), Case(1, <<Break>>), Default(<<s, Break>>)>>) : s \in S}

Statements ==
  Flat \cup Ifs(Flat) \cup Switches(Flat) \cup Tries(Flat)
  \cup Loops(Flat \cup Jumping \cup {If(Ask, <<j>>) : j \in Jumping})
  \cup Ifs(Loops(Jumping \cup {Return0}))
  \cup Tries(Loops({Break, Ex(Thrower)}) \cup Ifs({Ex(Thrower)}))

(* What comes before: a loop and a switch that are left by a break, too.   *)
Preludes == {Ex(PostInc(vx)), While(Ask, <<Let(vy, Lit(3)), Break>>)}
       \cup {st \in Switches(Flat) : \E c \in DOMAIN st.b : st.b[c].b = <<Ex(Thrower), Break>>}

MCPrograms ==
  {Compile(Program(<<Let(vx, Lit(0)), Decl(vi), s, s2, Note(Var(vx))>>)) :
     s \in Preludes, s2 \in Statements}

MCAnswers == {Yes, No, Obj, Bad}
=============================================================================
