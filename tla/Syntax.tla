------------------------------- MODULE Syntax -------------------------------
(***************************************************************************)
(* Constructors for the nodes of module Compiler, so that the programs the *)
(* runs enumerate can be read.  Variables are named by numbers.            *)
(***************************************************************************)
EXTENDS Compiler

vx == 1
vy == 2
vi == 3
ve == 4
va == 5

Lit(n)         == Node("int", n, << >>)
Var(x)         == Node("var", x, << >>)
Op(k, l, r)    == Node(k, 0, <<l, r>>)
Un(k, l)       == Node(k, 0, <<l>>)
Call(m, args)  == Node("call", m, args)
PostInc(x)     == Node("PINC", x, << >>)
Assign(x, l)   == Node("set", x, <<l>>)
AddTo(x, l)    == Node("+=", x, <<l>>)
Times(x, l)    == Node("*=", x, <<l>>)

Ex(l)          == Node("expr", 0, <<l>>)
Do(ss)         == Node("block", 0, ss)
Decl(x)        == Node("decl", x, << >>)
Let(x, l)      == Node("decl", x, <<l>>)
If(c, ss)      == Node("if", 0, <<c, Do(ss)>>)
IfElse(c, ss, tt) == Node("if", 0, <<c, Do(ss), Do(tt)>>)
While(c, ss)   == Node("while", 0, <<c, Do(ss)>>)
For(s, c, p, ss) == Node("for", 0, <<s, c, p, Do(ss)>>)
Switch(l, cs)  == Node("switch", 0, <<l>> \o cs)
Case(n, ss)    == Node("case", n, ss)
Default(ss)    == Node("default", 0, ss)
Try(ss, x, cs) == Node("try", x, <<Do(ss), Do(cs)>>)
TryFinally(ss, x, cs, fs) == Node("try", x, <<Do(ss), Do(cs), Do(fs)>>)
Return(l)      == Node("return", 0, <<l>>)
Return0        == Node("return", 0, << >>)
Throw(l)       == Node("throw", 0, <<l>>)
Break          == Node("break", 0, << >>)
Continue       == Node("continue", 0, << >>)

(* Every program has five methods: main; one that may throw; one that     *)
(* returns a value and may call the one that throws; a native that answers *)
(* and one that listens.                                                   *)
Interpreted(args, body) == [args |-> args, body |-> body, native |-> FALSE, returns |-> FALSE]
Native(args, returns)   == [args |-> args, body |-> << >>, native |-> TRUE, returns |-> returns]

Thrower  == Call(2, << >>)
Giver(l) == Call(3, <<l>>)
Ask      == Call(4, << >>)
Note(l)  == Ex(Call(5, <<l>>))

Program(body) ==
  <<Interpreted(<< >>, body),
    Interpreted(<< >>, <<Let(vy, Ask), If(Op("EQ", Var(vy), Lit(1)), <<Throw(Lit(7))>>)>>),
    Interpreted(<<va>>, <<If(Op("GT", Var(va), Lit(2)), <<Ex(Thrower)>>),
                          Return(Op("ADD", Var(va), Lit(2)))>>),
    Native(<< >>, TRUE),
    Native(<<va>>, FALSE)>>
=============================================================================
