----------------------------- MODULE MCFindings -----------------------------
(***************************************************************************)
(* Programs on which the machine does not do what an assertion of the      *)
(* repository says.                                                        *)
(***************************************************************************)
EXTENDS MCInterp

(* A handler that runs to its end.                                         *)
CatchPrograms ==
  {Compile(Program(<<Let(vx, Lit(1)), Try(<<s>>, ve, <<Note(Var(ve))>>)>>)) :
     s \in Throwing \cup Simple}

(* "ASSERT( vectorCount(qip->stack) > 0 )" in stackPop: there is an        *)
(* operand for the instruction that pops one.                              *)
OperandsPresent == fault # "underflow"
=============================================================================
