---------------------------- MODULE MCStructured ----------------------------
(***************************************************************************)
(* The machine runs what the compiler emits for every program of the       *)
(* structured sublanguage, against every short tape of native answers, and *)
(* what it does is compared with the meaning of the source.                *)
(***************************************************************************)
EXTENDS MCInterp, Source

AgreesWith(want) ==
  /\ results[1] = want.result
  /\ out = want.out
  /\ Len(answers) = want.used

(* Every run of a compiled program calls the natives as its source does    *)
(* and returns the result and the error that the source asks for           *)
(* (qinterpRun).                                                           *)
RunsAsWritten ==
  frames = << >> /\ Len(results) = 1 => AgreesWith(Meaning(prog.src, answers))
=============================================================================
