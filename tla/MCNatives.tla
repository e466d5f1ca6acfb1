----------------------------- MODULE MCNatives -----------------------------
(***************************************************************************)
(* Two variables, two instances and two elements for Natives: a vector     *)
(* in a table, a container that holds itself, an array of two dimensions,  *)
(* keys of two types with one text.                                        *)
(***************************************************************************)
EXTENDS Natives

Swap      == Permutations(Vars)
MCKeys    == {<<"int", 1>>, <<"string", 1>>, <<"int", 2>>}
MCLengths == {<<>>, <<1>>, <<2, 2>>, <<-1>>, <<NotInt>>}
MCIndexes == {<<0>>, <<1>>, <<NotInt>>, <<0, 1>>, <<1, 0>>}
=============================================================================
