----------------------------- MODULE MCObjects -----------------------------
(***************************************************************************)
(* Small programs for Objects: one class, as a host would use it; a class  *)
(* and its base, where the base has a field and no constructor that takes  *)
(* an argument; three levels, in two orders; and a class whose base does   *)
(* not exist.  All are below Object.                                       *)
(***************************************************************************)
EXTENDS Objects

Object == [name |-> "Object", base |-> None, nfields |-> 0, methods |-> {}]

Alone == [name |-> "D", base |-> "Object", nfields |-> 1,
          methods |-> {<<"D", 0>>, <<"m", 0>>, <<"set", 1>>}]

A == [name |-> "A", base |-> "Object", nfields |-> 1,
      methods |-> {<<"A", 0>>, <<"m", 0>>}]
B == [name |-> "B", base |-> "A", nfields |-> 0,
      methods |-> {<<"B", 1>>, <<"m", 0>>}]

Root == [name |-> "R", base |-> "Object", nfields |-> 0,
         methods |-> {<<"R", 0>>, <<"R", 1>>, <<"m", 0>>}]
Mid  == [name |-> "S", base |-> "R", nfields |-> 0,
         methods |-> {<<"S", 0>>}]
Leaf == [name |-> "T", base |-> "S", nfields |-> 0,
         methods |-> {<<"T", 1>>}]

MCPrograms == {<<Object>> \o p : p \in
    {<<Alone>>, <<A, B>>, <<Mid, Leaf, Root>>, <<Leaf, Mid, Root>>, <<Leaf>>}}
MCBounds == <<[insts |-> 0, acts |-> 0, runs |-> 0],
              [insts |-> 1, acts |-> 4, runs |-> 3],
              [insts |-> 2, acts |-> 5, runs |-> 1],
              [insts |-> 1, acts |-> 6, runs |-> 1]>>
MCValued == {"m"}

\* What ConstructsInOrder of ObjectsProofs assumes of the programs
ASSUME ProgramsRegular == \A p \in Programs : Regular(p)
=============================================================================
