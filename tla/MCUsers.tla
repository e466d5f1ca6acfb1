------------------------------ MODULE MCUsers -------------------------------
(* Values for the model of users.c: two servers, an id in two spellings.   *)
EXTENDS Users, TLC

CONSTANTS s1, s2, sa, bob, Bob, keySa, keyBob, pw1, pw2, p

TwoServers == {s1, s2}
AllUids    == {sa, bob, Bob}
AllKeys    == {keySa, keyBob}
KeyOf      == sa :> keySa @@ bob :> keyBob @@ Bob :> keyBob
BothPws    == {pw1, pw2}
OneName    == {p}
SameName   == [n \in Names |-> n]
Symmetry   == Permutations(TwoServers)
SentUsers  == {[uid |-> bob, pw |-> pw1, admin |-> TRUE]}
SentPerms  == {<<bob, p>>}
=============================================================================
