----------------------------- MODULE MCStmtMgr ------------------------------
(* Values for the model of the statement manager: procedures in several    *)
(* spellings on one server, and two servers with a user to grant to.       *)
EXTENDS StmtMgr, TLC

CONSTANTS s1, s2, sa, bob, keySa, keyBob, pw1, p, P, q, keyP, keyQ, t1, t2

OneServer  == {s1}
TwoServers == {s1, s2}
SaOnly     == {sa}
SaAndBob   == {sa, bob}
KeysOfIds  == {keySa, keyBob}
KeyOfId    == [u \in Uids |-> IF u = bob THEN keyBob ELSE keySa]
JustBob    == {bob}
OnePw      == {pw1}
OneName    == {p}
Spelled    == {p, P}
KeysOfNames == {keyP, keyQ}
KeyOfName  == [n \in Names |-> IF n = q THEN keyQ ELSE keyP]
OneText    == {t1}
TwoTexts   == {t1, t2}
Nothing    == {}
SentUsers  == {[uid |-> bob, pw |-> pw1, admin |-> FALSE]}
SentPerms  == {<<bob, p>>}
Symmetry   == Permutations({s1, s2}) \cup Permutations({t1, t2})
TextSymmetry == Permutations({t1, t2})
=============================================================================
