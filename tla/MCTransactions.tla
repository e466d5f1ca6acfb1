--------------------------- MODULE MCTransactions ---------------------------
(* Two clients of one server, two transactions.                            *)
EXTENDS Transactions, TLC

CONSTANTS c1, c2, x1, x2

TwoClients == {c1, c2}
TwoTrans   == {x1, x2}
=============================================================================
