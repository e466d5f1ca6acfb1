---------------------------- MODULE MCSqlParser ----------------------------
(***************************************************************************)
(* SqlParser with the texts of its run: beginnings of every statement and  *)
(* every clause, and the pieces they are carried on with.                  *)
(***************************************************************************)
EXTENDS SqlParser

MCNames  == {"s", "p", "t", "a", "COUNT", "GETDATE", "AVG"}
MCDefine == [s |-> "=s", p |-> "=p", t |-> "=t", a |-> "=a",
             COUNT |-> "=COUNT", GETDATE |-> "=GETDATE", AVG |-> "=AVG"]

Procedure == <<"CREATE", "PROCEDURE", "s", ".", "p">>
Typed     == <<"(", "@x", "INT", ",", "@y", "CHAR", "(", "1", ")", ")">>
Proc      == Procedure \o Typed \o <<"AS">>
Select    == <<"SELECT", "a", "FROM", "t", "WHERE">>

MCStarts ==
    {<<>>, Procedure, Procedure \o <<"@x", "BIGINT">>}
    \cup {Proc \o s : s \in
            {<<"SELECT">>, Select, <<"DELETE">>, <<"UPDATE", "t", "SET">>,
             <<"INSERT", "INTO", "t", "(", "a", ")", "VALUES", "(">>,
             <<"UPDATE", "t", "SET", "a", "=", "@x", "WHERE">>,
             <<"SELECT", "a", ",", "CASE", "WHEN">>,
             <<"SELECT", "a", "FROM", "t", "ORDER", "BY">>,
             Select \o <<"a", "=", "@x", "UNION">> \o Select,
             Select \o <<"a", "IN", "(">> \o Select}}

\* (with a rich text per piece the run goes further in as many steps)
MCPieces ==
    {<<"CREATE">>, <<"AS", "DELETE">>, <<"SMALLINT", ",">>,
     <<"DISTINCT">>, <<"*">>, <<"a">>, <<"t", ".", "a">>, <<",">>, <<"AS", "a">>,
     <<"COUNT", "(", "*", ")">>, <<"AVG", "(", "a", ")">>, <<"GETDATE", "(", ")">>,
     <<"CASE", "WHEN">>, <<"THEN", "1">>, <<"ELSE", "1">>, <<"END">>,
     <<"FROM", "t">>, <<"INNER", "JOIN", "=t", "ON">>, <<"WHERE">>, <<"HAVING">>,
     <<"a", "=", "@x">>, <<"a", "LIKE", "@y">>, <<"a", "LIKE", "str">>, <<"a", "<=", "1">>,
     <<"a", "IN", "(">>, <<"a", "IS", "NULL">>, <<"(">>, <<")">>, <<"AND">>, <<"NOT">>,
     <<"GROUP", "BY", "a">>, <<"ORDER", "BY">>, <<"DESC">>, <<"UNION", "SELECT">>,
     <<"INTO", "t", "(">>, <<"VALUES", "(">>, <<"1">>, <<"str">>, <<"@x">>,
     <<";">>, <<Unclosed>>}
=============================================================================
