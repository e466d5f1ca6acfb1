----------------------------- MODULE SqlParser -----------------------------
(***************************************************************************)
(* The translator of stored procedures (src/sqlparser.c): it reads         *)
(*     CREATE PROCEDURE sys.name [(@p type, ...)] AS statement [;]         *)
(* and writes the statement in the dialect of NonStop SQL, with the names  *)
(* of its result fields and, for every parameter, the positions at which   *)
(* the conditions use it.                                                  *)
(*                                                                         *)
(* A text is a sequence of lexemes and a translation a sequence of output  *)
(* words; blanks and letter case are left out.  Every parse function takes *)
(* the parser's state and returns the next one.  A state that has failed   *)
(* stays as it is: that is the C functions' return of false to the top.    *)
(***************************************************************************)
EXTENDS Integers, Sequences, FiniteSets, SequencesExt, TLC

CONSTANTS
    Names,       \* words that are no keyword: fields, tables, functions
    Define,      \* the name of a table as a define, with '=' in front
    Numbers,     \* number lexemes
    Strings,     \* the contents of string literals
    Variables,   \* lexemes that begin with '@'
    Starts,      \* the texts an author may begin with
    Pieces,      \* the lexemes an author may append at a time
    MaxPieces,   \* bound on how many he appends
    PRMIDXLEN    \* how many uses of a parameter can be recorded

ASSUME ParserConstants == /\ Names \subseteq DOMAIN Define
                          /\ MaxPieces \in Nat
                          /\ PRMIDXLEN \in Nat

Unclosed == "'"     \* a quote that no second quote follows on its line

(***************************************************************************)
(* The tokenizer                                                           *)
(***************************************************************************)
Keywords == {"SELECT", "FROM", "AS", "CREATE", "PROCEDURE", "INT", "SMALLINT",
             "BIGINT", "CHAR", "WHERE", "AND", "OR", "INNER", "JOIN", "LEFT",
             "RIGHT", "ON", "INSERT", "INTO", "VALUES", "UPDATE", "SET",
             "ORDER", "BY", "DESC", "ASC", "IN", "DELETE", "GROUP", "HAVING",
             "LIKE", "IS", "NULL", "NOT", "UNION", "CASE", "WHEN", "THEN",
             "ELSE", "END", "DISTINCT"}

\* A mark is its own token, but for <=: the test for <> that follows it has
\* an else, which makes it a <.
Punctuation(w) == IF w = "<=" THEN "<" ELSE w

Marks == {"(", ")", ".", ">", ">=", "<", "<=", "<>", "*", ",", ";", "="}

\* A word is a keyword, a variable, or a name; a name is a function when a
\* bracket follows it, whatever it stands for.
Word(src, i) ==
    CASE src[i] \in Keywords  -> src[i]
      [] src[i] \in Variables -> "VAR"
      [] OTHER -> IF i < Len(src) /\ src[i + 1] = "(" THEN "FUNC" ELSE "ID"

sqltokenizer(src, i) ==
    CASE i > Len(src)       -> "EOS"
      [] src[i] \in Numbers -> "NUM"
      [] src[i] \in Strings -> "STRLIT"
      [] src[i] \in Marks   -> Punctuation(src[i])
      [] OTHER              -> Word(src, i)

\* A string literal that is not closed is the one thing that is no token.
scanstr(src, i) == i > Len(src) \/ src[i] # Unclosed

RECURSIVE Statement(_, _), parseSelect(_, _), OrderItems(_),
          Conditions(_, _, _, _, _), InLiterals(_), Cases(_, _), JoinLoop(_), Tables(_), Items(_), InsertFields(_), Values(_),
          Assignments(_), Params(_)

(***************************************************************************)
(* The parser's state: where it reads, what it wrote, and its error        *)
(***************************************************************************)
Parser(src) ==
    [src |-> src, pos |-> 1, err |-> "NONE",
     sys |-> "", name |-> "", stmttype |-> "",
     tsql |-> <<>>, ufields |-> <<>>, uparams |-> <<>>, prmidxpos |-> 0]

Ok(s)      == s.err = "NONE"
Lex(s)     == IF s.pos <= Len(s.src) THEN s.src[s.pos] ELSE ""
Token(s)   == sqltokenizer(s.src, s.pos)
Is(s, ts)  == Ok(s) /\ Token(s) \in ts
Fail(s, e) == IF Ok(s) THEN [s EXCEPT !.err = e] ELSE s
Out(s, ws) == IF Ok(s) THEN [s EXCEPT !.tsql = @ \o ws] ELSE s

\* Read the next token; the end of the text can be read again and again.
Advance(s) ==
    IF ~Ok(s) \/ s.pos > Len(s.src) THEN s
    ELSE IF scanstr(s.src, s.pos + 1) THEN [s EXCEPT !.pos = @ + 1]
    ELSE Fail(s, "SYNTAX")

Expect(s, t, e) == IF Is(s, {t}) THEN s ELSE Fail(s, e)

\* Expect a token, and go on to the one after it.
Past(s, t, e) == Advance(Expect(s, t, e))

\* Copy the lexeme to the output, and go on.
Copy(s) == Advance(Out(s, <<Lex(s)>>))

AddField(s, name) == IF Ok(s) THEN [s EXCEPT !.ufields = Append(@, name)] ELSE s

\* Defines keep their '=', other tables get one; a table is its own alias.
AsDefine(w) == IF w \in Names THEN Define[w] ELSE w
Alias(w)    == IF w \in Names THEN w ELSE CHOOSE n \in Names : Define[n] = w

(***************************************************************************)
(* Literals, fields and functions                                          *)
(***************************************************************************)
\* A pattern of LIKE is ended with a back quote (STOP).  What is no literal fails
\* and sets no error code.
parseLit(s, inlike) ==
    IF Is(s, {"STRLIT"})
    THEN Advance(Out(s, <<"'", Lex(s)>> \o IF inlike THEN <<"STOP", "'">> ELSE <<"'">>))
    ELSE IF Is(s, {"NUM"}) THEN Copy(s)
    ELSE Fail(s, "NOT_SET")

\* The part after the dot, where there is one.
Qualified(s, dot, inselect) ==
    IF inselect THEN AddField(Copy(dot), <<Lex(s), Lex(dot)>>) ELSE Copy(dot)

FieldEnd(s, field, inselect) ==
    IF Is(field, {"."})
    THEN Qualified(s, Expect(Advance(Out(field, <<".">>)), "ID", "EXP_DOT_FIELD"), inselect)
    ELSE IF inselect THEN AddField(field, <<Lex(s)>>) ELSE field

parseField(s, inselect) ==
    IF Is(s, {"ID"}) THEN FieldEnd(s, Copy(s), inselect) ELSE Fail(s, "NOT_SET")

\* The argument of an aggregate is read to its end, and the token after it
\* is then skipped like the last token of GETDATE( and COUNT(*.
parseFunction(s) ==
    LET open(ws) == Expect(Advance(Out(s, ws)), "(", "EXP_LPAR")
        args ==
            CASE Lex(s) = "GETDATE" -> open(<<"CURRENT">>)
              [] Lex(s) = "COUNT"   -> Expect(Advance(open(<<"COUNT", "(", "*", ")">>)),
                                              "*", "EXP_FIELDS")
              [] Lex(s) \in {"AVG", "MAX", "MIN", "SUM"} ->
                    Out(parseField(Advance(open(<<Lex(s), "(">>)), FALSE), <<")">>)
              [] OTHER -> Fail(s, "UNKNOWN_FN")
    IN  IF Is(s, {"FUNC"}) THEN Past(Advance(args), ")", "EXP_RPAR")
        ELSE Fail(s, "SYNTAX")

parseFieldOrFunction(s) == IF Is(s, {"ID"}) THEN parseField(s, FALSE) ELSE parseFunction(s)

\* No token is both a field and a function, so the first test refuses them all.
parseFieldFnList(s) ==
    IF ~Is(s, {"ID"}) \/ ~Is(s, {"FUNC"}) THEN Fail(s, "EXP_FIELDS")
    ELSE s

parseGroupBy(s) ==
    IF Is(s, {"GROUP"})
    THEN parseFieldFnList(Out(Past(Advance(s), "BY", "EXP_ORDERBY"), <<"GROUP", "BY">>))
    ELSE s

\* A field without a direction is sorted downwards.
OrderItems(s) ==
    IF ~Is(s, {"ID", "FUNC"}) THEN s
    ELSE LET item == parseFieldOrFunction(s)
             dir  == IF Is(item, {"DESC", "ASC"}) THEN Copy(item)
                     ELSE Out(item, <<"DESC">>)
             next == Out(Advance(dir), <<",">>)
         IN  IF ~Is(dir, {","}) THEN OrderItems(dir)
             ELSE IF Is(next, {"ID", "FUNC"}) THEN OrderItems(next)
             ELSE Fail(next, "EXP_FIELDS")

parseOrderBy(s) ==
    IF Is(s, {"ORDER"})
    THEN OrderItems(Expect(Out(Past(Advance(s), "BY", "EXP_ORDERBY"), <<"ORDER", "BY">>),
                           "ID", "EXP_FIELDS"))
    ELSE s

(***************************************************************************)
(* Conditions                                                              *)
(***************************************************************************)
\* A mutant: the position is not counted on
SetPrmIdxSame(s, i) ==
    IF Len(s.uparams[i].idxs) < PRMIDXLEN
    THEN [s EXCEPT !.uparams[i].idxs = Append(@, s.prmidxpos)]
    ELSE Fail(s, "OUT_OF_MEM")

\* The next free place of the parameter takes the position of this use.
setPrmIdx(s, i) ==
    IF Len(s.uparams[i].idxs) < PRMIDXLEN
    THEN [s EXCEPT !.uparams[i].idxs = Append(@, s.prmidxpos), !.prmidxpos = @ + 1]
    ELSE Fail(s, "OUT_OF_MEM")

\* The parameter of a name: a second one of the same name hides the first.
Param(s, v) == LET is == {i \in DOMAIN s.uparams : s.uparams[i].name = v}
               IN  IF is = {} THEN 0 ELSE CHOOSE i \in is : \A j \in is : j <= i

Placeholder(s) == Advance(Out(s, <<":p", Lex(s)>>))

\* The right side of a condition.
Operand(s, inlike, allowFunctions) ==
    LET i == Param(s, Lex(s))
    IN  CASE ~Ok(s) -> s
          [] Is(s, {"VAR"}) ->
                IF i = 0 THEN Fail(s, "EXP_UNDEFPARAM")
                ELSE Placeholder(setPrmIdx([s EXCEPT !.uparams[i].likepattern = @ \/ inlike], i))
          [] Is(s, {"STRLIT", "NUM"}) -> parseLit(s, inlike)
          [] Is(s, {"ID"})            -> parseField(s, FALSE)
          [] Is(s, {"FUNC"}) /\ allowFunctions -> parseFunction(s)
          [] Is(s, {"NULL"})          -> Copy(s)
          [] OTHER                    -> Fail(s, "EXP_COND")

\* After IS comes NULL, or NOT and any value.  expect holds on for the
\* conditions that follow an IS.
AfterOperator(s, expectNull) ==
    IF ~expectNull \/ Is(s, {"NULL"}) THEN s
    ELSE IF Is(s, {"NOT"}) THEN Advance(Out(s, <<"NOT">>))
    ELSE Fail(s, "SYNTAX")

Comparisons == {"=", ">", "<", ">=", "<=", "<>", "LIKE", "IS"}

InLiterals(s) ==
    IF ~Is(s, {"NUM", "STRLIT"}) THEN s
    ELSE LET lit  == parseLit(s, FALSE)
             next == Out(Advance(lit), <<",">>)
         IN  IF ~Is(lit, {","}) THEN InLiterals(lit)
             ELSE IF Is(next, {"NUM", "STRLIT"}) THEN InLiterals(next)
             ELSE Fail(next, "SYNTAX")

\* A mutant: the bracket of the list is not closed
InListOpen(s) ==
    IF ~Is(s, {"IN"}) THEN s
    ELSE LET open == Out(Past(Advance(s), "(", "EXP_LPAR"), <<"IN", "(">>)
         IN  Past(IF Is(open, {"SELECT"}) THEN Statement(open, TRUE) ELSE InLiterals(open),
                  ")", "EXP_RPAR")

\* A sub-select counts its parameters from 0 again.
parseInList(s) ==
    IF ~Is(s, {"IN"}) THEN s
    ELSE LET open == Out(Past(Advance(s), "(", "EXP_LPAR"), <<"IN", "(">>)
             list == IF Is(open, {"SELECT"})
                     THEN LET sub == Statement(open, TRUE)
                          IN  [sub EXCEPT !.prmidxpos = s.prmidxpos]
                     ELSE InLiterals(open)
         IN  Out(Past(list, ")", "EXP_RPAR"), <<")">>)

Connective(s, allowFunctions, ignoreTrailingRpar, depth, expectNull) ==
    IF Is(s, {"AND", "OR"})
    THEN Conditions(Copy(s), allowFunctions, ignoreTrailingRpar, depth, expectNull)
    ELSE s                                     \* no more where statements

ClosingBracket(s, allowFunctions, ignoreTrailingRpar, depth, expectNull) ==
    IF ~Is(s, {")"}) THEN Connective(s, allowFunctions, ignoreTrailingRpar, depth, expectNull)
    ELSE IF depth > 0
    THEN Connective(Copy(s), allowFunctions, ignoreTrailingRpar, depth - 1, expectNull)
    ELSE IF ignoreTrailingRpar THEN s ELSE Fail(s, "UNEXP_RPAR")

\* The comparison and its right side; a LIKE pattern is terminated.
Comparison(left, allowFunctions, expectNull) ==
    Out(Operand(AfterOperator(Advance(Out(left, <<Token(left)>>)), expectNull),
                Is(left, {"LIKE"}), allowFunctions),
        IF Is(left, {"LIKE"}) THEN <<"TERMINATE", "STOP">> ELSE <<>>)

\* What follows the field of a condition.  After an IN list the loop goes on
\* at once: neither a bracket nor AND or OR is read.
AfterField(left, allowFunctions, ignoreTrailingRpar, depth, expectNull) ==
    IF Is(left, {"NOT", "IN"})
    THEN Conditions(parseInList(IF Is(left, {"NOT"}) THEN Copy(left) ELSE left),
                    allowFunctions, ignoreTrailingRpar, depth, expectNull)
    ELSE IF Is(left, Comparisons)
    THEN ClosingBracket(Comparison(left, allowFunctions, expectNull \/ Is(left, {"IS"})),
                        allowFunctions, ignoreTrailingRpar, depth,
                        expectNull \/ Is(left, {"IS"}))
    ELSE Fail(left, "EXP_OP")

\* One turn of the loop: an opening bracket, a field, its comparison, a
\* closing bracket, AND or OR.
Conditions(s, allowFunctions, ignoreTrailingRpar, depth, expectNull) ==
    IF Is(s, {"ID", "("})
    THEN AfterField(parseField(IF Is(s, {"("}) THEN Copy(s) ELSE s, FALSE),
                    allowFunctions, ignoreTrailingRpar,
                    IF Is(s, {"("}) THEN depth + 1 ELSE depth, expectNull)
    ELSE IF depth # 0 THEN Fail(s, "EXP_RPAR") ELSE s

parseConditions(s, allowFunctions, ignoreTrailingRpar) ==
    Conditions(s, allowFunctions, ignoreTrailingRpar, 0, FALSE)

parseWhere(s, ignoreTrailingRpar) ==
    IF Is(s, {"WHERE"}) THEN parseConditions(Copy(s), FALSE, ignoreTrailingRpar) ELSE s

parseHaving(s) == IF Is(s, {"HAVING"}) THEN parseConditions(Copy(s), TRUE, FALSE) ELSE s

CaseValue(s) ==
    CASE Is(s, {"STRLIT", "NUM"}) -> parseLit(s, FALSE)
      [] Is(s, {"FUNC"})          -> parseFunction(s)
      [] OTHER                    -> Fail(s, "EXP_VALUE")

Cases(s, elsecount) ==
    IF Is(s, {"ELSE"})
    THEN IF elsecount > 0 THEN Fail(s, "ONLY_ONE_ELSE")
         ELSE Cases(parseLit(Copy(s), FALSE), elsecount + 1)
    ELSE IF Is(s, {"WHEN"})
    THEN Cases(CaseValue(Copy(Expect(parseConditions(Copy(s), FALSE, FALSE), "THEN", "EXP_THEN"))),
               elsecount)
    ELSE s

parseCase(s) ==
    Copy(Expect(Cases(Expect(Copy(s), "WHEN", "EXP_WHEN"), 0), "END", "EXP_END"))

(***************************************************************************)
(* Tables                                                                  *)
(***************************************************************************)
\* A mutant: a table gets no alias
TableUnaliased(s) == Out(s, <<AsDefine(Lex(s))>>)

Table(s) == Out(s, <<AsDefine(Lex(s)), Alias(Lex(s))>>)

Joins == {"INNER", "LEFT", "RIGHT"}

parseJoinLhs(s) ==
    LET table == Expect(Past(Advance(Out(s, <<Lex(s), "JOIN">>)), "JOIN", "EXP_JOIN"),
                        "ID", "EXP_TABLE")
        on    == Out(Past(Advance(Table(table)), "ON", "EXP_ON"), <<"ON", "(">>)
    IN  Out(parseConditions(on, FALSE, FALSE), <<")">>)

JoinLoop(s) == IF Is(s, Joins) THEN JoinLoop(parseJoinLhs(s)) ELSE s

\* After a join another table may follow without a comma.
Tables(s) ==
    IF ~Is(s, {"ID"}) THEN s
    ELSE LET table == Advance(Table(s))
         IN  IF Is(table, {","}) THEN Tables(Expect(Copy(table), "ID", "EXP_TABLE"))
             ELSE IF Is(table, Joins) THEN Tables(parseJoinLhs(table))
             ELSE table

parseFrom(s) ==
    JoinLoop(Tables(Expect(Past(Out(s, <<"FROM">>), "FROM", "EXP_FROM"), "ID", "EXP_TABLE")))

(***************************************************************************)
(* Statements                                                              *)
(***************************************************************************)
\* A mutant: an item without a name of its own gets none
AliasUnnamed(s, item) ==
    LET alias == Expect(Advance(item), "ID", "EXP_FIELDS")
    IN  IF Is(item, {"AS"}) THEN AddField(Advance(alias), <<Lex(alias)>>) ELSE item

\* One item of a field list gives the result a name: the field's own, and
\* the one after AS, and FIELDn when it has neither.
ItemName(s, item) ==
    LET alias == Expect(Advance(item), "ID", "EXP_FIELDS")
    IN  CASE Is(item, {"AS"}) -> AddField(Advance(alias), <<Lex(alias)>>)
          [] Is(s, {"ID"})    -> item
          [] OTHER            -> AddField(item, <<"FIELD", ToString(Len(item.ufields))>>)

Item(s) ==
    CASE Is(s, {"FUNC"}) -> parseFunction(s)
      [] Is(s, {"CASE"}) -> parseCase(s)
      [] Is(s, {"ID"})   -> parseField(s, TRUE)
      [] OTHER           -> parseLit(s, FALSE)

Comma(s) == IF Is(s, {","}) THEN Copy(s) ELSE s

Items(s) ==
    IF Is(s, {"ID", "FUNC", "STRLIT", "NUM", "CASE"}) THEN Items(Comma(ItemName(s, Item(s))))
    ELSE s

SelectHead(s) ==
    LET first == Copy([s EXCEPT !.stmttype = "SELECT", !.prmidxpos = 0])
        list  == IF Is(first, {"DISTINCT"}) THEN Copy(first) ELSE first
    IN  IF Is(list, {"*"}) THEN Copy(list)
        ELSE IF Is(list, {"ID", "FUNC"}) THEN Items(list)
        ELSE Fail(list, "EXP_FIELDS")

ForBrowse == <<"FOR", "BROWSE", "ACCESS">>

Union(s, ignoreTrailingRpar) ==
    IF ~ignoreTrailingRpar /\ Is(s, {"UNION"}) THEN parseSelect(Copy(s), ignoreTrailingRpar)
    ELSE s

parseSelect(s, ignoreTrailingRpar) ==
    LET where == parseWhere(parseFrom(SelectHead(s)), TRUE)
    IN  Union(Out(parseOrderBy(parseHaving(parseGroupBy(where))), ForBrowse), ignoreTrailingRpar)

InsertFields(s) ==
    IF ~Is(s, {"ID"}) THEN s
    ELSE LET field == Copy(s)
         IN  InsertFields(IF Is(field, {","})
                          THEN Out(Expect(Advance(field), "ID", "EXP_FIELDS"), <<",">>)
                          ELSE field)

\* The table of an INSERT is read as a function, as its fields are in brackets.
InsertHead(s) ==
    LET table  == Expect(Past(Advance([s EXCEPT !.stmttype = "INSERT"]), "INTO", "EXP_INTO"),
                         "FUNC", "EXP_TABLE")
        fields == Advance(Out(table, <<"INSERT", "INTO", AsDefine(Lex(table)), "(">>))
        shut   == Expect(InsertFields(Past(fields, "(", "EXP_LPAR")), ")", "EXP_RPAR")
    IN  Copy(shut)

ValueTokens == {"FUNC", "NUM", "ID", "VAR", "STRLIT"}

\* A parameter among the values is written, and its position is not recorded.
Values(s) ==
    IF ~Is(s, ValueTokens) THEN s
    ELSE LET value == CASE Is(s, {"VAR"})    -> Placeholder(s)
                        [] Is(s, {"STRLIT"}) -> parseLit(s, FALSE)
                        [] Is(s, {"FUNC"})   -> parseFunction(s)
                        [] OTHER             -> Copy(s)
             next  == Advance(value)
         IN  IF ~Is(value, {","}) THEN Values(value)
             ELSE IF Is(next, ValueTokens) THEN Values(Out(next, <<",">>))
             ELSE Fail(next, "EXP_FIELDS")

parseInsert(s) ==
    LET open == Past(Past(InsertHead(s), "VALUES", "EXP_VALUES"), "(", "EXP_LPAR")
    IN  Copy(Expect(Values(Out(open, <<"VALUES", "(">>)), ")", "EXP_RPAR"))

\* The token after a value is read here, but a function has already read it:
\* what follows a function is skipped.
Assignments(s) ==
    IF ~Is(s, {"ID"}) THEN s
    ELSE LET v     == Copy(Expect(parseField(s, FALSE), "=", "EXP_OP"))
             value == CASE Is(v, {"NUM"})    -> Out(v, <<Lex(v)>>)
                        [] Is(v, {"STRLIT"}) -> Out(v, <<"'", Lex(v), "'">>)
                        [] Is(v, {"VAR"})    -> Out(v, <<":p", Lex(v)>>)
                        [] Is(v, {"FUNC"})   -> parseFunction(v)
                        [] OTHER             -> Fail(v, "SYNTAX")
             next  == Advance(value)
         IN  Assignments(IF Is(next, {","}) THEN Expect(Copy(next), "ID", "EXP_FIELDS") ELSE next)

UpdateHead(s) ==
    LET table == Expect(Copy([s EXCEPT !.stmttype = "UPDATE", !.prmidxpos = 0]),
                        "ID", "EXP_TABLE")
    IN  Copy(Expect(Advance(Out(table, <<AsDefine(Lex(table))>>)), "SET", "EXP_SET"))

parseUpdate(s) == parseWhere(Assignments(UpdateHead(s)), FALSE)

parseDelete(s) ==
    parseWhere(parseFrom(Copy([s EXCEPT !.stmttype = "DELETE", !.prmidxpos = 0])), FALSE)

(***************************************************************************)
(* Procedures                                                              *)
(***************************************************************************)
ParamLen == [INT |-> 4, SMALLINT |-> 2, BIGINT |-> 8]

\* The type of a parameter, read to the token after it.
ParamType(s) ==
    LET len == Expect(Past(Advance(s), "(", "EXP_LPAR"), "NUM", "EXP_LEN")
    IN  CASE Is(s, DOMAIN ParamLen) -> Advance(s)
          [] Is(s, {"CHAR"})        -> Past(Advance(len), ")", "EXP_RPAR")
          [] OTHER                  -> Fail(s, "EXP_TYPE")

\* Commas between parameters may be left out, and one may follow the last.
Params(s) ==
    IF ~Is(s, {"VAR"}) THEN s
    ELSE LET param == [name |-> Lex(s), type |-> Lex(Advance(s)), likepattern |-> FALSE,
                       idxs |-> <<>>]
             typed == ParamType(Advance([s EXCEPT !.uparams = Append(@, param)]))
         IN  Params(IF Is(typed, {","}) THEN Advance(typed) ELSE typed)

parseParamList(s) ==
    LET first == Advance(s)
        list  == IF Is(first, {"("}) THEN Past(Params(Advance(first)), ")", "EXP_RPAR")
                 ELSE Params(first)
    IN  Past(list, "AS", "EXP_AS")

ProcedureHead(src) ==
    LET start == IF scanstr(src, 1) THEN Parser(src) ELSE Fail(Parser(src), "SYNTAX")
        sys   == Expect(Past(Past(start, "CREATE", "EXP_CREATE"), "PROCEDURE", "EXP_PROC"),
                        "ID", "EXP_PROC")
        name  == Past(Advance([sys EXCEPT !.sys = Lex(sys)]), ".", "EXP_DOT")
    IN  IF Is(name, {"FUNC", "ID"})
        THEN parseParamList([name EXCEPT !.name = Lex(name)])
        ELSE Fail(name, "EXP_PROC")

\* A statement of a procedure, or the select of an IN list, whose closing
\* bracket is left to the list.  An empty body is a procedure too.
Statement(s, ignoreTrailingRpar) ==
    CASE Is(s, {"EOS"})    -> s
      [] Is(s, {"SELECT"}) -> parseSelect(s, ignoreTrailingRpar)
      [] Is(s, {"INSERT"}) -> parseInsert(s)
      [] Is(s, {"UPDATE"}) -> parseUpdate(s)
      [] Is(s, {"DELETE"}) -> parseDelete(s)
      [] OTHER             -> Fail(s, "SYNTAX")

Semicolon(s) == IF Is(s, {";"}) THEN [s EXCEPT !.pos = @ + 1] ELSE s

parseSQL(src) == Expect(Semicolon(Statement(ProcedureHead(src), FALSE)), "EOS", "SYNTAX")

(***************************************************************************)
(* An author writes a text piece by piece, as long as the parser has       *)
(* nothing against what is there; after every piece it is parsed anew.     *)
(***************************************************************************)
VARIABLES text, dp

vars == <<text, dp>>

Accepted == Ok(dp)

\* The text is right as far as it goes: the parser missed something at its end.
Unfinished == ~Accepted /\ dp.pos > Len(text.src)

Init == \E s \in Starts : text = [src |-> s, left |-> MaxPieces] /\ dp = parseSQL(s)

Write ==
    /\ text.left > 0
    /\ Accepted \/ Unfinished
    /\ \E p \in Pieces : text' = [src |-> text.src \o p, left |-> text.left - 1]
    /\ dp' = parseSQL(text'.src)

Next == Write

Spec == Init /\ [][Next]_vars

(***************************************************************************)
(* Properties                                                              *)
(***************************************************************************)
Src == text.src

Prev(i) == IF i > 1 THEN Src[i - 1] ELSE ""
After(i) == IF i < Len(Src) THEN Src[i + 1] ELSE ""

\* The lexemes of the statement: those after the first AS.
BodyStart == 1 + CHOOSE i \in DOMAIN Src : Src[i] = "AS" /\ \A j \in 1 .. i - 1 : Src[j] # "AS"
Body == IF \E i \in DOMAIN Src : Src[i] = "AS" THEN BodyStart .. Len(Src) ELSE {}

Count(ws, w) == Cardinality({i \in DOMAIN ws : ws[i] = w})
CountSrc(w)  == Cardinality({i \in Body : Src[i] = w})

LastKeyword(i) == LET ks == {j \in 1 .. i - 1 : Src[j] \in Keywords}
                  IN  IF ks = {} THEN "" ELSE Src[CHOOSE j \in ks : \A k \in ks : k <= j]

\* Texts in which the parser is known to lose something: the argument of an
\* aggregate takes one more token with it, a function in a SET list the
\* token after its bracket; a table after a join needs no comma, and then
\* nothing before it says that it is a table.
Aggregate   == \E i \in Body : Src[i] \in {"AVG", "MAX", "MIN", "SUM"} /\ After(i) = "("
FunctionSet == dp.stmttype = "UPDATE" /\ \E i \in Body : Src[i] \in {"COUNT", "GETDATE"}
LooseTable  == /\ CountSrc("JOIN") > 0
               /\ \E i \in Body : /\ Src[i] \in DOMAIN Define \cup {Define[n] : n \in Names}
                                 /\ Prev(i) \notin (Keywords \ {"NULL"}) \cup (Marks \ {")"})
Careful == ~Aggregate /\ ~FunctionSet /\ ~LooseTable

\* What a lexeme of the statement becomes, told from where it stands.
Rendering(i) ==
    LET w == Src[i]
    IN  CASE w \in {"AS", ";"} \/ (Prev(i) = "AS" /\ i > BodyStart) -> <<>>
          [] w = "GETDATE"                        -> <<"CURRENT">>
          [] w \in Variables                      -> <<":p", w>>
          [] w = "<="                             -> <<"<">>
          [] Prev(i) \in {"INTO", "UPDATE"}       -> <<AsDefine(w)>>
          [] LastKeyword(i) \in {"FROM", "JOIN"} /\ w \notin Keywords \cup Marks ->
                <<AsDefine(w), Alias(w)>>
          [] OTHER                                -> <<w>>

\* What the translation adds on its own account, and brackets.
Added == {"(", ")", "'", "STOP", "TERMINATE", "DESC", "FOR", "BROWSE", "ACCESS"}
Kept(w) == w \notin Added

\* parseSQL: an accepted statement is translated word for word.  Every field,
\* literal, parameter, comparison and connective of the text is in the
\* translation, in its order and once, every table is a define with its
\* alias, and nothing else is there, whichever of the functions read it.
\* (<= becomes <, as Rendering says.)
TranslatesAsWritten ==
    Accepted /\ Careful =>
        SelectSeq(dp.tsql, Kept) =
        FlattenSeq([n \in 1 .. Cardinality(Body) |->
                       SelectSeq(Rendering(BodyStart + n - 1), Kept)])

\* parseConditions, parseInList, parseJoinLhs, parseFunction: a translation
\* leaves as many brackets open as its text does, and closes none before it
\* is opened.
BracketsKept ==
    Accepted /\ ~Aggregate =>
        /\ Count(dp.tsql, "(") - Count(dp.tsql, ")") = CountSrc("(") - CountSrc(")")
        /\ \A n \in DOMAIN dp.tsql :
              LET before == SubSeq(dp.tsql, 1, n) IN Count(before, ")") <= Count(before, "(")

\* A use of a parameter in a condition, and how many of them its select has
\* before it.
Use(i)   == /\ Src[i] \in Variables
            /\ dp.stmttype # "INSERT"
            /\ dp.stmttype = "UPDATE" => \E j \in Body : j < i /\ Src[j] = "WHERE"
Place(i) == LET since == {j \in Body : j < i /\ Src[j] = "UNION"}
            IN  Cardinality({j \in Body : j < i /\ Use(j) /\ \A k \in since : k < j})

\* setPrmIdx: the places recorded for a parameter are those of its uses in
\* the conditions, counted through joins, WHERE, HAVING and CASE of a select
\* and from 0 again after a UNION; and a parameter is a LIKE pattern when
\* some LIKE has it.  (A select inside another counts for itself.)
PlacesOfUses ==
    Accepted /\ ~FunctionSet /\ CountSrc("SELECT") <= 1 + CountSrc("UNION") =>
        \A p \in DOMAIN dp.uparams :
            LET v == dp.uparams[p].name
            IN  /\ ToSet(dp.uparams[p].idxs) = {Place(i) : i \in {j \in Body : Use(j) /\ Src[j] = v}}
                /\ dp.uparams[p].likepattern <=>
                      \E i \in Body : Use(i) /\ Src[i] = v /\ Prev(i) = "LIKE"

\* Two items of a field list with no comma between them.
Juxtaposed == \E i \in Body : /\ Src[i] \notin Keywords \ {"END"}
                              /\ Src[i] \notin Marks \ {")"}
                              /\ After(i) \in (Names \cup Numbers \cup Strings \cup {"CASE"})
\* A field that is renamed has two names.
Renamed == \E i \in Body : Src[i] = "AS" /\ Prev(i) \in Names

\* parseSelect: a select without * names as many result fields as it has
\* items, so the n-th value of a row is given the n-th name.
ColumnsNamed ==
    Accepted /\ dp.stmttype = "SELECT" /\ CountSrc("SELECT") = 1 /\ CountSrc("IN") = 0
    /\ ~Aggregate /\ ~Juxtaposed /\ ~Renamed =>
        LET from == CHOOSE i \in Body : Src[i] = "FROM"
            list == SubSeq(Src, BodyStart, from - 1)
        IN  Prev(from) # "*" =>
            Len(dp.ufields) = Count(list, ",") + IF Src[from - 1] = "," THEN 0 ELSE 1
=============================================================================
