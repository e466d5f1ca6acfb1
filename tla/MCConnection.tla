---------------------------- MODULE MCConnection ----------------------------
(***************************************************************************)
(* Connection with the messages of its run: requests of every kind, whole, *)
(* cut short, longer than they declare, and ones that do not parse.        *)
(***************************************************************************)
EXTENDS Connection

Str(v)     == [type |-> "S", v |-> v]
Unknown    == [type |-> "Z", v |-> "1"]
Long(v)    == [type |-> "L", v |-> v]
Whole(fs)  == [size |-> Len(fs), fields |-> fs]
From(user, pw, name) == <<Str(name), Str(user), Str(pw)>>
Item(name, value)    == <<Str(name), value>>

Admin(user, cmd) == From(user, "pw", "ADMIN") \o Item("COMMAND", Str(cmd))

MCMessages ==
    {Whole(Admin("sa", cmd)) : cmd \in {"stats", "shutdown", "invoke"}}
    \cup {Whole(Admin("u", "userlist")),
          Whole(From("sa", "pw", "SQL") \o Item("sql", Str("q")) \o Item("system", Str("s"))),
          Whole(From("u", "pw", "proc") \o Item("%%system%%", Str("s"))),
          Whole(From("u", "no", "proc")),
          \* no COMMAND; a value that is missing; a name that is no string
          Whole(From("sa", "pw", "ADMIN")),
          Whole(Append(From("u", "pw", "proc"), Str("x"))),
          Whole(From("u", "pw", "proc") \o <<Long("1"), Str("x")>>),
          \* a letter that is not known, of a value, of a user and of an item's name
          Whole(From("u", "pw", "proc") \o Item("x", Unknown)),
          Whole(<<Str("proc"), Unknown, Str("pw")>>),
          Whole(From("u", "pw", "proc") \o <<Unknown, Str("x")>>),
          \* a header that declares less, and one that declares more, than comes
          [size |-> 2, fields |-> From("u", "pw", "proc")],
          [size |-> 4, fields |-> From("u", "pw", "proc")]}

MCLogons == {<<"sa", "pw">>, <<"u", "pw">>}
=============================================================================
