------------------------------ MODULE Catalog -------------------------------
(***************************************************************************)
(* What one server of stored procedures promises: a table from names to    *)
(* texts in which a name gets a text when it has none and loses it again,  *)
(* and answers to requests that are true of the table when they are given. *)
(***************************************************************************)
CONSTANTS Clients, Names, NameKeys, NameKey, Texts, NoText

VARIABLES catalog,  \* the text of each name
          answer    \* the last answer to each client; turn marks a new one

catalogVars == <<catalog, answer>>

NoAnswer == [name |-> "none", result |-> "none", turn |-> FALSE]

Init ==
    /\ catalog = [n \in Names |-> NoText]
    /\ answer = [c \in Clients |-> NoAnswer]

Define(n, t) ==
    /\ catalog[n] = NoText
    /\ catalog' = [catalog EXCEPT ![n] = t]
    /\ UNCHANGED answer

Remove(n) ==
    /\ catalog' = [catalog EXCEPT ![n] = NoText]
    /\ UNCHANGED answer

\* A request finds a procedure under any spelling of its name, and may say that
\* there is none only if there is none under the spelling it uses
TrueOf(n, r) ==
    \/ \E m \in Names : NameKey[m] = NameKey[n] /\ catalog[m] = r /\ r \in Texts
    \/ r = "not found" /\ catalog[n] = NoText
    \/ r \in {"unavailable", "undefined"}

Ask(c, n, r) ==
    /\ TrueOf(n, r)
    /\ answer' = [answer EXCEPT ![c] = [name |-> n, result |-> r, turn |-> ~ @.turn]]
    /\ UNCHANGED catalog

Next ==
    \/ \E n \in Names, t \in Texts : Define(n, t)
    \/ \E n \in Names : Remove(n)
    \/ \E c \in Clients, n \in Names,
          r \in Texts \cup {"not found", "unavailable", "undefined"} : Ask(c, n, r)

Spec == Init /\ [][Next]_catalogVars
=============================================================================
