------------------------------ MODULE StmtMgr -------------------------------
(***************************************************************************)
(* The stored procedures of the SQL server: stmtmgr.c, the functions of    *)
(* preparedstatement.c on the table SPROCS, and the requests that main     *)
(* dispatches to them, on top of the logons and permissions of Users.      *)
(*                                                                         *)
(* A server prepares a procedure when it is created or first executed and  *)
(* keeps it in m_stmts, whose keys ignore case; the primary key of SPROCS  *)
(* does not.  As in Users, an action ends where the next SQL statement     *)
(* begins.                                                                 *)
(*                                                                         *)
(* An entry of m_stmts is absent, a prepared statement, a NULL value (the  *)
(* key stays when DROP puts NULL) or a pointer to a statement that was     *)
(* freed.  Where the code would follow a NULL it crashes, and the action   *)
(* is not enabled but for Exit; where it follows a freed pointer it        *)
(* crashes (Exit again) or goes on with an undefined result.               *)
(***************************************************************************)
EXTENDS Users

CONSTANTS Texts, NoText,
          Grantees    \* bound: the ids that GRANT and CREATE LOGON name

ASSUME TextsAssumption ==
    /\ Grantees \subseteq Uids
    /\ NoText \notin Texts
    /\ {"not found", "unavailable", "undefined", "none"} \cap (Texts \cup {NoText}) = {}

VARIABLES
    SPROCS,   \* on file: the text of each name
    m_stmts,  \* in each server: the entry of each key
    saved,    \* history: the rows SPROCS has had
    answer    \* in each server: the last answer to EXEC or DISPLAYSQL

stmtVars == <<SPROCS, m_stmts, saved, answer>>
vars     == <<userVars, stmtVars>>

Absent      == [is |-> "absent"]
Null        == [is |-> "null"]
Freed       == [is |-> "freed"]
Stmt(n, t)  == [is |-> "stmt", name |-> n, text |-> t]
Entry       == {Absent, Null, Freed} \cup [is : {"stmt"}, name : Names, text : Texts]

\* What a server keeps between two statements of a request on procedures
StmtOp == [at : {"replace", "save"}, name : Names, text : Texts]
          \cup [at : {"dropRow"}, name : Names]
          \cup [at : {"load"}, name : Names, uid : Uids]

NoEntries  == [k \in NameKeys |-> Absent]
Cached(s, n) == m_stmts[s][NameKey[n]]
Put(s, n, e) == m_stmts' = [m_stmts EXCEPT ![s][NameKey[n]] = e]

NoAnswer == [name |-> "none", uid |-> "none", result |-> "none", turn |-> FALSE]
Reply(s, uid, n, r) ==
    answer' = [answer EXCEPT ![s] = [name |-> n, uid |-> uid, result |-> r,
                                     turn |-> ~ @.turn]]

\* The requests SQL are those of a logged on "sa", in any case (logonAdminUser);
\* CREATE and DROP also want the flag of the row as the id is spelled
LoggedOn(s, uid) == \E pw \in Pws : userLogon(s, uid, pw)
SqlUser(s, uid)  == LoggedOn(s, uid) /\ UidKey[uid] = UidKey[SA]

onlyStmts == <<fileVars, cacheVars, phase, todo, histVars>>

-----------------------------------------------------------------------------
(* CREATE PROCEDURE                                                        *)

\* The statement is prepared; one that is cached under its key is freed and
\* its row is next to go
CreateProc(s, uid, n, t) ==
    /\ Ready(s) /\ SqlUser(s, uid) /\ usersIsAdmin(uid)
    /\ \/ /\ Cached(s, n) = Absent
          /\ Put(s, n, Stmt(n, t))
          /\ Set(s, [at |-> "save", name |-> n, text |-> t])
       \/ /\ Cached(s, n).is \in {"stmt", "freed"}
          /\ Put(s, n, Freed)
          /\ Set(s, [at |-> "replace", name |-> n, text |-> t])
    /\ UNCHANGED <<onlyStmts, failures, SPROCS, saved, answer>>

\* deleteProcedure, whose result nobody looks at
ReplaceProc(s) ==
    /\ op[s].at = "replace"
    /\ \/ Succeed /\ SPROCS' = [SPROCS EXCEPT ![op[s].name] = NoText]
       \/ Fail /\ UNCHANGED SPROCS
    /\ Put(s, op[s].name, Stmt(op[s].name, op[s].text))
    /\ Set(s, [op[s] EXCEPT !.at = "save"])
    /\ UNCHANGED <<onlyStmts, saved, answer>>

\* A mutant: the statement that could not be saved is left alone
SaveProcKeeps(s) ==
    /\ op[s].at = "save"
    /\ \/ /\ SPROCS[op[s].name] = NoText /\ Succeed
          /\ SPROCS' = [SPROCS EXCEPT ![op[s].name] = op[s].text]
          /\ saved' = saved \cup {<<op[s].name, op[s].text>>}
       \/ /\ IF SPROCS[op[s].name] = NoText THEN Fail ELSE Succeed
          /\ UNCHANGED <<SPROCS, saved>>
    /\ Return(s)
    /\ UNCHANGED <<onlyStmts, m_stmts, answer>>

\* saveProcedure.  The name is the primary key; a statement that could not be
\* saved is freed and stays in the table.
SaveProc(s) ==
    /\ op[s].at = "save"
    /\ \/ /\ SPROCS[op[s].name] = NoText /\ Succeed
          /\ SPROCS' = [SPROCS EXCEPT ![op[s].name] = op[s].text]
          /\ saved' = saved \cup {<<op[s].name, op[s].text>>}
          /\ UNCHANGED m_stmts
       \/ /\ IF SPROCS[op[s].name] = NoText THEN Fail ELSE Succeed
          /\ Put(s, op[s].name, Freed)
          /\ UNCHANGED <<SPROCS, saved>>
    /\ Return(s)
    /\ UNCHANGED <<onlyStmts, answer>>

-----------------------------------------------------------------------------
(* DROP PROCEDURE                                                          *)

\* A mutant: the table keeps the statement that is dropped
DropProcStays(s, uid, n) ==
    /\ Ready(s) /\ SqlUser(s, uid) /\ usersIsAdmin(uid)
    /\ Cached(s, n).is \in {"stmt", "freed"}
    /\ Set(s, [at |-> "dropRow", name |-> n])
    /\ UNCHANGED <<onlyStmts, failures, SPROCS, m_stmts, saved, answer>>

\* A procedure that is not cached is not found
DropProc(s, uid, n) ==
    /\ Ready(s) /\ SqlUser(s, uid) /\ usersIsAdmin(uid)
    /\ Cached(s, n).is \in {"stmt", "freed"}
    /\ Put(s, n, Null)
    /\ Set(s, [at |-> "dropRow", name |-> n])
    /\ UNCHANGED <<onlyStmts, failures, SPROCS, saved, answer>>

\* deleteProcedure succeeds also when it deletes no row
DropRow(s) ==
    /\ op[s].at = "dropRow"
    /\ \/ Succeed /\ SPROCS' = [SPROCS EXCEPT ![op[s].name] = NoText]
       \/ Fail /\ UNCHANGED SPROCS
    /\ Return(s)
    /\ UNCHANGED <<onlyStmts, m_stmts, saved, answer>>

-----------------------------------------------------------------------------
(* EXEC, and the display and the list of procedures                        *)

ExecCached(s, uid, n) ==
    \/ Cached(s, n).is = "stmt" /\ Reply(s, uid, n, Cached(s, n).text)
    \/ Cached(s, n).is = "freed" /\ Reply(s, uid, n, "undefined")

\* A mutant: what is not cached is not found
ExecNoLoad(s, uid, n) ==
    /\ Ready(s) /\ LoggedOn(s, uid) /\ usersHasPerm(s, uid, n)
    /\ \/ ExecCached(s, uid, n)
       \/ Cached(s, n) \in {Absent, Null} /\ Reply(s, uid, n, "not found")
    /\ UNCHANGED <<onlyStmts, op, failures, SPROCS, m_stmts, saved>>

\* stmtmgrExec
Exec(s, uid, n) ==
    /\ Ready(s) /\ LoggedOn(s, uid) /\ usersHasPerm(s, uid, n)
    /\ \/ ExecCached(s, uid, n) /\ UNCHANGED op
       \/ /\ Cached(s, n) \in {Absent, Null}
          /\ Set(s, [at |-> "load", name |-> n, uid |-> uid])
          /\ UNCHANGED answer
    /\ UNCHANGED <<onlyStmts, failures, SPROCS, m_stmts, saved>>

\* A mutant: a row is expected where there is none
LoadProcBlindly(s) ==
    /\ op[s].at = "load" /\ Succeed
    /\ Put(s, op[s].name, Stmt(op[s].name, SPROCS[op[s].name]))
    /\ Reply(s, op[s].uid, op[s].name, SPROCS[op[s].name])
    /\ Return(s)
    /\ UNCHANGED <<onlyStmts, SPROCS, saved>>

\* updateProcedure: the row, if there is one and it can be read and prepared,
\* becomes the entry of its key and is executed.  The client is told "procedure
\* not found" in both of the other cases; the model keeps them apart.
LoadProc(s) ==
    LET n == op[s].name
    IN  /\ op[s].at = "load"
        /\ \/ /\ SPROCS[n] # NoText /\ Succeed
              /\ Put(s, n, Stmt(n, SPROCS[n]))
              /\ Reply(s, op[s].uid, n, SPROCS[n])
           \/ /\ SPROCS[n] = NoText /\ Succeed
              /\ Reply(s, op[s].uid, n, "not found")
              /\ UNCHANGED m_stmts
           \/ /\ Fail
              /\ Reply(s, op[s].uid, n, "unavailable")
              /\ UNCHANGED m_stmts
        /\ Return(s)
        /\ UNCHANGED <<onlyStmts, SPROCS, saved>>

\* The request DISPLAYSQL (proccodeRequest), for which nobody logs on, looks
\* only at what is cached
ShowProc(s, n) ==
    /\ Ready(s)
    /\ ExecCached(s, "none", n)
    /\ UNCHANGED <<onlyStmts, op, failures, SPROCS, m_stmts, saved>>

\* The request PROCLIST loads all rows, but only into an empty table.  Of the
\* rows with one key the last one read stays.
ListProcs(s) ==
    /\ Ready(s) /\ m_stmts[s] = NoEntries
    /\ LET stored == {n \in Names : SPROCS[n] # NoText}
       IN  \E rows \in SUBSET stored :
             /\ IF rows = stored THEN Succeed ELSE Fail
             /\ \E entries \in [NameKeys -> {Absent} \cup {Stmt(n, SPROCS[n]) : n \in rows}] :
                  /\ \A k \in NameKeys :
                       IF \E n \in rows : NameKey[n] = k
                       THEN entries[k] # Absent /\ NameKey[entries[k].name] = k
                       ELSE entries[k] = Absent
                  /\ m_stmts' = [m_stmts EXCEPT ![s] = entries]
    /\ UNCHANGED <<onlyStmts, op, SPROCS, saved, answer>>

-----------------------------------------------------------------------------
(* The server                                                              *)

\* Shutdown, a crash of the code's own making, or a kill
Exit(s) ==
    /\ Stop(s)
    /\ m_stmts' = [m_stmts EXCEPT ![s] = NoEntries]
    /\ UNCHANGED <<SPROCS, saved, answer>>

UserRequest(s) ==
    \E uid \in Uids :
        /\ SqlUser(s, uid)
        /\ \E u \in Grantees : \/ \E pw \in Pws : CreateLogon(s, u, pw)
                               \/ \E n \in Names : Grant(s, u, n)

UserStep(s) ==
    /\ \/ Start(s) \/ LoadPerms(s) \/ Serve(s)
       \/ WebUser(s) \/ InsertUser(s) \/ WebPerm(s) \/ InsertPerm(s)
       \/ UserRequest(s)
    /\ UNCHANGED stmtVars

Init ==
    /\ UsersInit
    /\ SPROCS = [n \in Names |-> NoText]
    /\ m_stmts = [s \in Servers |-> NoEntries]
    /\ saved = {}
    /\ answer = [s \in Servers |-> NoAnswer]

Next ==
    \E s \in Servers :
        \/ UserStep(s) \/ Exit(s)
        \/ ReplaceProc(s) \/ SaveProc(s) \/ DropRow(s) \/ LoadProc(s) \/ ListProcs(s)
        \/ \E n \in Names :
             \/ ShowProc(s, n)
             \/ \E uid \in Uids :
                  \/ Exec(s, uid, n) \/ DropProc(s, uid, n)
                  \/ \E t \in Texts : CreateProc(s, uid, n, t)

Spec == Init /\ [][Next]_vars

-----------------------------------------------------------------------------
(* Properties                                                              *)

\* Type invariant of the servers
TypeOK ==
    /\ UsersTypes
    /\ op \in [Servers -> UserOp \cup StmtOp]
    /\ SPROCS \in [Names -> Texts \cup {NoText}]
    /\ m_stmts \in [Servers -> [NameKeys -> Entry]]
    /\ saved \subseteq Names \X Texts
    /\ answer \in [Servers -> [name : Names \cup {"none"}, uid : Uids \cup {"none"},
                               result : Texts \cup {"none", "not found", "unavailable",
                                                    "undefined"},
                               turn : BOOLEAN]]

\* However many servers there are and however stale the statements they keep, a
\* request never executes or shows a text that was not saved under a spelling of
\* its name: a statement whose INSERT failed does not serve (saveProcedure)
RunsSaved ==
    \A s \in Servers :
        answer[s].result \in Texts =>
            \E m \in Names : /\ NameKey[m] = NameKey[answer[s].name]
                             /\ <<m, answer[s].result>> \in saved

\* A procedure is executed only for a user whose permission for it, as the
\* request spells it, is on file, or who is an administrator on file
\* (stmtmgrExec, usersHasPerm)
RunsAuthorised ==
    \A s \in Servers :
        answer[s].uid # "none" =>
            \/ USERS[answer[s].uid].admin
            \/ \E u \in Spellings(UidKey[answer[s].uid]) : <<u, answer[s].name>> \in PERMS

\* One server on its database: a statement it keeps is the text on file, but
\* while its CREATE is about to save it
CacheCurrent ==
    \A s \in Servers, k \in NameKeys :
        LET e == m_stmts[s][k]
        IN  e.is = "stmt" =>
                /\ NameKey[e.name] = k
                /\ \/ SPROCS[e.name] = e.text
                   \/ op[s] = [at |-> "save", name |-> e.name, text |-> e.text]

\* One server on its database implements the catalogue of procedures
TheCatalog ==
    INSTANCE Catalog WITH
        Clients <- Servers,
        catalog <- SPROCS,
        answer <- [s \in Servers |-> [name |-> answer[s].name, result |-> answer[s].result,
                                      turn |-> answer[s].turn]]
ImplementsCatalog == TheCatalog!Spec
=============================================================================
