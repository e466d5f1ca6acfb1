------------------------------- MODULE Users -------------------------------
(***************************************************************************)
(* Logons and permissions of the SQL server: users.c, and the part of      *)
(* main (runcheck.c) that fills them when a server starts.                 *)
(*                                                                         *)
(* A server keeps its logons and permissions in hash tables and on file in *)
(* the tables USERS and PERMS of an SQLite database.  Several servers may  *)
(* be started in one directory and so on one database.  A server is a      *)
(* single thread, but every SQL statement is a transaction of its own: an  *)
(* operation is one action for each statement it executes, and the actions *)
(* of other servers, or the end of the server, come between.               *)
(*                                                                         *)
(* The tables m_uid2pw and m_uid2perms ignore the case of a user id, the   *)
(* database does not: UidKey maps the spellings of an id to one key.  The  *)
(* permissions of a user are in a table that does not ignore case, m_perms *)
(* is one that does.                                                       *)
(***************************************************************************)
EXTENDS Naturals, FiniteSets

CONSTANTS Servers,     \* server processes on one database
          Uids,        \* user ids as they are spelled
          UidKeys,     \* user ids with their case ignored
          UidKey,      \* the key of each user id
          Pws, NoPw,   \* passwords, and the value of an id that is not in a table
          Names,       \* procedures as they are spelled, with their system
          NameKeys, NameKey,
          SA, SAPw,    \* the row of USERS that a new database has
          WebUsers,    \* the users the configuration service sends: [uid, pw, admin]
          WebPerms,    \* the permissions it sends: <<uid, name>>
          MaxFailures  \* bound: SQL statements that fail

ASSUME UsersAssumption ==
    /\ UidKey \in [Uids -> UidKeys]
    /\ NameKey \in [Names -> NameKeys]
    /\ NoPw \notin Pws
    /\ SA \in Uids /\ SAPw \in Pws
    /\ WebUsers \subseteq [uid : Uids, pw : Pws, admin : BOOLEAN]
    /\ WebPerms \subseteq Uids \X Names
    /\ MaxFailures \in Nat

VARIABLES
    USERS,        \* on file: the row of each user id, NoRow if it has none
    PERMS,        \* on file: the permissions granted
    m_uid2pw,     \* in each server: the password of a key
    m_uid2perms,  \* in each server: the permissions of a key, {} if it has no table
    m_perms,      \* in each server: the keys of the permissions it has listed
    phase,        \* down, loading PERMS, taking the service's lists, or serving
    op,           \* the operation a server is inside of
    todo,         \* what is left of the service's lists
    failures,     \* SQL statements that failed so far
    granted,      \* history: the grants that some server answered without an error
    due,          \* history: of these, the ones a server has loaded or answered itself
    unsure        \* history: keys whose row this server failed to read or to insert,
                  \* or met after it had entered a password of its own

fileVars  == <<USERS, PERMS>>
cacheVars == <<m_uid2pw, m_uid2perms, m_perms>>
runVars   == <<phase, op, todo, failures>>
histVars  == <<granted, due, unsure>>
userVars  == <<fileVars, cacheVars, runVars, histVars>>

NoLists == [users |-> {}, perms |-> {}]
NoRow == [admin |-> FALSE, pw |-> NoPw]
NoOp  == [at |-> "none"]
Row   == [admin : BOOLEAN, pw : Pws]

\* What a server keeps between two statements of usersAdd and of usersAddPerm
UserOp == {NoOp}
          \cup [at : {"insertUser"}, uid : Uids, pw : Pws, admin : BOOLEAN]
          \cup [at : {"insertPerm"}, uid : Uids, perm : Names]

Spellings(k)  == {u \in Uids : UidKey[u] = k}
HasRow(u)     == USERS[u] # NoRow
Known(s, u)   == m_uid2pw[s][UidKey[u]] # NoPw
NoLogons      == [k \in UidKeys |-> NoPw]
NoPerms       == [k \in UidKeys |-> {}]

\* An SQL statement may fail (a locked or damaged database)
Fail      == failures < MaxFailures /\ failures' = failures + 1
Succeed   == UNCHANGED failures

Ready(s)    == phase[s] = "serving" /\ op[s] = NoOp
Set(s, o)   == op' = [op EXCEPT ![s] = o]
Return(s)   == Set(s, NoOp)

-----------------------------------------------------------------------------
(* Start and end of a server                                               *)

UsersInit ==
    /\ USERS = [u \in Uids |-> IF u = SA THEN [admin |-> TRUE, pw |-> SAPw] ELSE NoRow]
    /\ PERMS = {}
    /\ m_uid2pw = [s \in Servers |-> NoLogons]
    /\ m_uid2perms = [s \in Servers |-> NoPerms]
    /\ m_perms = [s \in Servers |-> {}]
    /\ phase = [s \in Servers |-> "down"]
    /\ op = [s \in Servers |-> NoOp]
    /\ todo = [s \in Servers |-> NoLists]
    /\ failures = 0
    /\ granted = {}
    /\ due = [s \in Servers |-> {}]
    /\ unsure = [s \in Servers |-> {}]

\* The password of a key is that of the first of its spellings: the rows come
\* in any order, and usersAdd keeps the one it has
LoadedPws(rows) ==
    {pws \in [UidKeys -> Pws \cup {NoPw}] :
        \A k \in UidKeys :
            IF Spellings(k) \cap rows = {} THEN pws[k] = NoPw
            ELSE \E u \in Spellings(k) \cap rows : pws[k] = USERS[u].pw}

\* usersNew reads USERS.  sqlitereaderRead does not tell a failure from the end
\* of the table: the server starts with the rows read until then.
Start(s) ==
    /\ phase[s] = "down"
    /\ LET stored == {u \in Uids : HasRow(u)}
       IN  \E rows \in SUBSET stored :
             /\ IF rows = stored THEN Succeed ELSE Fail
             /\ \E pws \in LoadedPws(rows) : m_uid2pw' = [m_uid2pw EXCEPT ![s] = pws]
             /\ unsure' = [unsure EXCEPT ![s] = {UidKey[u] : u \in stored \ rows}]
    /\ phase' = [phase EXCEPT ![s] = "perms"]
    /\ UNCHANGED <<fileVars, m_uid2perms, m_perms, op, todo, granted, due>>

GrantedIn(rows, k) == {n \in Names : \E u \in Spellings(k) : <<u, n>> \in rows}

\* usersNew reads PERMS.  usersAddPerm lists a permission in m_perms only when
\* it is the first one of its user.
LoadPerms(s) ==
    /\ phase[s] = "perms"
    /\ \E rows \in SUBSET PERMS :
         /\ IF rows = PERMS THEN Succeed ELSE Fail
         /\ m_uid2perms' = [m_uid2perms EXCEPT ![s] = [k \in UidKeys |-> GrantedIn(rows, k)]]
         /\ \E first \in [{k \in UidKeys : GrantedIn(rows, k) # {}} -> Names] :
              /\ \A k \in DOMAIN first : first[k] \in GrantedIn(rows, k)
              /\ m_perms' = [m_perms EXCEPT ![s] = {NameKey[first[k]] : k \in DOMAIN first}]
         /\ due' = [due EXCEPT ![s] = IF rows = PERMS THEN granted ELSE {}]
    /\ phase' = [phase EXCEPT ![s] = "lists"]
    /\ todo' = [todo EXCEPT ![s] = [users |-> WebUsers, perms |-> WebPerms]]
    /\ UNCHANGED <<fileVars, m_uid2pw, op, granted, unsure>>

\* The end of the service's lists: main accepts its first client
Serve(s) ==
    /\ phase[s] = "lists" /\ op[s] = NoOp /\ todo[s] = NoLists
    /\ phase' = [phase EXCEPT ![s] = "serving"]
    /\ UNCHANGED <<fileVars, cacheVars, op, todo, failures, histVars>>

\* The process ends, by itself or not: what is in memory is gone
Stop(s) ==
    /\ phase[s] # "down"
    /\ m_uid2pw' = [m_uid2pw EXCEPT ![s] = NoLogons]
    /\ m_uid2perms' = [m_uid2perms EXCEPT ![s] = NoPerms]
    /\ m_perms' = [m_perms EXCEPT ![s] = {}]
    /\ phase' = [phase EXCEPT ![s] = "down"]
    /\ Return(s)
    /\ todo' = [todo EXCEPT ![s] = NoLists]
    /\ due' = [due EXCEPT ![s] = {}]
    /\ unsure' = [unsure EXCEPT ![s] = {}]
    /\ UNCHANGED <<fileVars, failures, granted>>

-----------------------------------------------------------------------------
(* usersAdd: CREATE LOGON, and the service's users                         *)

\* A mutant: no test of m_uid2pw
AddUserAgain(s, uid, pw, admin) ==
    /\ m_uid2pw' = [m_uid2pw EXCEPT ![s][UidKey[uid]] = pw]
    /\ Succeed
    /\ IF HasRow(uid) THEN Return(s)
       ELSE Set(s, [at |-> "insertUser", uid |-> uid, pw |-> pw, admin |-> admin])
    /\ UNCHANGED unsure

\* A mutant: the INSERT when there is a row, and not when there is none
AddUserInverted(s, uid, pw, admin) ==
    /\ m_uid2pw' = [m_uid2pw EXCEPT ![s][UidKey[uid]] = pw]
    /\ Succeed
    /\ IF ~HasRow(uid) THEN Return(s)
       ELSE Set(s, [at |-> "insertUser", uid |-> uid, pw |-> pw, admin |-> admin])
    /\ UNCHANGED unsure

\* The table in memory is filled first; SELECT then tells whether to insert.
\* A SELECT that fails to run counts as one without rows, one that fails to
\* compile ends the operation.
AddUser(s, uid, pw, admin) ==
    IF Known(s, uid)
    THEN Return(s) /\ UNCHANGED <<m_uid2pw, failures, unsure>>
    ELSE /\ m_uid2pw' = [m_uid2pw EXCEPT ![s][UidKey[uid]] = pw]
         /\ \/ /\ IF HasRow(uid) THEN Fail ELSE Succeed
               /\ Set(s, [at |-> "insertUser", uid |-> uid, pw |-> pw, admin |-> admin])
               /\ UNCHANGED unsure
            \/ /\ IF HasRow(uid) THEN Succeed ELSE Fail
               /\ Return(s)
               /\ unsure' = [unsure EXCEPT ![s] = @ \cup {UidKey[uid]}]
            \/ /\ HasRow(uid) /\ Fail /\ Return(s)
               /\ unsure' = [unsure EXCEPT ![s] = @ \cup {UidKey[uid]}]

CreateLogon(s, uid, pw) ==
    /\ Ready(s)
    /\ AddUser(s, uid, pw, FALSE)
    /\ UNCHANGED <<fileVars, m_uid2perms, m_perms, phase, todo, granted, due>>

WebUser(s) ==
    /\ phase[s] = "lists" /\ op[s] = NoOp
    /\ \E w \in todo[s].users :
         /\ AddUser(s, w.uid, w.pw, w.admin)
         /\ todo' = [todo EXCEPT ![s].users = @ \ {w}]
    /\ UNCHANGED <<fileVars, m_uid2perms, m_perms, phase, granted, due>>

\* UID_NAME is the primary key: an INSERT beside another row of that id fails
InsertUser(s) ==
    /\ op[s].at = "insertUser"
    /\ \/ /\ ~HasRow(op[s].uid) /\ Succeed
          /\ USERS' = [USERS EXCEPT ![op[s].uid] =
                         [admin |-> op[s].admin, pw |-> op[s].pw]]
          /\ UNCHANGED unsure
       \/ /\ IF HasRow(op[s].uid) THEN Succeed ELSE Fail
          /\ unsure' = [unsure EXCEPT ![s] = @ \cup {UidKey[op[s].uid]}]
          /\ UNCHANGED USERS
    /\ Return(s)
    /\ UNCHANGED <<PERMS, cacheVars, phase, todo, granted, due>>

-----------------------------------------------------------------------------
(* usersAddPerm: GRANT, and the service's permissions                      *)

\* A mutant: a new table of a user starts empty
CachePermLost(s, uid, perm) ==
    LET k == UidKey[uid]
    IN  IF m_uid2perms[s][k] = {} THEN UNCHANGED <<m_uid2perms, m_perms>>
        ELSE /\ m_uid2perms' = [m_uid2perms EXCEPT ![s][k] = @ \cup {perm}]
             /\ UNCHANGED m_perms

\* m_perms gets the permission only with the first table of a user
CachePerm(s, uid, perm) ==
    LET k == UidKey[uid]
    IN  /\ m_uid2perms' = [m_uid2perms EXCEPT ![s][k] = @ \cup {perm}]
        /\ m_perms' = IF m_uid2perms[s][k] = {}
                      THEN [m_perms EXCEPT ![s] = @ \cup {NameKey[perm]}]
                      ELSE m_perms

Answered(s, uid, perm) ==
    /\ granted' = granted \cup {<<uid, perm>>}
    /\ due' = [due EXCEPT ![s] = @ \cup {<<uid, perm>>}]

\* A mutant: the tables in memory first
AddPermEarly(s, uid, perm) ==
    /\ Succeed
    /\ CachePerm(s, uid, perm)
    /\ IF <<uid, perm>> \in PERMS THEN Return(s)
       ELSE Set(s, [at |-> "insertPerm", uid |-> uid, perm |-> perm])
    /\ UNCHANGED <<granted, due>>

\* The file first, then the tables in memory
AddPerm(s, uid, perm) ==
    \/ /\ <<uid, perm>> \in PERMS
       /\ Succeed /\ Return(s)
       /\ CachePerm(s, uid, perm)
       /\ Answered(s, uid, perm)
    \/ /\ IF <<uid, perm>> \in PERMS THEN Fail ELSE Succeed
       /\ Set(s, [at |-> "insertPerm", uid |-> uid, perm |-> perm])
       /\ UNCHANGED <<m_uid2perms, m_perms, granted, due>>
    \/ /\ Fail /\ Return(s)
       /\ UNCHANGED <<m_uid2perms, m_perms, granted, due>>

Grant(s, uid, perm) ==
    /\ Ready(s)
    /\ AddPerm(s, uid, perm)
    /\ UNCHANGED <<fileVars, m_uid2pw, phase, todo, unsure>>

WebPerm(s) ==
    /\ phase[s] = "lists" /\ op[s] = NoOp /\ todo[s].users = {}
    /\ \E w \in todo[s].perms :
         /\ AddPerm(s, w[1], w[2])
         /\ todo' = [todo EXCEPT ![s].perms = @ \ {w}]
    /\ UNCHANGED <<fileVars, m_uid2pw, phase, unsure>>

InsertPerm(s) ==
    /\ op[s].at = "insertPerm"
    /\ \/ /\ <<op[s].uid, op[s].perm>> \notin PERMS /\ Succeed
          /\ PERMS' = PERMS \cup {<<op[s].uid, op[s].perm>>}
          /\ CachePerm(s, op[s].uid, op[s].perm)
          /\ Answered(s, op[s].uid, op[s].perm)
       \/ /\ IF <<op[s].uid, op[s].perm>> \in PERMS THEN Succeed ELSE Fail
          /\ UNCHANGED <<PERMS, m_uid2perms, m_perms, granted, due>>
    /\ Return(s)
    /\ UNCHANGED <<USERS, m_uid2pw, phase, todo, unsure>>

-----------------------------------------------------------------------------
(* What the rest of the server asks                                        *)

userLogon(s, uid, pw)  == m_uid2pw[s][UidKey[uid]] = pw
usersIsAdmin(uid)      == USERS[uid].admin

\* A mutant: the case of the permission is ignored
usersHasPermAnyCase(s, uid, perm) ==
    \/ \E n \in m_uid2perms[s][UidKey[uid]] : NameKey[n] = NameKey[perm]
    \/ usersIsAdmin(uid)

usersHasPerm(s, uid, perm) ==
    perm \in m_uid2perms[s][UidKey[uid]] \/ usersIsAdmin(uid)

-----------------------------------------------------------------------------

UsersNext ==
    \E s \in Servers :
        \/ Start(s) \/ LoadPerms(s) \/ Serve(s) \/ Stop(s)
        \/ WebUser(s) \/ InsertUser(s) \/ WebPerm(s) \/ InsertPerm(s)
        \/ \E uid \in Uids, pw \in Pws : CreateLogon(s, uid, pw)
        \/ \E uid \in Uids, perm \in Names : Grant(s, uid, perm)

UsersSpec == UsersInit /\ [][UsersNext]_userVars

-----------------------------------------------------------------------------
(* Properties                                                              *)

\* The types of everything but op, which a module that extends this one widens
UsersTypes ==
    /\ USERS \in [Uids -> Row \cup {NoRow}]
    /\ PERMS \subseteq Uids \X Names
    /\ m_uid2pw \in [Servers -> [UidKeys -> Pws \cup {NoPw}]]
    /\ m_uid2perms \in [Servers -> [UidKeys -> SUBSET Names]]
    /\ m_perms \in [Servers -> SUBSET NameKeys]
    /\ phase \in [Servers -> {"down", "perms", "lists", "serving"}]
    /\ todo \in [Servers -> [users : SUBSET WebUsers, perms : SUBSET WebPerms]]
    /\ failures \in 0 .. MaxFailures
    /\ granted \subseteq Uids \X Names
    /\ due \in [Servers -> SUBSET (Uids \X Names)]
    /\ unsure \in [Servers -> SUBSET UidKeys]

\* Type invariant of the users of the servers
UsersTypeOK == UsersTypes /\ op \in [Servers -> UserOp]

\* A permission that a server knows is on file under a spelling of its user, so
\* that no restart takes it back (usersAddPerm: the INSERT before the tables)
PermsBacked ==
    \A s \in Servers, k \in UidKeys :
        \A n \in m_uid2perms[s][k] : \E u \in Spellings(k) : <<u, n>> \in PERMS

\* A server honours every grant it has answered without an error since it
\* started, and every grant any server had so answered before it read PERMS
GrantsHonoured ==
    \A s \in Servers : \A g \in due[s] : g[2] \in m_uid2perms[s][UidKey[g[1]]]

\* A logon a server accepts is on file under a spelling of its id, but while
\* its INSERT is pending and after the INSERT failed (usersAdd fills m_uid2pw
\* first and does not take the entry back)
LogonsBacked ==
    \A s \in Servers, k \in UidKeys :
        m_uid2pw[s][k] # NoPw =>
            \/ \E u \in Spellings(k) : HasRow(u)
            \/ op[s].at = "insertUser" /\ UidKey[op[s].uid] = k
            \/ k \in unsure[s]

\* A server accepts the password that is on file: a second CREATE LOGON for an id
\* changes neither (usersAdd, the test of m_uid2pw).  The exceptions are an id with
\* a row that the server could not read when it started and an id that another
\* server created first, before or while this one was creating it.
PasswordsAgree ==
    \A s \in Servers, u \in Uids :
        HasRow(u) /\ Known(s, u) =>
            \/ \E v \in Spellings(UidKey[u]) : m_uid2pw[s][UidKey[u]] = USERS[v].pw
            \/ op[s].at = "insertUser" /\ UidKey[op[s].uid] = UidKey[u]
            \/ UidKey[u] \in unsure[s]
=============================================================================
