--------------------------- MODULE StmtMgrProofs ----------------------------
(***************************************************************************)
(* Proofs about modules Users and StmtMgr.  First, what holds of logons    *)
(* and permissions, for any number of servers, users, spellings,           *)
(* permissions and failing statements, is proved of Users alone, whose     *)
(* steps are those of UsersNext.  Then that what a request executes was    *)
(* saved and was authorised: this holds for any number of servers on one   *)
(* database.  That a server's table is what is on file, and that it        *)
(* implements Catalog, is said of one server.                              *)
(***************************************************************************)
EXTENDS StmtMgr, TLAPS

-----------------------------------------------------------------------------
(* Users: the invariant                                                    *)

\* What a server answered is on file: no statement deletes a permission
GrantsFiled == granted \subseteq PERMS

\* What usersAdd and usersAddPerm keep between two statements has its type; the
\* other operations of a server, which Users does not know, are left open
OpsTyped ==
    /\ DOMAIN op = Servers
    /\ \A s \in Servers :
         /\ op[s].at = "insertUser" =>
              op[s].uid \in Uids /\ op[s].pw \in Pws /\ op[s].admin \in BOOLEAN
         /\ op[s].at = "insertPerm" => op[s].uid \in Uids /\ op[s].perm \in Names

\* A server accepts, for each key, the password of one of its rows, or the one it
\* is about to insert, unless it is unsure of the key
Agrees(s, k) ==
    m_uid2pw[s][k] # NoPw =>
        \/ \E u \in Spellings(k) : HasRow(u) /\ m_uid2pw[s][k] = USERS[u].pw
        \/ op[s].at = "insertUser" /\ UidKey[op[s].uid] = k /\ op[s].pw = m_uid2pw[s][k]
        \/ k \in unsure[s]

LogonsAgree == \A s \in Servers, k \in UidKeys : Agrees(s, k)

PermsInv == PermsBacked /\ GrantsFiled /\ GrantsHonoured

\* The inductive invariant.  GrantsHonoured needs GrantsFiled: a server that
\* starts honours what the others have answered only because it is on file.
\* LogonsBacked and PasswordsAgree need LogonsAgree: that some spelling has a
\* row and that the password is on file must be said of one and the same row,
\* and the INSERT that is pending must be that of the password in memory.
UsersInv == UsersTypes /\ OpsTyped /\ PermsInv /\ LogonsAgree

-----------------------------------------------------------------------------
(* What a server keeps between two statements                              *)

\* What usersAdd and usersAddPerm keep has its type
LEMMA KeptOps ==
    /\ NoOp \in UserOp
    /\ \A uid \in Uids, pw \in Pws, admin \in BOOLEAN :
          [at |-> "insertUser", uid |-> uid, pw |-> pw, admin |-> admin] \in UserOp
    /\ \A uid \in Uids, perm \in Names :
          [at |-> "insertPerm", uid |-> uid, perm |-> perm] \in UserOp
  BY DEF UserOp, NoOp

\* A user that the service has sent has its type
LEMMA ListedTypes ==
    ASSUME UsersTypes, NEW s \in Servers
    PROVE  /\ todo[s] \in [users : SUBSET WebUsers, perms : SUBSET WebPerms]
           /\ \A w \in todo[s].users : w.uid \in Uids /\ w.pw \in Pws /\ w.admin \in BOOLEAN
           /\ \A w \in todo[s].perms : w[1] \in Uids /\ w[2] \in Names
  BY UsersAssumption DEF UsersTypes

\* The step of a server changes its own operation only, to what usersAdd or
\* usersAddPerm keeps or to none
LEMMA OpEffect ==
    ASSUME UsersTypes, UsersNext
    PROVE  op' = op \/ \E s \in Servers, o \in UserOp : op' = [op EXCEPT ![s] = o]
  <1> USE KeptOps DEF Set, Return
  <1>1. ASSUME NEW s \in Servers, NEW uid \in Uids, NEW pw \in Pws, NEW admin \in BOOLEAN,
               AddUser(s, uid, pw, admin)
        PROVE  \E o \in UserOp : op' = [op EXCEPT ![s] = o]
    BY <1>1 DEF AddUser
  <1>2. ASSUME NEW s \in Servers, NEW uid \in Uids, NEW perm \in Names, AddPerm(s, uid, perm)
        PROVE  \E o \in UserOp : op' = [op EXCEPT ![s] = o]
    BY <1>2 DEF AddPerm
  <1>3. PICK s \in Servers :
          \/ Start(s) \/ LoadPerms(s) \/ Serve(s) \/ Stop(s)
          \/ WebUser(s) \/ InsertUser(s) \/ WebPerm(s) \/ InsertPerm(s)
          \/ \E uid \in Uids, pw \in Pws : CreateLogon(s, uid, pw)
          \/ \E uid \in Uids, perm \in Names : Grant(s, uid, perm)
    BY DEF UsersNext
  <1>4. CASE Start(s) \/ LoadPerms(s) \/ Serve(s)
    BY <1>4 DEF Start, LoadPerms, Serve
  <1>5. CASE Stop(s) \/ InsertUser(s) \/ InsertPerm(s)
    BY <1>5 DEF Stop, InsertUser, InsertPerm
  <1>6. CASE WebUser(s)
    BY <1>1, <1>6, ListedTypes DEF WebUser
  <1>7. CASE WebPerm(s)
    BY <1>2, <1>7, ListedTypes DEF WebPerm
  <1>8. CASE \E uid \in Uids, pw \in Pws : CreateLogon(s, uid, pw)
    BY <1>1, <1>8 DEF CreateLogon
  <1>9. CASE \E uid \in Uids, perm \in Names : Grant(s, uid, perm)
    BY <1>2, <1>9 DEF Grant
  <1>10. QED
    BY <1>3, <1>4, <1>5, <1>6, <1>7, <1>8, <1>9

\* Every step keeps the types of the operations, also where a module that
\* extends Users adds operations of its own
LEMMA NextOps ==
    ASSUME UsersTypes, OpsTyped, UsersNext
    PROVE  /\ OpsTyped'
           /\ \A Ops : UserOp \subseteq Ops /\ op \in [Servers -> Ops] => op' \in [Servers -> Ops]
  <1>1. CASE op' = op
    BY <1>1 DEF OpsTyped
  <1>2. CASE \E s \in Servers, o \in UserOp : op' = [op EXCEPT ![s] = o]
    <2>1. PICK s \in Servers, o \in UserOp : op' = [op EXCEPT ![s] = o]
      BY <1>2
    <2>2. /\ o.at = "insertUser" => o.uid \in Uids /\ o.pw \in Pws /\ o.admin \in BOOLEAN
          /\ o.at = "insertPerm" => o.uid \in Uids /\ o.perm \in Names
      BY DEF UserOp, NoOp
    <2>3. DOMAIN op' = Servers /\ \A t \in Servers : op'[t] = IF t = s THEN o ELSE op[t]
      BY <2>1 DEF OpsTyped
    <2>4. OpsTyped'
      BY <2>2, <2>3 DEF OpsTyped
    <2>5. QED
      BY <2>1, <2>4
  <1>3. QED
    BY <1>1, <1>2, OpEffect

-----------------------------------------------------------------------------
(* Types                                                                   *)

\* usersAdd keeps the types of what it changes
LEMMA AddUserTypes ==
    ASSUME UsersTypes, NEW s \in Servers, NEW uid \in Uids, NEW pw \in Pws,
           NEW admin \in BOOLEAN, AddUser(s, uid, pw, admin)
    PROVE  /\ m_uid2pw' \in [Servers -> [UidKeys -> Pws \cup {NoPw}]]
           /\ failures' \in 0 .. MaxFailures
           /\ unsure' \in [Servers -> SUBSET UidKeys]
  <1>1. UidKey[uid] \in UidKeys
    BY UsersAssumption
  <1>3. failures' \in 0 .. MaxFailures
    BY UsersAssumption DEF AddUser, Fail, Succeed, UsersTypes
  <1>4. m_uid2pw' \in [Servers -> [UidKeys -> Pws \cup {NoPw}]]
    <2>1. m_uid2pw \in [Servers -> [UidKeys -> Pws \cup {NoPw}]]
      BY DEF UsersTypes
    <2>2. \/ m_uid2pw' = m_uid2pw
          \/ m_uid2pw' = [m_uid2pw EXCEPT ![s][UidKey[uid]] = pw]
      BY DEF AddUser
    <2>3. QED
      BY <1>1, <2>1, <2>2
  <1>5. unsure' \in [Servers -> SUBSET UidKeys]
    <2>1. unsure \in [Servers -> SUBSET UidKeys]
      BY DEF UsersTypes
    <2>2. \/ unsure' = unsure
          \/ unsure' = [unsure EXCEPT ![s] = @ \cup {UidKey[uid]}]
      BY DEF AddUser
    <2>3. QED
      BY <1>1, <2>1, <2>2
  <1>6. QED
    BY <1>3, <1>4, <1>5

\* The tables of usersAddPerm gain one permission, of one user of one server
LEMMA CachePermEffect ==
    ASSUME UsersTypes, NEW s \in Servers, NEW uid \in Uids, NEW perm \in Names,
           CachePerm(s, uid, perm)
    PROVE  /\ m_uid2perms' \in [Servers -> [UidKeys -> SUBSET Names]]
           /\ m_perms' \in [Servers -> SUBSET NameKeys]
           /\ \A t \in Servers, k \in UidKeys :
                \A n : n \in m_uid2perms'[t][k] <=>
                        n \in m_uid2perms[t][k] \/ (t = s /\ k = UidKey[uid] /\ n = perm)
  <1>1. UidKey[uid] \in UidKeys /\ NameKey[perm] \in NameKeys
    BY UsersAssumption
  <1>2. m_uid2perms \in [Servers -> [UidKeys -> SUBSET Names]]
        /\ m_perms \in [Servers -> SUBSET NameKeys]
    BY DEF UsersTypes
  <1>3. m_uid2perms' = [m_uid2perms EXCEPT ![s][UidKey[uid]] = @ \cup {perm}]
    BY DEF CachePerm
  <1>4. m_perms' \in [Servers -> SUBSET NameKeys]
    BY <1>1, <1>2 DEF CachePerm
  <1>5. QED
    BY <1>1, <1>2, <1>3, <1>4

\* usersAddPerm keeps the types of what it changes
LEMMA AddPermTypes ==
    ASSUME UsersTypes, NEW s \in Servers, NEW uid \in Uids, NEW perm \in Names,
           AddPerm(s, uid, perm) \/ (CachePerm(s, uid, perm) /\ Answered(s, uid, perm)
                                      /\ Succeed)
    PROVE  /\ m_uid2perms' \in [Servers -> [UidKeys -> SUBSET Names]]
           /\ m_perms' \in [Servers -> SUBSET NameKeys]
           /\ granted' \subseteq Uids \X Names
           /\ due' \in [Servers -> SUBSET (Uids \X Names)]
           /\ failures' \in 0 .. MaxFailures
  <1>1. failures' \in 0 .. MaxFailures
    BY UsersAssumption DEF AddPerm, Fail, Succeed, UsersTypes
  <1>2. CASE CachePerm(s, uid, perm) /\ Answered(s, uid, perm)
    <2>1. granted \subseteq Uids \X Names /\ due \in [Servers -> SUBSET (Uids \X Names)]
      BY DEF UsersTypes
    <2>2. <<uid, perm>> \in Uids \X Names
      OBVIOUS
    <2>3. granted' \subseteq Uids \X Names /\ due' \in [Servers -> SUBSET (Uids \X Names)]
      BY <1>2, <2>1, <2>2 DEF Answered
    <2>4. QED
      BY <1>1, <1>2, <2>3, CachePermEffect
  <1>3. CASE UNCHANGED <<m_uid2perms, m_perms, granted, due>>
    BY <1>1, <1>3 DEF UsersTypes
  <1>4. QED
    BY <1>2, <1>3 DEF AddPerm

\* usersNew keeps the types of what it changes
LEMMA StartTypes ==
    ASSUME UsersTypes, NEW s \in Servers, Start(s)
    PROVE  UsersTypes'
  <1> USE DEF fileVars
  <1>1. PICK rows \in SUBSET {u \in Uids : HasRow(u)} :
          /\ IF rows = {u \in Uids : HasRow(u)} THEN Succeed ELSE Fail
          /\ \E pws \in LoadedPws(rows) : m_uid2pw' = [m_uid2pw EXCEPT ![s] = pws]
          /\ unsure' = [unsure EXCEPT ![s] =
                          {UidKey[u] : u \in {u \in Uids : HasRow(u)} \ rows}]
    BY DEF Start
  <1>2. failures' \in 0 .. MaxFailures
    BY <1>1, UsersAssumption DEF Fail, Succeed, UsersTypes
  <1>3. m_uid2pw' \in [Servers -> [UidKeys -> Pws \cup {NoPw}]]
    <2>1. PICK pws \in LoadedPws(rows) : m_uid2pw' = [m_uid2pw EXCEPT ![s] = pws]
      BY <1>1
    <2>2. pws \in [UidKeys -> Pws \cup {NoPw}]
      BY DEF LoadedPws
    <2>3. QED
      BY <2>1, <2>2 DEF UsersTypes
  <1>4. unsure' \in [Servers -> SUBSET UidKeys]
    <2>1. {UidKey[u] : u \in {u \in Uids : HasRow(u)} \ rows} \subseteq UidKeys
      BY UsersAssumption
    <2>2. QED
      BY <1>1, <2>1 DEF UsersTypes
  <1>5. QED
    BY <1>2, <1>3, <1>4 DEF Start, UsersTypes

\* So does its second part, which reads PERMS
LEMMA LoadPermsTypes ==
    ASSUME UsersTypes, NEW s \in Servers, LoadPerms(s)
    PROVE  UsersTypes'
  <1> USE DEF fileVars
  <1>1. PICK rows \in SUBSET PERMS :
          /\ IF rows = PERMS THEN Succeed ELSE Fail
          /\ m_uid2perms' =
               [m_uid2perms EXCEPT ![s] = [k \in UidKeys |-> GrantedIn(rows, k)]]
          /\ \E first \in [{k \in UidKeys : GrantedIn(rows, k) # {}} -> Names] :
               m_perms' = [m_perms EXCEPT ![s] = {NameKey[first[k]] : k \in DOMAIN first}]
          /\ due' = [due EXCEPT ![s] = IF rows = PERMS THEN granted ELSE {}]
    BY DEF LoadPerms
  <1>2. m_uid2perms' \in [Servers -> [UidKeys -> SUBSET Names]]
    <2>1. [k \in UidKeys |-> GrantedIn(rows, k)] \in [UidKeys -> SUBSET Names]
      BY DEF GrantedIn
    <2>2. QED
      BY <1>1, <2>1 DEF UsersTypes
  <1>3. m_perms' \in [Servers -> SUBSET NameKeys]
    <2>1. PICK first \in [{k \in UidKeys : GrantedIn(rows, k) # {}} -> Names] :
            m_perms' = [m_perms EXCEPT ![s] = {NameKey[first[k]] : k \in DOMAIN first}]
      BY <1>1
    <2>2. {NameKey[first[k]] : k \in DOMAIN first} \subseteq NameKeys
      BY UsersAssumption
    <2>3. QED
      BY <2>1, <2>2 DEF UsersTypes
  <1>4. due' \in [Servers -> SUBSET (Uids \X Names)]
    BY <1>1 DEF UsersTypes
  <1>5. failures' \in 0 .. MaxFailures
    BY <1>1, UsersAssumption DEF Fail, Succeed, UsersTypes
  <1>6. todo' \in [Servers -> [users : SUBSET WebUsers, perms : SUBSET WebPerms]]
    BY DEF LoadPerms, UsersTypes
  <1>7. QED
    BY <1>2, <1>3, <1>4, <1>5, <1>6 DEF LoadPerms, UsersTypes

\* Every step keeps the types
LEMMA NextTypes ==
    ASSUME UsersTypes, OpsTyped, UsersNext
    PROVE  UsersTypes'
  <1> USE DEF fileVars, cacheVars, histVars
  <1>1. PICK s \in Servers :
          \/ Start(s) \/ LoadPerms(s) \/ Serve(s) \/ Stop(s)
          \/ WebUser(s) \/ InsertUser(s) \/ WebPerm(s) \/ InsertPerm(s)
          \/ \E uid \in Uids, pw \in Pws : CreateLogon(s, uid, pw)
          \/ \E uid \in Uids, perm \in Names : Grant(s, uid, perm)
    BY DEF UsersNext
  <1>2. CASE Serve(s)
    BY <1>2 DEF Serve, UsersTypes
  <1>3. CASE Stop(s)
    <2>1. /\ m_uid2pw' \in [Servers -> [UidKeys -> Pws \cup {NoPw}]]
          /\ m_uid2perms' \in [Servers -> [UidKeys -> SUBSET Names]]
      <3>1. NoLogons \in [UidKeys -> Pws \cup {NoPw}] /\ NoPerms \in [UidKeys -> SUBSET Names]
        BY DEF NoLogons, NoPerms
      <3>2. QED
        BY <1>3, <3>1 DEF Stop, UsersTypes
    <2>2. todo' \in [Servers -> [users : SUBSET WebUsers, perms : SUBSET WebPerms]]
      <3>1. NoLists \in [users : SUBSET WebUsers, perms : SUBSET WebPerms]
        BY DEF NoLists
      <3>2. QED
        BY <1>3, <3>1 DEF Stop, UsersTypes
    <2>3. QED
      BY <1>3, <2>1, <2>2 DEF Stop, UsersTypes
  <1>4. CASE \E uid \in Uids, pw \in Pws : CreateLogon(s, uid, pw)
    <2>1. PICK uid \in Uids, pw \in Pws : CreateLogon(s, uid, pw)
      BY <1>4
    <2>2. AddUser(s, uid, pw, FALSE)
      BY <2>1 DEF CreateLogon
    <2>3. /\ m_uid2pw' \in [Servers -> [UidKeys -> Pws \cup {NoPw}]]
          /\ failures' \in 0 .. MaxFailures
          /\ unsure' \in [Servers -> SUBSET UidKeys]
      BY <2>2, AddUserTypes
    <2>4. QED
      BY <2>1, <2>3 DEF CreateLogon, UsersTypes
  <1>5. CASE WebUser(s)
    <2>1. PICK w \in todo[s].users :
            /\ AddUser(s, w.uid, w.pw, w.admin)
            /\ todo' = [todo EXCEPT ![s].users = @ \ {w}]
      BY <1>5 DEF WebUser
    <2>2. /\ m_uid2pw' \in [Servers -> [UidKeys -> Pws \cup {NoPw}]]
          /\ failures' \in 0 .. MaxFailures
          /\ unsure' \in [Servers -> SUBSET UidKeys]
      BY <2>1, AddUserTypes, ListedTypes
    <2>3. todo' \in [Servers -> [users : SUBSET WebUsers, perms : SUBSET WebPerms]]
      BY <2>1, ListedTypes DEF UsersTypes
    <2>4. QED
      BY <1>5, <2>2, <2>3 DEF WebUser, UsersTypes
  <1>6. CASE InsertUser(s)
    <2>1. op[s].uid \in Uids /\ op[s].pw \in Pws /\ op[s].admin \in BOOLEAN
      BY <1>6 DEF InsertUser, OpsTyped
    <2>2. USERS' \in [Uids -> Row \cup {NoRow}]
      <3>1. [admin |-> op[s].admin, pw |-> op[s].pw] \in Row
        BY <2>1 DEF Row
      <3>2. QED
        BY <1>6, <2>1, <3>1 DEF InsertUser, UsersTypes
    <2>3. failures' \in 0 .. MaxFailures
      BY <1>6, UsersAssumption DEF InsertUser, Fail, Succeed, UsersTypes
    <2>4. unsure' \in [Servers -> SUBSET UidKeys]
      <3>1. UidKey[op[s].uid] \in UidKeys /\ unsure \in [Servers -> SUBSET UidKeys]
        BY <2>1, UsersAssumption DEF UsersTypes
      <3>2. \/ unsure' = unsure
            \/ unsure' = [unsure EXCEPT ![s] = @ \cup {UidKey[op[s].uid]}]
        BY <1>6 DEF InsertUser
      <3>3. QED
        BY <3>1, <3>2
    <2>5. QED
      BY <1>6, <2>2, <2>3, <2>4 DEF InsertUser, UsersTypes
  <1>7. CASE \E uid \in Uids, perm \in Names : Grant(s, uid, perm)
    BY <1>7, AddPermTypes DEF Grant, UsersTypes
  <1>8. CASE WebPerm(s)
    <2>1. PICK w \in todo[s].perms :
            AddPerm(s, w[1], w[2]) /\ todo' = [todo EXCEPT ![s].perms = @ \ {w}]
      BY <1>8 DEF WebPerm
    <2>2. todo' \in [Servers -> [users : SUBSET WebUsers, perms : SUBSET WebPerms]]
      BY <2>1, ListedTypes DEF UsersTypes
    <2>3. w[1] \in Uids /\ w[2] \in Names
      BY <2>1, ListedTypes
    <2>4. QED
      BY <1>8, <2>1, <2>2, <2>3, AddPermTypes DEF WebPerm, UsersTypes
  <1>9. CASE InsertPerm(s)
    <2>1. op[s].uid \in Uids /\ op[s].perm \in Names
      BY <1>9 DEF InsertPerm, OpsTyped
    <2>2. CASE /\ PERMS' = PERMS \cup {<<op[s].uid, op[s].perm>>} /\ Succeed
               /\ CachePerm(s, op[s].uid, op[s].perm)
               /\ Answered(s, op[s].uid, op[s].perm)
      <3>1. PERMS' \subseteq Uids \X Names
        BY <2>1, <2>2 DEF UsersTypes
      <3>2. QED
        BY <1>9, <2>1, <2>2, <3>1, AddPermTypes DEF InsertPerm, UsersTypes
    <2>3. CASE UNCHANGED <<PERMS, m_uid2perms, m_perms, granted, due>>
      <3>1. failures' \in 0 .. MaxFailures
        BY <1>9, UsersAssumption DEF InsertPerm, Fail, Succeed, UsersTypes
      <3>2. QED
        BY <1>9, <2>3, <3>1 DEF InsertPerm, UsersTypes
    <2>4. QED
      BY <1>9, <2>2, <2>3 DEF InsertPerm
  <1>10. QED
    BY <1>1, <1>2, <1>3, <1>4, <1>5, <1>6, <1>7, <1>8, <1>9, StartTypes, LoadPermsTypes

-----------------------------------------------------------------------------
(* What is on file stays there                                             *)

\* No step takes a permission back or changes a row of USERS: usersAddPerm and
\* usersAdd only insert, and a row is inserted only where there is none
FilesGrow ==
    /\ PERMS \subseteq PERMS'
    /\ \A u \in Uids : HasRow(u) => USERS'[u] = USERS[u]

\* Every step of the servers keeps the rows.
LEMMA NextFiles ==
    ASSUME UsersTypes, OpsTyped, UsersNext
    PROVE  FilesGrow
  <1> USE DEF fileVars
  <1>1. PICK s \in Servers :
          \/ Start(s) \/ LoadPerms(s) \/ Serve(s) \/ Stop(s)
          \/ WebUser(s) \/ InsertUser(s) \/ WebPerm(s) \/ InsertPerm(s)
          \/ \E uid \in Uids, pw \in Pws : CreateLogon(s, uid, pw)
          \/ \E uid \in Uids, perm \in Names : Grant(s, uid, perm)
    BY DEF UsersNext
  <1>2. CASE InsertUser(s)
    <2>1. op[s].uid \in Uids
      BY <1>2 DEF InsertUser, OpsTyped
    <2>2. PERMS' = PERMS
      BY <1>2 DEF InsertUser
    <2>3. \/ USERS' = USERS
          \/ ~ HasRow(op[s].uid)
             /\ USERS' = [USERS EXCEPT ![op[s].uid] = [admin |-> op[s].admin, pw |-> op[s].pw]]
      BY <1>2 DEF InsertUser
    <2>4. \A u \in Uids : HasRow(u) => USERS'[u] = USERS[u]
      BY <2>1, <2>3 DEF UsersTypes
    <2>5. QED
      BY <2>2, <2>4 DEF FilesGrow
  <1>3. CASE InsertPerm(s)
    BY <1>3 DEF InsertPerm, FilesGrow
  <1>4. CASE \/ Start(s) \/ LoadPerms(s) \/ Serve(s) \/ Stop(s) \/ WebUser(s) \/ WebPerm(s)
             \/ \E uid \in Uids, pw \in Pws : CreateLogon(s, uid, pw)
             \/ \E uid \in Uids, perm \in Names : Grant(s, uid, perm)
    <2>1. UNCHANGED <<USERS, PERMS>>
      BY <1>4 DEF Start, LoadPerms, Serve, Stop, WebUser, WebPerm, CreateLogon, Grant
    <2>2. QED
      BY <2>1 DEF FilesGrow
  <1>5. QED
    BY <1>1, <1>2, <1>3, <1>4

-----------------------------------------------------------------------------
(* Permissions                                                             *)

\* An operation that leaves the permissions, on file, in memory and in the
\* history, alone keeps what is said of them
LEMMA PermsUntouched ==
    ASSUME PermsInv, UNCHANGED <<PERMS, m_uid2perms, granted, due>>
    PROVE  PermsInv'
  BY DEF PermsInv, PermsBacked, GrantsFiled, GrantsHonoured

\* The end of a GRANT, answered with its permission on file
LEMMA GrantAnswered ==
    ASSUME UsersTypes, PermsInv, NEW s \in Servers, NEW uid \in Uids, NEW perm \in Names,
           CachePerm(s, uid, perm), Answered(s, uid, perm),
           PERMS \subseteq PERMS', <<uid, perm>> \in PERMS'
    PROVE  PermsInv'
  <1>1. \A t \in Servers, k \in UidKeys :
          \A n : n \in m_uid2perms'[t][k] <=>
                  n \in m_uid2perms[t][k] \/ (t = s /\ k = UidKey[uid] /\ n = perm)
    BY CachePermEffect
  <1>2. \A u \in Uids : UidKey[u] \in UidKeys
    BY UsersAssumption
  <1>3. /\ due \in [Servers -> SUBSET (Uids \X Names)]
        /\ \A t \in Servers : due'[t] = IF t = s THEN due[t] \cup {<<uid, perm>>} ELSE due[t]
    BY DEF Answered, UsersTypes
  <1>4. PermsBacked'
    <2> SUFFICES ASSUME NEW t \in Servers, NEW k \in UidKeys, NEW n \in m_uid2perms'[t][k]
                 PROVE  \E u \in Spellings(k) : <<u, n>> \in PERMS'
      BY DEF PermsBacked, Spellings
    <2>1. CASE n \in m_uid2perms[t][k]
      BY <2>1 DEF PermsInv, PermsBacked
    <2>2. CASE n = perm /\ k = UidKey[uid]
      BY <2>2 DEF Spellings
    <2>3. n \in m_uid2perms[t][k] \/ (n = perm /\ k = UidKey[uid])
      BY <1>1
    <2>4. QED
      BY <2>1, <2>2, <2>3
  <1>5. GrantsFiled'
    BY DEF GrantsFiled, PermsInv, Answered
  <1>6. GrantsHonoured'
    <2> SUFFICES ASSUME NEW t \in Servers, NEW g \in due'[t]
                 PROVE  g[2] \in m_uid2perms'[t][UidKey[g[1]]]
      BY DEF GrantsHonoured
    <2>1. CASE g \in due[t]
      <3>1. g[2] \in m_uid2perms[t][UidKey[g[1]]] /\ g \in Uids \X Names
        BY <1>3, <2>1 DEF PermsInv, GrantsHonoured
      <3>2. UidKey[g[1]] \in UidKeys
        BY <1>2, <3>1
      <3>3. QED
        BY <1>1, <3>1, <3>2
    <2>2. CASE t = s /\ g = <<uid, perm>>
      BY <1>1, <1>2, <2>2
    <2>3. QED
      BY <1>3, <2>1, <2>2
  <1>7. QED
    BY <1>4, <1>5, <1>6 DEF PermsInv

\* usersAddPerm up to its next statement: answered, refused or about to insert
LEMMA AddPermStep ==
    ASSUME UsersTypes, PermsInv, NEW s \in Servers, NEW uid \in Uids, NEW perm \in Names,
           AddPerm(s, uid, perm), UNCHANGED fileVars
    PROVE  PermsInv'
  <1>1. PERMS' = PERMS
    BY DEF fileVars
  <1>2. CASE CachePerm(s, uid, perm) /\ Answered(s, uid, perm) /\ <<uid, perm>> \in PERMS
    BY <1>1, <1>2, GrantAnswered
  <1>3. CASE UNCHANGED <<m_uid2perms, m_perms, granted, due>>
    BY <1>1, <1>3, PermsUntouched
  <1>4. QED
    BY <1>2, <1>3 DEF AddPerm

\* A server that has read PERMS knows what it read
LEMMA LoadPermsStep ==
    ASSUME UsersTypes, PermsInv, NEW s \in Servers, LoadPerms(s)
    PROVE  PermsInv'
  <1>1. PICK rows \in SUBSET PERMS :
          /\ m_uid2perms' =
               [m_uid2perms EXCEPT ![s] = [k \in UidKeys |-> GrantedIn(rows, k)]]
          /\ due' = [due EXCEPT ![s] = IF rows = PERMS THEN granted ELSE {}]
    BY DEF LoadPerms
  <1>2. PERMS' = PERMS /\ granted' = granted
    BY DEF LoadPerms, fileVars
  <1>3. \A t \in Servers, k \in UidKeys :
          m_uid2perms'[t][k] = IF t = s THEN GrantedIn(rows, k) ELSE m_uid2perms[t][k]
    BY <1>1 DEF UsersTypes
  <1>4. PermsBacked'
    <2> SUFFICES ASSUME NEW t \in Servers, NEW k \in UidKeys, NEW n \in m_uid2perms'[t][k]
                 PROVE  \E u \in Spellings(k) : <<u, n>> \in PERMS'
      BY DEF PermsBacked, Spellings
    <2>1. CASE t = s
      BY <1>2, <1>3, <2>1 DEF GrantedIn
    <2>2. CASE t # s
      BY <1>2, <1>3, <2>2 DEF PermsInv, PermsBacked
    <2>3. QED
      BY <2>1, <2>2
  <1>5. GrantsFiled'
    BY <1>2 DEF PermsInv, GrantsFiled
  <1>6. GrantsHonoured'
    <2> SUFFICES ASSUME NEW t \in Servers, NEW g \in due'[t]
                 PROVE  g[2] \in m_uid2perms'[t][UidKey[g[1]]]
      BY DEF GrantsHonoured
    <2>1. CASE t = s
      <3>1. rows = PERMS /\ g \in granted /\ g \in Uids \X Names
        BY <1>1, <2>1 DEF UsersTypes
      <3>2. g[1] \in Uids /\ g[2] \in Names /\ UidKey[g[1]] \in UidKeys
            /\ g = <<g[1], g[2]>>
        BY <3>1, UsersAssumption
      <3>3. <<g[1], g[2]>> \in rows
        BY <3>1, <3>2 DEF PermsInv, GrantsFiled
      <3>4. g[2] \in GrantedIn(rows, UidKey[g[1]])
        BY <3>2, <3>3 DEF GrantedIn, Spellings
      <3>5. QED
        BY <1>3, <2>1, <3>2, <3>4
    <2>2. CASE t # s
      <3>1. g \in due[t] /\ g \in Uids \X Names
        BY <1>1, <2>2 DEF UsersTypes
      <3>2. g[2] \in m_uid2perms[t][UidKey[g[1]]] /\ UidKey[g[1]] \in UidKeys
        BY <3>1, UsersAssumption DEF PermsInv, GrantsHonoured
      <3>3. QED
        BY <1>3, <2>2, <3>2
    <2>3. QED
      BY <2>1, <2>2
  <1>7. QED
    BY <1>4, <1>5, <1>6 DEF PermsInv

\* Every step keeps what is said of the permissions
LEMMA NextPerms ==
    ASSUME UsersTypes, OpsTyped, PermsInv, UsersNext
    PROVE  PermsInv'
  <1> USE DEF fileVars, cacheVars, histVars
  <1>1. PICK s \in Servers :
          \/ Start(s) \/ LoadPerms(s) \/ Serve(s) \/ Stop(s)
          \/ WebUser(s) \/ InsertUser(s) \/ WebPerm(s) \/ InsertPerm(s)
          \/ \E uid \in Uids, pw \in Pws : CreateLogon(s, uid, pw)
          \/ \E uid \in Uids, perm \in Names : Grant(s, uid, perm)
    BY DEF UsersNext
  <1>2. CASE \/ Start(s) \/ Serve(s) \/ WebUser(s) \/ InsertUser(s)
             \/ \E uid \in Uids, pw \in Pws : CreateLogon(s, uid, pw)
    <2>1. UNCHANGED <<PERMS, m_uid2perms, granted, due>>
      BY <1>2 DEF Start, Serve, WebUser, InsertUser, CreateLogon
    <2>2. QED
      BY <2>1, PermsUntouched
  <1>3. CASE Stop(s)
    <2>1. \A t \in Servers :
            /\ t = s => due'[t] = {} /\ m_uid2perms'[t] = NoPerms
            /\ t # s => due'[t] = due[t] /\ m_uid2perms'[t] = m_uid2perms[t]
      BY <1>3 DEF Stop, UsersTypes
    <2>2. PERMS' = PERMS /\ granted' = granted
      BY <1>3 DEF Stop
    <2>3. \A k \in UidKeys : NoPerms[k] = {}
      BY DEF NoPerms
    <2>4. QED
      BY <2>1, <2>2, <2>3 DEF PermsInv, PermsBacked, GrantsFiled, GrantsHonoured
  <1>4. CASE \E uid \in Uids, perm \in Names : Grant(s, uid, perm)
    BY <1>4, AddPermStep DEF Grant
  <1>5. CASE WebPerm(s)
    <2>1. PICK w \in todo[s].perms : AddPerm(s, w[1], w[2])
      BY <1>5 DEF WebPerm
    <2>2. w[1] \in Uids /\ w[2] \in Names /\ UNCHANGED fileVars
      BY <1>5, <2>1, ListedTypes DEF WebPerm
    <2>3. QED
      BY <2>1, <2>2, AddPermStep
  <1>6. CASE InsertPerm(s)
    <2>1. op[s].uid \in Uids /\ op[s].perm \in Names
      BY <1>6 DEF InsertPerm, OpsTyped
    <2>2. CASE /\ PERMS' = PERMS \cup {<<op[s].uid, op[s].perm>>}
               /\ CachePerm(s, op[s].uid, op[s].perm)
               /\ Answered(s, op[s].uid, op[s].perm)
      BY <2>1, <2>2, GrantAnswered
    <2>3. CASE UNCHANGED <<PERMS, m_uid2perms, m_perms, granted, due>>
      BY <2>3, PermsUntouched
    <2>4. QED
      BY <1>6, <2>2, <2>3 DEF InsertPerm
  <1>7. QED
    BY <1>1, <1>2, <1>3, <1>4, <1>5, <1>6, LoadPermsStep

-----------------------------------------------------------------------------
(* Logons                                                                  *)

\* A step that changes the logons of one server keeps those of the others, as no
\* row on file changes
LEMMA LogonsElsewhere ==
    ASSUME UsersTypes, OpsTyped, UsersTypes', LogonsAgree, FilesGrow, NEW s \in Servers,
           \A t \in Servers \ {s} : /\ m_uid2pw'[t] = m_uid2pw[t] /\ op'[t] = op[t]
                                    /\ unsure'[t] = unsure[t],
           \A k \in UidKeys : Agrees(s, k)'
    PROVE  LogonsAgree'
  <1> SUFFICES ASSUME NEW t \in Servers, t # s, NEW k \in UidKeys PROVE Agrees(t, k)'
    BY DEF LogonsAgree
  <1>1. Agrees(t, k)
    BY DEF LogonsAgree
  <1>2. \A u \in Spellings(k) : HasRow(u) => HasRow(u)' /\ USERS'[u] = USERS[u]
    BY DEF FilesGrow, Spellings, HasRow
  <1>3. QED
    BY <1>1, <1>2 DEF Agrees

\* Operations that leave the logons alone
LEMMA LogonsUntouched ==
    ASSUME UsersTypes, OpsTyped, UsersTypes', LogonsAgree, FilesGrow, NEW s \in Servers,
           UNCHANGED <<USERS, m_uid2pw, unsure>>, op[s].at # "insertUser",
           \A t \in Servers \ {s} : op'[t] = op[t]
    PROVE  LogonsAgree'
  <1>1. ASSUME NEW k \in UidKeys PROVE Agrees(s, k)'
    <2>1. Agrees(s, k)
      BY DEF LogonsAgree
    <2>2. QED
      BY <2>1 DEF Agrees, HasRow
  <1>2. QED
    BY <1>1, LogonsElsewhere

\* usersAdd up to its next statement
LEMMA AddUserStep ==
    ASSUME UsersTypes, OpsTyped, UsersTypes', LogonsAgree, FilesGrow, NEW s \in Servers,
           NEW uid \in Uids, NEW pw \in Pws, NEW admin \in BOOLEAN,
           op[s] = NoOp, AddUser(s, uid, pw, admin), USERS' = USERS
    PROVE  LogonsAgree'
  <1>1. UidKey[uid] \in UidKeys
    BY UsersAssumption
  <1>2. CASE Known(s, uid)
    <2>1. UNCHANGED <<m_uid2pw, unsure>> /\ \A t \in Servers \ {s} : op'[t] = op[t]
      BY <1>2 DEF AddUser, Return, Set, OpsTyped
    <2>2. op[s].at # "insertUser"
      BY DEF NoOp
    <2>3. QED
      BY <2>1, <2>2, LogonsUntouched
  <1>3. CASE ~ Known(s, uid)
    <2>1. m_uid2pw' = [m_uid2pw EXCEPT ![s][UidKey[uid]] = pw]
      BY <1>3 DEF AddUser
    <2>2. \/ /\ op'[s] = [at |-> "insertUser", uid |-> uid, pw |-> pw, admin |-> admin]
             /\ unsure' = unsure
          \/ unsure' = [unsure EXCEPT ![s] = @ \cup {UidKey[uid]}]
      BY <1>3 DEF AddUser, Return, Set, OpsTyped
    <2>3. \A t \in Servers \ {s} : op'[t] = op[t]
      BY <1>3 DEF AddUser, Return, Set, OpsTyped
    <2>4. \A t \in Servers \ {s} : m_uid2pw'[t] = m_uid2pw[t] /\ unsure'[t] = unsure[t]
      BY <2>1, <2>2 DEF UsersTypes
    <2>5. ASSUME NEW k \in UidKeys PROVE Agrees(s, k)'
      <3>1. CASE k = UidKey[uid]
        <4>1. m_uid2pw'[s][k] = pw
          BY <1>1, <2>1, <3>1 DEF UsersTypes
        <4>2. CASE op'[s] = [at |-> "insertUser", uid |-> uid, pw |-> pw, admin |-> admin]
          BY <3>1, <4>1, <4>2 DEF Agrees
        <4>3. CASE unsure' = [unsure EXCEPT ![s] = @ \cup {UidKey[uid]}]
          BY <3>1, <4>3 DEF Agrees, UsersTypes
        <4>4. QED
          BY <2>2, <4>2, <4>3
      <3>2. CASE k # UidKey[uid]
        <4>1. m_uid2pw'[s][k] = m_uid2pw[s][k] /\ unsure[s] \subseteq unsure'[s]
          BY <1>1, <2>1, <2>2, <3>2 DEF UsersTypes
        <4>2. Agrees(s, k) /\ op[s].at # "insertUser"
          BY DEF LogonsAgree, NoOp
        <4>3. QED
          BY <4>1, <4>2 DEF Agrees, HasRow
      <3>3. QED
        BY <3>1, <3>2
    <2>6. QED
      BY <2>3, <2>4, <2>5, LogonsElsewhere
  <1>4. QED
    BY <1>2, <1>3

\* The INSERT of usersAdd puts on file what is in memory, or is not trusted
LEMMA InsertUserStep ==
    ASSUME UsersTypes, OpsTyped, UsersTypes', LogonsAgree, FilesGrow, NEW s \in Servers,
           InsertUser(s)
    PROVE  LogonsAgree'
  <1>1. op[s].uid \in Uids /\ op[s].pw \in Pws /\ UidKey[op[s].uid] \in UidKeys
    BY UsersAssumption DEF InsertUser, OpsTyped
  <1>2. m_uid2pw' = m_uid2pw
    BY DEF InsertUser, cacheVars
  <1>3. \/ /\ USERS' = [USERS EXCEPT ![op[s].uid] = [admin |-> op[s].admin, pw |-> op[s].pw]]
           /\ unsure' = unsure
        \/ unsure' = [unsure EXCEPT ![s] = @ \cup {UidKey[op[s].uid]}]
    BY DEF InsertUser
  <1>4. \A t \in Servers \ {s} : op'[t] = op[t] /\ unsure'[t] = unsure[t]
    BY <1>3 DEF InsertUser, Return, Set, OpsTyped, UsersTypes
  <1>5. ASSUME NEW k \in UidKeys PROVE Agrees(s, k)'
    <2>1. Agrees(s, k) /\ unsure[s] \subseteq unsure'[s]
      BY <1>3 DEF LogonsAgree, UsersTypes
    <2>2. \A u \in Spellings(k) : HasRow(u) => HasRow(u)' /\ USERS'[u] = USERS[u]
      BY DEF FilesGrow, Spellings, HasRow
    <2>3. CASE UidKey[op[s].uid] = k /\ op[s].pw = m_uid2pw[s][k]
      <3>1. CASE unsure' = [unsure EXCEPT ![s] = @ \cup {UidKey[op[s].uid]}]
        BY <2>3, <3>1 DEF Agrees, UsersTypes
      <3>2. CASE USERS' = [USERS EXCEPT ![op[s].uid] = [admin |-> op[s].admin,
                                                        pw |-> op[s].pw]]
        <4>1. USERS'[op[s].uid].pw = op[s].pw
          BY <1>1, <3>2 DEF UsersTypes
        <4>2. USERS'[op[s].uid] # NoRow
          BY <1>1, <4>1, UsersAssumption DEF NoRow
        <4>3. op[s].uid \in Spellings(k)
          BY <1>1, <2>3 DEF Spellings
        <4>4. m_uid2pw'[s][k] = USERS'[op[s].uid].pw
          BY <1>2, <2>3, <4>1
        <4>5. \E u \in Spellings(k) : HasRow(u)' /\ m_uid2pw'[s][k] = USERS'[u].pw
          BY <4>2, <4>3, <4>4 DEF HasRow
        <4>6. QED
          BY <4>5 DEF Agrees
      <3>3. QED
        BY <1>3, <3>1, <3>2
    <2>4. CASE ~ (UidKey[op[s].uid] = k /\ op[s].pw = m_uid2pw[s][k])
      BY <1>2, <2>1, <2>2, <2>4 DEF Agrees
    <2>5. QED
      BY <2>3, <2>4
  <1>6. QED
    BY <1>2, <1>4, <1>5, LogonsElsewhere

\* A server that starts takes its passwords from the rows
LEMMA StartStep ==
    ASSUME UsersTypes, OpsTyped, UsersTypes', LogonsAgree, FilesGrow, NEW s \in Servers,
           Start(s)
    PROVE  LogonsAgree'
  <1>0. PICK rows \in SUBSET {u \in Uids : HasRow(u)} :
          \E pws \in LoadedPws(rows) : m_uid2pw' = [m_uid2pw EXCEPT ![s] = pws]
    BY DEF Start
  <1>1. PICK pws \in LoadedPws(rows) : m_uid2pw' = [m_uid2pw EXCEPT ![s] = pws]
    BY <1>0
  <1>2. UNCHANGED <<USERS, op>>
    BY DEF Start, fileVars
  <1>3. \A t \in Servers \ {s} : m_uid2pw'[t] = m_uid2pw[t] /\ unsure'[t] = unsure[t]
    BY <1>1 DEF Start, UsersTypes
  <1>4. ASSUME NEW k \in UidKeys PROVE Agrees(s, k)'
    <2>1. m_uid2pw'[s][k] = pws[k]
      BY <1>1 DEF UsersTypes
    <2>2. pws[k] # NoPw => \E u \in Spellings(k) \cap rows : pws[k] = USERS[u].pw
      BY DEF LoadedPws
    <2>3. QED
      BY <1>2, <2>1, <2>2 DEF Agrees, HasRow
  <1>5. QED
    BY <1>2, <1>3, <1>4, LogonsElsewhere

\* Every step keeps what is said of the logons
LEMMA NextLogons ==
    ASSUME UsersTypes, OpsTyped, UsersTypes', LogonsAgree, UsersNext
    PROVE  LogonsAgree'
  <1> USE DEF fileVars, cacheVars, histVars
  <1>0. FilesGrow
    BY NextFiles
  <1>1. PICK s \in Servers :
          \/ Start(s) \/ LoadPerms(s) \/ Serve(s) \/ Stop(s)
          \/ WebUser(s) \/ InsertUser(s) \/ WebPerm(s) \/ InsertPerm(s)
          \/ \E uid \in Uids, pw \in Pws : CreateLogon(s, uid, pw)
          \/ \E uid \in Uids, perm \in Names : Grant(s, uid, perm)
    BY DEF UsersNext
  <1>2. CASE LoadPerms(s) \/ Serve(s)
    <2>1. UNCHANGED <<USERS, m_uid2pw, op, unsure>>
      BY <1>2 DEF LoadPerms, Serve
    <2>2. QED
      BY <2>1 DEF LogonsAgree, Agrees, HasRow
  <1>3. CASE \/ WebPerm(s) \/ InsertPerm(s)
             \/ \E uid \in Uids, perm \in Names : Grant(s, uid, perm)
    <2>1. UNCHANGED <<USERS, m_uid2pw, unsure>> /\ op[s].at # "insertUser"
      BY <1>3 DEF WebPerm, InsertPerm, Grant, Ready, NoOp
    <2>2. \A t \in Servers \ {s} : op'[t] = op[t]
      BY <1>3 DEF WebPerm, InsertPerm, Grant, AddPerm, Return, Set, OpsTyped
    <2>3. QED
      BY <1>0, <2>1, <2>2, LogonsUntouched
  <1>4. CASE Stop(s)
    <2>1. /\ m_uid2pw' = [m_uid2pw EXCEPT ![s] = NoLogons]
          /\ op' = [op EXCEPT ![s] = NoOp]
          /\ unsure' = [unsure EXCEPT ![s] = {}]
      BY <1>4 DEF Stop, Return, Set
    <2>2. \A t \in Servers \ {s} : /\ m_uid2pw'[t] = m_uid2pw[t] /\ op'[t] = op[t]
                                   /\ unsure'[t] = unsure[t]
      BY <2>1 DEF OpsTyped, UsersTypes
    <2>3. ASSUME NEW k \in UidKeys PROVE Agrees(s, k)'
      BY <2>1 DEF Agrees, NoLogons, UsersTypes
    <2>4. QED
      BY <1>0, <2>2, <2>3, LogonsElsewhere
  <1>5. CASE \E uid \in Uids, pw \in Pws : CreateLogon(s, uid, pw)
    BY <1>0, <1>5, AddUserStep DEF CreateLogon, Ready
  <1>6. CASE WebUser(s)
    <2>1. PICK w \in todo[s].users : AddUser(s, w.uid, w.pw, w.admin)
      BY <1>6 DEF WebUser
    <2>2. /\ w.uid \in Uids /\ w.pw \in Pws /\ w.admin \in BOOLEAN
          /\ op[s] = NoOp /\ USERS' = USERS
      BY <1>6, <2>1, ListedTypes DEF WebUser
    <2>3. QED
      BY <1>0, <2>1, <2>2, AddUserStep
  <1>7. QED
    BY <1>0, <1>1, <1>2, <1>3, <1>4, <1>5, <1>6, StartStep, InsertUserStep

-----------------------------------------------------------------------------
(* The invariant                                                           *)

\* The invariant holds of a new database on which no server runs
LEMMA InitInv == UsersInit => UsersInv /\ op \in [Servers -> UserOp]
  <1> SUFFICES ASSUME UsersInit PROVE UsersInv /\ op \in [Servers -> UserOp]
    OBVIOUS
  <1>1. UsersTypes
    <2>1. [admin |-> TRUE, pw |-> SAPw] \in Row
      BY UsersAssumption DEF Row
    <2>2. USERS \in [Uids -> Row \cup {NoRow}]
      BY <2>1 DEF UsersInit
    <2>3. todo \in [Servers -> [users : SUBSET WebUsers, perms : SUBSET WebPerms]]
      BY DEF UsersInit, NoLists
    <2>4. m_uid2pw \in [Servers -> [UidKeys -> Pws \cup {NoPw}]]
      BY DEF UsersInit, NoLogons
    <2>5. m_uid2perms \in [Servers -> [UidKeys -> SUBSET Names]]
      BY DEF UsersInit, NoPerms
    <2>6. /\ PERMS \subseteq Uids \X Names /\ granted \subseteq Uids \X Names
          /\ m_perms \in [Servers -> SUBSET NameKeys]
          /\ due \in [Servers -> SUBSET (Uids \X Names)]
          /\ unsure \in [Servers -> SUBSET UidKeys]
      BY DEF UsersInit
    <2>7. phase \in [Servers -> {"down", "perms", "lists", "serving"}]
      BY DEF UsersInit
    <2>8. failures \in 0 .. MaxFailures
      BY UsersAssumption DEF UsersInit
    <2>9. QED
      BY <2>2, <2>3, <2>4, <2>5, <2>6, <2>7, <2>8 DEF UsersTypes
  <1>2. op \in [Servers -> UserOp] /\ OpsTyped
    BY KeptOps DEF UsersInit, OpsTyped, NoOp
  <1>3. PermsInv
    BY DEF UsersInit, PermsInv, PermsBacked, GrantsFiled, GrantsHonoured, NoPerms
  <1>4. LogonsAgree
    BY DEF UsersInit, LogonsAgree, Agrees, NoLogons
  <1>5. QED
    BY <1>1, <1>2, <1>3, <1>4 DEF UsersInv

\* Every step keeps the invariant
LEMMA NextInv == UsersInv /\ UsersNext => UsersInv'
  BY NextOps, NextTypes, NextPerms, NextLogons DEF UsersInv

\* What happens elsewhere keeps it if it leaves the operations of usersAdd and
\* of usersAddPerm, and what they work on, alone
LEMMA StutterInv ==
    ASSUME UsersInv, UNCHANGED <<fileVars, cacheVars, phase, todo, histVars>>,
           failures' \in 0 .. MaxFailures, DOMAIN op' = Servers,
           \A s \in Servers : op'[s] = op[s] \/ {op[s].at, op'[s].at}
                                                  \cap {"insertUser", "insertPerm"} = {}
    PROVE  UsersInv'
  <1> USE DEF fileVars, cacheVars, histVars
  <1>1. UsersTypes'
    BY DEF UsersInv, UsersTypes
  <1>2. OpsTyped'
    BY DEF UsersInv, OpsTyped
  <1>3. PermsInv'
    BY PermsUntouched DEF UsersInv
  <1>4. LogonsAgree'
    <2> SUFFICES ASSUME NEW s \in Servers, NEW k \in UidKeys PROVE Agrees(s, k)'
      BY DEF LogonsAgree
    <2>1. Agrees(s, k)
      BY DEF UsersInv, LogonsAgree
    <2>2. op'[s] = op[s] \/ op[s].at # "insertUser"
      OBVIOUS
    <2>3. QED
      BY <2>1, <2>2 DEF Agrees, HasRow
  <1>5. QED
    BY <1>1, <1>2, <1>3, <1>4 DEF UsersInv

\* What the invariant says of a logon
LEMMA LogonsFollow == UsersInv => LogonsBacked /\ PasswordsAgree
  <1> SUFFICES ASSUME UsersInv PROVE LogonsBacked /\ PasswordsAgree
    OBVIOUS
  <1>1. \A s \in Servers, k \in UidKeys : Agrees(s, k)
    BY DEF UsersInv, LogonsAgree
  <1>2. LogonsBacked
    BY <1>1 DEF LogonsBacked, Agrees
  <1>3. PasswordsAgree
    <2> SUFFICES ASSUME NEW s \in Servers, NEW u \in Uids, Known(s, u)
                 PROVE  \/ \E v \in Spellings(UidKey[u]) : m_uid2pw[s][UidKey[u]] = USERS[v].pw
                        \/ op[s].at = "insertUser" /\ UidKey[op[s].uid] = UidKey[u]
                        \/ UidKey[u] \in unsure[s]
      BY DEF PasswordsAgree
    <2>1. UidKey[u] \in UidKeys
      BY UsersAssumption
    <2>2. Agrees(s, UidKey[u])
      BY <1>1, <2>1
    <2>3. QED
      BY <2>2 DEF Agrees, Known
  <1>4. QED
    BY <1>2, <1>3

\* The inductive invariant holds throughout
THEOREM UsersInvariance == UsersSpec => [](UsersInv /\ UsersTypeOK)
  <1>1. UsersInit => UsersInv /\ UsersTypeOK
    BY InitInv DEF UsersInv, UsersTypeOK
  <1>2. UsersInv /\ UsersTypeOK /\ [UsersNext]_userVars => (UsersInv /\ UsersTypeOK)'
    <2>1. CASE UsersNext
      BY <2>1, NextInv, NextOps DEF UsersInv, UsersTypeOK
    <2>2. ASSUME UNCHANGED userVars, UsersInv, UsersTypeOK
          PROVE  UsersInv' /\ UsersTypeOK'
      <3>1. UNCHANGED <<fileVars, cacheVars, phase, op, todo, failures, histVars>>
        BY <2>2 DEF userVars, runVars
      <3>2. UsersInv'
        BY <2>2, <3>1, StutterInv DEF UsersInv, UsersTypes, OpsTyped
      <3>3. QED
        BY <2>2, <3>1, <3>2 DEF UsersInv, UsersTypeOK
    <2>3. QED
      BY <2>1, <2>2
  <1>3. QED
    BY <1>1, <1>2, PTL DEF UsersSpec

\* Every state of the servers is well typed
THEOREM UsersTypeCorrect == UsersSpec => []UsersTypeOK
  BY UsersInvariance, PTL

\* No restart takes back a permission that a server knows (usersAddPerm)
THEOREM PermsStayBacked == UsersSpec => []PermsBacked
  <1>1. UsersInv => PermsBacked
    BY DEF UsersInv, PermsInv
  <1>2. QED
    BY <1>1, UsersInvariance, PTL

\* A server honours the grants that were answered before it read PERMS or by
\* itself (usersNew, usersAddPerm)
THEOREM GrantsStayHonoured == UsersSpec => []GrantsHonoured
  <1>1. UsersInv => GrantsHonoured
    BY DEF UsersInv, PermsInv
  <1>2. QED
    BY <1>1, UsersInvariance, PTL

\* A logon that a server accepts is on file, is about to be or could not be put
\* there (usersAdd)
THEOREM LogonsStayBacked == UsersSpec => []LogonsBacked
  BY LogonsFollow, UsersInvariance, PTL

\* A server accepts the password on file, but for the keys it is unsure of: a
\* second CREATE LOGON changes neither the table nor the row (usersAdd)
THEOREM PasswordsStayAgreed == UsersSpec => []PasswordsAgree
  BY LogonsFollow, UsersInvariance, PTL

\* No server ever takes a permission off the file or changes a row of USERS,
\* its own or another server's
THEOREM FilesOnlyGrow == UsersSpec => [][FilesGrow]_userVars
  <1>1. UsersInv /\ [UsersNext]_userVars => [FilesGrow]_userVars
    BY NextFiles DEF UsersInv
  <1>2. QED
    BY <1>1, UsersInvariance, PTL DEF UsersSpec

-----------------------------------------------------------------------------
(* Procedures: the invariants                                              *)

\* The steps of a server that are about procedures
StmtStep(s) ==
    \/ ReplaceProc(s) \/ SaveProc(s) \/ DropRow(s) \/ LoadProc(s) \/ ListProcs(s)
    \/ \E n \in Names :
         \/ ShowProc(s, n)
         \/ \E uid \in Uids :
              \/ Exec(s, uid, n) \/ DropProc(s, uid, n)
              \/ \E t \in Texts : CreateProc(s, uid, n, t)

\* A statement in a table was saved under a spelling of its key, or its CREATE is
\* about to save it
StmtsSaved ==
    \A s \in Servers, k \in NameKeys :
        m_stmts[s][k].is = "stmt" =>
            \/ \E m \in Names : NameKey[m] = k /\ <<m, m_stmts[s][k].text>> \in saved
            \/ /\ op[s].at = "save" /\ NameKey[op[s].name] = k
               /\ op[s].text = m_stmts[s][k].text

\* The history has every row that is there
RowsSaved == \A n \in Names : SPROCS[n] # NoText => <<n, SPROCS[n]>> \in saved

\* An administrator on file, or a user with the permission on file
Authorised(uid, n) ==
    \/ USERS[uid].admin
    \/ \E u \in Spellings(UidKey[uid]) : <<u, n>> \in PERMS

\* updateProcedure executes for the user that stmtmgrExec has let through
LoadsAuthorised ==
    \A s \in Servers : op[s].at = "load" => Authorised(op[s].uid, op[s].name)

\* The inductive invariants, of any number of servers
SavedInv      == StmtsSaved /\ RowsSaved /\ RunsSaved
AuthorisedInv == LoadsAuthorised /\ RunsAuthorised

-----------------------------------------------------------------------------
(* The operations                                                          *)

\* The operations that the steps store are operations of a server.
LEMMA StmtOps ==
    /\ NoOp \in UserOp
    /\ \A n \in Names, t \in Texts : [at |-> "save", name |-> n, text |-> t] \in StmtOp
    /\ \A n \in Names, t \in Texts : [at |-> "replace", name |-> n, text |-> t] \in StmtOp
    /\ \A n \in Names : [at |-> "dropRow", name |-> n] \in StmtOp
    /\ \A n \in Names, uid \in Uids : [at |-> "load", name |-> n, uid |-> uid] \in StmtOp
  BY DEF StmtOp, UserOp, NoOp

\* What an operation keeps, by the place where it is
LEMMA OpFields ==
    ASSUME TypeOK, NEW s \in Servers
    PROVE  /\ op[s].at \in {"save", "replace"} =>
                /\ op[s].name \in Names /\ op[s].text \in Texts
                /\ op[s] = [at |-> op[s].at, name |-> op[s].name, text |-> op[s].text]
           /\ op[s].at = "dropRow" => op[s].name \in Names
           /\ op[s].at = "load" => op[s].name \in Names /\ op[s].uid \in Uids
  <1>1. op[s] \in UserOp \cup StmtOp
    BY DEF TypeOK
  <1>2. CASE op[s] = NoOp
    BY <1>2 DEF NoOp
  <1>3. CASE \/ op[s] \in [at : {"insertUser"}, uid : Uids, pw : Pws, admin : BOOLEAN]
             \/ op[s] \in [at : {"insertPerm"}, uid : Uids, perm : Names]
    BY <1>3
  <1>4. CASE op[s] \in [at : {"replace", "save"}, name : Names, text : Texts]
    BY <1>4
  <1>5. CASE op[s] \in [at : {"dropRow"}, name : Names]
    BY <1>5
  <1>6. CASE op[s] \in [at : {"load"}, name : Names, uid : Uids]
    BY <1>6
  <1>7. QED
    BY <1>1, <1>2, <1>3, <1>4, <1>5, <1>6 DEF UserOp, StmtOp

\* The operations of the statement manager satisfy what the permission table
\* asks of operations.
LEMMA OpsAreTyped == TypeOK => OpsTyped
  <1> SUFFICES ASSUME TypeOK, NEW s \in Servers
               PROVE  /\ op[s].at = "insertUser" =>
                           op[s].uid \in Uids /\ op[s].pw \in Pws /\ op[s].admin \in BOOLEAN
                      /\ op[s].at = "insertPerm" => op[s].uid \in Uids /\ op[s].perm \in Names
    BY DEF TypeOK, OpsTyped
  <1>1. op[s] \in UserOp \/ op[s] \in StmtOp
    BY DEF TypeOK
  <1>2. CASE op[s] \in StmtOp
    <2>1. op[s].at \in {"replace", "save", "dropRow", "load"}
      BY <1>2 DEF StmtOp
    <2>2. QED
      BY <2>1
  <1>3. CASE op[s] \in UserOp
    BY <1>3 DEF UserOp, NoOp
  <1>4. QED
    BY <1>1, <1>2, <1>3

\* An entry of the table of statements
LEMMA Entries ==
    /\ Absent \in Entry /\ Null \in Entry /\ Freed \in Entry
    /\ \A n \in Names, t \in Texts : Stmt(n, t) \in Entry
    /\ \A e \in Entry : e.is = "stmt" => e = Stmt(e.name, e.text)
                                         /\ e.name \in Names /\ e.text \in Texts
    /\ Absent.is # "stmt" /\ Null.is # "stmt" /\ Freed.is # "stmt"
    /\ \A n, t : Stmt(n, t).is = "stmt" /\ Stmt(n, t).name = n /\ Stmt(n, t).text = t
  BY DEF Entry, Absent, Null, Freed, Stmt

\* A step on procedures is one of the server's own, leaves the users alone and
\* does not come in the middle of usersAdd or usersAddPerm
LEMMA StmtStepUsers ==
    ASSUME TypeOK, NEW s \in Servers, StmtStep(s)
    PROVE  /\ UNCHANGED <<fileVars, cacheVars, phase, todo, histVars>>
           /\ failures' \in 0 .. MaxFailures
           /\ op[s].at \notin {"insertUser", "insertPerm"}
           /\ \/ op' = op
              \/ \E o \in StmtOp \cup {NoOp} : op' = [op EXCEPT ![s] = o]
  <1> USE DEF onlyStmts
  <1>0. UsersTypes
    BY DEF TypeOK
  <1>1. Fail \/ Succeed => failures' \in 0 .. MaxFailures
    BY <1>0, UsersAssumption DEF Fail, Succeed, UsersTypes
  <1>2. ASSUME NEW n \in Names, NEW uid \in Uids,
               \/ Exec(s, uid, n) \/ DropProc(s, uid, n) \/ ShowProc(s, n)
               \/ \E t \in Texts : CreateProc(s, uid, n, t)
        PROVE  /\ UNCHANGED <<fileVars, cacheVars, phase, todo, histVars, failures>>
               /\ op[s] = NoOp
               /\ op' = op \/ \E o \in StmtOp : op' = [op EXCEPT ![s] = o]
    BY <1>2, StmtOps DEF Exec, DropProc, ShowProc, CreateProc, Ready, Set
  <1>3. CASE \/ ReplaceProc(s) \/ SaveProc(s) \/ DropRow(s) \/ LoadProc(s)
    <2>1. UNCHANGED <<fileVars, cacheVars, phase, todo, histVars>>
      BY <1>3 DEF ReplaceProc, SaveProc, DropRow, LoadProc
    <2>2. Fail \/ Succeed
      BY <1>3 DEF ReplaceProc, SaveProc, DropRow, LoadProc
    <2>3. op[s].at \notin {"insertUser", "insertPerm"}
      BY <1>3 DEF ReplaceProc, SaveProc, DropRow, LoadProc
    <2>4. \E o \in StmtOp \cup {NoOp} : op' = [op EXCEPT ![s] = o]
      <3>1. CASE ReplaceProc(s)
        <4>1. op' = [op EXCEPT ![s] = [op[s] EXCEPT !.at = "save"]] /\ op[s].at = "replace"
          BY <3>1 DEF ReplaceProc, Set
        <4>2. op[s] \in [at : {"replace", "save"}, name : Names, text : Texts]
          <5>1. /\ op[s].name \in Names /\ op[s].text \in Texts
                /\ op[s] = [at |-> op[s].at, name |-> op[s].name, text |-> op[s].text]
            BY <4>1, OpFields
          <5>2. QED
            BY <4>1, <5>1
        <4>3. [op[s] EXCEPT !.at = "save"] \in StmtOp
          BY <4>2 DEF StmtOp
        <4>4. QED
          BY <4>1, <4>3
      <3>2. CASE SaveProc(s) \/ DropRow(s) \/ LoadProc(s)
        BY <3>2 DEF SaveProc, DropRow, LoadProc, Return, Set
      <3>3. QED
        BY <1>3, <3>1, <3>2
    <2>5. QED
      BY <1>1, <2>1, <2>2, <2>3, <2>4
  <1>4. CASE ListProcs(s)
    <2>1. UNCHANGED <<fileVars, cacheVars, phase, todo, histVars>> /\ op' = op /\ op[s] = NoOp
      BY <1>4 DEF ListProcs, Ready
    <2>2. Fail \/ Succeed
      BY <1>4 DEF ListProcs
    <2>3. QED
      BY <1>1, <2>1, <2>2 DEF NoOp
  <1>5. CASE \E n \in Names, uid \in Uids :
               \/ Exec(s, uid, n) \/ DropProc(s, uid, n) \/ ShowProc(s, n)
               \/ \E t \in Texts : CreateProc(s, uid, n, t)
    <2>1. /\ UNCHANGED <<fileVars, cacheVars, phase, todo, histVars, failures>>
          /\ op[s] = NoOp
          /\ op' = op \/ \E o \in StmtOp : op' = [op EXCEPT ![s] = o]
      BY <1>2, <1>5
    <2>2. QED
      BY <1>0, <2>1 DEF NoOp, UsersTypes
  <1>6. SA \in Uids
    BY UsersAssumption
  <1>7. QED
    BY <1>3, <1>4, <1>5, <1>6 DEF StmtStep

UserPlaces == {"none", "insertUser", "insertPerm"}

\* A step of the users comes only where no request on procedures is going on
LEMMA UserStepOps ==
    ASSUME TypeOK, NEW s \in Servers, UserStep(s)
    PROVE  \A t \in Servers : \/ op'[t] = op[t]
                              \/ op[t].at \in UserPlaces /\ op'[t].at \in UserPlaces
  <1>1. op \in [Servers -> UserOp \cup StmtOp]
    BY DEF TypeOK
  <1>2. CASE Start(s) \/ LoadPerms(s) \/ Serve(s)
    BY <1>2 DEF Start, LoadPerms, Serve
  <1>3. CASE InsertUser(s) \/ InsertPerm(s)
    BY <1>1, <1>3 DEF InsertUser, InsertPerm, Return, Set, NoOp, UserPlaces
  <1>4. ASSUME NEW uid, NEW pw, NEW admin, AddUser(s, uid, pw, admin), op[s] = NoOp
        PROVE  \A t \in Servers : \/ op'[t] = op[t]
                                  \/ op[t].at \in UserPlaces /\ op'[t].at \in UserPlaces
    BY <1>1, <1>4 DEF AddUser, Return, Set, NoOp, UserPlaces
  <1>5. ASSUME NEW uid, NEW perm, AddPerm(s, uid, perm), op[s] = NoOp
        PROVE  \A t \in Servers : \/ op'[t] = op[t]
                                  \/ op[t].at \in UserPlaces /\ op'[t].at \in UserPlaces
    BY <1>1, <1>5 DEF AddPerm, Return, Set, NoOp, UserPlaces
  <1>6. CASE WebUser(s)
    BY <1>4, <1>6 DEF WebUser
  <1>7. CASE WebPerm(s)
    BY <1>5, <1>7 DEF WebPerm
  <1>8. CASE UserRequest(s)
    BY <1>4, <1>5, <1>8 DEF UserRequest, CreateLogon, Grant, Ready
  <1>9. QED
    BY <1>2, <1>3, <1>6, <1>7, <1>8 DEF UserStep

\* Every step is one of the users', with the statements left alone or, at the end
\* of a server, forgotten, or one on procedures
LEMMA Steps ==
    ASSUME TypeOK, Next
    PROVE  \/ /\ UsersNext /\ UNCHANGED stmtVars
              /\ \A t \in Servers :
                   \/ op'[t] = op[t]
                   \/ op[t].at \in UserPlaces /\ op'[t].at \in UserPlaces
           \/ /\ UsersNext /\ UNCHANGED <<SPROCS, saved, answer>>
              /\ \E s \in Servers : /\ op' = [op EXCEPT ![s] = NoOp]
                                    /\ m_stmts' = [m_stmts EXCEPT ![s] = NoEntries]
           \/ \E s \in Servers : StmtStep(s)
  <1>1. PICK s \in Servers : UserStep(s) \/ Exit(s) \/ StmtStep(s)
    BY DEF Next, StmtStep
  <1>2. CASE UserStep(s)
    <2>1. CASE UserRequest(s)
      <3>1. Grantees \subseteq Uids
        BY TextsAssumption
      <3>2. \/ \E u \in Uids, pw \in Pws : CreateLogon(s, u, pw)
            \/ \E u \in Uids, n \in Names : Grant(s, u, n)
        BY <2>1, <3>1 DEF UserRequest
      <3>3. UsersNext
        BY <3>2 DEF UsersNext
      <3>4. QED
        BY <1>2, <3>3, UserStepOps DEF UserStep
    <2>2. CASE ~ UserRequest(s)
      <3>1. UsersNext
        BY <1>2, <2>2 DEF UserStep, UsersNext
      <3>2. QED
        BY <1>2, <3>1, UserStepOps DEF UserStep
    <2>3. QED
      BY <2>1, <2>2
  <1>3. CASE Exit(s)
    BY <1>3 DEF Exit, UsersNext, Stop, Return, Set
  <1>4. QED
    BY <1>1, <1>2, <1>3

\* Every step keeps the invariant of the users, and the files of users only grow
LEMMA UsersKept ==
    ASSUME TypeOK, UsersInv, Next
    PROVE  /\ UsersInv' /\ FilesGrow
           /\ op' \in [Servers -> UserOp \cup StmtOp]
  <1>1. CASE UsersNext
    <2>1. op \in [Servers -> UserOp \cup StmtOp]
      BY DEF TypeOK
    <2>2. QED
      BY <1>1, <2>1, NextInv, NextOps, NextFiles DEF UsersInv
  <1>2. ASSUME NEW s \in Servers, StmtStep(s)
        PROVE  /\ UsersInv' /\ FilesGrow
               /\ op' \in [Servers -> UserOp \cup StmtOp]
    <2>1. /\ UNCHANGED <<fileVars, cacheVars, phase, todo, histVars>>
          /\ failures' \in 0 .. MaxFailures
          /\ op[s].at \notin {"insertUser", "insertPerm"}
          /\ \/ op' = op
             \/ \E o \in StmtOp \cup {NoOp} : op' = [op EXCEPT ![s] = o]
      BY <1>2, StmtStepUsers
    <2>2. op \in [Servers -> UserOp \cup StmtOp]
      BY DEF TypeOK
    <2>3. FilesGrow
      BY <2>1 DEF FilesGrow, fileVars
    <2>4. CASE op' = op
      BY <2>1, <2>2, <2>3, <2>4, StutterInv
    <2>5. CASE \E o \in StmtOp \cup {NoOp} : op' = [op EXCEPT ![s] = o]
      <3>1. PICK o \in StmtOp \cup {NoOp} : op' = [op EXCEPT ![s] = o]
        BY <2>5
      <3>2. o.at \notin {"insertUser", "insertPerm"}
        BY DEF StmtOp, NoOp
      <3>3. op' \in [Servers -> UserOp \cup StmtOp]
        BY <2>2, <3>1, StmtOps
      <3>4. \A t \in Servers : op'[t] = IF t = s THEN o ELSE op[t]
        BY <2>2, <3>1
      <3>5. \A t \in Servers : op'[t] = op[t] \/ {op[t].at, op'[t].at}
                                                   \cap {"insertUser", "insertPerm"} = {}
        BY <2>1, <3>2, <3>4
      <3>6. QED
        BY <2>1, <2>3, <3>3, <3>5, StutterInv
    <2>6. QED
      BY <2>1, <2>4, <2>5
  <1>3. QED
    BY <1>1, <1>2, Steps

-----------------------------------------------------------------------------
(* What the operations do to the tables and to the answers                 *)

Results == Texts \cup {"none", "not found", "unavailable", "undefined"}

\* One entry of one server's table
LEMMA PutEffect ==
    ASSUME TypeOK, NEW s \in Servers, NEW n \in Names, NEW e \in Entry, Put(s, n, e)
    PROVE  /\ m_stmts' \in [Servers -> [NameKeys -> Entry]]
           /\ \A t \in Servers, k \in NameKeys :
                m_stmts'[t][k] = IF t = s /\ k = NameKey[n] THEN e ELSE m_stmts[t][k]
  <1>1. NameKey[n] \in NameKeys /\ m_stmts \in [Servers -> [NameKeys -> Entry]]
    BY UsersAssumption DEF TypeOK
  <1>2. m_stmts' = [m_stmts EXCEPT ![s][NameKey[n]] = e]
    BY DEF Put
  <1>3. QED
    BY <1>1, <1>2

\* One answer of one server
LEMMA ReplyEffect ==
    ASSUME TypeOK, NEW s \in Servers, NEW n \in Names, NEW uid \in Uids \cup {"none"},
           NEW r \in Results, Reply(s, uid, n, r)
    PROVE  /\ answer' \in [Servers -> [name : Names \cup {"none"}, uid : Uids \cup {"none"},
                                       result : Results, turn : BOOLEAN]]
           /\ answer'[s].name = n /\ answer'[s].uid = uid /\ answer'[s].result = r
           /\ answer'[s].turn = ~ answer[s].turn
           /\ \A t \in Servers \ {s} : answer'[t] = answer[t]
  <1> DEFINE a == [name |-> n, uid |-> uid, result |-> r, turn |-> ~ answer[s].turn]
             A == [name : Names \cup {"none"}, uid : Uids \cup {"none"},
                   result : Results, turn : BOOLEAN]
  <1>1. answer \in [Servers -> A]
    BY DEF TypeOK, Results
  <1>2. answer' = [answer EXCEPT ![s] = a]
    BY DEF Reply
  <1>3. a \in A
    OBVIOUS
  <1> HIDE DEF A
  <1>4. answer' \in [Servers -> A] /\ answer'[s] = a
        /\ \A t \in Servers \ {s} : answer'[t] = answer[t]
    BY <1>1, <1>2, <1>3
  <1>5. a.name = n /\ a.uid = uid /\ a.result = r /\ a.turn = ~ answer[s].turn
    OBVIOUS
  <1>6. QED
    BY <1>4, <1>5 DEF A

\* PROCLIST fills a table with rows on file, each under its key
LEMMA ListEffect ==
    ASSUME TypeOK, NEW s \in Servers, ListProcs(s)
    PROVE  /\ m_stmts' \in [Servers -> [NameKeys -> Entry]]
           /\ \A t \in Servers \ {s}, k \in NameKeys : m_stmts'[t][k] = m_stmts[t][k]
           /\ \A k \in NameKeys :
                \/ m_stmts'[s][k] = Absent
                \/ \E n \in Names : /\ SPROCS[n] # NoText /\ NameKey[n] = k
                                    /\ m_stmts'[s][k] = Stmt(n, SPROCS[n])
  <1>1. PICK rows \in SUBSET {n \in Names : SPROCS[n] # NoText} :
          \E entries \in [NameKeys -> {Absent} \cup {Stmt(n, SPROCS[n]) : n \in rows}] :
            /\ \A k \in NameKeys :
                 IF \E n \in rows : NameKey[n] = k
                 THEN entries[k] # Absent /\ NameKey[entries[k].name] = k
                 ELSE entries[k] = Absent
            /\ m_stmts' = [m_stmts EXCEPT ![s] = entries]
    BY DEF ListProcs
  <1>2. PICK entries \in [NameKeys -> {Absent} \cup {Stmt(n, SPROCS[n]) : n \in rows}] :
            /\ \A k \in NameKeys :
                 IF \E n \in rows : NameKey[n] = k
                 THEN entries[k] # Absent /\ NameKey[entries[k].name] = k
                 ELSE entries[k] = Absent
            /\ m_stmts' = [m_stmts EXCEPT ![s] = entries]
    BY <1>1
  <1>3. \A n \in rows : n \in Names /\ SPROCS[n] # NoText /\ SPROCS[n] \in Texts
    BY DEF TypeOK
  <1>4. \A n \in rows : Stmt(n, SPROCS[n]) \in Entry /\ Stmt(n, SPROCS[n]).name = n
    BY <1>3, Entries
  <1>5. ASSUME NEW k \in NameKeys
        PROVE  /\ entries[k] \in Entry
               /\ \/ entries[k] = Absent
                  \/ \E n \in Names : /\ SPROCS[n] # NoText /\ NameKey[n] = k
                                      /\ entries[k] = Stmt(n, SPROCS[n])
    <2>1. CASE entries[k] = Absent
      BY <2>1, Entries
    <2>2. CASE entries[k] # Absent
      <3>1. PICK n \in rows : entries[k] = Stmt(n, SPROCS[n])
        BY <2>2
      <3>2. NameKey[entries[k].name] = k
        BY <1>2, <2>2
      <3>3. QED
        BY <1>3, <1>4, <3>1, <3>2
    <2>3. QED
      BY <2>1, <2>2
  <1>6. entries \in [NameKeys -> Entry]
    BY <1>5
  <1>7. m_stmts \in [Servers -> [NameKeys -> Entry]]
    BY DEF TypeOK
  <1>8. m_stmts' \in [Servers -> [NameKeys -> Entry]] /\ m_stmts'[s] = entries
        /\ \A t \in Servers \ {s} : m_stmts'[t] = m_stmts[t]
    BY <1>2, <1>6, <1>7
  <1>9. QED
    BY <1>5, <1>8

\* EXEC and DISPLAYSQL of what is cached answer with its text, or with anything
\* where it was freed
LEMMA ExecEffect ==
    ASSUME TypeOK, NEW s \in Servers, NEW n \in Names, NEW uid \in Uids \cup {"none"},
           ExecCached(s, uid, n)
    PROVE  \E r \in Results :
             /\ Reply(s, uid, n, r)
             /\ \/ r = "undefined"
                \/ Cached(s, n).is = "stmt" /\ r = Cached(s, n).text /\ r \in Texts
  <1>1. NameKey[n] \in NameKeys
    BY UsersAssumption
  <1>2. Cached(s, n) \in Entry
    BY <1>1 DEF Cached, TypeOK
  <1>3. Cached(s, n).is = "stmt" => Cached(s, n).text \in Texts
    BY <1>2, Entries
  <1>4. QED
    BY <1>3 DEF ExecCached, Results

\* LoadProc answers with the row, or without one
LEMMA LoadEffect ==
    ASSUME TypeOK, NEW s \in Servers, LoadProc(s)
    PROVE  /\ op[s].at = "load" /\ op[s].name \in Names /\ op[s].uid \in Uids
           /\ op'[s] = NoOp /\ UNCHANGED <<SPROCS, saved>>
           /\ \E r \in Results :
                /\ Reply(s, op[s].uid, op[s].name, r)
                /\ \/ /\ SPROCS[op[s].name] # NoText /\ r = SPROCS[op[s].name] /\ r \in Texts
                      /\ Put(s, op[s].name, Stmt(op[s].name, r))
                      /\ Stmt(op[s].name, r) \in Entry
                   \/ SPROCS[op[s].name] = NoText /\ r = "not found" /\ m_stmts' = m_stmts
                   \/ r = "unavailable" /\ m_stmts' = m_stmts
  <1>1. op[s].at = "load" /\ op[s].name \in Names /\ op[s].uid \in Uids
    BY OpFields DEF LoadProc
  <1>2. op'[s] = NoOp /\ UNCHANGED <<SPROCS, saved>>
    BY DEF LoadProc, Return, Set, TypeOK
  <1>3. SPROCS[op[s].name] # NoText =>
          /\ SPROCS[op[s].name] \in Texts
          /\ Stmt(op[s].name, SPROCS[op[s].name]) \in Entry
    <2>1. SPROCS[op[s].name] # NoText => SPROCS[op[s].name] \in Texts
      BY <1>1 DEF TypeOK
    <2>2. QED
      BY <1>1, <2>1, Entries
  <1>4. CASE /\ SPROCS[op[s].name] # NoText
             /\ Put(s, op[s].name, Stmt(op[s].name, SPROCS[op[s].name]))
             /\ Reply(s, op[s].uid, op[s].name, SPROCS[op[s].name])
    BY <1>1, <1>2, <1>3, <1>4 DEF Results
  <1>5. CASE /\ SPROCS[op[s].name] = NoText /\ m_stmts' = m_stmts
             /\ Reply(s, op[s].uid, op[s].name, "not found")
    BY <1>1, <1>2, <1>5 DEF Results
  <1>6. CASE m_stmts' = m_stmts /\ Reply(s, op[s].uid, op[s].name, "unavailable")
    BY <1>1, <1>2, <1>6 DEF Results
  <1>7. QED
    BY <1>4, <1>5, <1>6 DEF LoadProc

\* CREATE PROCEDURE up to its first statement
LEMMA CreateEffect ==
    ASSUME TypeOK, NEW s \in Servers, NEW uid \in Uids, NEW n \in Names, NEW t \in Texts,
           CreateProc(s, uid, n, t)
    PROVE  /\ op[s] = NoOp /\ UNCHANGED <<SPROCS, saved, answer>>
           /\ \/ /\ Put(s, n, Stmt(n, t)) /\ op'[s] = [at |-> "save", name |-> n, text |-> t]
              \/ /\ Put(s, n, Freed) /\ op'[s] = [at |-> "replace", name |-> n, text |-> t]
  BY DEF CreateProc, Ready, Set, TypeOK

\* A statement that replaces another one is prepared when its row is deleted, or
\* was not
LEMMA ReplaceEffect ==
    ASSUME TypeOK, NEW s \in Servers, ReplaceProc(s)
    PROVE  /\ op[s].at = "replace" /\ op[s].name \in Names /\ op[s].text \in Texts
           /\ Put(s, op[s].name, Stmt(op[s].name, op[s].text))
           /\ op'[s].at = "save" /\ op'[s].name = op[s].name /\ op'[s].text = op[s].text
           /\ op'[s] = [at |-> "save", name |-> op[s].name, text |-> op[s].text]
           /\ UNCHANGED <<saved, answer>>
           /\ SPROCS' = SPROCS \/ SPROCS' = [SPROCS EXCEPT ![op[s].name] = NoText]
  <1>1. op[s].at = "replace" /\ op[s].name \in Names /\ op[s].text \in Texts
        /\ op[s] = [at |-> op[s].at, name |-> op[s].name, text |-> op[s].text]
    BY OpFields DEF ReplaceProc
  <1>2. op'[s] = [op[s] EXCEPT !.at = "save"]
    BY DEF ReplaceProc, Set, TypeOK
  <1>3. op'[s] = [at |-> "save", name |-> op[s].name, text |-> op[s].text]
    <2> DEFINE n == op[s].name
               t == op[s].text
    <2> HIDE DEF n, t
    <2>1. op[s] = [at |-> "replace", name |-> n, text |-> t]
      BY <1>1 DEF n, t
    <2>2. [op[s] EXCEPT !.at = "save"] = [at |-> "save", name |-> n, text |-> t]
      BY <2>1
    <2>3. QED
      BY <1>2, <2>2 DEF n, t
  <1>4. QED
    BY <1>1, <1>3 DEF ReplaceProc

\* saveProcedure puts the row on file, or the statement is freed
LEMMA SaveEffect ==
    ASSUME TypeOK, NEW s \in Servers, SaveProc(s)
    PROVE  /\ op[s].at = "save" /\ op[s].name \in Names /\ op[s].text \in Texts
           /\ op'[s] = NoOp /\ UNCHANGED answer
           /\ \/ /\ SPROCS[op[s].name] = NoText
                 /\ SPROCS' = [SPROCS EXCEPT ![op[s].name] = op[s].text]
                 /\ saved' = saved \cup {<<op[s].name, op[s].text>>}
                 /\ m_stmts' = m_stmts
              \/ Put(s, op[s].name, Freed) /\ UNCHANGED <<SPROCS, saved>>
  <1>1. op[s].at = "save" /\ op[s].name \in Names /\ op[s].text \in Texts
    BY OpFields DEF SaveProc
  <1>2. op'[s] = NoOp
    BY DEF SaveProc, Return, Set, TypeOK
  <1>3. QED
    BY <1>1, <1>2 DEF SaveProc

\* DROP PROCEDURE: the entry is NULL when the row goes
LEMMA DropEffect ==
    ASSUME TypeOK, NEW s \in Servers
    PROVE  /\ \A uid \in Uids, n \in Names : DropProc(s, uid, n) =>
                /\ op[s] = NoOp /\ Put(s, n, Null) /\ UNCHANGED <<SPROCS, saved, answer>>
                /\ op'[s] = [at |-> "dropRow", name |-> n]
           /\ DropRow(s) =>
                /\ op[s].at = "dropRow" /\ op[s].name \in Names
                /\ op'[s] = NoOp /\ UNCHANGED <<m_stmts, saved, answer>>
                /\ SPROCS' = SPROCS \/ SPROCS' = [SPROCS EXCEPT ![op[s].name] = NoText]
  <1>1. ASSUME NEW uid \in Uids, NEW n \in Names, DropProc(s, uid, n)
        PROVE  /\ op[s] = NoOp /\ Put(s, n, Null) /\ UNCHANGED <<SPROCS, saved, answer>>
               /\ op'[s] = [at |-> "dropRow", name |-> n]
    BY <1>1 DEF DropProc, Ready, Set, TypeOK
  <1>2. ASSUME DropRow(s)
        PROVE  /\ op[s].at = "dropRow" /\ op[s].name \in Names
               /\ op'[s] = NoOp /\ UNCHANGED <<m_stmts, saved, answer>>
               /\ SPROCS' = SPROCS \/ SPROCS' = [SPROCS EXCEPT ![op[s].name] = NoText]
    <2>1. op[s].at = "dropRow" /\ op[s].name \in Names
      BY <1>2, OpFields DEF DropRow
    <2>2. op'[s] = NoOp
      BY <1>2 DEF DropRow, Return, Set, TypeOK
    <2>3. QED
      BY <1>2, <2>1, <2>2 DEF DropRow
  <1>3. QED
    BY <1>1, <1>2

\* EXEC answers, or keeps the user and the name until it has read the row
LEMMA ExecStepEffect ==
    ASSUME TypeOK, NEW s \in Servers, NEW uid \in Uids, NEW n \in Names, Exec(s, uid, n)
    PROVE  /\ op[s] = NoOp /\ UNCHANGED <<SPROCS, m_stmts, saved>>
           /\ usersHasPerm(s, uid, n)
           /\ \/ ExecCached(s, uid, n) /\ op' = op
              \/ /\ op'[s] = [at |-> "load", name |-> n, uid |-> uid] /\ answer' = answer
  BY DEF Exec, Ready, Set, TypeOK

-----------------------------------------------------------------------------
(* Types                                                                   *)

\* A step on procedures keeps the types
LEMMA StmtStepTypes ==
    ASSUME TypeOK, NEW s \in Servers, StmtStep(s)
    PROVE  /\ SPROCS' \in [Names -> Texts \cup {NoText}]
           /\ m_stmts' \in [Servers -> [NameKeys -> Entry]]
           /\ saved' \subseteq Names \X Texts
           /\ answer' \in [Servers -> [name : Names \cup {"none"}, uid : Uids \cup {"none"},
                                       result : Results, turn : BOOLEAN]]
  <1> DEFINE A == [Servers -> [name : Names \cup {"none"}, uid : Uids \cup {"none"},
                               result : Results, turn : BOOLEAN]]
  <1>0. /\ SPROCS \in [Names -> Texts \cup {NoText}]
        /\ m_stmts \in [Servers -> [NameKeys -> Entry]]
        /\ saved \subseteq Names \X Texts
        /\ answer \in A
    BY DEF TypeOK, Results
  <1> HIDE DEF A
  <1>1. CASE ReplaceProc(s)
    <2>1. Stmt(op[s].name, op[s].text) \in Entry
      BY <1>1, ReplaceEffect, Entries
    <2>2. m_stmts' \in [Servers -> [NameKeys -> Entry]]
      BY <1>1, <2>1, ReplaceEffect, PutEffect
    <2>3. SPROCS' \in [Names -> Texts \cup {NoText}] /\ UNCHANGED <<saved, answer>>
      BY <1>0, <1>1, ReplaceEffect
    <2>4. QED
      BY <1>0, <2>2, <2>3 DEF A
  <1>2. CASE SaveProc(s)
    <2>1. op[s].name \in Names /\ op[s].text \in Texts /\ answer' = answer
      BY <1>2, SaveEffect
    <2>2. CASE /\ SPROCS' = [SPROCS EXCEPT ![op[s].name] = op[s].text]
               /\ saved' = saved \cup {<<op[s].name, op[s].text>>} /\ m_stmts' = m_stmts
      <3>1. <<op[s].name, op[s].text>> \in Names \X Texts
        BY <2>1
      <3>2. saved' \subseteq Names \X Texts
        BY <1>0, <2>2, <3>1
      <3>3. SPROCS' \in [Names -> Texts \cup {NoText}]
        BY <1>0, <2>1, <2>2
      <3>4. QED
        BY <1>0, <2>1, <2>2, <3>2, <3>3 DEF A
    <2>3. CASE Put(s, op[s].name, Freed) /\ UNCHANGED <<SPROCS, saved>>
      <3>1. m_stmts' \in [Servers -> [NameKeys -> Entry]]
        BY <2>1, <2>3, PutEffect, Entries
      <3>2. QED
        BY <1>0, <2>1, <2>3, <3>1 DEF A
    <2>4. QED
      BY <1>2, <2>2, <2>3, SaveEffect
  <1>3. CASE DropRow(s)
    BY <1>0, <1>3, DropEffect DEF A
  <1>4. CASE LoadProc(s)
    <2>1. UNCHANGED <<SPROCS, saved>> /\ op[s].name \in Names /\ op[s].uid \in Uids
      BY <1>4, LoadEffect
    <2>2. PICK r \in Results :
            /\ Reply(s, op[s].uid, op[s].name, r)
            /\ \/ /\ Put(s, op[s].name, Stmt(op[s].name, r))
                  /\ Stmt(op[s].name, r) \in Entry
               \/ m_stmts' = m_stmts
      BY <1>4, LoadEffect
    <2>3. m_stmts' \in [Servers -> [NameKeys -> Entry]]
      BY <1>0, <2>1, <2>2, PutEffect
    <2>4. answer' \in A
      BY <2>1, <2>2, ReplyEffect DEF A
    <2>5. QED
      BY <1>0, <2>1, <2>3, <2>4 DEF A
  <1>5. CASE ListProcs(s)
    <2>1. UNCHANGED <<SPROCS, saved, answer>>
      BY <1>5 DEF ListProcs
    <2>2. QED
      BY <1>0, <1>5, <2>1, ListEffect DEF A
  <1>6. ASSUME NEW n \in Names, NEW uid \in Uids \cup {"none"}, ExecCached(s, uid, n)
        PROVE  answer' \in A
    BY <1>6, ExecEffect, ReplyEffect DEF A
  <1>7. ASSUME NEW n \in Names, ShowProc(s, n)
        PROVE  UNCHANGED <<SPROCS, saved, m_stmts>> /\ answer' \in A
    BY <1>6, <1>7 DEF ShowProc
  <1>8. ASSUME NEW n \in Names, NEW uid \in Uids, Exec(s, uid, n)
        PROVE  UNCHANGED <<SPROCS, saved, m_stmts>> /\ answer' \in A
    BY <1>0, <1>6, <1>8, ExecStepEffect
  <1>9. ASSUME NEW n \in Names, NEW uid \in Uids, DropProc(s, uid, n)
        PROVE  /\ m_stmts' \in [Servers -> [NameKeys -> Entry]]
               /\ UNCHANGED <<SPROCS, saved, answer>>
    BY <1>9, DropEffect, PutEffect, Entries
  <1>10. ASSUME NEW n \in Names, NEW uid \in Uids, NEW t \in Texts, CreateProc(s, uid, n, t)
         PROVE  /\ m_stmts' \in [Servers -> [NameKeys -> Entry]]
                /\ UNCHANGED <<SPROCS, saved, answer>>
    <2>1. Stmt(n, t) \in Entry /\ Freed \in Entry
      BY Entries
    <2>2. QED
      BY <1>10, <2>1, CreateEffect, PutEffect
  <1>11. QED
    BY <1>0, <1>1, <1>2, <1>3, <1>4, <1>5, <1>7, <1>8, <1>9, <1>10 DEF StmtStep, A

\* Every step keeps the types
LEMMA TypesKept ==
    ASSUME TypeOK, UsersInv, Next
    PROVE  TypeOK'
  <1>1. UsersTypes' /\ op' \in [Servers -> UserOp \cup StmtOp]
    BY UsersKept DEF UsersInv
  <1>2. NoEntries \in [NameKeys -> Entry]
    BY Entries DEF NoEntries
  <1>3. CASE \E s \in Servers : m_stmts' = [m_stmts EXCEPT ![s] = NoEntries]
             /\ UNCHANGED <<SPROCS, saved, answer>>
    BY <1>1, <1>2, <1>3 DEF TypeOK
  <1>4. CASE UNCHANGED stmtVars
    BY <1>1, <1>4 DEF TypeOK, stmtVars
  <1>5. CASE \E s \in Servers : StmtStep(s)
    BY <1>1, <1>5, StmtStepTypes DEF TypeOK, Results
  <1>6. QED
    BY <1>3, <1>4, <1>5, Steps

-----------------------------------------------------------------------------
(* What is executed was saved                                              *)

\* The statement of one entry was saved, or is about to be
SavedAt(s, k) ==
    m_stmts[s][k].is = "stmt" =>
        \/ \E m \in Names : NameKey[m] = k /\ <<m, m_stmts[s][k].text>> \in saved
        \/ /\ op[s].at = "save" /\ NameKey[op[s].name] = k
           /\ op[s].text = m_stmts[s][k].text

\* The answer of one server was saved
RunSaved(s) ==
    answer[s].result \in Texts =>
        \E m \in Names : /\ NameKey[m] = NameKey[answer[s].name]
                         /\ <<m, answer[s].result>> \in saved

\* What a step does not touch stays saved, for the history only grows
LEMMA SavedElsewhere ==
    ASSUME saved \subseteq saved', NEW s \in Servers
    PROVE  /\ \A k \in NameKeys :
                SavedAt(s, k) /\ m_stmts'[s][k] = m_stmts[s][k]
                  /\ (op'[s] = op[s] \/ op[s].at # "save") => SavedAt(s, k)'
           /\ RunSaved(s) /\ answer'[s] = answer[s] => RunSaved(s)'
  BY DEF SavedAt, RunSaved

\* Nothing that other servers do counts: it is enough to look at the server of the
\* step, at the rows and at the history
LEMMA SavedLocally ==
    ASSUME SavedInv, NEW s \in Servers, saved \subseteq saved',
           \A t \in Servers \ {s} : /\ op'[t] = op[t] /\ answer'[t] = answer[t]
                                    /\ \A k \in NameKeys : m_stmts'[t][k] = m_stmts[t][k],
           \A k \in NameKeys : SavedAt(s, k)', RunSaved(s)', RowsSaved'
    PROVE  SavedInv'
  <1>1. ASSUME NEW t \in Servers, t # s
        PROVE  RunSaved(t)' /\ \A k \in NameKeys : SavedAt(t, k)'
    <2>1. RunSaved(t) /\ \A k \in NameKeys : SavedAt(t, k)
      BY DEF SavedInv, StmtsSaved, RunsSaved, SavedAt, RunSaved
    <2>2. QED
      BY <1>1, <2>1, SavedElsewhere
  <1>2. \A t \in Servers : RunSaved(t)' /\ \A k \in NameKeys : SavedAt(t, k)'
    BY <1>1
  <1>3. QED
    BY <1>2 DEF SavedInv, StmtsSaved, RunsSaved, SavedAt, RunSaved

\* A text that a cached statement answers with was saved
LEMMA ExecSaved ==
    ASSUME TypeOK, SavedInv, NEW s \in Servers, NEW n \in Names,
           NEW uid \in Uids \cup {"none"}, op[s] = NoOp, ExecCached(s, uid, n),
           saved' = saved
    PROVE  RunSaved(s)' /\ \A t \in Servers \ {s} : answer'[t] = answer[t]
  <1>1. PICK r \in Results :
          /\ Reply(s, uid, n, r)
          /\ \/ r = "undefined"
             \/ Cached(s, n).is = "stmt" /\ r = Cached(s, n).text
    BY ExecEffect
  <1>2. /\ answer'[s].name = n /\ answer'[s].result = r
        /\ \A t \in Servers \ {s} : answer'[t] = answer[t]
    BY <1>1, ReplyEffect
  <1>3. NameKey[n] \in NameKeys /\ op[s].at # "save"
    BY UsersAssumption DEF NoOp
  <1>4. CASE r = "undefined"
    BY <1>2, <1>4, TextsAssumption DEF RunSaved
  <1>5. CASE Cached(s, n).is = "stmt" /\ r = Cached(s, n).text
    <2>1. \E m \in Names : NameKey[m] = NameKey[n] /\ <<m, r>> \in saved
      BY <1>3, <1>5 DEF Cached, SavedInv, StmtsSaved
    <2>2. QED
      BY <1>2, <2>1 DEF RunSaved
  <1>6. QED
    BY <1>1, <1>2, <1>4, <1>5

\* A step on procedures keeps the texts saved
LEMMA StmtStepSaved ==
    ASSUME TypeOK, SavedInv, NEW s \in Servers, StmtStep(s)
    PROVE  SavedInv'
  <1>0. /\ \A t \in Servers \ {s} : op'[t] = op[t]
        /\ \A k \in NameKeys : SavedAt(s, k)
        /\ RunSaved(s) /\ RowsSaved
    <2>1. op \in [Servers -> UserOp \cup StmtOp]
      BY DEF TypeOK
    <2>2. \/ op' = op
          \/ \E o \in StmtOp \cup {NoOp} : op' = [op EXCEPT ![s] = o]
      BY StmtStepUsers
    <2>3. QED
      BY <2>1, <2>2 DEF SavedInv, StmtsSaved, RunsSaved, SavedAt, RunSaved
  <1>1. CASE ReplaceProc(s)
    <2>1. Stmt(op[s].name, op[s].text) \in Entry
      BY <1>1, ReplaceEffect, Entries
    <2>2. \A t \in Servers, k \in NameKeys :
            m_stmts'[t][k] = IF t = s /\ k = NameKey[op[s].name]
                             THEN Stmt(op[s].name, op[s].text) ELSE m_stmts[t][k]
      <3>1. op[s].name \in Names /\ Put(s, op[s].name, Stmt(op[s].name, op[s].text))
        BY <1>1, ReplaceEffect
      <3>2. QED
        BY <2>1, <3>1, PutEffect
    <2>3. /\ op[s].at = "replace" /\ UNCHANGED <<saved, answer>> /\ op[s].name \in Names
          /\ op'[s].at = "save" /\ op'[s].name = op[s].name /\ op'[s].text = op[s].text
          /\ SPROCS' = SPROCS \/ SPROCS' = [SPROCS EXCEPT ![op[s].name] = NoText]
      BY <1>1, ReplaceEffect
    <2>4. ASSUME NEW k \in NameKeys PROVE SavedAt(s, k)'
      <3>1. CASE k = NameKey[op[s].name]
        BY <2>2, <2>3, <3>1, Entries DEF SavedAt
      <3>2. CASE k # NameKey[op[s].name]
        BY <1>0, <2>2, <2>3, <3>2, SavedElsewhere
      <3>3. QED
        BY <3>1, <3>2
    <2>5. RowsSaved'
      BY <1>0, <2>3 DEF RowsSaved, TypeOK
    <2>6. RunSaved(s)'
      BY <1>0, <2>3, SavedElsewhere
    <2>7. QED
      BY <1>0, <2>2, <2>3, <2>4, <2>5, <2>6, SavedLocally
  <1>2. CASE SaveProc(s)
    <2>1. /\ op[s].at = "save" /\ op[s].name \in Names /\ op[s].text \in Texts
          /\ answer' = answer
      BY <1>2, SaveEffect
    <2>2. CASE /\ SPROCS' = [SPROCS EXCEPT ![op[s].name] = op[s].text]
               /\ saved' = saved \cup {<<op[s].name, op[s].text>>} /\ m_stmts' = m_stmts
      <3>1. RowsSaved'
        BY <1>0, <2>1, <2>2 DEF RowsSaved, TypeOK
      <3>2. saved \subseteq saved' /\ <<op[s].name, op[s].text>> \in saved'
        BY <2>2
      <3>3. ASSUME NEW k \in NameKeys PROVE SavedAt(s, k)'
        BY <1>0, <2>1, <2>2, <3>2 DEF SavedAt
      <3>4. RunSaved(s)'
        BY <1>0, <2>1, <3>2, SavedElsewhere
      <3>5. QED
        BY <1>0, <2>1, <2>2, <3>1, <3>2, <3>3, <3>4, SavedLocally
    <2>3. CASE Put(s, op[s].name, Freed) /\ UNCHANGED <<SPROCS, saved>>
      <3>1. \A t \in Servers, k \in NameKeys :
              m_stmts'[t][k] = IF t = s /\ k = NameKey[op[s].name] THEN Freed
                               ELSE m_stmts[t][k]
        BY <2>1, <2>3, PutEffect, Entries
      <3>2. ASSUME NEW k \in NameKeys PROVE SavedAt(s, k)'
        <4>1. CASE k = NameKey[op[s].name]
          BY <3>1, <4>1, Entries DEF SavedAt
        <4>2. CASE k # NameKey[op[s].name]
          BY <1>0, <2>3, <3>1, <4>2 DEF SavedAt
        <4>3. QED
          BY <4>1, <4>2
      <3>3. RunSaved(s)' /\ RowsSaved'
        BY <1>0, <2>1, <2>3 DEF RunSaved, RowsSaved
      <3>4. QED
        BY <1>0, <2>1, <2>3, <3>1, <3>2, <3>3, SavedLocally
    <2>4. QED
      BY <1>2, <2>2, <2>3, SaveEffect
  <1>3. CASE DropRow(s)
    <2>1. /\ op[s].at = "dropRow" /\ op[s].name \in Names
          /\ UNCHANGED <<m_stmts, saved, answer>>
          /\ SPROCS' = SPROCS \/ SPROCS' = [SPROCS EXCEPT ![op[s].name] = NoText]
      BY <1>3, DropEffect
    <2>2. RowsSaved'
      BY <1>0, <2>1 DEF RowsSaved, TypeOK
    <2>3. (\A k \in NameKeys : SavedAt(s, k)') /\ RunSaved(s)'
      BY <1>0, <2>1, SavedElsewhere
    <2>4. QED
      BY <1>0, <2>1, <2>2, <2>3, SavedLocally
  <1>4. CASE LoadProc(s)
    <2>1. /\ UNCHANGED <<SPROCS, saved>> /\ op[s].name \in Names /\ op[s].uid \in Uids
          /\ op[s].at = "load"
      BY <1>4, LoadEffect
    <2>2. PICK r \in Results :
            /\ Reply(s, op[s].uid, op[s].name, r)
            /\ \/ /\ SPROCS[op[s].name] # NoText /\ r = SPROCS[op[s].name]
                  /\ Put(s, op[s].name, Stmt(op[s].name, r))
                  /\ Stmt(op[s].name, r) \in Entry
               \/ r \in {"not found", "unavailable"} /\ m_stmts' = m_stmts
      BY <1>4, LoadEffect
    <2>3. /\ answer'[s].name = op[s].name /\ answer'[s].result = r
          /\ \A t \in Servers \ {s} : answer'[t] = answer[t]
      BY <2>1, <2>2, ReplyEffect
    <2>4. RowsSaved'
      BY <1>0, <2>1 DEF RowsSaved
    <2>5. CASE r \in {"not found", "unavailable"} /\ m_stmts' = m_stmts
      <3>1. RunSaved(s)'
        BY <2>3, <2>5, TextsAssumption DEF RunSaved
      <3>2. \A k \in NameKeys : SavedAt(s, k)'
        BY <1>0, <2>1, <2>5, SavedElsewhere
      <3>3. QED
        BY <1>0, <2>1, <2>3, <2>4, <2>5, <3>1, <3>2, SavedLocally
    <2>6. CASE /\ SPROCS[op[s].name] # NoText /\ r = SPROCS[op[s].name]
               /\ Put(s, op[s].name, Stmt(op[s].name, r))
               /\ Stmt(op[s].name, r) \in Entry
      <3>1. <<op[s].name, r>> \in saved'
        BY <1>0, <2>1, <2>6 DEF RowsSaved
      <3>2. \A t \in Servers, k \in NameKeys :
              m_stmts'[t][k] = IF t = s /\ k = NameKey[op[s].name]
                               THEN Stmt(op[s].name, r) ELSE m_stmts[t][k]
        BY <2>1, <2>6, PutEffect
      <3>3. ASSUME NEW k \in NameKeys PROVE SavedAt(s, k)'
        <4>1. CASE k = NameKey[op[s].name]
          <5>1. m_stmts'[s][k].text = r
            BY <3>2, <4>1, Entries
          <5>2. \E m \in Names : NameKey[m] = k /\ <<m, m_stmts'[s][k].text>> \in saved'
            BY <2>1, <3>1, <4>1, <5>1
          <5>3. QED
            BY <5>2 DEF SavedAt
        <4>2. CASE k # NameKey[op[s].name]
          BY <1>0, <2>1, <3>2, <4>2, SavedElsewhere
        <4>3. QED
          BY <4>1, <4>2
      <3>4. RunSaved(s)'
        BY <2>1, <2>3, <3>1 DEF RunSaved
      <3>5. QED
        BY <1>0, <2>1, <2>3, <2>4, <3>2, <3>3, <3>4, SavedLocally
    <2>7. QED
      BY <2>2, <2>5, <2>6
  <1>5. CASE ListProcs(s)
    <2>1. UNCHANGED <<SPROCS, saved, answer>>
      BY <1>5 DEF ListProcs
    <2>2. ASSUME NEW k \in NameKeys PROVE SavedAt(s, k)'
      <3>1. CASE m_stmts'[s][k] = Absent
        BY <3>1, Entries DEF SavedAt
      <3>2. CASE \E n \in Names : /\ SPROCS[n] # NoText /\ NameKey[n] = k
                                  /\ m_stmts'[s][k] = Stmt(n, SPROCS[n])
        <4>1. PICK n \in Names : /\ SPROCS[n] # NoText /\ NameKey[n] = k
                                 /\ m_stmts'[s][k] = Stmt(n, SPROCS[n])
          BY <3>2
        <4>2. m_stmts'[s][k].text = SPROCS[n] /\ <<n, SPROCS[n]>> \in saved'
          BY <1>0, <2>1, <4>1, Entries DEF RowsSaved
        <4>3. QED
          BY <4>1, <4>2 DEF SavedAt
      <3>3. QED
        BY <1>5, <3>1, <3>2, ListEffect
    <2>3. RowsSaved' /\ RunSaved(s)'
      BY <1>0, <2>1 DEF RowsSaved, RunSaved
    <2>4. QED
      BY <1>0, <1>5, <2>1, <2>2, <2>3, ListEffect, SavedLocally
  <1>6. ASSUME NEW n \in Names, NEW uid \in Uids \cup {"none"}, ExecCached(s, uid, n),
               op[s] = NoOp, UNCHANGED <<op, SPROCS, m_stmts, saved>>
        PROVE  SavedInv'
    <2>1. RunSaved(s)' /\ \A t \in Servers \ {s} : answer'[t] = answer[t]
      BY <1>6, ExecSaved
    <2>2. (\A k \in NameKeys : SavedAt(s, k)') /\ RowsSaved'
      BY <1>0, <1>6, SavedElsewhere DEF RowsSaved
    <2>3. QED
      BY <1>0, <1>6, <2>1, <2>2, SavedLocally
  <1>7. ASSUME NEW n \in Names, ShowProc(s, n) PROVE SavedInv'
    BY <1>6, <1>7 DEF ShowProc, Ready
  <1>8. ASSUME NEW n \in Names, NEW uid \in Uids, Exec(s, uid, n) PROVE SavedInv'
    <2>1. op[s] = NoOp /\ UNCHANGED <<SPROCS, m_stmts, saved>>
      BY <1>8, ExecStepEffect
    <2>2. CASE ExecCached(s, uid, n) /\ op' = op
      BY <1>6, <2>1, <2>2
    <2>3. CASE op'[s] = [at |-> "load", name |-> n, uid |-> uid] /\ answer' = answer
      <3>1. (\A k \in NameKeys : SavedAt(s, k)') /\ RunSaved(s)' /\ RowsSaved'
        BY <1>0, <2>1, <2>3, SavedElsewhere DEF RowsSaved, NoOp
      <3>2. QED
        BY <1>0, <2>1, <2>3, <3>1, SavedLocally
    <2>4. QED
      BY <1>8, <2>2, <2>3, ExecStepEffect
  <1>9. ASSUME NEW n \in Names, NEW e \in Entry, Put(s, n, e), op[s] = NoOp,
               UNCHANGED <<SPROCS, saved, answer>>,
               e.is = "stmt" => /\ op'[s].at = "save" /\ op'[s].name = n
                                /\ op'[s].text = e.text
        PROVE  SavedInv'
    <2>1. \A t \in Servers, k \in NameKeys :
            m_stmts'[t][k] = IF t = s /\ k = NameKey[n] THEN e ELSE m_stmts[t][k]
      BY <1>9, PutEffect
    <2>2. ASSUME NEW k \in NameKeys PROVE SavedAt(s, k)'
      <3>1. CASE k = NameKey[n]
        BY <1>9, <2>1, <3>1 DEF SavedAt
      <3>2. CASE k # NameKey[n]
        BY <1>0, <1>9, <2>1, <3>2, SavedElsewhere DEF NoOp
      <3>3. QED
        BY <3>1, <3>2
    <2>3. RunSaved(s)' /\ RowsSaved'
      BY <1>0, <1>9 DEF RunSaved, RowsSaved
    <2>4. QED
      BY <1>0, <1>9, <2>1, <2>2, <2>3, SavedLocally
  <1>10. ASSUME NEW n \in Names, NEW uid \in Uids, DropProc(s, uid, n) PROVE SavedInv'
    BY <1>9, <1>10, DropEffect, Entries
  <1>11. ASSUME NEW n \in Names, NEW uid \in Uids, NEW t \in Texts, CreateProc(s, uid, n, t)
         PROVE  SavedInv'
    <2>1. op[s] = NoOp /\ UNCHANGED <<SPROCS, saved, answer>>
      BY <1>11, CreateEffect
    <2>2. CASE Put(s, n, Stmt(n, t)) /\ op'[s] = [at |-> "save", name |-> n, text |-> t]
      <3>1. Stmt(n, t) \in Entry /\ Stmt(n, t).text = t
        BY Entries
      <3>2. QED
        BY <1>9, <2>1, <2>2, <3>1
    <2>3. CASE Put(s, n, Freed)
      BY <1>9, <2>1, <2>3, Entries
    <2>4. QED
      BY <1>11, <2>2, <2>3, CreateEffect
  <1>12. QED
    BY <1>1, <1>2, <1>3, <1>4, <1>5, <1>7, <1>8, <1>10, <1>11 DEF StmtStep

\* Every step keeps the texts saved
LEMMA SavedKept ==
    ASSUME TypeOK, UsersInv, SavedInv, Next
    PROVE  SavedInv'
  <1>1. CASE /\ UNCHANGED stmtVars
             /\ \A t \in Servers : \/ op'[t] = op[t]
                                   \/ op[t].at \in UserPlaces /\ op'[t].at \in UserPlaces
    <2>1. UNCHANGED <<SPROCS, m_stmts, saved, answer>>
      BY <1>1 DEF stmtVars
    <2>2. RowsSaved' /\ RunsSaved'
      BY <2>1 DEF SavedInv, RowsSaved, RunsSaved
    <2>3. ASSUME NEW s \in Servers, NEW k \in NameKeys PROVE SavedAt(s, k)'
      <3>1. SavedAt(s, k)
        BY DEF SavedInv, StmtsSaved, SavedAt
      <3>2. op'[s] = op[s] \/ op[s].at # "save"
        BY <1>1 DEF UserPlaces
      <3>3. QED
        BY <2>1, <3>1, <3>2, SavedElsewhere
    <2>4. QED
      BY <2>2, <2>3 DEF SavedInv, StmtsSaved, SavedAt
  <1>2. CASE \E s \in Servers : /\ op' = [op EXCEPT ![s] = NoOp]
                                /\ m_stmts' = [m_stmts EXCEPT ![s] = NoEntries]
                                /\ UNCHANGED <<SPROCS, saved, answer>>
    <2>1. PICK s \in Servers : /\ op' = [op EXCEPT ![s] = NoOp]
                               /\ m_stmts' = [m_stmts EXCEPT ![s] = NoEntries]
                               /\ UNCHANGED <<SPROCS, saved, answer>>
      BY <1>2
    <2>2. /\ \A k \in NameKeys : m_stmts'[s][k] = Absent
          /\ \A t \in Servers \ {s} : op'[t] = op[t] /\ m_stmts'[t] = m_stmts[t]
      BY <2>1 DEF TypeOK, NoEntries
    <2>3. \A k \in NameKeys : SavedAt(s, k)'
      BY <2>2, Entries DEF SavedAt
    <2>4. RunSaved(s)' /\ RowsSaved'
      BY <2>1 DEF SavedInv, RunsSaved, RunSaved, RowsSaved
    <2>5. QED
      BY <2>1, <2>2, <2>3, <2>4, SavedLocally
  <1>3. CASE \E s \in Servers : StmtStep(s)
    BY <1>3, StmtStepSaved
  <1>4. QED
    BY <1>1, <1>2, <1>3, Steps

-----------------------------------------------------------------------------
(* What is executed was authorised                                         *)

\* What is authorised stays so: permissions and rows of users are never taken back
LEMMA StaysAuthorised ==
    ASSUME UsersTypes, FilesGrow, NEW uid \in Uids, NEW n, Authorised(uid, n)
    PROVE  Authorised(uid, n)'
  <1>1. CASE USERS[uid].admin
    <2>1. USERS[uid] # NoRow
      BY <1>1 DEF NoRow
    <2>2. USERS'[uid] = USERS[uid]
      BY <2>1 DEF FilesGrow, HasRow
    <2>3. QED
      BY <1>1, <2>2 DEF Authorised
  <1>2. CASE \E u \in Spellings(UidKey[uid]) : <<u, n>> \in PERMS
    BY <1>2 DEF FilesGrow, Authorised
  <1>3. QED
    BY <1>1, <1>2 DEF Authorised

\* Whom stmtmgrExec lets through is authorised on file, although it asks the
\* tables in memory: they are never ahead of the file
LEMMA PermittedIsAuthorised ==
    ASSUME UsersInv, NEW s \in Servers, NEW uid \in Uids, NEW n \in Names,
           usersHasPerm(s, uid, n)
    PROVE  Authorised(uid, n)
  <1>1. UidKey[uid] \in UidKeys
    BY UsersAssumption
  <1>2. CASE usersIsAdmin(uid)
    BY <1>2 DEF usersIsAdmin, Authorised
  <1>3. CASE n \in m_uid2perms[s][UidKey[uid]]
    BY <1>1, <1>3 DEF UsersInv, PermsInv, PermsBacked, Authorised
  <1>4. QED
    BY <1>2, <1>3 DEF usersHasPerm

\* The answer of one server is authorised, and so is the load it is about to do
AuthorisedAt(s) ==
    /\ op[s].at = "load" => Authorised(op[s].uid, op[s].name)
    /\ answer[s].uid # "none" => Authorised(answer[s].uid, answer[s].name)

\* The invariant is the same statement about every server.
LEMMA AuthorisedEverywhere == AuthorisedInv <=> \A s \in Servers : AuthorisedAt(s)
  BY DEF AuthorisedInv, LoadsAuthorised, RunsAuthorised, AuthorisedAt, Authorised

\* A step keeps what is executed authorised at the servers it does not touch, and
\* at its own where what it puts there is authorised
LEMMA AuthorisedMoves ==
    ASSUME TypeOK, UsersInv, AuthorisedInv, FilesGrow, NEW s \in Servers,
           \/ op'[s] = op[s]
           \/ op'[s].at # "load"
           \/ op'[s].uid \in Uids /\ Authorised(op'[s].uid, op'[s].name),
           \/ answer'[s] = answer[s]
           \/ answer'[s].uid = "none"
           \/ answer'[s].uid \in Uids /\ Authorised(answer'[s].uid, answer'[s].name)
    PROVE  AuthorisedAt(s)'
  <1>1. ASSUME NEW uid \in Uids, NEW n, Authorised(uid, n)
        PROVE  \/ USERS'[uid].admin
               \/ \E u \in Spellings(UidKey[uid]) : <<u, n>> \in PERMS'
    BY <1>1, StaysAuthorised DEF Authorised, TypeOK
  <1>2. AuthorisedAt(s)
    BY AuthorisedEverywhere
  <1>3. op'[s].at = "load" => op'[s].uid \in Uids /\ Authorised(op'[s].uid, op'[s].name)
    BY <1>2, OpFields DEF AuthorisedAt
  <1>4. answer[s].uid # "none" => answer[s].uid \in Uids
    <2>1. answer[s] \in [name : Names \cup {"none"}, uid : Uids \cup {"none"},
                         result : Texts \cup {"none", "not found", "unavailable",
                                              "undefined"},
                         turn : BOOLEAN]
      BY DEF TypeOK
    <2>2. QED
      BY <2>1
  <1>5. answer'[s].uid # "none" =>
          answer'[s].uid \in Uids /\ Authorised(answer'[s].uid, answer'[s].name)
    BY <1>2, <1>4 DEF AuthorisedAt
  <1>6. op'[s].at = "load" =>
          \/ USERS'[op'[s].uid].admin
          \/ \E u \in Spellings(UidKey[op'[s].uid]) : <<u, op'[s].name>> \in PERMS'
    BY <1>1, <1>3
  <1>7. answer'[s].uid # "none" =>
          \/ USERS'[answer'[s].uid].admin
          \/ \E u \in Spellings(UidKey[answer'[s].uid]) : <<u, answer'[s].name>> \in PERMS'
    BY <1>1, <1>5
  <1>8. QED
    BY <1>6, <1>7 DEF AuthorisedAt, Authorised

\* A step on procedures keeps what is executed authorised
LEMMA StmtStepAuthorised ==
    ASSUME TypeOK, UsersInv, AuthorisedInv, FilesGrow, NEW s \in Servers, StmtStep(s)
    PROVE  AuthorisedInv'
  <1>1. /\ \A t \in Servers \ {s} : op'[t] = op[t]
        /\ op \in [Servers -> UserOp \cup StmtOp]
    <2>1. op \in [Servers -> UserOp \cup StmtOp]
      BY DEF TypeOK
    <2>2. \/ op' = op
          \/ \E o \in StmtOp \cup {NoOp} : op' = [op EXCEPT ![s] = o]
      BY StmtStepUsers
    <2>3. QED
      BY <2>1, <2>2
  <1>2. ASSUME \A t \in Servers \ {s} : answer'[t] = answer[t], AuthorisedAt(s)'
        PROVE  AuthorisedInv'
    <2>1. \A t \in Servers \ {s} : AuthorisedAt(t)'
      BY <1>1, <1>2, AuthorisedMoves
    <2>2. \A t \in Servers : AuthorisedAt(t)'
      BY <1>2, <2>1
    <2>3. QED
      BY <2>2 DEF AuthorisedInv, LoadsAuthorised, RunsAuthorised, AuthorisedAt, Authorised
  <1>3. CASE ReplaceProc(s) \/ SaveProc(s) \/ DropRow(s) \/ ListProcs(s)
    <2>1. answer' = answer
      BY <1>3 DEF ReplaceProc, SaveProc, DropRow, ListProcs
    <2>2. op'[s] = op[s] \/ op'[s].at # "load"
      <3>1. CASE ListProcs(s)
        BY <3>1 DEF ListProcs
      <3>2. CASE ReplaceProc(s)
        BY <3>2, ReplaceEffect
      <3>3. CASE SaveProc(s) \/ DropRow(s)
        BY <3>3, SaveEffect, DropEffect DEF NoOp
      <3>4. QED
        BY <1>3, <3>1, <3>2, <3>3
    <2>3. QED
      BY <1>2, <2>1, <2>2, AuthorisedMoves
  <1>4. CASE LoadProc(s)
    <2>1. /\ op[s].at = "load" /\ op[s].uid \in Uids /\ op[s].name \in Names
          /\ op'[s] = NoOp /\ \E r \in Results : Reply(s, op[s].uid, op[s].name, r)
      BY <1>4, LoadEffect
    <2>2. /\ answer'[s].name = op[s].name /\ answer'[s].uid = op[s].uid
          /\ \A t \in Servers \ {s} : answer'[t] = answer[t]
      BY <2>1, ReplyEffect
    <2>3. Authorised(op[s].uid, op[s].name)
      BY <2>1 DEF AuthorisedInv, LoadsAuthorised
    <2>4. op'[s].at # "load"
      BY <2>1 DEF NoOp
    <2>5. AuthorisedAt(s)'
      BY <2>1, <2>2, <2>3, <2>4, AuthorisedMoves
    <2>6. QED
      BY <1>2, <2>2, <2>5
  <1>5. ASSUME NEW n \in Names, NEW uid \in Uids \cup {"none"}, ExecCached(s, uid, n),
               op' = op, uid = "none" \/ Authorised(uid, n)
        PROVE  AuthorisedInv'
    <2>1. PICK r \in Results : Reply(s, uid, n, r)
      BY <1>5, ExecEffect
    <2>2. /\ answer'[s].name = n /\ answer'[s].uid = uid
          /\ \A t \in Servers \ {s} : answer'[t] = answer[t]
      BY <2>1, ReplyEffect
    <2>3. AuthorisedAt(s)'
      BY <1>5, <2>2, AuthorisedMoves
    <2>4. QED
      BY <1>2, <2>2, <2>3
  <1>6. ASSUME NEW n \in Names, ShowProc(s, n) PROVE AuthorisedInv'
    BY <1>5, <1>6 DEF ShowProc
  <1>7. ASSUME NEW n \in Names, NEW uid \in Uids, Exec(s, uid, n) PROVE AuthorisedInv'
    <2>1. Authorised(uid, n)
      BY <1>7, ExecStepEffect, PermittedIsAuthorised
    <2>2. CASE ExecCached(s, uid, n) /\ op' = op
      BY <1>5, <2>1, <2>2
    <2>3. CASE op'[s] = [at |-> "load", name |-> n, uid |-> uid] /\ answer' = answer
      <3>1. op'[s].uid = uid /\ op'[s].name = n
        BY <2>3
      <3>2. AuthorisedAt(s)'
        BY <2>1, <2>3, <3>1, AuthorisedMoves
      <3>3. QED
        BY <1>2, <2>3, <3>2
    <2>4. QED
      BY <1>7, <2>2, <2>3, ExecStepEffect
  <1>8. ASSUME answer' = answer, op'[s].at # "load" PROVE AuthorisedInv'
    BY <1>2, <1>8, AuthorisedMoves
  <1>9. ASSUME NEW n \in Names, NEW uid \in Uids, DropProc(s, uid, n) PROVE AuthorisedInv'
    <2>1. op'[s] = [at |-> "dropRow", name |-> n] /\ answer' = answer
      BY <1>9, DropEffect
    <2>2. QED
      BY <1>8, <2>1
  <1>10. ASSUME NEW n \in Names, NEW uid \in Uids, NEW t \in Texts, CreateProc(s, uid, n, t)
         PROVE  AuthorisedInv'
    <2>1. /\ answer' = answer
          /\ \/ op'[s] = [at |-> "save", name |-> n, text |-> t]
             \/ op'[s] = [at |-> "replace", name |-> n, text |-> t]
      BY <1>10, CreateEffect
    <2>2. op'[s].at # "load"
      BY <2>1
    <2>3. QED
      BY <1>8, <2>1, <2>2
  <1>11. QED
    BY <1>3, <1>4, <1>6, <1>7, <1>9, <1>10 DEF StmtStep

\* Every step keeps what is executed authorised
LEMMA AuthorisedKept ==
    ASSUME TypeOK, UsersInv, AuthorisedInv, Next
    PROVE  AuthorisedInv'
  <1>0. FilesGrow
    BY UsersKept
  <1>1. ASSUME answer' = answer, \A t \in Servers : op'[t] = op[t] \/ op'[t].at # "load"
        PROVE  AuthorisedInv'
    <2>1. \A t \in Servers : AuthorisedAt(t)'
      BY <1>0, <1>1, AuthorisedMoves
    <2>2. QED
      BY <2>1 DEF AuthorisedInv, LoadsAuthorised, RunsAuthorised, AuthorisedAt, Authorised
  <1>2. CASE /\ UNCHANGED stmtVars
             /\ \A t \in Servers : \/ op'[t] = op[t]
                                   \/ op[t].at \in UserPlaces /\ op'[t].at \in UserPlaces
    BY <1>1, <1>2 DEF stmtVars, UserPlaces
  <1>3. CASE \E s \in Servers : op' = [op EXCEPT ![s] = NoOp] /\ answer' = answer
    <2>1. PICK s \in Servers : op' = [op EXCEPT ![s] = NoOp] /\ answer' = answer
      BY <1>3
    <2>2. \A t \in Servers : op'[t] = op[t] \/ op'[t].at # "load"
      BY <2>1 DEF TypeOK, NoOp
    <2>3. QED
      BY <1>1, <2>1, <2>2
  <1>4. CASE \E s \in Servers : StmtStep(s)
    BY <1>0, <1>4, StmtStepAuthorised
  <1>5. QED
    BY <1>2, <1>3, <1>4, Steps

-----------------------------------------------------------------------------
(* One server: its table is what is on file                                *)

OneServer == \A s, t \in Servers : s = t

\* While DROP deletes the row its entry is no statement
DropsUncached ==
    \A s \in Servers : op[s].at = "dropRow" => Cached(s, op[s].name).is # "stmt"

\* The inductive invariant of one server.  CacheCurrent needs DropsUncached: the
\* row that DROP deletes is no longer that of a statement in the table.
CacheInv == CacheCurrent /\ DropsUncached

\* The entry of a key is what is on file under a spelling of the key
CurrentAt(s, k) ==
    m_stmts[s][k].is = "stmt" =>
        /\ NameKey[m_stmts[s][k].name] = k
        /\ \/ SPROCS[m_stmts[s][k].name] = m_stmts[s][k].text
           \/ /\ op[s].at = "save" /\ op[s].name = m_stmts[s][k].name
              /\ op[s].text = m_stmts[s][k].text

AllCurrent == \A s \in Servers, k \in NameKeys : CurrentAt(s, k)

\* So is the caches being current: the entry of a row stands for its text.
LEMMA CurrentIs == TypeOK => (CacheCurrent <=> AllCurrent)
  <1> SUFFICES ASSUME TypeOK PROVE CacheCurrent <=> AllCurrent
    OBVIOUS
  <1>1. ASSUME NEW s \in Servers, NEW n, NEW t
        PROVE  op[s] = [at |-> "save", name |-> n, text |-> t]
                 <=> op[s].at = "save" /\ op[s].name = n /\ op[s].text = t
    BY OpFields
  <1>2. ASSUME CacheCurrent PROVE AllCurrent
    <2> SUFFICES ASSUME NEW s \in Servers, NEW k \in NameKeys, m_stmts[s][k].is = "stmt"
                 PROVE  CurrentAt(s, k)
      BY DEF AllCurrent, CurrentAt
    <2>1. /\ NameKey[m_stmts[s][k].name] = k
          /\ \/ SPROCS[m_stmts[s][k].name] = m_stmts[s][k].text
             \/ op[s] = [at |-> "save", name |-> m_stmts[s][k].name,
                         text |-> m_stmts[s][k].text]
      BY <1>2 DEF CacheCurrent
    <2>2. QED
      BY <1>1, <2>1 DEF CurrentAt
  <1>3. ASSUME AllCurrent PROVE CacheCurrent
    <2> SUFFICES ASSUME NEW s \in Servers, NEW k \in NameKeys, m_stmts[s][k].is = "stmt"
                 PROVE  /\ NameKey[m_stmts[s][k].name] = k
                        /\ \/ SPROCS[m_stmts[s][k].name] = m_stmts[s][k].text
                           \/ op[s] = [at |-> "save", name |-> m_stmts[s][k].name,
                                       text |-> m_stmts[s][k].text]
      BY DEF CacheCurrent
    <2>1. CurrentAt(s, k)
      BY <1>3 DEF AllCurrent
    <2>2. QED
      BY <1>1, <2>1 DEF CurrentAt
  <1>4. QED
    BY <1>2, <1>3

\* A statement in a table has a name and a text
LEMMA CachedNames ==
    ASSUME TypeOK, NEW s \in Servers, NEW k \in NameKeys, m_stmts[s][k].is = "stmt"
    PROVE  m_stmts[s][k].name \in Names /\ m_stmts[s][k].text \in Texts
  <1>1. m_stmts[s][k] \in Entry
    BY DEF TypeOK
  <1>2. QED
    BY <1>1, Entries

\* Of one server it is enough to look at the entries and at the operation
LEMMA CacheLocally ==
    ASSUME OneServer, TypeOK', NEW s \in Servers, \A k \in NameKeys : CurrentAt(s, k)',
           op'[s].at = "dropRow" => m_stmts'[s][NameKey[op'[s].name]].is # "stmt"
    PROVE  CacheInv'
  <1>1. AllCurrent'
    BY DEF OneServer, AllCurrent
  <1>2. CacheCurrent'
    <2>1. TypeOK' => (CacheCurrent' <=> AllCurrent')
      BY CurrentIs, PTL
    <2>2. QED
      BY <1>1, <2>1
  <1>3. DropsUncached'
    BY DEF OneServer, DropsUncached, Cached
  <1>4. QED
    BY <1>2, <1>3 DEF CacheInv

\* A step that puts one entry and leaves the rows alone
LEMMA PutCurrent ==
    ASSUME OneServer, TypeOK, TypeOK', CacheInv, NEW s \in Servers, NEW n \in Names,
           NEW e \in Entry, Put(s, n, e), SPROCS' = SPROCS,
           op[s].at = "save" => n = op[s].name,
           e.is = "stmt" =>
               /\ e.name = n
               /\ SPROCS[n] = e.text \/ (op'[s].at = "save" /\ op'[s].name = n
                                         /\ op'[s].text = e.text),
           op'[s].at = "dropRow" => op'[s].name = n /\ e.is # "stmt"
    PROVE  CacheInv'
  <1>1. \A k \in NameKeys : m_stmts'[s][k] = IF k = NameKey[n] THEN e ELSE m_stmts[s][k]
    BY PutEffect
  <1>2. NameKey[n] \in NameKeys
    BY UsersAssumption
  <1>3. ASSUME NEW k \in NameKeys PROVE CurrentAt(s, k)'
    <2>1. CASE k = NameKey[n]
      BY <1>1, <2>1 DEF CurrentAt
    <2>2. CASE k # NameKey[n]
      <3>1. CurrentAt(s, k) /\ m_stmts'[s][k] = m_stmts[s][k]
        BY <1>1, <2>2, CurrentIs DEF CacheInv, AllCurrent
      <3>2. ~ (op[s].at = "save" /\ NameKey[op[s].name] = k)
        BY <2>2
      <3>3. QED
        BY <3>1, <3>2 DEF CurrentAt
    <2>3. QED
      BY <2>1, <2>2
  <1>4. op'[s].at = "dropRow" => m_stmts'[s][NameKey[op'[s].name]].is # "stmt"
    BY <1>1, <1>2
  <1>5. QED
    BY <1>3, <1>4, CacheLocally

\* A step that leaves the table and the rows alone
LEMMA StillCurrent ==
    ASSUME OneServer, TypeOK, TypeOK', CacheInv, NEW s \in Servers,
           UNCHANGED <<SPROCS, m_stmts>>,
           op'[s] = op[s] \/ (op[s].at # "save" /\ op'[s].at # "dropRow")
    PROVE  CacheInv'
  <1>1. ASSUME NEW k \in NameKeys PROVE CurrentAt(s, k)'
    <2>1. CurrentAt(s, k)
      BY CurrentIs DEF CacheInv, AllCurrent
    <2>2. QED
      BY <2>1 DEF CurrentAt
  <1>2. op'[s].at = "dropRow" => m_stmts'[s][NameKey[op'[s].name]].is # "stmt"
    BY DEF CacheInv, DropsUncached, Cached
  <1>3. QED
    BY <1>1, <1>2, CacheLocally

\* A step of the one server on procedures keeps its table current
LEMMA StmtStepCurrent ==
    ASSUME OneServer, TypeOK, TypeOK', CacheInv, NEW s \in Servers, StmtStep(s)
    PROVE  CacheInv'
  <1>0. \A k \in NameKeys : CurrentAt(s, k)
    BY CurrentIs DEF CacheInv, AllCurrent
  <1>1. CASE ReplaceProc(s)
    <2>1. /\ op[s].at = "replace" /\ op[s].name \in Names /\ op[s].text \in Texts
          /\ Put(s, op[s].name, Stmt(op[s].name, op[s].text))
          /\ op'[s].at = "save" /\ op'[s].name = op[s].name /\ op'[s].text = op[s].text
          /\ SPROCS' = SPROCS \/ SPROCS' = [SPROCS EXCEPT ![op[s].name] = NoText]
      BY <1>1, ReplaceEffect
    <2>2. Stmt(op[s].name, op[s].text) \in Entry
      BY <2>1, Entries
    <2>3. \A k \in NameKeys :
            m_stmts'[s][k] = IF k = NameKey[op[s].name]
                             THEN Stmt(op[s].name, op[s].text) ELSE m_stmts[s][k]
      BY <2>1, <2>2, PutEffect
    <2>4. ASSUME NEW k \in NameKeys PROVE CurrentAt(s, k)'
      <3>1. CASE k = NameKey[op[s].name]
        BY <2>1, <2>3, <3>1, Entries DEF CurrentAt
      <3>2. CASE k # NameKey[op[s].name]
        <4>1. CurrentAt(s, k) /\ m_stmts'[s][k] = m_stmts[s][k]
          BY <1>0, <2>3, <3>2
        <4>2. m_stmts[s][k].is = "stmt" =>
                SPROCS'[m_stmts[s][k].name] = SPROCS[m_stmts[s][k].name]
          BY <2>1, <3>2, <4>1, CachedNames DEF CurrentAt, TypeOK
        <4>3. QED
          BY <2>1, <4>1, <4>2 DEF CurrentAt
      <3>3. QED
        BY <3>1, <3>2
    <2>5. QED
      BY <2>1, <2>4, CacheLocally
  <1>2. CASE SaveProc(s)
    <2>1. /\ op[s].at = "save" /\ op[s].name \in Names /\ op[s].text \in Texts
          /\ op'[s] = NoOp
      BY <1>2, SaveEffect
    <2>2. CASE /\ SPROCS[op[s].name] = NoText /\ m_stmts' = m_stmts
               /\ SPROCS' = [SPROCS EXCEPT ![op[s].name] = op[s].text]
      <3>1. ASSUME NEW k \in NameKeys, m_stmts[s][k].is = "stmt" PROVE CurrentAt(s, k)'
        <4>1. CurrentAt(s, k) /\ m_stmts[s][k].text \in Texts /\ m_stmts[s][k].name \in Names
          BY <1>0, <3>1, CachedNames
        <4>2. \A n \in Names : SPROCS'[n] = IF n = op[s].name THEN op[s].text ELSE SPROCS[n]
          BY <2>1, <2>2 DEF TypeOK
        <4>3. SPROCS'[m_stmts[s][k].name] = m_stmts[s][k].text
          BY <2>2, <3>1, <4>1, <4>2, TextsAssumption DEF CurrentAt
        <4>4. QED
          BY <2>2, <3>1, <4>1, <4>3 DEF CurrentAt
      <3>2. \A k \in NameKeys : CurrentAt(s, k)'
        BY <2>2, <3>1 DEF CurrentAt
      <3>3. QED
        BY <2>1, <3>2, CacheLocally DEF NoOp
    <2>3. CASE Put(s, op[s].name, Freed) /\ SPROCS' = SPROCS
      BY <2>1, <2>3, PutCurrent, Entries DEF NoOp
    <2>4. QED
      BY <1>2, <2>2, <2>3, SaveEffect
  <1>3. CASE DropRow(s)
    <2>1. /\ op[s].at = "dropRow" /\ op[s].name \in Names
          /\ op'[s] = NoOp /\ m_stmts' = m_stmts
          /\ SPROCS' = SPROCS \/ SPROCS' = [SPROCS EXCEPT ![op[s].name] = NoText]
      BY <1>3, DropEffect
    <2>2. m_stmts[s][NameKey[op[s].name]].is # "stmt"
      BY <2>1 DEF CacheInv, DropsUncached, Cached
    <2>3. ASSUME NEW k \in NameKeys, m_stmts[s][k].is = "stmt" PROVE CurrentAt(s, k)'
      <3>1. CurrentAt(s, k)
        BY <1>0
      <3>2. m_stmts[s][k].name # op[s].name
        BY <2>2, <2>3, <3>1 DEF CurrentAt
      <3>3. SPROCS'[m_stmts[s][k].name] = SPROCS[m_stmts[s][k].name]
        BY <2>1, <2>3, <3>2, CachedNames DEF TypeOK
      <3>4. QED
        BY <2>1, <2>3, <3>1, <3>3 DEF CurrentAt
    <2>4. \A k \in NameKeys : CurrentAt(s, k)'
      BY <2>1, <2>3 DEF CurrentAt
    <2>5. QED
      BY <2>1, <2>4, CacheLocally DEF NoOp
  <1>4. CASE LoadProc(s)
    <2>1. /\ SPROCS' = SPROCS /\ op[s].name \in Names /\ op[s].at = "load" /\ op'[s] = NoOp
      BY <1>4, LoadEffect
    <2>2. PICK r \in Results :
            \/ /\ SPROCS[op[s].name] # NoText /\ r = SPROCS[op[s].name]
               /\ Put(s, op[s].name, Stmt(op[s].name, r))
               /\ Stmt(op[s].name, r) \in Entry
            \/ m_stmts' = m_stmts
      BY <1>4, LoadEffect
    <2>3. CASE m_stmts' = m_stmts
      BY <2>1, <2>3, StillCurrent DEF NoOp
    <2>4. CASE /\ r = SPROCS[op[s].name]
               /\ Put(s, op[s].name, Stmt(op[s].name, r))
               /\ Stmt(op[s].name, r) \in Entry
      <3>1. Stmt(op[s].name, r).name = op[s].name /\ Stmt(op[s].name, r).text = r
        BY Entries
      <3>2. op[s].at # "save" /\ op'[s].at # "dropRow"
        BY <2>1 DEF NoOp
      <3>3. QED
        BY <2>1, <2>4, <3>1, <3>2, PutCurrent
    <2>5. QED
      BY <2>2, <2>3, <2>4
  <1>5. CASE ListProcs(s)
    <2>1. SPROCS' = SPROCS /\ op' = op /\ op[s] = NoOp
      BY <1>5 DEF ListProcs, Ready
    <2>2. ASSUME NEW k \in NameKeys PROVE CurrentAt(s, k)'
      <3>1. CASE m_stmts'[s][k] = Absent
        BY <3>1, Entries DEF CurrentAt
      <3>2. CASE \E n \in Names : NameKey[n] = k /\ m_stmts'[s][k] = Stmt(n, SPROCS[n])
        BY <2>1, <3>2, Entries DEF CurrentAt
      <3>3. QED
        BY <1>5, <3>1, <3>2, ListEffect
    <2>3. op'[s].at # "dropRow"
      BY <2>1 DEF NoOp
    <2>4. QED
      BY <2>2, <2>3, CacheLocally
  <1>6. ASSUME NEW n \in Names, ShowProc(s, n) PROVE CacheInv'
    BY <1>6, StillCurrent DEF ShowProc
  <1>7. ASSUME NEW n \in Names, NEW uid \in Uids, Exec(s, uid, n) PROVE CacheInv'
    <2>1. op[s] = NoOp /\ UNCHANGED <<SPROCS, m_stmts>>
      BY <1>7, ExecStepEffect
    <2>2. op'[s] = op[s] \/ op'[s] = [at |-> "load", name |-> n, uid |-> uid]
      BY <1>7, ExecStepEffect
    <2>3. op'[s] = op[s] \/ (op[s].at # "save" /\ op'[s].at # "dropRow")
      BY <2>1, <2>2 DEF NoOp
    <2>4. QED
      BY <2>1, <2>3, StillCurrent
  <1>8. ASSUME NEW n \in Names, NEW uid \in Uids, DropProc(s, uid, n) PROVE CacheInv'
    <2>1. /\ op[s] = NoOp /\ Put(s, n, Null) /\ SPROCS' = SPROCS
          /\ op'[s] = [at |-> "dropRow", name |-> n]
      BY <1>8, DropEffect
    <2>2. op[s].at # "save" /\ op'[s].name = n
      BY <2>1 DEF NoOp
    <2>3. QED
      BY <2>1, <2>2, PutCurrent, Entries
  <1>9. ASSUME NEW n \in Names, NEW uid \in Uids, NEW t \in Texts, CreateProc(s, uid, n, t)
        PROVE  CacheInv'
    <2>0. op[s] = NoOp /\ SPROCS' = SPROCS
      BY <1>9, CreateEffect
    <2>1. op[s].at # "save" /\ SPROCS' = SPROCS
      BY <2>0 DEF NoOp
    <2>2. CASE Put(s, n, Stmt(n, t)) /\ op'[s] = [at |-> "save", name |-> n, text |-> t]
      <3>1. /\ Stmt(n, t) \in Entry /\ Stmt(n, t).text = t /\ Stmt(n, t).name = n
            /\ op'[s].at = "save" /\ op'[s].name = n /\ op'[s].text = t
        BY <2>2, Entries
      <3>2. QED
        BY <2>1, <2>2, <3>1, PutCurrent
    <2>3. CASE Put(s, n, Freed) /\ op'[s] = [at |-> "replace", name |-> n, text |-> t]
      <3>1. op'[s].at # "dropRow"
        BY <2>3
      <3>2. QED
        BY <2>1, <2>3, <3>1, PutCurrent, Entries
    <2>4. QED
      BY <1>9, <2>2, <2>3, CreateEffect
  <1>10. QED
    BY <1>1, <1>2, <1>3, <1>4, <1>5, <1>6, <1>7, <1>8, <1>9 DEF StmtStep

\* Every step of the one server keeps its table current
LEMMA CacheKept ==
    ASSUME OneServer, TypeOK, UsersInv, CacheInv, Next
    PROVE  CacheInv'
  <1>0. TypeOK'
    BY TypesKept
  <1>1. CASE /\ UNCHANGED stmtVars
             /\ \A t \in Servers : \/ op'[t] = op[t]
                                   \/ op[t].at \in UserPlaces /\ op'[t].at \in UserPlaces
    <2>1. CASE Servers = {}
      BY <2>1 DEF CacheInv, CacheCurrent, DropsUncached
    <2>2. CASE Servers # {}
      <3>1. PICK s \in Servers : TRUE
        BY <2>2
      <3>2. UNCHANGED <<SPROCS, m_stmts>>
        BY <1>1 DEF stmtVars
      <3>3. op'[s] = op[s] \/ (op[s].at # "save" /\ op'[s].at # "dropRow")
        BY <1>1 DEF UserPlaces
      <3>4. QED
        BY <1>0, <3>2, <3>3, StillCurrent
    <2>3. QED
      BY <2>1, <2>2
  <1>2. CASE \E s \in Servers : /\ op' = [op EXCEPT ![s] = NoOp]
                                /\ m_stmts' = [m_stmts EXCEPT ![s] = NoEntries]
    <2>1. PICK s \in Servers : /\ op' = [op EXCEPT ![s] = NoOp]
                               /\ m_stmts' = [m_stmts EXCEPT ![s] = NoEntries]
      BY <1>2
    <2>2. op'[s] = NoOp /\ \A k \in NameKeys : m_stmts'[s][k] = Absent
      BY <2>1 DEF TypeOK, NoEntries
    <2>3. \A k \in NameKeys : CurrentAt(s, k)'
      BY <2>2, Entries DEF CurrentAt
    <2>4. op'[s].at # "dropRow"
      BY <2>2 DEF NoOp
    <2>5. QED
      BY <1>0, <2>3, <2>4, CacheLocally
  <1>3. CASE \E s \in Servers : StmtStep(s)
    BY <1>0, <1>3, StmtStepCurrent
  <1>4. QED
    BY <1>1, <1>2, <1>3, Steps

-----------------------------------------------------------------------------
(* The theorems                                                            *)

\* The invariants hold at first, on a database without procedures
LEMMA InitAll == Init => TypeOK /\ UsersInv /\ SavedInv /\ AuthorisedInv /\ CacheInv
  <1> SUFFICES ASSUME Init PROVE TypeOK /\ UsersInv /\ SavedInv /\ AuthorisedInv /\ CacheInv
    OBVIOUS
  <1>1. UsersInv /\ op \in [Servers -> UserOp] /\ op = [s \in Servers |-> NoOp]
    BY InitInv DEF Init, UsersInit
  <1>2. \A s \in Servers : op[s].at = "none"
    BY <1>1 DEF NoOp
  <1>3. /\ SPROCS = [n \in Names |-> NoText] /\ saved = {}
        /\ \A s \in Servers, k \in NameKeys : m_stmts[s][k] = Absent
        /\ \A s \in Servers : answer[s] = NoAnswer
    BY DEF Init, NoEntries
  <1>4. TypeOK
    <2>1. NoAnswer \in [name : Names \cup {"none"}, uid : Uids \cup {"none"},
                        result : Texts \cup {"none", "not found", "unavailable", "undefined"},
                        turn : BOOLEAN]
      BY DEF NoAnswer
    <2>2. m_stmts \in [Servers -> [NameKeys -> Entry]]
      BY Entries DEF Init, NoEntries
    <2>3. answer \in [Servers -> [name : Names \cup {"none"}, uid : Uids \cup {"none"},
                                  result : Texts \cup {"none", "not found", "unavailable",
                                                       "undefined"},
                                  turn : BOOLEAN]]
      BY <2>1 DEF Init
    <2>4. QED
      BY <1>1, <1>3, <2>2, <2>3 DEF TypeOK, UsersInv
  <1>5. SavedInv
    <2>1. StmtsSaved /\ RowsSaved
      BY <1>3, Entries DEF StmtsSaved, RowsSaved
    <2>2. RunsSaved
      <3>1. "none" \notin Texts /\ NoAnswer.result = "none"
        BY TextsAssumption DEF NoAnswer
      <3>2. QED
        BY <1>3, <3>1 DEF RunsSaved
    <2>3. QED
      BY <2>1, <2>2 DEF SavedInv
  <1>6. AuthorisedInv
    BY <1>2, <1>3 DEF AuthorisedInv, LoadsAuthorised, RunsAuthorised, NoAnswer
  <1>7. CacheInv
    BY <1>2, <1>3, Entries DEF CacheInv, CacheCurrent, DropsUncached
  <1>8. QED
    BY <1>1, <1>4, <1>5, <1>6, <1>7

\* A step in which nothing happens keeps them
LEMMA StutterAll ==
    ASSUME TypeOK, UsersInv, SavedInv, AuthorisedInv, UNCHANGED vars
    PROVE  /\ TypeOK' /\ UsersInv' /\ SavedInv' /\ AuthorisedInv'
           /\ CacheInv => CacheInv'
  <1>1. /\ UNCHANGED <<fileVars, cacheVars, phase, todo, histVars, op, failures>>
        /\ UNCHANGED <<SPROCS, m_stmts, saved, answer>>
    BY DEF vars, userVars, runVars, stmtVars
  <1>2. UsersInv'
    BY <1>1, StutterInv DEF UsersInv, UsersTypes, OpsTyped
  <1>3. TypeOK'
    BY <1>1, <1>2 DEF TypeOK, UsersInv
  <1>4. SavedInv'
    BY <1>1 DEF SavedInv, StmtsSaved, RowsSaved, RunsSaved
  <1>5. AuthorisedInv'
    BY <1>1 DEF AuthorisedInv, LoadsAuthorised, RunsAuthorised, Authorised, fileVars
  <1>6. CacheInv => CacheInv'
    BY <1>1 DEF CacheInv, CacheCurrent, DropsUncached, Cached
  <1>7. QED
    BY <1>2, <1>3, <1>4, <1>5, <1>6

\* The inductive invariant of any number of servers
StmtInv == TypeOK /\ UsersInv /\ SavedInv /\ AuthorisedInv

\* The inductive invariant holds throughout
THEOREM StmtInvariance == Spec => []StmtInv
  <1>1. Init => StmtInv
    BY InitAll DEF StmtInv
  <1>2. StmtInv /\ [Next]_vars => StmtInv'
    <2>1. ASSUME StmtInv, Next PROVE StmtInv'
      BY <2>1, UsersKept, TypesKept, SavedKept, AuthorisedKept DEF StmtInv
    <2>2. ASSUME StmtInv, UNCHANGED vars PROVE StmtInv'
      BY <2>2, StutterAll DEF StmtInv
    <2>3. QED
      BY <2>1, <2>2
  <1>3. QED
    BY <1>1, <1>2, PTL DEF Spec

\* Every state of the servers and of what they have on file is well typed
THEOREM StmtTypeCorrect == Spec => []TypeOK
  <1>1. StmtInv => TypeOK
    BY DEF StmtInv
  <1>2. QED
    BY <1>1, StmtInvariance, PTL

\* What a server executes or shows was saved under a spelling of its name, with
\* any number of servers on the database (saveProcedure, stmtmgrExec)
THEOREM RunsOnlySaved == Spec => []RunsSaved
  <1>1. StmtInv => RunsSaved
    BY DEF StmtInv, SavedInv
  <1>2. QED
    BY <1>1, StmtInvariance, PTL

\* A procedure is executed only for those whom the file authorises, with any
\* number of servers on the database (stmtmgrExec, usersHasPerm)
THEOREM RunsOnlyAuthorised == Spec => []RunsAuthorised
  <1>1. StmtInv => RunsAuthorised
    BY DEF StmtInv, AuthorisedInv
  <1>2. QED
    BY <1>1, StmtInvariance, PTL

\* The inductive invariant of one server holds throughout
LEMMA OneServerInvariance == ASSUME OneServer PROVE Spec => [](StmtInv /\ CacheInv)
  <1>1. Init => CacheInv
    BY InitAll
  <1>2. StmtInv /\ CacheInv /\ [Next]_vars => CacheInv'
    <2>1. ASSUME StmtInv, CacheInv, Next PROVE CacheInv'
      BY <2>1, CacheKept DEF StmtInv
    <2>2. ASSUME StmtInv, CacheInv, UNCHANGED vars PROVE CacheInv'
      BY <2>2, StutterAll DEF StmtInv
    <2>3. QED
      BY <2>1, <2>2
  <1>3. QED
    BY <1>1, <1>2, StmtInvariance, PTL DEF Spec

\* The table of a server that has the database for itself is what is on file
\* (stmtmgr.c)
THEOREM OneServerCurrent == ASSUME OneServer PROVE Spec => []CacheCurrent
  <1>1. StmtInv /\ CacheInv => CacheCurrent
    BY DEF CacheInv
  <1>2. QED
    BY <1>1, OneServerInvariance, PTL

-----------------------------------------------------------------------------
(* One server implements the catalogue                                     *)

\* An answer that is true of the rows is a step Ask of the catalogue
LEMMA ReplyMaps ==
    ASSUME TypeOK, NEW s \in Servers, NEW n \in Names, NEW uid \in Uids \cup {"none"},
           NEW r \in Texts \cup {"not found", "unavailable", "undefined"},
           Reply(s, uid, n, r), SPROCS' = SPROCS, TheCatalog!TrueOf(n, r)
    PROVE  TheCatalog!Next
  <1>1. r \in Results
    BY DEF Results
  <1>2. /\ answer'[s].name = n /\ answer'[s].result = r
        /\ answer'[s].turn = ~ answer[s].turn
        /\ \A t \in Servers \ {s} : answer'[t] = answer[t]
    BY <1>1, ReplyEffect
  <1>3. [t \in Servers |-> [name |-> answer'[t].name, result |-> answer'[t].result,
                            turn |-> answer'[t].turn]]
        = [[t \in Servers |-> [name |-> answer[t].name, result |-> answer[t].result,
                               turn |-> answer[t].turn]]
             EXCEPT ![s] = [name |-> n, result |-> r, turn |-> ~ @.turn]]
    BY <1>2
  <1>4. TheCatalog!Ask(s, n, r)
    BY <1>3 DEF TheCatalog!Ask
  <1>5. QED
    BY <1>4 DEF TheCatalog!Next

\* A cached statement answers with what is on file
LEMMA ExecMaps ==
    ASSUME TypeOK, CacheInv, NEW s \in Servers, NEW n \in Names,
           NEW uid \in Uids \cup {"none"}, op[s] = NoOp, ExecCached(s, uid, n),
           SPROCS' = SPROCS
    PROVE  TheCatalog!Next
  <1>1. PICK r \in Results :
          /\ Reply(s, uid, n, r)
          /\ \/ r = "undefined"
             \/ Cached(s, n).is = "stmt" /\ r = Cached(s, n).text /\ r \in Texts
    BY ExecEffect
  <1>2. NameKey[n] \in NameKeys /\ op[s].at # "save"
    BY UsersAssumption DEF NoOp
  <1>3. CASE r = "undefined"
    <2>1. TheCatalog!TrueOf(n, r)
      BY <1>3 DEF TheCatalog!TrueOf
    <2>2. QED
      BY <1>1, <1>3, <2>1, ReplyMaps
  <1>4. CASE Cached(s, n).is = "stmt" /\ r = Cached(s, n).text /\ r \in Texts
    <2>1. CurrentAt(s, NameKey[n])
      BY <1>2, CurrentIs DEF CacheInv, AllCurrent
    <2>2. Cached(s, n).name \in Names
      BY <1>2, <1>4, CachedNames DEF Cached
    <2>3. NameKey[Cached(s, n).name] = NameKey[n] /\ SPROCS[Cached(s, n).name] = r
      BY <1>2, <1>4, <2>1 DEF CurrentAt, Cached
    <2>4. TheCatalog!TrueOf(n, r)
      BY <1>4, <2>2, <2>3 DEF TheCatalog!TrueOf
    <2>5. QED
      BY <1>1, <1>4, <2>4, ReplyMaps
  <1>5. QED
    BY <1>1, <1>3, <1>4

\* What the rows lose or gain while the answers stay
LEMMA RowsMap ==
    ASSUME answer' = answer, NEW n \in Names,
           \/ SPROCS' = [SPROCS EXCEPT ![n] = NoText]
           \/ SPROCS[n] = NoText /\ \E t \in Texts : SPROCS' = [SPROCS EXCEPT ![n] = t]
    PROVE  TheCatalog!Next
  <1>1. CASE SPROCS' = [SPROCS EXCEPT ![n] = NoText]
    BY <1>1 DEF TheCatalog!Next, TheCatalog!Remove
  <1>2. CASE SPROCS[n] = NoText /\ \E t \in Texts : SPROCS' = [SPROCS EXCEPT ![n] = t]
    BY <1>2 DEF TheCatalog!Next, TheCatalog!Define
  <1>3. QED
    BY <1>1, <1>2

\* Every step of one server is a step of the catalogue or none
LEMMA NextMaps ==
    ASSUME TypeOK, CacheInv, [Next]_vars
    PROVE  [TheCatalog!Next]_TheCatalog!catalogVars
  <1>1. ASSUME UNCHANGED <<SPROCS, answer>> PROVE UNCHANGED TheCatalog!catalogVars
    BY <1>1 DEF TheCatalog!catalogVars
  <1>2. CASE UNCHANGED vars
    BY <1>1, <1>2 DEF vars, stmtVars
  <1>3. ASSUME NEW s \in Servers, StmtStep(s)
        PROVE  TheCatalog!Next \/ UNCHANGED <<SPROCS, answer>>
    <2>1. CASE ReplaceProc(s)
      BY <2>1, ReplaceEffect, RowsMap
    <2>2. CASE SaveProc(s)
      BY <2>2, SaveEffect, RowsMap
    <2>3. CASE DropRow(s)
      BY <2>3, DropEffect, RowsMap
    <2>4. CASE LoadProc(s)
      <3>1. op[s].name \in Names /\ op[s].uid \in Uids /\ SPROCS' = SPROCS
        BY <2>4, LoadEffect
      <3>2. PICK r \in Results :
              /\ Reply(s, op[s].uid, op[s].name, r)
              /\ \/ r = SPROCS[op[s].name] /\ r \in Texts
                 \/ SPROCS[op[s].name] = NoText /\ r = "not found"
                 \/ r = "unavailable"
        BY <2>4, LoadEffect
      <3>3. TheCatalog!TrueOf(op[s].name, r)
        BY <3>1, <3>2 DEF TheCatalog!TrueOf
      <3>4. QED
        BY <3>1, <3>2, <3>3, ReplyMaps
    <2>5. CASE ListProcs(s)
      BY <2>5 DEF ListProcs
    <2>6. ASSUME NEW n \in Names, ShowProc(s, n) PROVE TheCatalog!Next
      BY <2>6, ExecMaps DEF ShowProc, Ready
    <2>7. ASSUME NEW n \in Names, NEW uid \in Uids, Exec(s, uid, n)
          PROVE  TheCatalog!Next \/ UNCHANGED <<SPROCS, answer>>
      BY <2>7, ExecStepEffect, ExecMaps
    <2>8. ASSUME NEW n \in Names, NEW uid \in Uids,
                 DropProc(s, uid, n) \/ \E t \in Texts : CreateProc(s, uid, n, t)
          PROVE  UNCHANGED <<SPROCS, answer>>
      BY <2>8, DropEffect, CreateEffect
    <2>9. QED
      BY <1>3, <2>1, <2>2, <2>3, <2>4, <2>5, <2>6, <2>7, <2>8 DEF StmtStep
  <1>4. CASE Next
    <2>1. TheCatalog!Next \/ UNCHANGED <<SPROCS, answer>>
      BY <1>3, <1>4, Steps DEF stmtVars
    <2>2. QED
      BY <1>1, <2>1
  <1>5. QED
    BY <1>2, <1>4

\* A server that has the database for itself implements the catalogue: whatever
\* it answers is true of the rows at that moment (stmtmgr.c)
THEOREM OneServerImplementsCatalog == ASSUME OneServer PROVE Spec => ImplementsCatalog
  <1>1. Init => TheCatalog!Init
    <2>1. ASSUME Init
          PROVE  [s \in Servers |-> [name |-> answer[s].name, result |-> answer[s].result,
                                     turn |-> answer[s].turn]]
                 = [c \in Servers |-> [name |-> "none", result |-> "none", turn |-> FALSE]]
      BY <2>1 DEF Init, NoAnswer
    <2>2. QED
      BY <2>1 DEF Init, TheCatalog!Init, TheCatalog!NoAnswer
  <1>2. StmtInv /\ CacheInv /\ [Next]_vars => [TheCatalog!Next]_TheCatalog!catalogVars
    BY NextMaps DEF StmtInv
  <1>3. QED
    BY <1>1, <1>2, OneServerInvariance, PTL DEF Spec, ImplementsCatalog, TheCatalog!Spec
=============================================================================
