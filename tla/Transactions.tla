---------------------------- MODULE Transactions ----------------------------
(***************************************************************************)
(* Transactions of the SQL server, in its build for Tandem: the branches   *)
(* of stmtmgrProcessSql and of stmtmgrExec (stmtmgr.c) that begin, resume, *)
(* suspend and end them.                                                   *)
(*                                                                         *)
(* The server is one process and serves one request after another.  Each   *)
(* request may name a transaction that an earlier one has begun; the       *)
(* process is made to join it, executes and suspends it again, so that the *)
(* next request, of another client, starts outside of any transaction.     *)
(* The transaction manager (TMF) is external: a call to it may fail, and   *)
(* it aborts a transaction whose time is up.                               *)
(*                                                                         *)
(* A request is a sequence of steps, one for each call of TMF and one for  *)
(* the execution; req.at is the next one.  A request that is refused       *)
(* before any of them (a nested BEGIN, an END without a transaction, no    *)
(* permission, a statement that is not prepared) changes nothing here and  *)
(* is not an action.                                                       *)
(***************************************************************************)
EXTENDS Naturals

CONSTANTS Clients,
          Trans,       \* bound: the transactions there can be
          NoTrans,     \* the transaction id 0
          MaxFailures  \* bound: calls of TMF that fail of themselves

ASSUME TransAssumption ==
    /\ NoTrans \notin Trans
    /\ MaxFailures \in Nat

VARIABLES
    tmf,       \* external: the state of each transaction
    current,   \* external: the transaction the process has joined
    told,      \* the transaction each client was told of
    req,       \* the request in service
    ran,       \* history: the last statement executed, and in which transaction
    mishap,    \* history: a call of TMF failed or a transaction timed out under the
               \* process, or one of the two paths was taken that do not leave it
    failures

vars == <<tmf, current, told, req, ran, mishap, failures>>

Statements == {"EXEC", "proc", "immediate"}
Ends       == {"COMMIT", "ABORT"}
Kinds      == Statements \cup Ends \cup {"BEGIN"}
Steps      == {"begin", "name", "park", "resume", "parse", "run", "suspend", "end"}

NoRun   == [kind |-> "none"]
NoReq   == [at |-> "none"]
Request == [client : Clients, kind : Kinds, trans : Trans \cup {NoTrans}, at : Steps]

Init ==
    /\ tmf = [t \in Trans |-> "free"]
    /\ current = NoTrans
    /\ told = [c \in Clients |-> NoTrans]
    /\ req = NoReq
    /\ ran = NoRun
    /\ mishap = FALSE
    /\ failures = 0

-----------------------------------------------------------------------------
Goto(step) == req' = [req EXCEPT !.at = step]
Answer     == req' = NoReq
At(step)   == req # NoReq /\ req.at = step
InTrans    == current # NoTrans /\ tmf[current] = "joined"
Run        == [kind |-> req.kind, trans |-> req.trans, in |-> current]

\* A call of TMF fails: by itself, or because it can only fail as things are
CallFails(able) ==
    IF able
    THEN /\ failures < MaxFailures
         /\ failures' = failures + 1
         /\ mishap' = TRUE
    ELSE UNCHANGED <<failures, mishap>>

\* The request SQL with the texts BEGIN, COMMIT and ABORT TRANSACTION and EXEC,
\* or any other text, which is prepared to be executed at once; and the request
\* that names a procedure.  A client names no transaction or the last it was
\* told of, which may have ended since.
FirstStep(k, t) ==
    CASE k = "BEGIN" -> "begin"
      [] k \in Ends -> "resume"
      [] k = "EXEC" -> IF t = NoTrans THEN "parse" ELSE "resume"
      [] OTHER -> IF t = NoTrans THEN "run" ELSE "resume"

Receive(c, k, t) ==
    /\ req = NoReq
    /\ t \in {NoTrans, told[c]}
    /\ k = "BEGIN" => t = NoTrans
    /\ k \in Ends => t # NoTrans
    /\ req' = [client |-> c, kind |-> k, trans |-> t, at |-> FirstStep(k, t)]
    /\ UNCHANGED <<tmf, current, told, ran, mishap, failures>>

-----------------------------------------------------------------------------
(* begintransRequest                                                       *)

\* TMF_TXBEGIN_; whatever it fails with, RESUMETRANSACTION(NULL) follows
BeginTrans ==
    /\ At("begin")
    /\ \/ \E t \in Trans :
            /\ tmf[t] = "free"
            /\ tmf' = [tmf EXCEPT ![t] = "joined"]
            /\ current' = t
            /\ Goto("name")
            /\ UNCHANGED <<failures, mishap>>
       \/ /\ CallFails(\E t \in Trans : tmf[t] = "free")
          /\ current' = NoTrans
          /\ Answer
          /\ UNCHANGED tmf
    /\ UNCHANGED <<told, ran>>

\* TMF_TXHANDLE_FROM_BEGINTAG_ and TMF_GET_TX_ID_; when one fails the function
\* returns inside of the transaction
NameTrans ==
    /\ At("name")
    /\ \/ Goto("park") /\ UNCHANGED <<failures, mishap>>
       \/ CallFails(TRUE) /\ Answer
    /\ UNCHANGED <<tmf, current, told, ran>>

\* suspendtrans; the client learns the id only if it succeeds, and the process
\* leaves the transaction in any case
ParkTrans ==
    /\ At("park")
    /\ \/ /\ tmf[current] = "joined"
          /\ tmf' = [tmf EXCEPT ![current] = "suspended"]
          /\ told' = [told EXCEPT ![req.client] = current]
          /\ UNCHANGED <<failures, mishap>>
       \/ /\ CallFails(tmf[current] = "joined")
          /\ UNCHANGED <<tmf, told>>
    /\ current' = NoTrans
    /\ Answer
    /\ UNCHANGED ran

-----------------------------------------------------------------------------
(* resumetrans and suspendtrans                                            *)

\* A mutant: a transaction that cannot be resumed is tried again
ResumeAgain ==
    /\ At("resume")
    /\ \/ /\ tmf[req.trans] = "suspended"
          /\ tmf' = [tmf EXCEPT ![req.trans] = "joined"]
          /\ current' = req.trans
          /\ Goto(IF req.kind \in Ends THEN "end" ELSE "run")
          /\ UNCHANGED <<failures, mishap>>
       \/ /\ CallFails(tmf[req.trans] = "suspended")
          /\ UNCHANGED <<tmf, current, req>>
    /\ UNCHANGED <<told, ran>>

\* A mutant: the result of TMF_RESUME_ is not looked at
ResumeBlindly ==
    /\ At("resume")
    /\ \/ /\ tmf[req.trans] = "suspended"
          /\ tmf' = [tmf EXCEPT ![req.trans] = "joined"]
          /\ current' = req.trans
          /\ UNCHANGED <<failures, mishap>>
       \/ /\ CallFails(tmf[req.trans] = "suspended")
          /\ UNCHANGED <<tmf, current>>
    /\ Goto(IF req.kind \in Ends THEN "end" ELSE "run")
    /\ UNCHANGED <<told, ran>>

\* What the caller goes on with: an immediate statement gives up when the
\* transaction was resumed and is executed when it was not
Resumed ==
    CASE req.kind \in Ends -> Goto("end")
      [] req.kind = "EXEC" -> Goto("parse")
      [] req.kind = "proc" -> Goto("run")
      [] req.kind = "immediate" -> Answer

\* A mutant: COMMIT and ABORT go on when the transaction was not resumed
NotResumedEnds ==
    CASE req.kind = "immediate" -> Goto("run")
      [] req.kind \in Ends -> Goto("end")
      [] OTHER -> Answer

NotResumed == IF req.kind = "immediate" THEN Goto("run") ELSE Answer

ResumeTrans ==
    /\ At("resume")
    /\ \/ /\ tmf[req.trans] = "suspended"
          /\ tmf' = [tmf EXCEPT ![req.trans] = "joined"]
          /\ current' = req.trans
          /\ Resumed
          /\ mishap' = (mishap \/ req.kind = "immediate")
          /\ UNCHANGED failures
       \/ /\ CallFails(tmf[req.trans] = "suspended")
          /\ NotResumed
          /\ UNCHANGED <<tmf, current>>
    /\ UNCHANGED <<told, ran>>

\* TMF_SUSPEND_ suspends the transaction of the process, whichever it is, and
\* RESUMETRANSACTION(NULL) leaves it; when the first fails there is no second
SuspendTrans ==
    /\ At("suspend")
    /\ \/ /\ InTrans
          /\ tmf' = [tmf EXCEPT ![current] = "suspended"]
          /\ current' = NoTrans
          /\ UNCHANGED <<failures, mishap>>
       \/ /\ CallFails(InTrans)
          /\ UNCHANGED <<tmf, current>>
    /\ Answer
    /\ UNCHANGED <<told, ran>>

-----------------------------------------------------------------------------
(* The statements                                                          *)

\* requestNewFromExecSql; a text that does not parse is answered at once
ParseExec ==
    /\ At("parse")
    /\ \/ Goto("run") /\ UNCHANGED mishap
       \/ /\ Answer
          /\ mishap' = (mishap \/ req.trans # NoTrans)
    /\ UNCHANGED <<tmf, current, told, ran, failures>>

\* A mutant: a procedure leaves the process in its transaction
RunAndStay ==
    /\ At("run")
    /\ ran' = Run
    /\ Answer
    /\ UNCHANGED <<tmf, current, told, mishap, failures>>

\* preparedstatementExec, in the transaction that the process is in; in one that
\* has ended no statement is executed, and one that is denied or not found is not
\* either
RunStatement ==
    /\ At("run")
    /\ \/ /\ current = NoTrans \/ InTrans
          /\ ran' = Run
       \/ UNCHANGED ran
    /\ IF req.trans = NoTrans THEN Answer ELSE Goto("suspend")
    /\ UNCHANGED <<tmf, current, told, mishap, failures>>

\* ENDTRANSACTION of comittransRequest and ABORTTRANSACTION of aborttransRequest
\* end the transaction of the process
EndTrans ==
    /\ At("end")
    /\ \/ /\ current # NoTrans /\ tmf[current] = "joined"
          /\ tmf' = [tmf EXCEPT ![current] =
                         IF req.kind = "COMMIT" THEN "committed" ELSE "aborted"]
          /\ current' = NoTrans
          /\ UNCHANGED <<failures, mishap>>
       \/ /\ CallFails(InTrans)
          /\ current' \in {current, NoTrans}
          /\ UNCHANGED tmf
    /\ Answer
    /\ UNCHANGED <<told, ran>>

-----------------------------------------------------------------------------
(* TMF                                                                     *)

\* A transaction is begun with a time limit, after which TMF aborts it
TimeOut(t) ==
    /\ tmf[t] \in {"suspended", "joined"}
    /\ tmf' = [tmf EXCEPT ![t] = "aborted"]
    /\ mishap' = (mishap \/ current = t)
    /\ UNCHANGED <<current, told, req, ran, failures>>

ServerStep ==
    \/ BeginTrans \/ NameTrans \/ ParkTrans \/ ResumeTrans \/ SuspendTrans
    \/ ParseExec \/ RunStatement \/ EndTrans

Next ==
    \/ ServerStep
    \/ \E t \in Trans : TimeOut(t)
    \/ \E c \in Clients, k \in Kinds, t \in Trans \cup {NoTrans} : Receive(c, k, t)

\* The process runs on: none of its calls waits for a client
Spec == Init /\ [][Next]_vars /\ WF_vars(ServerStep)

-----------------------------------------------------------------------------
(* Properties                                                              *)

\* Type invariant of the transactions of one server
TypeOK ==
    /\ tmf \in [Trans -> {"free", "joined", "suspended", "committed", "aborted"}]
    /\ current \in Trans \cup {NoTrans}
    /\ told \in [Clients -> Trans \cup {NoTrans}]
    /\ req \in {NoReq} \cup Request
    /\ ran \in {NoRun} \cup [kind : Statements, trans : Trans \cup {NoTrans},
                          in : Trans \cup {NoTrans}]
    /\ mishap \in BOOLEAN
    /\ failures \in 0..MaxFailures

\* A procedure whose request names a transaction is executed in that transaction
\* and in no other, whatever failed before it and whatever earlier requests left
\* behind (the calls of resumetrans in stmtmgrExec and in the branch of EXEC)
ProcedureInItsTransaction ==
    ran # NoRun /\ ran.kind # "immediate" /\ ran.trans # NoTrans => ran.in = ran.trans

\* As long as no call of TMF fails, no transaction times out under the process,
\* every EXEC with a transaction parses and no immediate statement has named a
\* live one, every request finds the process outside of any transaction: what a
\* client does without one never becomes part of another's (suspendtrans on all
\* the other paths)
StatementsStayApart ==
    ~ mishap =>
        /\ req = NoReq => current = NoTrans
        /\ ran # NoRun /\ ran.trans = NoTrans => ran.in = NoTrans

\* COMMIT and ABORT end the transaction that they name and never the one that an
\* earlier request has left the process in (comittransRequest, aborttransRequest)
EndsItsOwn ==
    [][\A t \in Trans :
         tmf'[t] \in {"committed", "aborted"} /\ tmf[t] # tmf'[t] /\ req # req' =>
             req.trans = t]_vars

\* Every request is answered, also one whose transaction is gone
Answered == req # NoReq ~> req = NoReq
=============================================================================
