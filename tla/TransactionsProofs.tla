------------------------- MODULE TransactionsProofs -------------------------
(***************************************************************************)
(* Proofs about module Transactions, for any number of clients,            *)
(* transactions and failing calls of TMF.                                  *)
(***************************************************************************)
EXTENDS Transactions, TLAPS

\* What the steps of a request rely on: the kind and the transaction of the
\* request, and which transaction the process has joined when it gets there
StepsPrepared ==
    req # NoReq =>
        /\ req.at \in {"name", "park"} => current \in Trans
        /\ req.at = "resume" => req.trans \in Trans /\ req.kind # "BEGIN"
        /\ req.at \in {"parse", "run"} => req.kind \in Statements
        /\ req.at = "parse" => req.kind = "EXEC"
        /\ req.at \in {"parse", "run", "end"} /\ req.kind # "immediate" =>
              req.trans = NoTrans \/ current = req.trans
        /\ req.at = "end" => req.trans \in Trans /\ req.kind \in Ends

\* A process that has met no mishap is in no transaction, or in a live one and
\* in the middle of the request that has begun it or names it
Apart ==
    ~ mishap /\ current # NoTrans =>
        /\ tmf[current] = "joined"
        /\ req # NoReq
        /\ \/ req.at \in {"name", "park"}
           \/ req.at \in {"parse", "run", "end", "suspend"} /\ current = req.trans

\* The inductive invariant
TransInv ==
    TypeOK /\ StepsPrepared /\ ProcedureInItsTransaction /\ Apart /\ StatementsStayApart

-----------------------------------------------------------------------------

\* Going on to another step keeps the rest of the request
LEMMA GotoKeeps ==
    ASSUME NEW step \in Steps, req \in Request, Goto(step)
    PROVE  /\ req' \in Request
           /\ req' # NoReq
           /\ req'.at = step
           /\ req'.kind = req.kind /\ req'.trans = req.trans /\ req'.client = req.client
  <1>1. req' \in Request /\ req'.at = step
    BY DEF Goto, Request
  <1>2. req'.kind = req.kind /\ req'.trans = req.trans /\ req'.client = req.client
    BY DEF Goto, Request
  <1>3. step # "none"
    BY DEF Steps
  <1>4. QED
    BY <1>1, <1>2, <1>3 DEF NoReq

\* A request in service has the type of one
LEMMA InService ==
    ASSUME TypeOK, req # NoReq
    PROVE  req \in Request
  BY DEF TypeOK

\* A failing call is counted, up to the bound
LEMMA FailuresTyped ==
    ASSUME TypeOK, NEW STATE able, CallFails(able)
    PROVE  /\ failures' \in 0 .. MaxFailures
           /\ mishap' \in BOOLEAN
           /\ mishap' = FALSE => mishap = FALSE /\ ~ able
  <1>1. failures \in 0 .. MaxFailures /\ mishap \in BOOLEAN
    BY DEF TypeOK
  <1>2. CASE able
    <2>1. failures < MaxFailures /\ failures' = failures + 1 /\ mishap' = TRUE
      BY <1>2 DEF CallFails
    <2>2. failures' \in 0 .. MaxFailures
      BY <1>1, <2>1, TransAssumption
    <2>3. QED
      BY <1>1, <2>1, <2>2
  <1>3. CASE ~ able
    BY <1>1, <1>3 DEF CallFails
  <1>4. QED
    BY <1>2, <1>3

-----------------------------------------------------------------------------

\* No request is served and every transaction is free.
LEMMA InitInv == Init => TransInv
  <1> SUFFICES ASSUME Init PROVE TransInv
    OBVIOUS
  <1>1. TypeOK
    <2>1. failures \in 0 .. MaxFailures
      BY TransAssumption DEF Init
    <2>2. QED
      BY <2>1 DEF Init, TypeOK
  <1>2. StepsPrepared /\ ProcedureInItsTransaction /\ Apart /\ StatementsStayApart
    BY DEF Init, StepsPrepared, ProcedureInItsTransaction, Apart, StatementsStayApart
  <1>3. QED
    BY <1>1, <1>2 DEF TransInv

\* A request arrives (the step of the server loop that reads it).
LEMMA ReceiveInv ==
    ASSUME TransInv, NEW c \in Clients, NEW k \in Kinds, NEW t \in Trans \cup {NoTrans},
           Receive(c, k, t)
    PROVE  TransInv'
  <1>1. FirstStep(k, t) \in {"begin", "resume", "parse", "run"}
    BY DEF FirstStep
  <1>2. req' \in Request /\ req' # NoReq
    BY <1>1 DEF Receive, Request, Steps, NoReq
  <1>3. TypeOK'
    BY <1>2 DEF Receive, TransInv, TypeOK
  <1>4. StepsPrepared'
    <2>1. /\ FirstStep(k, t) = "resume" => t \in Trans /\ k # "BEGIN"
          /\ FirstStep(k, t) = "parse" => k = "EXEC" /\ t = NoTrans
          /\ FirstStep(k, t) = "run" => k \in Statements /\ t = NoTrans
      BY TransAssumption DEF Receive, FirstStep, Kinds, Statements, Ends
    <2>2. /\ req'.at = FirstStep(k, t)
          /\ req'.kind = k /\ req'.trans = t
      BY DEF Receive
    <2>3. QED
      BY <1>1, <2>1, <2>2 DEF StepsPrepared, Statements
  <1>5. ProcedureInItsTransaction'
    BY DEF Receive, TransInv, ProcedureInItsTransaction
  <1>6. Apart' /\ StatementsStayApart'
    BY <1>2 DEF Receive, TransInv, Apart, StatementsStayApart
  <1>7. QED
    BY <1>3, <1>4, <1>5, <1>6 DEF TransInv

\* The type of the transactions' states, step by step
LEMMA TmfTyped ==
    ASSUME TypeOK, NEW t \in Trans, NEW v \in {"joined", "suspended", "committed", "aborted"},
           tmf' = [tmf EXCEPT ![t] = v]
    PROVE  /\ tmf' \in [Trans -> {"free", "joined", "suspended", "committed", "aborted"}]
           /\ tmf'[t] = v
           /\ \A u \in Trans \ {t} : tmf'[u] = tmf[u]
  BY DEF TypeOK

\* What no step but RunStatement changes
LEMMA RanStays ==
    ASSUME TransInv, ran' = ran
    PROVE  /\ ProcedureInItsTransaction'
           /\ ~ mishap /\ ran' # NoRun /\ ran'.trans = NoTrans => ran'.in = NoTrans
  BY DEF TransInv, ProcedureInItsTransaction, StatementsStayApart

\* BEGIN takes a free transaction.
LEMMA BeginInv ==
    ASSUME TransInv, BeginTrans
    PROVE  TransInv'
  <1>0. TypeOK /\ req # NoReq /\ req \in Request /\ req.at = "begin"
    BY InService DEF TransInv, BeginTrans, At
  <1>1. CASE \E t \in Trans : /\ tmf[t] = "free"
                             /\ tmf' = [tmf EXCEPT ![t] = "joined"]
                             /\ current' = t
                             /\ Goto("name")
                             /\ UNCHANGED <<failures, mishap>>
    <2>1. PICK t \in Trans : /\ tmf' = [tmf EXCEPT ![t] = "joined"]
                             /\ current' = t
                             /\ Goto("name")
                             /\ UNCHANGED <<failures, mishap>>
      BY <1>1
    <2>2. req' \in Request /\ req' # NoReq /\ req'.at = "name"
      BY <1>0, <2>1, GotoKeeps DEF Steps
    <2>3. /\ tmf' \in [Trans -> {"free", "joined", "suspended", "committed", "aborted"}]
          /\ tmf'[t] = "joined"
      BY <1>0, <2>1, TmfTyped
    <2>4. TypeOK'
      BY <1>0, <2>1, <2>2, <2>3 DEF TypeOK, BeginTrans
    <2>5. StepsPrepared'
      BY <2>1, <2>2 DEF StepsPrepared
    <2>6. Apart'
      BY <2>1, <2>2, <2>3 DEF Apart
    <2>7. ProcedureInItsTransaction' /\ StatementsStayApart'
      BY <2>1, <2>2, RanStays DEF BeginTrans, StatementsStayApart
    <2>8. QED
      BY <2>4, <2>5, <2>6, <2>7 DEF TransInv
  <1>2. CASE /\ CallFails(\E t \in Trans : tmf[t] = "free")
             /\ current' = NoTrans
             /\ Answer
             /\ UNCHANGED tmf
    <2>1. /\ failures' \in 0 .. MaxFailures
          /\ mishap' \in BOOLEAN
          /\ mishap' = FALSE => mishap = FALSE
      BY <1>0, <1>2, FailuresTyped
    <2>2. TypeOK'
      BY <1>0, <1>2, <2>1 DEF TypeOK, BeginTrans, Answer
    <2>3. StepsPrepared' /\ Apart'
      BY <1>2 DEF StepsPrepared, Apart, Answer
    <2>4. ProcedureInItsTransaction' /\ StatementsStayApart'
      BY <1>2, <2>1, RanStays DEF BeginTrans, StatementsStayApart
    <2>5. QED
      BY <2>2, <2>3, <2>4 DEF TransInv
  <1>3. QED
    BY <1>1, <1>2 DEF BeginTrans

\* Its name is made for the client.
LEMMA NameInv ==
    ASSUME TransInv, NameTrans
    PROVE  TransInv'
  <1>0. TypeOK /\ req # NoReq /\ req \in Request /\ req.at = "name" /\ current \in Trans
    BY InService DEF TransInv, NameTrans, At, StepsPrepared
  <1>1. CASE Goto("park") /\ UNCHANGED <<failures, mishap>>
    <2>1. req' \in Request /\ req' # NoReq /\ req'.at = "park"
      BY <1>0, <1>1, GotoKeeps DEF Steps
    <2>2. TypeOK'
      BY <1>0, <1>1, <2>1 DEF TypeOK, NameTrans
    <2>3. StepsPrepared'
      BY <1>0, <2>1 DEF NameTrans, StepsPrepared
    <2>4. Apart'
      BY <1>0, <1>1, <2>1 DEF TransInv, NameTrans, Apart
    <2>5. ProcedureInItsTransaction' /\ StatementsStayApart'
      BY <1>1, <2>1, RanStays DEF NameTrans, StatementsStayApart
    <2>6. QED
      BY <2>2, <2>3, <2>4, <2>5 DEF TransInv
  <1>2. CASE CallFails(TRUE) /\ Answer
    <2>1. failures' \in 0 .. MaxFailures /\ mishap' \in BOOLEAN /\ mishap'
      BY <1>0, <1>2, FailuresTyped DEF CallFails
    <2>2. TypeOK'
      BY <1>0, <1>2, <2>1 DEF TypeOK, NameTrans, Answer
    <2>3. StepsPrepared' /\ Apart' /\ StatementsStayApart'
      BY <1>2, <2>1 DEF StepsPrepared, Apart, StatementsStayApart, Answer
    <2>4. ProcedureInItsTransaction'
      BY RanStays DEF NameTrans
    <2>5. QED
      BY <2>2, <2>3, <2>4 DEF TransInv
  <1>3. QED
    BY <1>1, <1>2 DEF NameTrans

\* It is suspended until the next request of the client.
LEMMA ParkInv ==
    ASSUME TransInv, ParkTrans
    PROVE  TransInv'
  <1>0. TypeOK /\ req # NoReq /\ req \in Request /\ req.at = "park" /\ current \in Trans
    BY InService DEF TransInv, ParkTrans, At, StepsPrepared
  <1>1. /\ failures' \in 0 .. MaxFailures
        /\ mishap' \in BOOLEAN
        /\ mishap' = FALSE => mishap = FALSE
    <2>1. CASE UNCHANGED <<failures, mishap>>
      BY <1>0, <2>1 DEF TypeOK
    <2>2. CASE CallFails(tmf[current] = "joined")
      BY <1>0, <2>2, FailuresTyped
    <2>3. QED
      BY <2>1, <2>2 DEF ParkTrans
  <1>2. tmf' \in [Trans -> {"free", "joined", "suspended", "committed", "aborted"}]
    <2>1. \/ tmf' = tmf
          \/ tmf' = [tmf EXCEPT ![current] = "suspended"]
      BY DEF ParkTrans
    <2>2. QED
      BY <1>0, <2>1 DEF TypeOK
  <1>3. told' \in [Clients -> Trans \cup {NoTrans}]
    <2>1. \/ told' = told
          \/ told' = [told EXCEPT ![req.client] = current]
      BY DEF ParkTrans
    <2>2. QED
      BY <1>0, <2>1 DEF TypeOK
  <1>4. TypeOK'
    BY <1>0, <1>1, <1>2, <1>3 DEF TypeOK, ParkTrans, Answer
  <1>5. StepsPrepared' /\ Apart'
    BY DEF ParkTrans, StepsPrepared, Apart, Answer
  <1>6. ProcedureInItsTransaction' /\ StatementsStayApart'
    BY <1>1, RanStays DEF ParkTrans, StatementsStayApart
  <1>7. QED
    BY <1>4, <1>5, <1>6 DEF TransInv

\* A request resumes the transaction that it names, or fails to.
LEMMA ResumeInv ==
    ASSUME TransInv, ResumeTrans
    PROVE  TransInv'
  <1>0. /\ TypeOK /\ req # NoReq /\ req \in Request /\ req.at = "resume"
        /\ req.trans \in Trans /\ req.kind \in Kinds \ {"BEGIN"}
    BY InService DEF TransInv, ResumeTrans, At, StepsPrepared, Request
  <1>1. CASE /\ tmf' = [tmf EXCEPT ![req.trans] = "joined"]
             /\ current' = req.trans
             /\ Resumed
             /\ mishap' = (mishap \/ req.kind = "immediate")
             /\ UNCHANGED failures
    <2>1. /\ tmf' \in [Trans -> {"free", "joined", "suspended", "committed", "aborted"}]
          /\ tmf'[req.trans] = "joined"
      BY <1>0, <1>1, TmfTyped
    <2>2. mishap' \in BOOLEAN
      BY <1>1
    <2>3. CASE req.kind = "immediate"
      <3>1. req' = NoReq /\ mishap'
        BY <1>1, <2>3 DEF Resumed, Answer, Ends
      <3>2. TypeOK'
        BY <1>0, <1>1, <2>1, <2>2, <3>1 DEF TypeOK, ResumeTrans
      <3>3. StepsPrepared' /\ Apart' /\ StatementsStayApart'
        BY <3>1 DEF StepsPrepared, Apart, StatementsStayApart
      <3>4. QED
        BY <3>2, <3>3, RanStays DEF TransInv, ResumeTrans
    <2>4. CASE req.kind # "immediate"
      <3>1. PICK step \in {"end", "parse", "run"} :
              /\ Goto(step)
              /\ step = "end" => req.kind \in Ends
              /\ step = "parse" => req.kind = "EXEC"
              /\ step = "run" => req.kind = "proc"
        BY <1>0, <1>1, <2>4 DEF Resumed, Kinds, Statements, Ends
      <3>2. /\ req' \in Request /\ req' # NoReq /\ req'.at = step
            /\ req'.kind = req.kind /\ req'.trans = req.trans
        BY <1>0, <3>1, GotoKeeps DEF Steps
      <3>3. TypeOK'
        BY <1>0, <1>1, <2>1, <2>2, <3>2 DEF TypeOK, ResumeTrans
      <3>4. StepsPrepared'
        BY <1>0, <1>1, <3>1, <3>2 DEF StepsPrepared, Statements
      <3>5. Apart'
        BY <1>1, <2>1, <3>2 DEF Apart
      <3>6. ProcedureInItsTransaction' /\ StatementsStayApart'
        BY <1>1, <3>2, RanStays DEF ResumeTrans, StatementsStayApart
      <3>7. QED
        BY <3>3, <3>4, <3>5, <3>6 DEF TransInv
    <2>5. QED
      BY <2>3, <2>4
  <1>2. CASE /\ CallFails(tmf[req.trans] = "suspended")
             /\ NotResumed
             /\ UNCHANGED <<tmf, current>>
    <2>1. /\ failures' \in 0 .. MaxFailures
          /\ mishap' \in BOOLEAN
          /\ mishap' = FALSE => mishap = FALSE
      BY <1>0, <1>2, FailuresTyped
    <2>2. mishap' = FALSE => current = NoTrans
      BY <1>0, <2>1 DEF TransInv, Apart
    <2>3. CASE req.kind = "immediate"
      <3>1. /\ req' \in Request /\ req' # NoReq /\ req'.at = "run"
            /\ req'.kind = req.kind /\ req'.trans = req.trans
        BY <1>0, <1>2, <2>3, GotoKeeps DEF NotResumed, Steps
      <3>2. TypeOK'
        BY <1>0, <1>2, <2>1, <3>1 DEF TypeOK, ResumeTrans
      <3>3. StepsPrepared'
        BY <2>3, <3>1 DEF StepsPrepared, Statements
      <3>4. Apart'
        BY <1>2, <2>1, <2>2 DEF Apart
      <3>5. ProcedureInItsTransaction' /\ StatementsStayApart'
        BY <2>1, <3>1, RanStays DEF ResumeTrans, StatementsStayApart
      <3>6. QED
        BY <3>2, <3>3, <3>4, <3>5 DEF TransInv
    <2>4. CASE req.kind # "immediate"
      <3>1. req' = NoReq
        BY <1>2, <2>4 DEF NotResumed, Answer
      <3>2. TypeOK'
        BY <1>0, <1>2, <2>1, <3>1 DEF TypeOK, ResumeTrans
      <3>3. StepsPrepared' /\ Apart'
        BY <1>2, <2>1, <2>2, <3>1 DEF StepsPrepared, Apart
      <3>4. ProcedureInItsTransaction' /\ StatementsStayApart'
        BY <1>2, <2>1, <2>2, RanStays DEF ResumeTrans, StatementsStayApart
      <3>5. QED
        BY <3>2, <3>3, <3>4 DEF TransInv
    <2>5. QED
      BY <2>3, <2>4
  <1>3. QED
    BY <1>1, <1>2 DEF ResumeTrans

\* The current transaction is suspended after the statement.
LEMMA SuspendInv ==
    ASSUME TransInv, SuspendTrans
    PROVE  TransInv'
  <1>0. TypeOK /\ req # NoReq /\ req \in Request /\ req.at = "suspend"
    BY InService DEF TransInv, SuspendTrans, At
  <1>1. CASE /\ InTrans
             /\ tmf' = [tmf EXCEPT ![current] = "suspended"]
             /\ current' = NoTrans
             /\ UNCHANGED <<failures, mishap>>
    <2>1. tmf' \in [Trans -> {"free", "joined", "suspended", "committed", "aborted"}]
      BY <1>0, <1>1 DEF TypeOK
    <2>2. TypeOK'
      BY <1>0, <1>1, <2>1 DEF TypeOK, SuspendTrans, Answer
    <2>3. StepsPrepared' /\ Apart'
      BY <1>1 DEF StepsPrepared, Apart, SuspendTrans, Answer
    <2>4. ProcedureInItsTransaction' /\ StatementsStayApart'
      BY <1>1, RanStays DEF SuspendTrans, StatementsStayApart
    <2>5. QED
      BY <2>2, <2>3, <2>4 DEF TransInv
  <1>2. CASE CallFails(InTrans) /\ UNCHANGED <<tmf, current>>
    <2>1. /\ failures' \in 0 .. MaxFailures
          /\ mishap' \in BOOLEAN
          /\ mishap' = FALSE => mishap = FALSE /\ ~ InTrans
      BY <1>0, <1>2, FailuresTyped
    <2>2. mishap' = FALSE => current = NoTrans
      BY <1>0, <2>1 DEF TransInv, Apart, InTrans
    <2>3. TypeOK'
      BY <1>0, <1>2, <2>1 DEF TypeOK, SuspendTrans, Answer
    <2>4. StepsPrepared' /\ Apart'
      BY <1>2, <2>1, <2>2 DEF StepsPrepared, Apart, SuspendTrans, Answer
    <2>5. ProcedureInItsTransaction' /\ StatementsStayApart'
      BY <1>2, <2>1, <2>2, RanStays DEF SuspendTrans, StatementsStayApart
    <2>6. QED
      BY <2>3, <2>4, <2>5 DEF TransInv
  <1>3. QED
    BY <1>1, <1>2 DEF SuspendTrans

\* The call of a stored procedure is taken apart.
LEMMA ParseInv ==
    ASSUME TransInv, ParseExec
    PROVE  TransInv'
  <1>0. /\ TypeOK /\ req # NoReq /\ req \in Request /\ req.at = "parse"
        /\ req.kind = "EXEC" /\ (req.trans = NoTrans \/ current = req.trans)
    BY InService DEF TransInv, ParseExec, At, StepsPrepared
  <1>1. CASE Goto("run") /\ UNCHANGED mishap
    <2>1. /\ req' \in Request /\ req' # NoReq /\ req'.at = "run"
          /\ req'.kind = req.kind /\ req'.trans = req.trans
      BY <1>0, <1>1, GotoKeeps DEF Steps
    <2>2. TypeOK'
      BY <1>0, <1>1, <2>1 DEF TypeOK, ParseExec
    <2>3. StepsPrepared'
      BY <1>0, <2>1 DEF ParseExec, StepsPrepared, Statements
    <2>4. Apart'
      BY <1>0, <1>1, <2>1 DEF TransInv, ParseExec, Apart
    <2>5. ProcedureInItsTransaction' /\ StatementsStayApart'
      BY <1>1, <2>1, RanStays DEF ParseExec, StatementsStayApart
    <2>6. QED
      BY <2>2, <2>3, <2>4, <2>5 DEF TransInv
  <1>2. CASE Answer /\ mishap' = (mishap \/ req.trans # NoTrans)
    <2>1. mishap' \in BOOLEAN /\ (~ mishap' => ~ mishap /\ req.trans = NoTrans)
      BY <1>2
    <2>2. ~ mishap' => current = NoTrans
      BY <1>0, <2>1 DEF TransInv, Apart
    <2>3. TypeOK'
      BY <1>0, <1>2, <2>1 DEF TypeOK, ParseExec, Answer
    <2>4. StepsPrepared' /\ Apart'
      BY <1>2, <2>2 DEF StepsPrepared, Apart, ParseExec, Answer
    <2>5. ProcedureInItsTransaction' /\ StatementsStayApart'
      BY <1>2, <2>1, <2>2, RanStays DEF ParseExec, StatementsStayApart
    <2>6. QED
      BY <2>3, <2>4, <2>5 DEF TransInv
  <1>3. QED
    BY <1>1, <1>2 DEF ParseExec

\* A statement runs in the transaction that is current.
LEMMA RunInv ==
    ASSUME TransInv, RunStatement
    PROVE  TransInv'
  <1>0. /\ TypeOK /\ req # NoReq /\ req \in Request /\ req.at = "run"
        /\ req.kind \in Statements
        /\ req.kind # "immediate" => req.trans = NoTrans \/ current = req.trans
    BY InService DEF TransInv, RunStatement, At, StepsPrepared
  <1>1. ~ mishap /\ req.trans = NoTrans => current = NoTrans
    BY <1>0 DEF TransInv, Apart
  <1>2. \/ req.trans = NoTrans /\ req' = NoReq
        \/ /\ req.trans # NoTrans
           /\ req' \in Request /\ req' # NoReq /\ req'.at = "suspend"
           /\ req'.trans = req.trans
    <2>1. CASE req.trans = NoTrans
      BY <2>1 DEF RunStatement, Answer
    <2>2. CASE req.trans # NoTrans
      BY <1>0, <2>2, GotoKeeps DEF RunStatement, Steps
    <2>3. QED
      BY <2>1, <2>2
  <1>3. /\ Run \in [kind : Statements, trans : Trans \cup {NoTrans},
                    in : Trans \cup {NoTrans}]
        /\ Run.kind = req.kind /\ Run.trans = req.trans /\ Run.in = current
    BY <1>0 DEF Run, Request, TypeOK
  <1>4. ran' = Run \/ ran' = ran
    BY DEF RunStatement
  <1>5. TypeOK'
    <2>1. req' \in {NoReq} \cup Request
      BY <1>2
    <2>2. ran' \in {NoRun} \cup [kind : Statements, trans : Trans \cup {NoTrans},
                                in : Trans \cup {NoTrans}]
      BY <1>0, <1>3, <1>4 DEF TypeOK
    <2>3. QED
      BY <1>0, <2>1, <2>2 DEF TypeOK, RunStatement
  <1>6. StepsPrepared'
    BY <1>2 DEF StepsPrepared
  <1>7. ProcedureInItsTransaction'
    BY <1>0, <1>3, <1>4, RanStays DEF ProcedureInItsTransaction
  <1>8. Apart'
    BY <1>0, <1>2, TransAssumption DEF TransInv, Apart, RunStatement
  <1>9. StatementsStayApart'
    <2>1. ~ mishap /\ ran' # NoRun /\ ran'.trans = NoTrans => ran'.in = NoTrans
      BY <1>1, <1>3, <1>4, RanStays
    <2>2. ~ mishap /\ req' = NoReq => current = NoTrans
      BY <1>1, <1>2
    <2>3. QED
      BY <2>1, <2>2 DEF StatementsStayApart, RunStatement
  <1>10. QED
    BY <1>5, <1>6, <1>7, <1>8, <1>9 DEF TransInv

\* COMMIT and ROLLBACK end the transaction that is current.
LEMMA EndInv ==
    ASSUME TransInv, EndTrans
    PROVE  TransInv'
  <1>0. /\ TypeOK /\ req # NoReq /\ req \in Request /\ req.at = "end"
        /\ req.trans \in Trans /\ req.kind \in Ends /\ current = req.trans
    BY InService, TransAssumption DEF TransInv, EndTrans, At, StepsPrepared, Ends
  <1>1. CASE /\ tmf' = [tmf EXCEPT ![current] =
                            IF req.kind = "COMMIT" THEN "committed" ELSE "aborted"]
             /\ current' = NoTrans
             /\ UNCHANGED <<failures, mishap>>
    <2>1. tmf' \in [Trans -> {"free", "joined", "suspended", "committed", "aborted"}]
      BY <1>0, <1>1 DEF TypeOK
    <2>2. TypeOK'
      BY <1>0, <1>1, <2>1 DEF TypeOK, EndTrans, Answer
    <2>3. StepsPrepared' /\ Apart'
      BY <1>1 DEF StepsPrepared, Apart, EndTrans, Answer
    <2>4. ProcedureInItsTransaction' /\ StatementsStayApart'
      BY <1>1, RanStays DEF EndTrans, StatementsStayApart
    <2>5. QED
      BY <2>2, <2>3, <2>4 DEF TransInv
  <1>2. CASE CallFails(InTrans) /\ current' \in {current, NoTrans} /\ UNCHANGED tmf
    <2>1. /\ failures' \in 0 .. MaxFailures
          /\ mishap' \in BOOLEAN
          /\ mishap' = FALSE => mishap = FALSE /\ ~ InTrans
      BY <1>0, <1>2, FailuresTyped
    <2>2. mishap' = FALSE => current' = NoTrans
      BY <1>0, <1>2, <2>1 DEF TransInv, Apart, InTrans
    <2>3. TypeOK'
      BY <1>0, <1>2, <2>1 DEF TypeOK, EndTrans, Answer
    <2>4. StepsPrepared' /\ Apart'
      BY <2>1, <2>2 DEF StepsPrepared, Apart, EndTrans, Answer
    <2>5. ProcedureInItsTransaction' /\ StatementsStayApart'
      BY <2>1, <2>2, RanStays DEF EndTrans, StatementsStayApart
    <2>6. QED
      BY <2>3, <2>4, <2>5 DEF TransInv
  <1>3. QED
    BY <1>1, <1>2 DEF EndTrans

\* The system aborts a transaction that took too long.
LEMMA TimeOutInv ==
    ASSUME TransInv, NEW t \in Trans, TimeOut(t)
    PROVE  TransInv'
  <1>0. TypeOK
    BY DEF TransInv
  <1>1. /\ tmf' \in [Trans -> {"free", "joined", "suspended", "committed", "aborted"}]
        /\ \A u \in Trans \ {t} : tmf'[u] = tmf[u]
    BY <1>0, TmfTyped DEF TimeOut
  <1>2. mishap' \in BOOLEAN /\ (~ mishap' => ~ mishap /\ current # t)
    BY DEF TimeOut
  <1>3. TypeOK'
    BY <1>0, <1>1, <1>2 DEF TypeOK, TimeOut
  <1>4. StepsPrepared'
    BY DEF TransInv, StepsPrepared, TimeOut
  <1>5. Apart'
    BY <1>0, <1>1, <1>2 DEF TransInv, TypeOK, Apart, TimeOut
  <1>6. ProcedureInItsTransaction' /\ StatementsStayApart'
    BY <1>2, RanStays DEF TransInv, TimeOut, StatementsStayApart
  <1>7. QED
    BY <1>3, <1>4, <1>5, <1>6 DEF TransInv

\* Every step keeps the invariant.
LEMMA StepInv == TransInv /\ [Next]_vars => TransInv'
  <1> SUFFICES ASSUME TransInv, [Next]_vars PROVE TransInv'
    OBVIOUS
  <1>1. CASE ServerStep
    BY <1>1, BeginInv, NameInv, ParkInv, ResumeInv, SuspendInv, ParseInv, RunInv, EndInv
       DEF ServerStep
  <1>2. CASE \E t \in Trans : TimeOut(t)
    BY <1>2, TimeOutInv
  <1>3. CASE \E c \in Clients, k \in Kinds, t \in Trans \cup {NoTrans} : Receive(c, k, t)
    BY <1>3, ReceiveInv
  <1>4. CASE UNCHANGED vars
    BY <1>4 DEF vars, TransInv, TypeOK, StepsPrepared, ProcedureInItsTransaction, Apart,
       StatementsStayApart
  <1>5. QED
    BY <1>1, <1>2, <1>3, <1>4 DEF Next

-----------------------------------------------------------------------------

\* The inductive invariant holds for any number of clients, transactions and
\* failing calls
THEOREM TransInvariance == Spec => []TransInv
  <1>1. QED
    BY InitInv, StepInv, PTL DEF Spec

\* The states of the server's transactions are well typed
THEOREM TransTypeCorrect == Spec => []TypeOK
  <1>1. TransInv => TypeOK
    BY DEF TransInv
  <1>2. QED
    BY <1>1, TransInvariance, PTL

\* A procedure whose request names a transaction is executed in it and in no
\* other, whatever failed, timed out or was left behind before
THEOREM ProceduresInTheirs == Spec => []ProcedureInItsTransaction
  <1>1. TransInv => ProcedureInItsTransaction
    BY DEF TransInv
  <1>2. QED
    BY <1>1, TransInvariance, PTL

\* Without a mishap what is no part of a transaction stays out of all of them
THEOREM StatementsApart == Spec => []StatementsStayApart
  <1>1. TransInv => StatementsStayApart
    BY DEF TransInv
  <1>2. QED
    BY <1>1, TransInvariance, PTL

\* Every step of a request but the last of COMMIT and ABORT leaves a transaction
\* as it is, joins it or suspends it
LEMMA OthersEndNothing ==
    ASSUME TypeOK, NEW t \in Trans, NEW u \in Trans, NEW v \in {"joined", "suspended"},
           tmf' = [tmf EXCEPT ![u] = v] \/ tmf' = tmf,
           tmf'[t] \in {"committed", "aborted"}
    PROVE  tmf'[t] = tmf[t]
  BY DEF TypeOK

\* COMMIT and ABORT end the transaction that they name and no other, for any
\* number of clients, transactions and failing calls
THEOREM EndsTheirOwn == Spec => EndsItsOwn
  <1> DEFINE Own == \A t \in Trans :
         tmf'[t] \in {"committed", "aborted"} /\ tmf[t] # tmf'[t] /\ req # req' =>
             req.trans = t
  <1>1. TransInv /\ [Next]_vars => [Own]_vars
    <2> SUFFICES ASSUME TransInv, Next, NEW t \in Trans,
                        tmf'[t] \in {"committed", "aborted"}, tmf[t] # tmf'[t], req # req'
                 PROVE  req.trans = t
      OBVIOUS
    <2>0. TypeOK /\ current \in Trans \cup {NoTrans}
      BY DEF TransInv, TypeOK
    <2>1. CASE BeginTrans
      BY <2>0, <2>1, OthersEndNothing DEF BeginTrans
    <2>2. CASE NameTrans \/ ParseExec \/ RunStatement
      BY <2>2 DEF NameTrans, ParseExec, RunStatement
    <2>3. CASE ParkTrans
      <3>1. current \in Trans
        BY <2>3, InService DEF TransInv, ParkTrans, At, StepsPrepared
      <3>2. QED
        BY <2>0, <2>3, <3>1, OthersEndNothing DEF ParkTrans
    <2>4. CASE ResumeTrans
      <3>1. req.trans \in Trans
        BY <2>4 DEF TransInv, ResumeTrans, At, StepsPrepared
      <3>2. QED
        BY <2>0, <2>4, <3>1, OthersEndNothing DEF ResumeTrans
    <2>5. CASE SuspendTrans
      BY <2>0, <2>5, OthersEndNothing DEF SuspendTrans, InTrans
    <2>6. CASE EndTrans
      <3>1. current = req.trans /\ current \in Trans
        BY <2>6, TransAssumption DEF TransInv, EndTrans, At, StepsPrepared, Ends
      <3>2. t # current => tmf'[t] = tmf[t]
        BY <2>0, <2>6, <3>1 DEF EndTrans, TypeOK
      <3>3. QED
        BY <3>1, <3>2
    <2>7. CASE \E u \in Trans : TimeOut(u)
      BY <2>7 DEF TimeOut
    <2>8. CASE \E c \in Clients, k \in Kinds, u \in Trans \cup {NoTrans} : Receive(c, k, u)
      BY <2>8 DEF Receive
    <2>9. QED
      BY <2>1, <2>2, <2>3, <2>4, <2>5, <2>6, <2>7, <2>8 DEF Next, ServerStep
  <1>2. QED
    BY <1>1, TransInvariance, PTL DEF Spec, EndsItsOwn
=============================================================================
