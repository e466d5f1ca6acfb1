SPECIFICATION Spec
CONSTANTS
    c1 = c1  c2 = c2  x1 = x1  x2 = x2
    Clients <- TwoClients
    Trans <- TwoTrans
    NoTrans = NoTrans
    MaxFailures = 1
INVARIANTS ProcedureInItsTransaction StatementsStayApart
PROPERTIES EndsItsOwn Answered
