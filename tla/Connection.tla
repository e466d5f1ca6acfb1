----------------------------- MODULE Connection -----------------------------
(***************************************************************************)
(* One server and its connections: the loop of main (runcheck.c) from      *)
(* accept to close, the reading of a request from the socket (readRequest, *)
(* socket.c) and from the packet (packet.c, requestNew of request.c), the  *)
(* administration requests, and the statistics of the last calls           *)
(* (stats.c).  What a statement or a procedure does is the subject of      *)
(* StmtMgr and Transactions; here it is one of the answers that it can     *)
(* have.                                                                   *)
(*                                                                         *)
(* A message is a header, which declares the length of the body, and the   *)
(* body, a sequence of typed fields of unit length.  It arrives in pieces, *)
(* and the client may close the connection at any point.  The build is the *)
(* one of the Makefile, with DEBUG: an ASSERT that fails ends the server,  *)
(* and no time limit is set on the socket.                                 *)
(***************************************************************************)
EXTENDS Integers, Sequences, FiniteSets, FiniteSetsExt, SequencesExt

CONSTANTS Messages,   \* what clients send: [size, fields]
          Logons,     \* the pairs of user and password that userLogon accepts
          HISTLEN,    \* calls that the statistics keep
          MaxRecv,    \* the size of g_buf
          MaxCalls    \* bound: connections

\* The type of a field is the letter that packet.c reads; "xml" is what the server
\* writes
Fields == [type : STRING \ {"xml"}, v : STRING]

ASSUME ConnectionAssumption ==
    /\ HISTLEN \in Nat \ {0} /\ MaxRecv \in Nat \ {0} /\ MaxCalls \in Nat
    /\ Messages \subseteq [size : Nat, fields : Seq(Fields)]

VARIABLES
    phase,    \* where the loop is
    msg,      \* the message of the client that is connected
    arrived,  \* fields of it that have arrived; the header before the first
    hdr,      \* the header has arrived
    gone,     \* the client has closed its side
    size,     \* the length that the header declares
    buf,      \* sbuf: first the fields that were read, then the reply
    sent,     \* history: the reply sent on this connection, <<>> if none
    sendlen,  \* the variable of main, which outlives the connection
    g_calls, g_hist, g_recvlen, g_sendlen,  \* the statistics; g_hist[x] says
              \* whether a time is there, and is -1 in the code if not
    log       \* history: for each call the length it declared, the length that
              \* was recorded for its reply and the one it had, None without

statVars == <<g_calls, g_hist, g_recvlen, g_sendlen, log>>
sockVars == <<msg, arrived, hdr, gone>>
vars == <<phase, sockVars, size, buf, sent, sendlen, statVars>>

-----------------------------------------------------------------------------
(* The request in the packet                                               *)

Bad   == [is |-> "bad"]     \* requestNew returns NULL
Abort == [is |-> "abort"]   \* an ASSERT fails, and the server ends

\* A field that is there and is a string
IsText(fs, i) == i \in DOMAIN fs /\ fs[i].type = "S"

\* packetReadInt, packetReadLong, packetReadDouble: what follows a name
Valued(name, f) == [name |-> name, type |-> f.type, v |-> f.v]

\* The items are prepended as they are read
Items(fs) ==
    [i \in 1..((Len(fs) - 3) \div 2) |->
        LET j == Len(fs) + 1 - 2 * i IN Valued(fs[j].v, fs[j + 1])]

\* requestGetItem: the first item of the list with this name
Has(items, name) == \E i \in DOMAIN items : items[i].name = name
Get(items, name) ==
    items[CHOOSE i \in DOMAIN items :
             /\ items[i].name = name
             /\ \A j \in 1..(i - 1) : items[j].name # name]

Letters == {"S", "I", "L", "d"}

\* Where requestNew gives up: the name of the request, the user, the password or
\* the name of an item is missing or no string
Refused(fs) == {i \in 1..Max({3, Len(fs)}) : (i <= 3 \/ i % 2 = 0) /\ ~ IsText(fs, i)}

\* Where packetNextType meets its ASSERT: the name of the request or the value of
\* an item is missing or has no letter that is known
Asserted(fs) ==
    {i \in 1..(Len(fs) + 1) : /\ i = 1 \/ (i >= 5 /\ i % 2 = 1)
                              /\ i \in DOMAIN fs => fs[i].type \notin Letters}

\* The fields are read in order, and the first one that is wrong decides
requestNew(fs) ==
    LET wrong == Refused(fs) \cup Asserted(fs)
        trans == "%%TRANSACTION-ID%%"
    IN  IF wrong # {} THEN IF Min(wrong) \in Asserted(fs) THEN Abort ELSE Bad
        ELSE IF Has(Items(fs), trans) /\ Get(Items(fs), trans).type # "L" THEN Abort
        ELSE [is |-> "request", name |-> fs[1].v, userId |-> fs[2].v,
              password |-> fs[3].v, items |-> Items(fs)]

-----------------------------------------------------------------------------
(* The administration requests.  Each is the set of the answers it can     *)
(* have: rows, errors, and whether the server ends, by shutdown or by      *)
(* following the pointer of an item that is missing or is no string, which *)
(* is undefined.                                                           *)

Answer(rows, errors) == [rows |-> rows, errors |-> errors, end |-> "no"]
Crash == [rows |-> 0, errors |-> 0, end |-> "crashed"]
Rows  == {Answer(n, 0) : n \in 0..1}
IsString(req, name) == Has(req.items, name) /\ Get(req.items, name).type = "S"

logonAdminUser(req) == req.userId = "sa"

statsRow(req)        == {Answer(1, 0)}
echoRequest(req)     == {Answer(1 + Len(req.items), 0)}
shutdownRequest(req) ==
    IF logonAdminUser(req) THEN {[Answer(1, 0) EXCEPT !.end = "stopped"]}
    ELSE {Answer(0, 1)}
infodefinesRequest(req) == {Answer(1, 0), Answer(0, 1)}
invokeRequest(req) ==
    IF ~ Has(req.items, "define") THEN {Answer(0, 1)}
    ELSE IF ~ IsString(req, "define") THEN {Crash}
    ELSE Rows \cup {Answer(0, 1)}
syslistRequest(req)  == Rows
proclistRequest(req) == Rows
userlistRequest(req) ==
    IF logonAdminUser(req) THEN Rows ELSE {Answer(0, 2)}
userlistPermsRequest(req) ==
    IF ~ logonAdminUser(req) THEN {Answer(0, 2)}
    ELSE IF IsString(req, "userid") THEN Rows ELSE {Answer(0, 1)}
proccodeRequest(req) ==
    IF ~ Has(req.items, "system") \/ ~ Has(req.items, "procedure") THEN {Answer(0, 1)}
    ELSE IF ~ IsString(req, "system") \/ ~ IsString(req, "procedure") THEN {Crash}
    ELSE {Answer(1, 0), Answer(0, 1)}

adminRequest(req) ==
    IF ~ IsString(req, "COMMAND") THEN {Crash}
    ELSE LET cmd == Get(req.items, "COMMAND").v
         IN  CASE cmd = "stats"        -> statsRow(req)
               [] cmd = "ping"         -> echoRequest(req)
               [] cmd = "shutdown"     -> shutdownRequest(req)
               [] cmd = "info_defines" -> infodefinesRequest(req)
               [] cmd = "invoke"       -> invokeRequest(req)
               [] cmd = "systemslist"  -> syslistRequest(req)
               [] cmd = "proclist"     -> proclistRequest(req)
               [] cmd = "userlist"     -> userlistRequest(req)
               [] cmd = "userperms"    -> userlistPermsRequest(req)
               [] cmd = "displaysql"   -> proccodeRequest(req)
               [] OTHER                -> {Answer(0, 1)}

\* A sql or system that is no string is an error and is used all the same
sqlRequest(req) ==
    IF ~ logonAdminUser(req) \/ ~ Has(req.items, "sql") THEN {Answer(0, 1)}
    ELSE IF ~ Has(req.items, "system")
         THEN {Answer(0, IF IsString(req, "sql") THEN 1 ELSE 2)}
    ELSE IF ~ IsString(req, "sql") \/ ~ IsString(req, "system") THEN {Crash}
    ELSE Rows \cup {Answer(0, 1), Answer(1, 1)}

\* What stmtmgrExec did not find is looked for by serviceRequest, which has
\* nothing: two errors
executeDynamic(req) ==
    IF ~ IsString(req, "%%system%%") THEN {Answer(0, 1)}
    ELSE Rows \cup {Answer(0, 1), Answer(0, 2), Answer(1, 1)}

LoggedOn(req) == req.name = "ADMIN" \/ <<req.userId, req.password>> \in Logons

Dispatch(req) ==
    CASE ~ LoggedOn(req)    -> {Answer(0, 1)}
      [] req.name = "SQL"   -> sqlRequest(req)
      [] req.name = "ADMIN" -> adminRequest(req)
      [] OTHER              -> executeDynamic(req)

Xml(n, v)   == [i \in 1..n |-> [type |-> "xml", v |-> v]]
\* A mutant: a request that fails is answered without the end of the document
DocumentOpen(a) == Xml(1, "<ROWS>") \o Xml(a.rows, "row") \o Xml(a.errors, "error")
                       \o Xml(IF a.errors > 0 THEN 0 ELSE 1, "</ROWS>")

Document(a) == Xml(1, "<ROWS>") \o Xml(a.rows, "row") \o Xml(a.errors, "error")
                   \o Xml(1, "</ROWS>")

-----------------------------------------------------------------------------
(* The statistics                                                          *)

Slots == 0..(HISTLEN - 1)
Slot  == g_calls % HISTLEN
None  == 0 - 1

statsBeginCall(recvlen) ==
    /\ g_recvlen' = [g_recvlen EXCEPT ![Slot] = recvlen]
    /\ UNCHANGED <<g_calls, g_hist, g_sendlen, log>>

\* A mutant: the counter moves on between the entries of a call
EndCallEarly(len) ==
    /\ g_hist' = [g_hist EXCEPT ![Slot] = TRUE]
    /\ g_calls' = g_calls + 1
    /\ g_sendlen' = [g_sendlen EXCEPT ![g_calls' % HISTLEN] = len]
    /\ UNCHANGED g_recvlen

statsEndCall(len) ==
    /\ g_sendlen' = [g_sendlen EXCEPT ![Slot] = len]
    /\ g_hist' = [g_hist EXCEPT ![Slot] = TRUE]
    /\ g_calls' = g_calls + 1
    /\ UNCHANGED g_recvlen

\* A mutant: the average stops at the slot of the call that is being served
RecordedBefore == {x \in Slots : x < Slot /\ g_hist[x]}

\* What statsWriteRecord takes its averages over: the slots before the first one
\* without a time
Recorded == {x \in Slots : \A y \in 0..x : g_hist[y]}

statsWriteRecord ==
    [count |-> Cardinality(Recorded),
     recv  |-> MapThenSumSet(LAMBDA x : g_recvlen[x], Recorded),
     send  |-> MapThenSumSet(LAMBDA x : g_sendlen[x], Recorded)]

-----------------------------------------------------------------------------
(* The client's side                                                       *)

\* statsInit
Init ==
    /\ phase = "accept"
    /\ msg \in Messages /\ arrived = 0 /\ hdr = FALSE /\ gone = FALSE
    /\ size = 0 /\ buf = <<>> /\ sent = <<>> /\ sendlen = 0
    /\ g_calls = 0 /\ log = <<>>
    /\ g_hist = [x \in Slots |-> FALSE]
    /\ g_recvlen = [x \in Slots |-> None] /\ g_sendlen = [x \in Slots |-> None]

Connected == phase \in {"header", "body"}

\* The header, or one or more of the fields, arrive
Arrive ==
    /\ Connected /\ ~ gone
    /\ IF ~ hdr THEN hdr' = TRUE /\ UNCHANGED arrived
       ELSE UNCHANGED hdr /\ arrived' \in (arrived + 1)..Len(msg.fields)
    /\ UNCHANGED <<phase, msg, gone, size, buf, sent, sendlen, statVars>>

\* The client may go before its request is whole, and before its reply is sent
Leave ==
    /\ Connected \/ phase \in {"serve", "send", "last"}
    /\ ~ gone
    /\ gone' = TRUE
    /\ UNCHANGED <<phase, msg, arrived, hdr, size, buf, sent, sendlen, statVars>>

-----------------------------------------------------------------------------
(* The server                                                              *)

\* serversocketAccept; the rest of the state is as the last connection left it
Accept ==
    /\ phase = "accept" /\ g_calls < MaxCalls
    /\ phase' = "header"
    /\ msg' \in Messages
    /\ arrived' = 0 /\ hdr' = FALSE /\ gone' = FALSE
    /\ buf' = <<>> /\ sent' = <<>>
    /\ UNCHANGED <<size, sendlen, statVars>>

\* accept fails, and the loop ends; or the client has left again, so that
\* socketGetRemoteIp has no address and returns the NULL that main follows
AcceptFails ==
    /\ phase = "accept" /\ g_calls < MaxCalls
    /\ phase' \in {"stopped", "crashed"}
    /\ UNCHANGED <<sockVars, size, buf, sent, sendlen, statVars>>

\* socketRecvByte: a byte that the client did not send before it closed is 0
Declared == IF hdr THEN msg.size ELSE 0

\* socketGetBytesAvail
Available == arrived - Len(buf)

\* The bytes of the header are received with blocking calls
RecvHeader ==
    /\ phase = "header" /\ (hdr \/ gone)
    /\ size' = Declared
    /\ statsBeginCall(size')
    /\ phase' = "body"
    /\ UNCHANGED <<sockVars, buf, sent, sendlen>>

\* A mutant: more than was declared is taken for the request
ReadTooMuch ==
    /\ phase = "body" /\ arrived > Len(buf) /\ Len(buf) < size
    /\ buf' = SubSeq(msg.fields, 1, arrived)
    /\ phase' = IF arrived >= size THEN "serve" ELSE "body"
    /\ UNCHANGED <<sockVars, size, sent, sendlen, statVars>>

\* One turn of the loop of readRequest: what is there is received, at most a
\* buffer of it, and the request is complete when it has the declared length
ReadSome ==
    /\ phase = "body" /\ Available > 0 /\ Len(buf) < size
    /\ LET n == IF Available > MaxRecv THEN Len(buf) + MaxRecv ELSE arrived
       IN  /\ buf' = SubSeq(msg.fields, 1, n)
           /\ phase' = IF n = size THEN "serve" ELSE IF n > size THEN "close" ELSE "body"
    /\ UNCHANGED <<sockVars, size, sent, sendlen, statVars>>

\* A mutant: the server waits for a client that is still there
ReadWaits ==
    /\ phase = "body" /\ ((arrived = Len(buf) /\ gone) \/ size = 0)
    /\ phase' = "close"
    /\ UNCHANGED <<sockVars, size, buf, sent, sendlen, statVars>>

\* Nothing is there: select is told to watch descriptors below 1 only, and comes
\* back without the socket.  A header that declares nothing ends the loop at once.
ReadNothing ==
    /\ phase = "body" /\ (Available = 0 \/ size = 0)
    /\ phase' = "close"
    /\ UNCHANGED <<sockVars, size, buf, sent, sendlen, statVars>>

\* The request is parsed and served; an error of requestNew is written after the
\* fields that the buffer still holds
Serve ==
    /\ phase = "serve"
    /\ LET req == requestNew(buf)
       IN  \/ /\ req = Abort
              /\ phase' = "crashed"
              /\ UNCHANGED <<buf, sendlen>>
           \/ /\ req = Bad
              /\ buf' = buf \o Xml(1, "error")
              /\ sendlen' = Len(buf')
              /\ phase' = "send"
           \/ /\ req.is = "request"
              /\ \E a \in Dispatch(req) :
                   \/ /\ a.end = "crashed"
                      /\ phase' = "crashed"
                      /\ UNCHANGED <<buf, sendlen>>
                   \/ /\ a.end # "crashed"
                      /\ buf' = Document(a)
                      /\ sendlen' = Len(buf')
                      /\ phase' = IF a.end = "stopped" THEN "last" ELSE "send"
    /\ UNCHANGED <<sockVars, size, sent, statVars>>

\* socketSendChars stops at the first NUL, which the length of a field of a
\* request has after the type
CString(b) == IF b[1].type = "xml" THEN b ELSE SubSeq(b, 1, 1)

\* What of d reaches a client: all or nothing, or a part if it goes meanwhile
Received(d) == IF gone THEN {SubSeq(d, 1, n) : n \in 0..Len(d)} ELSE {d, <<>>}

\* "last" is "send" with g_running FALSE.  send() to a client that has gone may
\* raise SIGPIPE, which is not handled and ends the server.
Send ==
    /\ phase \in {"send", "last"}
    /\ sent' \in Received(CString(buf))
    /\ \/ phase' = IF phase = "send" THEN "close" ELSE "closeLast"
       \/ gone /\ phase' = "crashed"
    /\ UNCHANGED <<sockVars, size, buf, sendlen, statVars>>

\* A buffer that ends in XML holds a reply
Served == Len(buf) > 0 /\ Last(buf).type = "xml"

\* socketClose and statsEndCall
Close ==
    /\ phase \in {"close", "closeLast"}
    /\ statsEndCall(sendlen)
    /\ log' = Append(log, [recv |-> size, send |-> sendlen,
                           reply |-> IF Served THEN Len(buf) ELSE None])
    /\ phase' = IF phase = "close" THEN "accept" ELSE "stopped"
    /\ UNCHANGED <<sockVars, size, buf, sent, sendlen>>

ServerStep ==
    \/ RecvHeader \/ ReadSome \/ ReadNothing \/ Serve \/ Send \/ Close

Next == Accept \/ AcceptFails \/ ServerStep \/ Arrive \/ Leave

\* The process runs on wherever it can; RecvHeader alone waits for the client
Spec == Init /\ [][Next]_vars /\ WF_vars(ServerStep)

-----------------------------------------------------------------------------
(* Properties                                                              *)

\* However the bytes of a message are cut up, readRequest hands on exactly the
\* declared number of them, from the beginning of what this client sent
RequestsWhole ==
    phase = "serve" => Len(buf) = size /\ IsPrefix(buf, msg.fields)

\* A request that requestNew accepts is answered by one document, never by bytes of
\* the request or of a reply before it: a client that stays has all of it, and one
\* that goes has a beginning of it
RepliesWhole ==
    (phase \in {"close", "closeLast"} /\ sent # <<>>
        /\ requestNew(SubSeq(msg.fields, 1, size)).is = "request")
    => /\ sent[1].v = "<ROWS>"
       /\ gone \/ Last(sent).v = "</ROWS>"
       /\ \A i \in 2..Len(sent) : sent[i].v \in {"row", "error"}
                                  \/ (sent[i].v = "</ROWS>" /\ i = Len(sent))

\* Between calls the tables hold the last HISTLEN calls, each at its slot, and a
\* call that was served has the length of its own reply
CallsRecorded ==
    phase \in {"accept", "stopped"} =>
    \A x \in Slots :
        LET ks == {k \in 1..g_calls : (k - 1) % HISTLEN = x}
        IN  IF ks = {} THEN g_recvlen[x] = None /\ g_sendlen[x] = None /\ ~ g_hist[x]
            ELSE LET c == log[Max(ks)]
                 IN  /\ g_hist[x] /\ g_recvlen[x] = c.recv
                     /\ c.reply # None => g_sendlen[x] = c.reply

\* The averages that statsWriteRecord reports are over the last HISTLEN calls, or
\* all of them; once there are so many, the call that is being served has put its
\* declared length in the place of the oldest one's
AveragesOfLastCalls ==
    phase = "serve" =>
    LET full == g_calls >= HISTLEN
        last == {k \in 1..g_calls : k > g_calls - HISTLEN}
        sum(S, f(_)) == MapThenSumSet(f, S)
    IN  /\ statsWriteRecord.count = Cardinality(last)
        /\ statsWriteRecord.send = sum(last, LAMBDA k : log[k].send)
        /\ statsWriteRecord.recv =
               sum(IF full THEN last \ {Min(last)} ELSE last, LAMBDA k : log[k].recv)
                   + (IF full THEN size ELSE 0)

\* A call whose header has arrived, or whose client has left, comes to an end: the
\* loop of main never waits for the rest of a message
EveryCallEnds ==
    (phase # "accept" /\ (hdr \/ gone)) ~> phase \in {"accept", "stopped", "crashed"}
=============================================================================
