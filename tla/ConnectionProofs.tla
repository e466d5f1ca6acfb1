-------------------------- MODULE ConnectionProofs --------------------------
(***************************************************************************)
(* Proofs about module Connection, for any set of messages, any length of  *)
(* the statistics, any size of the buffer and any number of calls.         *)
(***************************************************************************)
EXTENDS Connection, SequenceTheorems, FiniteSetTheorems, TLAPS

Reading == {"header", "body", "serve"}
Sending == {"send", "last"}
Closing == {"close", "closeLast"}
\* The header has been received and the call has not ended
InCall == {"body", "serve"} \cup Sending \cup Closing

Words  == {"<ROWS>", "row", "error", "</ROWS>"}
Marks  == [type : {"xml"}, v : Words]
Cells  == Fields \cup Marks
Calls  == [recv : Nat, send : Nat, reply : Nat \cup {None}]

ConnTypes ==
    /\ phase \in {"accept", "stopped", "crashed"} \cup Reading \cup Sending \cup Closing
    /\ msg \in Messages /\ arrived \in 0..Len(msg.fields)
    /\ size \in Nat /\ sendlen \in Nat
    /\ buf \in Seq(Cells)

StatTypes ==
    /\ g_calls \in Nat
    /\ g_hist \in [Slots -> BOOLEAN]
    /\ g_recvlen \in [Slots -> Int] /\ g_sendlen \in [Slots -> Int]
    /\ log \in Seq(Calls) /\ Len(log) = g_calls

\* Until the request is served the buffer holds a beginning of the fields, none
\* of which has been received before it arrived
BufferRead ==
    /\ phase \in Reading =>
         Len(buf) <= arrived /\ buf = SubSeq(msg.fields, 1, Len(buf)) /\ sent = <<>>
    /\ phase = "serve" => Len(buf) = size

\* A whole document
WholeDocument(d) ==
    /\ Len(d) >= 2
    /\ d[1].type = "xml" /\ d[1].v = "<ROWS>" /\ Last(d).v = "</ROWS>"
    /\ \A i \in 2..(Len(d) - 1) : d[i].v \in {"row", "error"}

\* A document, or a beginning of one for a client that has gone
Delivered(d) ==
    /\ d[1].v = "<ROWS>"
    /\ gone \/ Last(d).v = "</ROWS>"
    /\ \A i \in 2..Len(d) : d[i].v \in {"row", "error"} \/ (d[i].v = "</ROWS>" /\ i = Len(d))

Accepted == requestNew(SubSeq(msg.fields, 1, size)).is = "request"

\* What was made of the request of this connection is still its reply when it is
\* sent
ReplyReady ==
    /\ phase \in Sending /\ Accepted => WholeDocument(buf)
    /\ phase \in Closing /\ sent # <<>> /\ Accepted => Delivered(sent)

\* The length that is about to be recorded is the one of the reply of this call
LengthReady ==
    /\ phase \in Sending => sendlen = Len(buf)
    /\ phase \in Closing /\ Served => sendlen = Len(buf)

CallsOf(x) == {k \in 1..g_calls : (k - 1) % HISTLEN = x}

\* The slot of the call that is being served is taken before the call is counted
Taken(x) == x = Slot /\ phase \in InCall \cup {"crashed"}

TablesKept ==
    \A x \in Slots :
        IF CallsOf(x) = {}
        THEN g_sendlen[x] = None /\ ~ g_hist[x] /\ (Taken(x) \/ g_recvlen[x] = None)
        ELSE /\ Max(CallsOf(x)) \in CallsOf(x)
             /\ g_hist[x] /\ g_sendlen[x] = log[Max(CallsOf(x))].send
             /\ Taken(x) \/ g_recvlen[x] = log[Max(CallsOf(x))].recv

LogKept ==
    /\ \A k \in 1..g_calls : log[k].reply # None => log[k].send = log[k].reply
    /\ phase \in InCall => g_recvlen[Slot] = size

ConnInv ==
    ConnTypes /\ StatTypes /\ BufferRead /\ ReplyReady /\ LengthReady
        /\ TablesKept /\ LogKept

-----------------------------------------------------------------------------
(* Requests and replies                                                    *)

\* What a client sends has its type
LEMMA MessageTypes ==
    ASSUME NEW m \in Messages
    PROVE  m.size \in Nat /\ m.fields \in Seq(Fields) /\ Len(m.fields) \in Nat
  BY ConnectionAssumption

\* A beginning of a message holds fields only
LEMMA Beginning ==
    ASSUME NEW fs \in Seq(Fields), NEW n \in 0..Len(fs)
    PROVE  /\ SubSeq(fs, 1, n) \in Seq(Fields) /\ SubSeq(fs, 1, n) \in Seq(Cells)
           /\ Len(SubSeq(fs, 1, n)) = n
           /\ \A i \in 1..n : SubSeq(fs, 1, n)[i] = fs[i] /\ fs[i].type # "xml"
  <1>1. \A i \in 1..n : fs[i] \in Fields
    BY ElementOfSeq
  <1>2. /\ SubSeq(fs, 1, n) \in Seq(Fields)
        /\ Len(SubSeq(fs, 1, n)) = n
        /\ \A i \in 1..n : SubSeq(fs, 1, n)[i] = fs[i]
    BY <1>1, SubSeqProperties
  <1>3. SubSeq(fs, 1, n) \in Seq(Cells)
    BY <1>2, SeqMonotonic DEF Cells
  <1>4. QED
    BY <1>1, <1>2, <1>3 DEF Fields

\* What xmlWriteElement and the others write
LEMMA XmlTypes ==
    ASSUME NEW n \in Nat, NEW v \in Words
    PROVE  /\ Xml(n, v) \in Seq(Marks) /\ Len(Xml(n, v)) = n
           /\ \A i \in 1..n : Xml(n, v)[i] = [type |-> "xml", v |-> v]
  BY DEF Xml, Marks

\* The items of a request that requestNew accepts are a list
LEMMA RequestItems ==
    ASSUME NEW fs \in Seq(Fields), requestNew(fs).is = "request"
    PROVE  Len(requestNew(fs).items) \in Nat
  <1>1. /\ requestNew(fs).items = Items(fs)
        /\ \A i \in {1, 2, 3} : IsText(fs, i)
    <2>1. Refused(fs) = {} /\ requestNew(fs).items = Items(fs)
      BY DEF requestNew, Abort, Bad
    <2>2. Len(fs) \in Nat /\ \A i \in {1, 2, 3} : i \in 1..Max({3, Len(fs)})
      <3>1. Len(fs) \in Nat
        OBVIOUS
      <3>2. \E m \in {3, Len(fs)} : \A k \in {3, Len(fs)} : m >= k
        BY <3>1
      <3>3. Max({3, Len(fs)}) \in {3, Len(fs)} /\ Max({3, Len(fs)}) >= 3
        BY <3>2 DEF Max
      <3>4. QED
        BY <3>1, <3>3
    <2>3. QED
      BY <2>1, <2>2 DEF Refused
  <1>2. Len(fs) >= 3 /\ Len(fs) \in Nat
    BY <1>1 DEF IsText
  <1>3. (Len(fs) - 3) \div 2 \in Nat
    BY <1>2
  <1>4. QED
    BY <1>1, <1>3 DEF Items

\* An answer has its numbers of rows and of errors
LEMMA AnswerTypes ==
    ASSUME NEW req, Len(req.items) \in Nat, NEW a \in Dispatch(req)
    PROVE  a.rows \in Nat /\ a.errors \in Nat
  <1> USE DEF Answer, Rows, Crash
  <1>1. \A b \in sqlRequest(req) : b.rows \in Nat /\ b.errors \in Nat
    BY DEF sqlRequest
  <1>2. \A b \in executeDynamic(req) : b.rows \in Nat /\ b.errors \in Nat
    BY DEF executeDynamic
  <1>3. \A b \in statsRow(req) \cup echoRequest(req) \cup shutdownRequest(req)
                   \cup infodefinesRequest(req) \cup invokeRequest(req) :
           b.rows \in Nat /\ b.errors \in Nat
    BY DEF statsRow, echoRequest, shutdownRequest, infodefinesRequest, invokeRequest
  <1>4. \A b \in syslistRequest(req) \cup proclistRequest(req) \cup userlistRequest(req)
                   \cup userlistPermsRequest(req) \cup proccodeRequest(req) :
           b.rows \in Nat /\ b.errors \in Nat
    BY DEF syslistRequest, proclistRequest, userlistRequest, userlistPermsRequest,
           proccodeRequest
  <1>5. \A b \in adminRequest(req) : b.rows \in Nat /\ b.errors \in Nat
    BY <1>3, <1>4 DEF adminRequest
  <1>6. QED
    BY <1>1, <1>2, <1>5 DEF Dispatch

\* Four sequences in a row
FourParts(d, p, q, r, t) ==
    /\ Len(d) = Len(p) + Len(q) + Len(r) + Len(t)
    /\ \A i \in 1..Len(p) : d[i] = p[i]
    /\ \A i \in 1..Len(q) : d[Len(p) + i] = q[i]
    /\ \A i \in 1..Len(r) : d[Len(p) + Len(q) + i] = r[i]
    /\ \A i \in 1..Len(t) : d[Len(p) + Len(q) + Len(r) + i] = t[i]

\* They are found in the whole, one after the other
LEMMA FourInARow ==
    ASSUME NEW S, NEW p \in Seq(S), NEW q \in Seq(S), NEW r \in Seq(S), NEW t \in Seq(S)
    PROVE  p \o q \o r \o t \in Seq(S) /\ FourParts(p \o q \o r \o t, p, q, r, t)
  BY DEF FourParts

\* A beginning, rows, errors and an end are one whole document
LEMMA MarksInARow ==
    ASSUME NEW p \in Seq(Marks), NEW q \in Seq(Marks),
           NEW r \in Seq(Marks), NEW t \in Seq(Marks),
           Len(p) = 1, \A i \in 1..1 : p[i] = [type |-> "xml", v |-> "<ROWS>"],
           \A i \in 1..Len(q) : q[i] = [type |-> "xml", v |-> "row"],
           \A i \in 1..Len(r) : r[i] = [type |-> "xml", v |-> "error"],
           Len(t) = 1, \A i \in 1..1 : t[i] = [type |-> "xml", v |-> "</ROWS>"],
           NEW d \in Seq(Marks), FourParts(d, p, q, r, t)
    PROVE  d \in Seq(Cells) /\ WholeDocument(d)
  <1>0. /\ Len(d) = Len(p) + Len(q) + Len(r) + Len(t)
        /\ \A i \in 1..Len(p) : d[i] = p[i]
        /\ \A i \in 1..Len(q) : d[Len(p) + i] = q[i]
        /\ \A i \in 1..Len(r) : d[Len(p) + Len(q) + i] = r[i]
        /\ \A i \in 1..Len(t) : d[Len(p) + Len(q) + Len(r) + i] = t[i]
    BY DEF FourParts
  <1>1. Len(q) \in Nat /\ Len(r) \in Nat /\ Len(d) = 2 + Len(q) + Len(r)
    BY <1>0
  <1>2. d[1] = [type |-> "xml", v |-> "<ROWS>"]
    <2>1. 1 \in 1..1 /\ 1 \in 1..Len(p)
      OBVIOUS
    <2>2. QED
      BY <1>0, <2>1
  <1>3. d[Len(d)] = [type |-> "xml", v |-> "</ROWS>"]
    <2>1. 1 \in 1..1 /\ 1 \in 1..Len(t) /\ Len(p) + Len(q) + Len(r) + 1 = Len(d)
      BY <1>1
    <2>2. QED
      BY <1>0, <2>1
  <1>4. ASSUME NEW i \in 2..(Len(d) - 1) PROVE d[i].v \in {"row", "error"}
    <2>1. CASE i <= 1 + Len(q)
      <3>1. i - 1 \in 1..Len(q) /\ Len(p) + (i - 1) = i
        BY <1>1, <2>1
      <3>2. d[i] = [type |-> "xml", v |-> "row"]
        BY <1>0, <3>1
      <3>3. QED
        BY <3>2
    <2>2. CASE i > 1 + Len(q)
      <3>1. /\ i - 1 - Len(q) \in 1..Len(r)
            /\ Len(p) + Len(q) + (i - 1 - Len(q)) = i
        BY <1>1, <2>2
      <3>2. d[i] = [type |-> "xml", v |-> "error"]
        BY <1>0, <3>1
      <3>3. QED
        BY <3>2
    <2>3. QED
      BY <1>1, <2>1, <2>2
  <1>5. d \in Seq(Cells)
    BY SeqMonotonic DEF Cells
  <1>6. QED
    BY <1>1, <1>2, <1>3, <1>4, <1>5 DEF WholeDocument, Last

\* The reply to a request is one whole document
LEMMA DocumentWhole ==
    ASSUME NEW a, a.rows \in Nat, a.errors \in Nat
    PROVE  Document(a) \in Seq(Cells) /\ WholeDocument(Document(a))
  <1>0. "<ROWS>" \in Words /\ "row" \in Words /\ "error" \in Words /\ "</ROWS>" \in Words
    BY DEF Words
  <1>1. /\ Xml(1, "<ROWS>") \in Seq(Marks) /\ Len(Xml(1, "<ROWS>")) = 1
        /\ \A i \in 1..1 : Xml(1, "<ROWS>")[i] = [type |-> "xml", v |-> "<ROWS>"]
    BY <1>0, XmlTypes
  <1>2. /\ Xml(a.rows, "row") \in Seq(Marks) /\ Len(Xml(a.rows, "row")) = a.rows
        /\ \A i \in 1..a.rows : Xml(a.rows, "row")[i] = [type |-> "xml", v |-> "row"]
    BY <1>0, XmlTypes
  <1>3. /\ Xml(a.errors, "error") \in Seq(Marks) /\ Len(Xml(a.errors, "error")) = a.errors
        /\ \A i \in 1..a.errors : Xml(a.errors, "error")[i] = [type |-> "xml", v |-> "error"]
    BY <1>0, XmlTypes
  <1>4. /\ Xml(1, "</ROWS>") \in Seq(Marks) /\ Len(Xml(1, "</ROWS>")) = 1
        /\ \A i \in 1..1 : Xml(1, "</ROWS>")[i] = [type |-> "xml", v |-> "</ROWS>"]
    BY <1>0, XmlTypes
  <1>5. /\ Document(a) \in Seq(Marks)
        /\ FourParts(Document(a), Xml(1, "<ROWS>"), Xml(a.rows, "row"),
                     Xml(a.errors, "error"), Xml(1, "</ROWS>"))
    BY <1>1, <1>2, <1>3, <1>4, FourInARow DEF Document
  <1>6. QED
    BY <1>1, <1>2, <1>3, <1>4, <1>5, MarksInARow

-----------------------------------------------------------------------------
(* The steps on the buffer                                                 *)

CallInv == ConnTypes /\ BufferRead /\ ReplyReady /\ LengthReady

\* What has been read is a beginning of the message
LEMMA ReadSoFar ==
    ASSUME ConnTypes, BufferRead, phase \in Reading
    PROVE  Len(buf) \in 0..Len(msg.fields) /\ buf = SubSeq(msg.fields, 1, Len(buf))
  <1>1. Len(buf) <= arrived /\ buf = SubSeq(msg.fields, 1, Len(buf))
    BY DEF BufferRead
  <1>2. buf \in Seq(Cells) /\ msg \in Messages /\ arrived \in 0..Len(msg.fields)
    BY DEF ConnTypes
  <1>3. Len(msg.fields) \in Nat /\ Len(buf) \in Nat
    BY <1>2, MessageTypes, LenProperties
  <1>4. QED
    BY <1>1, <1>2, <1>3

\* Before the request is served the buffer holds no reply
LEMMA NotServed ==
    ASSUME ConnTypes, BufferRead, phase \in Reading
    PROVE  ~ Served
  <1>1. Len(buf) \in 0..Len(msg.fields) /\ buf = SubSeq(msg.fields, 1, Len(buf))
    BY ReadSoFar
  <1>2. \A i \in 1..Len(buf) : buf[i].type # "xml"
    BY <1>1, MessageTypes, Beginning DEF ConnTypes
  <1>3. QED
    BY <1>1, <1>2 DEF Served, Last

\* A step of the client, or one that takes or refuses a connection
LEMMA ClientStep ==
    ASSUME CallInv, Arrive \/ Leave \/ Accept \/ AcceptFails
    PROVE  CallInv'
  <1> USE DEF Reading, Sending, Closing
  <1>1. CASE Arrive
    <2>1. /\ phase \in {"header", "body"}
          /\ UNCHANGED <<phase, msg, gone, size, buf, sent, sendlen>>
      BY <1>1 DEF Arrive, Connected
    <2>2. arrived' \in 0..Len(msg.fields) /\ arrived' >= arrived
      <3>1. Len(msg.fields) \in Nat /\ arrived \in 0..Len(msg.fields)
        BY MessageTypes DEF CallInv, ConnTypes
      <3>2. arrived' = arrived \/ arrived' \in (arrived + 1)..Len(msg.fields)
        BY <1>1 DEF Arrive
      <3>3. QED
        BY <3>1, <3>2
    <2>3. ConnTypes'
      BY <2>1, <2>2 DEF CallInv, ConnTypes
    <2>4. BufferRead'
      BY <2>1, <2>2, MessageTypes DEF CallInv, ConnTypes, BufferRead
    <2>5. (ReplyReady /\ LengthReady)'
      BY <2>1 DEF ReplyReady, LengthReady
    <2>6. QED
      BY <2>3, <2>4, <2>5 DEF CallInv
  <1>2. CASE Leave
    <2>1. /\ phase \notin Closing
          /\ UNCHANGED <<phase, msg, arrived, size, buf, sent, sendlen>>
      BY <1>2 DEF Leave, Connected
    <2>2. QED
      BY <2>1 DEF CallInv, ConnTypes, BufferRead, ReplyReady, LengthReady, Accepted, Served
  <1>3. CASE Accept
    <2>1. phase' = "header" /\ msg' \in Messages /\ arrived' = 0 /\ buf' = <<>> /\ sent' = <<>>
      BY <1>3 DEF Accept
    <2>2. UNCHANGED <<size, sendlen>>
      BY <1>3 DEF Accept
    <2>3. ConnTypes'
      BY <2>1, <2>2, MessageTypes DEF CallInv, ConnTypes
    <2>4. SubSeq(msg'.fields, 1, 0) = <<>>
      BY SubSeqEmpty
    <2>5. BufferRead'
      BY <2>1, <2>4 DEF BufferRead
    <2>6. (ReplyReady /\ LengthReady)'
      BY <2>1 DEF ReplyReady, LengthReady
    <2>7. QED
      BY <2>3, <2>5, <2>6 DEF CallInv
  <1>4. CASE AcceptFails
    BY <1>4 DEF AcceptFails, sockVars, CallInv, ConnTypes, BufferRead, ReplyReady, LengthReady
  <1>5. QED
    BY <1>1, <1>2, <1>3, <1>4

\* A step of readRequest
LEMMA ReadStep ==
    ASSUME CallInv, RecvHeader \/ ReadSome \/ ReadNothing
    PROVE  CallInv'
  <1> USE DEF Reading, Sending, Closing
  <1>1. CASE RecvHeader
    <2>1. phase = "header" /\ phase' = "body" /\ size' = Declared
          /\ UNCHANGED <<msg, arrived, buf, sent, sendlen>>
      BY <1>1 DEF RecvHeader, sockVars
    <2>2. size' \in Nat
      BY <2>1, MessageTypes DEF Declared, CallInv, ConnTypes
    <2>3. QED
      BY <2>1, <2>2 DEF CallInv, ConnTypes, BufferRead, ReplyReady, LengthReady
  <1>2. CASE ReadSome
    <2> DEFINE n == IF Available > MaxRecv THEN Len(buf) + MaxRecv ELSE arrived
    <2>1. /\ phase = "body" /\ Available > 0
          /\ buf' = SubSeq(msg.fields, 1, n)
          /\ phase' = IF n = size THEN "serve" ELSE IF n > size THEN "close" ELSE "body"
          /\ UNCHANGED <<msg, arrived, size, sent, sendlen>>
      BY <1>2 DEF ReadSome, sockVars
    <2>2. n \in 0..Len(msg.fields) /\ n <= arrived
      BY <2>1, MessageTypes, ConnectionAssumption DEF Available, CallInv, ConnTypes
    <2>3. /\ buf' \in Seq(Cells) /\ Len(buf') = n
          /\ \A i \in 1..n : buf'[i].type # "xml"
      BY <2>1, <2>2, MessageTypes, Beginning DEF CallInv, ConnTypes
    <2> HIDE DEF n
    <2>4. ConnTypes'
      BY <2>1, <2>3 DEF CallInv, ConnTypes
    <2>5. BufferRead'
      BY <2>1, <2>2, <2>3 DEF CallInv, BufferRead, ConnTypes
    <2>6. ~ Served'
      BY <2>2, <2>3 DEF Served, Last
    <2>7. phase' \notin Sending /\ sent' = <<>>
      BY <2>1 DEF CallInv, BufferRead
    <2>8. (ReplyReady /\ LengthReady)'
      BY <2>6, <2>7 DEF ReplyReady, LengthReady
    <2>9. QED
      BY <2>4, <2>5, <2>8 DEF CallInv
  <1>3. CASE ReadNothing
    <2>1. phase = "body" /\ phase' = "close"
          /\ UNCHANGED <<msg, arrived, size, buf, sent, sendlen>>
      BY <1>3 DEF ReadNothing, sockVars
    <2>2. ~ Served' /\ sent' = <<>>
      BY <2>1, NotServed DEF CallInv, BufferRead, Served
    <2>3. QED
      BY <2>1, <2>2 DEF CallInv, ConnTypes, BufferRead, ReplyReady, LengthReady
  <1>4. QED
    BY <1>1, <1>2, <1>3

\* The request is served: an accepted one has its document in the buffer
LEMMA ServeStep ==
    ASSUME CallInv, Serve
    PROVE  CallInv'
  <1> USE DEF Reading, Sending, Closing
  <1>0. phase = "serve" /\ UNCHANGED <<msg, arrived, size, sent>>
    BY DEF Serve, sockVars
  <1>1. /\ phase = "serve" /\ buf = SubSeq(msg.fields, 1, size)
        /\ size \in 0..Len(msg.fields)
        /\ UNCHANGED <<msg, arrived, size, sent>>
    <2>1. Len(buf) = size
      BY <1>0 DEF CallInv, BufferRead
    <2>2. QED
      BY <1>0, <2>1, ReadSoFar DEF CallInv
  <1>2. buf \in Seq(Fields)
    BY <1>1, MessageTypes, Beginning DEF CallInv, ConnTypes
  <1>3. CASE phase' = "crashed" /\ UNCHANGED <<buf, sendlen>>
    BY <1>1, <1>3 DEF CallInv, ConnTypes, BufferRead, ReplyReady, LengthReady
  <1>4. CASE /\ requestNew(buf) = Bad
             /\ buf' = buf \o Xml(1, "error")
             /\ sendlen' = Len(buf')
             /\ phase' = "send"
    <2>1. Xml(1, "error") \in Seq(Cells)
      <3>1. Xml(1, "error") \in Seq(Marks)
        BY XmlTypes DEF Words
      <3>2. QED
        BY <3>1, SeqMonotonic DEF Cells
    <2>2. buf' \in Seq(Cells) /\ sendlen' \in Nat
      BY <1>4, <2>1 DEF CallInv, ConnTypes
    <2>3. ConnTypes'
      BY <1>1, <1>4, <2>2 DEF CallInv, ConnTypes
    <2>4. ~ Accepted'
      BY <1>1, <1>4 DEF Accepted, Bad
    <2>5. QED
      BY <1>4, <2>3, <2>4 DEF CallInv, BufferRead, ReplyReady, LengthReady
  <1>5. ASSUME requestNew(buf).is = "request",
               NEW a \in Dispatch(requestNew(buf)),
               buf' = Document(a), sendlen' = Len(buf'), phase' \in {"send", "last"}
        PROVE  CallInv'
    <2>1. a.rows \in Nat /\ a.errors \in Nat
      BY <1>2, <1>5, RequestItems, AnswerTypes
    <2>2. buf' \in Seq(Cells) /\ WholeDocument(buf') /\ sendlen' \in Nat
      BY <1>5, <2>1, DocumentWhole
    <2>3. ConnTypes'
      BY <1>1, <1>5, <2>2 DEF CallInv, ConnTypes
    <2>4. QED
      BY <1>5, <2>2, <2>3 DEF CallInv, BufferRead, ReplyReady, LengthReady
  <1>6. QED
    BY <1>3, <1>4, <1>5 DEF Serve

\* A client that goes receives a beginning of the document, and another all of it
LEMMA DocumentSent ==
    ASSUME NEW b \in Seq(Cells), WholeDocument(b), NEW d \in Received(CString(b)), d # <<>>
    PROVE  Delivered(d)
  <1>1. /\ Len(b) \in Nat /\ Len(b) >= 2 /\ b[1].type = "xml" /\ b[1].v = "<ROWS>"
        /\ b[Len(b)].v = "</ROWS>"
        /\ \A i \in 2..(Len(b) - 1) : b[i].v \in {"row", "error"}
    BY DEF WholeDocument, Last
  <1>2. CString(b) = b
    BY <1>1 DEF CString
  <1>3. \A i \in 2..Len(b) : b[i].v \in {"row", "error"} \/ (b[i].v = "</ROWS>" /\ i = Len(b))
    <2>1. \A i \in 2..Len(b) : i \in 2..(Len(b) - 1) \/ i = Len(b)
      BY <1>1
    <2>2. QED
      BY <1>1, <2>1
  <1>4. CASE d = b
    BY <1>1, <1>3, <1>4 DEF Delivered, Last
  <1>5. CASE gone
    <2>1. PICK n \in 0..Len(b) : d = SubSeq(b, 1, n)
      BY <1>2, <1>5 DEF Received
    <2>2. n # 0
      BY <2>1, SubSeqEmpty
    <2>3. n \in 1..Len(b) /\ n \in Nat
      BY <1>1, <2>1, <2>2
    <2>4. \A i \in 1..n : b[i] \in Cells
      BY <2>3, ElementOfSeq
    <2>5. Len(d) = n /\ \A i \in 1..n : d[i] = b[i]
      BY <2>1, <2>3, <2>4, SubSeqProperties
    <2>6. d[1].v = "<ROWS>"
      BY <1>1, <2>3, <2>5
    <2>7. ASSUME NEW i \in 2..n
          PROVE  d[i].v \in {"row", "error"} \/ (d[i].v = "</ROWS>" /\ i = n)
      <3>1. i \in 2..Len(b) /\ d[i] = b[i] /\ (i = Len(b) => i = n)
        BY <2>3, <2>5
      <3>2. QED
        BY <1>3, <3>1
    <2>8. QED
      BY <1>5, <2>5, <2>6, <2>7 DEF Delivered
  <1>6. QED
    BY <1>2, <1>4, <1>5 DEF Received

\* The reply is sent and the connection is closed
LEMMA SendStep ==
    ASSUME CallInv, Send \/ Close
    PROVE  CallInv'
  <1> USE DEF Reading, Sending, Closing
  <1>1. CASE Send
    <2>1. /\ phase \in Sending /\ phase' \in Closing \cup {"crashed"}
          /\ sent' \in Received(CString(buf))
          /\ UNCHANGED <<msg, arrived, gone, size, buf, sendlen>>
      BY <1>1 DEF Send, sockVars
    <2>2. Accepted /\ sent' # <<>> => Delivered(sent')
      <3>1. Accepted => WholeDocument(buf)
        BY <2>1 DEF CallInv, ReplyReady
      <3>2. PICK d : d = sent'
        OBVIOUS
      <3>3. Accepted /\ d # <<>> => Delivered(d)
        BY <2>1, <3>1, <3>2, DocumentSent DEF CallInv, ConnTypes
      <3>4. QED
        BY <3>2, <3>3
    <2>3. ReplyReady'
      <3>1. Accepted' <=> Accepted
        BY <2>1 DEF Accepted
      <3>2. Accepted' /\ sent' # <<>> => Delivered(sent)'
        BY <2>1, <2>2, <3>1 DEF Delivered
      <3>3. QED
        BY <2>1, <3>2 DEF ReplyReady
    <2>4. QED
      BY <2>1, <2>3 DEF CallInv, ConnTypes, BufferRead, LengthReady
  <1>2. CASE Close
    <2>1. /\ phase' \in {"accept", "stopped"}
          /\ UNCHANGED <<msg, arrived, gone, size, buf, sent, sendlen>>
      BY <1>2 DEF Close, sockVars
    <2>2. QED
      BY <2>1 DEF CallInv, ConnTypes, BufferRead, ReplyReady, LengthReady
  <1>3. QED
    BY <1>1, <1>2

-----------------------------------------------------------------------------
(* The steps on the statistics                                             *)

TableInv == StatTypes /\ TablesKept /\ LogKept

\* The slot of a call is one of the table
LEMMA SlotIsOne == ASSUME StatTypes PROVE Slot \in Slots
  <1>1. \A n \in Nat, h \in Nat \ {0} : n % h \in 0..(h - 1)
    OBVIOUS
  <1>2. QED
    BY <1>1, ConnectionAssumption DEF StatTypes, Slot, Slots

\* Steps between the header and the end of a call, and outside of calls, leave the
\* statistics alone
LEMMA StatsUntouched ==
    ASSUME TableInv, UNCHANGED statVars,
           phase \in InCall \cup {"crashed"} => phase' \in InCall \cup {"crashed"},
           phase' \in InCall => phase \in InCall /\ size' = size
    PROVE  TableInv'
  <1>1. UNCHANGED <<g_calls, g_hist, g_recvlen, g_sendlen, log>>
    BY DEF statVars
  <1>2. Slot' = Slot /\ \A x \in Slots : CallsOf(x)' = CallsOf(x) /\ (Taken(x) => Taken(x)')
    BY <1>1 DEF Slot, CallsOf, Taken
  <1>3. StatTypes'
    BY <1>1 DEF TableInv, StatTypes
  <1>4. TablesKept'
    BY <1>1, <1>2 DEF TableInv, TablesKept
  <1>5. LogKept'
    BY <1>1, <1>2 DEF TableInv, LogKept
  <1>6. QED
    BY <1>3, <1>4, <1>5 DEF TableInv

\* The header is received: the slot of this call has its length
LEMMA BeginStep ==
    ASSUME ConnTypes, TableInv, RecvHeader
    PROVE  TableInv'
  <1>1. phase' = "body" /\ size' \in Nat
    BY MessageTypes DEF RecvHeader, Declared, ConnTypes
  <1>2. /\ g_recvlen' = [g_recvlen EXCEPT ![Slot] = size']
        /\ UNCHANGED <<g_calls, g_hist, g_sendlen, log>>
    BY DEF RecvHeader, statsBeginCall
  <1>3. Slot' = Slot /\ Slot \in Slots /\ \A x \in Slots : CallsOf(x)' = CallsOf(x)
    BY <1>2, SlotIsOne DEF TableInv, Slot, CallsOf
  <1>4. \A x \in Slots : g_recvlen'[x] = IF x = Slot THEN size' ELSE g_recvlen[x]
    BY <1>2, <1>3 DEF TableInv, StatTypes
  <1>5. StatTypes'
    BY <1>1, <1>2, <1>3 DEF TableInv, StatTypes
  <1>6. \A x \in Slots : Taken(x)' <=> x = Slot
    BY <1>1, <1>3 DEF Taken, InCall
  <1>7. phase = "header"
    BY DEF RecvHeader
  <1>8. \A x \in Slots : ~ Taken(x)
    BY <1>7 DEF Taken, InCall, Sending, Closing
  <1>9. TablesKept'
    BY <1>2, <1>3, <1>4, <1>6, <1>8 DEF TableInv, TablesKept
  <1>10. LogKept'
    BY <1>2, <1>3, <1>4 DEF TableInv, LogKept
  <1>11. QED
    BY <1>5, <1>9, <1>10 DEF TableInv

\* The call ends: it is the last one of its slot, and of no other
LEMMA EndStep ==
    ASSUME ConnTypes, LengthReady, TableInv, Close
    PROVE  TableInv'
  <1> DEFINE c == [recv |-> size, send |-> sendlen, reply |-> IF Served THEN Len(buf) ELSE None]
             n == g_calls + 1
  <1>1. /\ g_sendlen' = [g_sendlen EXCEPT ![Slot] = sendlen]
        /\ g_hist' = [g_hist EXCEPT ![Slot] = TRUE]
        /\ g_calls' = n /\ g_recvlen' = g_recvlen /\ log' = Append(log, c)
        /\ phase \in Closing /\ phase' \in {"accept", "stopped"}
    BY DEF Close, statsEndCall, Closing
  <1>2. /\ g_calls \in Nat /\ log \in Seq(Calls) /\ Len(log) = g_calls /\ Slot \in Slots
        /\ g_hist \in [Slots -> BOOLEAN]
        /\ g_recvlen \in [Slots -> Int] /\ g_sendlen \in [Slots -> Int]
    BY SlotIsOne DEF TableInv, StatTypes
  <1>3. c \in Calls /\ (c.reply # None => c.send = c.reply)
    <2>1. size \in Nat /\ sendlen \in Nat /\ Len(buf) \in Nat
      BY LenProperties DEF ConnTypes
    <2>2. Served => sendlen = Len(buf)
      BY <1>1 DEF LengthReady
    <2>3. QED
      BY <2>1, <2>2 DEF Calls
  <1> HIDE DEF c
  <1>4. /\ log' \in Seq(Calls) /\ Len(log') = n /\ log'[n] = c
        /\ \A k \in 1..g_calls : log'[k] = log[k]
    BY <1>1, <1>2, <1>3, AppendProperties
  <1>5. StatTypes'
    <2>1. sendlen \in Int
      BY DEF ConnTypes
    <2>2. g_sendlen' \in [Slots -> Int] /\ g_hist' \in [Slots -> BOOLEAN]
      BY <1>1, <1>2, <2>1
    <2>3. QED
      BY <1>1, <1>2, <1>4, <2>2 DEF StatTypes
  <1>6. \A x \in Slots : ~ Taken(x)'
    BY <1>1 DEF Taken, InCall, Sending, Closing
  <1>7. ASSUME NEW x \in Slots, x # Slot PROVE CallsOf(x)' = CallsOf(x)
    <2>1. \A k \in 1..n : k \in 1..g_calls \/ k = n
      BY <1>2
    <2>2. (n - 1) % HISTLEN # x
      <3>1. n - 1 = g_calls
        BY <1>2
      <3>2. QED
        BY <1>7, <3>1 DEF Slot
    <2>3. 1..g_calls \subseteq 1..n
      BY <1>2
    <2>4. QED
      BY <1>1, <2>1, <2>2, <2>3 DEF CallsOf
  <1>8. ASSUME NEW x \in Slots, x = Slot
        PROVE  n \in CallsOf(x)' /\ Max(CallsOf(x)') = n
    <2>1. x = (n - 1) % HISTLEN /\ n \in 1..n
      <3>1. n - 1 = g_calls /\ n \in 1..n
        BY <1>2
      <3>2. QED
        BY <1>8, <3>1 DEF Slot
    <2>2. PICK K : K = {k \in 1..n : (k - 1) % HISTLEN = x}
      OBVIOUS
    <2>3. n \in K /\ \A k \in K : k \in 1..n
      BY <2>1, <2>2
    <2>4. \A k \in K : n >= k /\ (k >= n => k = n)
      BY <1>2, <2>3
    <2>5. Max(K) = n
      BY <2>3, <2>4 DEF Max
    <2>6. CallsOf(x)' = K
      BY <1>1, <2>2 DEF CallsOf
    <2>7. QED
      BY <2>3, <2>5, <2>6
  <1>9. TablesKept'
    <2>1. ASSUME NEW x \in Slots, x # Slot
          PROVE  IF CallsOf(x)' = {}
                 THEN g_sendlen'[x] = None /\ ~ g_hist'[x] /\ g_recvlen'[x] = None
                 ELSE /\ Max(CallsOf(x)') \in CallsOf(x)'
                      /\ g_hist'[x] /\ g_sendlen'[x] = log'[Max(CallsOf(x)')].send
                      /\ g_recvlen'[x] = log'[Max(CallsOf(x)')].recv
      <3>1. /\ g_recvlen'[x] = g_recvlen[x] /\ g_sendlen'[x] = g_sendlen[x]
            /\ g_hist'[x] = g_hist[x] /\ ~ Taken(x)
        BY <1>1, <1>2, <2>1 DEF Taken
      <3>2. CallsOf(x)' = CallsOf(x)
        BY <1>7, <2>1
      <3>3. CASE CallsOf(x) = {}
        BY <3>1, <3>2, <3>3 DEF TableInv, TablesKept
      <3>4. CASE CallsOf(x) # {}
        <4>1. /\ Max(CallsOf(x)) \in CallsOf(x)
              /\ g_hist[x] /\ g_sendlen[x] = log[Max(CallsOf(x))].send
              /\ g_recvlen[x] = log[Max(CallsOf(x))].recv
          BY <3>1, <3>4 DEF TableInv, TablesKept
        <4>2. log'[Max(CallsOf(x))] = log[Max(CallsOf(x))]
          BY <1>4, <4>1 DEF CallsOf
        <4>3. QED
          BY <3>1, <3>2, <3>4, <4>1, <4>2
      <3>5. QED
        BY <3>3, <3>4
    <2>2. ASSUME NEW x \in Slots, x = Slot
          PROVE  /\ CallsOf(x)' # {} /\ Max(CallsOf(x)') \in CallsOf(x)'
                 /\ g_hist'[x] /\ g_sendlen'[x] = log'[Max(CallsOf(x)')].send
                 /\ g_recvlen'[x] = log'[Max(CallsOf(x)')].recv
      <3>1. CallsOf(x)' # {} /\ Max(CallsOf(x)') \in CallsOf(x)' /\ Max(CallsOf(x)') = n
        BY <1>8, <2>2
      <3>2. g_hist'[x] /\ g_sendlen'[x] = sendlen
        BY <1>1, <1>2, <2>2
      <3>3. g_recvlen'[x] = size
        BY <1>1, <2>2 DEF TableInv, LogKept, InCall
      <3>4. c.send = sendlen /\ c.recv = size
        BY DEF c
      <3>5. QED
        BY <1>4, <3>1, <3>2, <3>3, <3>4
    <2>3. QED
      BY <2>1, <2>2 DEF TablesKept
  <1>10. LogKept'
    <2>1. phase' \notin InCall
      BY <1>1 DEF InCall, Sending, Closing
    <2>2. ASSUME NEW k \in 1..n PROVE log'[k].reply # None => log'[k].send = log'[k].reply
      <3>1. k \in 1..g_calls \/ k = n
        BY <1>2
      <3>2. CASE k = n
        BY <1>3, <1>4, <3>2
      <3>3. CASE k \in 1..g_calls
        BY <1>4, <3>3 DEF TableInv, LogKept
      <3>4. QED
        BY <3>1, <3>2, <3>3
    <2>3. QED
      BY <1>1, <2>1, <2>2 DEF LogKept
  <1>11. QED
    BY <1>5, <1>9, <1>10 DEF TableInv

-----------------------------------------------------------------------------
(* The slots of the last calls                                             *)

\* The calls that the tables still hold, and the slot that a call fell on
LastCalls == {k \in 1..g_calls : k > g_calls - HISTLEN}
SlotOf(k) == (k - 1) % HISTLEN

\* What statsWriteRecord takes its averages over, while a request is served: each
\* of the last HISTLEN calls once, at the slot where its lengths are, except that
\* this request has already taken the place of the oldest one's declared length
AveragesCover ==
    phase = "serve" =>
    /\ Recorded = {SlotOf(k) : k \in LastCalls}
    /\ \A j, k \in LastCalls : SlotOf(j) = SlotOf(k) => j = k
    /\ \A k \in LastCalls :
         /\ g_sendlen[SlotOf(k)] = log[k].send
         /\ g_recvlen[SlotOf(k)] = IF SlotOf(k) = Slot THEN size ELSE log[k].recv
    /\ statsWriteRecord.count = Cardinality(LastCalls)

\* Division with remainder
LEMMA Quotients ==
    ASSUME NEW h \in Nat \ {0}, NEW a \in Nat
    PROVE  \E q \in Nat, r \in 0..(h - 1) : a = h * q + r
  <1>1. a = h * (a \div h) + (a % h) /\ a \div h \in Nat /\ a % h \in 0..(h - 1)
    OBVIOUS
  <1>2. QED
    BY <1>1

\* Remainders: a number below the divisor is its own, and no two numbers that are
\* less than the divisor apart have the same
LEMMA Remainders ==
    ASSUME NEW h \in Nat \ {0}
    PROVE  /\ \A a \in 0..(h - 1) : a % h = a
           /\ \A a, b \in Nat : a < b /\ b < a + h => a % h # b % h
           /\ \A a \in Nat : a % h \in 0..(h - 1)
           /\ \A a \in 0..(h - 1), q \in Nat : (h * q + a) % h = a
  <1>1. \A a \in Nat : a = h * (a \div h) + (a % h) /\ a \div h \in Nat /\ a % h \in 0..(h - 1)
    OBVIOUS
  <1>2. \A q \in Nat : q = 0 \/ h * q >= h
    OBVIOUS
  <1>3. ASSUME NEW a \in 0..(h - 1) PROVE a % h = a
    BY <1>1, <1>2
  <1>4. ASSUME NEW a \in Nat, NEW b \in Nat, a < b, b < a + h, a % h = b % h PROVE FALSE
    <2>1. PICK p \in Nat, q \in Nat : a = h * p + (a % h) /\ b = h * q + (b % h)
      BY <1>1
    <2>2. h * q - h * p = b - a
      BY <1>1, <1>4, <2>1
    <2>3. CASE q <= p
      <3>1. h * q <= h * p
        BY <2>3
      <3>2. QED
        BY <1>4, <2>2, <3>1
    <2>4. CASE q >= p + 1
      <3>1. h * q >= h * p + h
        BY <2>4
      <3>2. QED
        BY <1>4, <2>2, <3>1
    <2>5. QED
      BY <2>3, <2>4
  <1>5. ASSUME NEW a \in 0..(h - 1), NEW q \in Nat PROVE (h * q + a) % h = a
    <2>1. h * q \in Nat /\ h * q + a \in Nat
      OBVIOUS
    <2>2. PICK p \in Nat, r \in 0..(h - 1) :
            h * q + a = h * p + r /\ r = (h * q + a) % h
      BY <1>1, <2>1
    <2>3. CASE q <= p - 1
      <3>1. h * q + h <= h * p
        BY <2>3
      <3>2. QED
        BY <2>2, <3>1
    <2>4. CASE q >= p + 1
      <3>1. h * q >= h * p + h
        BY <2>4
      <3>2. QED
        BY <2>2, <3>1
    <2>5. CASE q = p
      BY <2>2, <2>5
    <2>6. QED
      BY <2>3, <2>4, <2>5
  <1>6. QED
    BY <1>1, <1>3, <1>4, <1>5

\* Each of the last calls is the last one of its slot
LEMMA LastOfSlot ==
    ASSUME StatTypes, NEW k \in LastCalls
    PROVE  SlotOf(k) \in Slots /\ k \in CallsOf(SlotOf(k)) /\ Max(CallsOf(SlotOf(k))) = k
  <1>1. g_calls \in Nat /\ HISTLEN \in Nat \ {0} /\ k \in 1..g_calls /\ k > g_calls - HISTLEN
    BY ConnectionAssumption DEF StatTypes, LastCalls
  <1>2. SlotOf(k) \in Slots /\ k \in CallsOf(SlotOf(k))
    BY <1>1, Remainders DEF SlotOf, Slots, CallsOf
  <1>3. ASSUME NEW j \in CallsOf(SlotOf(k)) PROVE j \in 1..g_calls /\ j <= k
    <2>1. j \in 1..g_calls /\ (j - 1) % HISTLEN = (k - 1) % HISTLEN
      BY DEF CallsOf, SlotOf
    <2>2. CASE j > k
      <3>1. k - 1 \in Nat /\ j - 1 \in Nat /\ k - 1 < j - 1 /\ j - 1 < (k - 1) + HISTLEN
        BY <1>1, <2>1, <2>2
      <3>2. QED
        BY <1>1, <2>1, <3>1, Remainders
    <2>3. QED
      BY <1>1, <2>1, <2>2
  <1>4. \A j \in CallsOf(SlotOf(k)) : k >= j /\ (j >= k => j = k)
    BY <1>1, <1>3
  <1>5. QED
    BY <1>2, <1>4 DEF Max

\* The slots that have a time are those of the last calls
LEMMA RecordedSlots ==
    ASSUME TableInv
    PROVE  /\ Recorded = {SlotOf(k) : k \in LastCalls}
           /\ statsWriteRecord.count = Cardinality(LastCalls)
  <1> DEFINE n == IF g_calls >= HISTLEN THEN HISTLEN ELSE g_calls
  <1>1. g_calls \in Nat /\ HISTLEN \in Nat \ {0} /\ n \in 0..HISTLEN /\ n <= g_calls
    BY ConnectionAssumption DEF TableInv, StatTypes
  <1>2. ASSUME NEW y \in Slots PROVE g_hist[y] <=> y < n
    <2>1. g_hist[y] <=> CallsOf(y) # {}
      BY DEF TableInv, TablesKept
    <2>2. ASSUME y < n PROVE CallsOf(y) # {}
      <3>1. y + 1 \in 1..g_calls /\ (y + 1) - 1 = y /\ y \in 0..(HISTLEN - 1)
        BY <1>1, <2>2 DEF Slots
      <3>2. y + 1 \in CallsOf(y)
        BY <1>1, <3>1, Remainders DEF CallsOf
      <3>3. QED
        BY <3>2
    <2>3. ASSUME NEW k \in CallsOf(y) PROVE y < n
      <3>1. k \in 1..g_calls /\ (k - 1) % HISTLEN = y
        BY DEF CallsOf
      <3>2. CASE g_calls >= HISTLEN
        BY <1>1, <3>2 DEF Slots
      <3>3. CASE g_calls < HISTLEN
        <4>1. k - 1 \in 0..(HISTLEN - 1)
          BY <1>1, <3>1, <3>3
        <4>2. y = k - 1
          BY <1>1, <3>1, <4>1, Remainders
        <4>3. QED
          BY <1>1, <3>1, <3>3, <4>2
      <3>4. QED
        BY <1>1, <3>2, <3>3
    <2>4. QED
      BY <2>1, <2>2, <2>3
  <1>3. Recorded = 0..(n - 1)
    <2>1. ASSUME NEW x \in Recorded PROVE x \in 0..(n - 1)
      <3>1. x \in Slots /\ \A y \in 0..x : g_hist[y]
        BY DEF Recorded
      <3>2. x \in 0..x /\ x \in Nat
        BY <3>1 DEF Slots
      <3>3. QED
        BY <1>1, <1>2, <3>1, <3>2
    <2>2. ASSUME NEW x \in 0..(n - 1) PROVE x \in Recorded
      <3>1. x \in Slots /\ \A y \in 0..x : y \in Slots /\ y < n
        BY <1>1 DEF Slots
      <3>2. QED
        BY <1>2, <3>1 DEF Recorded
    <2>3. QED
      BY <2>1, <2>2
  <1>4. ASSUME NEW x \in 0..(n - 1) PROVE \E k \in LastCalls : SlotOf(k) = x
    <2>1. CASE g_calls < HISTLEN
      <3>1. x + 1 \in LastCalls /\ (x + 1) - 1 = x /\ x \in 0..(HISTLEN - 1)
        BY <1>1, <2>1 DEF LastCalls
      <3>2. SlotOf(x + 1) = x
        BY <1>1, <3>1, Remainders DEF SlotOf
      <3>3. QED
        BY <3>1, <3>2
    <2>2. CASE g_calls >= HISTLEN
      <3>1. g_calls - 1 - x \in Nat /\ x \in 0..(HISTLEN - 1)
        BY <1>1, <2>2
      <3>2. PICK q \in Nat, r \in 0..(HISTLEN - 1) : g_calls - 1 - x = HISTLEN * q + r
        BY <1>1, <3>1, Quotients
      <3>3. \E k \in LastCalls : k - 1 = HISTLEN * q + x
        <4>1. PICK m \in Nat : m = HISTLEN * q
          BY <1>1
        <4>2. m + x + 1 \in LastCalls /\ m + x + 1 - 1 = m + x
          BY <1>1, <3>1, <3>2, <4>1 DEF LastCalls
        <4>3. QED
          BY <4>1, <4>2
      <3>4. PICK k \in LastCalls : k - 1 = HISTLEN * q + x
        BY <3>3
      <3>5. (HISTLEN * q + x) % HISTLEN = x
        BY <1>1, <3>1, Remainders
      <3>6. SlotOf(k) = x
        BY <3>4, <3>5 DEF SlotOf
      <3>7. QED
        BY <3>6
    <2>3. QED
      BY <1>1, <2>1, <2>2
  <1>5. ASSUME NEW k \in LastCalls PROVE SlotOf(k) \in 0..(n - 1)
    <2>1. SlotOf(k) \in Slots /\ CallsOf(SlotOf(k)) # {}
      BY LastOfSlot DEF TableInv
    <2>2. g_hist[SlotOf(k)]
      BY <2>1 DEF TableInv, TablesKept
    <2>3. QED
      BY <1>1, <1>2, <2>1, <2>2 DEF Slots
  <1>6. LastCalls = (g_calls - n + 1)..g_calls
    BY <1>1 DEF LastCalls
  <1>7. Cardinality(0..(n - 1)) = n /\ Cardinality((g_calls - n + 1)..g_calls) = n
    <2>1. \A a, b \in Int : Cardinality(a..b) = IF a > b THEN 0 ELSE b - a + 1
      BY FS_Interval
    <2>2. /\ 0 \in Int /\ n - 1 \in Int /\ g_calls - n + 1 \in Int /\ g_calls \in Int
          /\ (IF 0 > n - 1 THEN 0 ELSE n - 1 - 0 + 1) = n
          /\ (IF g_calls - n + 1 > g_calls THEN 0 ELSE g_calls - (g_calls - n + 1) + 1) = n
      BY <1>1
    <2>3. QED
      BY <2>1, <2>2
  <1>8. Recorded = {SlotOf(k) : k \in LastCalls}
    BY <1>3, <1>4, <1>5
  <1>9. QED
    BY <1>3, <1>6, <1>7, <1>8 DEF statsWriteRecord

-----------------------------------------------------------------------------
(* The theorems                                                            *)

\* Init puts the server at its first accept, with nothing recorded
LEMMA InitInv == Init => ConnInv
  <1> SUFFICES ASSUME Init PROVE ConnInv
    OBVIOUS
  <1>1. /\ phase = "accept" /\ msg \in Messages /\ arrived = 0 /\ size = 0 /\ buf = <<>>
        /\ sent = <<>> /\ sendlen = 0 /\ g_calls = 0 /\ log = <<>>
        /\ g_hist = [x \in Slots |-> FALSE]
        /\ g_recvlen = [x \in Slots |-> None] /\ g_sendlen = [x \in Slots |-> None]
    BY DEF Init
  <1>2. ConnTypes /\ BufferRead /\ ReplyReady /\ LengthReady
    BY <1>1, MessageTypes DEF ConnTypes, BufferRead, ReplyReady, LengthReady, Reading,
       Sending, Closing
  <1>3. StatTypes
    BY <1>1 DEF StatTypes, None
  <1>4. \A x \in Slots : CallsOf(x) = {}
    BY <1>1 DEF CallsOf
  <1>5. TablesKept
    BY <1>1, <1>4 DEF TablesKept
  <1>6. LogKept
    BY <1>1 DEF LogKept, InCall, Sending, Closing
  <1>7. QED
    BY <1>2, <1>3, <1>5, <1>6 DEF ConnInv

\* Every step preserves the invariant
LEMMA NextInv == ConnInv /\ [Next]_vars => ConnInv'
  <1> SUFFICES ASSUME ConnInv, [Next]_vars PROVE ConnInv'
    OBVIOUS
  <1> USE DEF Reading, Sending, Closing, InCall
  <1>0. CallInv /\ TableInv /\ ConnTypes /\ LengthReady /\ (CallInv' /\ TableInv' => ConnInv')
    BY DEF ConnInv, CallInv, TableInv
  <1>1. CASE UNCHANGED vars
    <2>1. CallInv'
      BY <1>0, <1>1 DEF vars, sockVars, CallInv, ConnTypes, BufferRead, ReplyReady,
         Delivered, LengthReady, Accepted, Served
    <2>2. TableInv'
      BY <1>0, <1>1, StatsUntouched DEF vars
    <2>3. QED
      BY <1>0, <2>1, <2>2
  <1>2. CASE Arrive \/ Leave \/ Accept \/ AcceptFails
    <2>1. TableInv'
      BY <1>0, <1>2, StatsUntouched DEF Arrive, Leave, Accept, AcceptFails, Connected
    <2>2. QED
      BY <1>0, <1>2, <2>1, ClientStep
  <1>3. CASE ReadSome \/ ReadNothing
    <2>1. TableInv'
      BY <1>0, <1>3, StatsUntouched DEF ReadSome, ReadNothing
    <2>2. QED
      BY <1>0, <1>3, <2>1, ReadStep
  <1>4. CASE RecvHeader
    BY <1>0, <1>4, BeginStep, ReadStep
  <1>5. CASE Serve
    <2>1. phase = "serve" /\ phase' \in {"crashed", "send", "last"}
          /\ size' = size /\ UNCHANGED statVars
      BY <1>5 DEF Serve
    <2>2. TableInv'
      BY <1>0, <2>1, StatsUntouched
    <2>3. QED
      BY <1>0, <1>5, <2>2, ServeStep
  <1>6. CASE Send
    <2>1. phase \in Sending /\ phase' \in Closing \cup {"crashed"}
          /\ size' = size /\ UNCHANGED statVars
      BY <1>6 DEF Send
    <2>2. TableInv'
      BY <1>0, <2>1, StatsUntouched
    <2>3. QED
      BY <1>0, <1>6, <2>2, SendStep
  <1>7. CASE Close
    BY <1>0, <1>7, EndStep, SendStep
  <1>8. QED
    BY <1>1, <1>2, <1>3, <1>4, <1>5, <1>6, <1>7 DEF Next, ServerStep

\* The inductive invariant holds in every reachable state
THEOREM ConnInvariance == Spec => []ConnInv
  BY InitInv, NextInv, PTL DEF Spec

\* However the bytes of a message are cut up and whenever the client leaves, a
\* request that is served has exactly the declared length and is a beginning of
\* what this client sent (readRequest, socket.c)
THEOREM RequestsStayWhole == Spec => []RequestsWhole
  <1>1. ConnInv => RequestsWhole
    <2> SUFFICES ASSUME ConnInv, phase = "serve"
                 PROVE  Len(buf) = size /\ IsPrefix(buf, msg.fields)
      BY DEF RequestsWhole
    <2>1. ConnTypes /\ BufferRead
      BY DEF ConnInv
    <2>2. Len(buf) \in 0..Len(msg.fields) /\ buf = SubSeq(msg.fields, 1, Len(buf))
      BY <2>1, ReadSoFar DEF Reading
    <2>3. SubSeq(buf, 1, Len(buf)) = buf
      BY <2>1, SubSeqFull DEF ConnTypes
    <2>4. Len(msg.fields) \in Nat
      BY <2>1, MessageTypes DEF ConnTypes
    <2>5. IsPrefix(buf, msg.fields)
      BY <2>2, <2>3, <2>4 DEF IsPrefix
    <2>6. QED
      BY <2>1, <2>5 DEF BufferRead
  <1>2. QED
    BY <1>1, ConnInvariance, PTL

\* A request that requestNew accepts is answered by one whole document or not at
\* all, and a client that goes meanwhile has a beginning of it, whatever the administration request or the procedure answers
\* (serviceRequest and main, runcheck.c)
THEOREM RepliesStayWhole == Spec => []RepliesWhole
  <1>1. ConnInv => RepliesWhole
    BY DEF ConnInv, ReplyReady, Closing, Accepted, Delivered, RepliesWhole
  <1>2. QED
    BY <1>1, ConnInvariance, PTL

\* Between calls each slot of the statistics holds the last call that fell on it,
\* with the length of its own reply if it had one, for every length of the tables
\* and every number of calls (statsBeginCall and statsEndCall, stats.c)
THEOREM CallsStayRecorded == Spec => []CallsRecorded
  <1>1. ConnInv => CallsRecorded
    <2> SUFFICES ASSUME ConnInv, phase \in {"accept", "stopped"}, NEW x \in Slots
                 PROVE  IF CallsOf(x) = {}
                        THEN g_recvlen[x] = None /\ g_sendlen[x] = None /\ ~ g_hist[x]
                        ELSE LET c == log[Max(CallsOf(x))]
                             IN  /\ g_hist[x] /\ g_recvlen[x] = c.recv
                                 /\ c.reply # None => g_sendlen[x] = c.reply
      BY DEF CallsRecorded, CallsOf
    <2>1. ~ Taken(x)
      BY DEF Taken, InCall, Sending, Closing
    <2>2. CASE CallsOf(x) = {}
      BY <2>1, <2>2 DEF ConnInv, TablesKept
    <2>3. CASE CallsOf(x) # {}
      <3>1. /\ Max(CallsOf(x)) \in CallsOf(x)
            /\ g_hist[x] /\ g_sendlen[x] = log[Max(CallsOf(x))].send
            /\ g_recvlen[x] = log[Max(CallsOf(x))].recv
        BY <2>1, <2>3 DEF ConnInv, TablesKept
      <3>2. Max(CallsOf(x)) \in 1..g_calls
        BY <3>1 DEF CallsOf
      <3>3. QED
        BY <2>3, <3>1, <3>2 DEF ConnInv, LogKept
    <2>4. QED
      BY <2>2, <2>3
  <1>2. QED
    BY <1>1, ConnInvariance, PTL

\* While a request is served, the slots that statsWriteRecord averages over are
\* those of the last HISTLEN calls, or of all of them, each once, and the lengths
\* in them are those of these calls, but for the slot of this request (stats.c).
\* What the sums over them are, TLC checks as AveragesOfLastCalls.
THEOREM AveragesStayOverLastCalls == Spec => []AveragesCover
  <1>1. ConnInv => AveragesCover
    <2> SUFFICES ASSUME ConnInv, phase = "serve"
                 PROVE  /\ Recorded = {SlotOf(k) : k \in LastCalls}
                        /\ \A j, k \in LastCalls : SlotOf(j) = SlotOf(k) => j = k
                        /\ \A k \in LastCalls :
                             /\ g_sendlen[SlotOf(k)] = log[k].send
                             /\ g_recvlen[SlotOf(k)] =
                                    IF SlotOf(k) = Slot THEN size ELSE log[k].recv
                        /\ statsWriteRecord.count = Cardinality(LastCalls)
      BY DEF AveragesCover
    <2>1. TableInv /\ StatTypes
      BY DEF ConnInv, TableInv
    <2>2. \A j, k \in LastCalls : SlotOf(j) = SlotOf(k) => j = k
      BY <2>1, LastOfSlot
    <2>3. ASSUME NEW k \in LastCalls
          PROVE  /\ g_sendlen[SlotOf(k)] = log[k].send
                 /\ g_recvlen[SlotOf(k)] = IF SlotOf(k) = Slot THEN size ELSE log[k].recv
      <3>1. /\ SlotOf(k) \in Slots /\ CallsOf(SlotOf(k)) # {}
            /\ Max(CallsOf(SlotOf(k))) = k
        BY <2>1, LastOfSlot
      <3>2. /\ g_sendlen[SlotOf(k)] = log[k].send
            /\ Taken(SlotOf(k)) \/ g_recvlen[SlotOf(k)] = log[k].recv
        BY <2>1, <3>1 DEF TableInv, TablesKept
      <3>3. /\ Taken(SlotOf(k)) <=> SlotOf(k) = Slot
            /\ g_recvlen[Slot] = size
        BY <2>1 DEF Taken, InCall, TableInv, LogKept
      <3>4. QED
        BY <3>2, <3>3
    <2>4. QED
      BY <2>1, <2>2, <2>3, RecordedSlots
  <1>2. QED
    BY <1>1, ConnInvariance, PTL
=============================================================================
