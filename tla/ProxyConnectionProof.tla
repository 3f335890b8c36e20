------------------------ MODULE ProxyConnectionProof ------------------------
(***************************************************************************)
(* Proofs about ProxyConnection for any streams of requests and answers,   *)
(* whatever the sizes of the buffers, of the pieces in which they arrive,  *)
(* and the failures.                                                       *)
(***************************************************************************)
EXTENDS ProxyConnection, NaturalOrder, TLAPS

-----------------------------------------------------------------------------
(* Connections to backends *)

Positions == {"reading", "parsing", "connecting", "waiting", "sending",
              "awaiting", "receiving", "answering", "rejecting", "closed"}

SocketInv == pc \in Positions /\ SocketsClosed

LEMMA SocketSteps == SocketInv /\ [Next]_vars => SocketInv'
<1> SUFFICES ASSUME SocketInv, [Next]_vars PROVE SocketInv' OBVIOUS
<1> USE DEF SocketInv, SocketsClosed, Positions
<1>1. CASE ClientSends \/ ClientLeaves \/ UNCHANGED vars
  BY <1>1 DEF ClientSends, ClientLeaves, vars, backendVars
<1>2. CASE ConnectionEnds \/ KeepReading \/ BadSizes \/ AnswerError \/ ParseDies \/ StartForward
  BY <1>2
  DEF ConnectionEnds, KeepReading, BadSizes, AnswerError, ParseDies, StartForward, Close, Refuse,
      ProcessEnds, backendVars
<1>3. CASE SocketFails \/ OpenSocket \/ Connected \/ ConnectFails
  BY <1>3
  DEF SocketFails, OpenSocket, Connected, ConnectFails, BadGateway, CloseFailed, backendVars
<1>4. CASE SendRequest \/ SendFails
  <2>1. CASE SendRequest
    <3>1. pc = "sending" /\ pc' = "awaiting" /\ sockets' = sockets BY <2>1 DEF SendRequest
    <3>2. QED BY <3>1
  <2>2. CASE SendFails BY <2>2 DEF SendFails, BadGateway, ProcessEnds
  <2>3. QED BY <1>4, <2>1, <2>2
<1>5. CASE EndOfResponse
  BY <1>5 DEF EndOfResponse, Finish, CloseBackend
<1>6. CASE AnswerClient
  BY <1>6
  DEF AnswerClient, SendHTTPResponse, SendBadRequest, AnswerFails, AwaitNext, HangUp, ProcessEnds,
      backendVars
<1>7. ASSUME NEW n \in 1 .. Chunk, Receive(n) \/ TooLarge(n) PROVE SocketInv'
  BY <1>7 DEF Receive, TooLarge, Close, backendVars
<1>8. ASSUME NEW n \in 1 .. Chunk, ReadHTTPResponse(n) PROVE SocketInv'
  BY <1>8
  DEF ReadHTTPResponse, ReadHead, ReadBody, HeadTooLarge, NoMemory, Finish, CloseBackend,
      CanRead, backendVars
<1>9. CASE Backend
  BY <1>9 DEF Backend, BackendReplies, BackendAnswers, BackendBreaks
<1>10. QED
  BY <1>1, <1>2, <1>3, <1>4, <1>5, <1>6, <1>7, <1>8, <1>9 DEF Next, Worker, Proceed

\* No path leaves a connection to a backend open, not even those of a failed
\* connect, a failed send, a head that is too large, or missing memory.
THEOREM ConnectionsAreClosed == Spec => []SocketsClosed
<1>1. Init => SocketInv BY DEF Init, SocketInv, SocketsClosed, Positions
<1>2. SocketInv => SocketsClosed BY DEF SocketInv
<1>3. QED BY <1>1, <1>2, SocketSteps, PTL DEF Spec

-----------------------------------------------------------------------------
(* The buffer and the stream *)

\* The positions in which there is a request to forward, and to answer.
InFlight == {"connecting", "waiting", "sending", "awaiting", "receiving", "answering",
             "rejecting"}

BufferTypes ==
  /\ stream \in Streams /\ sent \in 0 .. Len(stream)
  /\ read \in 0 .. sent /\ first \in 1 .. read + 1
  /\ pc \in Positions

\* All of request r has been read.
ReadWhole(r) == \A k \in DOMAIN stream : stream[k].of = r => k <= read

\* The request that is handled has its head in the buffer, and has been read to
\* its end if the buffer begins with a request line.
CurrentInv ==
  pc \in InFlight =>
    /\ Ends # {} /\ current = stream[HeadEnd].of
    /\ stream[first].part = "line" /\ pc # "rejecting" => ReadWhole(current)

BufferInv == BufferTypes /\ CurrentInv

LEMMA StreamFacts ==
  ASSUME BufferTypes
  PROVE  /\ stream \in Seq(Units) /\ Len(stream) \in Nat /\ DOMAIN stream = 1 .. Len(stream)
         /\ \A i \in DOMAIN stream : stream[i].of \in Nat /\ stream[i].length \in Nat
         /\ sent \in Nat /\ read \in Nat /\ first \in Nat
<1>1. stream \in Seq(Units) BY ConnectionConstants DEF BufferTypes
<1>2. Len(stream) \in Nat /\ DOMAIN stream = 1 .. Len(stream) BY <1>1
<1>3. \A i \in DOMAIN stream : stream[i] \in Units BY <1>1
<1>4. QED BY <1>1, <1>2, <1>3 DEF Units, BufferTypes

LEMMA RequestsInOrder ==
  ASSUME BufferTypes, NEW i \in DOMAIN stream, NEW j \in DOMAIN stream
  PROVE  /\ stream[i].of > 0 /\ (i <= j => stream[i].of <= stream[j].of)
         /\ stream[i].part = "line" \/ (i - 1 \in DOMAIN stream /\ stream[i - 1].of = stream[i].of)
         /\ stream[i].part = "end" /\ stream[j].of = stream[i].of /\ j > i =>
              stream[j].part = "body" /\ j <= i + stream[i].length
BY RequestsAreWhole DEF BufferTypes

\* The first head in the buffer.
LEMMA HeadEndFacts ==
  ASSUME BufferTypes, Ends # {}
  PROVE  /\ HeadEnd \in first .. read /\ HeadEnd \in DOMAIN stream
         /\ stream[HeadEnd].part = "end"
         /\ \A i \in Ends : HeadEnd <= i
<1>1. first \in Nat /\ read \in Nat /\ sent \in Nat /\ Len(stream) \in Nat
      /\ DOMAIN stream = 1 .. Len(stream)
  BY StreamFacts
<1>2. Ends \subseteq Nat BY <1>1 DEF Ends
<1>3. \E x \in Ends : \A y \in Ends : x <= y BY <1>2, Minimum
<1>4. HeadEnd \in Ends /\ \A i \in Ends : HeadEnd <= i BY <1>3 DEF HeadEnd
<1>5. QED BY <1>1, <1>4 DEF Ends, BufferTypes

\* A request that begins the buffer is complete when all of it has been read.
LEMMA CompleteFacts ==
  ASSUME BufferTypes, Complete, stream[first].part = "line"
  PROVE  ReadWhole(stream[HeadEnd].of)
<1>1. /\ HeadEnd \in first .. read /\ HeadEnd \in DOMAIN stream
      /\ stream[HeadEnd].part = "end" /\ first # HeadEnd
  BY HeadEndFacts DEF Complete
<1>2. read >= HeadEnd + stream[HeadEnd].length
  BY <1>1, StreamFacts DEF Complete, GetRequestSizes, Incomplete
<1>3. \A k \in DOMAIN stream : stream[k].of = stream[HeadEnd].of /\ k > HeadEnd =>
        k <= HeadEnd + stream[HeadEnd].length
  BY <1>1, RequestsInOrder
<1>4. QED BY <1>1, <1>2, <1>3, StreamFacts DEF ReadWhole

\* A step that stays with the request it has, or with none.
LEMMA BufferStays ==
  ASSUME BufferInv, UNCHANGED <<clientVars, bufferVars>>, pc' \in Positions,
         pc' \in InFlight => pc \in InFlight \ {"rejecting"} /\ current' = current
  PROVE  BufferInv'
BY DEF BufferInv, BufferTypes, CurrentInv, ReadWhole, Ends, HeadEnd, clientVars, bufferVars

\* The first request in the buffer is taken up.
LEMMA BufferTaken ==
  ASSUME BufferInv, UNCHANGED <<clientVars, bufferVars>>, pc' \in InFlight,
         Ends # {}, current' = stream[HeadEnd].of, pc' # "rejecting" => Complete
  PROVE  BufferInv'
<1>1. stream[first].part = "line" /\ pc' # "rejecting" => ReadWhole(stream[HeadEnd].of)
  BY CompleteFacts DEF BufferInv
<1>2. QED
  BY <1>1
  DEF BufferInv, BufferTypes, CurrentInv, ReadWhole, Ends, HeadEnd, clientVars, bufferVars,
      Positions, InFlight

\* The buffer is emptied: no request is handled any more.
LEMMA BufferEmptied ==
  ASSUME BufferInv, UNCHANGED <<clientVars, read>>, EmptyBuffer,
         pc' \in Positions \ InFlight
  PROVE  BufferInv'
<1>1. read \in Nat BY StreamFacts DEF BufferInv
<1>2. QED BY <1>1 DEF BufferInv, BufferTypes, CurrentInv, EmptyBuffer, clientVars

LEMMA BufferSteps ==
  ASSUME BufferInv, [Next]_vars
  PROVE  BufferInv'
<1> USE DEF Positions, InFlight
<1>a. BufferTypes BY DEF BufferInv
<1>b. sent \in Nat /\ read \in Nat /\ first \in Nat /\ Len(stream) \in Nat
  BY <1>a, StreamFacts
<1>1. CASE ClientSends
  <2>1. /\ sent' = sent + 1 /\ sent < Len(stream)
        /\ UNCHANGED <<stream, read, first, pc, current>>
    BY <1>1 DEF ClientSends, bufferVars
  <2>2. CurrentInv' BY <2>1 DEF BufferInv, CurrentInv, ReadWhole, Ends, HeadEnd
  <2>3. QED BY <1>b, <2>1, <2>2 DEF BufferInv, BufferTypes
<1>2. CASE ClientLeaves \/ UNCHANGED vars
  <2>1. UNCHANGED <<stream, sent, read, first, pc, current>>
    BY <1>2 DEF ClientLeaves, vars, clientVars, bufferVars
  <2>2. QED BY <2>1 DEF BufferInv, BufferTypes, CurrentInv, ReadWhole, Ends, HeadEnd
<1>3. CASE ConnectionEnds \/ KeepReading \/ ParseDies
  BY <1>3, BufferStays
  DEF ConnectionEnds, KeepReading, ParseDies, Close, ProcessEnds
<1>4. CASE BadSizes \/ AnswerError \/ StartForward
  BY <1>4, BufferTaken DEF BadSizes, AnswerError, StartForward, Refuse, Complete
<1>5. CASE SocketFails \/ OpenSocket \/ Connected \/ ConnectFails \/ SendRequest \/ SendFails
  BY <1>5, BufferStays
  DEF SocketFails, OpenSocket, Connected, ConnectFails, SendRequest, SendFails, BadGateway,
      ProcessEnds
<1>6. CASE EndOfResponse
  BY <1>6, BufferStays DEF EndOfResponse, Finish
<1>7. CASE AnswerClient
  <2>1. \/ UNCHANGED <<clientVars, read>> /\ EmptyBuffer /\ pc' = "reading"
        \/ UNCHANGED <<clientVars, bufferVars>> /\ pc' = "closed"
    BY <1>7
    DEF AnswerClient, SendHTTPResponse, SendBadRequest, AnswerFails, AwaitNext, HangUp,
        ResetRequest, ProcessEnds
  <2>2. QED BY <2>1, BufferStays, BufferEmptied
<1>8. ASSUME NEW n \in 1 .. Chunk, Receive(n) PROVE BufferInv'
  <2>1. /\ read' = read + n /\ read + n <= sent /\ pc' = "parsing"
        /\ UNCHANGED <<stream, sent, first>> /\ n \in Nat
    BY <1>8, ConnectionConstants DEF Receive, clientVars
  <2>2. QED BY <1>b, <2>1 DEF BufferInv, BufferTypes, CurrentInv
<1>9. ASSUME NEW n \in 1 .. Chunk, TooLarge(n) PROVE BufferInv'
  BY <1>9, BufferStays DEF TooLarge, Close
<1>10. ASSUME NEW n \in 1 .. Chunk, ReadHTTPResponse(n) PROVE BufferInv'
  BY <1>10, BufferStays
  DEF ReadHTTPResponse, ReadHead, ReadBody, HeadTooLarge, NoMemory, Finish, CanRead
<1>11. CASE Backend
  BY <1>11, BufferStays DEF Backend, BackendReplies, BackendAnswers, BackendBreaks
<1>12. QED
  BY <1>1, <1>2, <1>3, <1>4, <1>5, <1>6, <1>7, <1>8, <1>9, <1>10, <1>11
  DEF Next, Worker, Proceed

LEMMA BufferInit == Init => BufferInv
<1> SUFFICES ASSUME Init PROVE BufferInv OBVIOUS
<1>1. Len(stream) \in Nat
  <2>1. stream \in Seq(Units) BY ConnectionConstants DEF Init
  <2>2. QED BY <2>1
<1>2. QED BY <1>1 DEF Init, BufferInv, BufferTypes, CurrentInv, Positions, InFlight

THEOREM BufferInvariant == Spec => []BufferInv
<1>1. BufferInv /\ [Next]_vars => BufferInv' BY BufferSteps
<1>2. QED BY <1>1, BufferInit, PTL DEF Spec

-----------------------------------------------------------------------------
(* Answers come in order to a client that waits for them *)

Answers == Seq([to : Nat, status : Statuses])
AnswerTypes ==
  /\ status \in Statuses /\ answers \in Answers /\ pipelined \in BOOLEAN
  /\ pc = "receiving" => Shape \in ResponseShapes

\* The request that comes next is that after the last answer, and the client
\* has not sent more.
InOrder ==
  \A k \in DOMAIN stream :
    /\ k < first => stream[k].of <= Len(answers)
    /\ k >= first => stream[k].of > Len(answers)
    /\ k <= sent => stream[k].of <= Len(answers) + 1

\* An answer was lost because the client had left: nothing more will come.
Lost == gone /\ pc = "reading" /\ read = sent

OrderInv ==
  ~pipelined => /\ \A k \in DOMAIN answers : answers[k].to = k
                /\ pc = "closed" \/ Lost \/ InOrder

LEMMA RefusalType == ParseHTTPRequest \ {0} \subseteq Refusals
BY DEF ParseHTTPRequest, UriParse, Refusals

LEMMA ShapeType ==
  ASSUME NEW r \in ResponseShapes
  PROVE  r.head \in Nat /\ r.head > 0 /\ r.body \in Nat /\ r.status \in Statuses /\ r.status # 502
BY ConnectionConstants DEF Statuses, Replies

LEMMA CurrentFacts ==
  ASSUME BufferInv, pc \in InFlight
  PROVE  /\ HeadEnd \in first .. read /\ HeadEnd \in DOMAIN stream
         /\ current = stream[HeadEnd].of /\ current \in Nat /\ current > 0
         /\ stream[HeadEnd].part = "end"
<1>1. BufferTypes /\ Ends # {} /\ current = stream[HeadEnd].of BY DEF BufferInv, CurrentInv
<1>2. /\ HeadEnd \in first .. read /\ HeadEnd \in DOMAIN stream
      /\ stream[HeadEnd].part = "end"
  BY <1>1, HeadEndFacts
<1>3. QED BY <1>1, <1>2, StreamFacts, RequestsInOrder

LEMMA AnswerTypeSteps ==
  ASSUME BufferInv, AnswerTypes, [Next]_vars
  PROVE  AnswerTypes'
<1> USE DEF AnswerTypes
<1>a. ASSUME UNCHANGED <<answers, response>>, status' \in Statuses, pipelined' = pipelined,
             pc' = "receiving" => pc = "receiving"
      PROVE  AnswerTypes'
  BY <1>a DEF Shape
<1>1. CASE ClientSends
  BY <1>1, Zenon DEF ClientSends, backendVars, Shape
<1>2. CASE ClientLeaves \/ UNCHANGED vars
  BY <1>2, <1>a DEF ClientLeaves, vars, history, backendVars
<1>3. CASE ConnectionEnds \/ KeepReading \/ ParseDies \/ StartForward
  BY <1>3, <1>a
  DEF ConnectionEnds, KeepReading, ParseDies, StartForward, Close, ProcessEnds, history,
      backendVars
<1>4. CASE BadSizes \/ AnswerError
  <2>1. PICK s \in Refusals : Refuse(s)
    BY <1>4, RefusalType DEF BadSizes, AnswerError, Refusals
  <2>2. pc' # "receiving" BY <1>4 DEF BadSizes, AnswerError
  <2>3. QED BY <1>a, <2>1, <2>2 DEF Refuse, history, backendVars, Statuses
<1>5. CASE SocketFails \/ OpenSocket \/ Connected \/ ConnectFails \/ SendRequest \/ SendFails
  <2>1. 502 \in Statuses BY DEF Statuses
  <2>2. pc' # "receiving" /\ status' \in {status, 502} /\ UNCHANGED <<answers, pipelined>>
    BY <1>5
    DEF SocketFails, OpenSocket, Connected, ConnectFails, SendRequest, SendFails, BadGateway,
        ProcessEnds, history
  <2>3. QED BY <2>1, <2>2
<1>6. CASE SendHTTPResponse \/ SendBadRequest
  <2>1. /\ answers' = Append(answers, [to |-> current, status |-> status])
        /\ status' \in {0, status} /\ pipelined' = pipelined /\ pc \in InFlight
        /\ pc' # "receiving"
    BY <1>6
    DEF SendHTTPResponse, SendBadRequest, Answer, AwaitNext, HangUp, ResetRequest, history, InFlight
  <2>2. current \in Nat BY <2>1, CurrentFacts
  <2>3. [to |-> current, status |-> status] \in [to : Nat, status : Statuses] BY <2>2
  <2>4. answers' \in Answers BY <2>1, <2>3 DEF Answers
  <2>5. 0 \in Statuses BY DEF Statuses, Replies
  <2>6. QED BY <2>1, <2>4, <2>5
<1>7. CASE AnswerFails
  <2>1. 0 \in Statuses BY DEF Statuses, Replies
  <2>2. UNCHANGED <<answers, pipelined>> /\ pc' # "receiving" /\ status' \in {0, status}
    BY <1>7 DEF AnswerFails, AwaitNext, HangUp, ResetRequest, ProcessEnds, history
  <2>3. QED BY <2>1, <2>2
<1>8. ASSUME NEW n \in 1 .. Chunk, Receive(n) \/ TooLarge(n) PROVE AnswerTypes'
  BY <1>8, <1>a DEF Receive, TooLarge, Close, history, backendVars
<1>9. ASSUME NEW n \in 1 .. Chunk, ReadHead(n) \/ ReadBody(n) PROVE AnswerTypes'
  BY <1>9, <1>a DEF ReadHead, ReadBody, history, backendVars
<1>10. CASE EndOfResponse \/ \E n \in 1 .. Chunk : HeadTooLarge(n) \/ NoMemory(n)
  <2>1. /\ pc = "receiving" /\ pc' = "answering" /\ status' \in {0, Shape.status}
        /\ UNCHANGED <<answers, response, pipelined>>
    BY <1>10
    DEF EndOfResponse, HeadTooLarge, NoMemory, CanRead, Finish, BuildHTTPResponse, history
  <2>2. 0 \in Statuses /\ Shape.status \in Statuses
    BY <2>1, ShapeType DEF Statuses, Replies
  <2>3. QED BY <1>a, <2>1, <2>2
<1>11. CASE Backend
  <2>1. PICK shape \in ResponseShapes :
          BackendAnswers(shape) \/ \E k \in 0 .. shape.head + shape.body - 1 : BackendBreaks(shape, k)
    BY <1>11 DEF Backend, BackendReplies
  <2>2. response'.shape = shape /\ UNCHANGED <<answers, status, pipelined>>
    BY <2>1 DEF BackendAnswers, BackendBreaks, history
  <2>3. QED BY <2>2 DEF Shape
<1>12. QED
  BY <1>1, <1>2, <1>3, <1>4, <1>5, <1>6, <1>7, <1>8, <1>9, <1>10, <1>11
  DEF Next, Worker, Proceed, AnswerClient, ReadHTTPResponse

\* For a client that waits, the buffer begins with a request line.
LEMMA LineFirst ==
  ASSUME BufferInv, AnswerTypes, InOrder, first <= read
  PROVE  stream[first].part = "line"
<1>1. BufferTypes BY DEF BufferInv
<1>2. first \in DOMAIN stream /\ first \in Nat /\ Len(answers) \in Nat /\ DOMAIN stream \subseteq Nat
      /\ \A k \in DOMAIN stream : stream[k].of \in Nat
  BY <1>1, StreamFacts DEF BufferTypes, AnswerTypes, Answers
<1>3. stream[first].of > Len(answers) BY <1>2 DEF InOrder
<1>4. first - 1 \in DOMAIN stream => stream[first - 1].of <= Len(answers) BY <1>2 DEF InOrder
<1>5. QED BY <1>1, <1>2, <1>3, <1>4, RequestsInOrder

\* For a client that waits, the request that is answered has been read whole, and
\* it is the next one.
LEMMA NextInOrder ==
  ASSUME BufferInv, AnswerTypes, OrderInv, ~pipelined, pc \in InFlight
  PROVE  /\ InOrder /\ \A k \in DOMAIN answers : answers[k].to = k
         /\ current = Len(answers) + 1 /\ Len(answers) \in Nat
         /\ pc # "rejecting" => ReadWhole(current)
<1>1. InOrder /\ \A k \in DOMAIN answers : answers[k].to = k
  BY DEF OrderInv, Lost, InFlight
<1>2. /\ HeadEnd \in first .. read /\ HeadEnd \in DOMAIN stream
      /\ current = stream[HeadEnd].of /\ current \in Nat
  BY CurrentFacts
<1>3. /\ first \in Nat /\ read \in Nat /\ sent \in Nat /\ read <= sent /\ HeadEnd \in Nat
      /\ Len(answers) \in Nat
  BY <1>2, StreamFacts DEF BufferInv, BufferTypes, AnswerTypes, Answers
<1>4. current = Len(answers) + 1 BY <1>1, <1>2, <1>3 DEF InOrder
<1>5. stream[first].part = "line" BY <1>1, <1>2, <1>3, LineFirst
<1>6. pc # "rejecting" => ReadWhole(current) BY <1>5 DEF BufferInv, CurrentInv
<1>7. QED BY <1>1, <1>3, <1>4, <1>6

\* Neither an answer nor a new request.
LEMMA OrderStays ==
  ASSUME OrderInv, UNCHANGED <<stream, sent, first, answers, pipelined>>,
         pc' = "closed" \/ pc \notin {"reading", "closed"}
  PROVE  OrderInv'
BY DEF OrderInv, InOrder, Lost

\* An answer to the request that comes next.
LEMMA AnswerAdded ==
  ASSUME BufferInv, AnswerTypes, OrderInv, ~pipelined, pc \in InFlight, Answer
  PROVE  /\ \A k \in DOMAIN answers' : answers'[k].to = k
         /\ Len(answers') = Len(answers) + 1
<1>1. /\ \A k \in DOMAIN answers : answers[k].to = k
      /\ current = Len(answers) + 1 /\ current \in Nat
  BY NextInOrder, CurrentFacts
<1> DEFINE n == Len(answers)
           a == [to |-> current, status |-> status]
<1>2. a \in [to : Nat, status : Statuses] /\ a.to = current BY <1>1 DEF AnswerTypes
<1>3. answers' = Append(answers, a) BY DEF Answer
<1>4. answers \in Seq([to : Nat, status : Statuses]) BY DEF AnswerTypes, Answers
<1> HIDE DEF a
<1>5. /\ n \in Nat /\ DOMAIN answers = 1 .. n /\ DOMAIN answers' = 1 .. n + 1
      /\ Len(answers') = n + 1
      /\ \A k \in 1 .. n : answers'[k] = answers[k]
      /\ answers'[n + 1] = a
  BY <1>2, <1>3, <1>4
<1>6. \A k \in 1 .. n + 1 : k \in 1 .. n \/ k = n + 1 BY <1>5
<1>7. a.to = n + 1 BY <1>1, <1>2
<1> HIDE DEF n
<1>8. \A k \in DOMAIN answers' : answers'[k].to = k BY <1>1, <1>5, <1>6, <1>7
<1>9. QED BY <1>5, <1>8 DEF n

\* With the answer to a request that was read whole, the buffer is emptied.
LEMMA AnswerEmpties ==
  ASSUME BufferInv, AnswerTypes, OrderInv, pc = "answering", Answer,
         EmptyBuffer, UNCHANGED <<stream, sent, pipelined>>
  PROVE  OrderInv'
<1> SUFFICES ASSUME ~pipelined
             PROVE  (\A k \in DOMAIN answers' : answers'[k].to = k) /\ InOrder'
  BY DEF OrderInv
<1>a. BufferTypes /\ pc \in InFlight BY DEF BufferInv, InFlight
<1>1. /\ read \in Nat /\ first \in Nat /\ sent \in Nat /\ read <= sent
      /\ DOMAIN stream \subseteq Nat /\ \A k \in DOMAIN stream : stream[k].of \in Nat
  BY <1>a, StreamFacts DEF BufferTypes
<1>2. /\ HeadEnd \in DOMAIN stream /\ HeadEnd \in first .. read
      /\ current = stream[HeadEnd].of
  BY <1>a, CurrentFacts
<1>3. InOrder /\ current = Len(answers) + 1 /\ Len(answers) \in Nat /\ ReadWhole(current)
  BY <1>a, NextInOrder
<1>4. (\A k \in DOMAIN answers' : answers'[k].to = k) /\ Len(answers') = Len(answers) + 1
  BY <1>a, AnswerAdded
<1>5. first' = read + 1 BY DEF EmptyBuffer
<1>6. ASSUME NEW k \in DOMAIN stream
      PROVE  /\ k < first' => stream[k].of <= Len(answers')
             /\ k >= first' => stream[k].of > Len(answers')
             /\ k <= sent => stream[k].of <= Len(answers') + 1
  <2>1. k <= sent => stream[k].of <= Len(answers) + 1 BY <1>3 DEF InOrder
  <2>2. k >= first' => current <= stream[k].of BY <1>1, <1>2, <1>5, <1>a, RequestsInOrder
  <2>3. k >= first' => stream[k].of # current BY <1>1, <1>3, <1>5 DEF ReadWhole
  <2>4. QED BY <1>1, <1>3, <1>4, <1>5, <2>1, <2>2, <2>3
<1>7. InOrder' BY <1>6 DEF InOrder
<1>8. QED BY <1>4, <1>7

\* An answer is lost to a client that has left. It had sent nothing after the
\* request.
LEMMA AnswerLost ==
  ASSUME BufferInv, AnswerTypes, OrderInv, pc = "answering", gone, pc' = "reading",
         UNCHANGED <<stream, sent, gone, read, answers, pipelined>>
  PROVE  OrderInv'
<1> SUFFICES ASSUME ~pipelined
             PROVE  (\A k \in DOMAIN answers : answers[k].to = k) /\ read = sent
  BY DEF OrderInv, Lost
<1>a. BufferTypes /\ pc \in InFlight BY DEF BufferInv, InFlight
<1>1. /\ HeadEnd \in DOMAIN stream /\ HeadEnd \in first .. read
      /\ current = stream[HeadEnd].of
  BY <1>a, CurrentFacts
<1>2. /\ read \in Nat /\ first \in Nat /\ sent \in Nat /\ read <= sent /\ 1 <= first
      /\ sent \in DOMAIN stream /\ HeadEnd \in Nat /\ HeadEnd <= sent
      /\ \A k \in DOMAIN stream : stream[k].of \in Nat
  BY <1>a, <1>1, StreamFacts DEF BufferTypes
<1>3. /\ InOrder /\ current = Len(answers) + 1 /\ Len(answers) \in Nat /\ ReadWhole(current)
      /\ \A k \in DOMAIN answers : answers[k].to = k
  BY <1>a, NextInOrder
<1>4. stream[sent].of <= Len(answers) + 1 BY <1>2, <1>3 DEF InOrder
<1>5. current <= stream[sent].of BY <1>a, <1>1, <1>2, RequestsInOrder
<1>6. stream[sent].of = current BY <1>2, <1>3, <1>4, <1>5
<1>7. sent <= read BY <1>2, <1>3, <1>6 DEF ReadWhole
<1>8. QED BY <1>2, <1>3, <1>7

LEMMA OrderSteps ==
  ASSUME BufferInv, AnswerTypes, OrderInv, [Next]_vars
  PROVE  OrderInv'
<1>a. BufferTypes BY DEF BufferInv
<1>b. /\ sent \in Nat /\ read \in Nat /\ first \in Nat /\ Len(stream) \in Nat
      /\ DOMAIN stream = 1 .. Len(stream) /\ \A k \in DOMAIN stream : stream[k].of \in Nat
      /\ Len(answers) \in Nat
  BY <1>a, StreamFacts DEF AnswerTypes, Answers
<1>1. CASE ClientSends
  <2>1. /\ ~gone /\ sent' = sent + 1 /\ sent < Len(stream)
        /\ pipelined' = (pipelined \/ Len(answers) < stream[sent + 1].of - 1)
        /\ UNCHANGED <<stream, gone, read, first, pc, answers>>
    BY <1>1 DEF ClientSends, bufferVars
  <2> SUFFICES ASSUME ~pipelined'
               PROVE  /\ \A k \in DOMAIN answers : answers[k].to = k
                      /\ pc = "closed" \/ InOrder'
    BY <2>1 DEF OrderInv
  <2>2. ~pipelined /\ ~(Len(answers) < stream[sent + 1].of - 1)
    BY <2>1, Zenon DEF AnswerTypes
  <2>3. (\A k \in DOMAIN answers : answers[k].to = k) /\ (pc = "closed" \/ InOrder)
    BY <2>1, <2>2 DEF OrderInv, Lost
  <2>4. InOrder => InOrder' BY <1>b, <2>1, <2>2 DEF InOrder
  <2>5. QED BY <2>3, <2>4
<1>2. CASE ClientLeaves
  BY <1>2 DEF ClientLeaves, bufferVars, history, OrderInv, InOrder, Lost
<1>3. CASE UNCHANGED vars
  BY <1>3 DEF vars, clientVars, bufferVars, history, OrderInv, InOrder, Lost
<1>4. CASE ConnectionEnds \/ KeepReading \/ BadSizes \/ AnswerError \/ ParseDies \/ StartForward
  BY <1>4, OrderStays
  DEF ConnectionEnds, KeepReading, BadSizes, AnswerError, ParseDies, StartForward, Close,
      Refuse, ProcessEnds, clientVars, bufferVars, history
<1>5. CASE SocketFails \/ OpenSocket \/ Connected \/ ConnectFails \/ SendRequest \/ SendFails
  BY <1>5, OrderStays
  DEF SocketFails, OpenSocket, Connected, ConnectFails, SendRequest, SendFails, BadGateway,
      ProcessEnds, clientVars, bufferVars, history
<1>6. CASE EndOfResponse
  BY <1>6, OrderStays DEF EndOfResponse, Finish, clientVars, bufferVars, history
<1>7. CASE SendHTTPResponse
  BY <1>7, AnswerEmpties DEF SendHTTPResponse, AwaitNext, ResetRequest, clientVars, history
<1>8. CASE SendBadRequest
  <2>1. /\ pc \in InFlight /\ pc' = "closed" /\ Answer /\ pipelined' = pipelined
    BY <1>8 DEF SendBadRequest, HangUp, history, InFlight
  <2>2. QED BY <2>1, AnswerAdded DEF OrderInv
<1>9. CASE AnswerFails
  <2>1. CASE pc' = "closed"
    BY <1>9, <2>1, OrderStays
    DEF AnswerFails, AwaitNext, HangUp, ProcessEnds, clientVars, bufferVars, history
  <2>2. CASE pc' # "closed"
    <3>1. /\ pc = "answering" /\ gone /\ pc' = "reading"
          /\ UNCHANGED <<stream, sent, gone, read, answers, pipelined>>
      BY <1>9, <2>2 DEF AnswerFails, AwaitNext, HangUp, ProcessEnds, clientVars, history
    <3>2. QED BY <3>1, AnswerLost
  <2>3. QED BY <2>1, <2>2
<1>10. ASSUME NEW n \in 1 .. Chunk, Receive(n) PROVE OrderInv'
  <2>1. /\ pc = "reading" /\ read + n <= sent /\ pc' = "parsing" /\ n \in Nat /\ n >= 1
        /\ UNCHANGED <<stream, sent, gone, first, answers, pipelined>>
    BY <1>10, ConnectionConstants DEF Receive, clientVars, history
  <2>2. ~Lost BY <1>b, <2>1 DEF Lost
  <2>3. InOrder => InOrder' BY <2>1 DEF InOrder
  <2>4. QED BY <2>1, <2>2, <2>3 DEF OrderInv
<1>11. ASSUME NEW n \in 1 .. Chunk, TooLarge(n) PROVE OrderInv'
  BY <1>11, OrderStays DEF TooLarge, Close, clientVars, bufferVars, history
<1>12. ASSUME NEW n \in 1 .. Chunk, ReadHTTPResponse(n) PROVE OrderInv'
  BY <1>12, OrderStays
  DEF ReadHTTPResponse, ReadHead, ReadBody, HeadTooLarge, NoMemory, Finish, CanRead,
      clientVars, bufferVars, history
<1>13. CASE Backend
  BY <1>13, OrderStays
  DEF Backend, BackendReplies, BackendAnswers, BackendBreaks, clientVars, bufferVars, history
<1>14. QED
  BY <1>1, <1>2, <1>3, <1>4, <1>5, <1>6, <1>7, <1>8, <1>9, <1>10, <1>11, <1>12, <1>13
  DEF Next, Worker, Proceed, AnswerClient

LEMMA OrderInit == Init => AnswerTypes /\ OrderInv
<1> SUFFICES ASSUME Init PROVE AnswerTypes /\ OrderInv OBVIOUS
<1>1. AnswerTypes
  <2>1. <<>> \in Answers BY DEF Answers
  <2>2. 0 \in Statuses BY DEF Statuses, Replies
  <2>3. QED BY <2>1, <2>2 DEF Init, AnswerTypes
<1>2. DOMAIN answers = {} /\ Len(answers) = 0 BY DEF Init
<1>3. BufferTypes BY BufferInit DEF BufferInv
<1>4. \A k \in DOMAIN stream : stream[k].of > 0 /\ k \in Nat /\ k >= 1
  BY <1>3, RequestsInOrder, StreamFacts
<1>5. InOrder BY <1>2, <1>4 DEF Init, InOrder
<1>6. QED BY <1>1, <1>2, <1>5 DEF OrderInv

\* A client that waits for each answer before it sends the next request gets
\* one answer per request, in order, whatever fails.
THEOREM AnswersComeInOrder == Spec => []AnsweredInOrder
<1>1. Init => AnswerTypes /\ OrderInv BY OrderInit
<1>2. BufferInv /\ AnswerTypes /\ [Next]_vars => AnswerTypes' BY AnswerTypeSteps
<1>3. BufferInv /\ AnswerTypes /\ OrderInv /\ [Next]_vars => OrderInv' BY OrderSteps
<1>4. BufferInv /\ OrderInv => AnsweredInOrder
  <2> SUFFICES ASSUME BufferInv, OrderInv, ~pipelined PROVE
         /\ \A k \in DOMAIN answers : answers[k].to = k
         /\ pc = "reading" /\ first = read + 1 /\ ~gone =>
              \A k \in 1 .. read : stream[k].of <= Len(answers)
    BY DEF AnsweredInOrder
  <2>1. \A k \in DOMAIN answers : answers[k].to = k BY DEF OrderInv
  <2>2. ASSUME pc = "reading", first = read + 1, ~gone, NEW k \in 1 .. read
        PROVE  stream[k].of <= Len(answers)
    <3>1. InOrder BY <2>2 DEF OrderInv, Lost
    <3>2. k \in DOMAIN stream /\ k < first
      BY <2>2, StreamFacts DEF BufferInv, BufferTypes
    <3>3. QED BY <3>1, <3>2 DEF InOrder
  <2>3. QED BY <2>1, <2>2
<1>5. QED BY <1>1, <1>2, <1>3, <1>4, BufferInvariant, PTL DEF Spec

-----------------------------------------------------------------------------
(* Requests are forwarded whole, once and in order *)

\* The heads up to that of what was forwarded have been read, and are behind the
\* buffer once the next request is looked for.
NotSent == {"reading", "parsing", "connecting", "waiting", "sending"}

Deliveries == Seq([of : Nat, as : Ways])
Behind(r) ==
  \A k \in DOMAIN stream :
    stream[k].part = "end" /\ stream[k].of <= r => k <= read /\ (pc \in NotSent => k < first)
IsCut(r) == \E k \in DOMAIN stream : stream[k].of = r /\ stream[k].fault = "long"
Delivered(r, as) ==
  \/ as = "mangled" /\ pipelined
  \/ ReadWhole(r) /\ (as = "sent" \/ (as = "cut" /\ IsCut(r)))

ForwardInv ==
  /\ forwarded \in Deliveries
  /\ \A i, j \in DOMAIN forwarded : i < j => forwarded[i].of < forwarded[j].of
  /\ \A i \in DOMAIN forwarded :
       Behind(forwarded[i].of) /\ Delivered(forwarded[i].of, forwarded[i].as)

\* A step in which no request is sent, and the buffer is left or emptied.
LEMMA ForwardStays ==
  ASSUME BufferInv, ForwardInv, UNCHANGED <<stream, forwarded>>, pipelined => pipelined',
         read' \in Nat, read <= read',
         \/ first' = first /\ (pc' \in NotSent => pc \in NotSent)
         \/ EmptyBuffer /\ read' = read
  PROVE  ForwardInv'
<1>1. read \in Nat /\ first \in Nat /\ DOMAIN stream \subseteq Nat BY StreamFacts DEF BufferInv
<1>2. ASSUME NEW i \in DOMAIN forwarded PROVE Behind(forwarded[i].of)'
  <2>1. Behind(forwarded[i].of) BY DEF ForwardInv
  <2>2. QED BY <1>1, <2>1 DEF Behind, EmptyBuffer
<1>3. ASSUME NEW i \in DOMAIN forwarded PROVE Delivered(forwarded[i].of, forwarded[i].as)'
  <2>1. Delivered(forwarded[i].of, forwarded[i].as) BY DEF ForwardInv
  <2>2. QED BY <1>1, <2>1 DEF Delivered, ReadWhole, IsCut
<1>4. QED BY <1>2, <1>3 DEF ForwardInv

LEMMA Elements ==
  ASSUME NEW S, NEW q \in Seq(S)
  PROVE  \A i \in DOMAIN q : q[i] \in S
OBVIOUS

LEMMA Extended ==
  ASSUME NEW S, NEW q \in Seq(S), NEW e \in S, NEW r, r = Append(q, e)
  PROVE  /\ Len(q) \in Nat /\ DOMAIN q = 1 .. Len(q) /\ DOMAIN r = 1 .. Len(q) + 1
         /\ \A i \in 1 .. Len(q) : r[i] = q[i] /\ q[i] \in S
         /\ r[Len(q) + 1] = e /\ r \in Seq(S)
         /\ \A i \in 1 .. Len(q) + 1 : i \in 1 .. Len(q) \/ i = Len(q) + 1
OBVIOUS

\* What goes out is the request, possibly with its URI or a header cut, unless the
\* client has sent ahead.
LEMMA SentAsIs ==
  ASSUME BufferInv, AnswerTypes, OrderInv, pc = "sending"
  PROVE  Delivered(current, AsForwarded) /\ AsForwarded \in Ways
<1>1. pc \in InFlight BY DEF InFlight
<1>2. HeadEnd \in DOMAIN stream /\ current = stream[HeadEnd].of /\ HeadEnd \in first .. read
  BY <1>1, CurrentFacts
<1>3. stream[first].part = "line" => ReadWhole(current)
  BY <1>1 DEF BufferInv, CurrentInv
<1>4. ~pipelined => stream[first].part = "line"
  <2>1. first <= read BY <1>2, StreamFacts DEF BufferInv
  <2>2. ~pipelined => InOrder BY <1>1, NextInOrder
  <2>3. QED BY <2>1, <2>2, LineFirst
<1>5. CASE stream[first].part # "line"
  <2>1. AsForwarded = "mangled" BY <1>5 DEF AsForwarded
  <2>2. pipelined BY <1>4, <1>5
  <2>3. QED BY <2>1, <2>2 DEF Delivered, Ways
<1>6. CASE stream[first].part = "line" /\ stream[HeadEnd].fault = "long"
  <2>1. AsForwarded = "cut" BY <1>6 DEF AsForwarded
  <2>2. IsCut(current) BY <1>2, <1>6 DEF IsCut
  <2>3. QED BY <1>3, <1>6, <2>1, <2>2 DEF Delivered, Ways
<1>7. CASE stream[first].part = "line" /\ stream[HeadEnd].fault # "long"
  <2>1. AsForwarded = "sent" BY <1>7 DEF AsForwarded
  <2>2. QED BY <1>3, <1>7, <2>1 DEF Delivered, Ways
<1>8. QED BY <1>5, <1>6, <1>7

\* The head of a request that is handled has been read, and those before it: none
\* of those behind it is its own.
LEMMA HeadsRead ==
  ASSUME BufferInv, pc \in InFlight
  PROVE  \A k \in DOMAIN stream : stream[k].part = "end" /\ stream[k].of <= current => k <= read
<1> SUFFICES ASSUME NEW k \in DOMAIN stream, stream[k].part = "end", stream[k].of <= current
             PROVE  k <= read
  OBVIOUS
<1>a. BufferTypes BY DEF BufferInv
<1>1. /\ HeadEnd \in first .. read /\ HeadEnd \in DOMAIN stream
      /\ current = stream[HeadEnd].of /\ current \in Nat
      /\ stream[HeadEnd].part = "end"
  BY CurrentFacts
<1>2. /\ first \in Nat /\ read \in Nat /\ DOMAIN stream \subseteq Nat
      /\ \A i \in DOMAIN stream : stream[i].of \in Nat
  BY <1>a, StreamFacts
<1>3. CASE k <= HeadEnd BY <1>1, <1>2, <1>3
<1>4. CASE k > HeadEnd
  <2>1. stream[HeadEnd].of <= stream[k].of BY <1>a, <1>1, <1>2, <1>4, RequestsInOrder
  <2>2. stream[k].of = current BY <1>1, <1>2, <2>1
  <2>3. QED BY <1>a, <1>1, <1>4, <2>2, RequestsInOrder
<1>5. QED BY <1>1, <1>2, <1>3, <1>4

LEMMA ForwardSent ==
  ASSUME BufferInv, AnswerTypes, OrderInv, ForwardInv, SendRequest
  PROVE  ForwardInv'
<1>a. BufferTypes BY DEF BufferInv
<1> DEFINE e == [of |-> current, as |-> AsForwarded]
           n == Len(forwarded)
<1>1. /\ pc = "sending" /\ pc' = "awaiting" /\ forwarded' = Append(forwarded, e)
      /\ UNCHANGED <<stream, read, first, pipelined>>
  BY DEF SendRequest, clientVars, bufferVars
<1>2. /\ HeadEnd \in first .. read /\ HeadEnd \in DOMAIN stream
      /\ current = stream[HeadEnd].of /\ current \in Nat
      /\ stream[HeadEnd].part = "end"
  BY <1>1, CurrentFacts DEF InFlight
<1>3. /\ first \in Nat /\ read \in Nat /\ DOMAIN stream \subseteq Nat
      /\ \A k \in DOMAIN stream : stream[k].of \in Nat
  BY <1>a, StreamFacts
<1>4. Delivered(current, AsForwarded) /\ AsForwarded \in Ways BY <1>1, SentAsIs
<1>5. e \in [of : Nat, as : Ways] /\ e.of = current /\ e.as = AsForwarded BY <1>2, <1>4
<1> HIDE DEF e
<1>6. \A k \in DOMAIN stream : stream[k].part = "end" /\ stream[k].of <= current => k <= read
  BY <1>1, HeadsRead DEF InFlight
<1>7. ASSUME NEW i \in DOMAIN forwarded PROVE forwarded[i].of < current
  <2>1. Behind(forwarded[i].of) BY DEF ForwardInv
  <2>2. ~(HeadEnd < first) BY <1>2, <1>3
  <2>3. ~(current <= forwarded[i].of) BY <1>1, <1>2, <2>1, <2>2 DEF Behind, NotSent
  <2>4. forwarded[i].of \in Nat
    <3>1. forwarded \in Seq([of : Nat, as : Ways]) BY DEF ForwardInv, Deliveries
    <3>2. forwarded[i] \in [of : Nat, as : Ways] BY <3>1, Elements, Zenon
    <3>3. QED BY <3>2
  <2>5. QED BY <1>2, <2>3, <2>4
<1>8. /\ n \in Nat /\ DOMAIN forwarded = 1 .. n /\ DOMAIN forwarded' = 1 .. n + 1
      /\ \A i \in 1 .. n : forwarded'[i] = forwarded[i]
      /\ forwarded'[n + 1] = e /\ forwarded' \in Deliveries
      /\ \A i \in 1 .. n + 1 : i \in 1 .. n \/ i = n + 1
  <2>1. forwarded \in Seq([of : Nat, as : Ways]) BY DEF ForwardInv, Deliveries
  <2>2. QED BY <1>1, <1>5, <2>1, Extended DEF Deliveries
<1> HIDE DEF n
<1>9. \A i, j \in DOMAIN forwarded' : i < j => forwarded'[i].of < forwarded'[j].of
  <2> SUFFICES ASSUME NEW i \in DOMAIN forwarded', NEW j \in DOMAIN forwarded', i < j
               PROVE  forwarded'[i].of < forwarded'[j].of
    OBVIOUS
  <2>1. i \in 1 .. n BY <1>8
  <2>2. CASE j \in 1 .. n BY <1>8, <2>1, <2>2 DEF ForwardInv
  <2>3. CASE j = n + 1 BY <1>5, <1>7, <1>8, <2>1, <2>3
  <2>4. QED BY <1>8, <2>2, <2>3
<1>10. ASSUME NEW i \in 1 .. n
       PROVE  Behind(forwarded[i].of)' /\ Delivered(forwarded[i].of, forwarded[i].as)'
  <2>1. Behind(forwarded[i].of) /\ Delivered(forwarded[i].of, forwarded[i].as)
    BY <1>8 DEF ForwardInv
  <2>2. forwarded'[i] = forwarded[i] BY <1>8
  <2>3. QED BY <1>1, <2>1, <2>2 DEF Behind, Delivered, ReadWhole, IsCut, NotSent
<1>11. ASSUME NEW i \in DOMAIN forwarded'
       PROVE  Behind(forwarded[i].of)' /\ Delivered(forwarded[i].of, forwarded[i].as)'
  <2>1. CASE i \in 1 .. n BY <1>10, <2>1
  <2>2. CASE i = n + 1
    <3>1. forwarded'[i].of = current /\ forwarded'[i].as = AsForwarded BY <1>5, <1>8, <2>2
    <3>2. Behind(forwarded[i].of)' BY <1>1, <1>6, <3>1 DEF Behind, NotSent
    <3>3. Delivered(forwarded[i].of, forwarded[i].as)'
      BY <1>1, <1>4, <3>1 DEF Delivered, ReadWhole, IsCut
    <3>4. QED BY <3>2, <3>3
  <2>3. QED BY <1>8, <2>1, <2>2
<1>12. QED BY <1>8, <1>9, <1>11 DEF ForwardInv

LEMMA ForwardSteps ==
  ASSUME BufferInv, AnswerTypes, OrderInv, ForwardInv, [Next]_vars
  PROVE  ForwardInv'
<1> USE DEF NotSent
<1>a. read \in Nat BY StreamFacts DEF BufferInv
<1>1. CASE ClientSends
  <2>1. UNCHANGED <<stream, read, first, pc, forwarded>> /\ (pipelined => pipelined')
    BY <1>1 DEF ClientSends, bufferVars
  <2>2. QED BY <1>a, <2>1, ForwardStays
<1>2. CASE ClientLeaves \/ UNCHANGED vars
  BY <1>2, <1>a, ForwardStays
  DEF ClientLeaves, vars, clientVars, bufferVars, history
<1>3. CASE ConnectionEnds \/ KeepReading \/ BadSizes \/ AnswerError \/ ParseDies \/ StartForward
  BY <1>3, <1>a, ForwardStays
  DEF ConnectionEnds, KeepReading, BadSizes, AnswerError, ParseDies, StartForward, Close,
      Refuse, ProcessEnds, clientVars, bufferVars, history
<1>4. CASE SocketFails \/ OpenSocket \/ Connected \/ ConnectFails \/ SendFails
  BY <1>4, <1>a, ForwardStays
  DEF SocketFails, OpenSocket, Connected, ConnectFails, SendFails, BadGateway, ProcessEnds,
      clientVars, bufferVars, history
<1>5. CASE EndOfResponse
  BY <1>5, <1>a, ForwardStays DEF EndOfResponse, Finish, clientVars, bufferVars, history
<1>6. CASE AnswerClient
  <2>1. /\ UNCHANGED <<stream, read, forwarded, pipelined>>
        /\ EmptyBuffer \/ (first' = first /\ pc' = "closed")
    BY <1>6
    DEF AnswerClient, SendHTTPResponse, SendBadRequest, AnswerFails, AwaitNext, HangUp,
        ResetRequest, ProcessEnds, clientVars, bufferVars, history
  <2>2. QED BY <1>a, <2>1, ForwardStays
<1>7. ASSUME NEW n \in 1 .. Chunk, Receive(n) PROVE ForwardInv'
  <2>1. /\ read' = read + n /\ pc = "reading" /\ n \in Nat
        /\ UNCHANGED <<stream, first, forwarded, pipelined>>
    BY <1>7, ConnectionConstants DEF Receive, clientVars, history
  <2>2. QED BY <1>a, <2>1, ForwardStays
<1>8. ASSUME NEW n \in 1 .. Chunk, TooLarge(n) PROVE ForwardInv'
  BY <1>8, <1>a, ForwardStays DEF TooLarge, Close, clientVars, bufferVars, history
<1>9. ASSUME NEW n \in 1 .. Chunk, ReadHTTPResponse(n) PROVE ForwardInv'
  BY <1>9, <1>a, ForwardStays
  DEF ReadHTTPResponse, ReadHead, ReadBody, HeadTooLarge, NoMemory, Finish, CanRead,
      clientVars, bufferVars, history
<1>10. CASE Backend
  BY <1>10, <1>a, ForwardStays
  DEF Backend, BackendReplies, BackendAnswers, BackendBreaks, clientVars, bufferVars, history
<1>11. QED
  BY <1>1, <1>2, <1>3, <1>4, <1>5, <1>6, <1>7, <1>8, <1>9, <1>10, ForwardSent
  DEF Next, Worker, Proceed

LEMMA ForwardInit == Init => ForwardInv
<1>1. <<>> \in Deliveries /\ DOMAIN <<>> = {} BY DEF Deliveries
<1>2. QED BY <1>1 DEF Init, ForwardInv

\* Each request reaches backends at most once and in the client's order, and as
\* the client sent it, but for a URI or header that is too long; only for a
\* client that sends ahead may it be put together from several.
THEOREM RequestsForwardedAsSent == Spec => []ForwardedAsSent
<1> DEFINE Inv == AnswerTypes /\ OrderInv /\ ForwardInv
<1>1. Init => Inv BY OrderInit, ForwardInit
<1>2. BufferInv /\ Inv /\ [Next]_vars => Inv' BY AnswerTypeSteps, OrderSteps, ForwardSteps
<1>3. Inv => ForwardedAsSent
  BY DEF ForwardInv, ForwardedAsSent, Delivered, ReadWhole, IsCut
<1> HIDE DEF Inv
<1>4. QED BY <1>1, <1>2, <1>3, BufferInvariant, PTL DEF Spec

-----------------------------------------------------------------------------
(* Bodies are passed on as they came *)

\* The first n units after a head of h units.
Part(h, n) == [i \in 1 .. n |-> h + i]

LEMMA PartType ==
  ASSUME NEW h \in Nat, NEW n \in Nat
  PROVE  Part(h, n) \in Seq(Nat) /\ Len(Part(h, n)) = n
BY DEF Part

LEMMA PartGrows ==
  ASSUME NEW h \in Nat, NEW m \in Nat, NEW n \in Nat
  PROVE  Part(h, m) \o [i \in 1 .. n |-> h + m + i] = Part(h, m + n)
BY DEF Part

LEMMA PartBegins ==
  ASSUME NEW h \in Nat, NEW m \in Nat, NEW n \in Nat, n <= m
  PROVE  SubSeq(Part(h, m), 1, n) = Part(h, n)
BY DEF Part

Unread == {"reading", "parsing", "connecting", "waiting", "sending", "awaiting"}

\* What was read of the body is what follows the head.
ReadInv ==
  /\ responseRead \in Nat /\ headersParsed \in BOOLEAN /\ parseOk \in BOOLEAN
  /\ response.arrives \in Nat /\ response.arrives <= Shape.head + Shape.body
  /\ responseRead <= response.arrives
  /\ Shape \in ResponseShapes
  /\ ~flawed => response.arrives = Shape.head + Shape.body
  /\ headersParsed => Shape.head <= responseRead /\ body = Part(Shape.head, responseRead - Shape.head)
  /\ ~headersParsed => responseRead < Shape.head /\ body = <<>>
  /\ parseOk => headersParsed

ExactInv ==
  /\ pc \in Unread => responseRead = 0 /\ ~headersParsed /\ ~parseOk /\ body = <<>>
                      /\ headersParsed \in BOOLEAN /\ parseOk \in BOOLEAN
  /\ pc = "receiving" => ReadInv
  /\ BodiesAreExact

\* Nothing that is read, or not before the next request.
LEMMA ExactStays ==
  ASSUME ExactInv, UNCHANGED <<response, responseRead, headersParsed, parseOk, body, flawed>>,
         pc' \in Unread => pc \in Unread,
         pc' = "receiving" => pc = "receiving",
         pc' = "answering" => pc \in Unread \/ (pc = "answering" /\ status' = status)
  PROVE  ExactInv'
<1>1. ReadInv /\ pc' = "receiving" => ReadInv'
  <2> SUFFICES ASSUME ReadInv, pc' = "receiving" PROVE ReadInv' OBVIOUS
  <2>1. Shape' = Shape BY DEF Shape
  <2>2. /\ response' = response /\ responseRead' = responseRead /\ body' = body
        /\ flawed' = flawed /\ headersParsed' = headersParsed /\ parseOk' = parseOk
    OBVIOUS
  <2>3. body = [i \in 1 .. responseRead - Shape.head |-> Shape.head + i] =>
          body' = [i \in 1 .. responseRead' - Shape'.head |-> Shape'.head + i]
    BY <2>1, <2>2
  <2>4. headersParsed => body' = [i \in 1 .. responseRead' - Shape'.head |-> Shape'.head + i]
    BY <2>3 DEF ReadInv, Part
  <2>5. QED BY <2>1, <2>2, <2>4 DEF ReadInv, Part
<1>2. BodiesAreExact'
  <2> SUFFICES ASSUME pc' = "answering", parseOk, BodiesAreExact PROVE BodiesAreExact'
    BY DEF ExactInv, BodiesAreExact
  <2>1. /\ pc = "answering" /\ status' = status /\ flawed' = flawed /\ parseOk' = parseOk
        /\ body' = body /\ Shape' = Shape
    BY DEF Shape, ExactInv
  <2>2. QED BY <2>1 DEF BodiesAreExact
<1>3. QED BY <1>1, <1>2 DEF ExactInv

LEMMA ExactReset ==
  ASSUME ResetRequest, pc' = "reading"
  PROVE  ExactInv'
BY DEF ResetRequest, ExactInv, BodiesAreExact

LEMMA HeadRead ==
  ASSUME ExactInv, NEW n \in 1 .. Chunk, ReadHead(n)
  PROVE  ExactInv'
<1>1. /\ pc = "receiving" /\ pc' = "receiving" /\ responseRead + n <= response.arrives
      /\ ~headersParsed /\ responseRead' = responseRead + n
      /\ headersParsed' = (responseRead + n >= Shape.head)
      /\ parseOk' = (headersParsed' /\ HeadParses)
      /\ UNCHANGED <<response, flawed>> /\ n \in Nat
  BY ConnectionConstants
  DEF ReadHead, CanRead, HeadComplete, backendVars, history
<1>2. ReadInv BY <1>1 DEF ExactInv
<1>3. Shape.head \in Nat /\ responseRead \in Nat /\ Shape' = Shape
  BY <1>1, <1>2, ShapeType DEF ReadInv, Shape
<1>4. /\ headersParsed' => body' = Part(Shape.head, responseRead + n - Shape.head)
      /\ ~headersParsed' => body' = <<>>
  <2>1. CASE headersParsed' /\ responseRead + n > Shape.head
    BY <2>1 DEF ReadHead, BodyStart, Part
  <2>2. CASE ~(headersParsed' /\ responseRead + n > Shape.head)
    <3>a. UNCHANGED bodyVars BY <2>2 DEF ReadHead, BodyStart
    <3>1. body' = <<>> BY <1>1, <1>2, <3>a DEF bodyVars, ReadInv
    <3>2. headersParsed' => responseRead + n - Shape.head = 0
      <4>1. headersParsed' => responseRead + n >= Shape.head BY <1>1, Zenon
      <4>2. headersParsed' => ~(responseRead + n > Shape.head) BY <2>2, Zenon
      <4>3. QED BY <1>1, <1>3, <4>1, <4>2
    <3>3. Part(Shape.head, 0) = <<>> BY DEF Part
    <3>4. QED BY <3>1, <3>2, <3>3
  <2>3. QED BY <2>1, <2>2
<1>5. HeadParses \in BOOLEAN BY <1>2, ConnectionConstants DEF HeadParses, ReadInv, Shape
<1>6. headersParsed' \in BOOLEAN /\ parseOk' \in BOOLEAN /\ (parseOk' => headersParsed')
  BY <1>1, <1>5
<1>7. responseRead' \in Nat /\ responseRead' <= response'.arrives BY <1>1, <1>3
<1>8. headersParsed' => Shape.head <= responseRead' BY <1>1, <1>3
<1>9. ~headersParsed' => responseRead' < Shape.head
  <2>1. ~headersParsed' => ~(responseRead + n >= Shape.head) BY <1>1, Zenon
  <2>2. QED BY <1>1, <1>3, <2>1
<1>10. ReadInv' BY <1>1, <1>2, <1>3, <1>4, <1>6, <1>7, <1>8, <1>9 DEF ReadInv
<1>11. QED BY <1>1, <1>10 DEF ExactInv, BodiesAreExact, Unread

LEMMA BodyRead ==
  ASSUME ExactInv, NEW n \in 1 .. Chunk, ReadBody(n)
  PROVE  ExactInv'
<1>1. /\ pc = "receiving" /\ pc' = "receiving" /\ responseRead + n <= response.arrives
      /\ headersParsed /\ responseRead' = responseRead + n
      /\ body' = body \o [i \in 1 .. n |-> responseRead + i]
      /\ UNCHANGED <<response, flawed, headersParsed, parseOk>> /\ n \in Nat
  BY ConnectionConstants DEF ReadBody, CanRead, Arriving, backendVars, history
<1>2. ReadInv BY <1>1 DEF ExactInv
<1>3. Shape.head \in Nat /\ responseRead \in Nat /\ Shape' = Shape /\ Shape.head <= responseRead
  BY <1>1, <1>2, ShapeType DEF ReadInv, Shape
<1> DEFINE h == Shape.head
           m == responseRead - h
<1>4. /\ h \in Nat /\ m \in Nat /\ responseRead = h + m /\ responseRead + n - h = m + n
  BY <1>1, <1>3
<1>5. body = Part(h, m) BY <1>1, <1>2 DEF ReadInv
<1> HIDE DEF h, m
<1>6. body' = Part(h, m) \o [i \in 1 .. n |-> h + m + i] BY <1>1, <1>4, <1>5
<1>7. body' = Part(h, m + n) BY <1>1, <1>4, <1>6, PartGrows
<1>a. responseRead' - Shape.head = m + n BY <1>1, <1>4 DEF h
<1>8. body' = Part(Shape.head, responseRead' - Shape.head) BY <1>7, <1>a, Zenon DEF h
<1>9. responseRead' \in Nat /\ Shape.head <= responseRead' BY <1>1, <1>3
<1>10. ReadInv' BY <1>1, <1>2, <1>3, <1>8, <1>9 DEF ReadInv
<1>11. QED BY <1>1, <1>10 DEF ExactInv, BodiesAreExact, Unread

LEMMA ResponseEnds ==
  ASSUME ExactInv, EndOfResponse
  PROVE  ExactInv'
<1>1. /\ pc = "receiving" /\ pc' = "answering" /\ responseRead = response.arrives
      /\ UNCHANGED <<response, parseOk, flawed>>
      /\ parseOk => body' = body /\ status' = Shape.status
  BY DEF EndOfResponse, Finish, BuildHTTPResponse
<1>2. ReadInv BY <1>1 DEF ExactInv
<1> SUFFICES ASSUME parseOk PROVE BodiesAreExact'
  BY <1>1 DEF ExactInv, Unread, BodiesAreExact
<1> DEFINE h == Shape.head
           b == Shape.body
           m == responseRead - h
<1>3. /\ Shape' = Shape /\ h \in Nat /\ b \in Nat /\ m \in Nat /\ m <= b
      /\ ~flawed => m = b
  BY <1>1, <1>2, ShapeType DEF ReadInv, Shape
<1>4. body' = Part(h, m) BY <1>1, <1>2 DEF ReadInv
<1> HIDE DEF m
<1>5. Len(body') = m /\ SubSeq(Part(h, b), 1, m) = Part(h, m)
  BY <1>3, <1>4, PartType, PartBegins
<1>6. Part(h, b) = [i \in 1 .. Shape.body |-> Shape.head + i] BY DEF Part
<1>7. QED BY <1>1, <1>3, <1>4, <1>5, <1>6 DEF BodiesAreExact

LEMMA MemoryEnds ==
  ASSUME ExactInv, NEW n \in 1 .. Chunk, NoMemory(n)
  PROVE  ExactInv'
<1>1. /\ pc = "receiving" /\ pc' = "answering" /\ flawed' = TRUE /\ parseOk' = HeadParses
      /\ body' = <<>> /\ UNCHANGED response /\ (HeadParses => status' = Shape.status)
  BY DEF NoMemory, CanRead, Finish, BuildHTTPResponse
<1>2. Shape \in ResponseShapes /\ Shape' = Shape BY <1>1 DEF ExactInv, ReadInv, Shape
<1>3. Shape.head \in Nat /\ Shape.body \in Nat BY <1>2, ShapeType
<1>4. /\ SubSeq(Part(Shape.head, Shape.body), 1, 0) = Part(Shape.head, 0)
      /\ Part(Shape.head, 0) = <<>> /\ Len(<<>>) = 0
      /\ Part(Shape.head, Shape.body) = [i \in 1 .. Shape.body |-> Shape.head + i]
  BY <1>3, PartBegins DEF Part
<1>a. body' = <<>> /\ Len(body') = 0 /\ Len(body') <= Shape.body BY <1>1, <1>3
<1>b. body' = SubSeq(Part(Shape.head, Shape.body), 1, Len(body')) BY <1>a, <1>4
<1>5. BodiesAreExact' BY <1>1, <1>2, <1>4, <1>a, <1>b DEF BodiesAreExact
<1>6. QED BY <1>1, <1>5 DEF ExactInv, Unread

LEMMA ResponseBegins ==
  ASSUME ExactInv, Backend
  PROVE  ExactInv'
<1>1. PICK shape \in ResponseShapes :
        BackendAnswers(shape) \/ \E k \in 0 .. shape.head + shape.body - 1 : BackendBreaks(shape, k)
  BY DEF Backend, BackendReplies
<1>2. PICK arrives \in 0 .. shape.head + shape.body :
        /\ response' = [shape |-> shape, arrives |-> arrives]
        /\ ~flawed' => arrives = shape.head + shape.body
  <2>1. CASE BackendAnswers(shape) BY <2>1, ShapeType DEF BackendAnswers
  <2>2. ASSUME NEW k \in 0 .. shape.head + shape.body - 1, BackendBreaks(shape, k)
        PROVE  \E a \in 0 .. shape.head + shape.body :
                 /\ response' = [shape |-> shape, arrives |-> a]
                 /\ ~flawed' => a = shape.head + shape.body
    BY <2>2, ShapeType DEF BackendBreaks
  <2>3. QED BY <1>1, <2>1, <2>2
<1>3. /\ pc = "awaiting" /\ pc' = "receiving"
      /\ UNCHANGED <<responseRead, headersParsed, parseOk, body>>
  BY <1>1 DEF BackendAnswers, BackendBreaks, readVars, bodyVars
<1>4. /\ responseRead = 0 /\ ~headersParsed /\ ~parseOk /\ body = <<>>
      /\ headersParsed \in BOOLEAN /\ parseOk \in BOOLEAN
  BY <1>3 DEF ExactInv, Unread
<1>5. Shape' = shape /\ response'.arrives = arrives BY <1>2 DEF Shape
<1>6. shape.head \in Nat /\ shape.head > 0 /\ shape.body \in Nat BY ShapeType
<1>7. ReadInv' BY <1>2, <1>3, <1>4, <1>5, <1>6 DEF ReadInv
<1>8. QED BY <1>3, <1>7 DEF ExactInv, BodiesAreExact, Unread

LEMMA ExactSteps ==
  ASSUME ExactInv, [Next]_vars
  PROVE  ExactInv'
<1> USE DEF Unread
<1>1. CASE ClientSends \/ ClientLeaves \/ UNCHANGED vars
  BY <1>1, ExactStays
  DEF ClientSends, ClientLeaves, vars, backendVars, readVars, bodyVars
<1>2. CASE ConnectionEnds \/ KeepReading \/ BadSizes \/ AnswerError \/ ParseDies \/ StartForward
  BY <1>2, ExactStays
  DEF ConnectionEnds, KeepReading, BadSizes, AnswerError, ParseDies, StartForward, Close,
      Refuse, ProcessEnds, backendVars, readVars, bodyVars
<1>3. CASE OpenSocket \/ Connected \/ SendRequest
  <2>1. CASE OpenSocket \/ Connected
    BY <2>1, ExactStays DEF OpenSocket, Connected, backendVars, readVars, bodyVars
  <2>2. CASE SendRequest
    BY <2>2 DEF SendRequest, readVars, bodyVars, ExactInv, BodiesAreExact
  <2>3. QED BY <1>3, <2>1, <2>2
<1>4. CASE SocketFails \/ ConnectFails \/ SendFails
  <2>1. /\ pc \in Unread /\ pc' \in {"answering", "closed"} /\ parseOk' = parseOk
    BY <1>4 DEF SocketFails, ConnectFails, SendFails, BadGateway, ProcessEnds, readVars
  <2>2. QED BY <2>1 DEF ExactInv, BodiesAreExact
<1>5. CASE AnswerClient
  <2>1. (ResetRequest /\ pc' = "reading") \/ pc' = "closed"
    BY <1>5
    DEF AnswerClient, SendHTTPResponse, SendBadRequest, AnswerFails, AwaitNext, HangUp,
        ProcessEnds
  <2>2. CASE pc' = "closed" BY <2>2 DEF ExactInv, BodiesAreExact
  <2>3. QED BY <2>1, <2>2, ExactReset
<1>6. ASSUME NEW n \in 1 .. Chunk, Receive(n) \/ TooLarge(n) PROVE ExactInv'
  BY <1>6, ExactStays
  DEF Receive, TooLarge, Close, backendVars, readVars, bodyVars
<1>7. ASSUME NEW n \in 1 .. Chunk, HeadTooLarge(n) PROVE ExactInv'
  <2>1. /\ pc = "receiving" /\ pc' = "answering" /\ ~headersParsed /\ parseOk' = parseOk
    BY <1>7 DEF HeadTooLarge, Finish, CanRead
  <2>2. ~parseOk' BY <2>1 DEF ExactInv, ReadInv
  <2>3. QED BY <2>1, <2>2 DEF ExactInv, BodiesAreExact
<1>8. QED
  BY <1>1, <1>2, <1>3, <1>4, <1>5, <1>6, <1>7, HeadRead, BodyRead, ResponseEnds, MemoryEnds,
     ResponseBegins
  DEF Next, Worker, Proceed, ReadHTTPResponse

\* The body of an answer reaches the client as the backend sent it, whatever the
\* pieces in which it came, or shortened where the connection broke or memory
\* ran out.
THEOREM BodiesArePassedOn == Spec => []BodiesAreExact
<1>1. Init => ExactInv BY DEF Init, ExactInv, BodiesAreExact
<1>2. ExactInv /\ [Next]_vars => ExactInv' BY ExactSteps
<1>3. ExactInv => BodiesAreExact BY DEF ExactInv
<1>4. QED BY <1>1, <1>2, <1>3, PTL DEF Spec

-----------------------------------------------------------------------------
(* The capacity of responseBody *)

\* The recursive definition of PowerOfTwo has the function that it describes.
\* Its beginnings exist, they agree, and together they are the function.
LEMMA PowersOfTwo ==
  /\ PowerOfTwo \in [Nat -> Nat] /\ PowerOfTwo[0] = 1
  /\ \A n \in Nat : PowerOfTwo[n + 1] = 2 * PowerOfTwo[n]
<1> DEFINE Powers(n) == {g \in [0 .. n -> Nat] :
                           g[0] = 1 /\ \A k \in 0 .. n - 1 : g[k + 1] = 2 * g[k]}
<1>1. \A n \in Nat : Powers(n) # {}
  <2> DEFINE T == {n \in Nat : Powers(n) # {}}
  <2>1. 0 \in T
    <3>1. [i \in 0 .. 0 |-> 1] \in Powers(0) OBVIOUS
    <3>2. QED BY <3>1
  <2>2. ASSUME NEW n \in Nat, n \in T PROVE n + 1 \in T
    <3>1. PICK g : g \in Powers(n) BY <2>2
    <3> DEFINE h == [i \in 0 .. n + 1 |-> IF i = n + 1 THEN 2 * g[n] ELSE g[i]]
    <3>2. h \in [0 .. n + 1 -> Nat] BY <3>1
    <3>3. h[0] = 1 BY <3>1
    <3>4. ASSUME NEW k \in 0 .. (n + 1) - 1 PROVE h[k + 1] = 2 * h[k]
      <4>1. CASE k = n BY <3>1, <4>1
      <4>2. CASE k # n
        <5>1. k \in 0 .. n - 1 /\ k + 1 # n + 1 /\ k # n + 1 BY <4>2
        <5>2. QED BY <3>1, <5>1
      <4>3. QED BY <4>1, <4>2
    <3> HIDE DEF h
    <3>5. h \in Powers(n + 1) BY <3>2, <3>3, <3>4
    <3>6. QED BY <3>5
  <2> HIDE DEF T
  <2>3. \A n \in Nat : n \in T BY <2>1, <2>2, EveryNumber
  <2>4. QED BY <2>3 DEF T
<1>2. ASSUME NEW m \in Nat, NEW n \in Nat, NEW g \in Powers(m), NEW h \in Powers(n)
      PROVE  \A k \in Nat : k <= m /\ k <= n => g[k] = h[k]
  <2> DEFINE T == {k \in Nat : k <= m /\ k <= n => g[k] = h[k]}
  <2>1. 0 \in T OBVIOUS
  <2>2. ASSUME NEW k \in Nat, k \in T PROVE k + 1 \in T
    <3> SUFFICES ASSUME k + 1 <= m, k + 1 <= n PROVE g[k + 1] = h[k + 1] OBVIOUS
    <3>1. k \in 0 .. m - 1 /\ k \in 0 .. n - 1 /\ k <= m /\ k <= n OBVIOUS
    <3>2. g[k + 1] = 2 * g[k] /\ h[k + 1] = 2 * h[k] BY <3>1
    <3>3. g[k] = h[k] BY <2>2, <3>1
    <3>4. QED BY <3>2, <3>3
  <2> HIDE DEF T
  <2>3. \A k \in Nat : k \in T BY <2>1, <2>2, EveryNumber
  <2>4. QED BY <2>3 DEF T
<1> DEFINE G(n) == CHOOSE g : g \in Powers(n)
           f == [n \in Nat |-> G(n)[n]]
<1>3. \A n \in Nat : G(n) \in Powers(n) BY <1>1
<1> HIDE DEF G
<1>4. f \in [Nat -> Nat]
  <2>1. ASSUME NEW n \in Nat PROVE G(n)[n] \in Nat BY <1>3
  <2>2. QED BY <2>1
<1>5. f[0] = 1 BY <1>3
<1>6. ASSUME NEW n \in Nat PROVE f[n + 1] = 2 * f[n]
  <2>1. n + 1 \in Nat /\ n <= n + 1 /\ n <= n /\ n \in 0 .. (n + 1) - 1 OBVIOUS
  <2>2. G(n) \in Powers(n) /\ G(n + 1) \in Powers(n + 1) BY <1>3, <2>1
  <2>3. G(n)[n] = G(n + 1)[n] BY <1>2, <2>1, <2>2
  <2>4. G(n + 1)[n + 1] = 2 * G(n + 1)[n] BY <2>1, <2>2
  <2>5. QED BY <2>1, <2>3, <2>4
<1> HIDE DEF f
<1>7. f = [k \in Nat |-> IF k = 0 THEN 1 ELSE 2 * f[k - 1]]
  <2>1. ASSUME NEW k \in Nat PROVE f[k] = IF k = 0 THEN 1 ELSE 2 * f[k - 1]
    <3>1. CASE k = 0 BY <1>5, <3>1
    <3>2. CASE k # 0
      <4>1. k - 1 \in Nat /\ (k - 1) + 1 = k BY <3>2
      <4>2. QED BY <1>6, <3>2, <4>1
    <3>3. QED BY <3>1, <3>2
  <2>2. QED BY <1>4, <2>1
<1>8. PowerOfTwo = [k \in Nat |-> IF k = 0 THEN 1 ELSE 2 * PowerOfTwo[k - 1]]
  BY <1>7 DEF PowerOfTwo
<1>9. PowerOfTwo[0] = 1 BY <1>8
<1>10. ASSUME NEW n \in Nat PROVE PowerOfTwo[n + 1] = 2 * PowerOfTwo[n]
  <2>1. n + 1 \in Nat /\ n + 1 # 0 /\ (n + 1) - 1 = n OBVIOUS
  <2>2. QED BY <1>8, <2>1
<1>11. \A n \in Nat : PowerOfTwo[n] \in Nat
  <2> DEFINE T == {n \in Nat : PowerOfTwo[n] \in Nat}
  <2>1. 0 \in T BY <1>9
  <2>2. \A n \in Nat : n \in T => n + 1 \in T BY <1>10
  <2> HIDE DEF T
  <2>3. \A n \in Nat : n \in T BY <2>1, <2>2, EveryNumber
  <2>4. QED BY <2>3 DEF T
<1>12. PowerOfTwo \in [Nat -> Nat] BY <1>8, <1>11
<1>13. QED BY <1>9, <1>10, <1>12

\* Doubling reaches every size, and overshoots it by less than a factor of two.
LEMMA CapacityGrows ==
  ASSUME NEW needed \in Nat, NEW cap \in Nat, cap > 0
  PROVE  LET c == Grown(needed, cap)
         IN c \in Nat /\ c >= needed /\ (c = cap \/ c < 2 * needed)
<1> DEFINE size(k) == cap * PowerOfTwo[k]
<1>1. size(0) = cap BY PowersOfTwo
<1>2. ASSUME NEW k \in Nat PROVE size(k) \in Nat /\ size(k + 1) = 2 * size(k)
  <2>1. PowerOfTwo[k] \in Nat /\ PowerOfTwo[k + 1] = 2 * PowerOfTwo[k] BY PowersOfTwo
  <2>2. \A a, b \in Nat : a * b \in Nat /\ a * (2 * b) = 2 * (a * b) OBVIOUS
  <2>3. QED BY <2>1, <2>2
<1> HIDE DEF size
<1>3. \A k \in Nat : size(k) > k
  <2> DEFINE T == {k \in Nat : size(k) > k}
  <2>1. 0 \in T BY <1>1
  <2>2. ASSUME NEW k \in Nat, k \in T PROVE k + 1 \in T
    <3>1. size(k) \in Nat /\ size(k) > k /\ size(k + 1) = 2 * size(k) BY <1>2, <2>2
    <3>2. QED BY <3>1
  <2> HIDE DEF T
  <2>3. \A k \in Nat : k \in T BY <2>1, <2>2, EveryNumber
  <2>4. QED BY <2>3 DEF T
<1> DEFINE Enough == {k \in Nat : size(k) >= needed}
<1>4. needed \in Enough /\ Enough \subseteq Nat BY <1>2, <1>3
<1>5. PICK k \in Enough : \A j \in Enough : k <= j BY <1>4, Minimum, Zenon
<1>6. k \in 0 .. needed /\ size(k) >= needed BY <1>4, <1>5
<1>7. size(k) = cap \/ size(k) < 2 * needed
  <2>1. CASE k = 0 BY <1>1, <2>1
  <2>2. CASE k # 0
    <3>1. k - 1 \in Nat /\ ~(k <= k - 1) /\ (k - 1) + 1 = k BY <1>6, <2>2
    <3>2. k - 1 \notin Enough BY <1>5, <3>1
    <3>3. size(k - 1) \in Nat /\ size(k) = 2 * size(k - 1) BY <1>2, <3>1
    <3>4. QED BY <3>1, <3>2, <3>3
  <2>3. QED BY <2>1, <2>2
<1> DEFINE Sizes == {cap * PowerOfTwo[j] : j \in 0 .. needed}
<1>8. \E c \in Sizes : c >= needed /\ (c = cap \/ c < 2 * needed)
  BY <1>6, <1>7 DEF size
<1>9. Sizes \subseteq Nat BY <1>2 DEF size
<1>10. Grown(needed, cap) = CHOOSE c \in Sizes : c >= needed /\ (c = cap \/ c < 2 * needed)
  BY DEF Grown
<1> HIDE DEF Sizes
<1>11. QED BY <1>8, <1>9, <1>10
-----------------------------------------------------------------------------
(* Types *)

\* The buffer has room for the end of its string.
RoomInv == gone \in BOOLEAN /\ read - first + 1 < RequestBuffer

RequestTypes ==
  /\ current \in RequestIds \cup {0}
  /\ answers \in Seq([to : RequestIds, status : Statuses])
  /\ forwarded \in Seq([of : RequestIds, as : Ways])

ResponseTypes ==
  /\ received \in BOOLEAN
  /\ response = NoResponse \/ response.shape \in ResponseShapes
  /\ responseRead \in Nat /\ headersParsed \in BOOLEAN /\ parseOk \in BOOLEAN
  /\ flawed \in BOOLEAN
  /\ pc = "receiving" => response.shape \in ResponseShapes

BodyInv == body \in Seq(Nat) /\ capacity \in Nat /\ BodyFits

LEMMA RequestIdFacts ==
  ASSUME BufferInv
  PROVE  /\ \A i \in DOMAIN stream : stream[i].of \in RequestIds
         /\ pc \in InFlight => current \in RequestIds
<1>1. \A i \in DOMAIN stream : stream[i].of \in RequestIds
  BY DEF BufferInv, BufferTypes, RequestIds
<1>2. QED BY <1>1, CurrentFacts

LEMMA RoomSteps ==
  ASSUME BufferInv, RoomInv, [Next]_vars
  PROVE  RoomInv'
<1>a. read \in Nat /\ first \in Nat BY StreamFacts DEF BufferInv
<1>b. ASSUME UNCHANGED <<bufferVars, gone>> PROVE RoomInv'
  BY <1>b DEF RoomInv, bufferVars
<1>1. CASE ClientSends \/ UNCHANGED vars
  BY <1>1, <1>b DEF ClientSends, vars, clientVars
<1>2. CASE ClientLeaves
  BY <1>2 DEF ClientLeaves, RoomInv, bufferVars
<1>3. CASE ConnectionEnds \/ KeepReading \/ BadSizes \/ AnswerError \/ ParseDies \/ StartForward
  BY <1>3, <1>b
  DEF ConnectionEnds, KeepReading, BadSizes, AnswerError, ParseDies, StartForward, Close,
      Refuse, ProcessEnds, clientVars
<1>4. CASE SocketFails \/ OpenSocket \/ Connected \/ ConnectFails \/ SendRequest \/ SendFails
  BY <1>4, <1>b
  DEF SocketFails, OpenSocket, Connected, ConnectFails, SendRequest, SendFails, BadGateway,
      ProcessEnds, clientVars
<1>5. CASE EndOfResponse
  BY <1>5, <1>b DEF EndOfResponse, Finish, clientVars
<1>6. CASE AnswerClient
  <2>1. (EmptyBuffer /\ UNCHANGED <<read, gone>>) \/ UNCHANGED <<bufferVars, gone>>
    BY <1>6
    DEF AnswerClient, SendHTTPResponse, SendBadRequest, AnswerFails, AwaitNext, HangUp,
        ResetRequest, ProcessEnds, clientVars
  <2>2. ASSUME EmptyBuffer, UNCHANGED <<read, gone>> PROVE RoomInv'
    BY <1>a, <2>2, ConnectionConstants DEF RoomInv, EmptyBuffer
  <2>3. QED BY <1>b, <2>1, <2>2
<1>7. ASSUME NEW n \in 1 .. Chunk, Receive(n) PROVE RoomInv'
  <2>1. /\ read - first + 1 + n < RequestBuffer /\ read' = read + n /\ n \in Nat
        /\ UNCHANGED <<first, gone>>
    BY <1>7, ConnectionConstants DEF Receive, Fits, clientVars
  <2>2. QED BY <1>a, <2>1, ConnectionConstants DEF RoomInv
<1>8. ASSUME NEW n \in 1 .. Chunk, TooLarge(n) PROVE RoomInv'
  BY <1>8, <1>b DEF TooLarge, Close, clientVars
<1>9. ASSUME NEW n \in 1 .. Chunk, ReadHTTPResponse(n) PROVE RoomInv'
  BY <1>9, <1>b
  DEF ReadHTTPResponse, ReadHead, ReadBody, HeadTooLarge, NoMemory, Finish, CanRead, clientVars
<1>10. CASE Backend
  BY <1>10, <1>b DEF Backend, BackendReplies, BackendAnswers, BackendBreaks, clientVars
<1>11. QED
  BY <1>1, <1>2, <1>3, <1>4, <1>5, <1>6, <1>7, <1>8, <1>9, <1>10
  DEF Next, Worker, Proceed

LEMMA RequestTypeSteps ==
  ASSUME BufferInv, AnswerTypes, RequestTypes, [Next]_vars
  PROVE  RequestTypes'
<1>r. RequestIds' = RequestIds BY DEF RequestIds
<1>a. ASSUME UNCHANGED <<current, answers, forwarded>> PROVE RequestTypes'
  BY <1>a, <1>r DEF RequestTypes
<1>1. CASE ClientSends \/ ClientLeaves \/ UNCHANGED vars
  BY <1>1, <1>a DEF ClientSends, ClientLeaves, vars, history
<1>2. CASE ConnectionEnds \/ KeepReading \/ ParseDies
  BY <1>2, <1>a DEF ConnectionEnds, KeepReading, ParseDies, Close, ProcessEnds, history
<1>3. CASE BadSizes \/ AnswerError \/ StartForward
  <2>1. Ends # {} /\ current' = stream[HeadEnd].of /\ UNCHANGED <<answers, forwarded>>
    BY <1>3 DEF BadSizes, AnswerError, StartForward, Refuse, Complete, history
  <2>2. HeadEnd \in DOMAIN stream BY <2>1, HeadEndFacts DEF BufferInv
  <2>3. current' \in RequestIds BY <2>1, <2>2, RequestIdFacts
  <2>4. QED BY <1>r, <2>1, <2>3 DEF RequestTypes
<1>4. CASE SocketFails \/ OpenSocket \/ Connected \/ ConnectFails \/ SendFails
  BY <1>4, <1>a
  DEF SocketFails, OpenSocket, Connected, ConnectFails, SendFails, BadGateway, ProcessEnds,
      history
<1>5. CASE SendRequest
  <2> DEFINE e == [of |-> current, as |-> AsForwarded]
  <2>1. current \in RequestIds BY <1>5, RequestIdFacts DEF SendRequest, InFlight
  <2>2. AsForwarded \in Ways BY DEF AsForwarded, Ways
  <2>3. e \in [of : RequestIds, as : Ways] BY <2>1, <2>2
  <2>4. forwarded' = Append(forwarded, e) /\ UNCHANGED <<current, answers>>
    BY <1>5 DEF SendRequest
  <2> HIDE DEF e
  <2>5. QED BY <1>r, <2>3, <2>4 DEF RequestTypes
<1>6. CASE EndOfResponse
  BY <1>6, <1>a DEF EndOfResponse, history
<1>7. CASE SendHTTPResponse \/ SendBadRequest
  <2> DEFINE a == [to |-> current, status |-> status]
  <2>1. /\ answers' = Append(answers, a) /\ current' = 0 /\ forwarded' = forwarded
        /\ pc \in InFlight
    BY <1>7 DEF SendHTTPResponse, SendBadRequest, Answer, AwaitNext, HangUp, history, InFlight
  <2>2. a \in [to : RequestIds, status : Statuses]
    BY <2>1, RequestIdFacts DEF AnswerTypes
  <2> HIDE DEF a
  <2>3. QED BY <1>r, <2>1, <2>2 DEF RequestTypes
<1>8. CASE AnswerFails
  BY <1>8, <1>r DEF AnswerFails, AwaitNext, HangUp, ProcessEnds, history, RequestTypes
<1>9. ASSUME NEW n \in 1 .. Chunk, Receive(n) \/ TooLarge(n) PROVE RequestTypes'
  BY <1>9, <1>a DEF Receive, TooLarge, Close, history
<1>10. ASSUME NEW n \in 1 .. Chunk, ReadHTTPResponse(n) PROVE RequestTypes'
  BY <1>10, <1>a DEF ReadHTTPResponse, ReadHead, ReadBody, HeadTooLarge, NoMemory, history
<1>11. CASE Backend
  BY <1>11, <1>a DEF Backend, BackendReplies, BackendAnswers, BackendBreaks, history
<1>12. QED
  BY <1>1, <1>2, <1>3, <1>4, <1>5, <1>6, <1>7, <1>8, <1>9, <1>10, <1>11
  DEF Next, Worker, Proceed, AnswerClient

LEMMA ResponseTypeSteps ==
  ASSUME ResponseTypes, [Next]_vars
  PROVE  ResponseTypes'
<1> USE DEF ResponseTypes
<1>a. ASSUME UNCHANGED <<received, response, responseRead, headersParsed, parseOk, flawed>>,
             pc' = "receiving" => pc = "receiving"
      PROVE  ResponseTypes'
  BY <1>a
<1>1. CASE ClientSends \/ ClientLeaves \/ UNCHANGED vars
  BY <1>1, <1>a DEF ClientSends, ClientLeaves, vars, backendVars, readVars
<1>2. CASE ConnectionEnds \/ KeepReading \/ BadSizes \/ AnswerError \/ ParseDies \/ StartForward
  BY <1>2, <1>a
  DEF ConnectionEnds, KeepReading, BadSizes, AnswerError, ParseDies, StartForward, Close,
      Refuse, ProcessEnds, backendVars, readVars
<1>3. CASE OpenSocket \/ Connected
  BY <1>3, <1>a DEF OpenSocket, Connected, backendVars, readVars
<1>4. CASE SocketFails \/ ConnectFails \/ SendFails
  BY <1>4
  DEF SocketFails, ConnectFails, SendFails, BadGateway, ProcessEnds, readVars
<1>5. CASE SendRequest
  <2>1. received' \in BOOLEAN BY <1>5, Zenon DEF SendRequest
  <2>2. QED BY <1>5, <2>1 DEF SendRequest, readVars
<1>6. CASE EndOfResponse
  BY <1>6, <1>a DEF EndOfResponse, Finish
<1>7. CASE AnswerClient
  <2>1. \/ ResetRequest /\ pc' = "reading"
        \/ pc' = "closed" /\ UNCHANGED <<received, response, readVars>>
    BY <1>7
    DEF AnswerClient, SendHTTPResponse, SendBadRequest, AnswerFails, AwaitNext, HangUp,
        ProcessEnds, backendVars
  <2>2. CASE ResetRequest /\ pc' = "reading" BY <2>2 DEF ResetRequest
  <2>3. CASE pc' = "closed" /\ UNCHANGED <<received, response, readVars>>
    BY <2>3, <1>a DEF readVars
  <2>4. QED BY <2>1, <2>2, <2>3
<1>8. ASSUME NEW n \in 1 .. Chunk, Receive(n) \/ TooLarge(n) PROVE ResponseTypes'
  BY <1>8, <1>a DEF Receive, TooLarge, Close, backendVars, readVars
<1>9. ASSUME NEW n \in 1 .. Chunk, ReadHead(n) PROVE ResponseTypes'
  <2>1. /\ pc = "receiving" /\ pc' = pc /\ UNCHANGED <<received, response, flawed>>
        /\ responseRead' = responseRead + n /\ n \in Nat
        /\ headersParsed' = HeadComplete(n) /\ parseOk' = (headersParsed' /\ HeadParses)
    BY <1>9, ConnectionConstants DEF ReadHead, CanRead, backendVars
  <2>2. HeadComplete(n) \in BOOLEAN BY DEF HeadComplete
  <2>3. HeadParses \in BOOLEAN BY <2>1, ConnectionConstants DEF HeadParses, Shape
  <2>4. headersParsed' \in BOOLEAN /\ parseOk' \in BOOLEAN BY <2>1, <2>2, <2>3, Zenon
  <2>5. QED BY <2>1, <2>4
<1>10. ASSUME NEW n \in 1 .. Chunk, ReadBody(n) PROVE ResponseTypes'
  BY <1>10, ConnectionConstants DEF ReadBody, backendVars
<1>11. ASSUME NEW n \in 1 .. Chunk, HeadTooLarge(n) PROVE ResponseTypes'
  BY <1>11, <1>a DEF HeadTooLarge, Finish
<1>12. ASSUME NEW n \in 1 .. Chunk, NoMemory(n) PROVE ResponseTypes'
  <2>1. /\ pc = "receiving" /\ pc' = "answering" /\ headersParsed' = TRUE
        /\ parseOk' = HeadParses /\ flawed' = TRUE
        /\ UNCHANGED <<received, response, responseRead>>
    BY <1>12 DEF NoMemory, CanRead, Finish
  <2>2. HeadParses \in BOOLEAN BY <2>1, ConnectionConstants DEF HeadParses, Shape
  <2>3. headersParsed' \in BOOLEAN /\ parseOk' \in BOOLEAN /\ flawed' \in BOOLEAN
    BY <2>1, <2>2, Zenon
  <2>4. QED BY <2>1, <2>3
<1>13. CASE Backend
  <2>1. PICK shape \in ResponseShapes :
          BackendAnswers(shape) \/ \E k \in 0 .. shape.head + shape.body - 1 : BackendBreaks(shape, k)
    BY <1>13 DEF Backend, BackendReplies
  <2>2. response'.shape = shape BY <2>1 DEF BackendAnswers, BackendBreaks
  <2>3. flawed' \in BOOLEAN
    BY <2>1, Zenon DEF BackendAnswers, BackendBreaks, readVars
  <2>4. UNCHANGED <<received, responseRead, headersParsed, parseOk>>
    BY <2>1 DEF BackendAnswers, BackendBreaks, readVars
  <2>5. QED BY <2>2, <2>3, <2>4
<1>14. QED
  BY <1>1, <1>2, <1>3, <1>4, <1>5, <1>6, <1>7, <1>8, <1>9, <1>10, <1>11, <1>12, <1>13
  DEF Next, Worker, Proceed, ReadHTTPResponse

LEMMA BodySteps ==
  ASSUME ResponseTypes, BodyInv, [Next]_vars
  PROVE  BodyInv'
<1> USE DEF BodyInv, BodyFits
<1>a. ASSUME \/ UNCHANGED bodyVars
             \/ body' = <<>> /\ capacity' = 0
      PROVE  BodyInv'
  <2>1. CASE UNCHANGED bodyVars BY <2>1 DEF bodyVars
  <2>2. CASE body' = <<>> /\ capacity' = 0
    <3>1. <<>> \in Seq(Nat) /\ Len(<<>>) = 0 OBVIOUS
    <3>2. body' \in Seq(Nat) /\ Len(body') = 0 BY <2>2, <3>1
    <3>3. QED BY <2>2, <3>2
  <2>3. QED BY <1>a, <2>1, <2>2
<1>b. responseRead \in Nat BY DEF ResponseTypes
<1>1. CASE ClientSends \/ ClientLeaves \/ UNCHANGED vars
  BY <1>1, <1>a DEF ClientSends, ClientLeaves, vars, readVars
<1>2. CASE ConnectionEnds \/ KeepReading \/ BadSizes \/ AnswerError \/ ParseDies \/ StartForward
  BY <1>2, <1>a
  DEF ConnectionEnds, KeepReading, BadSizes, AnswerError, ParseDies, StartForward, Close,
      Refuse, ProcessEnds, readVars
<1>3. CASE OpenSocket \/ Connected \/ SendRequest
  BY <1>3, <1>a DEF OpenSocket, Connected, SendRequest, readVars
<1>4. CASE SocketFails \/ ConnectFails \/ SendFails
  BY <1>4, <1>a DEF SocketFails, ConnectFails, SendFails, BadGateway, ProcessEnds, readVars
<1>5. CASE EndOfResponse
  BY <1>5, <1>a DEF EndOfResponse, Finish, BuildHTTPResponse, bodyVars
<1>6. CASE AnswerClient
  BY <1>6, <1>a
  DEF AnswerClient, SendHTTPResponse, SendBadRequest, AnswerFails, AwaitNext, HangUp,
      ResetRequest, ProcessEnds, readVars
<1>7. ASSUME NEW n \in 1 .. Chunk, Receive(n) \/ TooLarge(n) PROVE BodyInv'
  BY <1>7, <1>a DEF Receive, TooLarge, Close, readVars
<1>8. ASSUME NEW n \in 1 .. Chunk, ReadHead(n) PROVE BodyInv'
  <2>1. CASE UNCHANGED bodyVars BY <1>a, <2>1
  <2>2. CASE ~UNCHANGED bodyVars
    <3>1. Shape \in ResponseShapes
      BY <1>8 DEF ReadHead, CanRead, ResponseTypes, Shape
    <3>2. Shape.head \in Nat /\ n \in Nat BY <3>1, ShapeType, ConnectionConstants
    <3> DEFINE h == Shape.head
               m == responseRead + n - h
    <3>3. /\ responseRead + n > h /\ capacity' = m
          /\ body' = [i \in 1 .. m |-> h + i]
      BY <1>8, <2>2 DEF ReadHead, BodyStart
    <3>4. h \in Nat /\ m \in Nat BY <1>b, <3>2, <3>3
    <3>5. body' = Part(h, m) BY <3>3 DEF Part
    <3> HIDE DEF h, m
    <3>6. body' \in Seq(Nat) /\ Len(body') = m BY <3>4, <3>5, PartType
    <3>7. QED BY <3>3, <3>4, <3>6
  <2>3. QED BY <2>1, <2>2
<1>9. ASSUME NEW n \in 1 .. Chunk, ReadBody(n) PROVE BodyInv'
  <2>1. /\ body' = body \o Arriving(n) /\ n \in Nat /\ n > 0
        /\ capacity' = Grown(Len(body) + n, IF capacity = 0 THEN n ELSE capacity)
    BY <1>9, ConnectionConstants DEF ReadBody
  <2>2. Arriving(n) \in Seq(Nat) /\ Len(Arriving(n)) = n BY <1>b, <2>1 DEF Arriving
  <2>a. body \in Seq(Nat) OBVIOUS
  <2>b. Len(body) \in Nat BY <2>a
  <2>c. \A c, d \in Seq(Nat) : c \o d \in Seq(Nat) /\ Len(c \o d) = Len(c) + Len(d)
    OBVIOUS
  <2>3. body' \in Seq(Nat) /\ Len(body') = Len(body) + n /\ Len(body) \in Nat
    BY <2>1, <2>2, <2>a, <2>b, <2>c
  <2> DEFINE cap == IF capacity = 0 THEN n ELSE capacity
             needed == Len(body) + n
  <2>4. cap \in Nat /\ cap > 0 /\ needed \in Nat /\ cap <= 2 * needed BY <2>1, <2>3
  <2>5. capacity' = Grown(needed, cap) BY <2>1
  <2> HIDE DEF cap
  <2>6. /\ capacity' \in Nat /\ capacity' >= needed
        /\ capacity' = cap \/ capacity' < 2 * needed
    BY <2>4, <2>5, CapacityGrows
  <2>7. QED BY <2>3, <2>4, <2>6
<1>10. ASSUME NEW n \in 1 .. Chunk, HeadTooLarge(n) \/ NoMemory(n) PROVE BodyInv'
  BY <1>10, <1>a DEF HeadTooLarge, NoMemory, Finish, BuildHTTPResponse
<1>11. CASE Backend
  BY <1>11, <1>a DEF Backend, BackendReplies, BackendAnswers, BackendBreaks, readVars
<1>12. QED
  BY <1>1, <1>2, <1>3, <1>4, <1>5, <1>6, <1>7, <1>8, <1>9, <1>10, <1>11
  DEF Next, Worker, Proceed, ReadHTTPResponse

LEMMA TypeParts ==
  /\ Init => RoomInv /\ RequestTypes /\ ResponseTypes /\ BodyInv
  /\ BufferInv /\ SocketInv /\ AnswerTypes /\ RoomInv /\ RequestTypes /\ ResponseTypes /\ BodyInv
       => TypeOK
<1>1. ASSUME Init PROVE RoomInv /\ RequestTypes /\ ResponseTypes /\ BodyInv
  <2>1. <<>> \in Seq(Nat) /\ Len(<<>>) = 0 OBVIOUS
  <2>2. \A S : <<>> \in Seq(S) OBVIOUS
  <2>a. RequestBuffer \in Nat /\ RequestBuffer > 0 BY ConnectionConstants
  <2>b. gone = FALSE /\ read = 0 /\ first = 1 BY <1>1 DEF Init
  <2>c. gone \in BOOLEAN BY <2>b, Zenon
  <2>d. read - first + 1 < RequestBuffer BY <2>a, <2>b
  <2>3. RoomInv BY <2>c, <2>d, Zenon DEF RoomInv
  <2>4. RequestTypes BY <1>1, <2>2 DEF Init, RequestTypes
  <2>5. ResponseTypes BY <1>1 DEF Init, ResponseTypes
  <2>6. BodyInv BY <1>1, <2>1 DEF Init, BodyInv, BodyFits
  <2>7. QED BY <2>3, <2>4, <2>5, <2>6
<1>2. ASSUME BufferInv, SocketInv, AnswerTypes, RoomInv, RequestTypes, ResponseTypes, BodyInv
      PROVE TypeOK
  <2>1. sockets \in Nat BY <1>2 DEF SocketInv, SocketsClosed
  <2>2. QED
    BY <1>2, <2>1
    DEF TypeOK, BufferInv, BufferTypes, AnswerTypes, RoomInv, RequestTypes, ResponseTypes,
        BodyInv, Positions
<1>3. QED BY <1>1, <1>2

\* The variables keep their types; in particular the worker never writes behind
\* the end of requestBuffer.
THEOREM TypesOfProxyConnection == Spec => []TypeOK
<1> DEFINE Inv == AnswerTypes /\ RoomInv /\ RequestTypes /\ ResponseTypes /\ BodyInv
<1>1. Init => Inv BY TypeParts, OrderInit
<1>2. BufferInv /\ Inv /\ [Next]_vars => Inv'
  BY AnswerTypeSteps, RoomSteps, RequestTypeSteps, ResponseTypeSteps, BodySteps
<1>3. Init => SocketInv BY DEF Init, SocketInv, SocketsClosed, Positions
<1>4. BufferInv /\ SocketInv /\ Inv => TypeOK BY TypeParts
<1> HIDE DEF Inv
<1>5. QED BY <1>1, <1>2, <1>3, <1>4, BufferInvariant, SocketSteps, PTL DEF Spec

\* Whatever the pieces in which a body arrives, it is copied into a buffer that
\* holds it and is at most twice as large.
THEOREM BodiesFit == Spec => []BodyFits
<1> DEFINE Inv == ResponseTypes /\ BodyInv
<1>1. Init => Inv BY TypeParts
<1>2. Inv /\ [Next]_vars => Inv' BY ResponseTypeSteps, BodySteps
<1>3. Inv => BodyFits BY DEF BodyInv
<1> HIDE DEF Inv
<1>4. QED BY <1>1, <1>2, <1>3, PTL DEF Spec

-----------------------------------------------------------------------------
(* The connection is an exchange of requests and answers *)

\* Which request has its turn, whether it was sent to a backend and what its
\* answer may be; and that heads that had their turn lie before the buffer.
WasSent(r) == \E i \in DOMAIN forwarded : forwarded[i].of = r

StatusesOf(r) == IF WasSent(r) THEN Replies ELSE Refusals \cup {502}

ExchangeInv ==
  /\ pc \in {"reading", "parsing"} => current = 0
  /\ pc \in {"awaiting", "receiving"} => WasSent(current)
  /\ pc \in {"answering", "rejecting"} => status \in StatusesOf(current)
  /\ pc # "closed" =>
       \A i \in DOMAIN answers : \A k \in DOMAIN stream :
         stream[k].part = "end" /\ stream[k].of <= answers[i].to => k < first

\* The steps of the promise, and those that it does not see.
Unseen == UNCHANGED <<current, forwarded, answers>>
Kept == Promise!Next \/ Unseen

Ids(f) == [i \in DOMAIN f |-> f[i].of]

LEMMA IdsAppended ==
  ASSUME NEW f \in Deliveries, NEW e \in [of : Nat, as : Ways]
  PROVE  Ids(Append(f, e)) = Append(Ids(f), e.of)
<1> DEFINE n == Len(f)
           g == Append(f, e)
           D == [of : Nat, as : Ways]
<1>a. n = Len(f) /\ g = Append(f, e) /\ f \in Seq(D) /\ e \in D BY DEF Deliveries
<1> HIDE DEF n, g, D
<1>1. /\ n \in Nat /\ DOMAIN f = 1 .. n /\ DOMAIN g = 1 .. n + 1
      /\ \A i \in 1 .. n : g[i] = f[i] /\ f[i] \in D
      /\ g[n + 1] = e
      /\ \A i \in 1 .. n + 1 : i \in 1 .. n \/ i = n + 1
  BY <1>a, Extended
<1>b. \A i \in 1 .. n : f[i].of \in Nat BY <1>1 DEF D
<1>2. Ids(f) = [i \in 1 .. n |-> f[i].of] BY <1>1 DEF Ids
<1>3. Ids(f) \in Seq(Nat) /\ Len(Ids(f)) = n BY <1>1, <1>b, <1>2
<1>4. Append(Ids(f), e.of) = [i \in 1 .. n + 1 |-> IF i <= n THEN Ids(f)[i] ELSE e.of]
  BY <1>1, <1>3
<1>5. ASSUME NEW i \in 1 .. n + 1
      PROVE  g[i].of = IF i <= n THEN Ids(f)[i] ELSE e.of
  <2>1. CASE i \in 1 .. n BY <1>1, <1>2, <2>1
  <2>2. CASE i = n + 1 BY <1>1, <2>2
  <2>3. QED BY <1>1, <2>1, <2>2
<1>6. Ids(g) = [i \in 1 .. n + 1 |-> g[i].of] BY <1>1 DEF Ids
<1>7. Ids(g) = Append(Ids(f), e.of) BY <1>4, <1>5, <1>6
<1>8. QED BY <1>7 DEF g

LEMMA SentMeans == \A r : Promise!Sent(r) <=> WasSent(r)
BY DEF Promise!Sent, WasSent

\* The head that is found in the buffer was neither answered nor sent before.
LEMMA HeadIsFresh ==
  ASSUME BufferInv, AnswerTypes, ForwardInv, ExchangeInv, pc \in NotSent, Ends # {}
  PROVE  LET r == stream[HeadEnd].of
         IN r \in RequestIds /\ r # 0 /\ Promise!Fresh(r) /\ ~WasSent(r)
<1> DEFINE r == stream[HeadEnd].of
<1>a. BufferTypes BY DEF BufferInv
<1>1. /\ HeadEnd \in DOMAIN stream /\ HeadEnd \in first .. read
      /\ stream[HeadEnd].part = "end"
  BY <1>a, HeadEndFacts
<1>2. first \in Nat /\ read \in Nat /\ r \in Nat /\ r # 0
  BY <1>a, <1>1, StreamFacts, RequestsInOrder
<1>3. ~(HeadEnd < first) BY <1>1, <1>2
<1>4. \A i \in DOMAIN answers : ~(r <= answers[i].to)
  BY <1>1, <1>3 DEF ExchangeInv, NotSent
<1>5. \A i \in DOMAIN forwarded : ~(r <= forwarded[i].of)
  BY <1>1, <1>3 DEF ForwardInv, Behind
<1>6. \A i \in DOMAIN answers : answers[i].to \in Nat
  <2>1. answers \in Seq([to : Nat, status : Statuses]) BY DEF AnswerTypes, Answers
  <2>2. \A i \in DOMAIN answers : answers[i] \in [to : Nat, status : Statuses]
    BY <2>1, Elements, Zenon
  <2>3. QED BY <2>2
<1>7. \A i \in DOMAIN forwarded : forwarded[i].of \in Nat
  <2>1. forwarded \in Seq([of : Nat, as : Ways]) BY DEF ForwardInv, Deliveries
  <2>2. \A i \in DOMAIN forwarded : forwarded[i] \in [of : Nat, as : Ways]
    BY <2>1, Elements, Zenon
  <2>3. QED BY <2>2
<1>8. r \in RequestIds BY <1>1, RequestIdFacts
<1> HIDE DEF r
<1>9. /\ \A i \in DOMAIN answers : answers[i].to < r
      /\ \A i \in DOMAIN forwarded : forwarded[i].of < r
  BY <1>2, <1>4, <1>5, <1>6, <1>7
<1>10. Promise!Fresh(r) BY <1>9 DEF Promise!Fresh
<1>11. ~WasSent(r) BY <1>2, <1>9 DEF WasSent
<1>12. QED BY <1>2, <1>8, <1>10, <1>11 DEF r

\* A step in which nothing is sent, answered or taken out of the buffer.
LEMMA ExchangeStays ==
  ASSUME ExchangeInv, UNCHANGED <<stream, first, current, forwarded, answers>>,
         pc' \in {"reading", "parsing"} => pc \in {"reading", "parsing"},
         pc' \in {"awaiting", "receiving"} => pc \in {"awaiting", "receiving"},
         pc' \in {"answering", "rejecting"} => status' \in StatusesOf(current),
         pc' # "closed" => pc # "closed"
  PROVE  ExchangeInv' /\ Kept
<1>1. StatusesOf(current)' = StatusesOf(current) /\ (WasSent(current)' <=> WasSent(current))
  BY DEF StatusesOf, WasSent
<1>2. QED BY <1>1 DEF ExchangeInv, Kept, Unseen

\* The first request in the buffer has its turn.
LEMMA Taken ==
  ASSUME BufferInv, AnswerTypes, ForwardInv, ExchangeInv, pc = "parsing", Ends # {},
         current' = stream[HeadEnd].of, UNCHANGED <<stream, first, forwarded, answers>>,
         \/ pc' = "connecting"
         \/ pc' \in {"answering", "rejecting"} /\ status' \in Refusals
  PROVE  ExchangeInv' /\ Kept
<1> DEFINE r == stream[HeadEnd].of
<1>1. r \in RequestIds /\ r # 0 /\ Promise!Fresh(r) /\ ~WasSent(r)
  BY HeadIsFresh DEF NotSent
<1>2. current = 0 BY DEF ExchangeInv
<1> HIDE DEF r
<1>3. current' = r BY DEF r
<1>4. Promise!Take(r) BY <1>1, <1>2, <1>3 DEF Promise!Take
<1>5. Kept BY <1>1, <1>4 DEF Kept, Promise!Next
<1>6. pc' # "connecting" => status' \in StatusesOf(current)'
  <2>1. ~WasSent(current)' BY <1>1, <1>3 DEF WasSent
  <2>2. Refusals' = Refusals BY DEF Refusals
  <2>3. QED BY <2>1, <2>2 DEF StatusesOf
<1>7. QED BY <1>5, <1>6 DEF ExchangeInv

\* The request that is handled goes out.
LEMMA TurnSent ==
  ASSUME BufferInv, AnswerTypes, ForwardInv, ExchangeInv, SendRequest
  PROVE  ExchangeInv' /\ Kept
<1> DEFINE e == [of |-> current, as |-> AsForwarded]
<1>1. /\ pc = "sending" /\ pc' = "awaiting" /\ forwarded' = Append(forwarded, e)
      /\ UNCHANGED <<stream, first, current, answers>>
  BY DEF SendRequest, clientVars, bufferVars
<1>2. current \in Nat /\ current # 0 /\ Ends # {} /\ current = stream[HeadEnd].of
  BY <1>1, CurrentFacts DEF InFlight, BufferInv, CurrentInv
<1>3. ~WasSent(current) BY <1>1, <1>2, HeadIsFresh DEF NotSent
<1>4. AsForwarded \in Ways BY DEF AsForwarded, Ways
<1>5. e \in [of : Nat, as : Ways] /\ e.of = current BY <1>2, <1>4
<1> HIDE DEF e
<1>6. forwarded \in Deliveries BY DEF ForwardInv
<1>7. Ids(forwarded') = Append(Ids(forwarded), current) BY <1>1, <1>5, <1>6, IdsAppended
<1>8. Promise!Forward
  <2>1. ~Promise!Sent(current) BY <1>3, SentMeans
  <2>2. [i \in DOMAIN forwarded' |-> forwarded'[i].of]
          = Append([i \in DOMAIN forwarded |-> forwarded[i].of], current)
    BY <1>7 DEF Ids
  <2>3. QED BY <1>1, <1>2, <2>1, <2>2 DEF Promise!Forward
<1>9. WasSent(current)'
  <2>1. Len(forwarded) + 1 \in DOMAIN forwarded' /\ forwarded'[Len(forwarded) + 1] = e
    BY <1>1, <1>5, <1>6, Extended DEF Deliveries
  <2>2. QED BY <1>1, <1>5, <2>1 DEF WasSent
<1>10. ExchangeInv' BY <1>1, <1>9 DEF ExchangeInv
<1>11. QED BY <1>8, <1>10 DEF Kept, Promise!Next

\* The turn ends with an answer or without one; when the connection stays, the
\* buffer is emptied.
LEMMA TurnEnds ==
  ASSUME BufferInv, AnswerTypes, ExchangeInv, pc \in {"answering", "rejecting"},
         Answer \/ UNCHANGED answers, current' = 0, UNCHANGED <<stream, read, forwarded>>,
         pc' = "closed" \/ (pc' = "reading" /\ EmptyBuffer)
  PROVE  ExchangeInv' /\ Kept
<1> DEFINE a == [to |-> current, status |-> status]
<1>1. current \in Nat /\ current # 0 BY CurrentFacts DEF InFlight
<1>2. status \in StatusesOf(current) BY DEF ExchangeInv
<1>3. Promise!Reply \/ Promise!GiveUp
  <2>1. status \in Promise!Statuses(current)
    BY <1>2, SentMeans DEF StatusesOf, Promise!Statuses
  <2>2. CASE Answer BY <1>1, <2>1, <2>2 DEF Promise!Reply, Answer
  <2>3. CASE UNCHANGED answers BY <1>1, <2>3 DEF Promise!GiveUp
  <2>4. QED BY <2>2, <2>3
<1>4. ASSUME pc' = "reading", NEW i \in DOMAIN answers', NEW k \in DOMAIN stream,
             stream[k].part = "end", stream[k].of <= answers'[i].to
      PROVE  k < first'
  <2>1. /\ read \in Nat /\ first \in Nat /\ first <= read + 1 /\ first' = read + 1
        /\ DOMAIN stream \subseteq Nat
    BY <1>4, StreamFacts DEF BufferInv, BufferTypes, EmptyBuffer
  <2>2. CASE i \in DOMAIN answers /\ answers'[i] = answers[i]
    <3>1. k < first BY <1>4, <2>2 DEF ExchangeInv
    <3>2. QED BY <2>1, <3>1
  <2>3. CASE answers'[i].to = current
    <3>1. k <= read BY <1>4, <2>3, HeadsRead DEF InFlight
    <3>2. QED BY <2>1, <3>1
  <2>4. (i \in DOMAIN answers /\ answers'[i] = answers[i]) \/ answers'[i].to = current
    <3>1. CASE UNCHANGED answers BY <3>1
    <3>2. CASE Answer
      <4>1. a \in [to : Nat, status : Statuses] /\ a.to = current BY <1>1 DEF AnswerTypes
      <4>2. answers' = Append(answers, a) /\ answers \in Seq([to : Nat, status : Statuses])
        BY <3>2 DEF Answer, AnswerTypes, Answers
      <4> HIDE DEF a
      <4>3. QED BY <4>1, <4>2, Extended
    <3>3. QED BY <3>1, <3>2
  <2>5. QED BY <2>2, <2>3, <2>4
<1>5. ExchangeInv' BY <1>4 DEF ExchangeInv
<1>6. QED BY <1>3, <1>5 DEF Kept, Promise!Next

LEMMA ExchangeSteps ==
  ASSUME BufferInv, AnswerTypes, ForwardInv, ExchangeInv, [Next]_vars
  PROVE  ExchangeInv' /\ Kept
<1>1. CASE ClientSends \/ ClientLeaves \/ UNCHANGED vars
  BY <1>1, ExchangeStays
  DEF ClientSends, ClientLeaves, vars, clientVars, bufferVars, history, ExchangeInv
<1>2. CASE ConnectionEnds \/ KeepReading \/ ParseDies
  BY <1>2, ExchangeStays
  DEF ConnectionEnds, KeepReading, ParseDies, Close, ProcessEnds, clientVars, bufferVars, history
<1>3. CASE BadSizes \/ AnswerError
  <2>1. PICK s \in Refusals : Refuse(s)
    BY <1>3, RefusalType DEF BadSizes, AnswerError, Refusals
  <2>2. pc = "parsing" /\ Ends # {} /\ pc' \in {"answering", "rejecting"}
    BY <1>3 DEF BadSizes, AnswerError, Complete
  <2>3. QED BY <2>1, <2>2, Taken DEF Refuse, clientVars, bufferVars, history
<1>4. CASE StartForward
  BY <1>4, Taken DEF StartForward, Complete, clientVars, bufferVars, history
<1>5. CASE OpenSocket \/ Connected
  BY <1>5, ExchangeStays
  DEF OpenSocket, Connected, clientVars, bufferVars, history
<1>6. CASE SocketFails \/ ConnectFails \/ SendFails
  <2>1. CASE ProcessEnds /\ pc = "sending"
    BY <2>1, ExchangeStays DEF ProcessEnds, clientVars, bufferVars, history
  <2>2. CASE ~ProcessEnds
    <3>1. /\ pc \in {"connecting", "waiting", "sending"} /\ pc' = "answering" /\ status' = 502
          /\ UNCHANGED <<stream, first, current, forwarded, answers>>
      BY <1>6, <2>2
      DEF SocketFails, ConnectFails, SendFails, BadGateway, clientVars, bufferVars, history
    <3>2. Ends # {} /\ current = stream[HeadEnd].of
      BY <3>1 DEF BufferInv, CurrentInv, InFlight
    <3>3. ~WasSent(current) BY <3>1, <3>2, HeadIsFresh DEF NotSent
    <3>4. status' \in StatusesOf(current) BY <3>1, <3>3 DEF StatusesOf
    <3>5. QED BY <3>1, <3>4, ExchangeStays
  <2>3. ProcessEnds => pc = "sending"
    BY <1>6 DEF SocketFails, ConnectFails, SendFails, BadGateway, ProcessEnds
  <2>4. QED BY <2>1, <2>2, <2>3
<1>7. CASE SendRequest BY <1>7, TurnSent
<1>8. CASE EndOfResponse \/ \E n \in 1 .. Chunk : HeadTooLarge(n) \/ NoMemory(n)
  <2>1. /\ pc = "receiving" /\ pc' = "answering" /\ status' \in {0, Shape.status}
        /\ UNCHANGED <<stream, first, current, forwarded, answers>>
    BY <1>8
    DEF EndOfResponse, HeadTooLarge, NoMemory, CanRead, Finish, BuildHTTPResponse, clientVars,
        bufferVars, history
  <2>2. Shape \in ResponseShapes BY <2>1 DEF AnswerTypes
  <2>3. status' \in Replies BY <2>1, <2>2 DEF Replies
  <2>4. WasSent(current) BY <2>1 DEF ExchangeInv
  <2>5. status' \in StatusesOf(current) BY <2>3, <2>4 DEF StatusesOf
  <2>6. QED BY <2>1, <2>5, ExchangeStays
<1>9. CASE AnswerClient
  <2>1. CASE ProcessEnds /\ pc \in {"answering", "rejecting"}
    BY <2>1, ExchangeStays DEF ProcessEnds, clientVars, bufferVars, history
  <2>2. \/ ProcessEnds /\ pc \in {"answering", "rejecting"}
        \/ /\ pc \in {"answering", "rejecting"} /\ (Answer \/ UNCHANGED answers)
           /\ current' = 0 /\ UNCHANGED <<stream, read, forwarded>>
           /\ pc' = "closed" \/ (pc' = "reading" /\ EmptyBuffer)
    BY <1>9
    DEF AnswerClient, SendHTTPResponse, SendBadRequest, AnswerFails, AwaitNext, HangUp,
        ResetRequest, clientVars, bufferVars, history
  <2>3. QED BY <2>1, <2>2, TurnEnds
<1>10. ASSUME NEW n \in 1 .. Chunk, Receive(n) \/ TooLarge(n) PROVE ExchangeInv' /\ Kept
  BY <1>10, ExchangeStays DEF Receive, TooLarge, Close, clientVars, bufferVars, history
<1>11. ASSUME NEW n \in 1 .. Chunk, ReadHead(n) \/ ReadBody(n) PROVE ExchangeInv' /\ Kept
  BY <1>11, ExchangeStays DEF ReadHead, ReadBody, CanRead, clientVars, bufferVars, history
<1>12. CASE Backend
  BY <1>12, ExchangeStays
  DEF Backend, BackendReplies, BackendAnswers, BackendBreaks, clientVars, bufferVars, history
<1>13. QED
  BY <1>1, <1>2, <1>3, <1>4, <1>5, <1>6, <1>7, <1>8, <1>9, <1>10, <1>11, <1>12
  DEF Next, Worker, Proceed, ReadHTTPResponse

\* Whatever the pieces of the streams, the order of the steps and the failures,
\* and even for a client that sends ahead, the connection is an exchange of one
\* request and at most one answer at a time: what was sent to a backend has a
\* status of the backend, and a 502 says that no backend got the whole request.
THEOREM ConnectionKeepsPromise == Spec => ExchangesAsPromised
<1>1. Init => Promise!Init /\ ExchangeInv
  <2> SUFFICES ASSUME Init PROVE Promise!Init /\ ExchangeInv OBVIOUS
  <2>1. DOMAIN forwarded = {} /\ DOMAIN answers = {} BY DEF Init
  <2>2. [i \in DOMAIN forwarded |-> forwarded[i].of] = <<>> BY <2>1
  <2>3. Promise!Init BY <2>2 DEF Init, Promise!Init
  <2>4. QED BY <2>1, <2>3 DEF Init, ExchangeInv
<1> DEFINE Inv == AnswerTypes /\ OrderInv /\ ForwardInv /\ ExchangeInv
<1>2. BufferInv /\ Inv /\ [Next]_vars => Inv'
  BY AnswerTypeSteps, OrderSteps, ForwardSteps, ExchangeSteps
<1>3. BufferInv /\ Inv /\ [Next]_vars => [Promise!Next]_(Promise!vars)
  BY ExchangeSteps DEF Kept, Unseen, Promise!vars
<1>4. Init => Inv BY <1>1, OrderInit, ForwardInit
<1> HIDE DEF Inv
<1>5. QED
  BY <1>1, <1>2, <1>3, <1>4, BufferInvariant, PTL DEF Spec, ExchangesAsPromised, Promise!Spec
=============================================================================
