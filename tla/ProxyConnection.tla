--------------------------- MODULE ProxyConnection ---------------------------
(***************************************************************************)
(* One client connection of the proxy and the backend connections made for *)
(* it, as streams that arrive in pieces.  The worker collects a request in *)
(* requestBuffer, forwards it to a backend over a connection of its own,   *)
(* collects the answer until that connection ends, and passes it on.       *)
(*                                                                         *)
(* The streams are counted in units.  The head of a request is two units,  *)
(* its request line and the rest, which has its Content-Length and ends    *)
(* with an empty line; its body does not contain one.  requestBuffer is a  *)
(* segment of the client's stream, from the unit first to the unit read.   *)
(* It begins with a request line, except after a client has sent ahead.    *)
(* The units of a response are numbered, head first.  Requests that the    *)
(* cache answers are left out (ProxyCache has them).                       *)
(***************************************************************************)
EXTENDS Integers, Sequences, FiniteSets

CONSTANTS
  Streams,          \* what the client may send, from beginning to end
  ResponseShapes,   \* what backends may answer: units of head and of body
  RequestBuffer,    \* units in requestBuffer
  Accumulator,      \* units in accumulator
  Chunk,            \* units a recv may return at most
  Failures          \* what may fail: a subset of FailureKinds

FailureKinds == {"connect", "send", "short", "break", "alloc", "leave", "race"}

\* A unit of a request. The unit that ends a head says how many units of body
\* follow, and what is wrong with the head, if anything: its Content-Length, its
\* request line, its method, its URI, the number of its headers, no Host, or a
\* URI or header that is longer than the 256 bytes there are for it.
Faults == {"none", "length", "line", "method", "uri", "headers", "host", "long"}
Units == [of : Nat, part : {"line", "end", "body"}, length : Nat, fault : Faults]

\* Of a response whose head cannot be parsed, ok is FALSE. Backends are no
\* gateways: none of them answers 502.
ASSUME ConnectionConstants ==
  /\ \A s \in Streams : s \in Seq(Units)
  /\ \A r \in ResponseShapes :
       /\ r.head \in Nat \ {0} /\ r.body \in Nat /\ r.ok \in BOOLEAN
       /\ r.status \in Nat \ {502}
  /\ RequestBuffer \in Nat \ {0} /\ Accumulator \in Nat /\ Chunk \in Nat \ {0}
  /\ Failures \subseteq FailureKinds

\* Requests come one after the other, begin with their line, have their head in
\* one piece, and no more body than it says.
ASSUME RequestsAreWhole ==
  \A s \in Streams : \A i, j \in DOMAIN s :
    /\ s[i].of > 0 /\ (i <= j => s[i].of <= s[j].of)
    /\ s[i].part = "line" \/ (i - 1 \in DOMAIN s /\ s[i - 1].of = s[i].of)
    /\ s[i].part = "line" =>
         i + 1 \in DOMAIN s /\ s[i + 1].part = "end" /\ s[i + 1].of = s[i].of
    /\ s[i].part = "end" /\ s[j].of = s[i].of /\ j > i =>
         s[j].part = "body" /\ j <= i + s[i].length

VARIABLES
  stream, sent,     \* the client's stream, and how much of it was sent
  gone,             \* the client has closed its end
  read, first,      \* what was received, and where requestBuffer begins
  pc, current,      \* position of the worker, and the request it handles
  sockets,          \* open connections to backends
  received,         \* the backend has received all of the request
  response,         \* what the backend answers: [shape, arrives], or NoResponse
  responseRead,     \* units of it that were read
  headersParsed, parseOk,
  body, capacity,   \* responseBody and responseBodyCapacity
  flawed,           \* history: the connection to the backend broke, or there was
                    \* no memory for the answer
  status,           \* status of the answer for the client
  answers,          \* the answers the client received
  forwarded,        \* history: the requests sent to backends: [of, as]
  pipelined         \* history: the client sent a request before it had the
                    \* answers to the ones before

clientVars == <<stream, sent, gone>>
bufferVars == <<read, first>>
bodyVars == <<body, capacity>>
readVars == <<responseRead, headersParsed, parseOk, bodyVars, flawed>>
backendVars == <<sockets, received, response>>
history == <<forwarded, pipelined>>
vars == <<clientVars, bufferVars, pc, current, backendVars, readVars, status,
          answers, history>>

NoResponse ==
  [shape |-> [head |-> 0, body |-> 0, status |-> 0, ok |-> FALSE], arrives |-> -1]
RequestIds == UNION {{s[i].of : i \in DOMAIN s} : s \in Streams}

\* The statuses of the proxy's own answers to a request it does not forward, and
\* those of the answers of backends, 0 for one that could not be read.
Refusals == {400, 405, 431, 500}
Replies == {0} \cup {r.status : r \in ResponseShapes}
Statuses == Refusals \cup {502} \cup Replies

\* A request reaches a backend as the client sent it, with its URI or a header
\* cut, or put together from what was left of several.
Ways == {"sent", "cut", "mangled"}

TypeOK ==
  /\ stream \in Streams /\ sent \in 0 .. Len(stream) /\ gone \in BOOLEAN
  /\ read \in 0 .. sent /\ first \in 1 .. read + 1
  /\ read - first + 1 < RequestBuffer
  /\ pc \in {"reading", "parsing", "connecting", "waiting", "sending",
             "awaiting", "receiving", "answering", "rejecting", "closed"}
  /\ current \in RequestIds \cup {0}
  /\ sockets \in Nat /\ received \in BOOLEAN
  /\ response = NoResponse \/ response.shape \in ResponseShapes
  /\ responseRead \in Nat /\ headersParsed \in BOOLEAN /\ parseOk \in BOOLEAN
  /\ body \in Seq(Nat) /\ capacity \in Nat /\ flawed \in BOOLEAN
  /\ status \in Statuses
  /\ answers \in Seq([to : RequestIds, status : Statuses])
  /\ forwarded \in Seq([of : RequestIds, as : Ways]) /\ pipelined \in BOOLEAN

Init ==
  /\ stream \in Streams /\ sent = 0 /\ gone = FALSE
  /\ read = 0 /\ first = 1
  /\ pc = "reading" /\ current = 0
  /\ sockets = 0 /\ received = FALSE /\ response = NoResponse
  /\ responseRead = 0 /\ headersParsed = FALSE /\ parseOk = FALSE
  /\ body = <<>> /\ capacity = 0 /\ flawed = FALSE
  /\ status = 0 /\ answers = <<>>
  /\ forwarded = <<>> /\ pipelined = FALSE

-----------------------------------------------------------------------------
(* The client *)

ClientSends ==
  /\ ~gone /\ sent < Len(stream)
  /\ sent' = sent + 1
  /\ pipelined' = (pipelined \/ Len(answers) < stream[sent + 1].of - 1)
  /\ UNCHANGED <<stream, gone, bufferVars, pc, current, backendVars, readVars,
                 status, answers, forwarded>>

ClientLeaves ==
  /\ "leave" \in Failures /\ ~gone
  /\ gone' = TRUE
  /\ UNCHANGED <<stream, sent, bufferVars, pc, current, backendVars, readVars,
                 status, answers, history>>

-----------------------------------------------------------------------------
(* worker: receiving and parsing a request *)

Close == /\ pc' = "closed"
         /\ UNCHANGED <<clientVars, bufferVars, current, backendVars, readVars,
                        status, history>>

\* recv returns 0 or -1.
ConnectionEnds == pc = "reading" /\ gone /\ Close /\ UNCHANGED answers

Fault_FitsExactly(n) == read - first + 1 + n <= RequestBuffer

\* The last byte of requestBuffer is for the end of the string.
Fits(n) == read - first + 1 + n < RequestBuffer

Receive(n) ==
  /\ pc = "reading" /\ read + n <= sent
  /\ Fits(n)
  /\ read' = read + n
  /\ pc' = "parsing"
  /\ UNCHANGED <<clientVars, first, current, backendVars, readVars, status,
                 answers, history>>

TooLarge(n) ==
  /\ pc = "reading" /\ read + n <= sent
  /\ ~Fits(n)
  /\ Close /\ UNCHANGED answers

\* Where the first head in the buffer ends, if it does.
Ends == {i \in first .. read : stream[i].part = "end"}
HeadEnd == CHOOSE i \in Ends : \A j \in Ends : i <= j

\* The Content-Length that is found, -1 if it or the head is malformed. The first
\* line is taken for the request line: in a buffer that begins behind that, a
\* Content-Length in the first line is missed, and there may be no other line.
GetRequestSizes ==
  LET stated == IF stream[HeadEnd].fault = "length" THEN -1 ELSE stream[HeadEnd].length
  IN IF first = HeadEnd THEN {-1, 0, stated} ELSE {stated}

Fault_BodyNotAwaited(size) == FALSE
Fault_WaitsForMore(size) == read <= HeadEnd + size

Incomplete(size) == read < HeadEnd + size

KeepReading ==
  /\ pc = "parsing"
  /\ Ends # {} => \E size \in GetRequestSizes \ {-1} : Incomplete(size)
  /\ pc' = "reading"
  /\ UNCHANGED <<clientVars, bufferVars, current, backendVars, readVars, status,
                 answers, history>>

\* The request whose head is in the buffer is answered without a backend.
Refuse(s) ==
  /\ current' = stream[HeadEnd].of /\ status' = s
  /\ UNCHANGED <<clientVars, bufferVars, backendVars, readVars, answers, history>>

BadSizes ==
  /\ pc = "parsing" /\ Ends # {} /\ -1 \in GetRequestSizes
  /\ pc' = "rejecting" /\ Refuse(400)

Complete == Ends # {} /\ \E size \in GetRequestSizes \ {-1} : ~Incomplete(size)

\* What becomes of the URI is its status only: the path that UriParse decodes
\* and normalizes is not used. It is cut into segments with strtok, whose
\* position all threads share: when two of them parse at the same time, either
\* may be given the segments of the other. A URI is never too long for it: it
\* has been cut before.
UriParse(fault) ==
  IF "race" \in Failures THEN {0, 400} ELSE {IF fault = "uri" THEN 400 ELSE 0}

ParseMethod(fault) == fault # "method"
FindHost(fault) == fault # "host"

\* The statuses of ParseHTTPRequest, 0 if there is nothing to object to. The
\* first line of the buffer only has to look like a request line: what is left of
\* other requests may be refused for its words or its method, or accepted.
ParseHTTPRequest ==
  LET fault == stream[HeadEnd].fault
  IN CASE stream[first].part # "line" ->
            {0, 400, 405} \cup (IF fault = "headers" THEN {431} ELSE {})
       [] fault = "line" -> {400}
       [] ~ParseMethod(fault) -> {405}
       [] fault = "headers" -> {431} \cup (UriParse(fault) \ {0})
       [] ~FindHost(fault) -> {400}
       [] OTHER -> UriParse(fault)

\* The request is refused, or there is no memory to handle it.
AnswerError ==
  /\ pc = "parsing" /\ Complete
  /\ pc' = "answering"
  /\ \/ \E s \in ParseHTTPRequest \ {0} : Refuse(s)
     \/ "alloc" \in Failures /\ Refuse(500)

\* The process ends, of SIGPIPE after a send to a closed connection or of a
\* segment that is no more.
ProcessEnds ==
  /\ pc' = "closed" /\ sockets' = 0
  /\ UNCHANGED <<clientVars, bufferVars, current, received, response, readVars,
                 status, answers, history>>

\* A segment of another thread may be gone when it is copied.
ParseDies == "race" \in Failures /\ pc = "parsing" /\ Complete /\ ProcessEnds

StartForward ==
  /\ pc = "parsing" /\ Complete /\ 0 \in ParseHTTPRequest
  /\ pc' = "connecting" /\ current' = stream[HeadEnd].of
  /\ UNCHANGED <<clientVars, bufferVars, backendVars, readVars, status,
                 answers, history>>

-----------------------------------------------------------------------------
(* CreateClientSocket and SendHTTPRequest *)

\* There is no answer of a backend to pass on: 502.
BadGateway ==
  /\ pc' = "answering" /\ status' = 502
  /\ response' = NoResponse
  /\ body' = <<>> /\ capacity' = 0

SocketFails ==
  /\ "connect" \in Failures /\ pc = "connecting"
  /\ BadGateway
  /\ UNCHANGED <<clientVars, bufferVars, current, sockets, received, responseRead,
                 headersParsed, parseOk, flawed, answers, history>>

OpenSocket ==
  /\ pc = "connecting"
  /\ pc' = "waiting" /\ sockets' = sockets + 1
  /\ UNCHANGED <<clientVars, bufferVars, current, received, response, readVars,
                 status, answers, history>>

\* connect succeeds, or select finds within the timeout that it has.
Connected ==
  /\ pc = "waiting"
  /\ pc' = "sending"
  /\ UNCHANGED <<clientVars, bufferVars, current, backendVars, readVars, status,
                 answers, history>>

Fault_SocketLeft == sockets

CloseFailed == sockets - 1

\* Refused, timed out, or an error of select, getsockopt or fcntl.
ConnectFails ==
  /\ "connect" \in Failures /\ pc = "waiting"
  /\ sockets' = CloseFailed
  /\ BadGateway
  /\ UNCHANGED <<clientVars, bufferVars, current, received, responseRead,
                 headersParsed, parseOk, flawed, answers, history>>

\* What SerializeHTTPRequest makes of the request.
AsForwarded ==
  CASE stream[first].part # "line" -> "mangled"
    [] stream[first].part = "line" /\ stream[HeadEnd].fault = "long" -> "cut"
    [] OTHER -> "sent"

\* The request goes out whole; or send takes only a part of it, which is not
\* noticed.
SendRequest ==
  /\ pc = "sending"
  /\ received' \in IF "short" \in Failures THEN BOOLEAN ELSE {TRUE}
  /\ forwarded' = Append(forwarded, [of |-> current, as |-> AsForwarded])
  /\ pc' = "awaiting"
  /\ UNCHANGED <<clientVars, bufferVars, current, sockets, response, readVars,
                 status, answers, pipelined>>

\* The request does not fit the 8192 bytes it is serialized in, or send fails.
SendFails ==
  /\ "send" \in Failures /\ pc = "sending"
  /\ \/ /\ sockets' = sockets - 1
        /\ BadGateway
        /\ UNCHANGED <<clientVars, bufferVars, current, received, responseRead,
                       headersParsed, parseOk, flawed, answers, history>>
     \/ ProcessEnds

-----------------------------------------------------------------------------
(* The backend, and ReadHTTPResponse *)

\* A backend answers once it has the whole request, and closes the connection.
BackendAnswers(shape) ==
  /\ pc = "awaiting" /\ received
  /\ response' = [shape |-> shape, arrives |-> shape.head + shape.body]
  /\ pc' = "receiving"
  /\ UNCHANGED <<clientVars, bufferVars, current, sockets, received, readVars,
                 status, answers, history>>

\* The connection ends before that, with or without an error.
BackendBreaks(shape, arrives) ==
  /\ "break" \in Failures /\ pc = "awaiting"
  /\ arrives < shape.head + shape.body
  /\ arrives > 0 => received
  /\ response' = [shape |-> shape, arrives |-> arrives]
  /\ flawed' = TRUE
  /\ pc' = "receiving"
  /\ UNCHANGED <<clientVars, bufferVars, current, sockets, received, responseRead,
                 headersParsed, parseOk, bodyVars, status, answers, history>>

Arriving(n) == [i \in 1 .. n |-> responseRead + i]
Shape == response.shape

CanRead(n) == pc = "receiving" /\ responseRead + n <= response.arrives

Fault_BodyStartTooEarly == Shape.head - 1

\* What follows the head in the accumulator belongs to the body.
BodyStart == Shape.head

\* FindHeadersEnd and ParseHTTPResponseHead on what has arrived.
HeadComplete(n) == responseRead + n >= Shape.head
HeadParses == Shape.ok

\* The accumulator is searched for the end of the head.
ReadHead(n) ==
  /\ CanRead(n) /\ ~headersParsed /\ responseRead + n <= Accumulator
  /\ responseRead' = responseRead + n
  /\ headersParsed' = HeadComplete(n)
  /\ parseOk' = (headersParsed' /\ HeadParses)
  /\ IF headersParsed' /\ responseRead + n > BodyStart
     THEN /\ body' = [i \in 1 .. responseRead + n - BodyStart |-> BodyStart + i]
          /\ capacity' = responseRead + n - BodyStart
     ELSE UNCHANGED bodyVars
  /\ UNCHANGED <<clientVars, bufferVars, pc, current, backendVars, flawed, status,
                 answers, history>>

Fault_GrowsOnce(needed, cap) == IF cap < needed THEN 2 * cap ELSE cap

PowerOfTwo[k \in Nat] == IF k = 0 THEN 1 ELSE 2 * PowerOfTwo[k - 1]

\* Doubled until it is enough.
Grown(needed, cap) ==
  CHOOSE c \in {cap * PowerOfTwo[k] : k \in 0 .. needed} :
    c >= needed /\ (c = cap \/ c < 2 * needed)

ReadBody(n) ==
  /\ CanRead(n) /\ headersParsed
  /\ responseRead' = responseRead + n
  /\ body' = body \o Arriving(n)
  /\ capacity' = Grown(Len(body) + n, IF capacity = 0 THEN n ELSE capacity)
  /\ UNCHANGED <<clientVars, bufferVars, pc, current, backendVars, headersParsed,
                 parseOk, flawed, status, answers, history>>

CloseBackend == sockets - 1

BuildHTTPResponse(b, cap) ==
  status' = Shape.status /\ body' = b /\ capacity' = cap

\* The answer, with status 0 without a parsed head, and the close of the
\* connection.
Finish(ok, b, cap) ==
  /\ pc' = "answering"
  /\ sockets' = CloseBackend
  /\ IF ok THEN BuildHTTPResponse(b, cap)
           ELSE status' = 0 /\ body' = <<>> /\ capacity' = 0

EndOfResponse ==
  /\ pc = "receiving" /\ responseRead = response.arrives
  /\ Finish(parseOk, body, capacity)
  /\ UNCHANGED <<clientVars, bufferVars, current, received, response, responseRead,
                 headersParsed, parseOk, flawed, answers, history>>

\* The head does not fit the accumulator.
HeadTooLarge(n) ==
  /\ CanRead(n) /\ ~headersParsed /\ responseRead + n > Accumulator
  /\ Finish(FALSE, <<>>, 0)
  /\ UNCHANGED <<clientVars, bufferVars, current, received, response, responseRead,
                 headersParsed, parseOk, flawed, answers, history>>

\* malloc or realloc fails: what was read of the body is given up, the head is
\* not.
NoMemory(n) ==
  /\ "alloc" \in Failures /\ CanRead(n)
  /\ IF headersParsed THEN Len(body) + n > capacity
     ELSE responseRead + n \in Shape.head + 1 .. Accumulator
  /\ headersParsed' = TRUE /\ parseOk' = HeadParses
  /\ Finish(HeadParses, <<>>, 0)
  /\ flawed' = TRUE
  /\ UNCHANGED <<clientVars, bufferVars, current, received, response, responseRead,
                 answers, history>>

ReadHTTPResponse(n) == \/ ReadHead(n) \/ ReadBody(n)
                       \/ HeadTooLarge(n) \/ NoMemory(n)

-----------------------------------------------------------------------------
(* The answer to the client *)

Fault_BufferKept == UNCHANGED first

\* requestLen = 0: whatever had been read after the request is dropped.
EmptyBuffer == first' = read + 1

ResetRequest ==
  /\ EmptyBuffer
  /\ received' = FALSE /\ response' = NoResponse
  /\ responseRead' = 0 /\ headersParsed' = FALSE /\ parseOk' = FALSE
  /\ body' = <<>> /\ capacity' = 0 /\ flawed' = FALSE /\ status' = 0

AwaitNext ==
  /\ pc' = "reading" /\ current' = 0
  /\ ResetRequest
  /\ UNCHANGED <<clientVars, read, sockets, history>>

HangUp ==
  /\ pc' = "closed" /\ current' = 0
  /\ UNCHANGED <<clientVars, bufferVars, backendVars, readVars, status, history>>

Answer == answers' = Append(answers, [to |-> current, status |-> status])

\* The answer of a backend, or a refusal.
SendHTTPResponse == pc = "answering" /\ Answer /\ AwaitNext

\* The sizes of the request are not known, nor where the next one begins.
SendBadRequest == pc = "rejecting" /\ Answer /\ HangUp

\* The client has left: the failure is ignored, or the process ends of it.
AnswerFails ==
  /\ gone
  /\ \/ pc = "answering" /\ UNCHANGED answers /\ AwaitNext
     \/ pc = "rejecting" /\ UNCHANGED answers /\ HangUp
     \/ pc \in {"answering", "rejecting"} /\ ProcessEnds

-----------------------------------------------------------------------------

\* What waits for nobody but the kernel.
Proceed ==
  \/ ConnectionEnds \/ KeepReading \/ BadSizes \/ AnswerError \/ ParseDies
  \/ StartForward
  \/ SocketFails \/ OpenSocket \/ Connected \/ ConnectFails
  \/ SendRequest \/ SendFails
  \/ EndOfResponse
  \/ \E n \in 1 .. Chunk : Receive(n) \/ TooLarge(n) \/ ReadHTTPResponse(n)

\* send waits, without a timeout, for a client that does not read.
AnswerClient == SendHTTPResponse \/ SendBadRequest \/ AnswerFails

Worker == Proceed \/ AnswerClient

BackendReplies == \E shape \in ResponseShapes : BackendAnswers(shape)

Backend ==
  \/ BackendReplies
  \/ \E shape \in ResponseShapes :
       \E k \in 0 .. shape.head + shape.body - 1 : BackendBreaks(shape, k)

Next == ClientSends \/ ClientLeaves \/ Worker \/ Backend

Spec == Init /\ [][Next]_vars

\* The worker is scheduled, and a backend answers a request that it has received.
\* No client has to read, and no connection has to break.
FairSpec == Spec /\ WF_vars(Proceed) /\ WF_vars(BackendReplies)

-----------------------------------------------------------------------------
(* Properties *)

\* No request reaches backends twice or out of the order of the client, whatever
\* the pieces in which it arrived. What reaches them is a request that the client
\* has sent, all of it, or that with a URI or header cut to its 255 bytes; only
\* when the client sends ahead may the rest of one request, with the head of the
\* next, be taken for a request that nobody sent.
ForwardedAsSent ==
  /\ \A i, j \in DOMAIN forwarded : i < j => forwarded[i].of < forwarded[j].of
  /\ \A i \in DOMAIN forwarded :
       \/ forwarded[i].as = "mangled" /\ pipelined
       \/ /\ \A k \in DOMAIN stream : stream[k].of = forwarded[i].of => k <= read
          /\ \/ forwarded[i].as = "sent"
             \/ /\ forwarded[i].as = "cut"
                /\ \E k \in DOMAIN stream :
                     stream[k].of = forwarded[i].of /\ stream[k].fault = "long"

\* A client that waits for each answer gets exactly one per request, in order.
\* (One that sends ahead does not: what came with the end of a request is
\* dropped with it.)
AnsweredInOrder ==
  ~pipelined => /\ \A k \in DOMAIN answers : answers[k].to = k
                /\ pc = "reading" /\ first = read + 1 /\ ~gone =>
                     \A k \in 1 .. read : stream[k].of <= Len(answers)

\* A backend's answer is passed on with its status and its body: no unit lost,
\* repeated or taken from the head at the boundaries of the pieces. The body is
\* cut short only when the connection broke or memory ran out, of which the
\* client is not told.
BodiesAreExact ==
  pc = "answering" /\ parseOk =>
    LET whole == [i \in 1 .. Shape.body |-> Shape.head + i]
    IN /\ status = Shape.status
       /\ Len(body) <= Shape.body /\ body = SubSeq(whole, 1, Len(body))
       /\ ~flawed => body = whole

\* What is copied to responseBody fits in it, however the pieces come, and no
\* more than half of it is left unused.
BodyFits == Len(body) <= capacity /\ capacity <= 2 * Len(body)

\* Between requests no connection to a backend is open, on whatever path the
\* one before has ended.
SocketsClosed ==
  sockets = IF pc \in {"waiting", "sending", "awaiting", "receiving"} THEN 1 ELSE 0

\* The connection does what Exchange promises, whatever fails and even when the
\* client sends ahead: heads of requests have their turn in order, and none of
\* them comes back. A client that gets a 502 may send the request again, because
\* no backend has got the whole of it; the other statuses do not tell that.
Promise == INSTANCE Exchange
  WITH turn <- current, forwarded <- [i \in DOMAIN forwarded |-> forwarded[i].of],
       Requests <- RequestIds, Nobody <- 0, BadGateway <- 502
ExchangesAsPromised == Promise!Spec

\* The end of request r was sent.
SentWhole(r) ==
  \E k \in 1 .. sent :
    stream[k].of = r /\ (k = Len(stream) \/ stream[k + 1].of # r)

\* send took only a part of the request, and the worker waits for the answer of
\* a backend that waits for the rest.
Stalled == pc = "awaiting" /\ ~received

\* A request sent whole is answered, as soon as the client reads, or its
\* connection closed, unless the client sends ahead: a broken connection to the
\* backend, a lack of memory or a refusal is no excuse. The one way to wait for
\* ever is the request of which send took only a part.
RequestsAnswered ==
  \A r \in RequestIds :
    SentWhole(r) ~> \/ Len(answers) >= r \/ pc = "closed"
                    \/ gone \/ pipelined
                    \/ current = r /\ pc \in {"answering", "rejecting"}
                    \/ current = r /\ Stalled
=============================================================================
