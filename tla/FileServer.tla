----------------------------- MODULE FileServer -----------------------------
(***************************************************************************)
(* The origin server.  Its main loop gives each connection a thread, which *)
(* reads one request, looks up or extends one file, and answers.  A POST   *)
(* to a directory goes to a file whose name is generated; the lock         *)
(* _writeMutex is held from the choice of the name to the end of the       *)
(* write.  A POST to a file takes no lock.                                 *)
(*                                                                         *)
(* A body fits the buffer of its FILE (the whole request fits 4096 bytes), *)
(* so it reaches the file in one write when the stream is flushed.  The    *)
(* result of the flush is not looked at.  A POST for which no name can be  *)
(* composed is answered, but the lock is not given back.  A process that   *)
(* dies, of a send to a closed connection or of a client that leaves       *)
(* before its request is complete, takes all its threads with it and is    *)
(* started again.                                                          *)
(***************************************************************************)
EXTENDS Integers, Sequences, Functions, FiniteSets

CONSTANTS
  Connections,      \* each brings one request
  Requests,         \* Requests[c]: the requests the client of c may send
  Files,            \* paths of regular files whose directory exists
  Directories,      \* paths of directories
  Index,            \* Index[d]: index.html in d
  Generated,        \* the names GenerateFileName may choose
  LongPaths,        \* paths that do not fit MAX_PATH_LEN behind the root
  Failures,         \* what may fail: a subset of FailureKinds
  Nobody, Nothing

FailureKinds == {"thread", "alloc", "open", "full", "name", "leave", "break"}
Methods == {"GET", "HEAD", "POST", "OTHER"}

ASSUME FileServerConstants ==
  /\ Index \in [Directories -> Files] /\ Generated \subseteq Files
  /\ Directories \cap Files = {} /\ LongPaths \cap (Files \cup Directories) = {}
  /\ \A c \in Connections : \A r \in Requests[c] :
       r.method \in Methods /\ r.length \in Nat /\ r # Nothing
  /\ Failures \subseteq FailureKinds
  /\ Nobody \notin Connections /\ Nothing \notin Files
  /\ Nothing \notin Seq([by : Connections \cup {Nobody}, whole : BOOLEAN])

VARIABLES
  stored,           \* the files that exist
  content,          \* the bodies of which each file consists
  _writeMutex,      \* the thread that holds it, or Nobody
  pc,               \* position of the thread of each connection
  request,          \* its request, or Nothing
  file,             \* the file its request is about (realPath), or Nothing
  isNew,            \* whether WriteFile found no file
  size,             \* st_size, in bodies
  status, body,     \* its answer; status 0 before there is one
  delivered,        \* the connections whose client has received the answer
  cut,              \* history: requests whose flush has failed
  known             \* history: the answers delivered before each request came

files == <<stored, content>>
locals == <<request, file, isNew, size>>
answer == <<status, body>>
history == <<delivered, cut, known>>
vars == <<files, _writeMutex, pc, locals, answer, history>>

Blocks == [by : Connections \cup {Nobody}, whole : BOOLEAN]
Block(c, whole) == [by |-> c, whole |-> whole]
Initial == <<Block(Nobody, TRUE)>>

Locked == {"naming", "looking", "opening", "writing"}
Ended == {"idle", "leaked", "over"}
Positions == Ended \cup Locked \cup {"reading", "ignored", "handling", "locking",
                                     "loading", "answering"}

\* Threads inside WriteFile for a directory are those that hold the lock.
ToDirectory(c) == request[c] # Nothing /\ request[c].path \in Directories
HoldsLock(c) == pc[c] \in Locked /\ ToDirectory(c)

\* The thread has left WriteFile's region with the lock: it has no name to use.
LeftLocked(c) == pc[c] \in {"answering", "over"} /\ ToDirectory(c) /\ file[c] = Nothing

TypeOK ==
  /\ stored \subseteq Files /\ content \in [Files -> Seq(Blocks)]
  /\ \A f \in Files \ stored : content[f] = <<>>
  /\ pc \in [Connections -> Positions]
  /\ DOMAIN request = Connections
  /\ \A c \in Connections : request[c] \in Requests[c] \cup {Nothing}
  /\ file \in [Connections -> Files \cup {Nothing}]
  /\ isNew \in [Connections -> BOOLEAN] /\ size \in [Connections -> Nat]
  /\ status \in [Connections -> {0, 200, 201, 400, 404, 411, 414, 500, 501}]
  /\ body \in [Connections -> Seq(Blocks)]
  /\ delivered \subseteq Connections /\ cut \subseteq Connections
  /\ known \in [Connections -> SUBSET Connections]
  /\ _writeMutex \in Connections \cup {Nobody}
  /\ \A c \in Connections :
       /\ HoldsLock(c) => _writeMutex = c
       /\ _writeMutex = c => HoldsLock(c) \/ LeftLocked(c)

Init ==
  /\ stored \in SUBSET (Files \ Generated)
  /\ content = [f \in Files |-> IF f \in stored THEN Initial ELSE <<>>]
  /\ _writeMutex = Nobody
  /\ pc = [c \in Connections |-> "idle"]
  /\ request = [c \in Connections |-> Nothing]
  /\ file = [c \in Connections |-> Nothing]
  /\ isNew = [c \in Connections |-> FALSE]
  /\ size = [c \in Connections |-> 0]
  /\ status = [c \in Connections |-> 0] /\ body = [c \in Connections |-> <<>>]
  /\ delivered = {} /\ cut = {} /\ known = [c \in Connections |-> {}]

Goto(c, label) == pc' = [pc EXCEPT ![c] = label]

\* All threads end with their process; the files remain.
Die == /\ pc' = [c \in Connections |-> IF pc[c] \in {"idle", "over"} THEN pc[c] ELSE "over"]
       /\ _writeMutex' = Nobody
       /\ UNCHANGED <<files, locals, answer, history>>

-----------------------------------------------------------------------------
(* main, WorkerRun and RecvRequest *)

\* A connection for which there is no thread is neither served nor closed.
Accept(c) ==
  /\ pc[c] = "idle"
  /\ \/ Goto(c, "reading")
     \/ "thread" \in Failures /\ Goto(c, "leaked")
  /\ UNCHANGED <<files, _writeMutex, locals, answer, history>>

\* A request that cannot be parsed is dropped without an answer.
Malformed(c) ==
  /\ pc[c] = "reading"
  /\ Goto(c, "ignored")
  /\ UNCHANGED <<files, _writeMutex, locals, answer, history>>

Receive(c, r) ==
  /\ pc[c] \in {"reading", "ignored"}
  /\ request' = [request EXCEPT ![c] = r]
  /\ known' = [known EXCEPT ![c] = delivered]
  /\ Goto(c, "handling")
  /\ UNCHANGED <<files, _writeMutex, file, isNew, size, answer, delivered, cut>>

\* RecvRequest falls off its end: WorkerRun is handed what recv returned, 0 or
\* -1, as a pointer, and reads the request it points to.
ClientLeaves(c) ==
  /\ "leave" \in Failures
  /\ pc[c] \in {"reading", "ignored"}
  /\ Die

\* The answer is s, or 500 when there is no memory for it.
Respond(c, s, b) ==
  /\ Goto(c, "answering")
  /\ \/ status' = [status EXCEPT ![c] = s] /\ body' = [body EXCEPT ![c] = b]
     \/ /\ "alloc" \in Failures
        /\ status' = [status EXCEPT ![c] = 500] /\ UNCHANGED body

ResponseError(c, s) == Respond(c, s, <<>>)

\* SendHTTPResponse, and the end of the thread.
Deliver(c) ==
  /\ pc[c] = "answering"
  /\ Goto(c, "over")
  /\ delivered' = delivered \cup {c}
  /\ UNCHANGED <<files, _writeMutex, locals, answer, cut, known>>

\* The connection breaks: a send fails, or raises SIGPIPE.
DeliveryFails(c) ==
  /\ "break" \in Failures
  /\ pc[c] = "answering"
  /\ \/ Die
     \/ Goto(c, "over") /\ UNCHANGED <<files, _writeMutex, locals, answer, history>>

-----------------------------------------------------------------------------
(* ProcessRequest: GET and HEAD *)

Method(c) == request[c].method
Path(c) == request[c].path
HasHeader(c, key) == key \in request[c].headers

\* BuildRealPath
TooLong(path) == path \in LongPaths

\* 501 for a method without handler; 400 and 411 for a POST without headers.
Refusal(c) ==
  CASE Method(c) = "OTHER" -> 501
    [] Method(c) = "POST" /\ ~HasHeader(c, "Content-Type") -> 400
    [] Method(c) = "POST" /\ ~HasHeader(c, "Content-Length") -> 411
    [] TooLong(Path(c)) -> 414
    [] OTHER -> 0

Refuse(c) ==
  /\ pc[c] = "handling" /\ Refusal(c) # 0
  /\ ResponseError(c, Refusal(c))
  /\ UNCHANGED <<files, _writeMutex, locals, history>>

\* HandleDirectory: the file a GET or HEAD of this path reads.
Resource(path) == IF path \in Directories THEN Index[path] ELSE path

NotFound(c) ==
  /\ pc[c] = "handling" /\ Refusal(c) = 0
  /\ Method(c) # "POST"
  /\ Resource(Path(c)) \notin stored
  /\ ResponseError(c, 404)
  /\ UNCHANGED <<files, _writeMutex, locals, history>>

\* GetFileMetadata for a GET: the size is taken here, the content later.
StatForGet(c) ==
  /\ pc[c] = "handling" /\ Refusal(c) = 0
  /\ Method(c) = "GET" /\ Resource(Path(c)) \in stored
  /\ file' = [file EXCEPT ![c] = Resource(Path(c))]
  /\ size' = [size EXCEPT ![c] = Len(content[Resource(Path(c))])]
  /\ Goto(c, "loading")
  /\ UNCHANGED <<files, _writeMutex, request, isNew, answer, history>>

ResponseHead(c) == Respond(c, 200, <<>>)

FileHead(c) ==
  /\ pc[c] = "handling" /\ Refusal(c) = 0
  /\ Method(c) = "HEAD" /\ Resource(Path(c)) \in stored
  /\ ResponseHead(c)
  /\ UNCHANGED <<files, _writeMutex, locals, history>>

Fault_ReadsToEnd(c) == content[file[c]]

\* fread: as many bytes as stat has announced.
ReadBytes(c) == SubSeq(content[file[c]], 1, size[c])

\* A GET of an empty file is answered with 500.
ResponseGet(c) ==
  IF size[c] = 0 THEN ResponseError(c, 500) ELSE Respond(c, 200, ReadBytes(c))

\* fopen and malloc may fail; fread may not find all that was announced.
ReadFile(c) ==
  /\ pc[c] = "loading"
  /\ \/ size[c] <= Len(content[file[c]]) /\ ResponseGet(c)
     \/ /\ size[c] > Len(content[file[c]]) \/ "open" \in Failures
        /\ ResponseError(c, 500)
  /\ UNCHANGED <<files, _writeMutex, locals, history>>

-----------------------------------------------------------------------------
(* FilePost and WriteFile *)

IsPost(c) == pc[c] = "handling" /\ Method(c) = "POST" /\ Refusal(c) = 0

PostToDirectory(c) ==
  /\ IsPost(c) /\ Path(c) \in Directories
  /\ Goto(c, "locking")
  /\ UNCHANGED <<files, _writeMutex, locals, answer, history>>

\* The directory of the file exists.
PostToFile(c) ==
  /\ IsPost(c) /\ Path(c) \in Files
  /\ file' = [file EXCEPT ![c] = Path(c)]
  /\ Goto(c, "looking")
  /\ UNCHANGED <<files, _writeMutex, request, isNew, size, answer, history>>

\* There is no directory for the file, or no memory for the FileResult.
PostFails(c) ==
  /\ IsPost(c)
  /\ \/ Path(c) \notin Files \cup Directories /\ ResponseError(c, 404)
     \/ "alloc" \in Failures /\ ResponseError(c, 500)
  /\ UNCHANGED <<files, _writeMutex, locals, history>>

Fault_NoLock(c) == _writeMutex \in Connections \cup {Nobody}

LockIsFree(c) == _writeMutex = Nobody

Lock(c) ==
  /\ pc[c] = "locking"
  /\ LockIsFree(c)
  /\ _writeMutex' = c
  /\ Goto(c, "naming")
  /\ UNCHANGED <<files, locals, answer, history>>

\* Seconds, nanoseconds and a byte from rand: two names may be the same.
GenerateFileName(c, name) ==
  /\ pc[c] = "naming"
  /\ file' = [file EXCEPT ![c] = name]
  /\ Goto(c, "looking")
  /\ UNCHANGED <<files, _writeMutex, request, isNew, size, answer, history>>

\* snprintf fails, or the name does not fit (MAX_PATH_LEN leaves ample room):
\* FilePost returns at once and keeps the lock.
NamingFails(c) ==
  /\ "name" \in Failures
  /\ pc[c] = "naming"
  /\ ResponseError(c, 500)
  /\ UNCHANGED <<files, _writeMutex, locals, history>>

LookUp(c) ==
  /\ pc[c] = "looking"
  /\ isNew' = [isNew EXCEPT ![c] = file[c] \notin stored]
  /\ Goto(c, "opening")
  /\ UNCHANGED <<files, _writeMutex, request, file, size, answer, history>>

Fault_Truncated(c) == [content EXCEPT ![file[c]] = <<>>]

\* Mode "ab" keeps what the file holds.
Opened(c) == content

Fault_KeepsMutex(c) == UNCHANGED _writeMutex

UnlockOnError(c) == _writeMutex' = IF _writeMutex = c THEN Nobody ELSE _writeMutex

Open(c) ==
  /\ pc[c] = "opening"
  /\ \/ /\ stored' = stored \cup {file[c]} /\ content' = Opened(c)
        /\ Goto(c, "writing")
        /\ UNCHANGED <<_writeMutex, answer>>
     \/ /\ "open" \in Failures
        /\ UnlockOnError(c)
        /\ ResponseError(c, 500)
        /\ UNCHANGED files
  /\ UNCHANGED <<locals, history>>

Fault_WritesTwice(c) ==
  [content EXCEPT ![file[c]] = @ \o <<Block(c, TRUE), Block(c, TRUE)>>]

Appended(c) == [content EXCEPT ![file[c]] = Append(@, Block(c, TRUE))]

\* fwrite has put the body in the buffer; fflush writes it out, or not all of it.
Flush(c) ==
  \/ /\ request[c].length > 0 /\ content' = Appended(c)
     /\ UNCHANGED cut
  \/ request[c].length = 0 /\ UNCHANGED <<content, cut>>
  \/ /\ "full" \in Failures /\ request[c].length > 0
     /\ \/ content' = [content EXCEPT ![file[c]] = Append(@, Block(c, FALSE))]
        \/ UNCHANGED content
     /\ cut' = cut \cup {c}

Unlock(c) == _writeMutex' = IF _writeMutex = c THEN Nobody ELSE _writeMutex

ResponsePost(c) == Respond(c, IF isNew[c] THEN 201 ELSE 200, <<>>)

\* The rest of WriteFile, the unlock, and the answer.
Write(c) ==
  /\ pc[c] = "writing"
  /\ Flush(c)
  /\ Unlock(c)
  /\ ResponsePost(c)
  /\ UNCHANGED <<stored, locals, delivered, known>>

-----------------------------------------------------------------------------

\* What a thread does with a request until it has an answer.
Handle(c) ==
  \/ Refuse(c) \/ NotFound(c) \/ StatForGet(c) \/ FileHead(c) \/ ReadFile(c)
  \/ PostToDirectory(c) \/ PostToFile(c) \/ PostFails(c)
  \/ Lock(c) \/ (\E name \in Generated : GenerateFileName(c, name))
  \/ NamingFails(c) \/ LookUp(c) \/ Open(c) \/ Write(c)

Next ==
  \E c \in Connections :
    \/ Accept(c) \/ Malformed(c) \/ (\E r \in Requests[c] : Receive(c, r))
    \/ ClientLeaves(c) \/ Handle(c) \/ Deliver(c) \/ DeliveryFails(c)

Spec == Init /\ [][Next]_vars

\* Threads that have a request are scheduled until they have an answer. What
\* clients do is up to them: send may wait for ever for one that does not read.
FairSpec == Spec /\ \A c \in Connections : WF_vars(Handle(c))

-----------------------------------------------------------------------------
(* Properties *)

Succeeded(c) == c \in delivered /\ Method(c) = "POST" /\ status[c] \in {200, 201}
Count(c, f) == Cardinality({i \in DOMAIN content[f] : content[f][i].by = c})

\* A request leaves its body in no file but its own and there at most once,
\* and a POST whose success was reported has left it there whole, unless the
\* flush failed, which the server does not notice.
SuccessIsStored ==
  \A c \in Connections :
    /\ \A f \in Files : Count(c, f) <= (IF f = file[c] THEN 1 ELSE 0)
    /\ Succeeded(c) /\ request[c].length > 0 /\ c \notin cut
       => Block(c, TRUE) \in Range(content[file[c]])

\* A GET sees every POST to its file that was answered before the GET was
\* sent, and all that an earlier GET has seen, in the same order, although it
\* takes the size and the content at different moments and without the lock.
\* In particular a file that was created before is not reported as missing.
ReadsSeeAnswers ==
  \A c \in delivered : Method(c) = "GET" /\ status[c] \in {200, 404} =>
    \A k \in known[c] : file[k] = Resource(Path(c)) =>
      /\ Succeeded(k) => /\ status[c] = 200
                         /\ request[k].length > 0 /\ k \notin cut
                            => Block(k, TRUE) \in Range(body[c])
      /\ Method(k) = "GET" /\ status[k] = 200 =>
           /\ status[c] = 200
           /\ body[k] = SubSeq(body[c], 1, Len(body[k]))

\* Two POSTs to directories never both report that they created one file: the
\* lock makes the choice of the name and the creation one step, even when the
\* clock and rand give the same name twice. (Two POSTs to the file itself may.)
CreatedByOne ==
  \A c, d \in Connections :
    /\ status[c] = 201 /\ status[d] = 201
    /\ ToDirectory(c) /\ ToDirectory(d)
    /\ file[c] = file[d]
    => c = d

\* Every request that was received is answered or ends with its process, also
\* while threads do not succeed or wait in send for ever: nobody waits for ever
\* for the lock, unless a POST for which there was no name has kept it.
LockIsKept == \E c \in Connections : _writeMutex = c /\ LeftLocked(c)
RequestsEnd ==
  \A c \in Connections :
    pc[c] \notin Ended \cup {"reading", "ignored"}
      ~> pc[c] \in {"answering", "over"} \/ LockIsKept

\* The files and the reads are those of FileStore: a read takes effect when
\* its size is taken, a POST when its stream is flushed.
Seen == [c \in Connections |->
           IF pc[c] = "loading" THEN ReadBytes(c)
           ELSE IF file[c] # Nothing /\ Method(c) = "GET" /\ status[c] = 200
                THEN body[c] ELSE Nothing]

Store == INSTANCE FileStore WITH Writers <- Connections, Original <- Nobody,
                                 seen <- Seen
FilesAsPromised == Store!Spec
=============================================================================
