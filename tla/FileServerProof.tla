-------------------------- MODULE FileServerProof --------------------------
(***************************************************************************)
(* Proofs about FileServer for any set of connections, requests, files and *)
(* directories and any mix of failures.                                    *)
(***************************************************************************)
EXTENDS FileServer, FiniteSetTheorems, TLAPS

-----------------------------------------------------------------------------
(* Types, the lock, and what the position of a thread says of its variables *)

Waiting == {"idle", "leaked", "reading", "ignored"}
Posting == Locked \cup {"locking"}
Busy == Posting \cup {"handling", "loading", "answering"}
Statuses == {0, 200, 201, 400, 404, 411, 414, 500, 501}

PositionInv(c) ==
  /\ pc[c] \in Waiting => request[c] = Nothing
  /\ pc[c] \in Waiting \cup {"handling", "locking", "naming"} => file[c] = Nothing
  /\ pc[c] \in Busy => request[c] # Nothing
  /\ pc[c] \in Posting => Method(c) = "POST"
  /\ pc[c] \in {"locking", "naming"} => ToDirectory(c)
  /\ pc[c] \in {"looking", "opening", "writing", "loading"} => file[c] \in Files
  /\ pc[c] = "loading" => Method(c) = "GET" /\ file[c] = Resource(Path(c))
  /\ pc[c] \notin {"answering", "over"} => status[c] = 0
  /\ pc[c] = "answering" => status[c] # 0
  /\ c \in delivered => pc[c] = "over" /\ status[c] # 0 /\ request[c] # Nothing

TypeInv == TypeOK /\ \A c \in Connections : PositionInv(c)

\* What a thread does by itself: everything but the death of the process.
Breaks(c) ==
  /\ pc[c] = "answering" /\ Goto(c, "over")
  /\ UNCHANGED <<files, _writeMutex, locals, answer, history>>

Reads(c) == \/ Refuse(c) \/ NotFound(c) \/ StatForGet(c) \/ FileHead(c) \/ ReadFile(c)
            \/ PostFails(c) \/ NamingFails(c)
Posts(c) == \/ PostToDirectory(c) \/ PostToFile(c)
            \/ Lock(c) \/ (\E name \in Generated : GenerateFileName(c, name))
            \/ LookUp(c) \/ Open(c) \/ Write(c)
Talks(c) == \/ Accept(c) \/ Malformed(c) \/ (\E r \in Requests[c] : Receive(c, r))
            \/ Deliver(c) \/ Breaks(c)
Step(c) == Talks(c) \/ Reads(c) \/ Posts(c)

LEMMA StepOrDie ==
  ASSUME Next
  PROVE  Die \/ \E c \in Connections : Step(c)
BY DEF Next, Handle, ClientLeaves, DeliveryFails, Breaks, Step, Talks, Reads, Posts

\* The variables of the other threads.
Kept(d) ==
  /\ pc'[d] = pc[d] /\ request'[d] = request[d] /\ file'[d] = file[d]
  /\ isNew'[d] = isNew[d] /\ size'[d] = size[d]
  /\ status'[d] = status[d] /\ body'[d] = body[d] /\ known'[d] = known[d]
  /\ (d \in delivered' <=> d \in delivered) /\ (d \in cut' <=> d \in cut)

Functional ==
  /\ DOMAIN pc = Connections /\ DOMAIN request = Connections /\ DOMAIN file = Connections
  /\ DOMAIN isNew = Connections /\ DOMAIN size = Connections
  /\ DOMAIN status = Connections /\ DOMAIN body = Connections /\ DOMAIN known = Connections

LEMMA AreFunctions == TypeOK => Functional
BY DEF TypeOK, Functional

LEMMA OthersKept ==
  ASSUME TypeOK, NEW c \in Connections, Step(c), NEW d \in Connections, d # c
  PROVE  Kept(d)
<1>a. Functional BY AreFunctions
<1>1. CASE Talks(c)
  BY <1>1, <1>a
  DEF Functional, Kept, Talks, Accept, Malformed, Receive, Deliver, Breaks, Goto,
      locals, answer, history
<1>2. CASE Reads(c)
  BY <1>2, <1>a
  DEF Functional, Kept, Reads, Refuse, NotFound, StatForGet, FileHead, ReadFile, PostFails,
      NamingFails, Goto, Respond, ResponseError, ResponseHead, ResponseGet, locals, answer,
      history
<1>3. CASE PostToDirectory(c) \/ PostToFile(c) \/ Lock(c) \/ LookUp(c)
           \/ \E name \in Generated : GenerateFileName(c, name)
  BY <1>3, <1>a
  DEF Functional, Kept, PostToDirectory, PostToFile, Lock, GenerateFileName, LookUp,
      Goto, locals, answer, history
<1>4. CASE Open(c)
  BY <1>4, <1>a
  DEF Functional, Kept, Open, Goto, Respond, ResponseError, locals, answer, history
<1>5. CASE Write(c)
  <2>1. d \in cut' <=> d \in cut BY <1>5 DEF Write, Flush
  <2>2. QED BY <1>5, <1>a, <2>1 DEF Functional, Kept, Write, ResponsePost, Respond, Goto, locals
<1>6. QED BY <1>1, <1>2, <1>3, <1>4, <1>5 DEF Step, Posts

LEMMA GotoParts ==
  ASSUME TypeOK, NEW c \in Connections, NEW label \in Positions, Goto(c, label)
  PROVE  pc' \in [Connections -> Positions] /\ pc'[c] = label
BY DEF TypeOK, Goto

LEMMA RespondParts ==
  ASSUME TypeOK, NEW c \in Connections, NEW s \in Statuses, NEW b \in Seq(Blocks),
         Respond(c, s, b)
  PROVE  /\ pc' \in [Connections -> Positions] /\ pc'[c] = "answering"
         /\ status' \in [Connections -> Statuses] /\ body' \in [Connections -> Seq(Blocks)]
         /\ \/ status'[c] = s /\ body'[c] = b
            \/ status'[c] = 500 /\ body'[c] = body[c]
<1>1. Goto(c, "answering") BY DEF Respond
<1>2. "answering" \in Positions BY DEF Positions
<1>3. pc' \in [Connections -> Positions] /\ pc'[c] = "answering" BY <1>1, <1>2, GotoParts
<1>4. status \in [Connections -> Statuses] /\ body \in [Connections -> Seq(Blocks)]
  BY DEF TypeOK, Statuses
<1>5. 500 \in Statuses BY DEF Statuses
<1>6. CASE status' = [status EXCEPT ![c] = s] /\ body' = [body EXCEPT ![c] = b]
  BY <1>3, <1>4, <1>6
<1>7. CASE status' = [status EXCEPT ![c] = 500] /\ UNCHANGED body
  BY <1>3, <1>4, <1>5, <1>7
<1>8. QED BY <1>6, <1>7 DEF Respond

\* The conjuncts of TypeOK that are not about the lock.
Types ==
  /\ stored \subseteq Files /\ content \in [Files -> Seq(Blocks)]
  /\ \A f \in Files \ stored : content[f] = <<>>
  /\ pc \in [Connections -> Positions]
  /\ DOMAIN request = Connections
  /\ \A c \in Connections : request[c] \in Requests[c] \cup {Nothing}
  /\ file \in [Connections -> Files \cup {Nothing}]
  /\ isNew \in [Connections -> BOOLEAN] /\ size \in [Connections -> Nat]
  /\ status \in [Connections -> Statuses] /\ body \in [Connections -> Seq(Blocks)]
  /\ delivered \subseteq Connections /\ cut \subseteq Connections
  /\ known \in [Connections -> SUBSET Connections]
  /\ _writeMutex \in Connections \cup {Nobody}

LockOf(c) ==
  /\ HoldsLock(c) => _writeMutex = c
  /\ _writeMutex = c => HoldsLock(c) \/ LeftLocked(c)

LockInv == \A c \in Connections : LockOf(c)

LEMMA TypesAndLock == TypeOK <=> Types /\ LockInv
BY DEF TypeOK, Types, LockInv, LockOf, Statuses

\* A thread has the lock as long as it is inside the locked region, afterwards
\* only if it had no name to use, and nobody takes it from another.
KeepsLock(c) ==
  /\ LockOf(c)'
  /\ \A d \in Connections \ {c} : _writeMutex' = d <=> _writeMutex = d

LEMMA TalksTypes ==
  ASSUME TypeInv, NEW c \in Connections, Talks(c)
  PROVE  Types' /\ PositionInv(c)' /\ KeepsLock(c)
<1>a. TypeOK /\ Types /\ LockInv /\ PositionInv(c) BY TypesAndLock DEF TypeInv
<1>b. Functional BY <1>a, AreFunctions
<1>1. CASE Accept(c) \/ Malformed(c)
  <2>1. PICK label \in {"reading", "leaked", "ignored"} : Goto(c, label)
    BY <1>1 DEF Accept, Malformed
  <2>2. pc' \in [Connections -> Positions] /\ pc'[c] = label
    BY <1>a, <2>1, GotoParts DEF Positions, Ended
  <2>3. pc[c] \in Waiting /\ UNCHANGED <<files, _writeMutex, locals, answer, history>>
    BY <1>1 DEF Accept, Malformed, Waiting
  <2>4. Types' BY <1>a, <2>2, <2>3 DEF Types, files, locals, answer, history
  <2>5. PositionInv(c)'
    BY <1>a, <2>1, <2>2, <2>3
    DEF PositionInv, Waiting, Busy, Posting, Locked, locals, answer, history
  <2>6. KeepsLock(c)
    BY <1>a, <2>1, <2>2, <2>3 DEF KeepsLock, LockInv, LockOf, LeftLocked, HoldsLock,
      Locked, Waiting, ToDirectory, locals
  <2>7. QED BY <2>4, <2>5, <2>6
<1>2. ASSUME NEW r \in Requests[c], Receive(c, r)
      PROVE  Types' /\ PositionInv(c)' /\ KeepsLock(c)
  <2>1. pc' \in [Connections -> Positions] /\ pc'[c] = "handling"
    BY <1>2, <1>a, GotoParts DEF Receive, Positions
  <2>2. /\ pc[c] \in {"reading", "ignored"}
        /\ request' = [request EXCEPT ![c] = r] /\ known' = [known EXCEPT ![c] = delivered]
        /\ UNCHANGED <<files, _writeMutex, file, isNew, size, answer, delivered, cut>>
    BY <1>2 DEF Receive
  <2>3. DOMAIN request' = Connections /\ request'[c] = r
        /\ \A d \in Connections : request'[d] \in Requests[d] \cup {Nothing}
    BY <1>a, <2>2 DEF Types
  <2>4. known' \in [Connections -> SUBSET Connections] BY <1>a, <2>2 DEF Types
  <2>5. Types' BY <1>a, <2>1, <2>2, <2>3, <2>4 DEF Types, files, answer
  <2>6. r # Nothing BY FileServerConstants
  <2>7. PositionInv(c)'
    BY <1>a, <2>1, <2>2, <2>3, <2>6 DEF PositionInv, Waiting, Busy, Posting, Locked, answer
  <2>8. KeepsLock(c)
    BY <1>a, <2>1, <2>2 DEF KeepsLock, LockInv, LockOf, LeftLocked, HoldsLock, Locked
  <2>9. QED BY <2>5, <2>7, <2>8
<1>3. CASE Deliver(c) \/ Breaks(c)
  <2>1. /\ pc[c] = "answering" /\ Goto(c, "over")
        /\ delivered' \subseteq delivered \cup {c}
        /\ UNCHANGED <<files, _writeMutex, locals, answer, cut, known>>
    BY <1>3 DEF Deliver, Breaks, history
  <2>2. pc' \in [Connections -> Positions] /\ pc'[c] = "over"
    BY <1>a, <2>1, GotoParts DEF Positions, Ended
  <2>3. Types' BY <1>a, <2>1, <2>2 DEF Types, files, locals, answer
  <2>4. PositionInv(c)'
    BY <1>a, <2>1, <2>2 DEF PositionInv, Waiting, Busy, Posting, Locked, locals, answer
  <2>5. KeepsLock(c)
    BY <1>a, <2>1, <2>2 DEF KeepsLock, LockInv, LockOf, LeftLocked, HoldsLock, Locked,
      ToDirectory, locals
  <2>6. QED BY <2>3, <2>4, <2>5
<1>4. QED BY <1>1, <1>2, <1>3 DEF Talks

LEMMA ReadBytesType ==
  ASSUME TypeOK, NEW c \in Connections, file[c] \in Files, size[c] <= Len(content[file[c]])
  PROVE  ReadBytes(c) \in Seq(Blocks) /\ Len(ReadBytes(c)) = size[c]
<1>1. content[file[c]] \in Seq(Blocks) /\ size[c] \in Nat BY DEF TypeOK
<1>2. QED BY <1>1 DEF ReadBytes

\* An answer that is given without touching the files or the lock.
LEMMA RespondTypes ==
  ASSUME TypeInv, NEW c \in Connections, NEW s \in Statuses \ {0}, NEW b \in Seq(Blocks),
         pc[c] \in {"handling", "loading", "naming"}, Respond(c, s, b),
         UNCHANGED <<files, _writeMutex, locals, history>>
  PROVE  Types' /\ PositionInv(c)' /\ KeepsLock(c)
<1>a. TypeOK /\ Types /\ LockInv /\ PositionInv(c) BY TypesAndLock DEF TypeInv
<1>1. /\ pc' \in [Connections -> Positions] /\ pc'[c] = "answering"
      /\ status' \in [Connections -> Statuses] /\ body' \in [Connections -> Seq(Blocks)]
      /\ status'[c] # 0
  BY <1>a, RespondParts
<1>2. Types' BY <1>a, <1>1 DEF Types, files, locals, history
<1>3. PositionInv(c)'
  BY <1>a, <1>1 DEF PositionInv, Waiting, Busy, Posting, Locked, locals, history
<1>4. KeepsLock(c)
  BY <1>a, <1>1
  DEF KeepsLock, LockInv, LockOf, LeftLocked, HoldsLock, Locked, PositionInv, ToDirectory,
      Waiting, locals
<1>5. QED BY <1>2, <1>3, <1>4

LEMMA RefusalType ==
  ASSUME NEW c \in Connections
  PROVE  Refusal(c) \in {0, 400, 411, 414, 501}
BY DEF Refusal

LEMMA EmptyBody == <<>> \in Seq(Blocks)
OBVIOUS

\* The file that a GET or HEAD is about, when it exists.
LEMMA ResourceIsFile ==
  ASSUME TypeOK, NEW c \in Connections, Resource(Path(c)) \in stored
  PROVE  Resource(Path(c)) \in Files
BY DEF TypeOK

LEMMA ReadsTypes ==
  ASSUME TypeInv, NEW c \in Connections, Reads(c)
  PROVE  Types' /\ PositionInv(c)' /\ KeepsLock(c)
<1>a. TypeOK /\ Types /\ LockInv /\ PositionInv(c) BY TypesAndLock DEF TypeInv
<1>1. CASE Refuse(c) \/ NotFound(c) \/ FileHead(c) \/ PostFails(c)
  <2>1. PICK s \in {Refusal(c), 404, 200, 500} : s # 0 /\ Respond(c, s, <<>>)
    BY <1>1 DEF Refuse, NotFound, FileHead, PostFails, ResponseError, ResponseHead
  <2>2. s \in Statuses \ {0} BY <2>1, RefusalType DEF Statuses
  <2>3. pc[c] = "handling" /\ UNCHANGED <<files, _writeMutex, locals, history>>
    BY <1>1 DEF Refuse, NotFound, FileHead, PostFails, NamingFails, IsPost
  <2>4. QED BY <2>1, <2>2, <2>3, RespondTypes, EmptyBody
<1>2. CASE StatForGet(c)
  <2> DEFINE f == Resource(Path(c))
  <2>1. /\ pc[c] = "handling" /\ Method(c) = "GET" /\ f \in stored /\ f \in Files
        /\ file' = [file EXCEPT ![c] = f] /\ size' = [size EXCEPT ![c] = Len(content[f])]
        /\ Goto(c, "loading")
        /\ UNCHANGED <<files, _writeMutex, request, isNew, answer, history>>
    BY <1>2, <1>a, ResourceIsFile DEF StatForGet
  <2>2. pc' \in [Connections -> Positions] /\ pc'[c] = "loading"
    BY <1>a, <2>1, GotoParts DEF Positions
  <2>3. content[f] \in Seq(Blocks) BY <1>a, <2>1 DEF Types
  <2>4. Len(content[f]) \in Nat BY <2>3
  <2>5. /\ file' \in [Connections -> Files \cup {Nothing}] /\ file'[c] = f
        /\ size' \in [Connections -> Nat]
    BY <1>a, <2>1, <2>4 DEF Types
  <2>6. Types' BY <1>a, <2>1, <2>2, <2>5 DEF Types, files, answer, history
  <2>7. PositionInv(c)'
    BY <1>a, <2>1, <2>2, <2>5
    DEF PositionInv, Waiting, Busy, Posting, Locked, answer, history, Method, Path, Resource
  <2>8. KeepsLock(c)
    BY <1>a, <2>1, <2>2 DEF KeepsLock, LockInv, LockOf, LeftLocked, HoldsLock, Locked
  <2>9. QED BY <2>6, <2>7, <2>8
<1>3. CASE ReadFile(c)
  <2>1. pc[c] = "loading" /\ file[c] \in Files
        /\ UNCHANGED <<files, _writeMutex, locals, history>>
    BY <1>3, <1>a DEF ReadFile, PositionInv
  <2>2. CASE Respond(c, 500, <<>>)
    <3>1. 500 \in Statuses \ {0} BY DEF Statuses
    <3>2. QED BY <2>1, <2>2, <3>1, RespondTypes, EmptyBody
  <2>3. CASE size[c] <= Len(content[file[c]]) /\ Respond(c, 200, ReadBytes(c))
    BY <1>a, <2>1, <2>3, RespondTypes, ReadBytesType DEF Statuses
  <2>4. QED BY <1>3, <2>2, <2>3 DEF ReadFile, ResponseGet, ResponseError
<1>4. CASE NamingFails(c)
  <2>1. 500 \in Statuses \ {0} BY DEF Statuses
  <2>2. QED BY <1>4, <2>1, RespondTypes, EmptyBody DEF NamingFails, ResponseError
<1>5. QED BY <1>1, <1>2, <1>3, <1>4 DEF Reads

\* A step inside FilePost that does not answer.
LEMMA PostProceeds ==
  ASSUME TypeInv, NEW c \in Connections,
         NEW label \in {"locking", "looking", "opening"}, Goto(c, label),
         pc[c] \in {"handling", "naming", "looking"}, Method(c) = "POST",
         label = "locking" => pc[c] = "handling" /\ ToDirectory(c),
         HoldsLock(c) <=> label # "locking" /\ ToDirectory(c),
         label = "locking" => file' = file,
         file' \in [Connections -> Files \cup {Nothing}],
         label # "locking" => file'[c] \in Files,
         isNew' \in [Connections -> BOOLEAN],
         UNCHANGED <<files, _writeMutex, request, size, answer, history>>
  PROVE  Types' /\ PositionInv(c)' /\ KeepsLock(c)
<1>a. TypeOK /\ Types /\ LockInv /\ PositionInv(c) BY TypesAndLock DEF TypeInv
<1>1. pc' \in [Connections -> Positions] /\ pc'[c] = label
  BY <1>a, GotoParts DEF Positions, Locked
<1>2. Types' BY <1>a, <1>1 DEF Types, files, answer, history
<1>3. PositionInv(c)'
  BY <1>a, <1>1
  DEF PositionInv, Waiting, Busy, Posting, Locked, answer, history, Method, ToDirectory
<1>4. (HoldsLock(c)' <=> HoldsLock(c)) /\ ~LeftLocked(c)
  BY <1>1 DEF HoldsLock, LeftLocked, Locked, ToDirectory
<1>5. KeepsLock(c) BY <1>a, <1>4 DEF KeepsLock, LockInv, LockOf
<1>6. QED BY <1>2, <1>3, <1>5

\* The thread leaves the locked region and answers.
LEMMA PostAnswers ==
  ASSUME TypeInv, NEW c \in Connections, pc[c] \in {"opening", "writing"},
         NEW s \in Statuses \ {0}, Respond(c, s, <<>>),
         stored' = stored,
         content' \in [Files -> Seq(Blocks)],
         \A f \in Files \ stored : content'[f] = <<>>,
         cut' \subseteq Connections,
         _writeMutex' = IF _writeMutex = c THEN Nobody ELSE _writeMutex,
         UNCHANGED <<locals, delivered, known>>
  PROVE  Types' /\ PositionInv(c)' /\ KeepsLock(c)
<1>a. TypeOK /\ Types /\ LockInv /\ PositionInv(c) BY TypesAndLock DEF TypeInv
<1>1. /\ pc' \in [Connections -> Positions] /\ pc'[c] = "answering"
      /\ status' \in [Connections -> Statuses] /\ body' \in [Connections -> Seq(Blocks)]
      /\ status'[c] # 0
  <2>1. <<>> \in Seq(Blocks) /\ s \in Statuses BY EmptyBody
  <2> DEFINE b == <<>>
  <2>2. b \in Seq(Blocks) /\ Respond(c, s, b) BY <2>1
  <2> HIDE DEF b
  <2>3. QED BY <1>a, <2>1, <2>2, RespondParts
<1>2. Types' BY <1>a, <1>1 DEF Types, locals
<1>3. PositionInv(c)'
  BY <1>a, <1>1 DEF PositionInv, Waiting, Busy, Posting, Locked, locals
<1>4. KeepsLock(c)
  BY <1>a, <1>1, FileServerConstants
  DEF KeepsLock, LockInv, LockOf, LeftLocked, HoldsLock, Locked
<1>5. QED BY <1>2, <1>3, <1>4

LEMMA BlockType ==
  ASSUME NEW c \in Connections, NEW whole \in BOOLEAN
  PROVE  /\ Block(c, whole) \in Blocks
         /\ Block(c, whole).by = c /\ Block(c, whole).whole = whole
BY DEF Block, Blocks

LEMMA FlushTypes ==
  ASSUME TypeOK, NEW c \in Connections, file[c] \in stored, Flush(c)
  PROVE  /\ content' \in [Files -> Seq(Blocks)]
         /\ \A f \in Files \ stored : content'[f] = <<>>
         /\ cut' \subseteq Connections
<1>a. Types /\ file[c] \in Files BY TypesAndLock DEF Types
<1>1. \A whole \in BOOLEAN : Append(content[file[c]], Block(c, whole)) \in Seq(Blocks)
  BY <1>a, BlockType DEF Types
<1>2. CASE content' = content /\ cut' \subseteq cut \cup {c} BY <1>a, <1>2 DEF Types
<1>3. ASSUME NEW whole \in BOOLEAN, cut' \subseteq cut \cup {c},
             content' = [content EXCEPT ![file[c]] = Append(@, Block(c, whole))]
      PROVE  /\ content' \in [Files -> Seq(Blocks)]
             /\ \A f \in Files \ stored : content'[f] = <<>>
             /\ cut' \subseteq Connections
  BY <1>a, <1>1, <1>3 DEF Types
<1>4. QED BY <1>2, <1>3 DEF Flush, Appended

\* The file that is written exists.
WritingInv == \A c \in Connections : pc[c] = "writing" => file[c] \in stored

LEMMA PostsTypes ==
  ASSUME TypeInv, WritingInv, NEW c \in Connections, Posts(c)
  PROVE  Types' /\ PositionInv(c)' /\ KeepsLock(c)
<1>a. TypeOK /\ Types /\ LockInv /\ PositionInv(c) BY TypesAndLock DEF TypeInv
<1>1. CASE PostToDirectory(c)
  <2>1. /\ pc[c] = "handling" /\ Method(c) = "POST" /\ ToDirectory(c) /\ Goto(c, "locking")
        /\ UNCHANGED <<files, _writeMutex, locals, answer, history>>
    BY <1>1, <1>a
    DEF PostToDirectory, IsPost, ToDirectory, Path, PositionInv, Busy
  <2>2. ~HoldsLock(c) BY <2>1 DEF HoldsLock, Locked
  <2>3. QED BY <1>a, <2>1, <2>2, PostProceeds DEF Types, locals
<1>2. CASE PostToFile(c)
  <2>1. /\ pc[c] = "handling" /\ Method(c) = "POST" /\ ~ToDirectory(c) /\ Goto(c, "looking")
        /\ file' = [file EXCEPT ![c] = Path(c)] /\ Path(c) \in Files
        /\ UNCHANGED <<files, _writeMutex, request, isNew, size, answer, history>>
    BY <1>2, FileServerConstants DEF PostToFile, IsPost, ToDirectory, Path
  <2>2. ~HoldsLock(c) BY <2>1 DEF HoldsLock, Locked
  <2>3. file' \in [Connections -> Files \cup {Nothing}] /\ file'[c] \in Files
    BY <1>a, <2>1 DEF Types
  <2>4. isNew' \in [Connections -> BOOLEAN] BY <1>a, <2>1 DEF Types
  <2>5. QED BY <2>1, <2>2, <2>3, <2>4, PostProceeds
<1>3. CASE Lock(c)
  <2>1. /\ pc[c] = "locking" /\ _writeMutex = Nobody /\ _writeMutex' = c /\ Goto(c, "naming")
        /\ UNCHANGED <<files, locals, answer, history>>
    BY <1>3 DEF Lock, LockIsFree
  <2>2. pc' \in [Connections -> Positions] /\ pc'[c] = "naming"
    BY <1>a, <2>1, GotoParts DEF Positions, Locked
  <2>3. Types' BY <1>a, <2>1, <2>2 DEF Types, files, locals, answer, history
  <2>4. PositionInv(c)'
    BY <1>a, <2>1, <2>2
    DEF PositionInv, Waiting, Busy, Posting, Locked, locals, answer, history, Method, ToDirectory
  <2>5. HoldsLock(c)'
    BY <1>a, <2>1, <2>2 DEF PositionInv, HoldsLock, Locked, ToDirectory, locals
  <2>6. KeepsLock(c) BY <2>1, <2>5, FileServerConstants DEF KeepsLock, LockOf
  <2>7. QED BY <2>3, <2>4, <2>6
<1>4. ASSUME NEW name \in Generated, GenerateFileName(c, name)
      PROVE  Types' /\ PositionInv(c)' /\ KeepsLock(c)
  <2>1. /\ pc[c] = "naming" /\ file' = [file EXCEPT ![c] = name] /\ Goto(c, "looking")
        /\ UNCHANGED <<files, _writeMutex, request, isNew, size, answer, history>>
    BY <1>4 DEF GenerateFileName
  <2>2. Method(c) = "POST" /\ ToDirectory(c) BY <1>a, <2>1 DEF PositionInv, Posting, Locked
  <2>3. HoldsLock(c) BY <2>1, <2>2 DEF HoldsLock, Locked
  <2>4. file' \in [Connections -> Files \cup {Nothing}] /\ file'[c] \in Files
    BY <1>a, <2>1, FileServerConstants DEF Types
  <2>5. isNew' \in [Connections -> BOOLEAN] BY <1>a, <2>1 DEF Types
  <2>6. QED BY <2>1, <2>2, <2>3, <2>4, <2>5, PostProceeds
<1>5. CASE LookUp(c)
  <2>1. /\ pc[c] = "looking" /\ isNew' = [isNew EXCEPT ![c] = file[c] \notin stored]
        /\ Goto(c, "opening")
        /\ UNCHANGED <<files, _writeMutex, request, file, size, answer, history>>
    BY <1>5 DEF LookUp
  <2>2. Method(c) = "POST" /\ file[c] \in Files BY <1>a, <2>1 DEF PositionInv, Posting, Locked
  <2>3. HoldsLock(c) <=> ToDirectory(c) BY <2>1 DEF HoldsLock, Locked
  <2>4. isNew' \in [Connections -> BOOLEAN] BY <1>a, <2>1 DEF Types
  <2>5. file' \in [Connections -> Files \cup {Nothing}] BY <1>a, <2>1 DEF Types
  <2>6. QED BY <2>1, <2>2, <2>3, <2>4, <2>5, PostProceeds
<1>6. CASE Open(c)
  <2>0. pc[c] = "opening" /\ file[c] \in Files BY <1>6, <1>a DEF Open, PositionInv
  <2>1. CASE stored' = stored \cup {file[c]} /\ content' = content
             /\ Goto(c, "writing") /\ UNCHANGED <<_writeMutex, answer, locals, history>>
    <3>1. pc' \in [Connections -> Positions] /\ pc'[c] = "writing"
      BY <1>a, <2>1, GotoParts DEF Positions, Locked
    <3>2. Types' BY <1>a, <2>0, <2>1, <3>1 DEF Types, locals, answer, history
    <3>3. PositionInv(c)'
      BY <1>a, <2>0, <2>1, <3>1
      DEF PositionInv, Waiting, Busy, Posting, Locked, locals, answer, history, Method
    <3>4. (HoldsLock(c)' <=> HoldsLock(c)) /\ ~LeftLocked(c)
      BY <2>0, <2>1, <3>1 DEF HoldsLock, LeftLocked, Locked, ToDirectory, locals
    <3>5. KeepsLock(c) BY <1>a, <2>1, <3>4 DEF KeepsLock, LockInv, LockOf
    <3>6. QED BY <3>2, <3>3, <3>5
  <2>2. CASE UnlockOnError(c) /\ Respond(c, 500, <<>>) /\ UNCHANGED <<files, locals, history>>
    <3>1. 500 \in Statuses \ {0} BY DEF Statuses
    <3>2. /\ content' \in [Files -> Seq(Blocks)] /\ \A f \in Files \ stored : content'[f] = <<>>
          /\ cut' \subseteq Connections
      BY <1>a, <2>2 DEF Types, files, history
    <3>3. _writeMutex' = (IF _writeMutex = c THEN Nobody ELSE _writeMutex)
          /\ stored' = stored /\ UNCHANGED <<locals, delivered, known>>
      BY <2>2 DEF UnlockOnError, files, history
    <3>4. QED BY <2>0, <2>2, <3>1, <3>2, <3>3, PostAnswers
  <2>3. QED BY <1>6, <2>1, <2>2 DEF Open, Opened, ResponseError
<1>7. CASE Write(c)
  <2>1. /\ pc[c] = "writing" /\ Flush(c) /\ stored' = stored
        /\ _writeMutex' = IF _writeMutex = c THEN Nobody ELSE _writeMutex
        /\ UNCHANGED <<locals, delivered, known>>
    BY <1>7 DEF Write, Unlock
  <2>2. PICK s \in {200, 201} : Respond(c, s, <<>>) BY <1>7 DEF Write, ResponsePost
  <2>3. s \in Statuses \ {0} BY DEF Statuses
  <2>4. file[c] \in stored BY <2>1 DEF WritingInv
  <2>5. /\ content' \in [Files -> Seq(Blocks)] /\ \A f \in Files \ stored : content'[f] = <<>>
        /\ cut' \subseteq Connections
    BY <1>a, <2>1, <2>4, FlushTypes
  <2>6. QED BY <2>1, <2>2, <2>3, <2>5, PostAnswers
<1>8. QED BY <1>1, <1>2, <1>3, <1>4, <1>5, <1>6, <1>7 DEF Posts

\* The death of the process ends all threads and gives the lock back.
LEMMA DieTypes ==
  ASSUME TypeInv, Die
  PROVE  TypeInv'
<1>a. TypeOK /\ Types /\ LockInv BY TypesAndLock DEF TypeInv
<1>1. /\ pc' = [c \in Connections |-> IF pc[c] \in {"idle", "over"} THEN pc[c] ELSE "over"]
      /\ _writeMutex' = Nobody /\ UNCHANGED <<files, locals, answer, history>>
  BY DEF Die
<1>2. pc' \in [Connections -> Positions] BY <1>a, <1>1 DEF Types, Positions, Ended
<1>3. Types' BY <1>a, <1>1, <1>2 DEF Types, files, locals, answer, history
<1>4. \A c \in Connections : pc'[c] \in {"idle", "over"} /\ (pc'[c] = "idle" => pc[c] = "idle")
                             /\ (pc[c] = "over" => pc'[c] = "over")
  BY <1>1
<1>5. LockInv' BY <1>1, <1>4, FileServerConstants DEF LockInv, LockOf, HoldsLock, Locked
<1>6. ASSUME NEW c \in Connections PROVE PositionInv(c)'
  BY <1>1, <1>4 DEF TypeInv, PositionInv, Waiting, Busy, Posting, Locked, locals, answer, history
<1>7. Types' /\ LockInv' => TypeOK' BY DEF TypeOK, Types, LockInv, LockOf, Statuses
<1>8. QED BY <1>3, <1>5, <1>6, <1>7 DEF TypeInv

\* A file that is being written, exists: nothing removes a file.
LEMMA StoredGrows ==
  ASSUME [Next]_vars
  PROVE  stored \subseteq stored'
<1>1. CASE Die BY <1>1 DEF Die, files
<1>2. ASSUME NEW c \in Connections, Step(c) PROVE stored \subseteq stored'
  <2>1. CASE Talks(c)
    BY <2>1 DEF Talks, Accept, Malformed, Receive, Deliver, Breaks, files
  <2>2. CASE Reads(c)
    BY <2>2
    DEF Reads, Refuse, NotFound, StatForGet, FileHead, ReadFile, PostFails, NamingFails, files
  <2>3. CASE Posts(c)
    BY <2>3
    DEF Posts, PostToDirectory, PostToFile, Lock, GenerateFileName, LookUp, Open, Write, files
  <2>4. QED BY <1>2, <2>1, <2>2, <2>3 DEF Step
<1>3. CASE UNCHANGED vars BY <1>3 DEF vars, files
<1>4. QED BY <1>1, <1>2, <1>3, StepOrDie

LEMMA TypeSteps ==
  ASSUME TypeInv, WritingInv, [Next]_vars
  PROVE  TypeInv' /\ WritingInv'
<1>a. TypeOK /\ Types /\ LockInv /\ stored \subseteq stored' BY TypesAndLock, StoredGrows DEF TypeInv
<1>1. CASE Die
  <2>1. \A c \in Connections : pc'[c] # "writing" BY <1>1 DEF Die
  <2>2. QED BY <1>1, <2>1, DieTypes DEF WritingInv
<1>2. ASSUME NEW c \in Connections, Step(c) PROVE TypeInv' /\ WritingInv'
  <2>1. Types' /\ PositionInv(c)' /\ KeepsLock(c)
    BY <1>2, TalksTypes, ReadsTypes, PostsTypes DEF Step
  <2>2. \A d \in Connections : d # c => Kept(d) BY <1>2, <1>a, OthersKept
  <2>3. ASSUME NEW d \in Connections, d # c
        PROVE  PositionInv(d)' /\ LockOf(d)'
    <3>1. Kept(d) /\ PositionInv(d) /\ LockOf(d)
      BY <1>a, <2>2, <2>3 DEF TypeInv, LockInv
    <3>2. PositionInv(d)' BY <3>1 DEF Kept, PositionInv, ToDirectory, Method, Path
    <3>3. (HoldsLock(d)' <=> HoldsLock(d)) /\ (LeftLocked(d)' <=> LeftLocked(d))
      BY <3>1 DEF Kept, HoldsLock, LeftLocked, ToDirectory
    <3>4. QED BY <2>1, <2>3, <3>1, <3>2, <3>3 DEF KeepsLock, LockOf
  <2>4. LockInv' BY <2>1, <2>3 DEF LockInv, KeepsLock
  <2>5. Types' /\ LockInv' => TypeOK' BY DEF TypeOK, Types, LockInv, LockOf, Statuses
  <2>6. pc'[c] = "writing" => file'[c] \in stored'
    <3>1. CASE Open(c) BY <1>a, <3>1, AreFunctions
      DEF Open, Functional, Respond, ResponseError, Goto, locals
    <3>2. CASE Talks(c) \/ Reads(c)
      BY <1>a, <3>2, AreFunctions
      DEF Functional, Talks, Accept, Malformed, Receive, Deliver, Breaks, Reads, Refuse,
          NotFound, StatForGet, FileHead, ReadFile, PostFails, NamingFails, Respond, ResponseError,
          ResponseHead, ResponseGet, Goto
    <3>3. CASE Posts(c) /\ ~Open(c)
      BY <1>a, <3>3, AreFunctions
      DEF Functional, Posts, PostToDirectory, PostToFile, Lock, GenerateFileName, LookUp,
          Write, ResponsePost, Respond, Goto
    <3>4. QED BY <1>2, <3>1, <3>2, <3>3 DEF Step
  <2>7. WritingInv' BY <1>a, <2>2, <2>6 DEF WritingInv, Kept
  <2>8. QED BY <2>1, <2>3, <2>4, <2>5, <2>7 DEF TypeInv
<1>3. CASE UNCHANGED vars
  <2>1. Types' /\ LockInv'
    BY <1>3, <1>a
    DEF vars, files, locals, answer, history, Types, LockInv, LockOf, HoldsLock,
        LeftLocked, ToDirectory
  <2>2. Types' /\ LockInv' => TypeOK' BY DEF TypeOK, Types, LockInv, LockOf, Statuses
  <2>3. \A c \in Connections : PositionInv(c)'
    BY <1>3 DEF vars, files, locals, answer, history, TypeInv, PositionInv, ToDirectory, Method, Path
  <2>4. WritingInv' BY <1>3 DEF vars, files, locals, WritingInv
  <2>5. QED BY <2>1, <2>2, <2>3, <2>4 DEF TypeInv
<1>4. QED BY <1>1, <1>2, <1>3, StepOrDie

LEMMA TypeInit == Init => TypeInv /\ WritingInv
<1> SUFFICES ASSUME Init PROVE TypeInv /\ WritingInv OBVIOUS
<1>1. Initial \in Seq(Blocks) BY DEF Initial, Block, Blocks
<1>2. content \in [Files -> Seq(Blocks)] BY <1>1, EmptyBody DEF Init
<1>3. body \in [Connections -> Seq(Blocks)] BY EmptyBody DEF Init
<1>4. Types BY <1>2, <1>3 DEF Init, Types, Positions, Ended, Statuses
<1>5. LockInv BY FileServerConstants DEF Init, LockInv, LockOf, HoldsLock, Locked
<1>6. \A c \in Connections : PositionInv(c)
  BY DEF Init, PositionInv, Waiting, Busy, Posting, Locked
<1>7. WritingInv BY DEF Init, WritingInv
<1>8. QED BY <1>4, <1>5, <1>6, <1>7, TypesAndLock DEF TypeInv

THEOREM TypeInvariant == Spec => [](TypeInv /\ WritingInv)
<1>1. TypeInv /\ WritingInv /\ [Next]_vars => TypeInv' /\ WritingInv' BY TypeSteps
<1>2. QED BY <1>1, TypeInit, PTL DEF Spec

\* The types of the file server.  Its last conjunct is the lock: a thread holds
\* _writeMutex exactly while it is between the choice of a name and the end of
\* the write, on every path out of it.
THEOREM TypesOfFileServer == Spec => []TypeOK
<1>1. TypeInv => TypeOK BY DEF TypeInv
<1>2. QED BY <1>1, TypeInvariant, PTL

-----------------------------------------------------------------------------
(* Generated names are created once *)

\* c has found no file of the name it has chosen.
New(c) ==
  ToDirectory(c) /\ ((pc[c] \in {"opening", "writing"} /\ isNew[c]) \/ status[c] = 201)

CreateInv ==
  /\ \A c \in Connections : status[c] = 201 /\ ToDirectory(c) => file[c] \in stored
  /\ \A c, d \in Connections : New(c) /\ New(d) /\ file[c] = file[d] => c = d

\* What a thread does to its own variables, as far as CreateInv is concerned.
Same(c) == file'[c] = file[c] /\ request'[c] = request[c]
NewStep(c) ==
  /\ New(c)' => Same(c) /\ (New(c) \/ (LookUp(c) /\ file[c] \notin stored))
  /\ status'[c] = 201 => Same(c) /\ (status[c] = 201 \/ pc[c] = "writing")

LEMMA NewSteps ==
  ASSUME TypeInv, NEW c \in Connections, Step(c)
  PROVE  NewStep(c)
<1>a. Functional /\ TypeOK /\ PositionInv(c) BY AreFunctions DEF TypeInv
<1>1. CASE Talks(c)
  <2>1. pc'[c] \notin {"opening", "writing"} /\ status'[c] = status[c] /\ file'[c] = file[c]
    BY <1>1, <1>a
    DEF Functional, Talks, Accept, Malformed, Receive, Deliver, Breaks, Goto, locals, answer
  <2>2. status[c] = 201 => request'[c] = request[c]
    BY <1>1, <1>a
    DEF PositionInv, Talks, Accept, Malformed, Receive, Deliver, Breaks, Goto, locals
  <2>3. New(c)' => status[c] = 201 /\ ToDirectory(c)' BY <2>1 DEF New
  <2>4. New(c)' => New(c) /\ request'[c] = request[c]
    BY <2>2, <2>3 DEF New, ToDirectory
  <2>5. QED BY <2>1, <2>2, <2>4 DEF NewStep, Same
<1>2. CASE Reads(c)
  <2>1. pc'[c] \notin {"opening", "writing"}
    BY <1>2, <1>a
    DEF Functional, Reads, Refuse, NotFound, StatForGet, FileHead, ReadFile, PostFails, NamingFails,
        Goto, Respond, ResponseError, ResponseHead, ResponseGet
  <2>2. status'[c] # 201
    <3>1. CASE StatForGet(c) BY <3>1, <1>a DEF StatForGet, PositionInv, answer
    <3>2. CASE Refuse(c)
      <4>1. Refusal(c) # 201 BY RefusalType
      <4>2. QED BY <3>2, <4>1, <1>a DEF Refuse, Respond, ResponseError, Functional
    <3>3. CASE NotFound(c) \/ FileHead(c) \/ ReadFile(c) \/ PostFails(c) \/ NamingFails(c)
      BY <3>3, <1>a
      DEF NotFound, FileHead, ReadFile, PostFails, NamingFails, Respond, ResponseError, ResponseHead,
          ResponseGet, Functional
    <3>4. QED BY <1>2, <3>1, <3>2, <3>3 DEF Reads
  <2>3. QED BY <2>1, <2>2 DEF NewStep, New
<1>3. CASE PostToDirectory(c) \/ PostToFile(c) \/ Lock(c)
           \/ \E name \in Generated : GenerateFileName(c, name)
  <2>1. pc'[c] \notin {"opening", "writing"} /\ status'[c] = status[c] /\ status[c] = 0
    BY <1>3, <1>a
    DEF Functional, PositionInv, PostToDirectory, PostToFile, Lock, GenerateFileName, IsPost,
        Goto, answer
  <2>2. QED BY <2>1 DEF NewStep, New
<1>4. CASE LookUp(c)
  <2>1. /\ pc[c] = "looking" /\ isNew' = [isNew EXCEPT ![c] = file[c] \notin stored]
        /\ UNCHANGED <<request, file, answer>>
    BY <1>4 DEF LookUp
  <2>2. status[c] = 0 BY <1>a, <2>1 DEF PositionInv
  <2>3. isNew'[c] => file[c] \notin stored BY <1>a, <2>1 DEF Functional
  <2>4. QED BY <1>4, <2>1, <2>2, <2>3 DEF NewStep, New, Same, answer
<1>5. CASE Open(c)
  <2>1. pc[c] = "opening" /\ status[c] = 0 /\ UNCHANGED locals
    BY <1>5, <1>a DEF Open, PositionInv
  <2>2. status'[c] \in {0, 500} /\ pc'[c] \in {"writing", "answering"}
    BY <1>5, <1>a, <2>1 DEF Open, Functional, Respond, ResponseError, Goto, answer
  <2>3. Same(c) /\ isNew' = isNew /\ (ToDirectory(c)' <=> ToDirectory(c))
    BY <2>1 DEF Same, ToDirectory, locals
  <2>4. New(c)' => New(c) BY <2>1, <2>2, <2>3 DEF New
  <2>5. QED BY <2>2, <2>3, <2>4 DEF NewStep
<1>6. CASE Write(c)
  <2>1. pc[c] = "writing" /\ UNCHANGED locals BY <1>6 DEF Write
  <2>2. pc'[c] = "answering" /\ (status'[c] = 201 => isNew[c])
    BY <1>6, <1>a DEF Write, ResponsePost, Functional, Respond, Goto
  <2>3. Same(c) /\ (ToDirectory(c)' <=> ToDirectory(c))
    BY <2>1 DEF Same, ToDirectory, locals
  <2>4. New(c)' => New(c) BY <2>1, <2>2, <2>3 DEF New
  <2>5. QED BY <2>1, <2>3, <2>4 DEF NewStep
<1>7. QED BY <1>1, <1>2, <1>3, <1>4, <1>5, <1>6 DEF Step, Posts

LEMMA CreateSteps ==
  ASSUME TypeInv, WritingInv, CreateInv, [Next]_vars
  PROVE  CreateInv'
<1>a. stored \subseteq stored' BY StoredGrows
<1>1. CASE Die
  <2>1. \A c \in Connections : /\ pc'[c] \notin {"opening", "writing"}
                               /\ status' = status /\ request' = request /\ file' = file
    BY <1>1 DEF Die, answer, locals
  <2>2. QED BY <1>a, <2>1 DEF CreateInv, New, ToDirectory
<1>2. ASSUME NEW c \in Connections, Step(c) PROVE CreateInv'
  <2>1. NewStep(c) BY <1>2, NewSteps
  <2>2. \A d \in Connections : d # c => Kept(d) BY <1>2, OthersKept DEF TypeInv
  <2>3. \A d \in Connections : d # c => (New(d)' <=> New(d)) /\ (ToDirectory(d)' <=> ToDirectory(d))
    BY <2>2 DEF Kept, New, ToDirectory
  <2>4. ASSUME NEW d \in Connections, status'[d] = 201, ToDirectory(d)'
        PROVE  file'[d] \in stored'
    <3>1. CASE d = c BY <1>a, <2>1, <2>4, <3>1 DEF NewStep, Same, ToDirectory, CreateInv, WritingInv
    <3>2. CASE d # c BY <1>a, <2>2, <2>3, <2>4, <3>2 DEF Kept, CreateInv
    <3>3. QED BY <3>1, <3>2
  \* A name that is not the name of a file is not the name of one being created.
  <2>5. ASSUME LookUp(c), ToDirectory(c), file[c] \notin stored,
               NEW d \in Connections, d # c, New(d)
        PROVE  file[d] # file[c]
    <3>1. HoldsLock(c) BY <2>5 DEF LookUp, HoldsLock, Locked
    <3>2. ~HoldsLock(d) BY <2>5, <3>1 DEF TypeInv, TypeOK
    <3>3. status[d] = 201 /\ ToDirectory(d) BY <2>5, <3>2 DEF New, HoldsLock, Locked
    <3>4. QED BY <2>5, <3>3 DEF CreateInv
  <2>6. ASSUME NEW d \in Connections, d # c, New(c)', New(d)' PROVE file'[c] # file'[d]
    <3>1. New(d) /\ file'[d] = file[d] BY <2>2, <2>3, <2>6 DEF Kept
    <3>2. file'[c] = file[c] /\ ToDirectory(c)
      BY <2>1, <2>6 DEF NewStep, Same, New, ToDirectory
    <3>3. CASE New(c) BY <2>6, <3>1, <3>2, <3>3 DEF CreateInv
    <3>4. CASE LookUp(c) /\ file[c] \notin stored BY <2>5, <2>6, <3>1, <3>2, <3>4
    <3>5. QED BY <2>1, <2>6, <3>3, <3>4 DEF NewStep
  <2>7. ASSUME NEW d \in Connections, NEW e \in Connections, New(d)', New(e)',
               file'[d] = file'[e]
        PROVE  d = e
    <3>1. CASE d = c \/ e = c BY <2>6, <2>7, <3>1
    <3>2. CASE d # c /\ e # c BY <2>2, <2>3, <2>7, <3>2 DEF Kept, CreateInv
    <3>3. QED BY <3>1, <3>2
  <2>8. QED BY <2>4, <2>7 DEF CreateInv
<1>3. CASE UNCHANGED vars
  BY <1>3 DEF vars, files, locals, answer, CreateInv, New, ToDirectory
<1>4. QED BY <1>1, <1>2, <1>3, StepOrDie

\* Two POSTs to directories never both report that they created one file, even
\* when the name generator gives both the same name.
THEOREM NamesAreCreatedOnce == Spec => []CreatedByOne
<1>1. Init => CreateInv BY DEF Init, CreateInv, New, ToDirectory
<1>2. TypeInv /\ WritingInv /\ CreateInv /\ [Next]_vars => CreateInv' BY CreateSteps
<1>3. CreateInv => CreatedByOne BY DEF CreateInv, CreatedByOne, New
<1>4. QED BY <1>1, <1>2, <1>3, TypeInvariant, PTL DEF Spec

-----------------------------------------------------------------------------
(* How files grow *)

\* c adds a body, or the beginning of one, to its file.
Adds(c, whole) ==
  /\ pc[c] = "writing" /\ request[c].length > 0
  /\ content' = [content EXCEPT ![file[c]] = Append(@, Block(c, whole))]
  /\ whole \/ c \in cut'

LEMMA FlushAdds ==
  ASSUME NEW c \in Connections, Write(c)
  PROVE  \/ content' = content /\ (request[c].length = 0 \/ c \in cut')
         \/ \E whole \in BOOLEAN : Adds(c, whole)
BY DEF Write, Flush, Appended, Adds

LEMMA OthersAddNothing ==
  ASSUME NEW c \in Connections, Step(c), ~Write(c)
  PROVE  content' = content /\ cut' = cut
<1>1. CASE Talks(c)
  BY <1>1 DEF Talks, Accept, Malformed, Receive, Deliver, Breaks, files, history
<1>2. CASE Reads(c)
  BY <1>2
  DEF Reads, Refuse, NotFound, StatForGet, FileHead, ReadFile, PostFails, NamingFails, files,
      history
<1>3. CASE Posts(c)
  BY <1>3
  DEF Posts, PostToDirectory, PostToFile, Lock, GenerateFileName, LookUp, Open, Opened,
      files, history
<1>4. QED BY <1>1, <1>2, <1>3 DEF Step

LEMMA AppendParts ==
  ASSUME NEW S, NEW s \in Seq(S), NEW x \in S
  PROVE  /\ Append(s, x) \in Seq(S)
         /\ Len(s) \in Nat /\ Len(Append(s, x)) = Len(s) + 1
         /\ DOMAIN s = 1 .. Len(s) /\ DOMAIN Append(s, x) = 1 .. Len(s) + 1
         /\ \A i \in 1 .. Len(s) : Append(s, x)[i] = s[i]
         /\ Append(s, x)[Len(s) + 1] = x
OBVIOUS

\* What a file looks like after a body was added to it, or to another.
LEMMA Added ==
  ASSUME TypeOK, NEW c \in Connections, file[c] \in Files, NEW whole \in BOOLEAN,
         Adds(c, whole), NEW f \in Files
  PROVE  /\ f # file[c] => content'[f] = content[f]
         /\ f = file[c] => content'[f] = Append(content[f], Block(c, whole))
         /\ content[f] \in Seq(Blocks) /\ Block(c, whole) \in Blocks
BY BlockType DEF TypeOK, Adds

\* Of the blocks of a file, the ones that were there stay as they are.
Extends(s, t) == Len(s) <= Len(t) /\ \A i \in 1 .. Len(s) : t[i] = s[i]

LEMMA ExtendsKeeps ==
  ASSUME NEW S, NEW s \in Seq(S), NEW t \in Seq(S), Extends(s, t), NEW i \in 1 .. Len(s)
  PROVE  i \in 1 .. Len(t) /\ t[i] = s[i]
<1>1. Len(s) \in Nat /\ Len(t) \in Nat OBVIOUS
<1>2. QED BY <1>1 DEF Extends

LEMMA ContentGrows ==
  ASSUME TypeInv, [Next]_vars, NEW f \in Files
  PROVE  Extends(content[f], content'[f])
<1>a. TypeOK /\ content[f] \in Seq(Blocks) BY DEF TypeInv, TypeOK
<1>b. Len(content[f]) \in Nat BY <1>a
<1>1. CASE content' = content BY <1>1, <1>b DEF Extends
<1>2. ASSUME NEW c \in Connections, NEW whole \in BOOLEAN, Adds(c, whole)
      PROVE  Extends(content[f], content'[f])
  <2>1. file[c] \in Files BY <1>2 DEF Adds, TypeInv, PositionInv
  <2>2. CASE f # file[c] BY <1>1, <1>2, <1>a, <1>b, <2>1, <2>2, Added DEF Extends
  <2>3. CASE f = file[c]
    <3>1. content'[f] = Append(content[f], Block(c, whole)) /\ Block(c, whole) \in Blocks
      BY <1>2, <1>a, <2>1, <2>3, Added
    <3>2. QED BY <1>a, <1>b, <3>1, AppendParts DEF Extends
  <2>4. QED BY <2>2, <2>3
<1>3. CASE Die BY <1>1, <1>3 DEF Die, files
<1>4. CASE UNCHANGED vars BY <1>1, <1>4 DEF vars, files
<1>5. ASSUME NEW c \in Connections, Step(c) PROVE Extends(content[f], content'[f])
  BY <1>1, <1>2, <1>5, FlushAdds, OthersAddNothing
<1>6. QED BY <1>3, <1>4, <1>5, StepOrDie

-----------------------------------------------------------------------------
(* A body is stored once, and what is said to be stored is *)

Absent(c, f) == \A i \in 1 .. Len(content[f]) : content[f][i].by # c
Once(c, f) == \A i, j \in 1 .. Len(content[f]) :
                content[f][i].by = c /\ content[f][j].by = c => i = j

StoreInv(c) ==
  /\ pc[c] \notin {"answering", "over"} =>
       c \notin cut /\ \A f \in Files : Absent(c, f)
  /\ \A f \in Files : Once(c, f) /\ (f # file[c] => Absent(c, f))
  /\ /\ request[c] # Nothing /\ Method(c) = "POST" /\ status[c] \in {200, 201}
     /\ request[c].length > 0 /\ c \notin cut
     => /\ file[c] \in Files
        /\ \E i \in 1 .. Len(content[file[c]]) : content[file[c]][i] = Block(c, TRUE)

\* The blocks of other requests are not affected by an addition.
LEMMA AddedByOthers ==
  ASSUME TypeOK, NEW c \in Connections, file[c] \in Files, NEW whole \in BOOLEAN,
         Adds(c, whole), NEW d \in Connections, d # c, NEW f \in Files
  PROVE  /\ Absent(d, f) => Absent(d, f)'
         /\ Once(d, f) => Once(d, f)'
<1>1. CASE f # file[c]
  <2>1. content'[f] = content[f] BY <1>1, Added
  <2>2. QED BY <2>1 DEF Absent, Once
<1>2. CASE f = file[c]
  <2>1. /\ content'[f] = Append(content[f], Block(c, whole))
        /\ content[f] \in Seq(Blocks) /\ Block(c, whole) \in Blocks
    BY <1>2, Added
  <2>2. Block(c, whole).by # d BY BlockType
  <2>3. /\ Len(content[f]) \in Nat /\ Len(content'[f]) = Len(content[f]) + 1
        /\ \A i \in 1 .. Len(content[f]) : content'[f][i] = content[f][i]
        /\ content'[f][Len(content[f]) + 1].by # d
    BY <2>1, <2>2, AppendParts
  <2> DEFINE n == Len(content[f])
  <2>4. /\ n \in Nat /\ Len(content'[f]) = n + 1
        /\ \A i \in 1 .. n : content'[f][i] = content[f][i]
        /\ content'[f][n + 1].by # d
    BY <2>3
  <2>5. \A i \in 1 .. n + 1 : content'[f][i].by = d => i \in 1 .. n /\ content[f][i].by = d
    <3>1. \A i \in 1 .. n + 1 : i \in 1 .. n \/ i = n + 1 BY <2>4
    <3> HIDE DEF n
    <3>2. QED BY <2>4, <3>1
  <2>6. Absent(d, f) <=> \A i \in 1 .. n : content[f][i].by # d BY DEF Absent
  <2>7. Absent(d, f)' <=> \A i \in 1 .. n + 1 : content'[f][i].by # d BY <2>4 DEF Absent
  <2>8. Once(d, f) <=> \A i, j \in 1 .. n : content[f][i].by = d /\ content[f][j].by = d => i = j
    BY DEF Once
  <2>9. Once(d, f)' <=> \A i, j \in 1 .. n + 1 :
                          content'[f][i].by = d /\ content'[f][j].by = d => i = j
    BY <2>4 DEF Once
  <2> HIDE DEF n
  <2>10. QED BY <2>5, <2>6, <2>7, <2>8, <2>9
<1>3. QED BY <1>1, <1>2

\* The first body of c goes to its own file.
LEMMA AddedByItself ==
  ASSUME TypeOK, NEW c \in Connections, file[c] \in Files, NEW whole \in BOOLEAN,
         Adds(c, whole), NEW f \in Files, Absent(c, f)
  PROVE  /\ Once(c, f)'
         /\ f # file[c] => Absent(c, f)'
         /\ f = file[c] => \E i \in 1 .. Len(content'[f]) : content'[f][i] = Block(c, whole)
<1>1. CASE f # file[c]
  <2>1. content'[f] = content[f] BY <1>1, Added
  <2>2. QED BY <1>1, <2>1 DEF Absent, Once
<1>2. CASE f = file[c]
  <2>1. /\ content'[f] = Append(content[f], Block(c, whole))
        /\ content[f] \in Seq(Blocks) /\ Block(c, whole) \in Blocks
    BY <1>2, Added
  <2>3. /\ Len(content[f]) \in Nat /\ Len(content'[f]) = Len(content[f]) + 1
        /\ \A i \in 1 .. Len(content[f]) : content'[f][i] = content[f][i]
        /\ content'[f][Len(content[f]) + 1] = Block(c, whole)
    BY <2>1, AppendParts
  <2> DEFINE n == Len(content[f])
  <2>4. /\ n \in Nat /\ Len(content'[f]) = n + 1 /\ n + 1 \in 1 .. n + 1
        /\ \A i \in 1 .. n : content'[f][i] = content[f][i]
        /\ content'[f][n + 1] = Block(c, whole)
    BY <2>3
  <2>5. \A i \in 1 .. n : content[f][i].by # c BY DEF Absent
  <2>6. \A i \in 1 .. n + 1 : content'[f][i].by = c => i = n + 1
    <3>1. \A i \in 1 .. n + 1 : i \in 1 .. n \/ i = n + 1 BY <2>4
    <3> HIDE DEF n
    <3>2. QED BY <2>4, <2>5, <3>1
  <2>7. Once(c, f)' <=> \A i, j \in 1 .. n + 1 :
                          content'[f][i].by = c /\ content'[f][j].by = c => i = j
    BY <2>4 DEF Once
  <2>8. \E i \in 1 .. Len(content'[f]) : content'[f][i] = Block(c, whole) BY <2>4
  <2> HIDE DEF n
  <2>9. QED BY <1>2, <2>6, <2>7, <2>8
<1>3. QED BY <1>1, <1>2

\* A step of c that writes nothing.
QuietStep(c) ==
  /\ pc[c] \in {"answering", "over"} => pc'[c] \in {"answering", "over"}
  /\ file'[c] = file[c] \/ pc[c] \in {"handling", "naming"}
  /\ status'[c] \in {200, 201} /\ request'[c].method = "POST" =>
       status'[c] = status[c] /\ file'[c] = file[c] /\ request'[c] = request[c]

LEMMA QuietSteps ==
  ASSUME TypeInv, NEW c \in Connections, Step(c), ~Write(c)
  PROVE  QuietStep(c)
<1>a. Functional /\ TypeOK /\ PositionInv(c) BY AreFunctions DEF TypeInv
<1>1. CASE Accept(c) \/ Malformed(c) \/ Deliver(c) \/ Breaks(c)
  BY <1>1, <1>a
  DEF Functional, QuietStep, Accept, Malformed, Deliver, Breaks, Goto, locals, answer
<1>2. CASE \E r \in Requests[c] : Receive(c, r)
  <2>1. pc[c] \in {"reading", "ignored"} /\ file' = file /\ status' = status
    BY <1>2 DEF Receive, answer
  <2>2. status[c] = 0 BY <1>a, <2>1 DEF PositionInv
  <2>3. QED BY <2>1, <2>2 DEF QuietStep
<1>3. CASE Refuse(c) \/ PostFails(c) \/ NamingFails(c)
  <2>1. pc[c] \in {"handling", "naming"} /\ pc'[c] = "answering" /\ UNCHANGED locals
    BY <1>3, <1>a
    DEF Functional, Refuse, PostFails, NamingFails, IsPost, Respond, ResponseError, Goto
  <2>2. status'[c] \in {404, 500, Refusal(c)}
    BY <1>3, <1>a DEF Functional, Refuse, PostFails, NamingFails, Respond, ResponseError
  <2>3. QED BY <2>1, <2>2, RefusalType DEF QuietStep, locals
<1>4. CASE NotFound(c) \/ FileHead(c) \/ ReadFile(c)
  <2>1. pc[c] \in {"handling", "loading"} /\ pc'[c] = "answering" /\ UNCHANGED locals
    BY <1>4, <1>a
    DEF Functional, NotFound, FileHead, ReadFile, Respond, ResponseError, ResponseHead,
        ResponseGet, Goto
  <2>2. Method(c) # "POST" BY <1>4, <1>a DEF NotFound, FileHead, ReadFile, PositionInv
  <2>3. QED BY <2>1, <2>2 DEF QuietStep, locals, Method
<1>5. CASE StatForGet(c)
  <2>1. pc[c] = "handling" /\ Method(c) = "GET" /\ UNCHANGED request
    BY <1>5 DEF StatForGet
  <2>2. QED BY <2>1 DEF QuietStep, Method
<1>6. CASE PostToDirectory(c) \/ PostToFile(c) \/ Lock(c) \/ LookUp(c)
           \/ \E name \in Generated : GenerateFileName(c, name)
  <2>1. pc[c] \in {"handling", "naming", "locking", "looking"} /\ status' = status
        /\ (file' = file \/ pc[c] \in {"handling", "naming"})
    BY <1>6
    DEF PostToDirectory, PostToFile, Lock, LookUp, GenerateFileName, IsPost, locals, answer
  <2>2. status[c] = 0 BY <1>a, <2>1 DEF PositionInv
  <2>3. QED BY <2>1, <2>2 DEF QuietStep
<1>7. CASE Open(c)
  <2>1. pc[c] = "opening" /\ status[c] = 0 /\ UNCHANGED locals
    BY <1>7, <1>a DEF Open, PositionInv
  <2>2. status'[c] \in {0, 500}
    BY <1>7, <1>a, <2>1 DEF Open, Functional, Respond, ResponseError, answer
  <2>3. QED BY <2>1, <2>2 DEF QuietStep, locals
<1>8. QED
  BY <1>1, <1>2, <1>3, <1>4, <1>5, <1>6, <1>7 DEF Step, Talks, Reads, Posts

LEMMA StoreSteps ==
  ASSUME TypeInv, WritingInv, \A c \in Connections : StoreInv(c), [Next]_vars
  PROVE  \A c \in Connections : StoreInv(c)'
<1>a. TypeOK BY DEF TypeInv
<1>1. ASSUME NEW d \in Connections, content' = content, pc' = pc \/ Die,
             UNCHANGED <<locals, answer, history>>
      PROVE  StoreInv(d)'
  <2>1. pc'[d] \notin {"answering", "over"} => pc[d] \notin {"answering", "over"}
    BY <1>1 DEF Die
  <2>2. \A f \in Files : (Absent(d, f)' <=> Absent(d, f)) /\ (Once(d, f)' <=> Once(d, f))
    BY <1>1 DEF Absent, Once
  <2>3. UNCHANGED <<content, request, file, status, cut>>
    BY <1>1 DEF locals, answer, history
  <2>4. StoreInv(d) OBVIOUS
  <2>5. QED BY <2>1, <2>2, <2>3, <2>4 DEF StoreInv, Method
<1>2. CASE Die BY <1>1, <1>2 DEF Die, files
<1>3. CASE UNCHANGED vars BY <1>1, <1>3 DEF vars, files
\* The thread that makes the step.
<1>4. ASSUME NEW c \in Connections, Step(c), ~Write(c) PROVE StoreInv(c)'
  <2>1. QuietStep(c) /\ content' = content /\ cut' = cut
    BY <1>4, QuietSteps, OthersAddNothing
  <2>2. \A f \in Files : (Absent(c, f)' <=> Absent(c, f)) /\ (Once(c, f)' <=> Once(c, f))
    BY <2>1 DEF Absent, Once
  <2>3. StoreInv(c) OBVIOUS
  <2>4. pc'[c] \notin {"answering", "over"} => c \notin cut' /\ \A f \in Files : Absent(c, f)'
    BY <2>1, <2>2, <2>3 DEF StoreInv, QuietStep
  <2>5. \A f \in Files : Once(c, f)' /\ (f # file'[c] => Absent(c, f)')
    BY <2>1, <2>2, <2>3 DEF StoreInv, QuietStep
  <2>6. ASSUME request'[c] # Nothing, Method(c)' = "POST", status'[c] \in {200, 201},
               request'[c].length > 0, c \notin cut'
        PROVE  /\ file'[c] \in Files
               /\ \E i \in 1 .. Len(content'[file'[c]]) :
                    content'[file'[c]][i] = Block(c, TRUE)
    <3>1. status'[c] = status[c] /\ file'[c] = file[c] /\ request'[c] = request[c]
      BY <2>1, <2>6 DEF QuietStep, Method
    <3>2. QED BY <2>1, <2>3, <2>6, <3>1 DEF StoreInv, Method
  <2>7. QED BY <2>4, <2>5, <2>6 DEF StoreInv
<1>5. ASSUME NEW c \in Connections, Write(c) PROVE StoreInv(c)'
  <2>1. pc[c] = "writing" /\ UNCHANGED locals /\ pc'[c] = "answering"
    BY <1>5, <1>a, AreFunctions DEF Write, ResponsePost, Respond, Goto, Functional
  <2>2. file[c] \in Files /\ file'[c] = file[c] /\ request'[c] = request[c]
    BY <2>1 DEF TypeInv, PositionInv, locals
  <2>3. \A f \in Files : Absent(c, f) BY <2>1 DEF StoreInv
  <2>4. CASE content' = content /\ (request[c].length = 0 \/ c \in cut')
    <3>1. \A f \in Files : Once(c, f)' /\ Absent(c, f)' BY <2>3, <2>4 DEF Absent, Once
    <3>2. ~(request'[c].length > 0 /\ c \notin cut') BY <2>2, <2>4
    <3>3. QED BY <2>1, <3>1, <3>2 DEF StoreInv
  <2>5. ASSUME NEW whole \in BOOLEAN, Adds(c, whole) PROVE StoreInv(c)'
    <3>1. \A f \in Files : Once(c, f)' /\ (f # file[c] => Absent(c, f)')
      BY <1>a, <2>2, <2>3, <2>5, AddedByItself
    <3>2. \E i \in 1 .. Len(content'[file[c]]) : content'[file[c]][i] = Block(c, whole)
      BY <1>a, <2>2, <2>3, <2>5, AddedByItself
    <3>3. c \notin cut' => whole = TRUE BY <2>5 DEF Adds
    <3>4. QED BY <2>1, <2>2, <3>1, <3>2, <3>3 DEF StoreInv
  <2>6. QED BY <1>5, <2>4, <2>5, FlushAdds
\* The other threads.
<1>6. ASSUME NEW c \in Connections, Step(c), NEW d \in Connections, d # c
      PROVE  StoreInv(d)'
  <2>1. Kept(d) BY <1>6, <1>a, OthersKept
  <2>2. \A f \in Files : (Absent(d, f) => Absent(d, f)') /\ (Once(d, f) => Once(d, f)')
    <3>1. CASE content' = content BY <3>1 DEF Absent, Once
    <3>2. ASSUME NEW whole \in BOOLEAN, Adds(c, whole)
          PROVE  \A f \in Files : (Absent(d, f) => Absent(d, f)') /\ (Once(d, f) => Once(d, f)')
      <4>1. file[c] \in Files BY <3>2 DEF Adds, TypeInv, PositionInv
      <4>2. QED BY <1>6, <1>a, <3>2, <4>1, AddedByOthers
    <3>3. QED BY <1>6, <3>1, <3>2, FlushAdds, OthersAddNothing
  <2>3. StoreInv(d) OBVIOUS
  <2>4. ASSUME file[d] \in Files, NEW i \in 1 .. Len(content[file[d]]),
               content[file[d]][i] = Block(d, TRUE)
        PROVE  \E j \in 1 .. Len(content'[file[d]]) : content'[file[d]][j] = Block(d, TRUE)
    <3>1. Extends(content[file[d]], content'[file[d]]) BY <2>4, ContentGrows
    <3>2. content[file[d]] \in Seq(Blocks) BY <1>a, <2>4 DEF TypeOK
    <3>3. content'[file[d]] \in Seq(Blocks) BY <2>4, TypeSteps DEF TypeInv, TypeOK
    <3>4. i \in 1 .. Len(content'[file[d]]) /\ content'[file[d]][i] = content[file[d]][i]
      BY <2>4, <3>1, <3>2, <3>3, ExtendsKeeps
    <3>5. QED BY <2>4, <3>4
  <2>5. QED BY <2>1, <2>2, <2>3, <2>4 DEF StoreInv, Kept, Method
<1>7. QED BY <1>2, <1>3, <1>4, <1>5, <1>6, StepOrDie

LEMMA StoreInit == Init => \A c \in Connections : StoreInv(c)
<1> SUFFICES ASSUME Init, NEW c \in Connections PROVE StoreInv(c) OBVIOUS
<1>1. ASSUME NEW f \in Files PROVE Absent(c, f)
  <2>1. content[f] \in {Initial, <<>>} BY DEF Init
  <2>2. Len(Initial) = 1 /\ Initial[1].by = Nobody BY DEF Initial, Block
  <2>3. Len(<<>>) = 0 OBVIOUS
  <2>4. QED BY <2>1, <2>2, <2>3, FileServerConstants DEF Absent
<1>2. \A f \in Files : Once(c, f) BY <1>1 DEF Absent, Once
<1>3. request[c] = Nothing /\ c \notin cut BY DEF Init
<1>4. QED BY <1>1, <1>2, <1>3 DEF StoreInv

THEOREM StoreInvariant ==
  Spec => [](TypeInv /\ WritingInv /\ \A c \in Connections : StoreInv(c))
<1> DEFINE AllStored == \A c \in Connections : StoreInv(c)
<1>1. Init => AllStored BY StoreInit
<1>2. TypeInv /\ WritingInv /\ AllStored /\ [Next]_vars => AllStored' BY StoreSteps
<1> HIDE DEF AllStored
<1>3. Spec => [](TypeInv /\ WritingInv /\ AllStored) BY <1>1, <1>2, TypeInvariant, PTL DEF Spec
<1>4. QED BY <1>3 DEF AllStored

LEMMA CountIsBounded ==
  ASSUME TypeOK, NEW c \in Connections, NEW f \in Files, Once(c, f)
  PROVE  Count(c, f) <= 1 /\ (Absent(c, f) => Count(c, f) = 0)
<1> DEFINE S == {i \in DOMAIN content[f] : content[f][i].by = c}
<1>1. content[f] \in Seq(Blocks) BY DEF TypeOK
<1>2. DOMAIN content[f] = 1 .. Len(content[f]) BY <1>1
<1>3. Count(c, f) = Cardinality(S) BY DEF Count
<1>4. CASE S = {} BY <1>3, <1>4, FS_EmptySet
<1>5. CASE S # {}
  <2>1. PICK i \in S : TRUE BY <1>5
  <2>2. S = {i} BY <1>2, <2>1 DEF Once
  <2>3. Cardinality(S) = 1 BY <2>2, FS_Singleton
  <2>4. ~Absent(c, f) BY <1>2, <2>1 DEF Absent
  <2>5. QED BY <1>3, <2>3, <2>4
<1>6. QED BY <1>4, <1>5

\* A request leaves its body in no file but its own, at most once, and whole if
\* success was reported and no flush failed: the lock, the other requests, and
\* crashes make no difference.
THEOREM SuccessMeansStored == Spec => []SuccessIsStored
<1>1. TypeInv /\ (\A c \in Connections : StoreInv(c)) => SuccessIsStored
  <2> SUFFICES ASSUME TypeInv, NEW c \in Connections, StoreInv(c)
               PROVE  /\ \A f \in Files : Count(c, f) <= (IF f = file[c] THEN 1 ELSE 0)
                      /\ Succeeded(c) /\ request[c].length > 0 /\ c \notin cut
                         => Block(c, TRUE) \in Range(content[file[c]])
    BY DEF SuccessIsStored
  <2>1. ASSUME NEW f \in Files PROVE Count(c, f) <= (IF f = file[c] THEN 1 ELSE 0)
    <3>1. Once(c, f) /\ (f # file[c] => Absent(c, f)) BY DEF StoreInv
    <3>2. Count(c, f) <= 1 /\ (Absent(c, f) => Count(c, f) = 0)
      BY <3>1, CountIsBounded DEF TypeInv
    <3>3. QED BY <3>1, <3>2
  <2>2. ASSUME Succeeded(c), request[c].length > 0, c \notin cut
        PROVE  Block(c, TRUE) \in Range(content[file[c]])
    <3>1. request[c] # Nothing BY <2>2 DEF TypeInv, PositionInv, Succeeded
    <3>2. /\ file[c] \in Files
          /\ \E i \in 1 .. Len(content[file[c]]) : content[file[c]][i] = Block(c, TRUE)
      BY <2>2, <3>1 DEF StoreInv, Succeeded
    <3>3. content[file[c]] \in Seq(Blocks) BY <3>2 DEF TypeInv, TypeOK
    <3>4. DOMAIN content[file[c]] = 1 .. Len(content[file[c]]) BY <3>3
    <3>5. QED BY <3>2, <3>4 DEF Range
  <2>3. QED BY <2>1, <2>2
<1>2. QED BY <1>1, StoreInvariant, PTL

-----------------------------------------------------------------------------
(* What a request has read *)

LEMMA SubSeqParts ==
  ASSUME NEW S, NEW s \in Seq(S), NEW n \in Nat, n <= Len(s)
  PROVE  /\ SubSeq(s, 1, n) \in Seq(S) /\ Len(SubSeq(s, 1, n)) = n
         /\ \A i \in 1 .. n : SubSeq(s, 1, n)[i] = s[i]
OBVIOUS

LEMMA SameElements ==
  ASSUME NEW S, NEW s \in Seq(S), NEW t \in Seq(S), Len(s) = Len(t),
         \A i \in 1 .. Len(s) : s[i] = t[i]
  PROVE  s = t
OBVIOUS

\* The beginning of a file is not affected when the file grows.
LEMMA BeginningKept ==
  ASSUME NEW S, NEW s \in Seq(S), NEW t \in Seq(S), Extends(s, t),
         NEW n \in Nat, n <= Len(s)
  PROVE  SubSeq(t, 1, n) = SubSeq(s, 1, n)
<1>1. Len(s) \in Nat /\ Len(t) \in Nat /\ n <= Len(t) BY DEF Extends
<1>2. /\ SubSeq(s, 1, n) \in Seq(S) /\ Len(SubSeq(s, 1, n)) = n
      /\ \A i \in 1 .. n : SubSeq(s, 1, n)[i] = s[i]
  BY SubSeqParts
<1>3. /\ SubSeq(t, 1, n) \in Seq(S) /\ Len(SubSeq(t, 1, n)) = n
      /\ \A i \in 1 .. n : SubSeq(t, 1, n)[i] = t[i]
  BY <1>1, SubSeqParts
<1>4. \A i \in 1 .. n : t[i] = s[i] BY <1>1 DEF Extends
<1> DEFINE a == SubSeq(t, 1, n)
           b == SubSeq(s, 1, n)
<1>5. a \in Seq(S) /\ b \in Seq(S) /\ Len(a) = Len(b) /\ \A i \in 1 .. Len(a) : a[i] = b[i]
  BY <1>2, <1>3, <1>4
<1> HIDE DEF a, b
<1>6. a = b BY <1>5, SameElements
<1>7. QED BY <1>6 DEF a, b

SizeInv ==
  \A c \in Connections :
    pc[c] = "loading" => file[c] \in stored /\ size[c] <= Len(content[file[c]])

LEMMA OnlyStatLoads ==
  ASSUME TypeInv, NEW c \in Connections, Step(c)
  PROVE  pc[c] # "over" /\ (pc'[c] = "loading" => StatForGet(c))
<1>a. Functional BY AreFunctions DEF TypeInv
<1>1. CASE Talks(c)
  BY <1>1, <1>a DEF Functional, Talks, Accept, Malformed, Receive, Deliver, Breaks, Goto
<1>2. CASE Reads(c)
  BY <1>2, <1>a
  DEF Functional, Reads, Refuse, NotFound, StatForGet, FileHead, ReadFile, PostFails,
      NamingFails, IsPost, Goto, Respond, ResponseError, ResponseHead, ResponseGet
<1>3. CASE Posts(c)
  BY <1>3, <1>a
  DEF Functional, Posts, PostToDirectory, PostToFile, Lock, GenerateFileName, LookUp, Open,
      Write, IsPost, Goto, Respond, ResponseError, ResponsePost
<1>4. QED BY <1>1, <1>2, <1>3 DEF Step

LEMMA SizeSteps ==
  ASSUME TypeInv, WritingInv, SizeInv, [Next]_vars
  PROVE  SizeInv'
<1>a. TypeOK BY DEF TypeInv
<1>1. ASSUME NEW d \in Connections, pc[d] = "loading", file'[d] = file[d], size'[d] = size[d]
      PROVE  file'[d] \in stored' /\ size'[d] <= Len(content'[file'[d]])
  <2>1. file[d] \in stored /\ file[d] \in Files /\ size[d] <= Len(content[file[d]])
    BY <1>1 DEF SizeInv, TypeInv, PositionInv
  <2>2. stored \subseteq stored' BY StoredGrows
  <2>3. Extends(content[file[d]], content'[file[d]]) BY <2>1, ContentGrows
  <2>4. /\ content[file[d]] \in Seq(Blocks) /\ content'[file[d]] \in Seq(Blocks)
        /\ size[d] \in Nat
    BY <2>1, TypeSteps DEF TypeInv, TypeOK
  <2>5. size[d] <= Len(content'[file[d]]) BY <2>1, <2>3, <2>4 DEF Extends
  <2>6. QED BY <1>1, <2>1, <2>2, <2>5
<1>2. CASE Die BY <1>2 DEF Die, SizeInv
<1>3. CASE UNCHANGED vars BY <1>3 DEF vars, files, locals, SizeInv
<1>4. ASSUME NEW c \in Connections, Step(c) PROVE SizeInv'
  <2> SUFFICES ASSUME NEW d \in Connections, pc'[d] = "loading"
               PROVE  file'[d] \in stored' /\ size'[d] <= Len(content'[file'[d]])
    BY DEF SizeInv
  <2>1. CASE d # c BY <1>1, <1>4, <1>a, <2>1, OthersKept DEF Kept
  <2>2. CASE d = c
    <3>1. StatForGet(c) BY <1>4, <2>2, OnlyStatLoads
    <3> DEFINE f == Resource(Path(c))
    <3>2. /\ file'[c] = f /\ size'[c] = Len(content[f]) /\ f \in stored
          /\ stored' = stored /\ content' = content
      BY <3>1, <1>a, AreFunctions DEF StatForGet, Functional, files
    <3>3. content[f] \in Seq(Blocks) BY <1>a, <3>2 DEF TypeOK
    <3>4. Len(content[f]) \in Nat BY <3>3
    <3>5. QED BY <2>2, <3>2, <3>4
  <2>3. QED BY <2>1, <2>2
<1>5. QED BY <1>2, <1>3, <1>4, StepOrDie

SeenBy(c) ==
  IF pc[c] = "loading" THEN ReadBytes(c)
  ELSE IF file[c] # Nothing /\ Method(c) = "GET" /\ status[c] = 200
       THEN body[c] ELSE Nothing

LEMMA SeenIsSeenBy == /\ Seen = [c \in Connections |-> SeenBy(c)]
                      /\ Seen' = [c \in Connections |-> SeenBy(c)']
BY DEF Seen, SeenBy

LEMMA SeenByKept ==
  ASSUME TypeInv, WritingInv, SizeInv, [Next]_vars, NEW d \in Connections,
         UNCHANGED <<pc[d], request[d], file[d], size[d], status[d], body[d]>>
  PROVE  SeenBy(d)' = SeenBy(d)
<1>1. CASE pc[d] # "loading" BY <1>1 DEF SeenBy, Method
<1>2. CASE pc[d] = "loading"
  <2>1. file[d] \in Files /\ size[d] <= Len(content[file[d]])
    BY <1>2 DEF SizeInv, TypeInv, PositionInv
  <2>2. Extends(content[file[d]], content'[file[d]]) BY <2>1, ContentGrows
  <2>3. /\ content[file[d]] \in Seq(Blocks) /\ content'[file[d]] \in Seq(Blocks)
        /\ size[d] \in Nat
    BY <2>1, TypeSteps DEF TypeInv, TypeOK
  <2>4. SubSeq(content'[file[d]], 1, size[d]) = SubSeq(content[file[d]], 1, size[d])
    BY <2>1, <2>2, <2>3, BeginningKept
  <2>5. QED BY <1>2, <2>4 DEF SeenBy, ReadBytes
<1>3. QED BY <1>1, <1>2

LEMMA SeenType ==
  ASSUME TypeInv, SizeInv, NEW c \in Connections
  PROVE  SeenBy(c) \in Seq(Blocks) \cup {Nothing} /\ Nothing \notin Seq(Blocks)
<1>1. Nothing \notin Seq(Blocks) BY FileServerConstants DEF Blocks
<1>2. body[c] \in Seq(Blocks) BY DEF TypeInv, TypeOK
<1>3. CASE pc[c] = "loading"
  BY <1>1, <1>3, ReadBytesType DEF SeenBy, SizeInv, TypeInv, PositionInv
<1>4. CASE pc[c] # "loading" BY <1>1, <1>2, <1>4 DEF SeenBy
<1>5. QED BY <1>3, <1>4

\* A thread has read nothing before it takes the size of a file, and what it has
\* read does not change until it is answered, or is given up.
SeenStep(c) ==
  \/ SeenBy(c)' = SeenBy(c)
  \/ ReadFile(c) /\ SeenBy(c)' = Nothing
  \/ /\ StatForGet(c) /\ SeenBy(c) = Nothing
     /\ SeenBy(c)' = content[Resource(Path(c))]

LEMMA SeenSteps ==
  ASSUME TypeInv, WritingInv, SizeInv, NEW c \in Connections, Step(c)
  PROVE  SeenStep(c)
<1>a. Functional /\ TypeOK /\ PositionInv(c) BY AreFunctions DEF TypeInv
<1>1. CASE Accept(c) \/ Malformed(c) \/ Deliver(c) \/ Breaks(c)
  <2>1. /\ pc[c] # "loading" /\ pc'[c] # "loading" /\ UNCHANGED <<locals, answer>>
    BY <1>1, <1>a DEF Functional, Accept, Malformed, Deliver, Breaks, Goto
  <2>2. QED BY <2>1 DEF SeenStep, SeenBy, locals, answer, Method
<1>2. CASE (\E r \in Requests[c] : Receive(c, r)) \/ Refuse(c) \/ NotFound(c) \/ FileHead(c)
           \/ PostFails(c) \/ NamingFails(c)
  <2>1. /\ pc[c] \in {"reading", "ignored", "handling", "naming"} /\ pc'[c] # "loading"
        /\ file' = file
    BY <1>2, <1>a
    DEF Functional, Receive, Refuse, NotFound, FileHead, PostFails, NamingFails, IsPost, Goto, Respond,
        ResponseError, ResponseHead, locals
  <2>2. file[c] = Nothing BY <1>a, <2>1 DEF PositionInv, Waiting
  <2>3. QED BY <2>1, <2>2 DEF SeenStep, SeenBy
<1>3. CASE StatForGet(c)
  <2> DEFINE f == Resource(Path(c))
  <2>1. /\ pc[c] = "handling" /\ f \in stored /\ pc'[c] = "loading"
        /\ file'[c] = f /\ size'[c] = Len(content[f]) /\ content' = content
    BY <1>3, <1>a DEF StatForGet, Functional, Goto, files
  <2>2. file[c] = Nothing BY <1>a, <2>1 DEF PositionInv
  <2>3. SeenBy(c) = Nothing BY <2>1, <2>2 DEF SeenBy
  <2>4. content[f] \in Seq(Blocks) BY <1>a, <2>1 DEF TypeOK
  <2>5. SubSeq(content[f], 1, Len(content[f])) = content[f] BY <2>4
  <2>6. SeenBy(c)' = content[f] BY <2>1, <2>5 DEF SeenBy, ReadBytes
  <2>7. QED BY <1>3, <2>3, <2>6 DEF SeenStep
<1>4. CASE ReadFile(c)
  <2>1. /\ pc[c] = "loading" /\ pc'[c] = "answering" /\ UNCHANGED locals
        /\ \/ status'[c] = 500
           \/ status'[c] = 200 /\ body'[c] = ReadBytes(c)
    BY <1>4, <1>a DEF ReadFile, ResponseGet, ResponseError, Respond, Goto, Functional
  <2>2. file[c] # Nothing /\ Method(c) = "GET" /\ UNCHANGED <<request, file>>
    BY <1>a, <2>1, FileServerConstants DEF PositionInv, locals
  <2>3. QED BY <1>4, <2>1, <2>2 DEF SeenStep, SeenBy, Method
<1>5. CASE Posts(c)
  <2>1. Method(c) = "POST" /\ pc[c] # "loading"
    BY <1>5, <1>a
    DEF Posts, PositionInv, Posting, Locked, PostToDirectory, PostToFile, Lock,
        GenerateFileName, LookUp, Open, Write, IsPost
  <2>2. pc'[c] # "loading" /\ request' = request
    BY <1>5, <1>a
    DEF Functional, Posts, PostToDirectory, PostToFile, Lock, GenerateFileName, LookUp, Open,
        Write, Goto, Respond, ResponseError, ResponsePost, locals
  <2>3. QED BY <2>1, <2>2 DEF SeenStep, SeenBy, Method
<1>6. QED BY <1>1, <1>2, <1>3, <1>4, <1>5 DEF Step, Talks, Reads

\* The death of the process ends the reads that have no answer yet.
LEMMA DieForgets ==
  ASSUME TypeInv, Die, NEW c \in Connections
  PROVE  SeenBy(c)' = IF pc[c] = "loading" THEN Nothing ELSE SeenBy(c)
<1>1. UNCHANGED <<files, locals, answer>> /\ pc'[c] # "loading" BY DEF Die
<1>2. pc[c] = "loading" => status[c] = 0 BY DEF TypeInv, PositionInv
<1>3. QED BY <1>1, <1>2 DEF SeenBy, Method, locals, answer

LEMMA StoreActions ==
  ASSUME TypeInv, WritingInv, SizeInv, \A c \in Connections : StoreInv(c), [Next]_vars
  PROVE  [Store!Next]_(Store!vars)
<1>a. TypeOK BY DEF TypeInv
<1>1. CASE Die
  <2> DEFINE lost == {c \in Connections : pc[c] = "loading"}
  <2>1. Seen' = [c \in Connections |-> IF c \in lost THEN Nothing ELSE Seen[c]]
    BY <1>1, DieForgets, SeenIsSeenBy
  <2>2. UNCHANGED <<stored, content>> BY <1>1 DEF Die, files
  <2>3. Store!Forget(lost) BY <2>1, <2>2 DEF Store!Forget
  <2>4. QED BY <2>3 DEF Store!Next
<1>2. CASE UNCHANGED vars
  <2>1. \A c \in Connections : SeenBy(c)' = SeenBy(c)
    BY <1>2, SeenByKept DEF vars, files, locals, answer
  <2>2. Seen' = Seen BY <2>1, SeenIsSeenBy
  <2>3. QED BY <1>2, <2>2 DEF Store!vars, vars, files
<1>3. ASSUME NEW c \in Connections, Step(c) PROVE [Store!Next]_(Store!vars)
  <2>1. \A d \in Connections : d # c => SeenBy(d)' = SeenBy(d)
    BY <1>3, <1>a, OthersKept, SeenByKept DEF Kept
  <2>2. ASSUME SeenBy(c)' = SeenBy(c) PROVE Seen' = Seen
    BY <2>1, <2>2, SeenIsSeenBy
  <2>3. CASE StatForGet(c)
    <3> DEFINE f == Resource(Path(c))
    <3>1. f \in stored /\ f \in Files /\ UNCHANGED <<stored, content>>
      BY <1>a, <2>3 DEF StatForGet, TypeOK, files
    <3>2. CASE SeenBy(c)' = SeenBy(c) BY <2>2, <3>1, <3>2 DEF Store!vars
    <3>3. CASE SeenBy(c) = Nothing /\ SeenBy(c)' = content[f]
      <4>1. Seen[c] = Nothing /\ Seen' = [Seen EXCEPT ![c] = content[f]]
        BY <2>1, <3>3, SeenIsSeenBy
      <4>2. Store!Read(c, f) BY <3>1, <4>1 DEF Store!Read
      <4>3. QED BY <3>1, <4>2 DEF Store!Next
    <3>4. ~ReadFile(c) BY <2>3 DEF StatForGet, ReadFile
    <3>5. QED BY <1>3, <3>2, <3>3, <3>4, SeenSteps DEF SeenStep
  <2>4. CASE ReadFile(c)
    <3>1. UNCHANGED <<stored, content>> BY <2>4 DEF ReadFile, files
    <3>2. CASE SeenBy(c)' = SeenBy(c) BY <2>2, <3>1, <3>2 DEF Store!vars
    <3>3. CASE SeenBy(c)' = Nothing
      <4>1. Seen' = [d \in Connections |-> IF d \in {c} THEN Nothing ELSE Seen[d]]
        BY <2>1, <3>3, SeenIsSeenBy
      <4>2. Store!Forget({c}) BY <3>1, <4>1 DEF Store!Forget
      <4>3. QED BY <4>2 DEF Store!Next
    <3>4. ~StatForGet(c) BY <2>4 DEF StatForGet, ReadFile
    <3>5. QED BY <1>3, <3>2, <3>3, <3>4, SeenSteps DEF SeenStep
  <2>5. CASE ~StatForGet(c) /\ ~ReadFile(c)
    <3>1. Seen' = Seen BY <1>3, <2>2, <2>5, SeenSteps DEF SeenStep
    <3>2. CASE Write(c)
      <4>1. stored' = stored /\ pc[c] = "writing" BY <3>2 DEF Write
      <4>2. file[c] \in stored /\ file[c] \in Files
        BY <4>1 DEF WritingInv, TypeInv, PositionInv
      <4>3. CASE content' = content BY <3>1, <4>1, <4>3 DEF Store!vars
      <4>4. ASSUME NEW whole \in BOOLEAN, Adds(c, whole)
            PROVE  [Store!Next]_(Store!vars)
        <5>1. content' = [content EXCEPT ![file[c]] = Append(@, [by |-> c, whole |-> whole])]
          BY <4>4 DEF Adds, Block
        <5>2. ASSUME NEW g \in Files, NEW block \in Range(content[g]) PROVE block.by # c
          <6>1. Absent(c, g) BY <4>1 DEF StoreInv
          <6>2. content[g] \in Seq(Blocks) BY <1>a DEF TypeOK
          <6>3. DOMAIN content[g] = 1 .. Len(content[g]) BY <6>2
          <6>4. QED BY <5>2, <6>1, <6>3 DEF Absent, Range
        <5>3. Store!Extend(c, file[c], whole)
          BY <3>1, <4>1, <4>2, <5>1, <5>2 DEF Store!Extend, Store!Range, Range
        <5>4. QED BY <4>2, <5>3 DEF Store!Next
      <4>5. QED BY <3>2, <4>3, <4>4, FlushAdds
    <3>3. CASE ~Write(c)
      <4>1. content' = content BY <1>3, <3>3, OthersAddNothing
      <4>2. stored' = stored \/ (Open(c) /\ stored' = stored \cup {file[c]})
        BY <1>3, <3>3
        DEF Step, Talks, Reads, Posts, Accept, Malformed, Receive, Deliver, Breaks, Refuse,
            NotFound, StatForGet, FileHead, ReadFile, PostFails, NamingFails, PostToDirectory, PostToFile,
            Lock, GenerateFileName, LookUp, Open, files
      <4>3. CASE stored' = stored BY <3>1, <4>1, <4>3 DEF Store!vars
      <4>4. CASE Open(c) /\ stored' = stored \cup {file[c]} /\ file[c] \notin stored
        <5>1. file[c] \in Files BY <4>4 DEF Open, TypeInv, PositionInv
        <5>2. Store!Create(file[c]) BY <3>1, <4>1, <4>4 DEF Store!Create
        <5>3. QED BY <5>1, <5>2 DEF Store!Next
      <4>5. CASE stored' = stored \cup {file[c]} /\ file[c] \in stored
        BY <4>3, <4>5
      <4>6. QED BY <4>2, <4>3, <4>4, <4>5
    <3>4. QED BY <3>2, <3>3
  <2>6. QED BY <2>3, <2>4, <2>5
<1>4. QED BY <1>1, <1>2, <1>3, StepOrDie

\* With or without the lock, the server's files and reads are those of a store
\* in which a request extends a file, or reads one, in a single step.
THEOREM ServerKeepsPromise == Spec => FilesAsPromised
<1> DEFINE AllStored == \A c \in Connections : StoreInv(c)
<1>1. Init => Store!Init
  <2> SUFFICES ASSUME Init PROVE Store!Init OBVIOUS
  <2>1. \A c \in Connections : SeenBy(c) = Nothing BY DEF Init, SeenBy
  <2>2. Seen = [c \in Connections |-> Nothing] BY <2>1, SeenIsSeenBy
  <2>3. QED BY <2>2 DEF Init, Store!Init, Initial, Block
<1>2. Init => SizeInv BY DEF Init, SizeInv
<1>3. TypeInv /\ WritingInv /\ SizeInv /\ [Next]_vars => SizeInv' BY SizeSteps
<1>4. TypeInv /\ WritingInv /\ SizeInv /\ AllStored /\ [Next]_vars => [Store!Next]_(Store!vars)
  BY StoreActions
<1>5. Spec => [](TypeInv /\ WritingInv /\ AllStored) BY StoreInvariant
<1> HIDE DEF AllStored
<1>6. QED BY <1>1, <1>2, <1>3, <1>4, <1>5, PTL DEF Spec, FilesAsPromised, Store!Spec

-----------------------------------------------------------------------------
(* What a GET sees of the requests answered before it *)

\* c has an answer with success, to a POST or to a GET.
Posted(c) == request[c] # Nothing /\ Method(c) = "POST" /\ status[c] \in {200, 201}
Fetched(c) == request[c] # Nothing /\ Method(c) = "GET" /\ status[c] = 200

\* The file of such a request exists, and holds what a GET has returned.
DoneInv ==
  \A c \in Connections :
    /\ Posted(c) \/ Fetched(c) => file[c] \in stored
    /\ Fetched(c) => Extends(body[c], content[file[c]])

\* A step that makes an answer a success.
LEMMA Successes ==
  ASSUME TypeInv, WritingInv, SizeInv, NEW c \in Connections, Step(c)
  PROVE  /\ Posted(c)' => UNCHANGED <<request[c], file[c]>> /\ (Posted(c) \/ Write(c))
         /\ Fetched(c)' => /\ UNCHANGED <<request[c], file[c]>>
                           /\ \/ Fetched(c) /\ UNCHANGED body[c]
                              \/ ReadFile(c) /\ body'[c] = ReadBytes(c)
<1>a. Functional /\ TypeOK /\ PositionInv(c) BY AreFunctions DEF TypeInv
<1>1. CASE Accept(c) \/ Malformed(c) \/ Deliver(c) \/ Breaks(c)
  <2>1. UNCHANGED <<locals, answer>>
    BY <1>1 DEF Accept, Malformed, Deliver, Breaks
  <2>2. QED BY <2>1 DEF Posted, Fetched, locals, answer, Method
<1>2. CASE (\E r \in Requests[c] : Receive(c, r)) \/ PostToDirectory(c) \/ PostToFile(c)
           \/ Lock(c) \/ LookUp(c) \/ StatForGet(c)
           \/ \E name \in Generated : GenerateFileName(c, name)
  <2>1. status' = status
        /\ pc[c] \in {"reading", "ignored", "handling", "locking", "looking", "naming"}
    BY <1>2
    DEF Receive, PostToDirectory, PostToFile, Lock, LookUp, StatForGet, GenerateFileName,
        IsPost, answer
  <2>2. status[c] = 0 BY <1>a, <2>1 DEF PositionInv
  <2>3. QED BY <2>1, <2>2 DEF Posted, Fetched
<1>3. CASE Refuse(c) \/ NotFound(c) \/ PostFails(c) \/ NamingFails(c) \/ Open(c)
  <2>1. status'[c] \in {0, Refusal(c), 404, 500}
    BY <1>3, <1>a
    DEF Functional, Refuse, NotFound, PostFails, NamingFails, Open, Respond, ResponseError, answer,
        PositionInv
  <2>2. QED BY <2>1, RefusalType DEF Posted, Fetched
<1>4. CASE FileHead(c)
  <2>1. Method(c) = "HEAD" /\ UNCHANGED request BY <1>4 DEF FileHead, locals
  <2>2. QED BY <2>1 DEF Posted, Fetched, Method
<1>5. CASE ReadFile(c)
  <2>1. /\ pc[c] = "loading" /\ UNCHANGED locals
        /\ \/ status'[c] = 500
           \/ status'[c] = 200 /\ body'[c] = ReadBytes(c)
    BY <1>5, <1>a DEF ReadFile, ResponseGet, ResponseError, Respond, Functional
  <2>2. Method(c) = "GET" BY <1>a, <2>1 DEF PositionInv
  <2>3. QED BY <1>5, <2>1, <2>2 DEF Posted, Fetched, Method, locals
<1>6. CASE Write(c)
  <2>1. UNCHANGED locals /\ pc[c] = "writing" BY <1>6 DEF Write
  <2>2. Method(c) = "POST" BY <1>a, <2>1 DEF PositionInv, Posting, Locked
  <2>3. QED BY <1>6, <2>1, <2>2 DEF Posted, Fetched, Method, locals
<1>7. QED BY <1>1, <1>2, <1>3, <1>4, <1>5, <1>6 DEF Step, Talks, Reads, Posts

LEMMA ExtendsTransitive ==
  ASSUME NEW S, NEW r \in Seq(S), NEW s \in Seq(S), NEW t \in Seq(S),
         Extends(r, s), Extends(s, t)
  PROVE  Extends(r, t)
<1>1. Len(r) \in Nat /\ Len(s) \in Nat /\ Len(t) \in Nat OBVIOUS
<1>2. QED BY <1>1 DEF Extends

LEMMA DoneSteps ==
  ASSUME TypeInv, WritingInv, SizeInv, DoneInv, [Next]_vars
  PROVE  DoneInv'
<1>a. TypeOK /\ TypeOK' BY TypeSteps DEF TypeInv
<1>b. stored \subseteq stored' BY StoredGrows
\* Whoever had success still has it.
<1>1. ASSUME NEW d \in Connections,
             UNCHANGED <<request[d], file[d], status[d]>>
      PROVE  Posted(d) => file'[d] \in stored'
  BY <1>b, <1>1 DEF DoneInv
<1>2. ASSUME NEW d \in Connections, Fetched(d), UNCHANGED <<file[d], body[d]>>
      PROVE  file'[d] \in stored' /\ Extends(body'[d], content'[file'[d]])
  <2>1. file[d] \in stored /\ file[d] \in Files /\ Extends(body[d], content[file[d]])
    BY <1>a, <1>2 DEF DoneInv, TypeOK
  <2>2. Extends(content[file[d]], content'[file[d]]) BY <2>1, ContentGrows
  <2>3. /\ content[file[d]] \in Seq(Blocks) /\ content'[file[d]] \in Seq(Blocks)
        /\ body[d] \in Seq(Blocks)
    BY <1>a, <2>1 DEF TypeOK
  <2>4. Extends(body[d], content'[file[d]]) BY <2>1, <2>2, <2>3, ExtendsTransitive
  <2>5. QED BY <1>b, <1>2, <2>1, <2>4
<1>3. ASSUME NEW d \in Connections, UNCHANGED <<request[d], file[d], status[d], body[d]>>
      PROVE  /\ Posted(d)' \/ Fetched(d)' => file'[d] \in stored'
             /\ Fetched(d)' => Extends(body'[d], content'[file'[d]])
  <2>1. (Posted(d)' <=> Posted(d)) /\ (Fetched(d)' <=> Fetched(d))
    BY <1>3 DEF Posted, Fetched, Method
  <2>2. QED BY <1>1, <1>2, <1>3, <2>1
<1>4. CASE Die \/ UNCHANGED vars
  BY <1>3, <1>4 DEF Die, vars, locals, answer, DoneInv
<1>5. ASSUME NEW c \in Connections, Step(c) PROVE DoneInv'
  <2>1. \A d \in Connections : d # c => UNCHANGED <<request[d], file[d], status[d], body[d]>>
    BY <1>5, <1>a, OthersKept DEF Kept
  <2>2. ASSUME Posted(c)' PROVE file'[c] \in stored'
    <3>1. file'[c] = file[c] /\ (Posted(c) \/ Write(c)) BY <1>5, <2>2, Successes
    <3>2. CASE Posted(c) BY <1>b, <3>1, <3>2 DEF DoneInv
    <3>3. CASE Write(c) BY <1>b, <3>1, <3>3 DEF Write, WritingInv
    <3>4. QED BY <3>1, <3>2, <3>3
  <2>3. ASSUME Fetched(c)'
        PROVE  file'[c] \in stored' /\ Extends(body'[c], content'[file'[c]])
    <3>1. /\ UNCHANGED file[c]
          /\ \/ Fetched(c) /\ UNCHANGED body[c]
             \/ ReadFile(c) /\ body'[c] = ReadBytes(c)
      BY <1>5, <2>3, Successes
    <3>2. CASE Fetched(c) /\ UNCHANGED body[c] BY <1>2, <3>1, <3>2
    <3>3. CASE ReadFile(c) /\ body'[c] = ReadBytes(c)
      <4>1. pc[c] = "loading" /\ content' = content BY <3>3 DEF ReadFile, files
      <4>2. file[c] \in stored /\ file[c] \in Files /\ size[c] <= Len(content[file[c]])
        BY <1>a, <4>1 DEF SizeInv, TypeOK
      <4>3. content[file[c]] \in Seq(Blocks) /\ size[c] \in Nat BY <1>a, <4>2 DEF TypeOK
      <4>4. Extends(ReadBytes(c), content[file[c]])
        BY <4>2, <4>3, SubSeqParts DEF Extends, ReadBytes
      <4>5. QED BY <1>b, <3>1, <3>3, <4>1, <4>2, <4>4
    <3>4. QED BY <3>1, <3>2, <3>3
  <2>4. QED BY <1>3, <2>1, <2>2, <2>3 DEF DoneInv
<1>6. QED BY <1>4, <1>5, StepOrDie

\* The whole body of k is in what has been read.
Holds(s, k) == \E i \in 1 .. Len(s) : s[i] = Block(k, TRUE)

\* Of the requests answered before c came: if they had success on the file that
\* c reads, then c finds it, and sees what they have written or seen.
Sees(c, k) ==
  (Posted(k) \/ Fetched(k)) /\ file[k] = Resource(Path(c)) =>
    /\ status[c] # 404
    /\ SeenBy(c) # Nothing =>
         /\ Posted(k) /\ request[k].length > 0 /\ k \notin cut => Holds(SeenBy(c), k)
         /\ Fetched(k) => Extends(body[k], SeenBy(c))

ViewOf(c) ==
  /\ known[c] \subseteq delivered
  /\ request[c] # Nothing /\ Method(c) = "GET" => \A k \in known[c] : Sees(c, k)

ViewInv == \A c \in Connections : ViewOf(c)

LEMMA DeliveredStays ==
  ASSUME TypeInv, [Next]_vars, NEW k \in delivered
  PROVE  /\ k \in delivered'
         /\ UNCHANGED <<request[k], file[k], status[k], body[k]>>
         /\ k \in cut' <=> k \in cut
<1>a. TypeOK /\ k \in Connections /\ pc[k] = "over" BY DEF TypeInv, TypeOK, PositionInv
<1>1. CASE Die \/ UNCHANGED vars BY <1>1 DEF Die, vars, locals, answer, history
<1>2. ASSUME NEW c \in Connections, Step(c)
      PROVE  /\ k \in delivered'
             /\ UNCHANGED <<request[k], file[k], status[k], body[k]>>
             /\ k \in cut' <=> k \in cut
  <2>1. k # c BY <1>2, <1>a, OnlyStatLoads
  <2>2. QED BY <1>2, <1>a, <2>1, OthersKept DEF Kept
<1>3. QED BY <1>1, <1>2, StepOrDie

\* What a step of c changes in the parts of ViewInv about c.
LEMMA ViewSteps ==
  ASSUME TypeInv, WritingInv, SizeInv, NEW c \in Connections, Step(c)
  PROVE  \/ /\ pc[c] \in {"reading", "ignored"} /\ known'[c] = delivered
            /\ status'[c] = 0 /\ SeenBy(c)' = Nothing
         \/ /\ known'[c] = known[c] /\ request'[c] = request[c]
            /\ \/ status'[c] # 404 \/ status[c] = 404
               \/ Method(c) # "GET" \/ Resource(Path(c)) \notin stored
<1>a. Functional /\ TypeOK /\ PositionInv(c) BY AreFunctions DEF TypeInv
<1>1. CASE Accept(c) \/ Malformed(c) \/ Deliver(c) \/ Breaks(c)
  BY <1>1 DEF Accept, Malformed, Deliver, Breaks, locals, answer, history
<1>2. CASE \E r \in Requests[c] : Receive(c, r)
  <2>1. /\ pc[c] \in {"reading", "ignored"} /\ pc'[c] = "handling" /\ known'[c] = delivered
        /\ status' = status /\ file' = file
    BY <1>2, <1>a DEF Functional, Receive, Goto, answer
  <2>2. status[c] = 0 /\ file[c] = Nothing BY <1>a, <2>1 DEF PositionInv, Waiting
  <2>3. QED BY <2>1, <2>2 DEF SeenBy
<1>3. CASE NotFound(c) BY <1>3 DEF NotFound, locals, history
<1>4. CASE Refuse(c) \/ FileHead(c) \/ ReadFile(c)
  <2>1. known' = known /\ request' = request
    BY <1>4 DEF Refuse, FileHead, ReadFile, locals, history
  <2>2. status'[c] \in {Refusal(c), 200, 500}
    BY <1>4, <1>a
    DEF Functional, Refuse, FileHead, ReadFile, Respond, ResponseError, ResponseHead, ResponseGet
  <2>3. QED BY <2>1, <2>2, RefusalType
<1>5. CASE StatForGet(c) BY <1>5 DEF StatForGet, answer, history
<1>6. CASE Posts(c) \/ PostFails(c) \/ NamingFails(c)
  <2>1. Method(c) = "POST"
    BY <1>6, <1>a
    DEF Posts, PositionInv, Posting, Locked, PostToDirectory, PostToFile, Lock, PostFails, NamingFails,
        GenerateFileName, LookUp, Open, Write, IsPost
  <2>2. known' = known /\ request' = request
    BY <1>6
    DEF Posts, PostToDirectory, PostToFile, Lock, GenerateFileName, LookUp, Open, PostFails, NamingFails,
        Write, locals, history
  <2>3. QED BY <2>1, <2>2
<1>7. QED BY <1>1, <1>2, <1>3, <1>4, <1>5, <1>6 DEF Step, Talks, Reads

LEMMA ViewHolds ==
  ASSUME TypeInv, WritingInv, SizeInv, DoneInv, ViewInv,
         \A c \in Connections : StoreInv(c), [Next]_vars
  PROVE  ViewInv'
<1>a. TypeOK BY DEF TypeInv
<1>b. delivered \subseteq delivered' BY DeliveredStays
<1>c. \A k \in delivered : /\ (Posted(k)' <=> Posted(k)) /\ (Fetched(k)' <=> Fetched(k))
                           /\ UNCHANGED <<file[k], request[k], body[k]>>
                           /\ k \in cut' <=> k \in cut
  BY DeliveredStays DEF Posted, Fetched, Method
<1>d. ASSUME NEW c \in Connections, NEW k \in delivered,
             UNCHANGED <<request[c]>>, status'[c] # 404,
             SeenBy(c)' # Nothing /\ (Posted(k) \/ Fetched(k))
                /\ file[k] = Resource(Path(c)) =>
               /\ Posted(k) /\ request[k].length > 0 /\ k \notin cut => Holds(SeenBy(c)', k)
               /\ Fetched(k) => Extends(body[k], SeenBy(c)')
      PROVE  Sees(c, k)'
  <2>1. Resource(Path(c))' = Resource(Path(c)) BY <1>d DEF Resource, Path
  <2>2. Holds(SeenBy(c), k)' <=> Holds(SeenBy(c)', k) BY DEF Holds, Block
  <2>3. Extends(body[k], SeenBy(c))' <=> Extends(body'[k], SeenBy(c)') BY DEF Extends
  <2>4. QED BY <1>c, <1>d, <2>1, <2>2, <2>3 DEF Sees
\* Nothing is new to c.
<1>1. ASSUME NEW c \in Connections, UNCHANGED <<known[c], request[c]>>,
             status'[c] # 404 \/ status[c] = 404,
             SeenBy(c)' \in {SeenBy(c), Nothing}
      PROVE  ViewOf(c)'
  <2>1. known[c] \subseteq delivered /\ known'[c] \subseteq delivered'
    BY <1>b, <1>1 DEF ViewInv, ViewOf
  <2>2. ASSUME request'[c] # Nothing, Method(c)' = "GET", NEW k \in known'[c]
        PROVE  Sees(c, k)'
    <3>1. Sees(c, k) BY <1>1, <2>2 DEF ViewInv, ViewOf, Method
    <3>2. k \in delivered BY <1>1, <2>1
    <3>3. CASE ~((Posted(k) \/ Fetched(k)) /\ file[k] = Resource(Path(c)))
      <4>1. Resource(Path(c))' = Resource(Path(c)) BY <1>1 DEF Resource, Path
      <4>2. QED BY <1>c, <3>2, <3>3, <4>1 DEF Sees
    <3>4. CASE (Posted(k) \/ Fetched(k)) /\ file[k] = Resource(Path(c))
      <4>1. status'[c] # 404 BY <1>1, <3>1, <3>4 DEF Sees
      <4>2. SeenBy(c)' # Nothing =>
              /\ Posted(k) /\ request[k].length > 0 /\ k \notin cut => Holds(SeenBy(c)', k)
              /\ Fetched(k) => Extends(body[k], SeenBy(c)')
        BY <1>1, <3>1, <3>4 DEF Sees
      <4>3. QED BY <1>1, <1>d, <3>2, <4>1, <4>2
    <3>5. QED BY <3>3, <3>4
  <2>3. QED BY <2>1, <2>2 DEF ViewOf
<1>2. ASSUME Die \/ UNCHANGED vars PROVE ViewInv'
  <2>1. \A c \in Connections : SeenBy(c)' \in {SeenBy(c), Nothing}
    <3>1. CASE Die BY <3>1, DieForgets
    <3>2. CASE UNCHANGED vars BY <3>2, SeenByKept DEF vars, locals, answer
    <3>3. QED BY <1>2, <3>1, <3>2
  <2>2. UNCHANGED <<known, request, status>> BY <1>2 DEF Die, vars, locals, answer, history
  <2>3. QED BY <1>1, <2>1, <2>2 DEF ViewInv
<1>3. ASSUME NEW c \in Connections, Step(c) PROVE ViewInv'
  <2>1. ASSUME NEW d \in Connections, d # c PROVE ViewOf(d)'
    <3>1. UNCHANGED <<known[d], request[d], status[d]>> /\ SeenBy(d)' = SeenBy(d)
      BY <1>3, <1>a, <2>1, OthersKept, SeenByKept DEF Kept
    <3>2. QED BY <1>1, <3>1
  <2>2. ASSUME known'[c] = delivered, status'[c] = 0, SeenBy(c)' = Nothing
        PROVE  ViewOf(c)'
    <3>1. ASSUME NEW k \in known'[c] PROVE Sees(c, k)' BY <2>2 DEF Sees
    <3>2. QED BY <1>b, <2>2, <3>1 DEF ViewOf
  <2>3. ASSUME known'[c] = known[c], request'[c] = request[c],
               \/ status'[c] # 404 \/ status[c] = 404
               \/ Method(c) # "GET" \/ Resource(Path(c)) \notin stored
        PROVE  ViewOf(c)'
    <3>1. known[c] \subseteq delivered BY DEF ViewInv, ViewOf
    <3>2. ASSUME request'[c] # Nothing, Method(c)' = "GET", NEW k \in known'[c]
          PROVE  Sees(c, k)'
      <4>1. /\ k \in known[c] /\ k \in delivered /\ k \in Connections
            /\ request[c] # Nothing /\ Method(c) = "GET" /\ Sees(c, k)
        BY <1>a, <2>3, <3>1, <3>2 DEF ViewInv, ViewOf, Method, TypeOK
      <4>2. Resource(Path(c))' = Resource(Path(c)) BY <2>3 DEF Resource, Path
      <4>3. CASE ~((Posted(k) \/ Fetched(k)) /\ file[k] = Resource(Path(c)))
        BY <1>c, <4>1, <4>2, <4>3 DEF Sees
      <4>4. CASE (Posted(k) \/ Fetched(k)) /\ file[k] = Resource(Path(c))
        \* The answer that is known has left its trace in the file.
        <5>1. /\ file[k] \in stored
              /\ Posted(k) /\ request[k].length > 0 /\ k \notin cut
                   => Holds(content[file[k]], k)
              /\ Fetched(k) => Extends(body[k], content[file[k]])
          BY <4>1, <4>4 DEF DoneInv, StoreInv, Posted, Holds
        <5>2. status'[c] # 404 BY <2>3, <4>1, <4>4, <5>1 DEF Sees
        <5>3. SeenBy(c)' \in {SeenBy(c), Nothing, content[file[k]]}
          BY <1>3, <4>4, SeenSteps DEF SeenStep
        <5>4. SeenBy(c)' # Nothing =>
                /\ Posted(k) /\ request[k].length > 0 /\ k \notin cut => Holds(SeenBy(c)', k)
                /\ Fetched(k) => Extends(body[k], SeenBy(c)')
          BY <4>1, <4>4, <5>1, <5>3 DEF Sees
        <5>5. QED BY <1>d, <2>3, <4>1, <5>2, <5>4
      <4>5. QED BY <4>3, <4>4
    <3>3. QED BY <1>b, <2>3, <3>1, <3>2 DEF ViewOf
  <2>4. ViewOf(c)' BY <1>3, <2>2, <2>3, ViewSteps
  <2>5. QED BY <2>1, <2>4 DEF ViewInv
<1>4. QED BY <1>2, <1>3, StepOrDie

\* What ReadsSeeAnswers says of c and k.
Agree(c, k) ==
  /\ Succeeded(k) => /\ status[c] = 200
                     /\ request[k].length > 0 /\ k \notin cut
                        => Block(k, TRUE) \in Range(body[c])
  /\ Method(k) = "GET" /\ status[k] = 200 =>
       /\ status[c] = 200
       /\ body[k] = SubSeq(body[c], 1, Len(body[k]))

LEMMA ReadsAgree ==
  ReadsSeeAnswers <=> \A c \in delivered : Method(c) = "GET" /\ status[c] \in {200, 404} =>
                        \A k \in known[c] : file[k] = Resource(Path(c)) => Agree(c, k)
BY DEF ReadsSeeAnswers, Agree

LEMMA ViewIsSeen ==
  ASSUME TypeInv, SizeInv, DoneInv, ViewInv
  PROVE  ReadsSeeAnswers
<1> SUFFICES ASSUME NEW c \in delivered, Method(c) = "GET", status[c] \in {200, 404},
                    NEW k \in known[c], file[k] = Resource(Path(c))
             PROVE  Agree(c, k)
  BY ReadsAgree
<1>a. TypeOK BY DEF TypeInv
<1>1. c \in Connections /\ k \in delivered /\ k \in Connections
  BY <1>a DEF ViewInv, ViewOf, TypeOK
<1>2. request[c] # Nothing /\ request[k] # Nothing /\ pc[c] # "loading"
  BY <1>1 DEF TypeInv, PositionInv
<1>3. body[c] \in Seq(Blocks) /\ body[k] \in Seq(Blocks) /\ Nothing \notin Seq(Blocks)
  BY <1>a, <1>1, SeenType DEF TypeOK
<1>4. ASSUME Posted(k) \/ Fetched(k)
      PROVE  /\ status[c] = 200
             /\ Posted(k) /\ request[k].length > 0 /\ k \notin cut => Holds(body[c], k)
             /\ Fetched(k) => Extends(body[k], body[c])
  <2>1. status[c] = 200 BY <1>1, <1>2, <1>4 DEF ViewInv, ViewOf, Sees
  <2>2. file[c] \in stored BY <1>1, <1>2, <2>1 DEF DoneInv, Fetched
  <2>3. file[c] # Nothing BY <1>a, <2>2, FileServerConstants DEF TypeOK
  <2>4. SeenBy(c) = body[c] BY <1>2, <2>1, <2>3 DEF SeenBy
  <2>5. QED BY <1>1, <1>2, <1>3, <1>4, <2>1, <2>4 DEF ViewInv, ViewOf, Sees
<1>5. ASSUME Succeeded(k)
      PROVE  /\ status[c] = 200
             /\ request[k].length > 0 /\ k \notin cut => Block(k, TRUE) \in Range(body[c])
  <2>1. Posted(k) BY <1>2, <1>5 DEF Posted, Succeeded
  <2>2. DOMAIN body[c] = 1 .. Len(body[c]) BY <1>3
  <2>3. QED BY <1>4, <2>1, <2>2 DEF Holds, Range
<1>6. ASSUME Method(k) = "GET", status[k] = 200
      PROVE  status[c] = 200 /\ body[k] = SubSeq(body[c], 1, Len(body[k]))
  <2>1. Fetched(k) BY <1>2, <1>6 DEF Fetched
  <2>2. status[c] = 200 /\ Extends(body[k], body[c]) BY <1>4, <2>1
  <2>3. Len(body[k]) \in Nat /\ Len(body[k]) <= Len(body[k]) BY <1>3
  <2>4. SubSeq(body[c], 1, Len(body[k])) = SubSeq(body[k], 1, Len(body[k]))
    BY <1>3, <2>2, <2>3, BeginningKept
  <2>5. SubSeq(body[k], 1, Len(body[k])) = body[k] BY <1>3
  <2>6. QED BY <2>2, <2>4, <2>5
<1>7. QED BY <1>5, <1>6 DEF Agree

\* A GET sees every POST to its file that was answered before the GET came, and
\* all that an earlier GET has returned, although it does not take the lock and
\* reads the size and the content at different moments.
THEOREM AnswersAreSeen == Spec => []ReadsSeeAnswers
<1> DEFINE AllStored == \A c \in Connections : StoreInv(c)
<1>1. Init => SizeInv BY DEF Init, SizeInv
<1>2. Init => DoneInv BY DEF Init, DoneInv, Posted, Fetched
<1>3. Init => ViewInv BY DEF Init, ViewInv, ViewOf
<1>4. TypeInv /\ WritingInv /\ SizeInv /\ [Next]_vars => SizeInv' BY SizeSteps
<1>5. TypeInv /\ WritingInv /\ SizeInv /\ DoneInv /\ [Next]_vars => DoneInv' BY DoneSteps
<1>6. TypeInv /\ WritingInv /\ SizeInv /\ DoneInv /\ ViewInv /\ AllStored /\ [Next]_vars
      => ViewInv'
  BY ViewHolds
<1>7. TypeInv /\ SizeInv /\ DoneInv /\ ViewInv => ReadsSeeAnswers BY ViewIsSeen
<1>8. Spec => [](TypeInv /\ WritingInv /\ AllStored) BY StoreInvariant
<1> HIDE DEF AllStored
<1>9. QED BY <1>1, <1>2, <1>3, <1>4, <1>5, <1>6, <1>7, <1>8, PTL DEF Spec
=============================================================================
