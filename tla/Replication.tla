---------------------------- MODULE Replication ----------------------------
(***************************************************************************)
(* The replication of POSTs.  A worker forwards a POST to one backend, its *)
(* origin, and when the origin says it has applied it, starts one detached *)
(* thread for each other backend that is believed healthy.  Each thread    *)
(* sends the POST up to MaxAttempts times, until it reads a status of 200  *)
(* or 201, and marks its target unhealthy when it never does.              *)
(*                                                                         *)
(* Connections break at any time: before the backend has acted on what it  *)
(* was sent, after it has, or while it is going to.  What a backend has    *)
(* applied is appended to its files: applied[b] is the order in which they *)
(* grew.  The forward of a POST is its attempt 0.  The proxy's process may *)
(* die with all its threads, while what they have sent is still acted on.  *)
(***************************************************************************)
EXTENDS Integers, Sequences, Functions

CONSTANTS
  BackendCount,     \* lb->BackendCount
  Posts,            \* the POSTs that clients send
  MaxAttempts,      \* attempts < 3 in replicatorWorker
  Failures          \* what may fail: a subset of FailureKinds

FailureKinds == {"connect", "break", "refuse", "thread", "die", "proxy", "hang"}

Backends == 0 .. BackendCount - 1
Nowhere == BackendCount

ASSUME ReplicationConstants ==
  /\ BackendCount \in Nat /\ MaxAttempts \in Nat \ {0}
  /\ Failures \subseteq FailureKinds

VARIABLES
  healthy,          \* lb->BackendNodes[b].healthy
  applied,          \* the attempts b has applied, in order
  requests,         \* attempts sent that b has not acted upon
  answers,          \* answers 200 and 201 under way
  forward,          \* of each POST: position of its worker, origin, loop index
  copy,             \* of each POST and backend: its replicator thread
  precedes,         \* history: <<p, q>>: p had been replicated when q was sent
  excused           \* history: <<p, b>>: b was not believed healthy at some
                    \* time since p was accepted, or got no thread for p, or
                    \* the proxy died before the copy of p to b had ended

netVars == <<requests, answers>>
history == <<precedes, excused>>
vars == <<healthy, applied, netVars, forward, copy, history>>

Attempts == [post : Posts, to : Backends, number : 0 .. MaxAttempts]
Attempt(p, b, n) == [post |-> p, to |-> b, number |-> n]

Forwards == [pc : {"new", "waiting", "replicating", "ended"},
             origin : Backends \cup {Nowhere}, next : 0 .. BackendCount]
Active == {"trying", "waiting", "marking"}
Copies == [pc : Active \cup {"none", "done", "failed", "lost"},
           attempts : 0 .. MaxAttempts]

TypeOK ==
  /\ healthy \in [Backends -> BOOLEAN]
  /\ applied \in [Backends -> Seq(Attempts)]
  /\ requests \subseteq Attempts /\ answers \subseteq Attempts
  /\ forward \in [Posts -> Forwards]
  /\ copy \in [Posts -> [Backends -> Copies]]
  /\ precedes \subseteq Posts \X Posts
  /\ excused \subseteq Posts \X Backends

Init ==
  /\ healthy \in [Backends -> BOOLEAN]
  /\ applied = [b \in Backends |-> <<>>]
  /\ requests = {} /\ answers = {}
  /\ forward = [p \in Posts |-> [pc |-> "new", origin |-> Nowhere, next |-> 0]]
  /\ copy = [p \in Posts |-> [b \in Backends |-> [pc |-> "none", attempts |-> 0]]]
  /\ precedes = {} /\ excused = {}

-----------------------------------------------------------------------------
(* ConnectToBackendAndForward, for a POST *)

\* Everything the proxy will ever do about p is done, at the first attempt.
Replicated(p) ==
  /\ forward[p].pc = "replicating" /\ forward[p].next = BackendCount
  /\ \A b \in Backends : \/ copy[p][b].pc = "none"
                         \/ copy[p][b].pc = "done" /\ copy[p][b].attempts = 1

\* b is selected, the connection made, and the request sent.
ForwardSend(p, b) ==
  /\ forward[p].pc = "new" /\ healthy[b]
  /\ forward' = [forward EXCEPT ![p] = [pc |-> "waiting", origin |-> b, next |-> 0]]
  /\ requests' = requests \cup {Attempt(p, b, 0)}
  /\ precedes' = precedes \cup {q \in Posts : Replicated(q)} \X {p}
  /\ UNCHANGED <<healthy, applied, answers, copy, excused>>

\* Nobody to connect to: 502, and nothing is replicated.
ForwardFails(p) ==
  /\ forward[p].pc = "new"
  /\ "connect" \in Failures \/ \A b \in Backends : ~healthy[b]
  /\ forward' = [forward EXCEPT ![p].pc = "ended"]
  /\ UNCHANGED <<healthy, applied, netVars, copy, history>>

Doubted(p) == {<<p, b>> : b \in {c \in Backends : ~healthy[c]} \ {forward[p].origin}}

\* The loop of ReplicatorReplicate begins.
StartReplicating(p) ==
  /\ forward' = [forward EXCEPT ![p].pc = "replicating"]
  /\ answers' = answers \ {Attempt(p, forward[p].origin, 0)}
  /\ excused' = excused \cup Doubted(p)
  /\ UNCHANGED <<healthy, applied, requests, copy, precedes>>

ForwardAnswered(p) ==
  /\ forward[p].pc = "waiting"
  /\ Attempt(p, forward[p].origin, 0) \in answers
  /\ StartReplicating(p)

Fault_EndNotNoticed(a) == a \in requests \cup answers /\ "break" \in Failures

\* No answer is coming for a, or the connection that carries it breaks.
NoAnswer(a) == a \notin requests \cup answers \/ "break" \in Failures

\* Another status than 200 and 201, or none, resets shouldReplicate.
StopForward(p) ==
  /\ forward' = [forward EXCEPT ![p].pc = "ended"]
  /\ answers' = answers \ {Attempt(p, forward[p].origin, 0)}
  /\ UNCHANGED <<healthy, applied, requests, copy, history>>

ForwardUnanswered(p) ==
  /\ forward[p].pc = "waiting"
  /\ NoAnswer(Attempt(p, forward[p].origin, 0))
  /\ StopForward(p)

-----------------------------------------------------------------------------
(* ReplicatorReplicate *)

Fault_OriginToo(p, b) == b \in Backends

IsTarget(p, b) == b # forward[p].origin

\* healthy is read without the lock; no memory or no thread skips b as well.
ReplicateTo(p, b) ==
  /\ forward[p].pc = "replicating" /\ forward[p].next = b
  /\ forward' = [forward EXCEPT ![p].next = b + 1]
  /\ \/ ~(IsTarget(p, b) /\ healthy[b]) /\ UNCHANGED <<copy, excused>>
     \/ /\ IsTarget(p, b) /\ healthy[b]
        /\ copy' = [copy EXCEPT ![p][b].pc = "trying"]
        /\ UNCHANGED excused
     \/ /\ IsTarget(p, b) /\ healthy[b] /\ "thread" \in Failures
        /\ excused' = excused \cup {<<p, b>>}
        /\ UNCHANGED copy
  /\ UNCHANGED <<healthy, applied, netVars, precedes>>

-----------------------------------------------------------------------------
(* replicatorWorker *)

Current(p, b) == Attempt(p, b, copy[p][b].attempts)

Fault_OneMoreAttempt(n) == n <= MaxAttempts

MayRetry(n) == n < MaxAttempts

\* Attempt n did not succeed.
AfterFailure(n) == IF MayRetry(n) THEN "trying" ELSE "marking"

\* CreateClientSocket or SendHTTPRequest fails. A request of which only a part
\* was sent is not acted upon.
TryFails(p, b) ==
  /\ copy[p][b].pc = "trying"
  /\ "connect" \in Failures
  /\ copy' = [copy EXCEPT ![p][b] = [pc |-> AfterFailure(@.attempts + 1),
                                     attempts |-> @.attempts + 1]]
  /\ UNCHANGED <<healthy, applied, netVars, forward, history>>

Fault_SendIsSuccess == "done"

\* What the thread does after sending the request: it reads the status line.
AfterSend == "waiting"

TrySends(p, b) ==
  /\ copy[p][b].pc = "trying"
  /\ copy' = [copy EXCEPT ![p][b] = [pc |-> AfterSend,
                                     attempts |-> @.attempts + 1]]
  /\ requests' = requests \cup {Attempt(p, b, copy[p][b].attempts + 1)}
  /\ UNCHANGED <<healthy, applied, answers, forward, history>>

ReadsSuccess(p, b) ==
  /\ copy[p][b].pc = "waiting" /\ Current(p, b) \in answers
  /\ copy' = [copy EXCEPT ![p][b].pc = "done"]
  /\ answers' = answers \ {Current(p, b)}
  /\ UNCHANGED <<healthy, applied, requests, forward, history>>

\* The end of the stream, an error or another status, whether or not the
\* backend has applied the attempt, or is still going to.
ReadsNoSuccess(p, b) ==
  /\ copy[p][b].pc = "waiting" /\ NoAnswer(Current(p, b))
  /\ copy' = [copy EXCEPT ![p][b].pc = AfterFailure(copy[p][b].attempts)]
  /\ answers' = answers \ {Current(p, b)}
  /\ UNCHANGED <<healthy, applied, requests, forward, history>>

\* Any POST that has been accepted and b, when b is found unhealthy.
DoubtedFrom(b) ==
  {p \in Posts : forward[p].pc = "replicating" /\ forward[p].origin # b} \X {b}

SetUnhealthy(b) == /\ healthy' = [healthy EXCEPT ![b] = FALSE]
                   /\ excused' = excused \cup DoubtedFrom(b)

Fault_NotMarked(b) == UNCHANGED <<healthy, excused>>

\* The locked region at the end of the thread.
MarkUnhealthy(b) == SetUnhealthy(b)

GivesUp(p, b) ==
  /\ copy[p][b].pc = "marking"
  /\ copy' = [copy EXCEPT ![p][b].pc = "failed"]
  /\ MarkUnhealthy(b)
  /\ UNCHANGED <<applied, netVars, forward, precedes>>

-----------------------------------------------------------------------------
(* The backends, and the health check *)

\* Whether the connection of a is still open at the proxy's end.
Awaited(a) ==
  \/ a.number = 0 /\ forward[a.post].pc = "waiting"
  \/ a.number > 0 /\ copy[a.post][a.to] = [pc |-> "waiting", attempts |-> a.number]

Fault_ServedAgain(a) == requests

\* A backend reads a request from its connection once.
Taken(a) == requests \ {a}

\* The backend applies an attempt and says so, if anybody still listens.
Serve(a) ==
  /\ a \in requests
  /\ requests' = Taken(a)
  /\ applied' = [applied EXCEPT ![a.to] = Append(@, a)]
  /\ answers' = answers \cup (IF Awaited(a) THEN {a} ELSE {})
  /\ UNCHANGED <<healthy, forward, copy, history>>

Refuse(a) ==
  /\ "refuse" \in Failures
  /\ a \in requests
  /\ requests' = requests \ {a}
  /\ UNCHANGED <<healthy, applied, answers, forward, copy, history>>

\* The process of b ends and another takes its place; its files remain. (While
\* there is none, connections fail.) A replicator that closes its connection
\* after the status line may itself be the cause: the backend still sends the
\* rest of its answer, and a send to a closed connection raises SIGPIPE.
Die(b) ==
  /\ "die" \in Failures
  /\ requests' = {a \in requests : a.to # b}
  /\ UNCHANGED <<healthy, applied, answers, forward, copy, history>>

\* The health check revises its belief, rightly or not.
HealthVerdict(b) ==
  /\ \/ healthy' = [healthy EXCEPT ![b] = TRUE] /\ UNCHANGED excused
     \/ SetUnhealthy(b)
  /\ UNCHANGED <<applied, netVars, forward, copy, precedes>>

\* Copies that end with the proxy, those of which the thread was not started yet
\* included.
Interrupted(p, b) ==
  \/ copy[p][b].pc \in Active
  \/ forward[p].pc = "replicating" /\ b >= forward[p].next /\ b # forward[p].origin

\* A send to a client that has left raises SIGPIPE: all workers and replicator
\* threads are gone, and another process probes the backends anew. Their connections end with them.
ProxyDies ==
  /\ "proxy" \in Failures
  /\ forward' = [p \in Posts |->
       CASE forward[p].pc = "waiting" -> [forward[p] EXCEPT !.pc = "ended"]
         [] forward[p].pc = "replicating" -> [forward[p] EXCEPT !.next = BackendCount]
         [] OTHER -> forward[p]]
  /\ copy' = [p \in Posts |-> [b \in Backends |->
       IF copy[p][b].pc \in Active THEN [copy[p][b] EXCEPT !.pc = "lost"] ELSE copy[p][b]]]
  /\ healthy' \in [Backends -> BOOLEAN]
  /\ excused' = excused
       \cup {e \in Posts \X Backends : Interrupted(e[1], e[2])}
       \cup UNION {DoubtedFrom(b) : b \in {c \in Backends : ~healthy'[c]}}
  /\ answers' = {}
  /\ UNCHANGED <<applied, requests, precedes>>

-----------------------------------------------------------------------------

Worker(p) == \/ ForwardAnswered(p) \/ ForwardUnanswered(p)
             \/ \E b \in Backends : ReplicateTo(p, b)

ReplicatorWorker(p, b) == \/ TryFails(p, b) \/ TrySends(p, b)
                          \/ ReadsSuccess(p, b) \/ ReadsNoSuccess(p, b)
                          \/ GivesUp(p, b)

Backend(b) == \E a \in requests : a.to = b /\ (Serve(a) \/ Refuse(a))

Next ==
  \/ \E p \in Posts : ForwardFails(p) \/ Worker(p)
  \/ \E p \in Posts, b \in Backends : ForwardSend(p, b) \/ ReplicatorWorker(p, b)
  \/ \E b \in Backends : Backend(b) \/ Die(b) \/ HealthVerdict(b)
  \/ ProxyDies

Spec == Init /\ [][Next]_vars

\* What a thread does by itself. One that has sent its attempt is in recv, without
\* a timeout: it goes on when there is an answer, or when the backend has closed
\* the connection. Nothing makes a silent connection break.
Proceeds(p, b) ==
  \/ TryFails(p, b) \/ TrySends(p, b) \/ ReadsSuccess(p, b) \/ GivesUp(p, b)
  \/ Current(p, b) \notin requests /\ ReadsNoSuccess(p, b)

\* Threads are scheduled, and a backend that does not hang acts on what it was
\* sent (it is sent a bounded number of attempts, so it comes to each of them).
Fairness ==
  /\ \A p \in Posts, b \in Backends : WF_vars(Proceeds(p, b))
  /\ "hang" \notin Failures => \A b \in Backends : WF_vars(Backend(b))

FairSpec == Spec /\ Fairness

-----------------------------------------------------------------------------
(* Properties *)

Applied(p, b) == \E a \in Range(applied[b]) : a.post = p

\* A status of 200 or 201 is believed, and rightly: a backend that a worker or
\* a replicator thread takes for successful has applied that very attempt,
\* although connections break and answers to abandoned attempts come late.
SuccessIsApplied ==
  /\ \A p \in Posts : forward[p].pc = "replicating" =>
       Attempt(p, forward[p].origin, 0) \in Range(applied[forward[p].origin])
  /\ \A p \in Posts, b \in Backends :
       copy[p][b].pc = "done" => Current(p, b) \in Range(applied[b])

\* A backend that lacks a POST which the origin was known to have applied and
\* all copies of which have ended has been out of rotation at least once since
\* then, or got no thread, or the proxy died before the copy had ended: while
\* the proxy lives and has threads, no POST is lost on a backend that has been
\* in rotation all the time. (Nothing brings the POST to it later.)
LaggardsWereDoubted ==
  \A p \in Posts, b \in Backends :
    /\ forward[p].pc = "replicating" /\ forward[p].next = BackendCount
    /\ copy[p][b].pc \notin Active
    /\ b # forward[p].origin
    /\ ~Applied(p, b)
    => <<p, b>> \in excused

\* Two POSTs of which one was sent after the other had been replicated without
\* a retry have the same order on every backend that has both. (Concurrent
\* ones, and those with an attempt that was given up, have any order.)
ReplicatedInOrder ==
  \A b \in Backends : \A i, j \in DOMAIN applied[b] :
    <<applied[b][i].post, applied[b][j].post>> \in precedes => i < j

\* Only a retry repeats a POST: its origin, and a backend whose first attempt
\* was answered, have applied it once, whatever broke before and since.
AppliedOnce ==
  \A p \in Posts, b \in Backends :
    /\ forward[p].pc = "replicating"
    /\ b = forward[p].origin \/ copy[p][b] = [pc |-> "done", attempts |-> 1]
    => \E i \in DOMAIN applied[b] :
         \A j \in DOMAIN applied[b] : applied[b][j].post = p <=> j = i

Content(b) == [i \in DOMAIN applied[b] |-> applied[b][i].post]
Agreed(b, c) ==
  LET P == {p \in Posts : Applied(p, b) \/ Applied(p, c)} IN
    /\ \A p \in P : Replicated(p) /\ {<<p, b>>, <<p, c>>} \cap excused = {}
    /\ \A p, q \in P : p # q => <<p, q>> \in precedes \/ <<q, p>> \in precedes

\* A POST that succeeds at the first attempt is applied once, and two backends
\* hold the same POSTs in the same order once every POST that either has
\* applied is replicated without a retry, none of them found either backend out
\* of rotation, and each was sent after the one before it had been replicated.
\* This is all the agreement there is: without any of the three conditions the
\* files of the backends may differ, for good.
ReplicasAgree ==
  /\ AppliedOnce
  /\ \A b, c \in Backends : Agreed(b, c) => Content(b) = Content(c)

\* The content of the backends changes only as PostDelivery allows.
Origins == [p \in Posts |->
              IF \E b \in Backends : Attempt(p, b, 0) \in Range(applied[b])
              THEN forward[p].origin ELSE Nowhere]
Holdings == [b \in Backends |->
               [i \in DOMAIN applied[b] |-> <<applied[b][i].post, applied[b][i].number>>]]

Delivery == INSTANCE PostDelivery WITH origin <- Origins, holds <- Holdings
DeliveredAsPromised == Delivery!Spec

\* Every replicator thread comes to an end, having copied its POST or given up,
\* however often connections break, as long as no backend keeps a connection
\* open in silence: when the POSTs cease, so do the copies.
CopiesEnd ==
  <>[](\A p \in Posts, b \in Backends : copy[p][b].pc \notin Active)

\* No attempt takes for ever, whatever the backend does: what comments say of the
\* timeout of each attempt: ReplicatorWorker.c:21 ("timeout por intento") and
\* Replicator.c:58 ("default timeout per attempt"). Only the connect has one.
AttemptsEnd ==
  \A p \in Posts, b \in Backends :
    copy[p][b].pc = "waiting" ~> copy[p][b].pc # "waiting"
=============================================================================
