----------------------------- MODULE ProxyCache -----------------------------
(***************************************************************************)
(* The client workers of the proxy around its cache.  A worker looks a GET *)
(* up, forwards it to one of the backends on a miss, and hands the answer  *)
(* to a store thread; it forwards a POST to one of them and, when that one *)
(* answers 200, invalidates the key of a GET of the same path.  The cache, *)
(* its store threads, cleaner, clock and restart are those of CacheManager.*)
(*                                                                         *)
(* Each backend has files of its own. A POST changes one of them, and the  *)
(* copies the proxy makes of it change others, later, several times (when  *)
(* they are retried) or never: Replication has the threads that do so. The *)
(* contents of a resource are numbered, and each change of a file makes a  *)
(* new one: files and bodies that have a number in common are the same.    *)
(* HEAD, which is never served from the cache, and requests that are not   *)
(* cacheable pass through and are left out.                                *)
(***************************************************************************)
EXTENDS CacheManager

CONSTANTS
  Workers,            \* the worker threads
  Backends,           \* the backends that requests are balanced over
  Resources,          \* the files that a backend may have
  ResourceOf,         \* the file behind a cache key
  MaxContent,         \* bound: how many contents a resource may have
  ForwardFailures,    \* "answer": a POST that is answered with an error, or not,
                      \* is applied all the same;
                      \* "cut": the connection ends within the answer to a GET;
                      \* "thread": the store thread cannot be created
  MaxLeaked           \* bound: how many bodies may be leaked

ASSUME ProxyWorkersAssumption == IsFiniteSet(Workers) /\ IsFiniteSet(StoreThreads)
ASSUME ResourcesAssumption == ResourceOf \in [Keys -> Resources]
ASSUME ContentAssumption == MaxContent \in Nat /\ 0 .. MaxContent + 1 \subseteq BodyLengths
ASSUME MaxLeakedAssumption == MaxLeaked \in Nat

VARIABLES
  held,               \* the content of each backend's files, 0 if there is none
  coming,             \* <<b, r>>: b may still apply a POST on r that was copied
                      \* to it, or that it has not answered
  job,                \* the request of each worker
  bodies,             \* response bodies not yet freed (one may be NULL)
  leaked,             \* those of them that no thread refers to any more
  excused             \* history: <<k, n>>: content n of k was replaced, or k
                      \* invalidated, where that could not end a copy of it

backendVars == <<held, coming>>
proxyVars == <<backendVars, job, bodies, leaked, excused>>
allVars == <<vars, proxyVars>>

\* A body that was cut short is empty, or a beginning of some content.
Beginning == MaxContent + 1
Bodies == 0 .. Beginning

Free == [pc |-> "free"]
Methods == {"GET", "POST"}
\* 404 stands for every error that a backend answers with, 502 for no answer.
Statuses == {200, 201, 404, 502}
Jobs == {Free}
        \cup [pc : {"lookup", "forward"}, method : Methods, key : Keys]
        \cup [pc : {"answered"}, method : Methods, key : Keys,
              status : Statuses, length : Bodies]

ProxyTypeOK ==
  /\ held \in [Backends -> [Resources -> 0 .. MaxContent]]
  /\ coming \subseteq Backends \X Resources
  /\ job \in [Workers -> Jobs]
  /\ bodies \in Nat
  /\ leaked \in 0 .. MaxLeaked
  /\ excused \subseteq Keys \X (1 .. MaxContent)

ProxyInit ==
  /\ Init
  /\ held \in [Backends -> [Resources -> 0 .. MaxContent]]
  /\ coming = {}
  /\ job = [w \in Workers |-> Free]
  /\ bodies = 0 /\ leaked = 0
  /\ excused = {}

-----------------------------------------------------------------------------
(* Copies of what the backends hold *)

Contents(r) == {held[b][r] : b \in Backends}

Is(w, label, method) == job[w].pc = label /\ job[w].method = method

\* The answer that w has in hand is going to be stored.
MustStore(w) == Is(w, "answered", "GET") /\ job[w].status = 200

\* The bodies that workers and store threads are about to put into the cache.
UnderWay(k) ==
  {job[w].length : w \in {v \in Workers : MustStore(v) /\ job[v].key = k}}
  \cup {store[t].length : t \in {u \in StoreThreads : store[u] # Idle /\ store[u].key = k}}

Cached(k) == IF disk[k].exists THEN {disk[k].length} ELSE {}

\* Copies of keys K that have the given content.
CopiesOf(K, n) ==
  {<<k, n>> : k \in {j \in K : n > 0 /\ n \in UnderWay(j) \cup Cached(j)}}

\* Those of B that are, or were, what a backend holds, and are not any more.
Outdated(k, B) ==
  (B \cap (1 .. MaxContent)) \ Contents(ResourceOf[k])

-----------------------------------------------------------------------------
(* A request and the cache *)

\* A request has been read and parsed.
Receive(w, m, k) ==
  /\ running /\ job[w] = Free
  /\ job' = [job EXCEPT ![w] = [pc |-> IF m = "GET" THEN "lookup" ELSE "forward",
                                method |-> m, key |-> k]]
  /\ UNCHANGED <<vars, backendVars, bodies, leaked, excused>>

\* CacheLookUp returns a response, which is sent, and its body is freed.
LookUpHit(w) ==
  /\ Is(w, "lookup", "GET") /\ lock = "nobody"
  /\ Hit(job[w].key)
  /\ job' = [job EXCEPT ![w] = Free]
  /\ UNCHANGED <<vars, backendVars, bodies, leaked, excused>>

LookUpMiss(w) ==
  /\ Is(w, "lookup", "GET") /\ lock = "nobody"
  /\ \/ LookUpExpires(job[w].key)
     \/ /\ ~(job[w].key \in indexed /\ Expired(job[w].key))
        /\ Hit(job[w].key) => "alloc" \in Failures
        /\ UNCHANGED vars
  /\ job' = [job EXCEPT ![w].pc = "forward"]
  /\ UNCHANGED <<backendVars, bodies, leaked, excused>>

-----------------------------------------------------------------------------
(* ConnectToBackendAndForward *)

\* The body that an answer carries: 502 is made up by the proxy without one.
BodyOf(status) == IF status = 502 THEN 0 ELSE 1

Answered(w, status, length) ==
  /\ job' = [job EXCEPT ![w] = [pc |-> "answered", method |-> @.method,
                                key |-> @.key, status |-> status,
                                length |-> length]]
  /\ bodies' = bodies + BodyOf(status)

\* Any backend may be selected, whether or not it has got all POSTs.
ForwardGet(w) ==
  /\ Is(w, "forward", "GET")
  /\ \/ \E n \in Contents(ResourceOf[job[w].key]) \ {0} : Answered(w, 200, n)
     \/ Answered(w, 404, 0)
     \/ Answered(w, 502, 0)
  /\ UNCHANGED <<vars, backendVars, leaked, excused>>

\* The connection ends after the head: what there is of the body counts as all.
ForwardGetCut(w) ==
  /\ Is(w, "forward", "GET") /\ "cut" \in ForwardFailures
  /\ Contents(ResourceOf[job[w].key]) # {0}
  /\ Answered(w, 200, 0) \/ Answered(w, 200, Beginning)
  /\ UNCHANGED <<vars, backendVars, leaked, excused>>

SameFile(k) == {j \in Keys : ResourceOf[j] = ResourceOf[k]}

\* Backend b appends to its file of r, which has a new content.
Appends(b, r) ==
  \E n \in 1 .. MaxContent :
    /\ \A c \in Backends : held[c][r] < n
    /\ \E c \in Backends : held[c][r] = n - 1
    /\ held' = [held EXCEPT ![b][r] = n]

\* The backend appends, or creates the file, and says which, and the POST is copied
\* to others; or it does not apply the POST, or not before the proxy has given up.
ForwardPost(w) ==
  /\ Is(w, "forward", "POST")
  /\ LET k == job[w].key
         r == ResourceOf[k] IN
       \/ \E b \in Backends :
            /\ Appends(b, r)
            /\ coming' = coming \cup (Backends \ {b}) \X {r}
            /\ \/ held[b][r] = 0 /\ Answered(w, 201, 0) /\ UNCHANGED excused
               \/ /\ held[b][r] > 0 /\ Answered(w, 200, 0)
                  /\ excused' = excused \cup CopiesOf(SameFile(k) \ {k}, held[b][r])
       \/ /\ Answered(w, 404, 0) \/ Answered(w, 502, 0)
          /\ \/ UNCHANGED coming
             \/ "answer" \in ForwardFailures /\ \E b \in Backends : coming' = coming \cup {<<b, r>>}
          /\ UNCHANGED <<held, excused>>
  /\ UNCHANGED <<vars, leaked>>

\* A POST on r reaches b that the proxy is not waiting for; the cache is told nothing.
Arrives(b, r) ==
  /\ <<b, r>> \in coming
  /\ Appends(b, r)
  /\ excused' = excused \cup CopiesOf({k \in Keys : ResourceOf[k] = r}, held[b][r])
  /\ UNCHANGED <<vars, coming, job, bodies, leaked>>

-----------------------------------------------------------------------------
(* After the answer has been sent to the client *)

Fault_InvalidatesCreated(w) == Is(w, "answered", "POST") /\ job[w].status = 201

MustInvalidate(w) == Is(w, "answered", "POST") /\ job[w].status = 200

Fault_AlwaysFreed(w) == BodyOf(job[w].status)

\* What the worker frees: nothing if bodyOwnedByCacheThread.
FreedByWorker(w) == IF MustStore(w) THEN 0 ELSE BodyOf(job[w].status)

Finished(w) ==
  /\ job' = [job EXCEPT ![w] = Free]
  /\ bodies' = bodies - FreedByWorker(w)
  /\ UNCHANGED backendVars

CacheInvalidateByRequest(w) ==
  /\ MustInvalidate(w)
  /\ CacheInvalidate(job[w].key)
  /\ excused' = excused \cup
       {job[w].key} \X Outdated(job[w].key, UnderWay(job[w].key))
  /\ Finished(w)
  /\ UNCHANGED leaked

\* CacheStoreAsync starts a thread, which owns the body. When it fails to, the
\* worker takes the body for owned all the same.
StoreInBackground(w) ==
  /\ MustStore(w)
  /\ \/ /\ \E t \in StoreThreads : CacheStoreAsync(t, job[w].key, job[w].length)
        /\ UNCHANGED leaked
     \/ /\ "thread" \in ForwardFailures
        /\ leaked < MaxLeaked /\ leaked' = leaked + 1
        /\ UNCHANGED vars
  /\ Finished(w)
  /\ UNCHANGED excused

OnlyAnswer(w) ==
  /\ job[w].pc = "answered" /\ ~MustInvalidate(w) /\ ~MustStore(w)
  /\ Finished(w)
  /\ UNCHANGED <<vars, leaked, excused>>

Work(w) == \/ LookUpHit(w) \/ LookUpMiss(w)
           \/ ForwardGet(w) \/ ForwardGetCut(w) \/ ForwardPost(w)
           \/ CacheInvalidateByRequest(w) \/ StoreInBackground(w) \/ OnlyAnswer(w)

-----------------------------------------------------------------------------
(* The steps of CacheManager *)

\* CacheStoreWorker frees the body when CacheStore returns.
StoreWorker(t) ==
  /\ Store(t)
  /\ bodies' = IF store'[t] = Idle THEN bodies - 1 ELSE bodies
  /\ UNCHANGED <<backendVars, job, leaked, excused>>

Background ==
  /\ \/ CleanerStart \/ CleanerDone \/ \E k \in Keys : CleanerVisit(k)
     \/ Tick \/ Restart
  /\ UNCHANGED proxyVars

\* A backend has applied a POST on k whose worker has yet to invalidate k.
Pending(k) == \E w \in Workers : MustInvalidate(w) /\ job[w].key = k

Die ==
  /\ Crash
  /\ job' = [w \in Workers |-> Free]
  /\ bodies' = 0 /\ leaked' = 0
  /\ excused' = excused \cup
       UNION {{k} \X Outdated(k, Cached(k)) : k \in {j \in Keys : Pending(j)}}
  /\ UNCHANGED backendVars

ProxyNext ==
  \/ \E w \in Workers : Work(w) \/ \E m \in Methods, k \in Keys : Receive(w, m, k)
  \/ \E t \in StoreThreads : StoreWorker(t)
  \/ \E b \in Backends, r \in Resources : Arrives(b, r)
  \/ Background \/ Die

ProxySpec == ProxyInit /\ [][ProxyNext]_allVars

\* Only the clock, the cleaner and the holder of the lock have to go on.
FairProxySpec == ProxySpec /\ Fairness

-----------------------------------------------------------------------------
(* Properties *)

\* Every response body has one owner that will free it, once: the worker that
\* has the answer in hand, or the store thread it was given to. The only bodies
\* that nobody frees are those for which no store thread could be created.
BodiesAreOwned ==
  bodies = Cardinality({w \in Workers : job[w].pc = "answered" /\ BodyOf(job[w].status) = 1})
           + Cardinality({t \in StoreThreads : store[t] # Idle})
           + leaked

\* What some backend would answer a GET of k with now.
Current(k) == disk[k].length \in Contents(ResourceOf[k])

\* Once the POSTs that a backend answered with 200 have been handled, no hit
\* serves content from before one of them ("Invalidar caché si es POST exitoso").
PostInvalidates == \A k \in Keys : Served(k) /\ ~Pending(k) => Current(k)

\* A hit that serves what no backend holds any more has a cause: the answer that
\* was stored was cut short, a POST has not been invalidated yet, its invalidation
\* found no entry for a file that was there and a restart has loaded it, or the
\* very content served was replaced on its backend by a POST that the proxy was
\* not told of or that used another key, or by the copy of one, or was under way
\* into the cache when k was invalidated, or the proxy died before that. Nothing
\* else, no 201, no failed store, no expiry and no selection of a backend, makes
\* a hit outdated.
CoherentUnlessRaced ==
  \A k \in Keys :
    /\ Served(k) /\ ~Pending(k) /\ ~disk[k].stale
    /\ disk[k].length # Beginning /\ <<k, disk[k].length>> \notin excused
    => Current(k)

\* However outdated copies got into the cache, and however often the process is
\* restarted: when the POSTs, their copies and the answers cut short cease, so do
\* the hits that serve what no backend holds.
EventuallyCoherent ==
  <>[][\A w \in Workers : ~ForwardGetCut(w)]_allVars
    => <>[](\A k \in Keys : Served(k) => Current(k))
=============================================================================
