# A formal model of the Telematics Web Server

The repository holds two programs in C. `pibl` is a reverse proxy: it balances requests over
backend servers, caches their answers, and replicates POSTs from one backend to the others.
`server` is the origin that runs behind it. This directory models both, checks the models with
TLC on small instances, and proves their safety properties with TLAPS for all values of the
constants.

## 1. Inventory

| Component | State | Operations | Talks to |
|---|---|---|---|
| LoadBalancer (`LoadBalancer/loadBalancer.c`) | per backend `healthy`, `FailureCount` (8 bit), `ActiveConnections` (16 bit); `rrIndex`; one mutex | create, select, increment, decrement | called by workers; read by the replicator without the lock |
| HealthCheck (`LoadBalancer/HealthCheck.c`) | position in the loop, verdict of the running probe | every 30 s probe each backend in turn, apply the verdict | load balancer, backends |
| ProxyWorker (`Worker/ProxyWorker.c`) | per connection: request buffer, message, owner of the response body | read a request, look it up, forward it, answer, invalidate, hand the response to a store thread | all of the others |
| Replicator (`Replicator.c`, `ReplicatorWorker.c`) | per copy: attempts, success | one detached thread per healthy backend other than the origin, up to three attempts, mark the target unhealthy | load balancer, backends |
| CacheManager (`CacheManager/*.c`) | index (hash table), `entryCount`, one file per entry, one mutex | lookup, store (detached thread), invalidate, periodic cleanup, reload at start | called by workers |
| Socket (`Socket/Socket.c`) | file descriptors | connect with a timeout, send, read a response up to the end of the stream | backends, clients |
| HTTP parsers (`HttpParser/*.c`, `Includes/HttpUtils.c`) | none | request head and sizes, response head, URI | workers of both programs |
| HttpServer (`HttpServer/src/*.c`) | the files under `www`, `_writeMutex` | GET, HEAD, POST; one thread and one request per connection | clients, the proxy |
| Log, Config, `main.c` | log file; configuration | append lines; read once; start the threads | everybody |

What is hard, and what has to be right:

* **LoadBalancer and HealthCheck.** Threads select under the lock and forward without it; the
  probe runs without it too and its verdict is applied later; replicators mark nodes at any
  time. Selection must remain fair while health changes, connection counters exact on each error
  path, failure counters right although they wrap, dead backends must leave and live ones
  return.
* **CacheManager.** An entry lives in two places, memory and disk, and every operation has to
  keep them together although files may be cut short, the index may be full, allocation may fail
  and the process may die anywhere: it is killed by SIGPIPE when a client has closed its
  connection (`SendToClient` sends without `MSG_NOSIGNAL`).
* **ProxyWorker.** The order of answering, invalidating and storing, against the same steps of
  other workers and of detached store threads.
* **Replicator.** Connections that break after the backend has acted, so that a retry repeats
  what was already applied, or that stay open in silence; replicas that were skipped; the order
  of POSTs that independent threads copy; threads that die with the proxy.
* **Socket and HTTP parsers.** Requests and answers arrive in pieces of any size: what belongs
  to the head, to the body and to the next request, which buffer is full, which socket has to be
  closed on which of the many ways out.
* **HttpServer.** Check-then-act on files, with the mutex on one path and without it on the
  other; reads beside writes; a disk that is full; a process that dies with all its threads.

`PROJECT.json` lists these hazards line by line with the properties that cover them.

## 2. Modules

    FairSelection          what the load balancer promises
      ^ implemented by
    LoadBalancer           balancer, health check, forwards, backends
      ^ extended by MCLoadBalancer (TLC), LoadBalancerProof (TLAPS)

    CacheManager           index, files, store threads, cleaner, death and restart
      ^ extended by MCCacheManager (TLC), CacheManagerProof (TLAPS)
    ProxyCache             CacheManager with the client workers and the files of the backends
      ^ extended by MCProxyCache (TLC), ProxyCacheProof (TLAPS, with CacheManagerProof)

    PostDelivery           what replication does to the content of the backends
      ^ implemented by
    Replication            forwarded POSTs, replicator threads, backends that apply them
      ^ extended by MCReplication (TLC), ReplicationProof (TLAPS)

    FileStore              what the origin does to its files
      ^ implemented by
    FileServer             the threads of the origin, from accept to answer
      ^ extended by MCFileServer (TLC), FileServerProof (TLAPS)

    Exchange               what a client connection promises
      ^ implemented by
    ProxyConnection        one client connection of the proxy and its byte streams
      ^ extended by MCProxyConnection (TLC), ProxyConnectionProof (TLAPS)

    NaturalOrder           facts about the natural numbers (TLAPS)

`Nothing`, `Nobody` and `Nowhere` are values outside of the sets they are used with. Definitions
named `Fault_...` are no part of a specification: each is a plausible mistake in the definition
that follows it, and shows that the properties are able to notice it.

### LoadBalancer

One action per region that runs under `lb->lock`, and one per step between such regions that
touches the network.

| Code | Model |
|---|---|
| `LoadBalancerCreate` | `Init`: any verdicts, no connections, `rrIndex` 0 |
| `LoadBalancerSelectBackend` | `SelectBackend(w)`: the first healthy candidate from `rrIndex`, or the node of zeros (`EmptyNode`) |
| `CreateClientSocket` fails / succeeds | `ConnectFails` (possible whatever the backend does) / `ConnectSucceeds` with the increment |
| `SendHTTPRequest` | `SendSucceeds`, `SendFails` with the decrement |
| `ReadHTTPResponse` | `ReadResponse` with the decrement; it is only sure to happen when `ReadMustEnd` |
| `HealthCheckLoop`, `HealthCheckBackend` | `HealthWake`, `HealthConnect`, `HealthRead`, `ApplyVerdict` |
| end of `replicatorWorker` | `ReplicatorMarksUnhealthy(b)`, at any time |
| backends | `ServerChanges(b)`: up, down, or hung (connections are accepted and never answered) |

`pc[w]` and `backend[w]` are the position of worker w in `ConnectToBackendAndForward` and its
copy of the node. `bypassed[b]` is history: the selections of other nodes since b became healthy
or was last selected. The code does not have it; it makes fairness of the rotation a state
property. `FailureCountModulus` is 256 in the code.

`FairSelection` states the promise without `rrIndex`: a request goes to a healthy backend, and
only if no other healthy backend has been passed over `BackendCount - 1` times already.
`SelectionIsFair` says that `LoadBalancer` implements it; all other variables are hidden.

### CacheManager

| Code | Model |
|---|---|
| `cache->lock` | `lock`: nobody, the cleaner, or a store thread. Lookup and invalidation run wholly under the lock and are one step |
| `cache->table`, `entryCount` | `indexed`, `stamp` (age of the timestamp), `entryCount` |
| a cache file | `disk[k]`: exists, header complete, stated length, body bytes present, age of the timestamp |
| `CacheLookUp` | `Hit(k)` says what it returns; `LookUpExpires(k)` is the only case that changes state |
| `CacheStoreAsync`, `CacheStoreWorker`, `CacheStore` | `CacheStoreAsync` starts a store; `StoreOpen` (truncates the file), `StoreWrite`, `StoreClose`, `StoreIndex` |
| `cacheInvalidate` | `CacheInvalidate(k)` |
| `CacheCleanupWorker` | `CleanerStart`, `CleanerVisit(k)`, `CleanerDone` |
| `cacheLoadFromDisk` in `CacheManagerCreate` | `Restart`: any choice of as many loadable files as fit |
| death of the process | `Crash`: memory is lost, files stay as they are |

The store is several steps, all under the lock, because the process can die between them and
because the clock moves: the timestamp in the file and the one in the index are taken
separately. `Failures` chooses what may fail: `open`, `write` (of the file, which is then
removed), `flush` (`fclose` loses buffered bytes, and nobody looks), `alloc` (of an entry).
`disk[k].stale` is history: an invalidation of k has left the file in place.

Time is the age of timestamps; `Tick` ages them all. Ages above `MaxAge` are not told apart,
which is sound since all comparisons are with smaller values.

### ProxyCache

Extends `CacheManager` with the request handling of the workers around the cache; the cache
actions are used as they are, and `vars` is theirs.

| Code | Model |
|---|---|
| `worker` after a request was parsed | `Receive(w, m, k)`: GET goes to the lookup, POST is forwarded |
| `CacheLookUp` in `worker` | `LookUpHit`, `LookUpMiss` (not there, expired, unreadable, or no memory for it) |
| `ConnectToBackendAndForward` | `ForwardGet` (any backend answers), `ForwardGetCut` (its connection ends within the body), `ForwardPost` |
| copies of POSTs, and POSTs that were given up, reaching a backend | `Arrives(b, r)` |
| answer, then `CacheInvalidateByRequest`, or `CacheStoreAsync`, or neither | `CacheInvalidateByRequest(w)`, `StoreInBackground(w)`, `OnlyAnswer(w)` |
| `CacheStoreWorker` | `StoreWorker(t)`: the steps of `Store(t)`; the last one frees the body |
| SIGPIPE | `Die`: `Crash` of the cache, all requests are lost; the backends keep their files |

`held[b][r]` is the content of file r at backend b. Requests are balanced over all backends, and
these need not agree: a POST reaches one of them, and others later, several times or never.
`coming` are the backends that may still apply a POST on r; none is ever taken out of it, so a
copy may be applied any number of times, or not, which is more than `Replication` does. Contents
of a resource are numbered, and each append makes a new one, also where two backends have
applied the same POSTs: that is stricter than need be. A cached or fetched body is the content
of one backend's file at the time of the fetch, so it is compared by number (it is the length of
the body for `CacheManager`). A connection that ends within a 200 leaves an empty body or a
`Beginning`, which the code caches like any other. `ResourceOf` says which file a cache key
names; it need not be injective, since keys contain the value of Host and a path that is not
normalised (a GET of `/dir/` becomes `/dir//index.html`, a POST does not).

A hit is compared with what *some* backend holds (`Current`): that is what a GET that is not
served from the cache would get. That the backends agree is another question, and
`ReplicasAgree` answers it. `bodies` counts the response bodies that have an owner, among them
the pointer of an empty one, which may be NULL; `leaked` those that no thread holds. `excused`
is history, of pairs of a key and a content: that content was replaced on its backend by a POST
of which the cache was not told (a copy, or one without an answer) or which used another key, or
it was under way into the cache when its key was invalidated, or the proxy died before that.

The answer to the client and the cache step after it touch no common state, so they are one
action that happens after the answer; the window in which the client has the answer and the
cache still has the old content is `Pending(k)`. 201 and 200 are kept apart because the code
invalidates for 200 only. The worker goes back to `Free`, for the next request of its connection
or of another one.

### Replication

| Code | Model |
|---|---|
| `ConnectToBackendAndForward` for a POST | `ForwardSend(p, b)`, `ForwardFails(p)`, `ForwardAnswered(p)` (200 or 201: `shouldReplicate`), `ForwardUnanswered(p)` |
| loop of `ReplicatorReplicate` | `ReplicateTo(p, b)`: one iteration; `healthy` is read in each, without the lock |
| loop of `replicatorWorker` | `TryFails`, `TrySends`, `ReadsSuccess`, `ReadsNoSuccess`, `GivesUp` (the locked region at its end) |
| backends | `Serve(a)`, `Refuse(a)` (another status), `Die(b)` |
| SIGPIPE | `ProxyDies`: workers and threads are gone, what they have sent is still acted on |
| `HealthCheckLoop` | `HealthVerdict(b)`: any verdict at any time; how it comes about is in `LoadBalancer` |

An attempt names its POST, its target and its number; the forward is attempt 0. An attempt is in
`requests` while the backend has not acted on it and in `answers` while a success is under way.
With "break" the proxy may give up an attempt that the backend applies later. `applied[b]` is
the order in which attempts took effect at b. A backend serves requests in any order (it has a
thread for each). Two histories serve the properties: `precedes` (p was wholly replicated before
q was sent) and `excused` (b was doubted, or got no thread for p, or the proxy died before p was
copied to b). A proxy that dies answers nobody, and leaves the backends as they are: requests
that were sent are still applied. A thread that has sent its attempt is in `recv` without a
timeout. With "break" its connection may end at any time, but nothing makes it end: `Proceeds`,
what a thread does by itself, has the end of a connection only after the backend has dealt with
the attempt. With "hang" backends need not do that.

`PostDelivery` states the effect on the backends alone: a POST takes effect first at one backend
and once; at others afterwards, at most once for each attempt: a backend holds a sequence, in
which a second application of one attempt would show. That is as much as the code provides. It
is weaker than "every backend applies every POST once": a retry may apply a POST again, a
backend out of rotation never gets it, and nothing brings it later. `LaggardsWereDoubted` says
who can be left out, `ReplicasAgree` where there is no repetition (`AppliedOnce`) and when the
backends end with the same content in spite of it all.

### FileServer

| Code | Model |
|---|---|
| `main`, `WorkerRun`, `RecvRequest` | `Accept`, `Malformed`, `Receive(c, r)`, `ClientLeaves` |
| `ProcessRequest` and its checks | `Refusal(c)`, `Refuse`, `NotFound` |
| `GetFileMetadata`, then `fopen` and `fread` | `StatForGet`, `ReadFile`: size and content are taken at different moments |
| HEAD | `FileHead` |
| `FilePost` | `PostToDirectory`, `PostToFile`, `PostFails` |
| `_writeMutex`, `GenerateFileName` | `Lock(c)`, `GenerateFileName(c, name)` (any of a few names: two may coincide), `NamingFails` (the return that keeps the mutex) |
| `WriteFile` | `LookUp`, `Open`, `Write`; the unlock is part of the step that leaves |
| `SendHTTPResponse` | `Deliver`, `DeliveryFails` (an error, or SIGPIPE) |
| death and restart | `Die`: all threads end, the files remain |

A file is a sequence of blocks, each the body of one request, whole or not. `request[c].headers`
is the set of the headers that matter. A request that cannot be parsed is "ignored": the thread
goes on reading. Methods without a handler (PUT, DELETE, OPTIONS) are "OTHER". `delivered`,
`cut` and `known` are histories. `HoldsLock(c)` is derived from the position; that the position
and the variable `_writeMutex` agree is the last conjunct of `TypeOK`. `LeftLocked(c)` are the
threads that return with the mutex because `GenerateFileName` has failed
(FileManager.c:111-114): `snprintf` has to fail for that, as the name always fits.

`FileStore` has no threads, lock or positions: a file is created, extended by one whole body (or
its beginning, when the disk is full), or read, in one step each. The refinement
`FilesAsPromised` maps a GET to the moment of `stat`: what `fread` returns later is what the
file held then, because files only grow.

### ProxyConnection

| Code | Model |
|---|---|
| `recv` loop of `worker`, `requestBuffer` | `Receive(n)`, `TooLarge(n)`, `ConnectionEnds` |
| `GetRequestSizes` | `HeadEnd`, `GetRequestSizes`, `Incomplete`, `KeepReading`, `BadSizes` (answered, and the connection closed: "rejecting") |
| `ParseHTTPRequest`, `UriParse` | the statuses of `ParseHTTPRequest`; `AnswerError`, `StartForward`, `ParseDies` |
| `SerializeHTTPRequest` | `AsForwarded`: as sent, cut, or mangled |
| `CreateClientSocket` | `SocketFails`, `OpenSocket`, `Connected`, `ConnectFails` |
| `SendHTTPRequest` | `SendRequest` (whole or, with "short", a part), `SendFails` |
| backend | `BackendAnswers`, `BackendBreaks` |
| `ReadHTTPResponse` | `ReadHead(n)`, `ReadBody(n)`, `HeadTooLarge(n)`, `NoMemory(n)`, `EndOfResponse` |
| `SendHTTPResponse`, `requestLen = 0` | `SendHTTPResponse`, `SendBadRequest`, `AnswerFails` (ignored, or SIGPIPE), `EmptyBuffer` |

The client's stream is a sequence of units: a head is two of them, a body any number. The
worker's buffer is the segment `first .. read` of it. The units of a response are numbered, so
that a lost, repeated or misplaced one shows in `body`. A `recv` returns any number of units
from one to `Chunk`. The request line and the header lines are not spelled out: the end of a
head carries what is wrong with it (`fault`), and `ParseHTTPRequest` says in which order the
code finds out. A head that is "long" has a URI or a header that `sscanf` and `strncpy` cut to
255 bytes: it is forwarded as what is left of it, and the check for a long URI (414) is never
reached. (A GET whose path ends in `/` is forwarded with `index.html` behind it; that is no
difference to the model.) After a client has sent ahead the buffer may begin within a request.
The code takes its first line for a request line if it has three words and a known method, so
`ParseHTTPRequest` allows 400, 405 and acceptance, and `GetRequestSizes` a Content-Length that
is found or missed. What is accepted goes out "mangled". "race" stands for the two threads that
call `strtok` at the same time. `pipelined` and `flawed` are histories: the client has sent
ahead; the connection that carries the present answer broke or memory ran out. `received` is
FALSE after a short send. Answers have the status of the backend (0 when its head could not be
parsed), which may be one that the proxy uses for its refusals; backends are assumed not to
answer 502.

`Exchange` has no streams, buffers or sockets: requests have their turn in order, in which each
is sent to a backend at most once and answered at most once, and none comes back. What was sent
is answered with a backend's status, what was not with a refusal or 502, so that a 502, and no
other status, tells that no backend got the request. `ExchangesAsPromised` maps the turn to
`current`; it holds even for clients that send ahead, for whom `AnsweredInOrder` does not.

## 3. Runs

| Run | Instance | Shows |
|---|---|---|
| `LoadBalancer_all` | 2 backends, 2 workers, counter modulo 2, no hangs, fairness | `SelectionIsFair`, `ActiveMatchesForwards`, `HealthyHasNoFailures`, `TypeOK`; `DownIsDetected`, `UpIsReadmitted`, `ForwardsEnd` |
| `LoadBalancer_hang` | 2 backends, one may hang, fairness | violates `PeriodicHealthCheck` |
| `Cache_safety` | 2 keys, 2 store threads, index of 1, all failures, crashes | `HitIsWhole`, `HitIsFresh`, `CountMatchesIndex`, `TypeOK` |
| `Cache_progress` | index of 2, only `open` may fail, fairness | `IndexedIsServed`, `ExpiredFilesPurged` |
| `Cache_resurrection` | index of 1, crashes | violates `NoResurrection` |
| `ProxyCache_coherence` | 1 key, 2 backends, 2 workers, 2 store threads, I/O and thread failures, cut and lost answers, crashes | `CoherentUnlessRaced`, `BodiesAreOwned`, `NoResurrection`, `ProxyTypeOK` |
| `ProxyCache_eventual` | 1 key, 2 backends, 1 worker, index of 1, failed writes and allocations, cut answers, crashes, fairness | `EventuallyCoherent`, `UnreadableEnds` |
| `ProxyCache_stale_fill` | 1 key, 1 backend, no failures | violates `PostInvalidates` |
| `Replication` | 2 backends, 2 POSTs, 2 attempts, all failures but silence, death of the proxy, fairness | `SuccessIsApplied`, `LaggardsWereDoubted`, `ReplicatedInOrder`, `ReplicasAgree`, `DeliveredAsPromised`, `CopiesEnd`, `TypeOK` |
| `Replication_silent` | the same, nothing fails but that backends may be silent | violates `AttemptsEnd` |
| `FileServer` | 3 connections, 2 files in 1 directory, all failures, fairness | `SuccessIsStored`, `ReadsSeeAnswers`, `CreatedByOne`, `FilesAsPromised`, `RequestsEnd`, `TypeOK` |
| `ProxyConnection` | 5 streams of 2 or 3 requests, 4 shapes of response, all failures, fairness | `ForwardedAsSent`, `AnsweredInOrder`, `BodiesAreExact`, `BodyFits`, `SocketsClosed`, `ExchangesAsPromised`, `RequestsAnswered`, `TypeOK` |

`NoResurrection` is checked where it should hold: with an index that has room. It is run in the
composition, where invalidations come from POSTs and stores from fetches. `CoherentUnlessRaced`
is checked with one name per file, where workers and store threads race, and is proved for any
names.

Why the bounds are enough. Two backends are the least for which one can be bypassed and
`rrIndex` wraps; two workers are the least that overlap selection with the forward of another
and share a backend. (The safety properties also hold of 3 backends, one of which may hang, and
2 workers, 1,959,092 states, and are proved for every number; without hangs the liveness
properties hold of 3 backends and 1 worker.) The counter wraps within a run because its modulus
is small (`FailureCountModulus` is 256 in the code). In the cache one key in the index and
another that finds it full is the least instance of a full index, and two store threads are the
least that compete for one key. In `ProxyCache_eventual` an entry may be unreadable because the
write that was to replace its file failed, and a file may be without entry because none could be
allocated. TTL is 1 (0 in `ProxyCache_coherence` and `ProxyCache_eventual`), so an entry is
fresh, at its limit and expired within three ticks; `MaxStoreSeconds` = 1 lets the clock move
inside a store. `MaxStoreSeconds` bounds how long one store holds the lock, measured in ticks;
it appears in `HitIsFresh` because the code takes two timestamps. In `ProxyCache` `MaxContent`
bounds how many contents a resource has over all backends. With 2, in the run for safety, it is
created and changed, or both backends have a content of their own, while two workers and two
store threads race; with 3, in the run for liveness, one backend may change while a copy of its
first content is cached and the other has a third. Two backends are the least whose files
differ. Two workers and two store threads allow a fetch, a POST and two stores of one key to
overlap in every order. The code starts a thread per response without limit; in the model a
worker that finds all `StoreThreads` busy waits, which only removes the behaviours with more
stores at once. `MaxLeaked` bounds the bodies leaked by failing thread creation.

In `Replication` two POSTs are the least that can be ordered, and two attempts the least for
which a retry repeats what was applied; with two backends either is the origin of a POST and the
target of another, at any time healthy or not. The proxy may die at any time, and go on as
another process with the POSTs that are still new. In `FileServer` one connection brings a POST
to the directory or to its index file, one a GET of the directory, and one any request, so two
POSTs race for a generated name or append to one file while a third thread reads it, before or
after the others were answered; there is one generated name, so names always coincide. In
`ProxyConnection` the buffer has room for 4 units, so that one request (3 units) fits with a
part of the next, and one of 5 does not; the accumulator has 4 and the heads of responses 1, 2
or 4, so a head may end with the accumulator and may come with a part of its body; a body of 4
units comes in pieces that make the buffer grow twice. Two of the four answers have statuses
that the proxy uses for its refusals. The streams hold each kind of flawed head, before and
after a good one.

Symmetry: workers, keys and store threads are interchangeable in the runs of the cache, and
backends in those of `ProxyCache`; symmetry is used in safety runs only.

Fairness. Threads are scheduled: a worker in a forward and the health check go on when they can
(weak fairness). A new request is the client's choice and has none. A worker that reads is only
sure to go on when the backend is not hung, because `ReadHTTPResponse` sets no timeout. A
backend that is up is assumed not to refuse every probe (strong fairness of `ProbeReaches`);
this is about the network, not the code. In the cache, the thread that holds the lock goes on,
time passes, and the cleaner gets the mutex in the end although others take it again and again
(strong fairness of `CleanerStart`); POSIX mutexes do not promise that, Linux futexes give it in
practice. `EventuallyCoherent` and `UnreadableEnds` need no fairness of the workers: an outdated
copy or an unreadable entry ages and expires whatever they do. Only the clock, the holder of the
lock and the cleaner must go on (`Fairness` of `CacheManager`). Since `MaxContent` bounds the
POSTs, it says what follows when POSTs cease; that the answers cut short cease as well is its
premise. In `Replication` the replicator threads are scheduled (`Proceeds`), and a backend acts,
in the end, on what it was sent: without timeouts on the proxy's reads `CopiesEnd` needs the
latter, and `Replication_silent` shows what happens without it. No connection is assumed to
break. In `FileServer` a thread that has a request goes on until it has an answer; when clients
send, whether they ever complete a request, and whether they read the answer, which `send` waits
for without a timeout, is up to them (`Deliver` has no fairness, and `RequestsEnd` ends with the
answer). In `ProxyConnection` the worker goes on (`Proceed`) and a backend answers a request
that has reached it whole; clients owe nothing, so sending them an answer (`AnswerClient`) has
no fairness, and `RequestsAnswered` ends there too.

The deadlock check is off where the system really comes to rest: in `FileServer` when all
connections are over, and in `ProxyConnection` when the connection is closed or a short send has
both ends waiting.

### Disagreements between the code and what it says of itself

1. `LoadBalancer_hang`: the health check reads an answer without timeout, so one hung backend
   ends the periodic check of all.
2. `Cache_resurrection`: `CacheStore` leaves a file without entry when the index is full;
   `cacheInvalidate` ignores keys without entry; the next start serves the file.
3. `Replication_silent`: the timeout per attempt that comments speak of limits the connect only;
   a backend that accepts a POST and says nothing keeps the replicator thread, and its retries
   never come.
4. `ProxyCache_stale_fill`: a GET that a backend answered before a POST may be stored after the
   invalidation of that POST, and is then served for a TTL.

The models make more things visible, where no document says otherwise. The file of a response
stored while the index was full is never cleaned up while the process runs (`ExpiredFilesPurged`
is therefore checked with room). When `CacheStoreAsync` cannot create its thread the body leaks
(`leaked`). `BodiesAreOwned` shows that nothing else leaks and nothing is freed twice. A
response without a body, as every response to HEAD, is stored on each request and never served,
since `CacheReadBody` returns NULL for it (hence the bodies that are not empty in
`IndexedIsServed`). And:

* `ProxyCache`. A backend that lacks a POST, for good or not yet, answers GETs, and the cache
  serves what it answered, also right after a POST to another backend has invalidated the key. A
  200 that was cut short is cached like a whole one. 201 does not invalidate.
* `Replication`. A retry may apply a POST again; a backend that was skipped, or whose thread
  gave up, lacks the POST for good, though the health check lets it back into rotation.
  Concurrent POSTs may have different orders on different backends, as may a POST with an
  abandoned attempt that is applied late. When the proxy dies, of one client that has left, the
  copies of all POSTs end where they are.
* `FileServer`. When the disk is full a POST is answered with 201 or 200 all the same (`cut`).
  Two POSTs to one new file, which take no lock, may both be answered with 201. A GET of an
  empty file is answered with 500, a HEAD of it with 200. A client that leaves before its
  request is complete ends the process, with all requests in progress. A POST for which no name
  can be composed keeps the mutex, and all POSTs to directories wait from then on.
* `ProxyConnection`. What a client sends ahead is dropped with the end of the request before it
  (hence `pipelined` in `AnsweredInOrder`), and the rest of that request, if it looks like one,
  is forwarded as a request that nobody sent ("mangled"). A long URI or header is cut and
  forwarded. After a short send the backend and the worker wait for each other. A response whose
  head cannot be parsed is passed on with status 0, and a status of 400, 405, 431 or 500 may be
  the backend's or the proxy's. A body cut short by a broken connection is passed on with the
  status of a whole one. The path that `UriParse` normalises is not used, but its status is; and it comes from
  `strtok`, whose position is shared by all threads, so a good URI may be refused.

## 4. Proofs

The theorems hold for every number of backends, workers, keys, resources, threads, POSTs,
attempts, connections, files and streams, every value of the limits and every choice of what may
fail. The assumptions are the named ones in the modules: at most 255 backends and fewer than
65536 workers, finite sets of keys, positive `MaxEntries` (`LoadBalancer`, `CacheManager`); the
types of the constants (`ReplicationConstants`, `FileServerConstants`, `ConnectionConstants`,
with backends that never answer 502); that a path names either a file, a directory or nothing
(`FileServerConstants`); and that streams consist of whole heads with no more body than they say
(`RequestsAreWhole`). Every safety property that a passing run checks is proved,
`NoResurrection` and `IndexedIsServed` under a condition that is named below (`Room`,
`Undisturbed`) and without which the code does not have them. The four abstract specifications,
`FairSelection`, `PostDelivery`, `FileStore` and `Exchange`, are shown to be implemented.

Load balancer, cache and proxy cache:

* `TypeCorrect`: `TypeOK` with `ConnectionsAreReal` (a worker that sends or reads holds a real
  backend, never the node of zeros).
* `ActiveConnectionsCorrect`: counters equal the cardinality of the set of connected workers.
  Inductive relative to `TypeInv`; the lemmas `ConnectionOpened`, `ConnectionClosed` say how the
  sets change. The guard `> 0` of the decrement is never false. `ConnectionsNeverWrap` follows:
  the 16 bits suffice.
* `BypassIsBounded`, `ImplementsFairSelection`: both from `RotationInv`. A bound on `bypassed`
  is not inductive alone, as it must be related to `rrIndex`: the number of times b was bypassed
  plus its distance ahead of `rrIndex` is less than `BackendCount`. `SelectionStep` shows that a
  selection moves everybody it passes nearer.
* `HealthyBackendsAreClean`: healthy implies a failure count of zero; follows from the invariant
  that both are written together.
* `CacheInvariant`, `EntryCountCorrect`: types, who may hold the lock in which step (`LockInv`),
  and the counter.
* `HitsAreWhole`, `HitsAreFresh`: from `FileInv`, which says of the file of each indexed key how
  its bytes relate to its header and its age to the age of its entry, except while a store is
  rewriting it.
* `FilesHaveEntries`, `NothingResurrectsWithRoom`: under `Room` (the index has room for every
  key and memory does not run out) a file with a complete header has an entry, or a store that
  is about to add it (`StaleInv`), so an invalidation that finds no entry leaves nothing behind
  that could be served. Without `Room` both are false: that is finding 2.

* `ImplementsCacheManager`: each step of `ProxyCache` is a step of `CacheManager` or leaves the
  cache alone; it needs `RequestInv` (types of requests, and a body about to be stored is not
  empty). `HitsInTheProxy` carries the theorems about hits over, `NoResurrectionInTheProxy` the
  two that need `Room`.
* `BodiesHaveOneOwner`, `ProxyTypeCorrect`: `bodies` is the number of workers with an answer in
  hand plus the number of busy store threads plus the leaked ones; each step changes the counter
  and the sets together. That the counter is a natural number (no double free) follows.
* `HitsAreCoherentUnlessRaced`: from `CopyInv`, which looks at all copies alike, in a worker, a
  store thread or a file that is `Live`: each is `Explained`, that is, cut short, or what some
  backend holds, or pending or excused. What an append replaces (`ChangedCopies`) is explained
  by `Pending` where the cache will be told (`PostedCopies`) and by `excused` where it will not
  (`ArrivedCopies`); what an invalidation leaves under way is excused (`InvalidatedCopies`).
  That every copy is one of those which `excused` looks at is `CopiesAreSeen`. A file that an
  invalidation has left in place is not live, and a store makes a new file of it, so nothing
  needs to be assumed of the index, of failures, of the number of backends, or of how many names
  a file has. `EventuallyCoherent` says how long that may last.

* `TypesOfLoadBalancer`, `TypesOfCache`: the type invariants that the runs check.
* `IndexedResponsesAreServed`: under `Undisturbed` (no write is cut short, no crashes, bodies
  that are not empty) an entry that has not expired is served, unless a store is rewriting its
  file. Files that cannot be opened and entries that cannot be allocated do no harm: the first
  leave file and index as they were, the second a file without an entry, never an entry without
  a file. An empty body is read back as NULL and is excluded.

Replication (`ReplicationProof`):

* `TypesOfReplication`: with `LoopInv`, which relates the positions of workers and threads to
  their loop variables: the number of attempts stays in its range because a thread that tries
  again has one left.
* `SuccessMeansApplied`: from `DeliveryInv`. What is under way or applied was sent (`Sent`),
  what waits to be acted upon was not applied yet, and an answer belongs to an applied attempt.
  The lemmas `ThreadAdvances` and `WorkerAdvances` say that the numbers of attempts only grow,
  so an attempt that is made is a new one.
* `ReplicationDelivers`: `Serve` is the only step that `PostDelivery` sees; it appends one entry
  to one sequence (`HoldingsGrow`), and `DeliveryInv` shows that the attempt it applies is new,
  and that attempt 0 belongs to the origin.
* `LaggardsAreDoubted`: `ExcuseInv` says of each backend in each phase of the loop and of the
  thread why a POST may be missing there; every transition to unhealthy adds the excuse for all
  POSTs under way, and the death of the proxy for all copies that end with it. Lemma `Deaths`
  says what that leaves of the workers and threads.
* `PostsAppliedOnce`: from `DistinctInv` (no backend applies an attempt twice). Where the first
  attempt succeeded no other was made (`OnlyTheFirst`).
* `PostsStayInOrder`: `OrderInv`. A POST that is `Replicated` leaves nothing that could still be
  applied (`ReplicatedIsQuiet`) and stays so (`ReplicatedIsStable`), and what is sent after it
  is therefore appended behind it.
* `ReplicasEndEqual`: two backends that were never doubted hold the same POSTs (`ExcuseInv`),
  each once (`DistinctInv`), in the order in which they were sent (`OrderInv`). That two such
  sequences are equal is lemma `SameOrder` of `NaturalOrder`: at the first place where they
  differed, each would have the element of the other later, and one of them out of order.
* `EveryTryCounts`: `Left` counts the steps that a replicator thread can still take; each step
  that changes a thread's state lowers it, whatever breaks, and no other actor changes it. So
  retries end; that a thread takes its steps at all is fairness, and `CopiesEnd` stays with TLC.

File server (`FileServerProof`):

* `TypesOfFileServer`: `TypeInv` adds to `TypeOK` what each position of a thread says of its
  variables (`PositionInv`). Its part `LockInv` is mutual exclusion: a thread in the locked
  region holds the mutex, and whoever holds it is there or has left it for want of a name
  (`LeftLocked`).
* `NamesAreCreatedOnce`: `CreateInv`. A thread of the locked region that has found no file and
  one that has answered 201 are never two for the same file; `LookUp` is the only step that can
  add one, and the file of the other exists by then.
* `SuccessMeansStored`: `StoreInv` counts the blocks of a request: none before it has written,
  then at most one, in its own file, and nobody else touches it.
* `ServerKeepsPromise`: `SizeInv` (what `stat` announced is there when it is read, since files
  only grow) makes a GET a read of one moment; a death maps to `Forget`.
* `AnswersAreSeen`: `DoneInv` (what was answered is in the file, and stays) and `ViewInv` (what
  a GET holds between `stat` and its answer includes all that was answered before it was sent).

Client connections (`ProxyConnectionProof`):

* `ConnectionsAreClosed`: by the position of the worker alone.
* `RequestsForwardedAsSent`: `BufferInv` (the request in progress is the one whose head is found
  in the buffer, and was read whole if the buffer begins with its line) and `ForwardInv` (the
  heads of what was forwarded lie before `first`, or in progress, so the next is a later one).
  What is forwarded as sent or cut begins with its line (`SentAsIs`); leftovers in the buffer
  are due to a client that has sent ahead, whatever the code takes them for. That the head found
  first in the buffer is the first needs the least element of a set of positions (lemma
  `Minimum`, from the well-foundedness of the naturals).
* `AnswersComeInOrder`: `OrderInv`. While the client waits for each answer, everything before
  `first` is answered and everything from there on is not (`InOrder`), unless an answer was lost
  to a client that had left (`Lost`).
* `BodiesArePassedOn`: `ExactInv`, with `ReadInv`. While a response is read, `body` is what
  follows its head up to the unit read, wherever the pieces were cut.
* `BodiesFit`, `TypesOfProxyConnection`: the capacity after a piece is the least sufficient one
  of the old capacity times a power of two. That there is a sufficient one, and that
  `PowerOfTwo` has the values which its recursive definition gives, are inductions
  (`PowersOfTwo`). The induction theorems of the library take an operator as a parameter, which
  the provers cannot instantiate; lemma `EveryNumber` has the form of a statement about a set,
  which they can, and rests on the least element (lemma `Minimum`).
* `ConnectionKeepsPromise`: `ExchangeInv` says in which positions a request has its turn,
  whether it was sent by then, that a request which was sent gets the status of a backend and
  any other one of the proxy's (`StatusesOf`), and that the heads of what was answered lie
  before the buffer, so that the next request is a fresh one (`HeadIsFresh`). `Taken`,
  `TurnSent` and `TurnEnds` are the three kinds of steps that the promise sees. An answer that
  does not reach the client (`AnswerFails`), and a process that ends, are a `GiveUp`.

Only model-checked: liveness (`DownIsDetected`, `UpIsReadmitted`, `ForwardsEnd`,
`ExpiredFilesPurged`, `EventuallyCoherent`, `UnreadableEnds`, `CopiesEnd`, `RequestsEnd`,
`RequestsAnswered`), since fairness and ENABLED are out of the prover's reach.

## 5. Not modelled

* The text of requests, responses and cache files. A head carries what is wrong with it, a cache
  file what `readCacheHeader` and `CacheReadBody` can tell apart, a path the file that it names.
  In particular two cache keys that agree in 511 bytes are one key in the model, and the file
  name that a long directory cuts short is a generated name like any other.
* The interleaving of two calls of `strtok`: its outcomes are in `ProxyConnection`.
* Log: it formats and appends lines, reads the load balancer without its lock and changes
  nothing that another component reads. Configuration: read once; its values are constants. The
  proxy's `main`: starts everything in sequence and then gives each connection a thread; in the
  modules any worker may begin at any time.
* The listening sockets, which are opened once and never closed.
* `FreeLoadBalancer` and `FreeCacheManager`: no run of the program reaches them with a live
  system. Memory that is not allocated is modelled where the code goes on without it (`alloc`).
* uthash, which is vendored (a set of keys in `CacheManager`), and the static files.

The components are composed where they share state: load balancer with workers and health check,
cache with workers and backends, replicators with workers and backends. What another component
does to the state they share is there as steps that may happen at any time: verdicts of the
health check in `Replication`, marks of the replicators in `LoadBalancer`, copies that arrive at
a backend in `ProxyCache`. Each composition shows only what it contains: `ProxyCache` does not
count how often a copy is applied, `LoadBalancer` has no death of the process, nothing is shown
of the balancer and the cache together, and the fairness of one is not derived from another.
`ProxyConnection` leaves out requests that the cache answers.
