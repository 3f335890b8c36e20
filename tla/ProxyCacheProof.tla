--------------------------- MODULE ProxyCacheProof ---------------------------
(* What ProxyCache guarantees for all values of its constants. The workers    *)
(* drive the cache through its own operations only, so that every theorem     *)
(* about CacheManager holds of the composition too.                           *)
EXTENDS ProxyCache, CacheManagerProof

-----------------------------------------------------------------------------
(* Requests *)

RequestInv ==
  /\ held \in [Backends -> [Resources -> 0 .. MaxContent]]
  /\ coming \subseteq Backends \X Resources
  /\ job \in [Workers -> Jobs]
  /\ leaked \in 0 .. MaxLeaked
  /\ excused \subseteq Keys \X (1 .. MaxContent)

\* What a worker that has not finished its request has in hand.
LEMMA RequestUnderWay ==
  ASSUME RequestInv, NEW w \in Workers, job[w].pc # "free"
  PROVE  /\ job[w].key \in Keys /\ job[w].method \in Methods
         /\ ResourceOf[job[w].key] \in Resources
         /\ job[w].pc = "answered" => /\ job[w].status \in Statuses
                                      /\ job[w].length \in Bodies
<1>1. job[w] \in Jobs /\ job[w] # Free BY DEF RequestInv, Free
<1>2. /\ job[w].key \in Keys /\ job[w].method \in Methods
      /\ job[w].pc = "answered" => /\ job[w].status \in Statuses
                                   /\ job[w].length \in Bodies
  BY <1>1 DEF Jobs
<1>3. QED BY <1>2, ResourcesAssumption

\* An answer to the request of w.
LEMMA AnswerType ==
  ASSUME RequestInv, NEW w \in Workers, job[w].pc # "free",
         NEW s \in Statuses, NEW n \in Bodies, Answered(w, s, n)
  PROVE  /\ job' \in [Workers -> Jobs]
         /\ \A v \in Workers \ {w} : job'[v] = job[v]
         /\ job'[w].pc = "answered" /\ job'[w].method = job[w].method
         /\ job'[w].key = job[w].key /\ job'[w].status = s /\ job'[w].length = n
<1>1. job \in [Workers -> Jobs] BY DEF RequestInv
<1>2. [pc |-> "answered", method |-> job[w].method, key |-> job[w].key,
       status |-> s, length |-> n] \in Jobs
  BY RequestUnderWay DEF Jobs
<1>3. QED BY <1>1, <1>2 DEF Answered

LEMMA FinishedType ==
  ASSUME RequestInv, NEW w \in Workers, Finished(w)
  PROVE  /\ job' \in [Workers -> Jobs]
         /\ \A v \in Workers \ {w} : job'[v] = job[v]
         /\ job'[w] = Free
BY DEF RequestInv, Finished, Jobs

\* A worker that has just become free, or started a request, stores nothing.
LEMMA NotStoring ==
  ASSUME NEW w \in Workers, job'[w].pc # "answered" \/ job'[w].method # "GET"
                             \/ job'[w].status # 200
  PROVE  ~MustStore(w)'
BY DEF MustStore, Is

\* What the backends hold, and the answers that come of it.
LEMMA AnswersOfBackends ==
  ASSUME RequestInv
  PROVE  /\ \A k \in Keys : ResourceOf[k] \in Resources
         /\ \A b \in Backends, r \in Resources : held[b][r] \in 0 .. MaxContent
         /\ \A r \in Resources : Contents(r) \subseteq Bodies
         /\ {0, Beginning} \subseteq Bodies /\ Bodies \subseteq Nat
         /\ {200, 201, 404, 502} \subseteq Statuses
<1>1. \A b \in Backends, r \in Resources : held[b][r] \in 0 .. MaxContent
  BY DEF RequestInv
<1>2. 0 .. MaxContent \subseteq Bodies /\ {0, Beginning} \subseteq Bodies /\ Bodies \subseteq Nat
  BY ContentAssumption DEF Bodies, Beginning
<1>3. \A r \in Resources : Contents(r) \subseteq Bodies BY <1>1, <1>2 DEF Contents
<1>4. QED BY <1>1, <1>2, <1>3, ResourcesAssumption DEF Statuses

LEMMA ForwardAnswers ==
  ASSUME RequestInv, NEW w \in Workers, ForwardGet(w) \/ ForwardGetCut(w) \/ ForwardPost(w)
  PROVE  /\ job[w].pc = "forward"
         /\ \E s \in Statuses, n \in Bodies : Answered(w, s, n)
<1>1. job[w].pc = "forward" BY DEF ForwardGet, ForwardGetCut, ForwardPost, Is
<1>2. Contents(ResourceOf[job[w].key]) \subseteq Bodies
  BY <1>1, RequestUnderWay, AnswersOfBackends
<1>3. {0, Beginning} \subseteq Bodies /\ {200, 201, 404, 502} \subseteq Statuses
  BY AnswersOfBackends
<1>4. CASE ForwardGet(w) BY <1>1, <1>2, <1>3, <1>4 DEF ForwardGet
<1>5. CASE ForwardGetCut(w) BY <1>1, <1>3, <1>5 DEF ForwardGetCut
<1>6. CASE ForwardPost(w)
  <2>1. \E s \in {200, 201, 404, 502} : Answered(w, s, 0) BY <1>6 DEF ForwardPost
  <2>2. QED BY <1>1, <1>3, <2>1
<1>7. QED BY <1>4, <1>5, <1>6

LEMMA AppendsType ==
  ASSUME RequestInv, NEW b \in Backends, NEW r \in Resources, Appends(b, r)
  PROVE  held' \in [Backends -> [Resources -> 0 .. MaxContent]]
<1>1. PICK n \in 1 .. MaxContent : held' = [held EXCEPT ![b][r] = n] BY DEF Appends
<1>2. n \in 0 .. MaxContent BY <1>1, ContentAssumption
<1>3. QED BY <1>1, <1>2 DEF RequestInv

LEMMA CopiesType ==
  ASSUME RequestInv, NEW K \in SUBSET Keys, NEW n \in 0 .. MaxContent
  PROVE  CopiesOf(K, n) \subseteq Keys \X (1 .. MaxContent)
<1>1. n > 0 => n \in 1 .. MaxContent BY ContentAssumption
<1>2. QED BY <1>1 DEF CopiesOf

LEMMA ForwardedRequests ==
  ASSUME RequestInv, NEW w \in Workers, ForwardGet(w) \/ ForwardGetCut(w) \/ ForwardPost(w)
  PROVE  RequestInv'
<1>1. PICK s \in Statuses, n \in Bodies : Answered(w, s, n) BY ForwardAnswers
<1>2. job' \in [Workers -> Jobs] BY <1>1, ForwardAnswers, AnswerType
<1>3. CASE ForwardGet(w) \/ ForwardGetCut(w)
  BY <1>2, <1>3 DEF ForwardGet, ForwardGetCut, RequestInv, backendVars
<1>4. CASE ForwardPost(w)
  <2> DEFINE k == job[w].key
             r == ResourceOf[k]
  <2>1. k \in Keys /\ r \in Resources BY ForwardAnswers, RequestUnderWay
  <2>2. CASE \E b \in Backends : Appends(b, r) /\ coming' = coming \cup (Backends \ {b}) \X {r}
               /\ (UNCHANGED excused
                     \/ excused' = excused \cup CopiesOf(SameFile(k) \ {k}, held[b][r]))
    <3>1. PICK b \in Backends :
            /\ Appends(b, r) /\ coming' = coming \cup (Backends \ {b}) \X {r}
            /\ UNCHANGED excused
                 \/ excused' = excused \cup CopiesOf(SameFile(k) \ {k}, held[b][r])
      BY <2>2
    <3>2. held' \in [Backends -> [Resources -> 0 .. MaxContent]] BY <2>1, <3>1, AppendsType
    <3>3. coming' \subseteq Backends \X Resources BY <2>1, <3>1 DEF RequestInv
    <3>4. excused' \subseteq Keys \X (1 .. MaxContent)
      <4>1. SameFile(k) \ {k} \subseteq Keys BY DEF SameFile
      <4>2. held[b][r] \in 0 .. MaxContent BY <2>1, AnswersOfBackends
      <4>3. CopiesOf(SameFile(k) \ {k}, held[b][r]) \subseteq Keys \X (1 .. MaxContent)
        BY <4>1, <4>2, CopiesType
      <4>4. QED BY <3>1, <4>3 DEF RequestInv
    <3>5. QED BY <1>2, <1>4, <3>2, <3>3, <3>4 DEF ForwardPost, RequestInv
  <2>3. CASE UNCHANGED <<held, excused>>
             /\ (UNCHANGED coming \/ \E b \in Backends : coming' = coming \cup {<<b, r>>})
    <3>1. coming' \subseteq Backends \X Resources BY <2>1, <2>3 DEF RequestInv
    <3>2. QED BY <1>2, <1>4, <2>3, <3>1 DEF ForwardPost, RequestInv
  <2>4. QED BY <1>4, <2>2, <2>3 DEF ForwardPost
<1>5. QED BY <1>3, <1>4

LEMMA ArrivedRequests ==
  ASSUME RequestInv, NEW b \in Backends, NEW r \in Resources, Arrives(b, r)
  PROVE  RequestInv'
<1>1. held' \in [Backends -> [Resources -> 0 .. MaxContent]] BY AppendsType DEF Arrives
<1>2. CopiesOf({k \in Keys : ResourceOf[k] = r}, held[b][r]) \subseteq Keys \X (1 .. MaxContent)
  BY AnswersOfBackends, CopiesType
<1>3. QED BY <1>1, <1>2 DEF Arrives, RequestInv

\* A worker is done with its request.
LEMMA FinishedRequests ==
  ASSUME RequestInv, NEW w \in Workers, Finished(w),
         leaked' \in 0 .. MaxLeaked, excused' \subseteq Keys \X (1 .. MaxContent)
  PROVE  RequestInv'
<1>1. job' \in [Workers -> Jobs] BY FinishedType
<1>2. QED BY <1>1 DEF RequestInv, Finished, backendVars

LEMMA RequestStep == RequestInv /\ [ProxyNext]_allVars => RequestInv'
<1> SUFFICES ASSUME RequestInv, [ProxyNext]_allVars PROVE RequestInv' OBVIOUS
<1>a. ASSUME UNCHANGED <<backendVars, leaked, excused>>, job' \in [Workers -> Jobs]
      PROVE  RequestInv'
  BY <1>a DEF RequestInv, backendVars
<1>1. ASSUME NEW w \in Workers, NEW m \in Methods, NEW k \in Keys, Receive(w, m, k)
      PROVE  RequestInv'
  <2>1. job' \in [Workers -> Jobs] BY <1>1 DEF Receive, RequestInv, Jobs
  <2>2. QED BY <1>1, <1>a, <2>1 DEF Receive
<1>2. ASSUME NEW w \in Workers, LookUpHit(w) PROVE RequestInv'
  <2>1. job' \in [Workers -> Jobs] BY <1>2 DEF LookUpHit, RequestInv, Jobs
  <2>2. QED BY <1>2, <1>a, <2>1 DEF LookUpHit
<1>3. ASSUME NEW w \in Workers, LookUpMiss(w) PROVE RequestInv'
  <2>1. job[w] \in Jobs /\ job[w].pc = "lookup" BY <1>3 DEF RequestInv, LookUpMiss, Is
  <2>2. job[w] \in [pc : {"lookup", "forward"}, method : Methods, key : Keys]
    BY <2>1 DEF Jobs, Free
  <2>3. [job[w] EXCEPT !.pc = "forward"] \in Jobs BY <2>2 DEF Jobs
  <2>4. job' \in [Workers -> Jobs] BY <1>3, <2>3 DEF LookUpMiss, RequestInv
  <2>5. QED BY <1>3, <1>a, <2>4 DEF LookUpMiss
<1>4. ASSUME NEW w \in Workers, CacheInvalidateByRequest(w) PROVE RequestInv'
  <2>1. job[w].key \in Keys
    BY <1>4, RequestUnderWay DEF CacheInvalidateByRequest, MustInvalidate, Is
  <2>2. excused' \subseteq Keys \X (1 .. MaxContent)
    BY <1>4, <2>1 DEF CacheInvalidateByRequest, RequestInv, Outdated
  <2>3. leaked' \in 0 .. MaxLeaked BY <1>4 DEF CacheInvalidateByRequest, RequestInv
  <2>4. QED BY <1>4, <2>2, <2>3, FinishedRequests DEF CacheInvalidateByRequest
<1>5. ASSUME NEW w \in Workers, StoreInBackground(w) PROVE RequestInv'
  BY <1>5, FinishedRequests, MaxLeakedAssumption DEF StoreInBackground, RequestInv
<1>6. ASSUME NEW w \in Workers, OnlyAnswer(w) PROVE RequestInv'
  BY <1>6, FinishedRequests DEF OnlyAnswer, RequestInv
<1>7. ASSUME UNCHANGED <<backendVars, job, leaked, excused>> PROVE RequestInv'
  BY <1>7 DEF RequestInv, backendVars
<1>8. ASSUME Die PROVE RequestInv'
  <2>1. job' \in [Workers -> Jobs] BY <1>8 DEF Die, Jobs
  <2>2. excused' \subseteq Keys \X (1 .. MaxContent) BY <1>8 DEF Die, RequestInv, Outdated
  <2>3. leaked' \in 0 .. MaxLeaked /\ UNCHANGED backendVars BY <1>8, MaxLeakedAssumption DEF Die
  <2>4. QED BY <2>1, <2>2, <2>3 DEF RequestInv, backendVars
<1>9. QED
  BY <1>1, <1>2, <1>3, <1>4, <1>5, <1>6, <1>7, <1>8, ForwardedRequests, ArrivedRequests
  DEF ProxyNext, Work, StoreWorker, Background, proxyVars, allVars

LEMMA RequestInvariant == ProxySpec => []RequestInv
<1>1. ProxyInit => RequestInv BY MaxLeakedAssumption DEF ProxyInit, RequestInv, Jobs
<1>2. QED BY <1>1, RequestStep, PTL DEF ProxySpec

-----------------------------------------------------------------------------
(* The workers use the cache as CacheManager says that it is used *)

LEMMA CacheStep == RequestInv /\ [ProxyNext]_allVars => [Next]_vars
<1> SUFFICES ASSUME RequestInv, [ProxyNext]_allVars PROVE [Next]_vars OBVIOUS
<1>1. ASSUME NEW w \in Workers, LookUpMiss(w) PROVE [Next]_vars
  <2>1. job[w].key \in Keys BY <1>1, RequestUnderWay DEF LookUpMiss, Is
  <2>2. QED BY <1>1, <2>1 DEF LookUpMiss, Next
<1>2. ASSUME NEW w \in Workers, CacheInvalidateByRequest(w) PROVE [Next]_vars
  <2>1. job[w].key \in Keys
    BY <1>2, RequestUnderWay DEF CacheInvalidateByRequest, MustInvalidate, Is
  <2>2. QED BY <1>2, <2>1 DEF CacheInvalidateByRequest, Next
<1>3. ASSUME NEW w \in Workers, StoreInBackground(w) PROVE [Next]_vars
  <2>1. job[w].key \in Keys /\ job[w].length \in Bodies
    BY <1>3, RequestUnderWay DEF StoreInBackground, MustStore, Is
  <2>2. job[w].length \in BodyLengths BY <2>1, ContentAssumption DEF Bodies, Beginning
  <2>3. QED BY <1>3, <2>1, <2>2 DEF StoreInBackground, Next
<1>4. ASSUME NEW t \in StoreThreads, StoreWorker(t) PROVE [Next]_vars
  BY <1>4 DEF StoreWorker, Next
<1>5. ASSUME Background PROVE [Next]_vars BY <1>5 DEF Background, Next
<1>6. ASSUME Die PROVE [Next]_vars BY <1>6 DEF Die, Next
<1>7. ASSUME UNCHANGED vars PROVE [Next]_vars BY <1>7
<1>8. QED
  BY <1>1, <1>2, <1>3, <1>4, <1>5, <1>6, <1>7
  DEF ProxyNext, Work, Receive, LookUpHit, ForwardGet, ForwardGetCut, ForwardPost,
      OnlyAnswer, Arrives, allVars

\* Whatever the clients request, the workers drive the cache through behaviours
\* of CacheManager: each theorem about the cache alone holds in the proxy.
THEOREM ImplementsCacheManager == ProxySpec => Spec
<1>1. ProxyInit => Init BY DEF ProxyInit
<1>2. QED BY <1>1, CacheStep, RequestInvariant, PTL DEF ProxySpec, Spec

-----------------------------------------------------------------------------
(* Response bodies *)

Holders == {w \in Workers : job[w].pc = "answered" /\ BodyOf(job[w].status) = 1}
Storers == {t \in StoreThreads : store[t] # Idle}

LEMMA OwnersAreFinite ==
  /\ IsFiniteSet(Holders) /\ Cardinality(Holders) \in Nat
  /\ IsFiniteSet(Storers) /\ Cardinality(Storers) \in Nat
<1>1. IsFiniteSet(Holders) /\ IsFiniteSet(Storers)
  BY ProxyWorkersAssumption, FS_Subset DEF Holders, Storers
<1>2. QED BY <1>1, FS_CardinalityType

LEMMA BodyAnswered ==
  ASSUME RequestInv, NEW w \in Workers, job[w].pc = "forward",
         NEW s \in Statuses, NEW n \in Bodies, Answered(w, s, n)
  PROVE  Cardinality(Holders') = Cardinality(Holders) + BodyOf(s)
<1>1. /\ \A v \in Workers \ {w} : job'[v] = job[v]
      /\ job'[w].pc = "answered" /\ job'[w].status = s
  BY AnswerType
<1>2. w \notin Holders BY DEF Holders
<1>3. CASE BodyOf(s) = 1
  <2>1. Holders' = Holders \cup {w} BY <1>1, <1>3 DEF Holders
  <2>2. QED BY <1>2, <1>3, <2>1, OwnersAreFinite, FS_AddElement
<1>4. CASE BodyOf(s) # 1
  <2>1. Holders' = Holders BY <1>1, <1>2, <1>4 DEF Holders
  <2>2. QED BY <1>4, <2>1, OwnersAreFinite DEF BodyOf
<1>5. QED BY <1>3, <1>4

LEMMA BodyFinished ==
  ASSUME RequestInv, NEW w \in Workers, job[w].pc = "answered", Finished(w)
  PROVE  Cardinality(Holders') = Cardinality(Holders) - BodyOf(job[w].status)
<1>1. /\ \A v \in Workers \ {w} : job'[v] = job[v]
      /\ job'[w] = Free
  BY FinishedType
<1>2. Holders' = Holders \ {w} BY <1>1 DEF Holders, Free
<1>3. CASE BodyOf(job[w].status) = 1
  <2>1. w \in Holders BY <1>3 DEF Holders
  <2>2. QED BY <1>2, <1>3, <2>1, OwnersAreFinite, FS_RemoveElement
<1>4. CASE BodyOf(job[w].status) # 1
  <2>1. Holders' = Holders BY <1>2, <1>4 DEF Holders
  <2>2. QED BY <1>4, <2>1, OwnersAreFinite DEF BodyOf
<1>5. QED BY <1>3, <1>4

\* The steps of a store end in the last one, which frees the body.
LEMMA StoreOwnership ==
  ASSUME TypeOK, NEW t \in StoreThreads, Store(t)
  PROVE  /\ Cardinality(Storers') = IF store'[t] = Idle THEN Cardinality(Storers) - 1
                                                       ELSE Cardinality(Storers)
         /\ \A u \in StoreThreads \ {t} : store'[u] = store[u]
<1>1. store[t] # Idle
  BY DEF Store, StoreOpen, StoreWrite, StoreClose, StoreIndex, At, Idle
<1>2. \A u \in StoreThreads \ {t} : store'[u] = store[u]
  BY DEF Store, StoreOpen, StoreWrite, StoreClose, StoreIndex, Goto, Finish, TypeOK
<1>3. t \in Storers BY <1>1 DEF Storers
<1>4. CASE store'[t] = Idle
  <2>1. Storers' = Storers \ {t} BY <1>2, <1>4 DEF Storers
  <2>2. QED BY <1>2, <1>3, <1>4, <2>1, OwnersAreFinite, FS_RemoveElement
<1>5. CASE store'[t] # Idle
  <2>1. Storers' = Storers BY <1>2, <1>3, <1>5 DEF Storers
  <2>2. QED BY <1>2, <1>5, <2>1
<1>6. QED BY <1>4, <1>5

LEMMA BodiesStep ==
  CacheInv /\ RequestInv /\ BodiesAreOwned /\ [ProxyNext]_allVars => BodiesAreOwned'
<1> SUFFICES ASSUME CacheInv, RequestInv, BodiesAreOwned, [ProxyNext]_allVars
             PROVE  BodiesAreOwned'
  OBVIOUS
<1>a. RequestInv /\ TypeOK BY DEF CacheInv
<1>b. bodies = Cardinality(Holders) + Cardinality(Storers) + leaked
      /\ leaked \in Nat
  BY <1>a, MaxLeakedAssumption DEF BodiesAreOwned, Holders, Storers, RequestInv
<1> HIDE DEF Holders, Storers
<1>c. ASSUME bodies' = Cardinality(Holders') + Cardinality(Storers') + leaked'
      PROVE  BodiesAreOwned'
  BY <1>c DEF BodiesAreOwned, Holders, Storers
<1>d. ASSUME store' = store PROVE Storers' = Storers BY <1>d DEF Storers
<1>e. ASSUME job' = job PROVE Holders' = Holders BY <1>e DEF Holders
\* The worker neither had an answer in hand nor has one now.
<1>f. ASSUME NEW w \in Workers, job[w].pc # "answered", job'[w].pc # "answered",
             \A v \in Workers \ {w} : job'[v] = job[v]
      PROVE  Holders' = Holders
  BY <1>f DEF Holders
<1>1. ASSUME NEW w \in Workers, NEW m \in Methods, NEW k \in Keys, Receive(w, m, k)
      PROVE  BodiesAreOwned'
  <2>1. Holders' = Holders
    BY <1>a, <1>1, <1>f DEF Receive, RequestInv, Free
  <2>2. QED BY <1>1, <1>b, <1>c, <1>d, <2>1 DEF Receive, vars
<1>2. ASSUME NEW w \in Workers, LookUpHit(w) PROVE BodiesAreOwned'
  <2>1. Holders' = Holders
    BY <1>a, <1>2, <1>f DEF LookUpHit, RequestInv, Free, Is
  <2>2. QED BY <1>2, <1>b, <1>c, <1>d, <2>1 DEF LookUpHit, vars
<1>3. ASSUME NEW w \in Workers, LookUpMiss(w) PROVE BodiesAreOwned'
  <2>1. job[w].pc = "lookup" /\ job' = [job EXCEPT ![w].pc = "forward"]
    BY <1>3 DEF LookUpMiss, Is
  <2>2. job[w] \in [pc : {"lookup", "forward"}, method : Methods, key : Keys]
    BY <1>a, <2>1 DEF RequestInv, Jobs, Free
  <2>3. job'[w].pc = "forward" BY <1>a, <2>1, <2>2 DEF RequestInv
  <2>4. Holders' = Holders BY <1>a, <1>f, <2>1, <2>3 DEF RequestInv
  <2>5. store' = store /\ bodies' = bodies /\ leaked' = leaked
    BY <1>3 DEF LookUpMiss, LookUpExpires, vars
  <2>6. QED BY <1>b, <1>c, <1>d, <2>4, <2>5
<1>4. ASSUME NEW w \in Workers, ForwardGet(w) \/ ForwardGetCut(w) \/ ForwardPost(w)
      PROVE  BodiesAreOwned'
  <2>1. store' = store /\ leaked' = leaked
    BY <1>4 DEF ForwardGet, ForwardGetCut, ForwardPost, vars
  <2>2. job[w].pc = "forward" BY <1>a, <1>4, ForwardAnswers
  <2>3. PICK s \in Statuses, n \in Bodies : Answered(w, s, n) BY <1>a, <1>4, ForwardAnswers
  <2>4. Cardinality(Holders') = Cardinality(Holders) + BodyOf(s)
    BY <1>a, <2>2, <2>3, BodyAnswered
  <2>5. bodies' = bodies + BodyOf(s) /\ BodyOf(s) \in Nat BY <2>3 DEF Answered, BodyOf
  <2>6. QED BY <1>b, <1>c, <1>d, <2>1, <2>4, <2>5, OwnersAreFinite
<1>5. ASSUME NEW w \in Workers, CacheInvalidateByRequest(w) \/ OnlyAnswer(w)
      PROVE  BodiesAreOwned'
  <2>1. /\ job[w].pc = "answered" /\ ~MustStore(w) /\ Finished(w)
        /\ store' = store /\ leaked' = leaked
    BY <1>5 DEF CacheInvalidateByRequest, OnlyAnswer, MustInvalidate, MustStore, Is,
                CacheInvalidate, vars
  <2>2. bodies' = bodies - BodyOf(job[w].status) /\ BodyOf(job[w].status) \in Nat
    BY <2>1 DEF Finished, FreedByWorker, BodyOf
  <2>3. Cardinality(Holders') = Cardinality(Holders) - BodyOf(job[w].status)
    BY <1>a, <2>1, BodyFinished
  <2>4. QED BY <1>b, <1>c, <1>d, <2>1, <2>2, <2>3, OwnersAreFinite
<1>6. ASSUME NEW w \in Workers, StoreInBackground(w) PROVE BodiesAreOwned'
  <2>1. job[w].pc = "answered" /\ job[w].status = 200 /\ MustStore(w) /\ Finished(w)
    BY <1>6 DEF StoreInBackground, MustStore, Is
  <2>2. bodies' = bodies /\ Cardinality(Holders') = Cardinality(Holders) - 1
    <3>1. BodyOf(job[w].status) = 1 /\ FreedByWorker(w) = 0
      BY <2>1 DEF BodyOf, FreedByWorker
    <3>2. Cardinality(Holders') = Cardinality(Holders) - 1
      BY <1>a, <2>1, <3>1, BodyFinished
    <3>3. bodies \in Nat BY <1>b, OwnersAreFinite
    <3>4. QED BY <2>1, <3>1, <3>2, <3>3 DEF Finished
  <2>3. CASE \E t \in StoreThreads : CacheStoreAsync(t, job[w].key, job[w].length)
             /\ leaked' = leaked
    <3>1. PICK t \in StoreThreads : CacheStoreAsync(t, job[w].key, job[w].length)
      BY <2>3
    <3>2. t \notin Storers /\ Storers' = Storers \cup {t}
      BY <1>a, <3>1 DEF CacheStoreAsync, Storers, Idle, TypeOK
    <3>3. Cardinality(Storers') = Cardinality(Storers) + 1
      BY <3>2, OwnersAreFinite, FS_AddElement
    <3>4. QED BY <1>b, <1>c, <2>2, <2>3, <3>3, OwnersAreFinite
  <2>4. CASE leaked' = leaked + 1 /\ UNCHANGED vars
    BY <1>b, <1>c, <1>d, <2>2, <2>4, OwnersAreFinite DEF vars
  <2>5. QED BY <1>6, <2>3, <2>4 DEF StoreInBackground
<1>7. ASSUME NEW t \in StoreThreads, StoreWorker(t) PROVE BodiesAreOwned'
  <2>1. Holders' = Holders /\ leaked' = leaked BY <1>7, <1>e DEF StoreWorker
  <2>2. QED
    BY <1>a, <1>b, <1>c, <1>7, <2>1, StoreOwnership, OwnersAreFinite DEF StoreWorker
<1>8. ASSUME Background PROVE BodiesAreOwned'
  <2>1. UNCHANGED <<store, job, bodies, leaked>>
    BY <1>8 DEF Background, CleanerStart, CleanerDone, CleanerVisit, Tick, Restart, proxyVars
  <2>2. QED BY <1>b, <1>c, <1>d, <1>e, <2>1
<1>9. ASSUME Die PROVE BodiesAreOwned'
  <2>1. Holders' = {} BY <1>9 DEF Die, Holders, Free
  <2>2. Storers' = {} BY <1>9 DEF Die, Crash, Storers
  <2>3. bodies' = 0 /\ leaked' = 0 BY <1>9 DEF Die
  <2>4. QED BY <1>c, <2>1, <2>2, <2>3, FS_EmptySet
<1>10. CASE UNCHANGED allVars \/ \E b \in Backends, r \in Resources : Arrives(b, r)
  BY <1>b, <1>c, <1>d, <1>e, <1>10 DEF Arrives, allVars, proxyVars, vars
<1>11. QED
  BY <1>1, <1>2, <1>3, <1>4, <1>5, <1>6, <1>7, <1>8, <1>9, <1>10 DEF ProxyNext, Work

\* Every response body is freed once, by whoever owns it, on each path through
\* the worker and the store thread, whatever fails; the only leak is the thread
\* that could not be created.
THEOREM BodiesHaveOneOwner == ProxySpec => []BodiesAreOwned
<1>1. ProxyInit => BodiesAreOwned
  <2> SUFFICES ASSUME ProxyInit PROVE BodiesAreOwned OBVIOUS
  <2>1. {w \in Workers : job[w].pc = "answered" /\ BodyOf(job[w].status) = 1} = {}
    BY DEF ProxyInit, Free
  <2>2. {t \in StoreThreads : store[t] # Idle} = {} BY DEF ProxyInit, Init
  <2>3. bodies = 0 /\ leaked = 0 BY DEF ProxyInit
  <2>4. Cardinality({}) = 0 BY FS_EmptySet
  <2>5. Cardinality(Holders) = 0 BY <2>1, <2>4 DEF Holders
  <2>6. Cardinality(Storers) = 0 BY <2>2, <2>4 DEF Storers
  <2>7. BodiesAreOwned <=> bodies = Cardinality(Holders) + Cardinality(Storers) + leaked
    BY DEF BodiesAreOwned, Holders, Storers
  <2>8. QED BY <2>3, <2>5, <2>6, <2>7
<1>2. QED
  BY <1>1, BodiesStep, CacheInvariant, ImplementsCacheManager, RequestInvariant, PTL
  DEF ProxySpec

\* The counter of bodies never drops below zero: nothing is freed twice.
THEOREM ProxyTypeCorrect == ProxySpec => []ProxyTypeOK
<1>1. RequestInv /\ BodiesAreOwned => ProxyTypeOK
  BY OwnersAreFinite, MaxLeakedAssumption
  DEF RequestInv, BodiesAreOwned, ProxyTypeOK, Holders, Storers
<1>2. QED BY <1>1, RequestInvariant, BodiesHaveOneOwner, PTL

-----------------------------------------------------------------------------
(* Copies of files: in the hands of workers and store threads, and on disk *)

\* The file may be served again; one that an invalidation has left in place
\* does not count.
Live(k) == disk[k].header /\ ~disk[k].stale

IsCopy(k, n) ==
  \/ \E w \in Workers : MustStore(w) /\ job[w].key = k /\ job[w].length = n
  \/ \E t \in StoreThreads : store[t] # Idle /\ store[t].key = k /\ store[t].length = n
  \/ Live(k) /\ disk[k].length = n

\* Whether a copy of k is accounted for: it was cut short, or is what a backend
\* holds, or has an excuse.
Explained(k, n) == \/ n \in {0, Beginning} \/ n \in Contents(ResourceOf[k])
                   \/ Pending(k) \/ <<k, n>> \in excused

CopyInv == \A k \in Keys, n \in Nat : IsCopy(k, n) => n \in Bodies /\ Explained(k, n)

LEMMA CopiesAreSeen ==
  ASSUME WrittenInv, NEW k \in Keys, NEW n \in Nat, IsCopy(k, n)
  PROVE  n \in UnderWay(k) \cup Cached(k)
<1>1. CASE \E w \in Workers : MustStore(w) /\ job[w].key = k /\ job[w].length = n
  BY <1>1 DEF UnderWay
<1>2. CASE \E t \in StoreThreads : store[t] # Idle /\ store[t].key = k /\ store[t].length = n
  BY <1>2 DEF UnderWay
<1>3. CASE Live(k) /\ disk[k].length = n BY <1>3 DEF Live, Cached, WrittenInv
<1>4. QED BY <1>1, <1>2, <1>3 DEF IsCopy

\* Steps that copy what is a copy already, or what a backend holds.
LEMMA OnlyOldCopies ==
  ASSUME RequestInv, CopyInv, held' = held, excused \subseteq excused',
         \A k \in Keys, n \in Nat :
           IsCopy(k, n)' => IsCopy(k, n) \/ n \in Contents(ResourceOf[k]) \/ n \in {0, Beginning},
         \A k \in Keys, n \in 1 .. MaxContent :
           Pending(k) /\ IsCopy(k, n)' /\ n \notin Contents(ResourceOf[k])
             => Pending(k)' \/ <<k, n>> \in excused'
  PROVE  CopyInv'
<1>1. \A r : Contents(r)' = Contents(r) BY DEF Contents
<1> SUFFICES ASSUME NEW k \in Keys, NEW n \in Nat, IsCopy(k, n)'
             PROVE  n \in Bodies /\ Explained(k, n)'
  BY DEF CopyInv, Bodies, Beginning
<1>2. n \in Bodies
  BY AnswersOfBackends DEF CopyInv
<1>3. CASE n \in {0, Beginning} BY <1>2, <1>3 DEF Explained, Beginning
<1>4. CASE n \in Contents(ResourceOf[k]) BY <1>1, <1>2, <1>4 DEF Explained
<1>5. CASE n \notin {0, Beginning} /\ n \notin Contents(ResourceOf[k])
  <2>1. Explained(k, n) /\ n \in 1 .. MaxContent
    BY <1>2, <1>5, ContentAssumption DEF CopyInv, Bodies, Beginning
  <2>2. QED BY <1>2, <1>5, <2>1 DEF Explained
<1>6. QED BY <1>3, <1>4, <1>5

\* The requests of the workers, as far as copies and invalidations go.
LEMMA CopiesOfWorkers ==
  ASSUME NEW w \in Workers, \A v \in Workers \ {w} : job'[v] = job[v],
         ~MustStore(w)', UNCHANGED store,
         \A k \in Keys : Live(k)' => Live(k) /\ disk'[k].length = disk[k].length
  PROVE  \A k \in Keys : \A n : IsCopy(k, n)' => IsCopy(k, n)
BY DEF IsCopy, MustStore, Is

LEMMA PendingKept ==
  ASSUME NEW w \in Workers, \A v \in Workers \ {w} : job'[v] = job[v], ~MustInvalidate(w)
  PROVE  \A k \in Keys : Pending(k) => Pending(k)'
BY DEF Pending, MustInvalidate, Is

\* An entry that expires or is invalidated takes its copy along.
LEMMA RemovalOfCopies ==
  ASSUME TypeOK, NEW k \in Keys, RemoveFile(k) \/ LeaveFile(k) \/ UNCHANGED disk
  PROVE  \A j \in Keys : Live(j)' => Live(j) /\ disk'[j].length = disk[j].length
<1>1. disk \in [Keys -> Files] BY DEF TypeOK
<1>2. CASE RemoveFile(k) BY <1>1, <1>2 DEF RemoveFile, NoFile, Live
<1>3. CASE LeaveFile(k)
  <2>1. disk[k] \in Files BY <1>1
  <2>2. /\ [disk[k] EXCEPT !.stale = @ \/ disk[k].exists].header = disk[k].header
        /\ [disk[k] EXCEPT !.stale = @ \/ disk[k].exists].length = disk[k].length
        /\ [disk[k] EXCEPT !.stale = @ \/ disk[k].exists].stale
             = (disk[k].stale \/ disk[k].exists)
    BY <2>1 DEF Files
  <2>3. disk' = [disk EXCEPT ![k] = [disk[k] EXCEPT !.stale = @ \/ disk[k].exists]]
    BY <1>1, <1>3 DEF LeaveFile
  <2>4. disk'[k].stale = (disk[k].stale \/ disk[k].exists)
        /\ disk'[k].header = disk[k].header /\ disk'[k].length = disk[k].length
        /\ \A j \in Keys \ {k} : disk'[j] = disk[j]
    BY <1>1, <2>2, <2>3
  <2>5. QED BY <2>4 DEF Live
<1>4. CASE UNCHANGED disk BY <1>4 DEF Live
<1>5. QED BY <1>2, <1>3, <1>4

\* What a store does to the copies: its file becomes a copy of what it holds.
LEMMA CopiesOfStore ==
  ASSUME TypeOK, WrittenInv, NEW t \in StoreThreads, Store(t)
  PROVE  /\ \A u \in StoreThreads : store'[u] # Idle =>
              /\ store[u] # Idle /\ store'[u].key = store[u].key
              /\ store'[u].length = store[u].length
         /\ \A k \in Keys : Live(k)' =>
              \/ Live(k) /\ disk'[k].length = disk[k].length
              \/ /\ store[t] # Idle /\ k = store[t].key
                 /\ disk'[k].length = store[t].length
<1>a. /\ store[t] # Idle /\ store \in [StoreThreads -> Stores] /\ disk \in [Keys -> Files]
      /\ store[t].pc \in {"queued", "writing", "closing", "indexing"}
  BY DEF TypeOK, Store, StoreOpen, StoreWrite, StoreClose, StoreIndex, At, Idle
<1>b. store[t].key \in Keys /\ store[t].length \in Nat BY <1>a, StoreUnderWay
<1>c. store[t] \in [pc : {"queued", "writing", "closing", "indexing"},
                    key : Keys, length : BodyLengths]
  BY <1>a DEF Stores
<1>d. ASSUME NEW l, Goto(t, l)
      PROVE  \A u \in StoreThreads : store'[u] # Idle =>
               /\ store[u] # Idle /\ store'[u].key = store[u].key
               /\ store'[u].length = store[u].length
  <2>1. store'[t].key = store[t].key /\ store'[t].length = store[t].length
    BY <1>a, <1>c, <1>d DEF Goto
  <2>2. \A u \in StoreThreads \ {t} : store'[u] = store[u] BY <1>a, <1>d DEF Goto
  <2>3. QED BY <1>a, <2>1, <2>2
<1>e. ASSUME Finish(t)
      PROVE  \A u \in StoreThreads : store'[u] # Idle => store'[u] = store[u]
  BY <1>a, <1>e DEF Finish
<1> USE DEF Live
<1>1. CASE StoreOpen(t)
  <2>1. \A k \in Keys : disk'[k].header => disk'[k] = disk[k]
    BY <1>a, <1>1 DEF StoreOpen, EmptyFile, NoFile
  <2>2. QED BY <1>1, <1>d, <1>e, <2>1 DEF StoreOpen
<1>2. CASE StoreWrite(t)
  <2>1. CASE \E f \in Prefixes(store[t].length) :
               disk' = [disk EXCEPT ![store[t].key] = f] /\ Goto(t, "closing")
    <3>1. PICK f \in Prefixes(store[t].length) : disk' = [disk EXCEPT ![store[t].key] = f]
      BY <2>1
    <3>2. f.header => f.length = store[t].length BY <1>b, PrefixType
    <3>3. \A k \in Keys : disk'[k] = disk[k] \/ (k = store[t].key /\ disk'[k] = f)
      BY <1>a, <1>b, <3>1
    <3>4. QED BY <1>a, <1>d, <2>1, <3>2, <3>3
  <2>2. CASE RemoveFile(store[t].key) /\ Finish(t)
    BY <1>a, <1>b, <1>e, <2>2 DEF RemoveFile, NoFile
  <2>3. QED BY <1>2, <2>1, <2>2 DEF StoreWrite
<1>3. CASE StoreClose(t)
  <2>1. PICK f :
          /\ f = [disk[store[t].key] EXCEPT !.header = TRUE, !.length = store[t].length,
                                            !.bytes = store[t].length]
          /\ disk' = [disk EXCEPT ![store[t].key] = f] \/ disk' = disk
    BY <1>a, <1>b, <1>3 DEF StoreClose
  <2>2. f.length = store[t].length
    <3>1. [disk[store[t].key] EXCEPT !.header = TRUE] \in Files BY <1>a, <1>b DEF Files
    <3>2. QED BY <1>b, <2>1, <3>1 DEF Files
  <2>3. \A k \in Keys : disk'[k].header =>
          disk'[k] = disk[k] \/ (k = store[t].key /\ disk'[k] = f)
    BY <1>a, <1>b, <2>1
  <2>4. QED BY <1>a, <1>3, <1>d, <2>2, <2>3 DEF StoreClose
<1>4. CASE StoreIndex(t) BY <1>4, <1>e DEF StoreIndex
<1>5. QED BY <1>1, <1>2, <1>3, <1>4 DEF Store

\* A backend's file changes: copies of its content have to be accounted for.
LEMMA ChangedCopies ==
  ASSUME RequestInv, WrittenInv, CopyInv, NEW b \in Backends, NEW r \in Resources,
         Appends(b, r), excused \subseteq excused',
         \A k \in Keys : \A n : IsCopy(k, n)' => IsCopy(k, n),
         \A k \in Keys : Pending(k) => Pending(k)',
         \A k \in Keys : ResourceOf[k] = r =>
           Pending(k)' \/ CopiesOf({k}, held[b][r]) \subseteq excused'
  PROVE  CopyInv'
<1>1. PICK i \in 1 .. MaxContent : held' = [held EXCEPT ![b][r] = i] BY DEF Appends
<1>2. held \in [Backends -> [Resources -> 0 .. MaxContent]] BY DEF RequestInv
<1>3. \A c \in Backends, q \in Resources :
        held'[c][q] = IF c = b /\ q = r THEN i ELSE held[c][q]
  BY <1>1, <1>2
<1> SUFFICES ASSUME NEW k \in Keys, NEW n \in Nat, IsCopy(k, n)'
             PROVE  n \in Bodies /\ Explained(k, n)'
  BY DEF CopyInv, Bodies, Beginning
<1>4. IsCopy(k, n) /\ n \in Bodies /\ Explained(k, n) BY DEF CopyInv
<1>5. ResourceOf[k] \in Resources BY AnswersOfBackends
<1>6. CASE n \notin Contents(ResourceOf[k]) \/ n = 0
  BY <1>4, <1>6 DEF Explained, Beginning
<1>7. CASE n \in Contents(ResourceOf[k]) /\ n > 0
  <2>1. PICK c \in Backends : n = held[c][ResourceOf[k]] BY <1>7 DEF Contents
  <2>2. CASE c # b \/ ResourceOf[k] # r
    <3>1. n = held'[c][ResourceOf[k]] BY <1>3, <1>5, <2>1, <2>2
    <3>2. n \in Contents(ResourceOf[k])' BY <3>1 DEF Contents
    <3>3. QED BY <1>4, <3>2 DEF Explained
  <2>3. CASE c = b /\ ResourceOf[k] = r
    <3>1. n \in UnderWay(k) \cup Cached(k) BY <1>4, CopiesAreSeen
    <3>2. <<k, n>> \in CopiesOf({k}, n) BY <1>7, <3>1 DEF CopiesOf
    <3>3. QED BY <1>4, <2>1, <2>3, <3>2 DEF Explained
  <2>4. QED BY <2>2, <2>3
<1>8. QED BY <1>6, <1>7

\* A POST changes a file: its key is then to be invalidated, and the copies of
\* other keys are excused, or there were none; or the POST changes nothing yet.
LEMMA PostedCopies ==
  ASSUME RequestInv, WrittenInv, CopyInv, NEW w \in Workers, ForwardPost(w)
  PROVE  CopyInv'
<1> DEFINE key == job[w].key
           resource == ResourceOf[key]
<1>a. key \in Keys /\ resource \in Resources /\ job[w].pc = "forward" /\ job[w].method = "POST"
  BY RequestUnderWay DEF ForwardPost, Is
<1>b. store' = store /\ disk' = disk /\ excused \subseteq excused'
  BY DEF ForwardPost, vars
<1>c. PICK s \in Statuses :
        /\ Answered(w, s, 0)
        /\ \/ held' = held
           \/ \E b \in Backends :
                /\ Appends(b, resource)
                /\ \/ held[b][resource] = 0
                   \/ s = 200 /\ CopiesOf(SameFile(key) \ {key}, held[b][resource]) \subseteq excused'
  <2>1. {200, 201, 404, 502} \subseteq Statuses BY DEF Statuses
  <2>2. CASE \E b \in Backends :
               /\ Appends(b, resource)
               /\ \/ held[b][resource] = 0 /\ Answered(w, 201, 0)
                  \/ /\ held[b][resource] > 0 /\ Answered(w, 200, 0)
                     /\ excused' = excused \cup CopiesOf(SameFile(key) \ {key}, held[b][resource])
    BY <2>1, <2>2
  <2>3. CASE held' = held /\ (Answered(w, 404, 0) \/ Answered(w, 502, 0))
    BY <2>1, <2>3
  <2>4. QED BY <2>2, <2>3 DEF ForwardPost
<1>d. /\ \A v \in Workers \ {w} : job'[v] = job[v]
      /\ job'[w].pc = "answered" /\ job'[w].method = "POST" /\ job'[w].key = key
      /\ job'[w].status = s
  BY <1>a, <1>c, AnswerType, AnswersOfBackends
<1>1. ~MustStore(w)' /\ ~MustInvalidate(w)
  BY <1>a, <1>d DEF MustStore, MustInvalidate, Is
<1>2. \A k \in Keys : \A n : IsCopy(k, n)' => IsCopy(k, n)
  BY <1>b, <1>d, <1>1, CopiesOfWorkers DEF Live
<1>3. \A k \in Keys : Pending(k) => Pending(k)' BY <1>d, <1>1, PendingKept
<1>4. CASE held' = held BY <1>b, <1>2, <1>3, <1>4, OnlyOldCopies
<1>5. ASSUME NEW b \in Backends, Appends(b, resource),
             \/ held[b][resource] = 0
             \/ s = 200 /\ CopiesOf(SameFile(key) \ {key}, held[b][resource]) \subseteq excused'
      PROVE  CopyInv'
  <2>1. ASSUME NEW k \in Keys, ResourceOf[k] = resource
        PROVE  Pending(k)' \/ CopiesOf({k}, held[b][resource]) \subseteq excused'
    <3>1. CASE held[b][resource] = 0
      BY <3>1 DEF CopiesOf
    <3>2. CASE s = 200 /\ k = key BY <1>d, <3>2 DEF Pending, MustInvalidate, Is
    <3>3. CASE k # key /\ CopiesOf(SameFile(key) \ {key}, held[b][resource]) \subseteq excused'
      BY <2>1, <3>3 DEF CopiesOf, SameFile
    <3>4. QED BY <1>5, <3>1, <3>2, <3>3
  <2>2. QED BY <1>a, <1>b, <1>2, <1>3, <1>5, <2>1, ChangedCopies
<1>6. QED BY <1>c, <1>4, <1>5

LEMMA ArrivedCopies ==
  ASSUME RequestInv, WrittenInv, CopyInv, NEW b \in Backends, NEW r \in Resources, Arrives(b, r)
  PROVE  CopyInv'
<1>1. UNCHANGED <<store, disk, job>> /\ Appends(b, r) /\ excused \subseteq excused'
  BY DEF Arrives, vars
<1>2. \A k \in Keys : \A n : IsCopy(k, n)' => IsCopy(k, n)
  BY <1>1 DEF IsCopy, Live, MustStore, Is
<1>3. \A k \in Keys : Pending(k) => Pending(k)' BY <1>1 DEF Pending, MustInvalidate, Is
<1>4. \A k \in Keys : ResourceOf[k] = r => CopiesOf({k}, held[b][r]) \subseteq excused'
  BY DEF Arrives, CopiesOf
<1>5. QED BY <1>1, <1>2, <1>3, <1>4, ChangedCopies

\* After an invalidation there is no copy of the key on disk, and the copies
\* under way are of what a backend holds, or excused.
LEMMA InvalidatedCopies ==
  ASSUME CacheInv, WrittenInv, RequestInv, CopyInv,
         NEW w \in Workers, CacheInvalidateByRequest(w)
  PROVE  CopyInv'
<1>k. PICK key \in Keys : key = job[w].key
  BY RequestUnderWay DEF CacheInvalidateByRequest, MustInvalidate, Is
<1>a. /\ TypeOK
      /\ held' = held /\ store' = store /\ Finished(w)
      /\ CacheInvalidate(key) /\ MustInvalidate(w)
      /\ excused' = excused \cup {key} \X Outdated(key, UnderWay(key))
  BY <1>k DEF CacheInv, CacheInvalidateByRequest, CacheInvalidate, Finished, backendVars
<1>b. job'[w] = Free /\ \A v \in Workers \ {w} : job'[v] = job[v]
  BY <1>a, FinishedType
<1>1. ~MustStore(w)' BY <1>b, NotStoring DEF Free
<1>2. \A k \in Keys : Live(k)' => Live(k) /\ disk'[k].length = disk[k].length
  <2>1. RemoveFile(key) \/ LeaveFile(key)
    BY <1>a DEF CacheInvalidate, InvalidateEntry, Discard
  <2>2. QED BY <1>a, <2>1, RemovalOfCopies
<1>3. \A k \in Keys : \A n : IsCopy(k, n)' => IsCopy(k, n)
  BY <1>a, <1>b, <1>1, <1>2, CopiesOfWorkers
<1>4. ~Live(key)'
  <2>1. CASE key \in indexed
    BY <1>a, <2>1 DEF CacheInvalidate, InvalidateEntry, Discard, RemoveFile, NoFile, TypeOK, Live
  <2>2. CASE key \notin indexed
    <3>1. disk \in [Keys -> Files] /\ disk[key] \in Files BY <1>a DEF TypeOK
    <3>2. disk' = [disk EXCEPT ![key].stale = @ \/ disk[key].exists]
      BY <1>a, <2>2 DEF CacheInvalidate, LeaveFile
    <3>3. disk'[key].stale = (disk[key].stale \/ disk[key].exists)
          /\ disk'[key].header = disk[key].header
      BY <3>1, <3>2 DEF Files
    <3>4. QED BY <3>3 DEF WrittenInv, Live
  <2>3. QED BY <2>1, <2>2
<1>5. ASSUME NEW n, IsCopy(key, n)' PROVE n \in UnderWay(key)
  <2>1. CASE \E v \in Workers : MustStore(v)' /\ job'[v].key = key /\ job'[v].length = n
    BY <1>b, <1>1, <2>1 DEF UnderWay, MustStore, Is
  <2>2. CASE \E t \in StoreThreads : store'[t] # Idle /\ store'[t].key = key /\ store'[t].length = n
    BY <1>a, <2>2 DEF UnderWay
  <2>3. QED BY <1>4, <1>5, <2>1, <2>2 DEF IsCopy
<1>6. ASSUME NEW k \in Keys, NEW n \in 1 .. MaxContent,
             Pending(k), IsCopy(k, n)', n \notin Contents(ResourceOf[k])
      PROVE  Pending(k)' \/ <<k, n>> \in excused'
  <2>1. CASE k = key BY <1>a, <1>5, <1>6, <2>1 DEF Outdated
  <2>2. CASE k # key BY <1>b, <1>k, <1>6, <2>2 DEF Pending, MustInvalidate, Is
  <2>3. QED BY <2>1, <2>2
<1>7. QED BY <1>a, <1>3, <1>6, OnlyOldCopies

LEMMA CopyStep ==
  CacheInv /\ WrittenInv /\ RequestInv /\ CopyInv /\ [ProxyNext]_allVars => CopyInv'
<1> SUFFICES ASSUME CacheInv, WrittenInv, RequestInv, CopyInv, [ProxyNext]_allVars
             PROVE  CopyInv'
  OBVIOUS
<1>a. RequestInv /\ TypeOK BY DEF CacheInv
<1>b. job \in [Workers -> Jobs] /\ disk \in [Keys -> Files] BY <1>a DEF RequestInv, TypeOK
\* A worker that neither stores nor invalidates goes on to something of that kind.
<1>c. ASSUME NEW w \in Workers, \A v \in Workers \ {w} : job'[v] = job[v],
             ~MustInvalidate(w), ~MustStore(w)', UNCHANGED <<store, held, excused>>,
             \A k \in Keys : Live(k)' => Live(k) /\ disk'[k].length = disk[k].length
      PROVE  CopyInv'
  <2>1. \A k \in Keys : \A n : IsCopy(k, n)' => IsCopy(k, n)
    BY <1>c, CopiesOfWorkers
  <2>2. \A k \in Keys : Pending(k) => Pending(k)' BY <1>c, PendingKept
  <2>3. QED BY <1>a, <1>c, <2>1, <2>2, OnlyOldCopies
\* The cache drops copies, and the workers do nothing.
<1>d. ASSUME UNCHANGED <<job, store, held, excused>>,
             \A k \in Keys : Live(k)' => Live(k) /\ disk'[k].length = disk[k].length
      PROVE  CopyInv'
  <2>1. \A k \in Keys : \A n : IsCopy(k, n)' => IsCopy(k, n)
    BY <1>d DEF IsCopy, MustStore, Is
  <2>2. \A k \in Keys : Pending(k) => Pending(k)' BY <1>d DEF Pending, MustInvalidate, Is
  <2>3. QED BY <1>a, <1>d, <2>1, <2>2, OnlyOldCopies
<1>1. ASSUME NEW w \in Workers, NEW m \in Methods, NEW k \in Keys, Receive(w, m, k)
      PROVE  CopyInv'
  <2>1. job[w] = Free /\ job'[w].pc # "answered" /\ \A v \in Workers \ {w} : job'[v] = job[v]
    BY <1>1, <1>b DEF Receive
  <2>2. ~MustInvalidate(w) /\ ~MustStore(w)'
    BY <2>1, NotStoring DEF MustInvalidate, Is, Free
  <2>3. QED BY <1>1, <1>c, <2>1, <2>2 DEF Receive, vars, backendVars, Live
<1>2. ASSUME NEW w \in Workers, LookUpHit(w) PROVE CopyInv'
  <2>1. job[w].pc = "lookup" /\ job'[w] = Free /\ \A v \in Workers \ {w} : job'[v] = job[v]
    BY <1>2, <1>b DEF LookUpHit, Is
  <2>2. ~MustInvalidate(w) /\ ~MustStore(w)'
    BY <2>1, NotStoring DEF MustInvalidate, Is, Free
  <2>3. QED BY <1>2, <1>c, <2>1, <2>2 DEF LookUpHit, vars, backendVars, Live
<1>3. ASSUME NEW w \in Workers, LookUpMiss(w) PROVE CopyInv'
  <2>0. job[w].pc = "lookup" /\ job' = [job EXCEPT ![w].pc = "forward"]
    BY <1>3 DEF LookUpMiss, Is
  <2>1. job[w] \in [pc : {"lookup", "forward"}, method : Methods, key : Keys]
    BY <1>b, <2>0 DEF Jobs, Free
  <2>2. job'[w].pc = "forward" /\ \A v \in Workers \ {w} : job'[v] = job[v]
    BY <1>b, <2>0, <2>1
  <2>3. ~MustInvalidate(w) /\ ~MustStore(w)'
    BY <2>0, <2>2, NotStoring DEF MustInvalidate, Is
  <2>4. /\ store' = store /\ held' = held /\ excused' = excused
        /\ RemoveFile(job[w].key) \/ UNCHANGED disk
    BY <1>3 DEF LookUpMiss, LookUpExpires, Discard, vars, backendVars
  <2>5. job[w].key \in Keys BY <2>1
  <2>6. QED BY <1>a, <1>c, <2>2, <2>3, <2>4, <2>5, RemovalOfCopies
<1>4. ASSUME NEW w \in Workers, ForwardGet(w) \/ ForwardGetCut(w) PROVE CopyInv'
  <2>1. /\ job[w].pc = "forward" /\ job[w].key \in Keys
        /\ ResourceOf[job[w].key] \in Resources
    BY <1>4, <1>a, ForwardAnswers, RequestUnderWay
  <2>2. PICK s \in Statuses, n \in Bodies :
          /\ Answered(w, s, n)
          /\ s = 200 => n \in Contents(ResourceOf[job[w].key]) \cup {0, Beginning}
    <3>1. /\ Contents(ResourceOf[job[w].key]) \subseteq Bodies
          /\ {0, Beginning} \subseteq Bodies /\ {200, 404, 502} \subseteq Statuses
      BY <1>a, <2>1, AnswersOfBackends
    <3>2. CASE ForwardGet(w) BY <3>1, <3>2 DEF ForwardGet
    <3>3. CASE ForwardGetCut(w) BY <3>1, <3>3 DEF ForwardGetCut
    <3>4. QED BY <1>4, <3>2, <3>3
  <2>3. /\ \A v \in Workers \ {w} : job'[v] = job[v]
        /\ job'[w].key = job[w].key /\ job'[w].status = s /\ job'[w].length = n
    BY <1>a, <2>1, <2>2, AnswerType
  <2>4. store' = store /\ disk' = disk /\ held' = held /\ excused' = excused
    BY <1>4 DEF ForwardGet, ForwardGetCut, vars, backendVars
  <2>5. ASSUME NEW k \in Keys, NEW i \in Nat, IsCopy(k, i)'
        PROVE  IsCopy(k, i) \/ i \in Contents(ResourceOf[k]) \cup {0, Beginning}
    <3>1. CASE MustStore(w)' /\ job'[w].key = k /\ job'[w].length = i
      BY <2>2, <2>3, <2>5, <3>1 DEF MustStore
    <3>2. CASE ~(MustStore(w)' /\ job'[w].key = k /\ job'[w].length = i)
      BY <2>3, <2>4, <2>5, <3>2 DEF IsCopy, MustStore, Is, Live
    <3>3. QED BY <3>1, <3>2
  <2>6. \A k \in Keys : Pending(k) => Pending(k)'
    BY <2>1, <2>3, PendingKept DEF MustInvalidate, Is
  <2>7. QED BY <2>4, <2>5, <2>6, OnlyOldCopies
<1>5. ASSUME NEW w \in Workers, OnlyAnswer(w) PROVE CopyInv'
  <2>1. job'[w] = Free /\ \A v \in Workers \ {w} : job'[v] = job[v]
    BY <1>5, <1>a, FinishedType DEF OnlyAnswer
  <2>2. ~MustInvalidate(w) /\ ~MustStore(w)'
    BY <1>5, <2>1, NotStoring DEF OnlyAnswer, Free
  <2>3. QED BY <1>5, <1>c, <2>1, <2>2 DEF OnlyAnswer, Finished, vars, backendVars, Live
<1>6. ASSUME NEW w \in Workers, StoreInBackground(w) PROVE CopyInv'
  <2>1. job'[w] = Free /\ \A v \in Workers \ {w} : job'[v] = job[v]
    BY <1>6, <1>a, FinishedType DEF StoreInBackground
  <2>2. MustStore(w) /\ ~MustInvalidate(w) /\ ~MustStore(w)'
    BY <1>6, <2>1, NotStoring DEF StoreInBackground, Free, MustStore, MustInvalidate, Is
  <2>3. held' = held /\ excused' = excused /\ disk' = disk
    BY <1>6 DEF StoreInBackground, Finished, CacheStoreAsync, vars, backendVars
  <2>4. \A t \in StoreThreads : \/ store'[t] = store[t]
                                \/ /\ store'[t].key = job[w].key
                                   /\ store'[t].length = job[w].length
    <3>1. CASE UNCHANGED vars BY <3>1 DEF vars
    <3>2. CASE \E t \in StoreThreads : CacheStoreAsync(t, job[w].key, job[w].length)
      BY <1>a, <3>2 DEF CacheStoreAsync, TypeOK
    <3>3. QED BY <1>6, <3>1, <3>2 DEF StoreInBackground
  <2>5. \A k \in Keys : \A n : IsCopy(k, n)' => IsCopy(k, n)
    BY <2>1, <2>2, <2>3, <2>4 DEF IsCopy, MustStore, Is, Live
  <2>6. \A k \in Keys : Pending(k) => Pending(k)' BY <2>1, <2>2, PendingKept
  <2>7. QED BY <1>a, <2>3, <2>5, <2>6, OnlyOldCopies
<1>7. ASSUME NEW t \in StoreThreads, StoreWorker(t) PROVE CopyInv'
  <2>1. Store(t) /\ UNCHANGED <<held, job, excused>> BY <1>7 DEF StoreWorker, backendVars
  <2>2. \A k \in Keys : \A n : IsCopy(k, n)' => IsCopy(k, n)
    BY <1>a, <2>1, CopiesOfStore DEF IsCopy, MustStore, Is
  <2>3. \A k \in Keys : Pending(k) => Pending(k)' BY <2>1 DEF Pending, MustInvalidate, Is
  <2>4. QED BY <1>a, <2>1, <2>2, <2>3, OnlyOldCopies
<1>8. ASSUME Background PROVE CopyInv'
  <2>1. UNCHANGED <<job, store, held, excused>>
    BY <1>8 DEF Background, CleanerStart, CleanerDone, CleanerVisit, Tick, Restart, proxyVars, backendVars
  <2>2. CASE \E k \in Keys : CleanerVisit(k)
    <3>1. PICK k \in Keys : CleanerVisit(k) BY <2>2
    <3>2. RemoveFile(k) \/ UNCHANGED disk BY <3>1 DEF CleanerVisit, PurgeEntry, Discard
    <3>3. QED BY <1>a, <1>d, <2>1, <3>2, RemovalOfCopies
  <2>3. CASE Tick
    <3>1. \A k \in Keys : disk'[k] = disk[k] \/ disk'[k] = [disk[k] EXCEPT !.age = Older(@)]
      BY <2>3 DEF Tick
    <3>2. \A k \in Keys : /\ disk'[k].header = disk[k].header /\ disk'[k].length = disk[k].length
                           /\ disk'[k].stale = disk[k].stale
      BY <1>b, <3>1 DEF Files
    <3>3. QED BY <1>d, <2>1, <3>2 DEF Live
  <2>4. CASE CleanerStart \/ CleanerDone \/ Restart
    BY <1>d, <2>1, <2>4 DEF CleanerStart, CleanerDone, Restart, Live
  <2>5. QED BY <1>8, <2>2, <2>3, <2>4 DEF Background
<1>9. ASSUME Die PROVE CopyInv'
  <2>1. /\ \A w \in Workers : job'[w] = Free
        /\ \A t \in StoreThreads : store'[t] = Idle
        /\ disk' = disk /\ held' = held
    BY <1>9 DEF Die, Crash, backendVars
  <2>2. \A w \in Workers : ~MustStore(w)' BY <2>1, NotStoring DEF Free
  <2>3. \A k \in Keys : \A n : IsCopy(k, n)' => Live(k) /\ disk[k].length = n /\ IsCopy(k, n)
    BY <2>1, <2>2 DEF IsCopy, Live
  <2>4. ASSUME NEW k \in Keys, NEW n \in 1 .. MaxContent,
               Pending(k), IsCopy(k, n)', n \notin Contents(ResourceOf[k])
        PROVE  <<k, n>> \in excused'
    <3>1. n \in Cached(k) BY <2>3, <2>4 DEF Live, Cached, WrittenInv
    <3>2. n \in Outdated(k, Cached(k)) BY <2>4, <3>1 DEF Outdated
    <3>3. QED BY <1>9, <2>4, <3>2 DEF Die
  <2>5. excused \subseteq excused' BY <1>9 DEF Die
  <2>6. QED BY <2>1, <2>3, <2>4, <2>5, OnlyOldCopies
<1>10. CASE UNCHANGED allVars
  BY <1>d, <1>10 DEF allVars, proxyVars, backendVars, vars, Live
<1>11. QED
  BY <1>1, <1>2, <1>3, <1>4, <1>5, <1>6, <1>7, <1>8, <1>9, <1>10,
     PostedCopies, ArrivedCopies, InvalidatedCopies
  DEF ProxyNext, Work

\* Over any number of backends, which have POSTs at different times, or never, a
\* hit serves what none of them holds only if the answer that was stored was cut
\* short, a POST has not been handled yet, its invalidation left a file without an
\* entry in place, or the content served was replaced by a POST that another name
\* or nobody announced, or was on its way when the key was invalidated, or the proxy
\* died first: whatever fails, however small the index, whatever names files have.
THEOREM HitsAreCoherentUnlessRaced == ProxySpec => []CoherentUnlessRaced
<1>1. ProxyInit => CopyInv
  BY DEF ProxyInit, Init, CopyInv, IsCopy, MustStore, Is, Free, NoFile, Live
<1>2. CacheInv /\ WrittenInv /\ RequestInv /\ CopyInv /\ [ProxyNext]_allVars => CopyInv'
  BY CopyStep
<1>3. CacheInv /\ CopyInv => CoherentUnlessRaced
  <2> SUFFICES ASSUME CacheInv, CopyInv, NEW k \in Keys, Served(k), ~Pending(k),
                      ~disk[k].stale, disk[k].length # Beginning,
                      <<k, disk[k].length>> \notin excused
               PROVE  Current(k)
    BY DEF CoherentUnlessRaced
  <2>1. Live(k) /\ disk[k].length > 0 /\ disk[k].length \in Nat
    BY DEF CacheInv, TypeOK, Files, Served, Hit, Readable, Live
  <2>2. IsCopy(k, disk[k].length) BY <2>1 DEF IsCopy
  <2>3. QED BY <2>1, <2>2 DEF CopyInv, Explained, Current
<1>4. QED
  BY <1>1, <1>2, <1>3, ImplementsCacheManager, CacheInvariant, WrittenInvariant,
     RequestInvariant, PTL
  DEF ProxySpec

\* What is proved of hits in CacheManager holds of the hits clients are served.
THEOREM HitsInTheProxy == ProxySpec => [](HitIsWhole /\ HitIsFresh)
BY ImplementsCacheManager, HitsAreWhole, HitsAreFresh, PTL

\* With room in the index nothing that an invalidation met is served again, so
\* the last of the causes falls away, and no file is out of reach.
THEOREM NoResurrectionInTheProxy ==
  ASSUME Room PROVE ProxySpec => [](NoResurrection /\ FilesAreIndexed)
BY ImplementsCacheManager, NothingResurrectsWithRoom, FilesHaveEntries, PTL
=============================================================================
