---------------------------- MODULE CacheManager ----------------------------
(***************************************************************************)
(* The cache of the proxy: an index in memory and one file per entry on    *)
(* disk, under one mutex.  Client workers look keys up and invalidate      *)
(* them, a detached thread per cached response stores it, a cleaner purges *)
(* what expired, and a restarted process loads its index from the files a  *)
(* previous one left.  The process may die between any two steps (a send   *)
(* to a closed socket raises SIGPIPE, which nothing handles).              *)
(*                                                                         *)
(* Timestamps are represented by ages in seconds, which the clock advances *)
(* together; ages past MaxAge are not told apart.  A body is its length.   *)
(***************************************************************************)
EXTENDS Integers, FiniteSets

CONSTANTS
  Keys,             \* cache keys (MD5 of method|host|path)
  StoreThreads,     \* the CacheStoreWorker threads
  MaxEntries,       \* CACHE_MAX_ENTRIES: 1000 in the code
  TTL,              \* cache->ttl
  BodyLengths,      \* lengths of the responses stored
  Failures,         \* what may fail: a subset of FailureKinds
  CanCrash,         \* whether the process may die and be restarted
  MaxStoreSeconds   \* how many ticks of the clock one CacheStore may see

FailureKinds == {"open", "write", "flush", "alloc"}

ASSUME KeysAssumption == IsFiniteSet(Keys)
ASSUME StoreThreadsAssumption == {"nobody", "cleaner"} \cap StoreThreads = {}
ASSUME MaxEntriesAssumption == MaxEntries \in Nat \ {0}
ASSUME TTLAssumption == TTL \in Nat /\ MaxStoreSeconds \in Nat
ASSUME BodyLengthsAssumption == BodyLengths \subseteq Nat
ASSUME FailuresAssumption == Failures \subseteq FailureKinds /\ CanCrash \in BOOLEAN

VARIABLES
  running,          \* whether the process is up
  lock,             \* who holds cache->lock
  indexed, stamp,   \* the keys in cache->table, the age of their timestamps
  entryCount,       \* cache->entryCount
  disk,             \* the file of each key
  store,            \* the CacheStore of each store thread
  storeSeconds,     \* ticks seen by the CacheStore that holds the lock
  toVisit           \* the entries CacheCleanupWorker has still to visit

indexVars == <<indexed, stamp, entryCount>>
vars == <<running, lock, indexVars, disk, store, storeSeconds, toVisit>>

MaxAge == TTL + MaxStoreSeconds + 1
Ages == 0 .. MaxAge

\* A file: whether it exists and its header is complete, the Content-Length
\* the header states, the body bytes present, the age of its timestamp; stale
\* is history: an invalidation of the key has left the file in place.
Files == [exists : BOOLEAN, header : BOOLEAN, length : Nat, bytes : Nat,
          age : Ages, stale : BOOLEAN]
NoFile == [exists |-> FALSE, header |-> FALSE, length |-> 0, bytes |-> 0,
           age |-> 0, stale |-> FALSE]
EmptyFile == [NoFile EXCEPT !.exists = TRUE]

Idle == [pc |-> "idle"]
Stores == {Idle} \cup [pc : {"queued", "writing", "closing", "indexing"},
                       key : Keys, length : BodyLengths]

TypeOK ==
  /\ running \in BOOLEAN
  /\ lock \in {"nobody", "cleaner"} \cup StoreThreads
  /\ indexed \subseteq Keys
  /\ stamp \in [Keys -> Ages]
  /\ entryCount \in 0 .. MaxEntries
  /\ disk \in [Keys -> Files]
  /\ store \in [StoreThreads -> Stores]
  /\ storeSeconds \in 0 .. MaxStoreSeconds
  /\ toVisit \subseteq Keys

Init ==
  /\ running = TRUE
  /\ lock = "nobody"
  /\ indexed = {} /\ stamp = [k \in Keys |-> 0] /\ entryCount = 0
  /\ disk = [k \in Keys |-> NoFile]
  /\ store = [t \in StoreThreads |-> Idle]
  /\ storeSeconds = 0
  /\ toVisit = {}

-----------------------------------------------------------------------------
(* Entries and files *)

Expired(k) == stamp[k] > TTL

Fault_CountKept(k) ==
  /\ indexed' = indexed \ {k}
  /\ stamp' = [stamp EXCEPT ![k] = 0]
  /\ UNCHANGED entryCount

DropEntry(k) ==
  /\ indexed' = indexed \ {k}
  /\ stamp' = [stamp EXCEPT ![k] = 0]
  /\ entryCount' = entryCount - 1

RemoveFile(k) == disk' = [disk EXCEPT ![k] = NoFile]

Discard(k) == DropEntry(k) /\ RemoveFile(k)

Fault_ShortReadAccepted(k) == disk[k].header /\ disk[k].length > 0

\* CacheReadMeta and CacheReadBody succeed.
Readable(k) ==
  disk[k].header /\ disk[k].length > 0 /\ disk[k].bytes >= disk[k].length

\* CacheLookUp of k returns a response.
Hit(k) == k \in indexed /\ ~Expired(k) /\ Readable(k)

\* CacheLookUp changes something only when it meets an expired entry.
LookUpExpires(k) ==
  /\ running /\ lock = "nobody"
  /\ k \in indexed /\ Expired(k)
  /\ Discard(k)
  /\ UNCHANGED <<running, lock, store, storeSeconds, toVisit>>

-----------------------------------------------------------------------------
(* CacheStoreAsync, CacheStoreWorker and CacheStore *)

CacheStoreAsync(t, k, n) ==
  /\ running /\ store[t] = Idle
  /\ store' = [store EXCEPT ![t] = [pc |-> "queued", key |-> k, length |-> n]]
  /\ UNCHANGED <<running, lock, indexVars, disk, storeSeconds, toVisit>>

At(t, label) == store[t].pc = label
Goto(t, label) == store' = [store EXCEPT ![t].pc = label]
Finish(t) == /\ store' = [store EXCEPT ![t] = Idle]
             /\ lock' = "nobody"
             /\ storeSeconds' = 0

\* The lock is taken and the file opened for writing, which empties it.
StoreOpen(t) ==
  /\ At(t, "queued") /\ lock = "nobody"
  /\ \/ /\ lock' = t
        /\ disk' = [disk EXCEPT ![store[t].key] = EmptyFile]
        /\ Goto(t, "writing")
        /\ UNCHANGED storeSeconds
     \/ /\ "open" \in Failures
        /\ Finish(t)
        /\ UNCHANGED disk
  /\ UNCHANGED <<running, indexVars, toVisit>>

\* What a file of n body bytes may look like before its last byte is flushed.
Prefixes(n) ==
  {EmptyFile} \cup {[EmptyFile EXCEPT !.header = TRUE, !.length = n, !.bytes = m] :
                      m \in 0 .. n}

\* CacheWriteFile: the timestamp is taken, stdio has flushed some of the bytes.
StoreWrite(t) ==
  /\ At(t, "writing")
  /\ \/ /\ \E f \in Prefixes(store[t].length) :
             disk' = [disk EXCEPT ![store[t].key] = f]
        /\ Goto(t, "closing")
        /\ UNCHANGED <<lock, storeSeconds>>
     \/ /\ "write" \in Failures
        /\ RemoveFile(store[t].key)
        /\ Finish(t)
  /\ UNCHANGED <<running, indexVars, toVisit>>

\* fclose flushes the rest; its result is not looked at.
StoreClose(t) ==
  /\ At(t, "closing")
  /\ \/ disk' = [disk EXCEPT ![store[t].key] =
                   [@ EXCEPT !.header = TRUE, !.length = store[t].length,
                             !.bytes = store[t].length]]
     \/ "flush" \in Failures /\ UNCHANGED disk
  /\ Goto(t, "indexing")
  /\ UNCHANGED <<running, lock, indexVars, storeSeconds, toVisit>>

Fault_LimitOvershot == entryCount <= MaxEntries

HasRoom == entryCount < MaxEntries

MayAdd(k) == HasRoom /\ k \notin indexed

\* CacheAddFromDisk(..., time(NULL)). When it refuses, the file stays.
StoreIndex(t) ==
  /\ At(t, "indexing")
  /\ \/ /\ MayAdd(store[t].key)
        /\ indexed' = indexed \cup {store[t].key}
        /\ stamp' = [stamp EXCEPT ![store[t].key] = 0]
        /\ entryCount' = entryCount + 1
     \/ /\ ~MayAdd(store[t].key) \/ "alloc" \in Failures
        /\ UNCHANGED indexVars
  /\ Finish(t)
  /\ UNCHANGED <<running, disk, toVisit>>

Store(t) == StoreOpen(t) \/ StoreWrite(t) \/ StoreClose(t) \/ StoreIndex(t)

-----------------------------------------------------------------------------
(* cacheInvalidate *)

LeaveFile(k) == disk' = [disk EXCEPT ![k].stale = @ \/ disk[k].exists]

Fault_EntryOnly(k) == DropEntry(k) /\ LeaveFile(k)
Fault_FileOnly(k) == RemoveFile(k) /\ UNCHANGED indexVars

InvalidateEntry(k) == Discard(k)

CacheInvalidate(k) ==
  /\ running /\ lock = "nobody"
  /\ \/ k \in indexed /\ InvalidateEntry(k)
     \/ k \notin indexed /\ LeaveFile(k) /\ UNCHANGED indexVars
  /\ UNCHANGED <<running, lock, store, storeSeconds, toVisit>>

-----------------------------------------------------------------------------
(* CacheCleanupWorker *)

\* sleep(ttl) returns, the lock is taken.
CleanerStart ==
  /\ running /\ lock = "nobody"
  /\ lock' = "cleaner"
  /\ toVisit' = indexed
  /\ UNCHANGED <<running, indexVars, disk, store, storeSeconds>>

Fault_PurgeEntryOnly(k) == DropEntry(k) /\ UNCHANGED disk

Fault_PurgeNeedsFile(k) ==
  IF disk[k].exists THEN Discard(k) ELSE UNCHANGED <<indexVars, disk>>

PurgeEntry(k) == Discard(k)

CleanerVisit(k) ==
  /\ lock = "cleaner" /\ k \in toVisit
  /\ toVisit' = toVisit \ {k}
  /\ \/ Expired(k) /\ PurgeEntry(k)
     \/ ~Expired(k) /\ UNCHANGED <<indexVars, disk>>
  /\ UNCHANGED <<running, lock, store, storeSeconds>>

CleanerDone ==
  /\ lock = "cleaner" /\ toVisit = {}
  /\ lock' = "nobody"
  /\ UNCHANGED <<running, indexVars, disk, store, storeSeconds, toVisit>>

-----------------------------------------------------------------------------
(* The clock, and the death and restart of the process *)

Older(a) == IF a < MaxAge THEN a + 1 ELSE a

Tick ==
  /\ lock \in StoreThreads => storeSeconds < MaxStoreSeconds
  /\ storeSeconds' = IF lock \in StoreThreads THEN storeSeconds + 1 ELSE 0
  /\ stamp' = [k \in Keys |-> IF k \in indexed THEN Older(stamp[k]) ELSE 0]
  /\ disk' = [k \in Keys |-> IF disk[k].exists
                             THEN [disk[k] EXCEPT !.age = Older(@)] ELSE disk[k]]
  /\ UNCHANGED <<running, lock, indexed, entryCount, store, toVisit>>

Crash ==
  /\ CanCrash /\ running
  /\ running' = FALSE
  /\ lock' = "nobody"
  /\ indexed' = {} /\ stamp' = [k \in Keys |-> 0] /\ entryCount' = 0
  /\ store' = [t \in StoreThreads |-> Idle]
  /\ storeSeconds' = 0 /\ toVisit' = {}
  /\ UNCHANGED disk

\* The files cacheLoadFromDisk accepts: it reads the header, not the body.
Loadable == {k \in Keys : disk[k].exists /\ disk[k].header}

Fault_LoadedAsNew(k) == 0

LoadedStamp(k) == disk[k].age

\* cacheLoadFromDisk, in the order of the directory, up to MaxEntries files.
Restart ==
  /\ ~running
  /\ running' = TRUE
  /\ \E S \in SUBSET Loadable :
       /\ Cardinality(S) <= MaxEntries
       /\ S = Loadable \/ Cardinality(S) = MaxEntries \/ "alloc" \in Failures
       /\ indexed' = S
       /\ entryCount' = Cardinality(S)
       /\ stamp' = [k \in Keys |-> IF k \in S THEN LoadedStamp(k) ELSE 0]
  /\ UNCHANGED <<lock, disk, store, storeSeconds, toVisit>>

-----------------------------------------------------------------------------

Next ==
  \/ \E k \in Keys : LookUpExpires(k) \/ CacheInvalidate(k) \/ CleanerVisit(k)
  \/ \E t \in StoreThreads :
       Store(t) \/ \E k \in Keys, n \in BodyLengths : CacheStoreAsync(t, k, n)
  \/ CleanerStart \/ CleanerDone
  \/ Tick \/ Crash \/ Restart

Spec == Init /\ [][Next]_vars

\* Time passes; a thread that holds the lock goes on; the cleaner, asleep or
\* waiting for a mutex that is released again and again, gets it in the end.
Fairness ==
  /\ WF_vars(Tick)
  /\ \A t \in StoreThreads : WF_vars(lock = t /\ Store(t))
  /\ SF_vars(CleanerStart)
  /\ WF_vars(CleanerDone \/ \E k \in Keys : CleanerVisit(k))

FairSpec == Spec /\ Fairness

-----------------------------------------------------------------------------
(* Properties *)

\* entryCount, which decides whether a response is still cached, is the size
\* of the index after any mix of stores, expiries, invalidations and restarts.
CountMatchesIndex == entryCount = Cardinality(indexed)

\* What CacheLookUp finds when it gets the lock.
Served(k) == running /\ lock = "nobody" /\ Hit(k)

\* A hit serves the whole body of one response, although stores are cut short
\* by full disks and crashes and the files they leave are loaded again.
HitIsWhole == \A k \in Keys : Served(k) => disk[k].bytes = disk[k].length

\* A hit is not older than the TTL, give or take the time of one store:
\* overwriting the file of an entry that is still indexed and reloading the
\* index never let content outlive its time.
HitIsFresh == \A k \in Keys : Served(k) => disk[k].age <= TTL + MaxStoreSeconds

\* Content that an invalidation met in the cache is never served again
\* (cacheInvalidate: "Invalida una entrada de caché tanto en RAM como en disco").
NoResurrection == \A k \in Keys : Served(k) => ~disk[k].stale

\* A response that was stored is found until it expires (CacheStore: "Agrega a
\* RAM para que futuras consultas puedan encontrarlo sin ir al disco").
IndexedIsServed ==
  \A k \in Keys : running /\ lock = "nobody" /\ k \in indexed /\ ~Expired(k) => Hit(k)

\* A file that outlived its TTL does not stay on disk for ever
\* (CacheCleanupWorker: "Worker que se encarga de limpiar la caché periódicamente").
ExpiredFilesPurged ==
  \A k \in Keys : disk[k].exists /\ disk[k].age > TTL
                    ~> ~(disk[k].exists /\ disk[k].age > TTL)

\* An entry whose file cannot be read is not kept for ever: an overwrite that
\* fails (the label error of CacheStore) removes the file of a key that stays in
\* the index, and the key misses until it expires or is stored again.
UnreadableEnds ==
  \A k \in Keys :
    k \in indexed /\ ~Readable(k) ~> k \notin indexed \/ Readable(k)
=============================================================================
