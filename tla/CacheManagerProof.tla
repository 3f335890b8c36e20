------------------------- MODULE CacheManagerProof -------------------------
(***************************************************************************)
(* Proofs about CacheManager for any keys, threads, capacity and TTL.      *)
(***************************************************************************)
EXTENDS CacheManager, FiniteSetTheorems, TLAPS

-----------------------------------------------------------------------------
(* Types, the lock and the entry count *)

\* The store that is past StoreOpen is the one that holds the lock; while the
\* process is down nobody does; the cleaner visits entries that are there.
LockInv ==
  /\ \A t \in StoreThreads : store[t].pc \in {"writing", "closing", "indexing"} => lock = t
  /\ ~running => /\ lock = "nobody" /\ indexed = {}
                 /\ \A t \in StoreThreads : store[t].pc = "idle"
  /\ toVisit \subseteq indexed
  /\ lock # "cleaner" => toVisit = {}

\* entryCount needs the count of the index to be known to stay in its range.
CacheInv == TypeOK /\ LockInv /\ CountMatchesIndex

LEMMA IndexIsFinite ==
  ASSUME TypeOK
  PROVE  IsFiniteSet(indexed) /\ Cardinality(indexed) \in Nat
BY KeysAssumption, FS_Subset, FS_CardinalityType DEF TypeOK

LEMMA EntryDropped ==
  ASSUME TypeOK, CountMatchesIndex, NEW k \in indexed, DropEntry(k)
  PROVE  /\ CountMatchesIndex'
         /\ entryCount' \in 0 .. MaxEntries
         /\ indexed' = indexed \ {k}
         /\ stamp' \in [Keys -> Ages]
<1>1. Cardinality(indexed \ {k}) = Cardinality(indexed) - 1
  BY IndexIsFinite, FS_RemoveElement
<1>2. Cardinality(indexed) # 0 BY IndexIsFinite, FS_EmptySet
<1>3. stamp' \in [Keys -> Ages]
  BY TTLAssumption DEF DropEntry, TypeOK, Ages, MaxAge
<1>4. QED
  BY <1>1, <1>2, <1>3, IndexIsFinite, MaxEntriesAssumption
  DEF DropEntry, CountMatchesIndex, TypeOK

LEMMA NoFileType == NoFile \in Files /\ EmptyFile \in Files
<1>1. 0 \in Ages BY TTLAssumption DEF Ages, MaxAge
<1>2. NoFile \in Files BY <1>1 DEF NoFile, Files
<1>3. QED BY <1>2 DEF EmptyFile, Files

LEMMA PrefixType ==
  ASSUME NEW n \in Nat, NEW f \in Prefixes(n)
  PROVE  f \in Files /\ f.age = 0 /\ f.stale = FALSE
         /\ (f.header => f.length = n /\ f.bytes <= n)
<1>0. /\ EmptyFile \in Files
      /\ EmptyFile.header = FALSE /\ EmptyFile.age = 0 /\ EmptyFile.stale = FALSE
  BY NoFileType DEF EmptyFile, NoFile
<1>1. CASE f = EmptyFile BY <1>0, <1>1
<1>2. CASE f # EmptyFile
  <2>1. PICK m \in 0 .. n :
          f = [EmptyFile EXCEPT !.header = TRUE, !.length = n, !.bytes = m]
    BY <1>2 DEF Prefixes
  <2>a. m \in Nat BY <2>1
  <2>b. [EmptyFile EXCEPT !.header = TRUE] \in Files BY <1>0 DEF Files
  <2>c. [EmptyFile EXCEPT !.header = TRUE, !.length = n] \in Files BY <2>b DEF Files
  <2>2. f \in Files BY <2>1, <2>a, <2>c DEF Files
  <2>3. f.length = n /\ f.bytes = m /\ f.age = 0 /\ f.stale = FALSE
    BY <1>0, <2>1 DEF Files
  <2>4. QED BY <2>2, <2>3
<1>3. QED BY <1>1, <1>2

LEMMA EntryDiscarded ==
  ASSUME CacheInv, NEW k \in indexed, Discard(k)
  PROVE  /\ CountMatchesIndex'
         /\ entryCount' \in 0 .. MaxEntries
         /\ indexed' = indexed \ {k}
         /\ stamp' \in [Keys -> Ages]
         /\ disk' \in [Keys -> Files]
BY EntryDropped, NoFileType DEF Discard, RemoveFile, CacheInv, TypeOK

LEMMA OlderType == \A a \in Ages : Older(a) \in Ages
BY TTLAssumption DEF Older, Ages, MaxAge

\* A store that is under way has a key and a length.
LEMMA StoreUnderWay ==
  ASSUME TypeOK, NEW t \in StoreThreads,
         store[t].pc \in {"queued", "writing", "closing", "indexing"}
  PROVE  /\ store[t].key \in Keys
         /\ store[t].length \in Nat
         /\ \A l \in {"queued", "writing", "closing", "indexing"} :
              [store EXCEPT ![t].pc = l] \in [StoreThreads -> Stores]
<1>1. store[t] \in Stores BY DEF TypeOK
<1>2. store[t] # Idle BY DEF Idle
<1>3. store[t] \in [pc : {"queued", "writing", "closing", "indexing"},
                    key : Keys, length : BodyLengths]
  BY <1>1, <1>2 DEF Stores
<1>4. ASSUME NEW l \in {"queued", "writing", "closing", "indexing"}
      PROVE  [store EXCEPT ![t].pc = l] \in [StoreThreads -> Stores]
  <2>1. [store[t] EXCEPT !.pc = l] \in Stores BY <1>3 DEF Stores
  <2>2. QED BY <2>1 DEF TypeOK
<1>5. QED BY <1>3, <1>4, BodyLengthsAssumption

LEMMA FinishType ==
  ASSUME CacheInv, NEW t \in StoreThreads, Finish(t)
  PROVE  /\ store' \in [StoreThreads -> Stores]
         /\ lock' = "nobody" /\ storeSeconds' \in 0 .. MaxStoreSeconds
         /\ \A u \in StoreThreads \ {t} : store'[u] = store[u]
         /\ store'[t].pc = "idle"
BY TTLAssumption DEF Finish, CacheInv, TypeOK, Stores, Idle

THEOREM CacheInvariant == Spec => []CacheInv
<1>1. Init => CacheInv
  <2> SUFFICES ASSUME Init PROVE CacheInv OBVIOUS
  <2>1. 0 \in Ages /\ 0 \in 0 .. MaxStoreSeconds /\ 0 \in 0 .. MaxEntries
    BY TTLAssumption, MaxEntriesAssumption DEF Ages, MaxAge
  <2>2. CountMatchesIndex BY FS_EmptySet DEF Init, CountMatchesIndex
  <2>3. LockInv BY DEF Init, LockInv, Idle
  <2>4. QED BY <2>1, <2>2, <2>3, NoFileType DEF Init, CacheInv, TypeOK, Stores
<1>2. CacheInv /\ [Next]_vars => CacheInv'
  <2> SUFFICES ASSUME CacheInv, [Next]_vars PROVE CacheInv' OBVIOUS
  <2>a. TypeOK /\ LockInv /\ CountMatchesIndex BY DEF CacheInv
  <2>1. ASSUME NEW k \in Keys, LookUpExpires(k) PROVE CacheInv'
    <3>1. k \in indexed /\ Discard(k) BY <2>1 DEF LookUpExpires
    <3>2. LockInv'
      BY <2>1, <2>a, <3>1, EntryDiscarded DEF LookUpExpires, LockInv
    <3>3. TypeOK' BY <2>1, <2>a, <3>1, EntryDiscarded DEF LookUpExpires, TypeOK
    <3>4. QED BY <3>1, <3>2, <3>3, EntryDiscarded DEF CacheInv
  <2>2. ASSUME NEW k \in Keys, CacheInvalidate(k) PROVE CacheInv'
    <3>1. CASE k \in indexed
      <4>1. Discard(k) BY <2>2, <3>1 DEF CacheInvalidate, InvalidateEntry
      <4>2. LockInv'
        BY <2>2, <2>a, <3>1, <4>1, EntryDiscarded DEF CacheInvalidate, LockInv
      <4>3. TypeOK'
        BY <2>2, <2>a, <3>1, <4>1, EntryDiscarded DEF CacheInvalidate, TypeOK
      <4>4. QED BY <3>1, <4>1, <4>2, <4>3, EntryDiscarded DEF CacheInv
    <3>2. CASE k \notin indexed
      <4>1. UNCHANGED <<running, lock, indexVars, store, storeSeconds, toVisit>>
            /\ LeaveFile(k)
        BY <2>2, <3>2 DEF CacheInvalidate
      <4>2. disk' \in [Keys -> Files]
        BY <2>a, <4>1 DEF LeaveFile, TypeOK, Files
      <4>3. QED
        BY <2>a, <4>1, <4>2
        DEF CacheInv, TypeOK, LockInv, CountMatchesIndex, indexVars
    <3>3. QED BY <3>1, <3>2
  <2>3. ASSUME NEW k \in Keys, CleanerVisit(k) PROVE CacheInv'
    <3>0. k \in indexed BY <2>3, <2>a DEF CleanerVisit, LockInv
    <3>1. CASE Discard(k)
      <4>1. LockInv'
        BY <2>3, <2>a, <3>0, <3>1, EntryDiscarded DEF CleanerVisit, LockInv
      <4>2. TypeOK'
        BY <2>3, <2>a, <3>0, <3>1, EntryDiscarded DEF CleanerVisit, TypeOK
      <4>3. QED BY <3>0, <3>1, <4>1, <4>2, EntryDiscarded DEF CacheInv
    <3>2. CASE UNCHANGED <<indexVars, disk>>
      BY <2>3, <2>a, <3>2
      DEF CleanerVisit, CacheInv, TypeOK, LockInv, CountMatchesIndex, indexVars
    <3>3. QED BY <2>3, <3>1, <3>2 DEF CleanerVisit, PurgeEntry
  <2>4. ASSUME NEW t \in StoreThreads, StoreOpen(t) PROVE CacheInv'
    <3>0. store[t].pc = "queued" /\ lock = "nobody" BY <2>4 DEF StoreOpen, At
    <3>1. CASE Goto(t, "writing") /\ lock' = t /\ UNCHANGED storeSeconds
               /\ disk' = [disk EXCEPT ![store[t].key] = EmptyFile]
      <4>a. store' \in [StoreThreads -> Stores]
        BY <2>a, <3>0, <3>1, StoreUnderWay DEF Goto
      <4>b. disk' \in [Keys -> Files] BY <2>a, <3>1, NoFileType DEF TypeOK
      <4>1. TypeOK'
        BY <2>4, <2>a, <3>1, <4>a, <4>b DEF StoreOpen, TypeOK, indexVars
      <4>2. LockInv'
        BY <2>4, <2>a, <3>0, <3>1, StoreThreadsAssumption
        DEF StoreOpen, LockInv, Goto, TypeOK, indexVars
      <4>3. QED
        BY <2>4, <2>a, <4>1, <4>2 DEF StoreOpen, CacheInv, CountMatchesIndex, indexVars
    <3>2. CASE Finish(t) /\ UNCHANGED disk
      <4>1. TypeOK'
        BY <2>4, <2>a, <3>2, FinishType DEF StoreOpen, TypeOK, indexVars
      <4>2. LockInv'
        BY <2>4, <2>a, <3>0, <3>2, FinishType DEF StoreOpen, LockInv, indexVars
      <4>3. QED
        BY <2>4, <2>a, <4>1, <4>2 DEF StoreOpen, CacheInv, CountMatchesIndex, indexVars
    <3>3. QED BY <2>4, <3>1, <3>2 DEF StoreOpen
  <2>5. ASSUME NEW t \in StoreThreads, StoreWrite(t) PROVE CacheInv'
    <3>0. store[t].pc = "writing" /\ lock = t BY <2>5, <2>a DEF StoreWrite, At, LockInv
    <3>1. CASE Goto(t, "closing") /\ UNCHANGED <<lock, storeSeconds>>
               /\ \E f \in Prefixes(store[t].length) :
                    disk' = [disk EXCEPT ![store[t].key] = f]
      <4>0. disk' \in [Keys -> Files]
        <5>1. PICK f \in Prefixes(store[t].length) :
                     disk' = [disk EXCEPT ![store[t].key] = f]
          BY <3>1
        <5>2. f \in Files BY <2>a, <3>0, StoreUnderWay, PrefixType
        <5>3. QED BY <2>a, <5>1, <5>2 DEF TypeOK
      <4>1. TypeOK'
        BY <2>5, <2>a, <3>0, <3>1, <4>0, StoreUnderWay
        DEF StoreWrite, TypeOK, Goto, indexVars
      <4>2. LockInv'
        BY <2>5, <2>a, <3>0, <3>1 DEF StoreWrite, LockInv, Goto, TypeOK, indexVars
      <4>3. QED
        BY <2>5, <2>a, <4>1, <4>2 DEF StoreWrite, CacheInv, CountMatchesIndex, indexVars
    <3>2. CASE Finish(t) /\ RemoveFile(store[t].key)
      <4>1. TypeOK'
        BY <2>5, <2>a, <3>0, <3>2, FinishType, NoFileType
        DEF StoreWrite, TypeOK, RemoveFile, indexVars
      <4>2. LockInv'
        BY <2>5, <2>a, <3>0, <3>2, FinishType, StoreThreadsAssumption
        DEF StoreWrite, LockInv, indexVars
      <4>3. QED
        BY <2>5, <2>a, <4>1, <4>2 DEF StoreWrite, CacheInv, CountMatchesIndex, indexVars
    <3>3. QED BY <2>5, <3>1, <3>2 DEF StoreWrite
  <2>6. ASSUME NEW t \in StoreThreads, StoreClose(t) PROVE CacheInv'
    <3>0. store[t].pc = "closing" /\ lock = t BY <2>6, <2>a DEF StoreClose, At, LockInv
    <3>1. disk' \in [Keys -> Files]
      <4>1. store[t].length \in Nat /\ store[t].key \in Keys
        BY <2>a, <3>0, StoreUnderWay
      <4>2. disk[store[t].key] \in Files BY <2>a, <4>1 DEF TypeOK
      <4>3. [disk[store[t].key] EXCEPT !.header = TRUE, !.length = store[t].length,
                                       !.bytes = store[t].length] \in Files
        BY <4>1, <4>2 DEF Files
      <4>4. QED BY <2>6, <2>a, <4>1, <4>3 DEF StoreClose, TypeOK
    <3>2. TypeOK'
      BY <2>6, <2>a, <3>0, <3>1, StoreUnderWay DEF StoreClose, TypeOK, Goto, indexVars
    <3>3. LockInv'
      BY <2>6, <2>a, <3>0 DEF StoreClose, LockInv, Goto, TypeOK, indexVars
    <3>4. QED
      BY <2>6, <2>a, <3>2, <3>3 DEF StoreClose, CacheInv, CountMatchesIndex, indexVars
  <2>7. ASSUME NEW t \in StoreThreads, StoreIndex(t) PROVE CacheInv'
    <3>0. /\ store[t].pc = "indexing" /\ lock = t
          /\ Finish(t) /\ UNCHANGED <<running, disk, toVisit>>
      BY <2>7, <2>a DEF StoreIndex, At, LockInv
    <3>1. CASE UNCHANGED indexVars
      <4>1. TypeOK'
        BY <2>a, <3>0, <3>1, FinishType DEF TypeOK, indexVars
      <4>2. LockInv'
        BY <2>a, <3>0, <3>1, FinishType, StoreThreadsAssumption DEF LockInv, indexVars
      <4>3. QED BY <2>a, <3>1, <4>1, <4>2 DEF CacheInv, CountMatchesIndex, indexVars
    <3>2. CASE /\ MayAdd(store[t].key)
               /\ indexed' = indexed \cup {store[t].key}
               /\ stamp' = [stamp EXCEPT ![store[t].key] = 0]
               /\ entryCount' = entryCount + 1
      <4>1. store[t].key \in Keys \ indexed
        BY <2>a, <3>0, <3>2, StoreUnderWay DEF MayAdd
      <4>2. CountMatchesIndex'
        BY <2>a, <3>2, <4>1, IndexIsFinite, FS_AddElement DEF CountMatchesIndex
      <4>3. entryCount' \in 0 .. MaxEntries
        BY <2>a, <3>2, MaxEntriesAssumption DEF MayAdd, HasRoom, TypeOK
      <4>4. stamp' \in [Keys -> Ages]
        <5>1. 0 \in Ages BY TTLAssumption DEF Ages, MaxAge
        <5>2. QED BY <2>a, <3>2, <5>1 DEF TypeOK
      <4>5. TypeOK' BY <2>a, <3>0, <3>2, <4>1, <4>3, <4>4, FinishType DEF TypeOK
      <4>6. running BY <2>a, <3>0, StoreThreadsAssumption DEF LockInv
      <4>7. LockInv'
        BY <2>a, <3>0, <3>2, <4>6, FinishType, StoreThreadsAssumption DEF LockInv
      <4>8. QED BY <4>2, <4>5, <4>7 DEF CacheInv
    <3>3. QED BY <2>7, <3>1, <3>2 DEF StoreIndex
  <2>8. ASSUME NEW t \in StoreThreads, NEW k \in Keys, NEW n \in BodyLengths,
               CacheStoreAsync(t, k, n)
        PROVE  CacheInv'
    <3>1. [pc |-> "queued", key |-> k, length |-> n] \in Stores BY DEF Stores
    <3>2. TypeOK' BY <2>8, <2>a, <3>1 DEF CacheStoreAsync, TypeOK, indexVars
    <3>3. LockInv'
      BY <2>8, <2>a DEF CacheStoreAsync, LockInv, TypeOK, indexVars
    <3>4. QED
      BY <2>8, <2>a, <3>2, <3>3 DEF CacheStoreAsync, CacheInv, CountMatchesIndex, indexVars
  <2>9. CASE CleanerStart
    BY <2>9, <2>a, StoreThreadsAssumption
    DEF CleanerStart, CacheInv, TypeOK, LockInv, CountMatchesIndex, indexVars
  <2>10. CASE CleanerDone
    BY <2>10, <2>a, StoreThreadsAssumption
    DEF CleanerDone, CacheInv, TypeOK, LockInv, CountMatchesIndex, indexVars
  <2>11. CASE Tick
    <3>1. stamp' \in [Keys -> Ages]
      BY <2>11, <2>a, OlderType, TTLAssumption DEF Tick, TypeOK, Ages, MaxAge
    <3>2. disk' \in [Keys -> Files]
      <4> SUFFICES ASSUME NEW k \in Keys, disk[k].exists
                   PROVE  [disk[k] EXCEPT !.age = Older(@)] \in Files
        BY <2>11, <2>a DEF Tick, TypeOK
      <4>1. disk[k] \in Files BY <2>a DEF TypeOK
      <4>2. QED BY <4>1, OlderType DEF Files
    <3>3. storeSeconds' \in 0 .. MaxStoreSeconds
      BY <2>11, <2>a, TTLAssumption DEF Tick, TypeOK
    <3>4. QED
      BY <2>11, <2>a, <3>1, <3>2, <3>3
      DEF Tick, CacheInv, TypeOK, LockInv, CountMatchesIndex
  <2>12. CASE Crash
    <3>1. 0 \in Ages /\ 0 \in 0 .. MaxStoreSeconds /\ 0 \in 0 .. MaxEntries
      BY TTLAssumption, MaxEntriesAssumption DEF Ages, MaxAge
    <3>2. CountMatchesIndex' BY <2>12, FS_EmptySet DEF Crash, CountMatchesIndex
    <3>3. TypeOK' BY <2>12, <2>a, <3>1 DEF Crash, TypeOK, Stores
    <3>4. LockInv' BY <2>12 DEF Crash, LockInv, Idle
    <3>5. QED BY <3>2, <3>3, <3>4 DEF CacheInv
  <2>13. CASE Restart
    <3>1. PICK S \in SUBSET Loadable :
            /\ Cardinality(S) <= MaxEntries
            /\ indexed' = S
            /\ entryCount' = Cardinality(S)
            /\ stamp' = [k \in Keys |-> IF k \in S THEN LoadedStamp(k) ELSE 0]
      BY <2>13 DEF Restart
    <3>2. S \subseteq Keys BY DEF Loadable
    <3>3. Cardinality(S) \in Nat BY <3>2, KeysAssumption, FS_Subset, FS_CardinalityType
    <3>4. stamp' \in [Keys -> Ages]
      BY <2>a, <3>1, TTLAssumption DEF TypeOK, LoadedStamp, Files, Ages, MaxAge
    <3>5. TypeOK'
      BY <2>13, <2>a, <3>1, <3>2, <3>3, <3>4, MaxEntriesAssumption DEF Restart, TypeOK
    <3>6. LockInv' BY <2>13, <2>a, <3>1 DEF Restart, LockInv
    <3>7. QED BY <3>1, <3>5, <3>6 DEF CacheInv, CountMatchesIndex
  <2>14. CASE UNCHANGED vars
    BY <2>14, <2>a DEF vars, CacheInv, TypeOK, LockInv, CountMatchesIndex, indexVars
  <2>15. QED
    BY <2>1, <2>2, <2>3, <2>4, <2>5, <2>6, <2>7, <2>8, <2>9, <2>10, <2>11, <2>12,
       <2>13, <2>14 DEF Next, Store
<1>3. QED BY <1>1, <1>2, PTL DEF Spec

\* The types of the cache, whatever fails: in particular entryCount and the
\* number of entries never pass the limit.
THEOREM TypesOfCache == Spec => []TypeOK
<1>1. CacheInv => TypeOK BY DEF CacheInv
<1>2. QED BY <1>1, CacheInvariant, PTL

\* The number that decides whether a response is still cached is the size of
\* the index.
THEOREM EntryCountCorrect == Spec => []CountMatchesIndex
BY CacheInvariant, PTL DEF CacheInv

-----------------------------------------------------------------------------
(* What a hit returns *)

Active(t) == store[t].pc \in {"writing", "closing", "indexing"}

\* The body of a file with a header is never longer than the header says.
BodyFits == \A k \in Keys : disk[k].header => disk[k].bytes <= disk[k].length

\* The timestamp in a file is at most one store older than the one in the index.
StampsAgree ==
  /\ \A k \in indexed : stamp[k] <= TTL => disk[k].age <= stamp[k] + MaxStoreSeconds
  /\ \A t \in StoreThreads : Active(t) => disk[store[t].key].age <= storeSeconds

FileInv == BodyFits /\ StampsAgree

\* The steps that discard an entry.
LEMMA DiscardKeepsFiles ==
  ASSUME CacheInv, FileInv, NEW k \in indexed, Discard(k), UNCHANGED <<store, storeSeconds>>,
         lock \notin StoreThreads
  PROVE  FileInv'
<1>1. \A t \in StoreThreads : ~Active(t) BY DEF CacheInv, LockInv, Active
<1>2. disk' = [disk EXCEPT ![k] = NoFile] /\ indexed' = indexed \ {k}
      /\ stamp' = [stamp EXCEPT ![k] = 0]
  BY DEF Discard, RemoveFile, DropEntry
<1>3. disk \in [Keys -> Files] /\ indexed \subseteq Keys /\ stamp \in [Keys -> Ages]
  BY DEF CacheInv, TypeOK
<1>4. BodyFits' BY <1>2, <1>3 DEF FileInv, BodyFits, NoFile
<1>5. \A t \in StoreThreads : ~Active(t)' BY <1>1 DEF Active
<1>6. \A j \in indexed' : disk'[j] = disk[j] /\ stamp'[j] = stamp[j] /\ j \in indexed
  BY <1>2, <1>3
<1>7. StampsAgree' BY <1>5, <1>6 DEF FileInv, StampsAgree
<1>8. QED BY <1>4, <1>7 DEF FileInv

\* A step of the store of a key that replaces its file by a younger one.
LEMMA NewFileFits ==
  ASSUME CacheInv, FileInv, NEW t \in StoreThreads, store[t].key \in Keys, NEW f,
         disk' = [disk EXCEPT ![store[t].key] = f], f \in Files,
         f.header => f.bytes <= f.length,
         f.age <= storeSeconds, storeSeconds' = storeSeconds,
         UNCHANGED indexVars, lock \in {t, "nobody"},
         \A u \in StoreThreads : u # t => store'[u] = store[u],
         store'[t].key = store[t].key \/ ~Active(t)'
  PROVE  FileInv'
<1>1. disk \in [Keys -> Files] /\ indexed \subseteq Keys /\ stamp \in [Keys -> Ages]
      /\ storeSeconds \in 0 .. MaxStoreSeconds
  BY DEF CacheInv, TypeOK
<1>2. BodyFits' BY <1>1 DEF FileInv, BodyFits
<1>3. ASSUME NEW k \in indexed, stamp[k] <= TTL
      PROVE  disk'[k].age <= stamp[k] + MaxStoreSeconds
  <2>1. CASE k = store[t].key
    <3>1. disk'[k].age <= storeSeconds BY <1>1, <2>1
    <3>2. stamp[k] \in Nat /\ f.age \in Nat /\ disk'[k] = f
      BY <1>1, <2>1 DEF Ages, Files
    <3>3. QED BY <1>1, <3>1, <3>2, TTLAssumption
  <2>2. CASE k # store[t].key BY <1>1, <1>3, <2>2 DEF FileInv, StampsAgree
  <2>3. QED BY <2>1, <2>2
<1>4. ASSUME NEW u \in StoreThreads, Active(u)'
      PROVE  disk'[store'[u].key].age <= storeSeconds'
  <2>1. CASE u = t BY <1>1, <1>4, <2>1
  <2>2. CASE u # t
    <3>1. Active(u) BY <1>4, <2>2 DEF Active
    <3>2. lock = u BY <3>1 DEF CacheInv, LockInv, Active
    <3>3. QED BY <2>2, <3>2, StoreThreadsAssumption
  <2>3. QED BY <2>1, <2>2
<1>5. QED BY <1>2, <1>3, <1>4 DEF FileInv, StampsAgree, indexVars

\* The file that fclose leaves.
LEMMA FlushedFile ==
  ASSUME NEW d \in Files, NEW n \in Nat, NEW f,
         f = [d EXCEPT !.header = TRUE, !.length = n, !.bytes = n]
  PROVE  f \in Files /\ f.age = d.age /\ f.bytes <= f.length /\ f.stale = d.stale
<1>1. [d EXCEPT !.header = TRUE] \in Files BY DEF Files
<1>2. [d EXCEPT !.header = TRUE, !.length = n] \in Files BY <1>1 DEF Files
<1>3. f \in Files BY <1>2 DEF Files
<1>4. f.age = d.age /\ f.length = n /\ f.bytes = n /\ f.stale = d.stale BY DEF Files
<1>5. QED BY <1>3, <1>4

\* The end of a store: nobody is active, the files may only have gone.
LEMMA FinishKeepsFiles ==
  ASSUME CacheInv, FileInv, NEW t \in StoreThreads, Finish(t), lock \in {t, "nobody"},
         UNCHANGED indexVars,
         \A k \in Keys : disk'[k] = disk[k] \/ disk'[k] = NoFile
  PROVE  FileInv'
<1>1. \A u \in StoreThreads : ~Active(u)'
  <2> SUFFICES ASSUME NEW u \in StoreThreads, u # t, Active(u) PROVE FALSE
    BY FinishType DEF Active
  <2>1. QED BY StoreThreadsAssumption DEF CacheInv, LockInv, Active
<1>2. BodyFits' BY DEF FileInv, BodyFits, NoFile
<1>3. ASSUME NEW k \in indexed, stamp[k] <= TTL
      PROVE  disk'[k].age <= stamp[k] + MaxStoreSeconds
  <2>1. k \in Keys /\ stamp[k] \in Nat BY DEF CacheInv, TypeOK, Ages
  <2>2. CASE disk'[k] = disk[k] BY <1>3, <2>2 DEF FileInv, StampsAgree
  <2>3. CASE disk'[k] = NoFile BY <2>1, <2>3, TTLAssumption DEF NoFile
  <2>4. QED BY <2>1, <2>2, <2>3
<1>4. QED BY <1>1, <1>2, <1>3 DEF FileInv, StampsAgree, indexVars

LEMMA FileStep == CacheInv /\ FileInv /\ [Next]_vars => FileInv'
<1> SUFFICES ASSUME CacheInv, FileInv, [Next]_vars PROVE FileInv' OBVIOUS
<1>a. TypeOK /\ LockInv /\ BodyFits /\ StampsAgree BY DEF CacheInv, FileInv
<1>1. ASSUME NEW k \in Keys, LookUpExpires(k) PROVE FileInv'
  BY <1>1, DiscardKeepsFiles, StoreThreadsAssumption DEF LookUpExpires
<1>2. ASSUME NEW k \in Keys, CacheInvalidate(k) PROVE FileInv'
  <2>1. CASE k \in indexed
    BY <1>2, <2>1, DiscardKeepsFiles, StoreThreadsAssumption
    DEF CacheInvalidate, InvalidateEntry
  <2>2. CASE k \notin indexed
    <3>1. disk' = [disk EXCEPT ![k].stale = @ \/ disk[k].exists]
          /\ UNCHANGED indexVars /\ UNCHANGED <<store, storeSeconds>>
      BY <1>2, <2>2 DEF CacheInvalidate, LeaveFile
    <3>2. \A j \in Keys : /\ disk'[j].header = disk[j].header
                           /\ disk'[j].length = disk[j].length
                           /\ disk'[j].bytes = disk[j].bytes
                           /\ disk'[j].age = disk[j].age
      BY <1>a, <3>1 DEF TypeOK, Files
    <3>3. \A t \in StoreThreads : Active(t) => store[t].key \in Keys
      BY <1>a, StoreUnderWay DEF Active
    <3>4. QED
      BY <1>a, <3>1, <3>2, <3>3
      DEF TypeOK, FileInv, BodyFits, StampsAgree, Active, indexVars
  <2>3. QED BY <2>1, <2>2
<1>3. ASSUME NEW k \in Keys, CleanerVisit(k) PROVE FileInv'
  <2>1. k \in indexed /\ lock \notin StoreThreads
    BY <1>3, <1>a, StoreThreadsAssumption DEF CleanerVisit, LockInv
  <2>2. CASE Discard(k) BY <1>3, <2>1, <2>2, DiscardKeepsFiles DEF CleanerVisit
  <2>3. CASE UNCHANGED <<indexVars, disk>>
    BY <1>3, <1>a, <2>3
    DEF CleanerVisit, FileInv, BodyFits, StampsAgree, Active, indexVars
  <2>4. QED BY <1>3, <2>2, <2>3 DEF CleanerVisit, PurgeEntry
<1>4. ASSUME NEW t \in StoreThreads, StoreOpen(t) PROVE FileInv'
  <2>0. /\ store[t].pc = "queued" /\ lock = "nobody" /\ store[t].key \in Keys
        /\ UNCHANGED indexVars
    BY <1>4, <1>a, StoreUnderWay DEF StoreOpen, At
  <2>1. CASE Goto(t, "writing") /\ UNCHANGED storeSeconds
             /\ disk' = [disk EXCEPT ![store[t].key] = EmptyFile]
    <3>1. EmptyFile \in Files /\ EmptyFile.header = FALSE /\ EmptyFile.age = 0
      BY NoFileType DEF EmptyFile, NoFile
    <3>2. EmptyFile.age <= storeSeconds BY <1>a, <3>1, TTLAssumption DEF TypeOK
    <3>3. /\ \A u \in StoreThreads : u # t => store'[u] = store[u]
          /\ store'[t].key = store[t].key
      BY <1>a, <2>0, <2>1, StoreUnderWay DEF Goto, TypeOK
    <3>4. QED BY <2>0, <2>1, <3>1, <3>2, <3>3, NewFileFits
  <2>2. CASE Finish(t) /\ UNCHANGED disk BY <2>0, <2>2, FinishKeepsFiles
  <2>3. QED BY <1>4, <2>1, <2>2 DEF StoreOpen
<1>5. ASSUME NEW t \in StoreThreads, StoreWrite(t) PROVE FileInv'
  <2>0. /\ store[t].pc = "writing" /\ lock = t /\ store[t].key \in Keys
        /\ UNCHANGED indexVars /\ store[t].length \in Nat
    BY <1>5, <1>a, StoreUnderWay DEF StoreWrite, At, LockInv
  <2>1. CASE Goto(t, "closing") /\ UNCHANGED <<lock, storeSeconds>>
             /\ \E f \in Prefixes(store[t].length) :
                  disk' = [disk EXCEPT ![store[t].key] = f]
    <3>1. PICK f \in Prefixes(store[t].length) :
                 disk' = [disk EXCEPT ![store[t].key] = f]
      BY <2>1
    <3>2. f \in Files /\ f.age = 0 /\ (f.header => f.bytes <= f.length)
      BY <2>0, PrefixType
    <3>3. f.age <= storeSeconds BY <1>a, <3>2, TTLAssumption DEF TypeOK
    <3>4. /\ \A u \in StoreThreads : u # t => store'[u] = store[u]
          /\ store'[t].key = store[t].key
      BY <1>a, <2>0, <2>1, StoreUnderWay DEF Goto, TypeOK
    <3>5. QED BY <2>0, <2>1, <3>1, <3>2, <3>3, <3>4, NewFileFits
  <2>2. CASE Finish(t) /\ RemoveFile(store[t].key)
    <3>1. \A k \in Keys : disk'[k] = disk[k] \/ disk'[k] = NoFile
      BY <1>a, <2>2 DEF RemoveFile, TypeOK
    <3>2. QED BY <2>0, <2>2, <3>1, FinishKeepsFiles
  <2>3. QED BY <1>5, <2>1, <2>2 DEF StoreWrite
<1>6. ASSUME NEW t \in StoreThreads, StoreClose(t) PROVE FileInv'
  <2>0. /\ store[t].pc = "closing" /\ lock = t /\ store[t].key \in Keys
        /\ UNCHANGED indexVars /\ store[t].length \in Nat
        /\ UNCHANGED storeSeconds /\ Goto(t, "indexing")
    BY <1>6, <1>a, StoreUnderWay DEF StoreClose, At, LockInv
  <2>1. /\ \A u \in StoreThreads : u # t => store'[u] = store[u]
        /\ store'[t].key = store[t].key
    BY <1>a, <2>0, StoreUnderWay DEF Goto, TypeOK
  <2>2. disk[store[t].key].age <= storeSeconds
    BY <1>a, <2>0 DEF StampsAgree, Active
  <2>3. disk[store[t].key] \in Files /\ disk \in [Keys -> Files]
    BY <1>a, <2>0 DEF TypeOK
  <2>4. CASE UNCHANGED disk
    <3>1. disk' = [disk EXCEPT ![store[t].key] = disk[store[t].key]]
      BY <2>3, <2>4
    <3>2. disk[store[t].key].header
            => disk[store[t].key].bytes <= disk[store[t].key].length
      BY <1>a, <2>0 DEF BodyFits
    <3>3. QED BY <2>0, <2>1, <2>2, <2>3, <3>1, <3>2, NewFileFits
  <2>5. CASE disk' = [disk EXCEPT ![store[t].key] =
                        [@ EXCEPT !.header = TRUE, !.length = store[t].length,
                                  !.bytes = store[t].length]]
    <3> DEFINE f == [disk[store[t].key] EXCEPT !.header = TRUE,
                        !.length = store[t].length, !.bytes = store[t].length]
    <3>1. f \in Files /\ f.age = disk[store[t].key].age /\ f.bytes <= f.length
      BY <2>0, <2>3, FlushedFile
    <3>2. disk' = [disk EXCEPT ![store[t].key] = f] BY <2>5
    <3> HIDE DEF f
    <3>3. QED BY <2>0, <2>1, <2>2, <3>1, <3>2, NewFileFits
  <2>6. QED BY <1>6, <2>4, <2>5 DEF StoreClose
<1>7. ASSUME NEW t \in StoreThreads, StoreIndex(t) PROVE FileInv'
  <2>0. /\ store[t].pc = "indexing" /\ lock = t /\ store[t].key \in Keys
        /\ Finish(t) /\ UNCHANGED disk
    BY <1>7, <1>a, StoreUnderWay DEF StoreIndex, At, LockInv
  <2>1. CASE UNCHANGED indexVars BY <2>0, <2>1, FinishKeepsFiles
  <2>2. CASE /\ indexed' = indexed \cup {store[t].key}
             /\ stamp' = [stamp EXCEPT ![store[t].key] = 0]
    <3>1. \A u \in StoreThreads : ~Active(u)'
      <4> SUFFICES ASSUME NEW u \in StoreThreads, u # t, Active(u) PROVE FALSE
        BY <2>0, FinishType DEF Active
      <4>1. QED BY <1>a, <2>0 DEF LockInv, Active
    <3>2. BodyFits' BY <1>a, <2>0 DEF BodyFits
    <3>3. ASSUME NEW k \in indexed', stamp'[k] <= TTL
          PROVE  disk'[k].age <= stamp'[k] + MaxStoreSeconds
      <4>1. CASE k = store[t].key
        <5>1. disk[k].age <= storeSeconds
          BY <1>a, <2>0, <4>1 DEF StampsAgree, Active
        <5>2. disk[k].age \in Nat /\ storeSeconds \in 0 .. MaxStoreSeconds
          BY <1>a, <2>0, <4>1 DEF TypeOK, Files, Ages
        <5>3. stamp'[k] = 0 BY <1>a, <2>0, <2>2, <4>1 DEF TypeOK
        <5>4. QED BY <2>0, <5>1, <5>2, <5>3, TTLAssumption
      <4>2. CASE k # store[t].key
        BY <1>a, <2>0, <2>2, <3>3, <4>2 DEF StampsAgree, TypeOK
      <4>3. QED BY <4>1, <4>2
    <3>4. QED BY <3>1, <3>2, <3>3 DEF FileInv, StampsAgree
  <2>3. QED BY <1>7, <2>1, <2>2 DEF StoreIndex
<1>8. ASSUME NEW t \in StoreThreads, NEW k \in Keys, NEW n \in BodyLengths,
             CacheStoreAsync(t, k, n)
      PROVE  FileInv'
  <2>1. \A u \in StoreThreads : Active(u)' => Active(u) /\ store'[u] = store[u]
    BY <1>8, <1>a DEF CacheStoreAsync, Active, TypeOK
  <2>2. QED
    BY <1>8, <1>a, <2>1
    DEF CacheStoreAsync, FileInv, BodyFits, StampsAgree, indexVars
<1>9. CASE CleanerStart \/ CleanerDone
  BY <1>9, <1>a
  DEF CleanerStart, CleanerDone, FileInv, BodyFits, StampsAgree, Active, indexVars
<1>10. CASE Tick
  <2>1. ASSUME NEW k \in Keys
        PROVE  /\ disk'[k].header = disk[k].header
               /\ disk'[k].length = disk[k].length
               /\ disk'[k].bytes = disk[k].bytes
               /\ disk[k].age \in Nat
               /\ disk'[k].age \in {disk[k].age, disk[k].age + 1}
    <3>1. disk[k] \in Files BY <1>a DEF TypeOK
    <3>2. disk'[k] = IF disk[k].exists THEN [disk[k] EXCEPT !.age = Older(disk[k].age)]
                     ELSE disk[k]
      BY <1>10 DEF Tick
    <3>3. Older(disk[k].age) \in {disk[k].age, disk[k].age + 1} BY DEF Older
    <3>4. QED BY <3>1, <3>2, <3>3 DEF Files, Ages
  <2>2. BodyFits' BY <1>a, <2>1 DEF BodyFits
  <2>3. ASSUME NEW k \in indexed', stamp'[k] <= TTL
        PROVE  disk'[k].age <= stamp'[k] + MaxStoreSeconds
    <3>1. k \in indexed /\ k \in Keys BY <1>10, <1>a, <2>3 DEF Tick, TypeOK
    <3>2. stamp'[k] = Older(stamp[k]) /\ stamp[k] \in 0 .. MaxAge
      BY <1>10, <1>a, <3>1 DEF Tick, TypeOK, Ages
    <3>3. stamp'[k] = stamp[k] + 1
      BY <2>3, <3>2, TTLAssumption DEF Older, MaxAge
    <3>4. disk[k].age <= stamp[k] + MaxStoreSeconds
      BY <1>a, <2>3, <3>1, <3>2, <3>3, TTLAssumption DEF StampsAgree
    <3>5. QED BY <2>1, <3>1, <3>2, <3>3, <3>4, TTLAssumption
  <2>4. ASSUME NEW t \in StoreThreads, Active(t)'
        PROVE  disk'[store'[t].key].age <= storeSeconds'
    <3>1. Active(t) /\ store' = store BY <1>10, <2>4 DEF Tick, Active
    <3>2. lock = t /\ store[t].key \in Keys
      BY <1>a, <3>1, StoreUnderWay DEF LockInv, Active
    <3>3. storeSeconds' = storeSeconds + 1 /\ storeSeconds \in Nat
      BY <1>10, <1>a, <3>2, TTLAssumption DEF Tick, TypeOK
    <3>4. disk[store[t].key].age <= storeSeconds
      BY <1>a, <3>1 DEF StampsAgree
    <3>5. QED BY <2>1, <3>1, <3>2, <3>3, <3>4
  <2>5. QED BY <2>2, <2>3, <2>4 DEF FileInv, StampsAgree
<1>11. CASE Crash
  <2>1. \A t \in StoreThreads : ~Active(t)' BY <1>11 DEF Crash, Idle, Active
  <2>2. QED BY <1>11, <1>a, <2>1 DEF Crash, FileInv, BodyFits, StampsAgree
<1>12. CASE Restart
  <2>1. \A t \in StoreThreads : ~Active(t)'
    BY <1>12, <1>a DEF Restart, Active, LockInv
  <2>2. ASSUME NEW k \in indexed' PROVE disk'[k].age <= stamp'[k] + MaxStoreSeconds
    <3>1. k \in Keys /\ stamp'[k] = disk[k].age /\ disk' = disk
      BY <1>12, <2>2 DEF Restart, LoadedStamp, Loadable
    <3>2. disk[k].age \in Nat BY <1>a, <3>1 DEF TypeOK, Files, Ages
    <3>3. QED BY <3>1, <3>2, TTLAssumption
  <2>3. BodyFits' BY <1>12, <1>a DEF Restart, BodyFits
  <2>4. QED BY <2>1, <2>2, <2>3 DEF FileInv, StampsAgree
<1>13. CASE UNCHANGED vars
  BY <1>13, <1>a DEF vars, FileInv, BodyFits, StampsAgree, Active, indexVars
<1>14. QED
  BY <1>1, <1>2, <1>3, <1>4, <1>5, <1>6, <1>7, <1>8, <1>9, <1>10, <1>11, <1>12,
     <1>13 DEF Next, Store

LEMMA FileInvariant == Spec => []FileInv
<1>1. Init => FileInv
  BY DEF Init, FileInv, BodyFits, StampsAgree, Active, Idle, NoFile
<1>2. QED BY <1>1, FileStep, CacheInvariant, PTL DEF Spec

\* A hit serves the whole body of one response, whatever failed or crashed.
THEOREM HitsAreWhole == Spec => []HitIsWhole
<1>1. CacheInv /\ FileInv => HitIsWhole
  <2> SUFFICES ASSUME CacheInv, FileInv, NEW k \in Keys, Served(k)
               PROVE  disk[k].bytes = disk[k].length
    BY DEF HitIsWhole
  <2>1. disk[k] \in Files BY DEF CacheInv, TypeOK
  <2>2. QED BY <2>1 DEF Served, Hit, Readable, FileInv, BodyFits, Files
<1>2. QED BY <1>1, CacheInvariant, FileInvariant, PTL

\* A hit is at most one store older than the TTL, across overwrites and restarts.
THEOREM HitsAreFresh == Spec => []HitIsFresh
<1>1. CacheInv /\ FileInv => HitIsFresh
  <2> SUFFICES ASSUME CacheInv, FileInv, NEW k \in Keys, Served(k)
               PROVE  disk[k].age <= TTL + MaxStoreSeconds
    BY DEF HitIsFresh
  <2>1. stamp[k] \in Nat /\ disk[k].age \in Nat
    BY DEF CacheInv, TypeOK, Ages, Files
  <2>2. k \in indexed /\ stamp[k] <= TTL
    BY <2>1, TTLAssumption DEF Served, Hit, Expired
  <2>3. disk[k].age <= stamp[k] + MaxStoreSeconds BY <2>2 DEF FileInv, StampsAgree
  <2>4. QED BY <2>1, <2>2, <2>3, TTLAssumption
<1>2. QED BY <1>1, CacheInvariant, FileInvariant, PTL

-----------------------------------------------------------------------------
(* What there is of a file *)

\* A header is that of a file, and the file that a store is writing is a new one.
WrittenInv ==
  /\ \A k \in Keys : disk[k].header => disk[k].exists
  /\ \A t \in StoreThreads : Active(t) => /\ ~disk[store[t].key].stale
                                          /\ disk[store[t].key].exists

LEMMA WrittenStep == CacheInv /\ WrittenInv /\ [Next]_vars => WrittenInv'
<1> SUFFICES ASSUME CacheInv, WrittenInv, [Next]_vars PROVE WrittenInv' OBVIOUS
<1>a. TypeOK /\ LockInv /\ disk \in [Keys -> Files] /\ store \in [StoreThreads -> Stores]
  BY DEF CacheInv, TypeOK
<1>b. ~NoFile.header /\ ~EmptyFile.header /\ EmptyFile.exists /\ EmptyFile.stale = FALSE
  BY DEF EmptyFile, NoFile
<1>c. \A t \in StoreThreads : Active(t) => lock = t /\ store[t].key \in Keys
  BY <1>a, StoreUnderWay DEF LockInv, Active
\* Nothing is written, and files go or are marked.
<1>1. ASSUME \A t \in StoreThreads : ~Active(t)',
             \A k \in Keys : disk'[k].header => disk'[k].exists
      PROVE  WrittenInv'
  BY <1>1 DEF WrittenInv
<1>2. ASSUME UNCHANGED disk,
             \A t \in StoreThreads : Active(t)' => Active(t) /\ store'[t].key = store[t].key
      PROVE  WrittenInv'
  BY <1>2 DEF WrittenInv
\* The store of t replaces its file and goes on.
<1>3. ASSUME NEW t \in StoreThreads, NEW f \in Files, store[t].key \in Keys,
             disk' = [disk EXCEPT ![store[t].key] = f], f.exists, f.stale = FALSE,
             lock \in {t, "nobody"}, store[t].pc # "idle",
             NEW l \in {"writing", "closing", "indexing"}, Goto(t, l)
      PROVE  WrittenInv'
  <2>1. store'[t].key = store[t].key BY <1>3, <1>a DEF Goto, Stores, Idle
  <2>2. \A u \in StoreThreads \ {t} : ~Active(u)'
    BY <1>3, <1>a, <1>c, StoreThreadsAssumption DEF Goto, Active
  <2>3. disk'[store[t].key] = f /\ \A k \in Keys \ {store[t].key} : disk'[k] = disk[k]
    BY <1>3, <1>a
  <2>4. QED BY <1>3, <2>1, <2>2, <2>3 DEF WrittenInv
<1>4. ASSUME NEW k \in Keys, LookUpExpires(k) \/ CacheInvalidate(k) \/ CleanerVisit(k)
      PROVE  WrittenInv'
  <2>1. lock \notin StoreThreads /\ store' = store
    BY <1>4, StoreThreadsAssumption DEF LookUpExpires, CacheInvalidate, CleanerVisit
  <2>2. RemoveFile(k) \/ LeaveFile(k) \/ UNCHANGED disk
    BY <1>4
    DEF LookUpExpires, CacheInvalidate, CleanerVisit, InvalidateEntry, PurgeEntry, Discard
  <2>3. \A j \in Keys : disk'[j].header => disk'[j].exists
    <3>1. CASE RemoveFile(k) BY <1>a, <1>b, <3>1 DEF RemoveFile, WrittenInv
    <3>2. CASE LeaveFile(k)
      <4>1. \A j \in Keys : disk'[j].header = disk[j].header /\ disk'[j].exists = disk[j].exists
        BY <1>a, <3>2 DEF LeaveFile, Files
      <4>2. QED BY <4>1 DEF WrittenInv
    <3>3. CASE UNCHANGED disk BY <3>3 DEF WrittenInv
    <3>4. QED BY <2>2, <3>1, <3>2, <3>3
  <2>4. \A t \in StoreThreads : ~Active(t)' BY <1>c, <2>1 DEF Active
  <2>5. QED BY <1>1, <2>3, <2>4
<1>5. ASSUME NEW t \in StoreThreads, StoreOpen(t) PROVE WrittenInv'
  <2>0. store[t].pc = "queued" /\ lock = "nobody" /\ store[t].key \in Keys
    BY <1>5, <1>a, StoreUnderWay DEF StoreOpen, At
  <2>1. CASE Goto(t, "writing") /\ disk' = [disk EXCEPT ![store[t].key] = EmptyFile]
    BY <1>3, <1>b, <2>0, <2>1, NoFileType
  <2>2. CASE Finish(t) /\ UNCHANGED disk
    BY <1>2, <2>2, FinishType DEF Active
  <2>3. QED BY <1>5, <2>1, <2>2 DEF StoreOpen
<1>6. ASSUME NEW t \in StoreThreads, StoreWrite(t) PROVE WrittenInv'
  <2>0. /\ store[t].pc = "writing" /\ lock = t /\ store[t].key \in Keys
        /\ store[t].length \in Nat
    BY <1>6, <1>a, StoreUnderWay DEF StoreWrite, At, LockInv
  <2>1. CASE Goto(t, "closing") /\ \E f \in Prefixes(store[t].length) :
                                      disk' = [disk EXCEPT ![store[t].key] = f]
    <3>1. PICK f \in Prefixes(store[t].length) : disk' = [disk EXCEPT ![store[t].key] = f]
      BY <2>1
    <3>2. f \in Files /\ f.stale = FALSE BY <2>0, PrefixType
    <3>3. f.exists BY <3>2 DEF Prefixes, EmptyFile, NoFile
    <3>4. QED BY <1>3, <2>0, <2>1, <3>1, <3>2, <3>3
  <2>2. CASE Finish(t) /\ RemoveFile(store[t].key)
    <3>1. \A u \in StoreThreads : ~Active(u)'
      BY <1>c, <2>0, <2>2, FinishType, StoreThreadsAssumption DEF Active
    <3>2. QED BY <1>1, <1>a, <1>b, <2>2, <3>1 DEF RemoveFile, WrittenInv
  <2>3. QED BY <1>6, <2>1, <2>2 DEF StoreWrite
<1>7. ASSUME NEW t \in StoreThreads, StoreClose(t) PROVE WrittenInv'
  <2>0. /\ store[t].pc = "closing" /\ lock = t /\ store[t].key \in Keys
        /\ store[t].length \in Nat /\ Goto(t, "indexing") /\ Active(t)
    BY <1>7, <1>a, StoreUnderWay DEF StoreClose, At, LockInv, Active
  <2>1. CASE UNCHANGED disk
    BY <1>2, <1>a, <2>0, <2>1 DEF Goto, Active, Stores
  <2>2. CASE disk' = [disk EXCEPT ![store[t].key] =
                        [@ EXCEPT !.header = TRUE, !.length = store[t].length,
                                  !.bytes = store[t].length]]
    <3>1. PICK f : f = [disk[store[t].key] EXCEPT !.header = TRUE,
                          !.length = store[t].length, !.bytes = store[t].length]
      OBVIOUS
    <3>2. f \in Files /\ f.stale = disk[store[t].key].stale BY <1>a, <2>0, <3>1, FlushedFile
    <3>3. f.exists = disk[store[t].key].exists BY <1>a, <2>0, <3>1 DEF Files
    <3>4. f.stale \in BOOLEAN BY <3>2 DEF Files
    <3>5. f.exists /\ f.stale = FALSE BY <2>0, <3>2, <3>3, <3>4 DEF WrittenInv
    <3>6. QED BY <1>3, <2>0, <2>2, <3>1, <3>2, <3>5
  <2>3. QED BY <1>7, <2>1, <2>2 DEF StoreClose
<1>8. ASSUME NEW t \in StoreThreads, StoreIndex(t) PROVE WrittenInv'
  <2>1. Finish(t) /\ UNCHANGED disk BY <1>8 DEF StoreIndex
  <2>2. QED BY <1>2, <2>1, FinishType DEF Active
<1>9. ASSUME NEW t \in StoreThreads, NEW k \in Keys, NEW n \in BodyLengths,
             CacheStoreAsync(t, k, n)
      PROVE  WrittenInv'
  BY <1>2, <1>9, <1>a DEF CacheStoreAsync, Active
<1>10. CASE CleanerStart \/ CleanerDone \/ Restart \/ UNCHANGED vars
  BY <1>2, <1>10 DEF CleanerStart, CleanerDone, Restart, vars, Active
<1>11. CASE Tick
  <2>1. ASSUME NEW k \in Keys
        PROVE  /\ disk'[k].header = disk[k].header /\ disk'[k].exists = disk[k].exists
               /\ disk'[k].stale = disk[k].stale
    <3>1. disk[k] \in Files BY <1>a
    <3>2. disk'[k] = IF disk[k].exists THEN [disk[k] EXCEPT !.age = Older(disk[k].age)]
                     ELSE disk[k]
      BY <1>11 DEF Tick
    <3>3. QED BY <3>1, <3>2 DEF Files
  <2>2. store' = store BY <1>11 DEF Tick
  <2>3. QED BY <1>c, <2>1, <2>2 DEF WrittenInv, Active
<1>12. CASE Crash
  BY <1>1, <1>12 DEF Crash, Idle, Active, WrittenInv
<1>13. QED
  BY <1>4, <1>5, <1>6, <1>7, <1>8, <1>9, <1>10, <1>11, <1>12 DEF Next, Store

LEMMA WrittenInvariant == Spec => []WrittenInv
<1>1. Init => WrittenInv BY DEF Init, WrittenInv, Active, Idle, NoFile
<1>2. QED BY <1>1, WrittenStep, CacheInvariant, PTL DEF Spec

-----------------------------------------------------------------------------
(* Invalidation, while the index has room for every key *)

Room == Cardinality(Keys) <= MaxEntries /\ "alloc" \notin Failures

BeingStored(k) == \E t \in StoreThreads : Active(t) /\ store[t].key = k

\* With room, a file that a restart would load is in the index or about to be,
\* so an invalidation that finds no entry leaves nothing behind that can be hit.
StaleInv ==
  /\ \A k \in Keys : disk[k].stale => ~disk[k].header
  /\ \A k \in Keys : running /\ disk[k].header => k \in indexed \/ BeingStored(k)

\* A store leaves its key in the index when the index has room.
LEMMA AddSucceeds ==
  ASSUME Room, CacheInv, NEW t \in StoreThreads, StoreIndex(t)
  PROVE  store[t].key \in Keys /\ store[t].key \in indexed'
         /\ indexed \subseteq indexed'
<1>1. store[t].key \in Keys
  BY StoreUnderWay DEF StoreIndex, At, CacheInv
<1>2. CASE store[t].key \in indexed
  BY <1>1, <1>2 DEF StoreIndex, MayAdd, indexVars
<1>3. CASE store[t].key \notin indexed
  <2>1. indexed \subseteq Keys BY DEF CacheInv, TypeOK
  <2>2. Cardinality(indexed) <= Cardinality(Keys) /\ indexed # Keys
        /\ Cardinality(Keys) \in Nat /\ Cardinality(indexed) \in Nat
        /\ Cardinality(indexed) # Cardinality(Keys)
    BY <1>1, <1>3, <2>1, KeysAssumption, FS_Subset, FS_CardinalityType
  <2>3. entryCount < MaxEntries
    BY <2>2, MaxEntriesAssumption DEF Room, CacheInv, CountMatchesIndex
  <2>4. QED BY <1>1, <1>3, <2>3 DEF StoreIndex, MayAdd, HasRoom, Room
<1>4. QED BY <1>2, <1>3

\* A restart takes every loadable file when the index has room.
LEMMA RestartLoadsAll ==
  ASSUME Room, Restart
  PROVE  indexed' = Loadable
<1>1. PICK S \in SUBSET Loadable :
        /\ S = Loadable \/ Cardinality(S) = MaxEntries
        /\ indexed' = S
  BY DEF Restart, Room
<1>2. Loadable \subseteq Keys BY DEF Loadable
<1>3. IsFiniteSet(Loadable) /\ Cardinality(Loadable) <= Cardinality(Keys)
  BY <1>2, KeysAssumption, FS_Subset
<1>4. /\ Cardinality(S) <= Cardinality(Loadable)
      /\ Cardinality(Loadable) = Cardinality(S) => Loadable = S
  BY <1>1, <1>3, FS_Subset
<1>5. Cardinality(S) \in Nat /\ Cardinality(Loadable) \in Nat /\ Cardinality(Keys) \in Nat
  BY <1>1, <1>3, KeysAssumption, FS_Subset, FS_CardinalityType
<1>6. QED BY <1>1, <1>3, <1>4, <1>5, MaxEntriesAssumption DEF Room

LEMMA StaleStep ==
  ASSUME Room PROVE CacheInv /\ WrittenInv /\ StaleInv /\ [Next]_vars => StaleInv'
<1> SUFFICES ASSUME CacheInv, WrittenInv, StaleInv, [Next]_vars PROVE StaleInv' OBVIOUS
<1>a. /\ TypeOK /\ LockInv
      /\ disk \in [Keys -> Files] /\ indexed \subseteq Keys
  BY DEF CacheInv, TypeOK
<1>b. /\ NoFile.header = FALSE /\ NoFile.stale = FALSE
      /\ EmptyFile.header = FALSE /\ EmptyFile.stale = FALSE
  BY DEF EmptyFile, NoFile
<1>c. \A t \in StoreThreads : Active(t) => lock = t /\ store[t].key \in Keys
  BY <1>a, StoreUnderWay DEF LockInv, Active
<1>d. \A k \in Keys : /\ disk[k].header \in BOOLEAN /\ disk[k].stale \in BOOLEAN
                       /\ disk[k].exists \in BOOLEAN
  BY <1>a DEF Files
\* The steps that discard an entry.
<1>1. ASSUME NEW k \in Keys, Discard(k), UNCHANGED <<store, running>>,
             lock \notin StoreThreads
      PROVE  StaleInv'
  <2>1. \A t \in StoreThreads : ~Active(t) /\ ~Active(t)'
    BY <1>1, <1>c DEF Active
  <2>2. disk'[k] = NoFile /\ \A j \in Keys \ {k} : disk'[j] = disk[j]
    BY <1>1, <1>a DEF Discard, RemoveFile
  <2>3. indexed' = indexed \ {k} BY <1>1 DEF Discard, DropEntry
  <2>4. QED BY <1>1, <1>b, <2>1, <2>2, <2>3 DEF StaleInv, BeingStored
\* The steps that leave disk, index, process and the active stores alone.
<1>2. ASSUME UNCHANGED <<disk, indexed, running>>,
             \A t \in StoreThreads : /\ Active(t)' <=> Active(t)
                                     /\ Active(t) => store'[t].key = store[t].key
      PROVE  StaleInv'
  <2>1. \A k \in Keys : BeingStored(k)' <=> BeingStored(k) BY <1>2 DEF BeingStored
  <2>2. QED BY <1>2, <2>1 DEF StaleInv
<1>3. ASSUME NEW k \in Keys, LookUpExpires(k) PROVE StaleInv'
  BY <1>1, <1>3, StoreThreadsAssumption DEF LookUpExpires
<1>4. ASSUME NEW k \in Keys, CacheInvalidate(k) PROVE StaleInv'
  <2>1. CASE k \in indexed
    BY <1>1, <1>4, <2>1, StoreThreadsAssumption DEF CacheInvalidate, InvalidateEntry
  <2>2. CASE k \notin indexed
    <3>1. /\ running /\ lock \notin StoreThreads
          /\ UNCHANGED <<indexed, store, running>>
          /\ disk' = [disk EXCEPT ![k].stale = @ \/ disk[k].exists]
      BY <1>4, <2>2, StoreThreadsAssumption DEF CacheInvalidate, LeaveFile, indexVars
    <3>2. \A t \in StoreThreads : ~Active(t) /\ ~Active(t)'
      BY <1>c, <3>1 DEF Active
    <3>3. ~disk[k].header BY <2>2, <3>1, <3>2 DEF StaleInv, BeingStored
    <3>4. \A j \in Keys : /\ disk'[j].header = disk[j].header
                           /\ j # k => disk'[j] = disk[j]
      BY <1>a, <3>1 DEF Files
    <3>5. QED BY <3>1, <3>2, <3>3, <3>4 DEF StaleInv, BeingStored
  <2>3. QED BY <2>1, <2>2
<1>5. ASSUME NEW k \in Keys, CleanerVisit(k) PROVE StaleInv'
  <2>1. lock \notin StoreThreads /\ UNCHANGED <<store, running>>
    BY <1>5, StoreThreadsAssumption DEF CleanerVisit
  <2>2. CASE Discard(k) BY <1>1, <2>1, <2>2
  <2>3. CASE UNCHANGED <<indexVars, disk>>
    BY <1>2, <2>1, <2>3 DEF Active, indexVars
  <2>4. QED BY <1>5, <2>2, <2>3 DEF CleanerVisit, PurgeEntry
\* The steps of the store of t that replace its file and go on.
<1>6. ASSUME NEW t \in StoreThreads, NEW f \in Files, store[t].key \in Keys,
             disk' = [disk EXCEPT ![store[t].key] = f],
             f.stale = FALSE,
             UNCHANGED <<indexed, running>>, lock \in {t, "nobody"},
             NEW l \in {"writing", "closing", "indexing"}, Goto(t, l), store[t] \in Stores,
             store[t].pc # "idle"
      PROVE  StaleInv'
  <2>1. Active(t)' /\ store'[t].key = store[t].key
    BY <1>6, <1>a DEF Goto, Active, TypeOK, Stores, Idle
  <2>2. \A u \in StoreThreads \ {t} : ~Active(u) /\ ~Active(u)'
    BY <1>6, <1>c, StoreThreadsAssumption DEF Goto, Active
  <2>3. \A k \in Keys : BeingStored(k)' <=> k = store[t].key
    BY <2>1, <2>2 DEF BeingStored
  <2>4. \A k \in Keys : BeingStored(k) => k = store[t].key
    BY <2>2 DEF BeingStored
  <2>5. disk'[store[t].key] = f
        /\ \A k \in Keys \ {store[t].key} : disk'[k] = disk[k]
    BY <1>6, <1>a
  <2>6. QED BY <1>6, <2>1, <2>2, <2>3, <2>4, <2>5 DEF StaleInv
\* The end of a store whose key is in the index, or whose file has no header.
<1>7. ASSUME NEW t \in StoreThreads, Finish(t), lock \in {t, "nobody"},
             UNCHANGED running, indexed \subseteq indexed',
             \A k \in Keys : disk'[k] \in {disk[k], NoFile},
             Active(t) => store[t].key \in indexed' \/ disk'[store[t].key] = NoFile
      PROVE  StaleInv'
  <2>1. \A u \in StoreThreads \ {t} : ~Active(u) BY <1>7, <1>c, StoreThreadsAssumption
  <2>2. \A u \in StoreThreads : ~Active(u)'
    BY <1>7, <2>1, FinishType DEF Active
  <2>3. \A k \in Keys : BeingStored(k) => Active(t) /\ k = store[t].key
    BY <2>1 DEF BeingStored
  <2>4. QED BY <1>7, <1>b, <2>2, <2>3 DEF StaleInv
<1>8. ASSUME NEW t \in StoreThreads, StoreOpen(t) PROVE StaleInv'
  <2>0. /\ store[t].pc = "queued" /\ lock = "nobody" /\ store[t].key \in Keys
        /\ UNCHANGED <<running, indexed>> /\ store[t] \in Stores
    BY <1>8, <1>a, StoreUnderWay DEF StoreOpen, At, indexVars, TypeOK
  <2>1. CASE Goto(t, "writing") /\ disk' = [disk EXCEPT ![store[t].key] = EmptyFile]
    BY <1>6, <1>b, <2>0, <2>1, NoFileType
  <2>2. CASE Finish(t) /\ UNCHANGED disk
    BY <1>7, <2>0, <2>2 DEF Active
  <2>3. QED BY <1>8, <2>1, <2>2 DEF StoreOpen
<1>9. ASSUME NEW t \in StoreThreads, StoreWrite(t) PROVE StaleInv'
  <2>0. /\ store[t].pc = "writing" /\ lock = t /\ store[t].key \in Keys
        /\ UNCHANGED <<running, indexed>> /\ store[t] \in Stores
        /\ store[t].length \in Nat
    BY <1>9, <1>a, StoreUnderWay DEF StoreWrite, At, indexVars, TypeOK, LockInv
  <2>1. CASE Goto(t, "closing") /\ \E f \in Prefixes(store[t].length) :
                                      disk' = [disk EXCEPT ![store[t].key] = f]
    <3>1. PICK f \in Prefixes(store[t].length) :
                 disk' = [disk EXCEPT ![store[t].key] = f]
      BY <2>1
    <3>2. f \in Files /\ f.stale = FALSE BY <2>0, PrefixType
    <3>3. QED BY <1>6, <2>0, <2>1, <3>1, <3>2
  <2>2. CASE Finish(t) /\ RemoveFile(store[t].key)
    <3>1. disk'[store[t].key] = NoFile
          /\ \A k \in Keys : disk'[k] \in {disk[k], NoFile}
      BY <1>a, <2>0, <2>2 DEF RemoveFile
    <3>2. QED BY <1>7, <2>0, <2>2, <3>1
  <2>3. QED BY <1>9, <2>1, <2>2 DEF StoreWrite
<1>10. ASSUME NEW t \in StoreThreads, StoreClose(t) PROVE StaleInv'
  <2>0. /\ store[t].pc = "closing" /\ lock = t /\ store[t].key \in Keys
        /\ UNCHANGED <<running, indexed>> /\ store[t] \in Stores
        /\ store[t].length \in Nat /\ Goto(t, "indexing") /\ Active(t)
    BY <1>10, <1>a, StoreUnderWay DEF StoreClose, At, indexVars, TypeOK, LockInv, Active
  <2>1. CASE UNCHANGED disk
    BY <1>2, <1>a, <2>0, <2>1 DEF Goto, Active, TypeOK, Stores
  <2>2. CASE disk' = [disk EXCEPT ![store[t].key] =
                        [@ EXCEPT !.header = TRUE, !.length = store[t].length,
                                  !.bytes = store[t].length]]
    <3>1. PICK f : f = [disk[store[t].key] EXCEPT !.header = TRUE,
                          !.length = store[t].length, !.bytes = store[t].length]
      OBVIOUS
    <3>2. f \in Files /\ f.stale = disk[store[t].key].stale
      BY <1>a, <2>0, <3>1, FlushedFile
    <3>3. f.stale = FALSE BY <1>d, <2>0, <3>2 DEF WrittenInv
    <3>4. QED BY <1>6, <2>0, <2>2, <3>1, <3>2, <3>3
  <2>3. QED BY <1>10, <2>1, <2>2 DEF StoreClose
<1>11. ASSUME NEW t \in StoreThreads, StoreIndex(t) PROVE StaleInv'
  <2>1. /\ Finish(t) /\ UNCHANGED <<running, disk>> /\ lock = t
    BY <1>11, <1>a DEF StoreIndex, At, LockInv
  <2>2. QED BY <1>7, <1>11, <2>1, AddSucceeds
<1>12. ASSUME NEW t \in StoreThreads, NEW k \in Keys, NEW n \in BodyLengths,
              CacheStoreAsync(t, k, n)
       PROVE  StaleInv'
  <2>1. \A u \in StoreThreads : /\ Active(u)' <=> Active(u)
                                /\ Active(u) => store'[u].key = store[u].key
    BY <1>12, <1>a DEF CacheStoreAsync, Active, TypeOK, Idle
  <2>2. QED BY <1>2, <1>12, <2>1 DEF CacheStoreAsync, indexVars
<1>13. CASE CleanerStart \/ CleanerDone
  BY <1>2, <1>13 DEF CleanerStart, CleanerDone, Active, indexVars
<1>14. CASE Tick
  <2>1. ASSUME NEW k \in Keys
        PROVE  /\ disk'[k].header = disk[k].header
               /\ disk'[k].stale = disk[k].stale
    <3>1. disk[k] \in Files BY <1>a
    <3>2. disk'[k] = IF disk[k].exists THEN [disk[k] EXCEPT !.age = Older(disk[k].age)]
                     ELSE disk[k]
      BY <1>14 DEF Tick
    <3>3. QED BY <3>1, <3>2 DEF Files
  <2>2. UNCHANGED <<store, running, indexed>> BY <1>14 DEF Tick
  <2>3. QED BY <1>c, <2>1, <2>2 DEF StaleInv, BeingStored, Active
<1>15. CASE Crash
  <2>1. /\ ~running' /\ UNCHANGED disk
        /\ \A t \in StoreThreads : ~Active(t)'
    BY <1>15 DEF Crash, Idle, Active
  <2>2. QED BY <2>1 DEF StaleInv
<1>16. CASE Restart
  <2>1. indexed' = Loadable /\ UNCHANGED <<disk, store>>
    BY <1>16, RestartLoadsAll DEF Restart
  <2>2. \A t \in StoreThreads : ~Active(t)' BY <1>16, <1>a, <2>1 DEF Restart, Active, LockInv
  <2>3. QED BY <2>1, <2>2 DEF StaleInv, WrittenInv, Loadable
<1>17. CASE UNCHANGED vars BY <1>2, <1>17 DEF vars, Active, indexVars
<1>18. QED
  BY <1>3, <1>4, <1>5, <1>8, <1>9, <1>10, <1>11, <1>12, <1>13, <1>14, <1>15, <1>16,
     <1>17 DEF Next, Store

LEMMA StaleInvariant == ASSUME Room PROVE Spec => []StaleInv
<1>1. Init => StaleInv
  BY DEF Init, StaleInv, Active, Idle, NoFile
<1>2. CacheInv /\ WrittenInv /\ StaleInv /\ [Next]_vars => StaleInv' BY StaleStep
<1>3. QED BY <1>1, <1>2, CacheInvariant, WrittenInvariant, PTL DEF Spec

\* While the index has room for every key, invalidated content is never served
\* again, whatever is cut short by failures of the disk and by crashes.
THEOREM NothingResurrectsWithRoom == ASSUME Room PROVE Spec => []NoResurrection
<1>1. CacheInv /\ StaleInv => NoResurrection
  BY DEF CacheInv, StaleInv, NoResurrection, Served, Hit, Readable
<1>2. QED BY <1>1, CacheInvariant, StaleInvariant, PTL

\* When the index has room, every file that a restart would load has an entry,
\* through overwrites and purges, failed writes, crashes and restarts alike: so
\* the cleaner and the invalidations, which look at entries only, meet it.
FilesAreIndexed ==
  \A k \in Keys : running /\ lock = "nobody" /\ disk[k].header => k \in indexed

\* While the index has room for every key, no file is out of reach of the cleaner.
THEOREM FilesHaveEntries == ASSUME Room PROVE Spec => []FilesAreIndexed
<1>1. CacheInv => \A t \in StoreThreads : Active(t) => lock # "nobody"
  BY StoreThreadsAssumption DEF CacheInv, LockInv, Active
<1>2. CacheInv /\ StaleInv => FilesAreIndexed
  BY <1>1 DEF StaleInv, BeingStored, FilesAreIndexed
<1>3. QED BY <1>2, CacheInvariant, StaleInvariant, PTL

-----------------------------------------------------------------------------
(* What is indexed is served *)

\* No write is cut short, and every response has a body. Files that cannot be
\* opened and entries that cannot be allocated do no harm.
Undisturbed ==
  Failures \cap {"write", "flush"} = {} /\ ~CanCrash /\ 0 \notin BodyLengths

Overwriting(k) ==
  \E t \in StoreThreads : store[t].pc \in {"writing", "closing"} /\ store[t].key = k

\* An entry has a whole file unless a store is replacing that file, and a store
\* comes to the index with a whole file.
ServeInv ==
  /\ running
  /\ \A k \in indexed : Readable(k) \/ Overwriting(k)
  /\ \A t \in StoreThreads : store[t].pc = "indexing" => Readable(store[t].key)

LEMMA ServeStep == ASSUME Undisturbed PROVE CacheInv /\ ServeInv /\ [Next]_vars => ServeInv'
<1> SUFFICES ASSUME CacheInv, ServeInv, [Next]_vars PROVE ServeInv' OBVIOUS
<1>a. TypeOK /\ LockInv BY DEF CacheInv
<1>b. \A t \in StoreThreads :
        store[t] # Idle => store[t].key \in Keys /\ store[t].length \in Nat \ {0}
  BY <1>a, BodyLengthsAssumption DEF TypeOK, Stores, Undisturbed
<1>1. ASSUME running', UNCHANGED store, indexed' \subseteq indexed,
             \A k \in indexed' : UNCHANGED disk[k] \/ disk'[k] = disk[k],
             lock \notin StoreThreads
      PROVE  ServeInv'
  <2>1. \A t \in StoreThreads : store[t].pc \notin {"writing", "closing", "indexing"}
    BY <1>1, <1>a DEF LockInv
  <2>2. QED BY <1>1, <2>1 DEF ServeInv, Overwriting, Readable
<1>2. ASSUME NEW k \in Keys, Discard(k), k \in indexed, lock \notin StoreThreads,
             UNCHANGED <<running, store>>
      PROVE  ServeInv'
  <2>1. \A j \in Keys : j # k => disk'[j] = disk[j]
    BY <1>2, <1>a DEF Discard, RemoveFile, TypeOK
  <2>2. indexed' = indexed \ {k} BY <1>2 DEF Discard, DropEntry
  <2>3. QED BY <1>1, <1>2, <1>a, <2>1, <2>2 DEF TypeOK, ServeInv
<1>3. ASSUME lock = "nobody" \/ lock = "cleaner" PROVE lock \notin StoreThreads
  BY <1>3, StoreThreadsAssumption
<1>4. ASSUME NEW k \in Keys, LookUpExpires(k) PROVE ServeInv'
  BY <1>2, <1>3, <1>4 DEF LookUpExpires
<1>5. ASSUME NEW k \in Keys, CacheInvalidate(k) PROVE ServeInv'
  <2>1. CASE k \in indexed
    BY <1>2, <1>3, <1>5, <2>1 DEF CacheInvalidate, InvalidateEntry
  <2>2. CASE k \notin indexed
    <3>1. \A j \in Keys : j # k => disk'[j] = disk[j]
      BY <1>5, <1>a, <2>2 DEF CacheInvalidate, LeaveFile, TypeOK
    <3>2. UNCHANGED <<indexed, running, store>> /\ lock = "nobody"
      BY <1>5, <2>2 DEF CacheInvalidate, indexVars
    <3>3. QED BY <1>1, <1>3, <1>a, <2>2, <3>1, <3>2 DEF TypeOK, ServeInv
  <2>3. QED BY <2>1, <2>2
<1>6. ASSUME NEW k \in Keys, CleanerVisit(k) PROVE ServeInv'
  <2>1. k \in indexed /\ lock = "cleaner" /\ UNCHANGED <<running, store>>
    BY <1>6, <1>a DEF CleanerVisit, LockInv
  <2>2. CASE Expired(k) BY <1>2, <1>3, <1>6, <2>1, <2>2 DEF CleanerVisit, PurgeEntry
  <2>3. CASE ~Expired(k)
    <3>1. UNCHANGED <<indexed, disk>> BY <1>6, <2>3 DEF CleanerVisit, indexVars
    <3>2. QED BY <1>1, <1>3, <2>1, <3>1 DEF ServeInv
  <2>4. QED BY <2>2, <2>3
<1>7. ASSUME NEW t \in StoreThreads, StoreOpen(t) PROVE ServeInv'
  <2>1. /\ store[t].key \in Keys /\ store[t].pc = "queued" /\ lock = "nobody"
        /\ UNCHANGED <<running, indexed>>
    BY <1>7, <1>b DEF StoreOpen, At, Idle, indexVars
  <2>2. \A u \in StoreThreads : store[u].pc \notin {"writing", "closing", "indexing"}
    BY <1>3, <2>1, <1>a DEF LockInv
  <2>3. \A k \in Keys : k \in indexed => Readable(k) BY <2>2 DEF ServeInv, Overwriting
  <2>4. CASE /\ store' = [store EXCEPT ![t].pc = "writing"]
             /\ disk' = [disk EXCEPT ![store[t].key] = EmptyFile]
    <3>1. /\ store'[t].pc = "writing" /\ store'[t].key = store[t].key
          /\ \A u \in StoreThreads : u # t => store'[u] = store[u]
      BY <1>a, <2>1, <2>4 DEF TypeOK, Stores, Idle
    <3>2. \A k \in Keys : k # store[t].key => disk'[k] = disk[k]
      BY <1>a, <2>1, <2>4 DEF TypeOK
    <3>3. QED
      BY <1>a, <2>1, <2>2, <2>3, <3>1, <3>2 DEF ServeInv, Overwriting, Readable, TypeOK
  <2>5. CASE store' = [store EXCEPT ![t] = Idle] /\ UNCHANGED disk
    <3>1. /\ store'[t].pc = "idle"
          /\ \A u \in StoreThreads : u # t => store'[u] = store[u]
      BY <1>a, <2>5 DEF TypeOK, Idle
    <3>2. QED BY <1>a, <2>1, <2>2, <2>3, <2>5, <3>1 DEF ServeInv, Readable, TypeOK
  <2>6. QED BY <1>7, <2>4, <2>5 DEF StoreOpen, Goto, Finish
<1>8. ASSUME NEW t \in StoreThreads, StoreWrite(t) PROVE ServeInv'
  <2>1. /\ store[t].key \in Keys /\ store[t].pc = "writing"
        /\ store' = [store EXCEPT ![t].pc = "closing"]
        /\ \E f : disk' = [disk EXCEPT ![store[t].key] = f]
        /\ UNCHANGED <<running, indexed>>
    BY <1>8, <1>b DEF StoreWrite, At, Goto, Idle, indexVars, Undisturbed
  <2>2. \A u \in StoreThreads :
          u # t => store[u].pc \notin {"writing", "closing", "indexing"}
    BY <2>1, <1>a DEF LockInv
  <2>3. /\ store'[t].pc = "closing" /\ store'[t].key = store[t].key
        /\ \A u \in StoreThreads : u # t => store'[u] = store[u]
    BY <1>a, <2>1 DEF TypeOK, Stores, Idle
  <2>4. \A k \in Keys : k # store[t].key => disk'[k] = disk[k]
    BY <1>a, <2>1 DEF TypeOK
  <2>5. QED BY <1>a, <2>1, <2>2, <2>3, <2>4 DEF ServeInv, Overwriting, Readable, TypeOK
<1>9. ASSUME NEW t \in StoreThreads, StoreClose(t) PROVE ServeInv'
  <2> DEFINE k == store[t].key
             f == [disk[k] EXCEPT !.header = TRUE, !.length = store[t].length,
                                  !.bytes = store[t].length]
  <2>1. /\ k \in Keys /\ store[t].pc = "closing" /\ store[t].length \in Nat \ {0}
        /\ store' = [store EXCEPT ![t].pc = "indexing"]
        /\ UNCHANGED <<running, indexed>>
    BY <1>9, <1>b DEF StoreClose, At, Goto, Idle, indexVars
  <2>2. disk' = [disk EXCEPT ![k] = f]
    BY <1>9 DEF StoreClose, Undisturbed
  <2>3. disk'[k] = f /\ disk[k] \in Files BY <1>a, <2>1, <2>2 DEF TypeOK
  <2>4. /\ disk'[k].header /\ disk'[k].length = store[t].length
        /\ disk'[k].bytes = store[t].length
    BY <2>3 DEF Files
  <2>5. \A u \in StoreThreads :
          u # t => store[u].pc \notin {"writing", "closing", "indexing"}
    BY <2>1, <1>a DEF LockInv
  <2>6. /\ store'[t].pc = "indexing" /\ store'[t].key = k
        /\ \A u \in StoreThreads : u # t => store'[u] = store[u]
    BY <1>a, <2>1 DEF TypeOK, Stores, Idle
  <2>w. Readable(k)' BY <2>1, <2>4, <2>6 DEF Readable
  <2>7. \A j \in Keys : j # k => disk'[j] = disk[j] BY <1>a, <2>2 DEF TypeOK
  <2>8. ASSUME NEW j \in indexed' PROVE Readable(j)'
    <3>1. CASE j = k BY <2>w, <2>6, <3>1 DEF Readable
    <3>2. CASE j # k
      <4>1. Readable(j) BY <1>a, <2>1, <2>5, <2>8, <3>2 DEF ServeInv, Overwriting
      <4>2. QED BY <1>a, <2>1, <2>7, <2>8, <3>2, <4>1 DEF Readable, TypeOK
    <3>3. QED BY <3>1, <3>2
  <2>9. \A u \in StoreThreads : store'[u].pc = "indexing" => Readable(store[u].key)'
    <3>1. \A u \in StoreThreads : store'[u].pc = "indexing" => u = t BY <2>5, <2>6
    <3>2. Readable(store[t].key)' BY <2>w, <2>6
    <3>3. QED BY <3>1, <3>2
  <2>10. QED BY <2>1, <2>8, <2>9 DEF ServeInv
<1>10. ASSUME NEW t \in StoreThreads, StoreIndex(t) PROVE ServeInv'
  <2>1. /\ store[t].pc = "indexing" /\ Readable(store[t].key) /\ lock = t
        /\ store' = [store EXCEPT ![t] = Idle]
        /\ indexed' \subseteq indexed \cup {store[t].key}
        /\ UNCHANGED <<running, disk>>
    BY <1>10, <1>a DEF StoreIndex, At, Finish, indexVars, ServeInv, LockInv
  <2>2. \A u \in StoreThreads :
          u # t => store[u].pc \notin {"writing", "closing", "indexing"}
    BY <2>1, <1>a DEF LockInv
  <2>3. /\ store'[t].pc = "idle"
        /\ \A u \in StoreThreads : u # t => store'[u] = store[u]
    BY <1>a, <2>1 DEF TypeOK, Idle
  <2>4. \A k \in indexed' : Readable(k) BY <2>1, <2>2 DEF ServeInv, Overwriting
  <2>5. QED BY <2>1, <2>2, <2>3, <2>4 DEF ServeInv, Readable
<1>11. ASSUME NEW t \in StoreThreads, NEW k \in Keys, NEW n \in BodyLengths,
              CacheStoreAsync(t, k, n)
       PROVE  ServeInv'
  <2>1. /\ store[t].pc = "idle" /\ store'[t].pc = "queued"
        /\ \A u \in StoreThreads : u # t => store'[u] = store[u]
        /\ UNCHANGED <<running, indexed, disk>>
    BY <1>11, <1>a DEF CacheStoreAsync, TypeOK, Idle, indexVars
  <2>2. \A j \in Keys : Overwriting(j) => Overwriting(j)' BY <2>1 DEF Overwriting
  <2>3. QED BY <1>a, <2>1, <2>2 DEF ServeInv, Readable, TypeOK
<1>12. ASSUME UNCHANGED <<running, indexed, disk, store>> PROVE ServeInv'
  BY <1>12 DEF ServeInv, Overwriting, Readable
<1>13. CASE Tick
  <2>1. ASSUME NEW k \in Keys PROVE Readable(k) <=> Readable(k)'
    <3>1. disk[k] \in Files BY <1>a DEF TypeOK
    <3>2. disk'[k] = IF disk[k].exists THEN [disk[k] EXCEPT !.age = Older(disk[k].age)]
                     ELSE disk[k]
      BY <1>13 DEF Tick
    <3>3. QED BY <3>1, <3>2 DEF Readable, Files
  <2>2. UNCHANGED <<running, indexed, store>> BY <1>13 DEF Tick
  <2>3. \A t \in StoreThreads : store[t].pc = "indexing" => store[t].key \in Keys
    BY <1>b DEF Idle
  <2>4. ASSUME NEW t \in StoreThreads, store'[t].pc = "indexing"
        PROVE  Readable(store[t].key)'
    <3>1. Readable(store[t].key) BY <2>2, <2>4 DEF ServeInv
    <3>2. QED BY <2>1, <2>2, <2>3, <2>4, <3>1 DEF Readable
  <2>5. \A k \in indexed' : Readable(k)' \/ Overwriting(k)'
    BY <1>a, <2>1, <2>2 DEF ServeInv, Overwriting, TypeOK
  <2>6. QED BY <2>2, <2>4, <2>5 DEF ServeInv, Readable
<1>14. CASE Crash BY <1>14 DEF Crash, Undisturbed
<1>15. CASE Restart BY <1>15 DEF Restart, ServeInv
<1>16. CASE CleanerStart \/ CleanerDone
  BY <1>12, <1>16 DEF CleanerStart, CleanerDone, indexVars
<1>17. CASE UNCHANGED vars BY <1>12, <1>17 DEF vars, indexVars
<1>18. QED
  BY <1>4, <1>5, <1>6, <1>7, <1>8, <1>9, <1>10, <1>11, <1>13, <1>14, <1>15, <1>16,
     <1>17 DEF Next, Store

\* While no write is cut short, nothing dies and responses have bodies, an entry
\* in the index can be served until it expires, although stores of the same key,
\* full indices, invalidations and the cleaner get between the file and its
\* entry.
THEOREM IndexedResponsesAreServed == ASSUME Undisturbed PROVE Spec => []IndexedIsServed
<1>1. Init => ServeInv BY DEF Init, ServeInv, Idle
<1>2. CacheInv /\ ServeInv /\ [Next]_vars => ServeInv' BY ServeStep
<1>3. CacheInv /\ ServeInv => IndexedIsServed
  <2> SUFFICES ASSUME CacheInv, ServeInv, NEW k \in Keys, lock = "nobody",
                      k \in indexed, ~Expired(k)
               PROVE  Hit(k)
    BY DEF IndexedIsServed
  <2>1. ~Overwriting(k)
    BY StoreThreadsAssumption DEF Overwriting, CacheInv, LockInv
  <2>2. QED BY <2>1 DEF ServeInv, Hit
<1>4. QED BY <1>1, <1>2, <1>3, CacheInvariant, PTL DEF Spec
=============================================================================
