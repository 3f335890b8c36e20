\* No write is cut short, no crash, room for every key: stored responses are found, and purged.
SPECIFICATION FairSpec
CONSTANTS
  Keys = {k1, k2}
  StoreThreads = {t1, t2}
  MaxEntries = 2
  TTL = 1
  BodyLengths = {1}
  Failures = {"open"}
  CanCrash = FALSE
  MaxStoreSeconds = 1
INVARIANT IndexedIsServed
PROPERTY ExpiredFilesPurged
