\* Invalidation and restart once the index has been full.
SPECIFICATION Spec
CONSTANTS
  Keys = {k1, k2}
  StoreThreads = {t1}
  MaxEntries = 1
  TTL = 1
  BodyLengths = {1}
  Failures = {}
  CanCrash = TRUE
  MaxStoreSeconds = 1
INVARIANT NoResurrection
