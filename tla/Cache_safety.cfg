\* An index with room for one of two keys; everything may fail.
SPECIFICATION Spec
CONSTANTS
  Keys = {k1, k2}
  StoreThreads = {t1, t2}
  MaxEntries = 1
  TTL = 1
  BodyLengths = {0, 1}
  Failures = {"open", "write", "flush", "alloc"}
  CanCrash = TRUE
  MaxStoreSeconds = 1
INVARIANTS TypeOK CountMatchesIndex HitIsWhole HitIsFresh
SYMMETRY Symmetry
