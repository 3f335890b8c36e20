\* One key: two workers and two store threads race for it; everything but
\* the allocation of entries may fail and the process may die.
SPECIFICATION ProxySpec
CONSTANTS
  Keys = {k1}
  StoreThreads = {t1, t2}
  MaxEntries = 1
  TTL = 0
  BodyLengths = {0, 1, 2, 3}
  Failures = {"open", "write", "flush"}
  CanCrash = TRUE
  MaxStoreSeconds = 0
  Workers = {w1, w2}
  Backends = {b1, b2}
  Resources = {k1}
  ResourceOf <- OneToOne
  MaxContent = 2
  ForwardFailures = {"answer", "cut", "thread"}
  MaxLeaked = 1
INVARIANTS ProxyTypeOK CoherentUnlessRaced BodiesAreOwned NoResurrection
SYMMETRY Symmetry
