\* One key, no failure and no crash: a GET overlaps a POST.
SPECIFICATION ProxySpec
CONSTANTS
  Keys = {k1}
  StoreThreads = {t1}
  MaxEntries = 1
  TTL = 1
  BodyLengths = {0, 1, 2, 3}
  Failures = {}
  CanCrash = FALSE
  MaxStoreSeconds = 0
  Workers = {w1, w2}
  Backends = {b1}
  Resources = {k1}
  ResourceOf <- OneToOne
  MaxContent = 2
  ForwardFailures = {}
  MaxLeaked = 0
INVARIANT PostInvalidates
