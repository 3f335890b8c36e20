\* Two backends, whose files differ. Races, crashes, failed writes, files without
\* an entry and answers cut short: outdated copies and unreadable entries end.
SPECIFICATION FairProxySpec
CONSTANTS
  Keys = {k1}
  StoreThreads = {t1}
  MaxEntries = 1
  TTL = 0
  BodyLengths = {0, 1, 2, 3, 4}
  Failures = {"write", "alloc"}
  CanCrash = TRUE
  MaxStoreSeconds = 1
  Workers = {w1}
  Backends = {b1, b2}
  Resources = {k1}
  ResourceOf <- OneToOne
  MaxContent = 3
  ForwardFailures = {"cut"}
  MaxLeaked = 0
PROPERTIES EventuallyCoherent UnreadableEnds
