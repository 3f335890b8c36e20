\* Two backends, two POSTs, a retry; everything but memory may fail.
SPECIFICATION FairSpec
CONSTANTS
  BackendCount = 2
  Posts = {p1, p2}
  MaxAttempts = 2
  Failures = {"connect", "break", "refuse", "thread", "die", "proxy"}
INVARIANTS TypeOK SuccessIsApplied LaggardsWereDoubted ReplicatedInOrder ReplicasAgree
PROPERTIES DeliveredAsPromised CopiesEnd
