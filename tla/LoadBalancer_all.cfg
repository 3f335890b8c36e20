\* Two backends, two workers, no backend hangs; the failure counter wraps at 2.
SPECIFICATION FairSpec
CONSTANTS
  BackendCount = 2
  Workers = {w1, w2}
  CanHang = {}
  FailureCountModulus = 2
INVARIANTS TypeOK ActiveMatchesForwards HealthyHasNoFailures
PROPERTIES SelectionIsFair DownIsDetected UpIsReadmitted ForwardsEnd
