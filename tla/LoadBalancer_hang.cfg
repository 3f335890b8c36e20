\* One backend that accepts connections and never answers.
SPECIFICATION FairSpec
CONSTANTS
  BackendCount = 2
  Workers = {w1}
  CanHang = {0}
  FailureCountModulus = 2
PROPERTY PeriodicHealthCheck
