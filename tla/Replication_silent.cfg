\* A backend that keeps its connections open in silence: no attempt times out.
SPECIFICATION FairSpec
CONSTANTS
  BackendCount = 2
  Posts = {p1, p2}
  MaxAttempts = 2
  Failures = {"hang"}
PROPERTY AttemptsEnd
