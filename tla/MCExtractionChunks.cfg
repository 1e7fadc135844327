\* One version, one worker, one deletion: what does a success leave behind?
SPECIFICATION Spec
CONSTANTS
  Docs = {d1}
  Versions = {k1}
  Workers = {w1}
  Pages = {p1, p2}
  None = None
  ClaimLimit = 1
  MaxAttempts = 2
  MaxRequests = 1
CHECK_DEADLOCK FALSE
INVARIANT
  SuccessRebuildsChunks
