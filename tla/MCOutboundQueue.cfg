\* Two jobs, a claim limit below their number, a worker whose replica may be
\* suspended, one crash after which the secret may be another. One tick stands for
\* the 45 s of the work context; a retried job is due at once, or later, as nobody
\* has to claim it.
SPECIFICATION Spec
CONSTANTS
  Jobs = {j1, j2}
  Workers = {w1, w2}
  MayStall = {w2}
  NoOne = NoOne
  Departed = Departed
  Secrets = {s1, s2}
  FirstSecret = s1
  BatchLimit = 1
  MaxAttempts = 2
  WorkTimeout = 1
  Lease = 2
  BackoffUnit = 0
  MaxCrashes = 1
  AttemptCap = 3
SYMMETRY JobSymmetry
INVARIANTS
  TypeOK
  LeaseHeld
  CiphertextMatchesStatus
  NoMailDropped
  DuplicateNeedsUncertainty
PROPERTY
  TerminalIsFinal
