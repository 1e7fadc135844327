\* One job and one crash: how often can it be claimed?
SPECIFICATION Spec
CONSTANTS
  Jobs = {j1}
  Workers = {w1, w2}
  MayStall = {w2}
  NoOne = NoOne
  Departed = Departed
  Secrets = {s1}
  FirstSecret = s1
  BatchLimit = 1
  MaxAttempts = 2
  WorkTimeout = 1
  Lease = 2
  BackoffUnit = 1
  MaxCrashes = 1
  AttemptCap = 3
INVARIANT
  RetryIsBounded
