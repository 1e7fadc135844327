\* Two subjects of notifications, two schedulers, a list shorter than what is
\* pending, one fault. One job, two workers, nobody suspended, one crash after
\* which the worker may come back with another secret.
SPECIFICATION MailingSpec
CONSTANTS
  Subjects = {u1, u2}
  Schedulers = {s1, s2}
  NoReplica = NoOne
  ListLimit = 1
  MaxNotices = 2
  MaxSwings = 2
  MaxBreaks = 1
  Jobs = {j1}
  Workers = {w1, w2}
  MayStall = {}
  NoOne = NoOne
  Departed = Departed
  Secrets = {k1, k2}
  FirstSecret = k1
  BatchLimit = 1
  MaxAttempts = 2
  WorkTimeout = 1
  Lease = 2
  BackoffUnit = 1
  MaxCrashes = 1
  AttemptCap = 3
CHECK_DEADLOCK FALSE
INVARIANTS
  NotifiedOnce
  MailedTwiceOnlyIfMarkLost
  SendersExclusive
PROPERTIES
  EveryAlertIsMailed
  EveryJobSettles
  KeepsPromise
