\* One chunk, one worker, one model: a provider that fails every time.
SPECIFICATION RetrySpec
CONSTANTS
  Chunks = {c1}
  Embedders = {e1}
  Models = {m1}
  NoModel = NoModel
  Unclaimed = Unclaimed
  EmbedLimit = 3
  BatchLimit = 1
  MaxClaims = 4
CHECK_DEADLOCK FALSE
INVARIANT
  RetriesAreBounded
