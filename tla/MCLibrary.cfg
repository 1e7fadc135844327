\* Two documents, four uploads: a first version and three additions may race.
\* Two chunks, two workers, two models; pages of up to seven runes, cut by four. One
\* workflow, three edits of up to two stages.
SPECIFICATION LibrarySpec
CONSTANTS
  Docs = {d1, d2}
  Uploads = {k1, k2, k3, k4}
  None = None
  MaxDeletions = 1
  ChunkSize = 4
  Overlap = 1
  LookBack = 2
  MaxPage = 7
  Chunks = {d1, d2}
  Embedders = {e1, e2}
  Models = {d1, d2}
  NoModel = None
  Unclaimed = None
  EmbedLimit = 2
  BatchLimit = 2
  MaxClaims = 3
  Workflows = {f1}
  Edits = {w1, w2, w3}
  NoEdit = None
  MaxStages = 2
SYMMETRY LibrarySymmetry
CHECK_DEADLOCK FALSE
INVARIANTS
  LibraryTypeOK
  AcknowledgedIsReadable
  VersionsAreNumbered
  PiecesCoverPage
  StagesAreOneList
PROPERTIES
  KeepsHistory
  
