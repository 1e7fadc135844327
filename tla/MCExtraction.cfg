\* One document with one version and later another, two extraction workers,
\* two pages, two deletions or reprocessing requests.
SPECIFICATION Spec
CONSTANTS
  Docs = {d1}
  Versions = {k1, k2}
  Workers = {w1, w2}
  Pages = {p1, p2}
  None = None
  ClaimLimit = 2
  MaxAttempts = 2
  MaxRequests = 2
SYMMETRY ExtractionSymmetry
CHECK_DEADLOCK FALSE
INVARIANTS
  TypeOK
  ReprocessIsHonoured
  GivesUpOnlyExhausted
PROPERTY
  KeepsText
