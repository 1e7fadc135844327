\* One matter, archived, reopened and archived again: is the second, confirmed
\* request accepted?
SPECIFICATION MatterSpec
CONSTANTS
  Matters = {m1}
  Work = {w1}
  Requests = {q1, q2}
  NoMatter = None
CHECK_DEADLOCK FALSE
INVARIANT
  ConfirmedArchiveAccepted
