\* One account, one login, one reset: does the reset end the session?
SPECIFICATION Spec
CONSTANTS
  Users = {p1}
  Shareable = {m1}
  Invites = {i1}
  Resets = {r1}
  Submits = {x1}
  Logins = {s1}
  None = None
  MaxToggles = 0
CHECK_DEADLOCK FALSE
INVARIANT
  EndedSessionsStayEnded
