\* Clients: one account; two invitations, recovery requests, submissions and
\* logins. Staff: two people, a role besides Owner, two requests, three logins.
\* Matters: two, with two pieces of work and two archive requests.
SPECIFICATION OfficeSpec
CONSTANTS
  Users = {p1}
  Shareable = {m1, m2}
  Invites = {a, b}
  Resets = {r1, r2}
  Submits = {x1, x2}
  Logins = {s1, s2}
  None = None
  MaxToggles = 1
  People = {a, b}
  Roles = {Owner, Clerk}
  Owner = Owner
  Changes = {x1, x2}
  Entries = {s1, s2, s3}
  First = None
  Nobody = None
  Matters = {a, b}
  Work = {r1, r2}
  Requests = {x1, x2}
  NoMatter = None
SYMMETRY OfficeSymmetry
CHECK_DEADLOCK FALSE
INVARIANTS
  OfficeTypeOK
  AccessAsAccepted
  OneLiveReset
  OnlyRacesSurvive
  RolesMixedOnlyByOverlap
  SessionsOutliveOnlyRaces
  TimelineTellsArchive
  ArchivedStatusIsBacked
PROPERTIES
  CredentialNotReplaced
  OwnerLostOnlyByCrossing
  OverlookedCameLate
