-------------------------------- MODULE Staff --------------------------------
(***************************************************************************)
(* The firm's own users (internal/repository/identity.go and admin.go, the *)
(* handlers of internal/http/handlers/api.go behind them, and the session  *)
(* and permission checks of internal/http/middleware): the first setup,    *)
(* users, roles, logins, password changes, disabling and enabling.         *)
(*                                                                         *)
(* Nothing here runs in one statement: a login reads the credential and    *)
(* then inserts the session; disabling counts the other Owners, updates    *)
(* the account and then deletes its sessions; a password change updates    *)
(* and deletes twice; a change of roles counts, deletes and inserts in one *)
(* transaction at READ COMMITTED, where each statement sees what others    *)
(* have committed by then. A request may end between any two statements:   *)
(* its context is that of the connection. A password is identified by the  *)
(* request that stored it. One firm is modelled: every statement carries   *)
(* the firm's id. Session expiry only takes steps away, and is left out.   *)
(***************************************************************************)
EXTENDS Integers, FiniteSets

CONSTANTS
  People,   \* users of the firm that exist or may be created
  Roles,    \* roles that exist or may be created
  Owner,    \* the role Setup creates: system, and named in the checks
  Changes,  \* requests to disable a user, change roles or change a password
  Entries,  \* login attempts, and the sessions they create
  First,    \* the password a user was created with
  Nobody    \* no user

ASSUME StaffAssumptions ==
  /\ Owner \in Roles
  /\ First \notin Changes
  /\ Nobody \notin People

VARIABLES
  enabled,   \* users.active: the rows that exist and are active
  created,   \* the rows of users that exist
  password,  \* users.password_hash
  rolesOf,   \* user_roles
  managing,  \* roles that exist -> whether they grant users.manage
  change,    \* the requests in progress
  entry,     \* logins: new, checked (credential read), live or gone
  person,    \* the user of a login
  checked,   \* the password a login was checked against
  crossed,   \* history: requests judged while another one was between judgement and write
  assigned,  \* history: the roles the last committed assignment gave
  mixed,     \* history: users whose roles two open transactions were replacing
  expired,   \* history: logins a change or disabling should have ended
  spared     \* history: of these, in flight then, or kept by a request cut short

staffUsers   == <<enabled, created, password>>
staffRoles   == <<rolesOf, managing, assigned, mixed>>
staffEntries == <<entry, person, checked, expired, spared>>
staffVars    == <<staffUsers, staffRoles, staffEntries, change, crossed>>

\* The stages of a request. disable: judged, stored, done. password: verified,
\* stored, again, done. assign: judged, deleting (its DELETE has its snapshot),
\* emptied (the rows are locked), done.
Asked(op, u, stage, gives) == [op |-> op, of |-> u, stage |-> stage, gives |-> gives, rows |-> {}]

Idle == Asked("none", Nobody, "new", {})
Over == Asked("none", Nobody, "done", {})

IsOwner(u)     == Owner \in rolesOf[u]
OtherOwners(u) == {v \in enabled \ {u} : IsOwner(v)}
Pending(c)     == change[c].stage \in {"judged", "deleting", "emptied"}
LiveOf(u)      == {s \in Entries : entry[s] = "live" /\ person[s] = u}
CheckedFor(u)  == {s \in Entries : entry[s] = "checked" /\ person[s] = u}

\* UserBySession: a session works while its user is active.
SignedIn(u) == u \in enabled /\ LiveOf(u) # {}

\* UserGrants, read as the request comes in.
Grants(u) == {r \in rolesOf[u] \cap DOMAIN managing : managing[r]}

\* Permission("users.manage").
MayManage(u) == SignedIn(u) /\ Grants(u) # {}

StaffInit ==
  /\ enabled  = {}
  /\ created  = {}
  /\ password = [u \in People |-> First]
  /\ rolesOf  = [u \in People |-> {}]
  /\ managing = [r \in {} |-> TRUE]
  /\ change   = [c \in Changes |-> Idle]
  /\ entry    = [s \in Entries |-> "new"]
  /\ person   = [s \in Entries |-> Nobody]
  /\ checked  = [s \in Entries |-> First]
  /\ crossed  = {}
  /\ assigned = [u \in People |-> {}]
  /\ mixed    = {}
  /\ expired  = {}
  /\ spared   = {}

-----------------------------------------------------------------------------
\* Sessions.

OpenSession(s, u) ==
  /\ entry'   = [entry EXCEPT ![s] = "live"]
  /\ person'  = [person EXCEPT ![s] = u]

EndSessions(gone) ==
  /\ entry'   = [s \in Entries |-> IF s \in gone THEN "gone" ELSE entry[s]]
  /\ person'  = [s \in Entries |-> IF s \in gone THEN Nobody ELSE person[s]]
  /\ checked' = [s \in Entries |-> IF s \in gone THEN First ELSE checked[s]]
  /\ expired' = expired \ gone
  /\ spared'  = spared \ gone

\* Store.Setup: the firm, its first user and the Owner role, in one transaction.
SetupFirm(u) ==
  /\ created = {}
  /\ created'  = {u}
  /\ enabled'  = {u}
  /\ managing' = [r \in {Owner} |-> TRUE]
  /\ rolesOf'  = [rolesOf EXCEPT ![u] = {Owner}]
  /\ assigned' = [assigned EXCEPT ![u] = {Owner}]
  /\ UNCHANGED <<password, mixed>>

\* The handler opens a session in a second transaction, which may fail.
Setup(u, s) ==
  /\ SetupFirm(u)
  /\ entry[s] = "new"
  /\ \/ OpenSession(s, u)
     \/ UNCHANGED <<entry, person>>
  /\ UNCHANGED <<change, checked, crossed, expired, spared>>

\* Credentials: whether the account is active is not looked at.
Credentials(u) == IF u \in created THEN {password[u]} ELSE {}

\* Login, up to CheckPassword.
CheckLogin(s, u) ==
  /\ entry[s] = "new"
  /\ \E p \in Credentials(u) : checked' = [checked EXCEPT ![s] = p]
  /\ entry'  = [entry EXCEPT ![s] = "checked"]
  /\ person' = [person EXCEPT ![s] = u]
  /\ UNCHANGED <<staffUsers, staffRoles, change, crossed, expired, spared>>

\* issueSession, whatever happened to the account since.
IssueSession(s) ==
  /\ entry[s] = "checked"
  /\ OpenSession(s, person[s])
  /\ UNCHANGED <<staffUsers, staffRoles, checked, expired, spared, change, crossed>>

\* Logout: behind Authenticate, so only for a session that works.
Logout(s) ==
  /\ entry[s] = "live" /\ person[s] \in enabled
  /\ EndSessions({s})
  /\ UNCHANGED <<staffUsers, staffRoles, change, crossed>>

\* Variant: RevokeUserSessions deletes nothing.
RevokeNothing(u)      == {}
RevokeUserSessions(u) == LiveOf(u)

Move(c, stage) == change' = [change EXCEPT ![c].stage = stage]
EndOf(c)       == change' = [change EXCEPT ![c] = Over]

\* History: c is judged; whoever is between judgement and write crosses it.
Cross(c) ==
  LET others == {d \in Changes : Pending(d)}
  IN  crossed' = crossed \cup (IF others = {} THEN {} ELSE others \cup {c})

-----------------------------------------------------------------------------
\* Users and roles: by someone who may manage users.

\* Variant: the ids are stored as given.
AsGiven(given) == given
Known(given)   == given \cap DOMAIN managing

\* Store.CreateUser: ids of roles that do not exist are dropped silently.
AddUser(u, given) ==
  /\ u \notin created
  /\ created'  = created \cup {u}
  /\ enabled'  = enabled \cup {u}
  /\ rolesOf'  = [rolesOf EXCEPT ![u] = Known(given)]
  /\ assigned' = [assigned EXCEPT ![u] = Known(given)]
  /\ UNCHANGED <<password, managing, mixed>>

CreateUser(u, given) ==
  /\ \E by \in People : MayManage(by)
  /\ AddUser(u, given)
  /\ UNCHANGED <<staffEntries, change, crossed>>

\* Store.CreateRole; a name is unique in its firm.
AddRole(r, manages) ==
  /\ r \notin DOMAIN managing
  /\ managing' = [x \in DOMAIN managing \cup {r} |-> IF x = r THEN manages ELSE managing[x]]

CreateRole(r, manages) ==
  /\ \E by \in People : MayManage(by)
  /\ AddRole(r, manages)
  /\ UNCHANGED <<rolesOf, assigned, mixed, staffUsers, staffEntries, change, crossed>>

\* Store.UpdateRole: not a system role. The row of the role is locked first, so
\* two updates of a role follow each other.
ReplaceRole(r, manages) ==
  /\ r \in DOMAIN managing \ {Owner}
  /\ managing' = [managing EXCEPT ![r] = manages]

UpdateRole(r, manages) ==
  /\ \E by \in People : MayManage(by)
  /\ ReplaceRole(r, manages)
  /\ UNCHANGED <<rolesOf, assigned, mixed, staffUsers, staffEntries, change, crossed>>

\* Variant: the other Owners are not counted.
NeverLast(u) == FALSE
LastOwner(u) == IsOwner(u) /\ OtherOwners(u) = {}

\* SetUserActive(false), the count: not oneself, not the last active Owner.
JudgeDisable(c, u) ==
  /\ change[c] = Idle
  /\ u \in created
  /\ \E by \in People \ {u} : MayManage(by)
  /\ ~LastOwner(u)
  /\ change' = [change EXCEPT ![c] = Asked("disable", u, "judged", {})]
  /\ Cross(c)
  /\ UNCHANGED <<staffUsers, staffRoles, staffEntries>>

\* The UPDATE.
Disable(c) ==
  /\ change[c].op = "disable" /\ change[c].stage = "judged"
  /\ enabled' = enabled \ {change[c].of}
  /\ Move(c, "stored")
  /\ expired' = expired \cup LiveOf(change[c].of) \cup CheckedFor(change[c].of)
  /\ spared'  = spared \cup CheckedFor(change[c].of)
  /\ UNCHANGED <<created, password, staffRoles, entry, person, checked, crossed>>

\* SetUserActive(true).
Enable(u) ==
  /\ u \in created \ enabled
  /\ \E by \in People : MayManage(by)
  /\ enabled' = enabled \cup {u}
  /\ UNCHANGED <<created, password, staffRoles, staffEntries, change, crossed>>

\* ChangePassword, the check of the current password: of the active account.
VerifyPassword(c, u) ==
  /\ change[c] = Idle
  /\ SignedIn(u)
  /\ change' = [change EXCEPT ![c] = Asked("password", u, "verified", {})]
  /\ UNCHANGED <<staffUsers, staffRoles, staffEntries, crossed>>

\* The UPDATE: no row, and no error, when the account was disabled meanwhile.
StorePassword(c) ==
  /\ change[c].op = "password" /\ change[c].stage = "verified"
  /\ IF change[c].of \in enabled
     THEN /\ password' = [password EXCEPT ![change[c].of] = c]
          /\ spared'   = spared \cup CheckedFor(change[c].of)
     ELSE UNCHANGED <<password, spared>>
  /\ Move(c, "stored")
  /\ UNCHANGED <<created, enabled, staffRoles, entry, person, checked, expired, crossed>>

\* The DELETE after either UPDATE; for a password the handler repeats it.
EndSessionsOf(c) ==
  /\ change[c].stage \in {"stored", "again"}
  /\ EndSessions(RevokeUserSessions(change[c].of))
  /\ IF change[c].op = "password" /\ change[c].stage = "stored" THEN Move(c, "again") ELSE EndOf(c)
  /\ UNCHANGED <<staffUsers, staffRoles, crossed>>

\* The client leaves, or the process ends, between the UPDATE and the DELETE.
SessionsKept(c) ==
  /\ change[c].stage = "stored"
  /\ spared' = spared \cup LiveOf(change[c].of)
  /\ EndOf(c)
  /\ UNCHANGED <<staffUsers, staffRoles, entry, person, checked, expired, crossed>>

-----------------------------------------------------------------------------
\* UpdateUserRoles.

\* The count of the transaction.
MayReplace(u, gives) == Owner \in gives \/ ~LastOwner(u)

\* The request, not for oneself and with some role, up to the count.
JudgeRoles(c, u, gives) ==
  /\ change[c] = Idle
  /\ u \in created /\ gives # {}
  /\ \E by \in People \ {u} : MayManage(by)
  /\ MayReplace(u, gives)
  /\ change' = [change EXCEPT ![c] = Asked("assign", u, "judged", gives)]
  /\ Cross(c)
  /\ UNCHANGED <<staffUsers, staffRoles, staffEntries>>

\* Variant: the roles the user has are not deleted.
KeepRows(u)     == {}
RowsToDelete(u) == rolesOf[u]

Rivals(c) == {d \in Changes \ {c} : /\ change[d].op = "assign"
                                    /\ change[d].of = change[c].of
                                    /\ change[d].stage \in {"deleting", "emptied"}}

\* The DELETE takes its snapshot.
SnapshotRoles(c) ==
  /\ change[c].op = "assign" /\ change[c].stage = "judged"
  /\ change' = [change EXCEPT ![c].stage = "deleting", ![c].rows = RowsToDelete(change[c].of)]
  /\ mixed'  = mixed \cup (IF Rivals(c) = {} THEN {} ELSE {change[c].of})
  /\ UNCHANGED <<rolesOf, managing, assigned, staffUsers, staffEntries, crossed>>

\* It locks the rows, waiting for a transaction that holds one of them.
DeleteRoles(c) ==
  /\ change[c].op = "assign" /\ change[c].stage = "deleting"
  /\ ~\E d \in Rivals(c) : change[d].stage = "emptied" /\ change[d].rows \cap change[c].rows # {}
  /\ Move(c, "emptied")
  /\ UNCHANGED <<staffUsers, staffRoles, staffEntries, crossed>>

\* The INSERTs and the commit: refused for an unknown role or a row that exists.
\* A row this transaction deleted is no longer there for one that waited for it.
UpdateUserRoles(c) ==
  LET u == change[c].of
      left == rolesOf[u] \ change[c].rows
  IN
  /\ change[c].op = "assign" /\ change[c].stage = "emptied"
  /\ change[c].gives \subseteq DOMAIN managing
  /\ left \cap change[c].gives = {}
  /\ rolesOf'  = [rolesOf EXCEPT ![u] = left \cup change[c].gives]
  /\ assigned' = [assigned EXCEPT ![u] = change[c].gives]
  /\ change'   = [d \in Changes |->
                    IF d = c THEN Over
                    ELSE IF d \in Rivals(c)
                    THEN [change[d] EXCEPT !.rows = @ \ change[c].rows]
                    ELSE change[d]]
  /\ UNCHANGED <<managing, mixed, staffUsers, staffEntries, crossed>>

\* An INSERT is refused, the client leaves or the process ends: rolled back.
AbortRoles(c) ==
  /\ change[c].op = "assign" /\ Pending(c)
  /\ EndOf(c)
  /\ UNCHANGED <<staffUsers, staffRoles, staffEntries, crossed>>

-----------------------------------------------------------------------------
StaffNext ==
  \/ \E u \in People, s \in Entries : Setup(u, s) \/ CheckLogin(s, u)
  \/ \E s \in Entries : IssueSession(s) \/ Logout(s)
  \/ \E u \in People : Enable(u)
  \/ \E u \in People, given \in SUBSET Roles : CreateUser(u, given)
  \/ \E r \in Roles, manages \in BOOLEAN : CreateRole(r, manages) \/ UpdateRole(r, manages)
  \/ \E c \in Changes, u \in People : JudgeDisable(c, u) \/ VerifyPassword(c, u)
  \/ \E c \in Changes, u \in People, gives \in SUBSET Roles : JudgeRoles(c, u, gives)
  \/ \E c \in Changes :
       \/ Disable(c) \/ StorePassword(c) \/ EndSessionsOf(c) \/ SessionsKept(c)
       \/ SnapshotRoles(c) \/ DeleteRoles(c) \/ UpdateUserRoles(c) \/ AbortRoles(c)

StaffSpec == StaffInit /\ [][StaffNext]_staffVars

-----------------------------------------------------------------------------
\* Every variable stays in its type, and only users that exist are active, hold
\* roles or are logged in.
StaffTypeOK ==
  /\ enabled \subseteq created /\ created \subseteq People
  /\ password \in [People -> Changes \cup {First}]
  /\ rolesOf \in [People -> SUBSET DOMAIN managing]
  /\ DOMAIN managing \subseteq Roles
  /\ \A r \in DOMAIN managing : managing[r] \in BOOLEAN
  /\ change \in [Changes ->
       [op : {"none", "disable", "password", "assign"}, of : People \cup {Nobody},
        stage : {"new", "judged", "verified", "stored", "again", "deleting", "emptied", "done"},
        gives : SUBSET Roles, rows : SUBSET Roles]]
  /\ entry \in [Entries -> {"new", "checked", "live", "gone"}]
  /\ person \in [Entries -> People \cup {Nobody}]
  /\ \A s \in Entries : entry[s] \in {"checked", "live"} => person[s] \in created
  /\ checked \in [Entries -> Changes \cup {First}]
  /\ crossed \subseteq Changes
  /\ assigned \in [People -> SUBSET Roles]
  /\ mixed \subseteq People
  /\ expired \subseteq Entries
  /\ spared \subseteq Entries

ActiveOwners == {u \in enabled : IsOwner(u)}

\* SetUserActive and UpdateUserRoles refuse to take the last active Owner away:
\* the step that leaves a firm without one is the write of a request judged while
\* another was between its own judgement and its write; no request does it alone.
OwnerLostOnlyByCrossing ==
  [][ActiveOwners # {} /\ ActiveOwners' = {} =>
       \E c \in crossed : change'[c].stage # change[c].stage]_staffVars

\* UpdateUserRoles replaces a user's roles: what the user holds is what the last
\* committed assignment gave, unless two assignments of that user were open in
\* their DELETE at once (the second one does not see what the first inserted).
RolesMixedOnlyByOverlap ==
  \A u \in People : rolesOf[u] = assigned[u] \/ u \in mixed

\* A session opened with a password since changed, or before its user was
\* disabled, is gone once the request is over, unless its login was in flight at
\* the UPDATE or the request was cut short before its DELETE.
SessionsOutliveOnlyRaces ==
  \A s \in Entries :
    entry[s] = "live" /\ (s \in expired \/ checked[s] # password[person[s]]) =>
    \/ s \in spared
    \/ \E c \in Changes : change[c].stage = "stored" /\ change[c].of = person[s]
=============================================================================
