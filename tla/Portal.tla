-------------------------------- MODULE Portal --------------------------------
(***************************************************************************)
(* The client portal's identities (internal/repository/admin.go and the    *)
(* portal handlers of internal/http/handlers/api.go): invitations and      *)
(* their acceptance, password recovery, logins and sessions, revocation    *)
(* and reactivation by the firm.                                           *)
(*                                                                         *)
(* A login reads the credential and inserts the session in two statements; *)
(* revocation clears the account and deletes its sessions in two; the two  *)
(* recovery transactions take the row of the account and the row of the    *)
(* token in opposite order, so either may be aborted as a deadlock victim. *)
(* A password is identified by what set it: an invitation or a submission  *)
(* of a reset form. Expiry only takes steps away, and is left out.         *)
(***************************************************************************)
EXTENDS Integers, FiniteSets

CONSTANTS
  Users,      \* portal accounts, one per firm and e-mail
  Shareable,  \* matters that may be shared
  Invites,    \* invitation tokens
  Resets,     \* recovery requests and the tokens they create
  Submits,    \* submissions of the reset form
  Logins,     \* login attempts and the sessions they create
  None,       \* no password, account or token
  MaxToggles  \* bound: how many times accounts are reactivated

ASSUME PortalAssumptions ==
  /\ None \notin Users \cup Invites \cup Resets \cup Submits
  /\ Invites \cap Submits = {}
  /\ MaxToggles \in Nat

VARIABLES
  hash,      \* portal_users.password_hash
  active,    \* accounts with portal_users.active
  access,    \* portal_access: the matters an account sees
  invite,    \* invitation tokens: new, live, accepted or gone
  invitee,   \* the account an invitation is for
  offered,   \* the matters an invitation was created with
  reset,     \* recovery requests: new, locking, live, used, void or refused
  resetOf,   \* the account of a recovery request
  unused,    \* the unused tokens the request's UPDATE saw
  submit,    \* submissions: new, holding (the token's row), done or refused
  token,     \* the token of a submission
  before,    \* the sessions that existed when the submission began
  session,   \* logins: new, checked (credential read), live or gone
  account,   \* the account of a login
  used,      \* the password a login was checked against
  revoking,  \* accounts deactivated by a request that has yet to delete sessions
  toggles,   \* bound: how many reactivations happened
  admitted,  \* history: the invitation whose acceptance opened the account
  ended,     \* history: logins a reset or a revocation should have ended
  raced      \* history: logins that were in flight then, or kept by a crash

accounts    == <<hash, active, access, admitted>>
invitations == <<invite, invitee, offered>>
recovery    == <<reset, resetOf, unused, submit, token, before>>
sessions    == <<session, account, used>>
bookkeeping == <<revoking, toggles, ended, raced>>
vars        == <<accounts, invitations, recovery, sessions, bookkeeping>>

\* A recovery request holds the row of p.
UserLocked(p) == \E t \in Resets : reset[t] = "locking" /\ resetOf[t] = p

\* A submission holds the row of token t.
TokenLocked(t) == \E x \in Submits : submit[x] = "holding" /\ token[x] = t

SessionsOf(p) == {s \in Logins : account[s] = p /\ session[s] = "live"}
CheckedOf(p)  == {s \in Logins : account[s] = p /\ session[s] = "checked"}

Init ==
  /\ hash     = [p \in Users |-> None]
  /\ active   = {}
  /\ access   = [p \in Users |-> {}]
  /\ invite   = [i \in Invites |-> "new"]
  /\ invitee  = [i \in Invites |-> None]
  /\ offered  = [i \in Invites |-> {}]
  /\ reset    = [t \in Resets |-> "new"]
  /\ resetOf  = [t \in Resets |-> None]
  /\ unused   = [t \in Resets |-> {}]
  /\ submit   = [x \in Submits |-> "new"]
  /\ token    = [x \in Submits |-> None]
  /\ before   = [x \in Submits |-> {}]
  /\ session  = [s \in Logins |-> "new"]
  /\ account  = [s \in Logins |-> None]
  /\ used     = [s \in Logins |-> None]
  /\ revoking = {}
  /\ toggles  = 0
  /\ admitted = [p \in Users |-> None]
  /\ ended    = {}
  /\ raced    = {}

-----------------------------------------------------------------------------
\* Invitations.

\* Variant: ON CONFLICT DO UPDATE without its WHERE.
AnyoneMayBeInvited(p) == p \in Users

MayBeInvited(p) == hash[p] = None /\ p \notin active

\* Variant: earlier invitations are not deleted.
EarlierKept(p)    == {}
EarlierInvites(p) == {i \in Invites : invitee[i] = p /\ invite[i] = "live"}

\* CreatePortalInvitation: the account is created or reused, earlier unaccepted
\* invitations and all access are replaced.
CreatePortalInvitation(i, p) ==
  /\ invite[i] = "new"
  /\ MayBeInvited(p)
  /\ ~UserLocked(p)
  /\ \E shared \in SUBSET Shareable \ {{}} :
       /\ access'  = [access EXCEPT ![p] = shared]
       /\ offered' = [offered EXCEPT ![i] = shared]
  /\ invite'  = [l \in Invites |-> IF l = i THEN "live"
                                   ELSE IF l \in EarlierInvites(p) THEN "gone"
                                   ELSE invite[l]]
  /\ invitee' = [invitee EXCEPT ![i] = p]
  /\ UNCHANGED <<hash, active, admitted, recovery, sessions, bookkeeping>>

\* AcceptPortalInvitation: only the token is looked at, not the account.
AcceptPortalInvitation(i) ==
  LET p == invitee[i] IN
  /\ invite[i] = "live"
  /\ ~UserLocked(p)
  /\ hash'     = [hash EXCEPT ![p] = i]
  /\ active'   = active \cup {p}
  /\ admitted' = [admitted EXCEPT ![p] = i]
  /\ invite'   = [l \in Invites |-> IF l = i THEN "accepted"
                                    ELSE IF invitee[l] = p /\ invite[l] = "live" THEN "gone"
                                    ELSE invite[l]]
  /\ UNCHANGED <<access, invitee, offered, recovery, sessions, bookkeeping>>

-----------------------------------------------------------------------------
\* Password recovery.

\* Variant: the account is read without FOR UPDATE.
NobodyHolds(p) == p \in Users

MayLockUser(p) == ~UserLocked(p)

\* CreatePortalPasswordReset takes the account's row and marks its unused
\* tokens, as far as its UPDATE sees them.
LockForReset(t, p) ==
  /\ reset[t] = "new"
  /\ p \in active /\ hash[p] # None
  /\ MayLockUser(p)
  /\ reset'   = [reset EXCEPT ![t] = "locking"]
  /\ resetOf' = [resetOf EXCEPT ![t] = p]
  /\ unused'  = [unused EXCEPT ![t] = {u \in Resets : resetOf[u] = p /\ reset[u] = "live"}]
  /\ UNCHANGED <<accounts, invitations, submit, token, before, sessions, bookkeeping>>

\* ... inserts the new token and commits. It waits for submissions that hold
\* the row of a token it marks.
CreateReset(t) ==
  /\ reset[t] = "locking"
  /\ \A u \in unused[t] : ~TokenLocked(u)
  /\ reset' = [u \in Resets |-> IF u = t THEN "live"
                                ELSE IF u \in unused[t] THEN "void" ELSE reset[u]]
  /\ UNCHANGED <<accounts, invitations, resetOf, unused, submit, token, before,
                 sessions, bookkeeping>>

AbortReset(t) ==
  /\ reset[t] = "locking"
  /\ reset' = [reset EXCEPT ![t] = "refused"]
  /\ UNCHANGED <<accounts, invitations, resetOf, unused, submit, token, before,
                 sessions, bookkeeping>>

\* ResetPortalPassword finds an unused token of an active account and takes the
\* token's row.
BeginSubmit(x, t) ==
  /\ submit[x] = "new"
  /\ reset[t] = "live" /\ resetOf[t] \in active
  /\ ~TokenLocked(t)
  /\ submit' = [submit EXCEPT ![x] = "holding"]
  /\ token'  = [token EXCEPT ![x] = t]
  /\ before' = [before EXCEPT ![x] = SessionsOf(resetOf[t])]
  /\ UNCHANGED <<accounts, invitations, reset, resetOf, unused, sessions, bookkeeping>>

\* Variants: the token is stored as the password; no session is deleted.
TokenAsHash(x) == token[x]
NewHash(x)     == x

NothingDeleted(x, p) == {{}}

\* What the DELETE may have seen: the sessions from before the transaction, and
\* perhaps some that were inserted meanwhile.
Deletable(x, p) == {gone \in SUBSET SessionsOf(p) : before[x] \cap SessionsOf(p) \subseteq gone}

\* ... takes the account's row, sets the password and commits.
CommitSubmit(x) ==
  LET p == resetOf[token[x]] IN
  /\ submit[x] = "holding"
  /\ ~UserLocked(p)
  /\ submit'  = [submit EXCEPT ![x] = "done"]
  /\ hash'    = [hash EXCEPT ![p] = NewHash(x)]
  /\ reset'   = [reset EXCEPT ![token[x]] = "used"]
  /\ \E gone \in Deletable(x, p) :
       session' = [s \in Logins |-> IF s \in gone THEN "gone" ELSE session[s]]
  /\ ended'   = ended \cup SessionsOf(p) \cup CheckedOf(p)
  /\ raced'   = raced \cup CheckedOf(p) \cup (SessionsOf(p) \ before[x])
  /\ UNCHANGED <<active, access, admitted, invitations, resetOf, unused, token, before,
                 account, used, revoking, toggles>>

AbortSubmit(x) ==
  /\ submit[x] = "holding"
  /\ submit' = [submit EXCEPT ![x] = "refused"]
  /\ UNCHANGED <<accounts, invitations, reset, resetOf, unused, token, before,
                 sessions, bookkeeping>>

-----------------------------------------------------------------------------
\* Logins and revocation.

\* PortalLogin reads the credential of an active account; the password matches.
CheckCredentials(s, p) ==
  /\ session[s] = "new"
  /\ p \in active /\ hash[p] # None
  /\ session' = [session EXCEPT ![s] = "checked"]
  /\ account' = [account EXCEPT ![s] = p]
  /\ used'    = [used EXCEPT ![s] = hash[p]]
  /\ UNCHANGED <<accounts, invitations, recovery, bookkeeping>>

\* ... and inserts the session, whatever became of the account since; only the
\* foreign key makes it wait for a request that holds the account's row.
CreatePortalSession(s) ==
  /\ session[s] = "checked"
  /\ ~UserLocked(account[s])
  /\ session' = [session EXCEPT ![s] = "live"]
  /\ UNCHANGED <<accounts, invitations, recovery, account, used, bookkeeping>>

PortalLogout(s) ==
  /\ session[s] = "live"
  /\ session' = [session EXCEPT ![s] = "gone"]
  /\ UNCHANGED <<accounts, invitations, recovery, account, used, bookkeeping>>

\* SetPortalUserActive(false): the first statement.
Revoke(p) ==
  /\ \E i \in Invites : invitee[i] = p
  /\ p \notin revoking
  /\ ~UserLocked(p)
  /\ active'   = active \ {p}
  /\ revoking' = revoking \cup {p}
  /\ ended'    = ended \cup SessionsOf(p) \cup CheckedOf(p)
  /\ raced'    = raced \cup CheckedOf(p)
  /\ UNCHANGED <<hash, access, admitted, invitations, recovery, sessions, toggles>>

\* The second statement, of a transaction of its own.
DeleteSessions(p) ==
  /\ p \in revoking
  /\ revoking' = revoking \ {p}
  /\ session'  = [s \in Logins |-> IF s \in SessionsOf(p) THEN "gone" ELSE session[s]]
  /\ UNCHANGED <<accounts, invitations, recovery, account, used, toggles, ended, raced>>

\* The process dies, or the request is cancelled, between the two.
RevokeCut(p) ==
  /\ p \in revoking
  /\ revoking' = revoking \ {p}
  /\ raced'    = raced \cup SessionsOf(p)
  /\ UNCHANGED <<accounts, invitations, recovery, sessions, toggles, ended>>

\* SetPortalUserActive(true).
Reactivate(p) ==
  /\ toggles < MaxToggles
  /\ p \notin active /\ hash[p] # None
  /\ ~UserLocked(p)
  /\ active'  = active \cup {p}
  /\ toggles' = toggles + 1
  /\ UNCHANGED <<hash, access, admitted, invitations, recovery, sessions,
                 revoking, ended, raced>>

Next ==
  \/ \E p \in Users :
       \/ Revoke(p) \/ DeleteSessions(p) \/ RevokeCut(p) \/ Reactivate(p)
       \/ \E i \in Invites : CreatePortalInvitation(i, p)
       \/ \E t \in Resets : LockForReset(t, p)
       \/ \E s \in Logins : CheckCredentials(s, p)
  \/ \E i \in Invites : AcceptPortalInvitation(i)
  \/ \E t \in Resets :
       \/ CreateReset(t) \/ AbortReset(t)
       \/ \E x \in Submits : BeginSubmit(x, t)
  \/ \E x \in Submits : CommitSubmit(x) \/ AbortSubmit(x)
  \/ \E s \in Logins : CreatePortalSession(s) \/ PortalLogout(s)

Spec == Init /\ [][Next]_vars

-----------------------------------------------------------------------------
\* Every variable stays in its range.
TypeOK ==
  /\ hash     \in [Users -> Invites \cup Submits \cup {None}]
  /\ active   \subseteq Users
  /\ access   \in [Users -> SUBSET Shareable]
  /\ invite   \in [Invites -> {"new", "live", "accepted", "gone"}]
  /\ invitee  \in [Invites -> Users \cup {None}]
  /\ offered  \in [Invites -> SUBSET Shareable]
  /\ reset    \in [Resets -> {"new", "locking", "live", "used", "void", "refused"}]
  /\ resetOf  \in [Resets -> Users \cup {None}]
  /\ unused   \in [Resets -> SUBSET Resets]
  /\ submit   \in [Submits -> {"new", "holding", "done", "refused"}]
  /\ token    \in [Submits -> Resets \cup {None}]
  /\ before   \in [Submits -> SUBSET Logins]
  /\ session  \in [Logins -> {"new", "checked", "live", "gone"}]
  /\ account  \in [Logins -> Users \cup {None}]
  /\ used     \in [Logins -> Invites \cup Submits \cup {None}]
  /\ revoking \subseteq Users
  /\ toggles  \in 0..MaxToggles
  /\ admitted \in [Users -> Invites \cup {None}]
  /\ ended    \subseteq Logins
  /\ raced    \subseteq Logins

\* PortalBySession finds the session: it exists and its account is active.
Usable(s) == session[s] = "live" /\ account[s] \in active

\* "an active credential cannot be silently replaced" (docs/portal.md): once an
\* account has a password, only a submission of the reset form changes it. That
\* acceptance looks at the token alone makes this depend on the invitation's
\* guard, on the deletion of earlier invitations and on their order.
CredentialNotReplaced ==
  [][\A p \in Users : hash[p] # None /\ hash'[p] # hash[p] => hash'[p] \in Submits]_vars

\* An account sees exactly the matters of the invitation that was accepted,
\* however often it was invited before with other matters.
AccessAsAccepted ==
  \A p \in Users : /\ hash[p] # None => access[p] = offered[admitted[p]]
                   /\ p \in active => hash[p] # None

\* Recovery requests that race leave at most one token that still works.
OneLiveReset ==
  \A t, u \in Resets : reset[t] = "live" /\ reset[u] = "live" /\ resetOf[t] = resetOf[u]
    => t = u

\* A session that a reset or a revocation should have ended works afterwards,
\* also after a reactivation, only if its login was in flight at that moment,
\* the revocation was cut short, or it has yet to delete the sessions.
OnlyRacesSurvive == \A s \in ended : Usable(s) => s \in raced \/ account[s] \in revoking

\* "A successful reset revokes every portal session" (docs/portal.md:13).
EndedSessionsStayEnded == \A s \in ended : ~Usable(s)

=============================================================================
