--------------------------- MODULE IdentitiesProofs ---------------------------
(***************************************************************************)
(* The identities of the portal and of the firm: theorems about Portal and *)
(* Staff, for any number of accounts, tokens, requests and logins; and the *)
(* office they share a run with the matters in.                            *)
(*                                                                         *)
(* Portal: the invariant PInv speaks of what is pending for an account. An *)
(* open invitation is the only one, and its account has no password yet; a *)
(* recovery request that holds the row of an account knows every token     *)
(* that works; a session that should have ended is one the code races with.*)
(* Marked says that links a request marked cannot be spent meanwhile, from *)
(* which no link works twice.                                              *)
(*                                                                         *)
(* Staff: the invariant FInv says that a request judged while nobody else  *)
(* was between judgement and write finds what it was judged by, that a     *)
(* transaction alone in its DELETE sees the roles as they are, and which   *)
(* logins the end of sessions can miss.                                    *)
(***************************************************************************)
EXTENDS MCOffice, MattersProofs, TLAPS

-----------------------------------------------------------------------------
\* Portal.

\* A token, a login or a submission in use belongs to an account with a password.
Owned ==
  /\ \A i \in Invites : invite[i] = "live" => invitee[i] \in Users
  /\ \A t \in Resets : reset[t] \in {"locking", "live"} => resetOf[t] \in Users /\ hash[resetOf[t]] # None
  /\ \A x \in Submits : submit[x] = "holding" => token[x] \in Resets /\ reset[token[x]] = "live"
  /\ \A s \in Logins : session[s] \in {"checked", "live"} => account[s] \in Users

\* An invitation that may be accepted is the only one of an account without password,
\* and offers what the account sees.
Invited ==
  /\ \A i \in Invites : invite[i] = "live" =>
       /\ hash[invitee[i]] = None
       /\ access[invitee[i]] = offered[i]
       /\ \A l \in Invites : invite[l] = "live" /\ invitee[l] = invitee[i] => l = i
  /\ \A p \in Users : hash[p] # None => admitted[p] \in Invites /\ invite[admitted[p]] = "accepted"

\* One request holds the row of an account and one submission that of a token; the
\* request has seen every token of the account that works.
Locked ==
  /\ \A t, u \in Resets :
       reset[t] = "locking" /\ reset[u] \in {"locking", "live"} /\ resetOf[u] = resetOf[t] =>
         IF reset[u] = "live" THEN u \in unused[t] ELSE u = t
  /\ \A x, y \in Submits :
       submit[x] = "holding" /\ submit[y] = "holding" /\ token[x] = token[y] => x = y

\* A login that should have ended is over, raced, or has its deletion ahead.
Excused ==
  \A s \in ended :
    /\ session[s] # "new"
    /\ session[s] = "checked" => s \in raced
    /\ session[s] = "live" => s \in raced \/ account[s] \in revoking

PInv == TypeOK /\ Owned /\ Invited /\ AccessAsAccepted /\ Locked /\ OneLiveReset /\ Excused

USE PortalAssumptions DEF PortalAssumptions

\* The initial states satisfy the invariant.
LEMMA InitPInv == Init => PInv
<1> SUFFICES ASSUME Init PROVE PInv
  OBVIOUS
<1>1. TypeOK
  BY DEF Init, TypeOK
<1>2. Owned /\ Invited /\ AccessAsAccepted
  BY DEF Init, Owned, Invited, AccessAsAccepted
<1>3. Locked /\ OneLiveReset /\ Excused
  BY DEF Init, Locked, OneLiveReset, Excused
<1> QED
  BY <1>1, <1>2, <1>3 DEF PInv

\* What a step that leaves the accounts' passwords and the invitations alone keeps.
LEMMA InvitationsKept ==
  ASSUME PInv, UNCHANGED <<hash, access, admitted, invitations>>, active' \subseteq active
  PROVE  Invited' /\ AccessAsAccepted'
<1>1. Invited'
  BY DEF PInv, Invited, invitations
<1>2. AccessAsAccepted'
  BY DEF PInv, AccessAsAccepted, invitations
<1> QED
  BY <1>1, <1>2

\* What a step that leaves the recovery alone keeps.
LEMMA RecoveryKept ==
  ASSUME PInv, UNCHANGED recovery
  PROVE  Locked' /\ OneLiveReset'
<1> QED
  BY DEF PInv, Locked, OneLiveReset, recovery

\* What a step that leaves the sessions alone, and ends no request, keeps.
LEMMA SessionsKeptAsIs ==
  ASSUME PInv, UNCHANGED <<sessions, revoking, ended, raced>>
  PROVE  Excused'
<1> QED
  BY DEF PInv, Excused, sessions

LEMMA InvitationKeepsPInv ==
  ASSUME PInv, NEW i \in Invites, NEW p \in Users, CreatePortalInvitation(i, p)
  PROVE  PInv'
<1> USE DEF CreatePortalInvitation, MayBeInvited, EarlierInvites
<1>1. TypeOK'
  <2>1. invite' \in [Invites -> {"new", "live", "accepted", "gone"}]
    BY DEF PInv, TypeOK
  <2>2. invitee' \in [Invites -> Users \cup {None}] /\ offered' \in [Invites -> SUBSET Shareable]
        /\ access' \in [Users -> SUBSET Shareable]
    BY DEF PInv, TypeOK
  <2> QED
    BY <2>1, <2>2 DEF PInv, TypeOK, recovery, sessions, bookkeeping
<1>2. Owned'
  BY DEF PInv, TypeOK, Owned, recovery, sessions
<1>3. Invited'
  <2>1. ASSUME NEW l \in Invites, invite'[l] = "live"
        PROVE  /\ hash'[invitee'[l]] = None /\ access'[invitee'[l]] = offered'[l]
               /\ \A k \in Invites : invite'[k] = "live" /\ invitee'[k] = invitee'[l] => k = l
    BY <2>1 DEF PInv, TypeOK, Owned, Invited
  <2>2. \A q \in Users : hash'[q] # None => admitted'[q] \in Invites /\ invite'[admitted'[q]] = "accepted"
    BY DEF PInv, TypeOK, Invited
  <2> QED
    BY <2>1, <2>2 DEF Invited
<1>4. AccessAsAccepted'
  BY DEF PInv, TypeOK, Invited, AccessAsAccepted
<1>5. Locked' /\ OneLiveReset' /\ Excused'
  BY RecoveryKept, SessionsKeptAsIs DEF bookkeeping
<1> QED
  BY <1>1, <1>2, <1>3, <1>4, <1>5 DEF PInv

LEMMA AcceptanceKeepsPInv ==
  ASSUME PInv, NEW i \in Invites, AcceptPortalInvitation(i)
  PROVE  PInv'
<1> DEFINE p == invitee[i]
<1> USE DEF AcceptPortalInvitation
<1>0. p \in Users /\ hash[p] = None /\ access[p] = offered[i]
  BY DEF PInv, Owned, Invited
<1>1. TypeOK'
  <2>1. invite' \in [Invites -> {"new", "live", "accepted", "gone"}]
    BY DEF PInv, TypeOK
  <2>2. hash' \in [Users -> Invites \cup Submits \cup {None}] /\ active' \subseteq Users
        /\ admitted' \in [Users -> Invites \cup {None}]
    BY <1>0 DEF PInv, TypeOK
  <2> QED
    BY <2>1, <2>2 DEF PInv, TypeOK, recovery, sessions, bookkeeping
<1>2. Owned'
  BY <1>0 DEF PInv, TypeOK, Owned, recovery, sessions
<1>3. Invited'
  <2>1. ASSUME NEW l \in Invites, invite'[l] = "live"
        PROVE  /\ hash'[invitee'[l]] = None /\ access'[invitee'[l]] = offered'[l]
               /\ \A k \in Invites : invite'[k] = "live" /\ invitee'[k] = invitee'[l] => k = l
    <3>1. invite[l] = "live" /\ invitee[l] # p /\ invitee[l] \in Users
      BY <2>1 DEF PInv, TypeOK, Owned
    <3> QED
      BY <1>0, <2>1, <3>1 DEF PInv, TypeOK, Invited
  <2>2. \A q \in Users : hash'[q] # None => admitted'[q] \in Invites /\ invite'[admitted'[q]] = "accepted"
    BY <1>0 DEF PInv, TypeOK, Invited
  <2> QED
    BY <2>1, <2>2 DEF Invited
<1>4. AccessAsAccepted'
  BY <1>0 DEF PInv, TypeOK, Invited, AccessAsAccepted
<1>5. Locked' /\ OneLiveReset' /\ Excused'
  BY RecoveryKept, SessionsKeptAsIs DEF bookkeeping
<1> QED
  BY <1>1, <1>2, <1>3, <1>4, <1>5 DEF PInv

LEMMA LockKeepsPInv ==
  ASSUME PInv, NEW t \in Resets, NEW p \in Users, LockForReset(t, p)
  PROVE  PInv'
<1> USE DEF LockForReset, MayLockUser, UserLocked
<1>1. TypeOK'
  <2>1. reset' \in [Resets -> {"new", "locking", "live", "used", "void", "refused"}]
        /\ resetOf' \in [Resets -> Users \cup {None}]
    BY DEF PInv, TypeOK
  <2>2. unused' \in [Resets -> SUBSET Resets]
    BY DEF PInv, TypeOK
  <2> QED
    BY <2>1, <2>2 DEF PInv, TypeOK, accounts, invitations, sessions, bookkeeping
<1>2. Owned'
  BY DEF PInv, TypeOK, Owned, accounts, invitations, sessions
<1>3. Invited' /\ AccessAsAccepted'
  BY InvitationsKept DEF accounts
<1>4. Locked'
  <2>1. \A u, v \in Resets :
          reset'[u] = "locking" /\ reset'[v] \in {"locking", "live"} /\ resetOf'[v] = resetOf'[u] =>
            IF reset'[v] = "live" THEN v \in unused'[u] ELSE v = u
    BY DEF PInv, TypeOK, Locked
  <2> QED
    BY <2>1 DEF PInv, Locked
<1>5. OneLiveReset'
  BY DEF PInv, TypeOK, OneLiveReset
<1>6. Excused'
  BY SessionsKeptAsIs DEF bookkeeping
<1> QED
  BY <1>1, <1>2, <1>3, <1>4, <1>5, <1>6 DEF PInv

LEMMA ResetKeepsPInv ==
  ASSUME PInv, NEW t \in Resets, CreateReset(t) \/ AbortReset(t)
  PROVE  PInv'
<1>1. TypeOK'
  BY DEF PInv, TypeOK, CreateReset, AbortReset, accounts, invitations, sessions, bookkeeping
<1>2. Owned'
  BY DEF PInv, TypeOK, Owned, CreateReset, AbortReset, TokenLocked, accounts, invitations, sessions
<1>3. Invited' /\ AccessAsAccepted'
  BY InvitationsKept DEF CreateReset, AbortReset, accounts
<1>4. Locked' /\ OneLiveReset'
  <2>1. CASE CreateReset(t)
    <3>1. \A u, v \in Resets :
            reset'[u] = "locking" /\ reset'[v] \in {"locking", "live"} /\ resetOf'[v] = resetOf'[u] =>
              IF reset'[v] = "live" THEN v \in unused'[u] ELSE v = u
      BY <2>1 DEF CreateReset, PInv, TypeOK, Locked
    <3>2. OneLiveReset'
      BY <2>1 DEF CreateReset, PInv, TypeOK, Locked, OneLiveReset
    <3> QED
      BY <2>1, <3>1, <3>2 DEF CreateReset, PInv, Locked
  <2>2. CASE AbortReset(t)
    BY <2>2 DEF AbortReset, PInv, TypeOK, Locked, OneLiveReset
  <2> QED
    BY <2>1, <2>2
<1>5. Excused'
  BY SessionsKeptAsIs DEF CreateReset, AbortReset, bookkeeping
<1> QED
  BY <1>1, <1>2, <1>3, <1>4, <1>5 DEF PInv

LEMMA SubmissionKeepsPInv ==
  ASSUME PInv, NEW x \in Submits, AbortSubmit(x) \/ \E t \in Resets : BeginSubmit(x, t)
  PROVE  PInv'
<1> USE DEF BeginSubmit, AbortSubmit
<1>1. TypeOK'
  BY DEF PInv, TypeOK, SessionsOf, accounts, invitations, sessions, bookkeeping
<1>2. Owned'
  BY DEF PInv, TypeOK, Owned, accounts, invitations, sessions
<1>3. Invited' /\ AccessAsAccepted'
  BY InvitationsKept DEF accounts
<1>4. Locked' /\ OneLiveReset'
  BY DEF PInv, TypeOK, Locked, OneLiveReset, TokenLocked
<1>5. Excused'
  BY SessionsKeptAsIs DEF bookkeeping
<1> QED
  BY <1>1, <1>2, <1>3, <1>4, <1>5 DEF PInv

LEMMA NewPasswordKeepsPInv ==
  ASSUME PInv, NEW x \in Submits, CommitSubmit(x)
  PROVE  PInv'
<1> DEFINE p == resetOf[token[x]]
<1> USE DEF CommitSubmit, NewHash
<1>0. /\ token[x] \in Resets /\ reset[token[x]] = "live"
      /\ p \in Users /\ hash[p] # None
      /\ submit[x] = "holding"
  BY DEF PInv, Owned
<1>a. /\ reset' = [reset EXCEPT ![token[x]] = "used"] /\ hash' = [hash EXCEPT ![p] = x]
      /\ UNCHANGED <<account, used, revoking>>
      /\ ended' = ended \cup SessionsOf(p) \cup CheckedOf(p)
      /\ raced' = raced \cup CheckedOf(p) \cup (SessionsOf(p) \ before[x])
  OBVIOUS
<1>b. PICK gone \in Deletable(x, p) : session' = [s \in Logins |-> IF s \in gone THEN "gone" ELSE session[s]]
  OBVIOUS
<1>c. gone \subseteq SessionsOf(p) /\ before[x] \cap SessionsOf(p) \subseteq gone
  BY <1>b DEF Deletable
<1>1. TypeOK'
  <2>1. session' \in [Logins -> {"new", "checked", "live", "gone"}]
    BY <1>b DEF PInv, TypeOK
  <2>2. hash' \in [Users -> Invites \cup Submits \cup {None}]
        /\ submit' \in [Submits -> {"new", "holding", "done", "refused"}]
        /\ reset' \in [Resets -> {"new", "locking", "live", "used", "void", "refused"}]
    BY <1>0 DEF PInv, TypeOK
  <2>3. ended' \subseteq Logins /\ raced' \subseteq Logins
    BY DEF PInv, TypeOK, SessionsOf, CheckedOf
  <2> QED
    BY <2>1, <2>2, <2>3 DEF PInv, TypeOK, invitations
<1>2. Owned'
  <2>1. \A i \in Invites : invite'[i] = "live" => invitee'[i] \in Users
    BY DEF PInv, Owned, invitations
  <2>2. \A t \in Resets : reset'[t] \in {"locking", "live"} => resetOf'[t] \in Users /\ hash'[resetOf'[t]] # None
    BY <1>0, <1>a DEF PInv, TypeOK, Owned
  <2>3. \A y \in Submits : submit'[y] = "holding" => token'[y] \in Resets /\ reset'[token'[y]] = "live"
    BY <1>0 DEF PInv, TypeOK, Owned, Locked
  <2>4. \A s \in Logins : session'[s] \in {"checked", "live"} => account'[s] \in Users
    BY <1>b DEF PInv, TypeOK, Owned
  <2> QED
    BY <2>1, <2>2, <2>3, <2>4 DEF Owned
<1>3. Invited' /\ AccessAsAccepted'
  BY <1>0 DEF PInv, TypeOK, Invited, AccessAsAccepted, invitations
<1>4. Locked' /\ OneLiveReset'
  BY <1>0 DEF PInv, TypeOK, Locked, OneLiveReset
<1>5. Excused'
  <2> SUFFICES ASSUME NEW s \in ended'
               PROVE  /\ session'[s] # "new"
                      /\ session'[s] = "checked" => s \in raced'
                      /\ session'[s] = "live" => s \in raced' \/ account'[s] \in revoking'
    BY DEF Excused
  <2>1. CASE s \in ended
    BY <2>1, <1>a, <1>b DEF PInv, TypeOK, Excused
  <2>2. CASE s \in SessionsOf(p)
    BY <2>2, <1>a, <1>b, <1>c DEF SessionsOf
  <2>3. CASE s \in CheckedOf(p)
    BY <2>3, <1>a, <1>b DEF CheckedOf
  <2> QED
    BY <1>a, <2>1, <2>2, <2>3
<1> QED
  BY <1>1, <1>2, <1>3, <1>4, <1>5 DEF PInv

LEMMA LoginKeepsPInv ==
  ASSUME PInv, NEW s \in Logins,
         CreatePortalSession(s) \/ PortalLogout(s) \/ \E p \in Users : CheckCredentials(s, p)
  PROVE  PInv'
<1> USE DEF CreatePortalSession, PortalLogout, CheckCredentials
<1>1. TypeOK'
  BY DEF PInv, TypeOK, accounts, invitations, recovery, bookkeeping
<1>2. Owned'
  BY DEF PInv, TypeOK, Owned, accounts, invitations, recovery
<1>3. Invited' /\ AccessAsAccepted' /\ Locked' /\ OneLiveReset'
  BY InvitationsKept, RecoveryKept DEF accounts
<1>4. Excused'
  BY DEF PInv, TypeOK, Excused, bookkeeping
<1> QED
  BY <1>1, <1>2, <1>3, <1>4 DEF PInv

LEMMA RevocationKeepsPInv ==
  ASSUME PInv, NEW p \in Users, Revoke(p) \/ DeleteSessions(p) \/ RevokeCut(p)
  PROVE  PInv'
<1> USE DEF Revoke, DeleteSessions, RevokeCut
<1>1. TypeOK'
  BY DEF PInv, TypeOK, SessionsOf, CheckedOf, accounts, invitations, recovery, sessions
<1>2. Owned'
  BY DEF PInv, TypeOK, Owned, SessionsOf, accounts, invitations, recovery, sessions
<1>3. Invited' /\ AccessAsAccepted' /\ Locked' /\ OneLiveReset'
  BY InvitationsKept, RecoveryKept DEF accounts
<1>4. Excused'
  BY DEF PInv, TypeOK, Excused, SessionsOf, CheckedOf, sessions
<1> QED
  BY <1>1, <1>2, <1>3, <1>4 DEF PInv

LEMMA ReactivationKeepsPInv ==
  ASSUME PInv, NEW p \in Users, Reactivate(p)
  PROVE  PInv'
<1> USE DEF Reactivate
<1>1. TypeOK'
  BY DEF PInv, TypeOK, invitations, recovery, sessions
<1>2. Owned'
  BY DEF PInv, Owned, invitations, recovery, sessions
<1>3. Invited' /\ AccessAsAccepted'
  BY DEF PInv, Invited, AccessAsAccepted, invitations
<1>4. Locked' /\ OneLiveReset' /\ Excused'
  BY RecoveryKept, SessionsKeptAsIs
<1> QED
  BY <1>1, <1>2, <1>3, <1>4 DEF PInv

LEMMA NextPInv == PInv /\ [Next]_vars => PInv'
<1> SUFFICES ASSUME PInv, [Next]_vars PROVE PInv'
  OBVIOUS
<1>1. CASE UNCHANGED vars
  <2>1. TypeOK' /\ Owned'
    BY <1>1 DEF vars, accounts, invitations, recovery, sessions, bookkeeping, PInv, TypeOK, Owned
  <2>2. Invited' /\ AccessAsAccepted' /\ Locked' /\ OneLiveReset' /\ Excused'
    BY <1>1, InvitationsKept, RecoveryKept, SessionsKeptAsIs DEF vars, accounts, bookkeeping
  <2> QED
    BY <2>1, <2>2 DEF PInv
<1>2. CASE Next
  BY <1>2, InvitationKeepsPInv, AcceptanceKeepsPInv, LockKeepsPInv, ResetKeepsPInv, SubmissionKeepsPInv,
     NewPasswordKeepsPInv, LoginKeepsPInv, RevocationKeepsPInv, ReactivationKeepsPInv DEF Next
<1> QED
  BY <1>1, <1>2

\* The invariant holds in every behaviour.
LEMMA PInvHolds == Spec => []PInv
<1> QED
  BY InitPInv, NextPInv, PTL DEF Spec

\* Every variable of Portal stays in its type.
THEOREM PortalTypes == Spec => []TypeOK
<1>1. PInv => TypeOK
  BY DEF PInv
<1> QED
  BY <1>1, PInvHolds, PTL

\* AcceptPortalInvitation and ResetPortalPassword (admin.go): an account that has a
\* password gets another one only by a submission of the reset form. Acceptance does
\* not look at the account; that no open invitation finds a password does it.
THEOREM OnlyResetsReplace == Spec => CredentialNotReplaced
<1>1. ASSUME PInv, [Next]_vars
      PROVE  [\A p \in Users : hash[p] # None /\ hash'[p] # hash[p] => hash'[p] \in Submits]_vars
  <2> SUFFICES ASSUME Next, NEW p \in Users, hash[p] # None, hash'[p] # hash[p]
               PROVE  hash'[p] \in Submits
    BY <1>1
  <2>1. ASSUME NEW i \in Invites, AcceptPortalInvitation(i) PROVE FALSE
    BY <1>1, <2>1 DEF AcceptPortalInvitation, PInv, TypeOK, Owned, Invited
  <2>2. ASSUME NEW x \in Submits, CommitSubmit(x) PROVE hash'[p] \in Submits
    BY <1>1, <2>2 DEF CommitSubmit, NewHash, PInv, TypeOK
  <2>3. \/ \E i \in Invites : AcceptPortalInvitation(i)
        \/ \E x \in Submits : CommitSubmit(x)
        \/ UNCHANGED hash
    BY DEF Next, Revoke, DeleteSessions, RevokeCut, Reactivate, CreatePortalInvitation, LockForReset,
       CheckCredentials, CreateReset, AbortReset, BeginSubmit, AbortSubmit, CreatePortalSession, PortalLogout, accounts
  <2> QED
    BY <2>1, <2>2, <2>3
<1> QED
  BY <1>1, PInvHolds, PTL DEF Spec, CredentialNotReplaced

\* A recovery request that holds an account has marked links of that account which
\* nobody can spend meanwhile.
Marked ==
  \A t, u \in Resets : reset[t] = "locking" /\ u \in unused[t] =>
    reset[u] = "live" /\ resetOf[u] = resetOf[t]

\* The initial states satisfy Marked: no request holds an account.
LEMMA InitMarked == Init => Marked
<1> QED
  BY DEF Init, Marked

\* A submission waits for the account, and a second request for the first.
LEMMA NextMarked == PInv /\ Marked /\ [Next]_vars => Marked'
<1> SUFFICES ASSUME PInv, Marked, [Next]_vars PROVE Marked'
  OBVIOUS
<1> USE DEF PInv
<1>1. ASSUME NEW t \in Resets, NEW p \in Users, LockForReset(t, p) PROVE Marked'
  <2>1. \A u \in unused'[t] : u \in Resets /\ u # t /\ resetOf[u] = p /\ reset[u] = "live"
    BY <1>1 DEF LockForReset, TypeOK
  <2>2. /\ reset' = [reset EXCEPT ![t] = "locking"] /\ resetOf' = [resetOf EXCEPT ![t] = p]
        /\ \A u \in Resets \ {t} : unused'[u] = unused[u]
        /\ reset[t] = "new"
    BY <1>1 DEF LockForReset, TypeOK
  <2> QED
    BY <2>1, <2>2 DEF Marked, TypeOK
<1>2. ASSUME NEW t \in Resets, CreateReset(t) PROVE Marked'
  <2>1. /\ reset' = [u \in Resets |-> IF u = t THEN "live"
                                      ELSE IF u \in unused[t] THEN "void" ELSE reset[u]]
        /\ reset[t] = "locking" /\ UNCHANGED <<resetOf, unused>>
    BY <1>2 DEF CreateReset
  <2> SUFFICES ASSUME NEW v \in Resets, NEW u \in Resets, reset'[v] = "locking", u \in unused[v]
               PROVE  reset'[u] = "live" /\ resetOf[u] = resetOf[v]
    BY <2>1 DEF Marked
  <2>2. v # t /\ reset[v] = "locking"
    BY <2>1
  <2>3. reset[u] = "live" /\ resetOf[u] = resetOf[v]
    BY <2>2 DEF Marked
  <2>4. u \notin unused[t]
    BY <2>1, <2>2, <2>3 DEF Marked, Locked
  <2> QED
    BY <2>1, <2>3, <2>4
<1>3. ASSUME NEW t \in Resets, AbortReset(t) PROVE Marked'
  <2>1. reset' = [reset EXCEPT ![t] = "refused"] /\ reset[t] = "locking" /\ UNCHANGED <<resetOf, unused>>
    BY <1>3 DEF AbortReset
  <2> QED
    BY <2>1 DEF Marked, TypeOK
<1>4. ASSUME NEW x \in Submits, CommitSubmit(x) PROVE Marked'
  <2>1. /\ reset' = [reset EXCEPT ![token[x]] = "used"] /\ UNCHANGED <<resetOf, unused>>
        /\ ~UserLocked(resetOf[token[x]]) /\ token[x] \in Resets
    BY <1>4 DEF CommitSubmit, Owned
  <2> QED
    BY <2>1 DEF Marked, UserLocked, TypeOK
<1>5. CASE UNCHANGED <<reset, resetOf, unused>>
  BY <1>5 DEF Marked
<1> QED
  BY <1>1, <1>2, <1>3, <1>4, <1>5
  DEF Next, vars, accounts, invitations, recovery, AcceptPortalInvitation, Revoke, DeleteSessions,
      RevokeCut, Reactivate, CreatePortalInvitation, CheckCredentials, BeginSubmit, AbortSubmit,
      CreatePortalSession, PortalLogout

\* Marked holds in every behaviour.
LEMMA MarkedHolds == Spec => []Marked
<1> QED
  BY InitMarked, NextMarked, PInvHolds, PTL DEF Spec

\* A link that was used, replaced or withdrawn never works again.
SpentLinksStay ==
  [][/\ \A t \in Resets : reset[t] \in {"used", "void", "refused"} => reset'[t] = reset[t]
     /\ \A i \in Invites : invite[i] \in {"accepted", "gone"} => invite'[i] = invite[i]]_vars

\* Recovery and invitation (admin.go): each token works once at most, whatever requests
\* and submissions hold which row.
THEOREM LinksAreSpentOnce == Spec => SpentLinksStay
<1> DEFINE Step ==
      /\ \A t \in Resets : reset[t] \in {"used", "void", "refused"} => reset'[t] = reset[t]
      /\ \A i \in Invites : invite[i] \in {"accepted", "gone"} => invite'[i] = invite[i]
<1>1. ASSUME PInv, Marked, [Next]_vars PROVE Step
  <2> USE <1>1 DEF PInv
  <2>1. ASSUME NEW t \in Resets, reset[t] \in {"used", "void", "refused"} PROVE reset'[t] = reset[t]
    <3>1. ASSUME NEW u \in Resets, CreateReset(u) PROVE reset'[t] = reset[t]
      BY <2>1, <3>1 DEF CreateReset, Marked
    <3>2. ASSUME NEW x \in Submits, CommitSubmit(x) PROVE reset'[t] = reset[t]
      BY <2>1, <3>2 DEF CommitSubmit, Owned, TypeOK
    <3>3. ASSUME NEW u \in Resets, AbortReset(u) \/ \E p \in Users : LockForReset(u, p)
          PROVE  reset'[t] = reset[t]
      BY <2>1, <3>3 DEF AbortReset, LockForReset, TypeOK
    <3> QED
      BY <3>1, <3>2, <3>3
      DEF Next, vars, accounts, invitations, recovery, AcceptPortalInvitation, Revoke, DeleteSessions,
          RevokeCut, Reactivate, CreatePortalInvitation, CheckCredentials, BeginSubmit, AbortSubmit,
          CreatePortalSession, PortalLogout
  <2>2. ASSUME NEW i \in Invites, invite[i] \in {"accepted", "gone"} PROVE invite'[i] = invite[i]
    <3>1. ASSUME NEW j \in Invites, AcceptPortalInvitation(j) \/ \E p \in Users : CreatePortalInvitation(j, p)
          PROVE  invite'[i] = invite[i]
      BY <2>2, <3>1 DEF AcceptPortalInvitation, CreatePortalInvitation, EarlierInvites
    <3> QED
      BY <3>1
      DEF Next, vars, invitations, Revoke, DeleteSessions, RevokeCut, Reactivate, LockForReset,
          CreateReset, AbortReset, CommitSubmit, CheckCredentials, BeginSubmit, AbortSubmit,
          CreatePortalSession, PortalLogout
  <2> QED
    BY <2>1, <2>2
<1>2. Spec => [][Step]_vars
  BY <1>1, PInvHolds, MarkedHolds, PTL DEF Spec
<1> QED
  BY <1>2 DEF SpentLinksStay

\* A password is set by accepting an invitation of an account without one, or by a
\* recovery link of the account; either is spent by the same step.
PasswordsCostLinks ==
  [][\A p \in Users : hash'[p] # hash[p] =>
       \/ /\ hash[p] = None
          /\ \E i \in Invites : invitee[i] = p /\ invite[i] = "live" /\ invite'[i] = "accepted"
       \/ \E t \in Resets : resetOf[t] = p /\ reset[t] = "live" /\ reset'[t] = "used"]_vars

\* AcceptPortalInvitation and ResetPortalPassword (admin.go): with LinksAreSpentOnce, an
\* account's password changes no more often than links were sent to its address.
THEOREM EachPasswordCostsALink == Spec => PasswordsCostLinks
<1> DEFINE Step ==
      \A p \in Users : hash'[p] # hash[p] =>
        \/ /\ hash[p] = None
           /\ \E i \in Invites : invitee[i] = p /\ invite[i] = "live" /\ invite'[i] = "accepted"
        \/ \E t \in Resets : resetOf[t] = p /\ reset[t] = "live" /\ reset'[t] = "used"
<1>1. ASSUME PInv, [Next]_vars PROVE [Step]_vars
  <2> USE <1>1 DEF PInv
  <2> SUFFICES ASSUME NEW p \in Users, hash'[p] # hash[p]
               PROVE  \/ /\ hash[p] = None
                         /\ \E i \in Invites : invitee[i] = p /\ invite[i] = "live" /\ invite'[i] = "accepted"
                      \/ \E t \in Resets : resetOf[t] = p /\ reset[t] = "live" /\ reset'[t] = "used"
    OBVIOUS
  <2>1. \/ \E i \in Invites : AcceptPortalInvitation(i)
        \/ \E x \in Submits : CommitSubmit(x)
    BY DEF Next, vars, Revoke, DeleteSessions, RevokeCut, Reactivate, CreatePortalInvitation, LockForReset,
           CheckCredentials, CreateReset, AbortReset, BeginSubmit, AbortSubmit, CreatePortalSession,
           PortalLogout, accounts
  <2>2. ASSUME NEW i \in Invites, AcceptPortalInvitation(i)
        PROVE  hash[p] = None /\ invitee[i] = p /\ invite[i] = "live" /\ invite'[i] = "accepted"
    <3>1. invite[i] = "live" /\ hash[invitee[i]] = None /\ invitee[i] \in Users
      BY <2>2 DEF AcceptPortalInvitation, Owned, Invited
    <3>2. hash' = [hash EXCEPT ![invitee[i]] = i] /\ invite'[i] = "accepted"
      BY <2>2 DEF AcceptPortalInvitation
    <3>3. invitee[i] = p
      BY <3>2 DEF TypeOK
    <3> QED
      BY <3>1, <3>2, <3>3
  <2>3. ASSUME NEW x \in Submits, CommitSubmit(x)
        PROVE  \E t \in Resets : resetOf[t] = p /\ reset[t] = "live" /\ reset'[t] = "used"
    <3>1. token[x] \in Resets /\ reset[token[x]] = "live"
      BY <2>3 DEF CommitSubmit, Owned
    <3>2. hash' = [hash EXCEPT ![resetOf[token[x]]] = NewHash(x)] /\ reset'[token[x]] = "used"
      BY <2>3, <3>1 DEF CommitSubmit, TypeOK
    <3>3. resetOf[token[x]] = p
      BY <3>2 DEF TypeOK
    <3> QED
      BY <3>1, <3>2, <3>3
  <2> QED
    BY <2>1, <2>2, <2>3
<1>2. Spec => [][Step]_vars
  BY <1>1, PInvHolds, PTL DEF Spec
<1> QED
  BY <1>2 DEF PasswordsCostLinks

\* CreatePortalInvitation and AcceptPortalInvitation (admin.go): an account sees the
\* matters of the invitation that was accepted.
THEOREM AccessIsAccepted == Spec => []AccessAsAccepted
<1>1. PInv => AccessAsAccepted
  BY DEF PInv
<1> QED
  BY <1>1, PInvHolds, PTL

\* CreatePortalPasswordReset (admin.go): of the recovery links of an account one works.
THEOREM OneLinkWorks == Spec => []OneLiveReset
<1>1. PInv => OneLiveReset
  BY DEF PInv
<1> QED
  BY <1>1, PInvHolds, PTL

\* ResetPortalPassword and SetPortalUserActive (admin.go): a session survives a reset
\* or a revocation only if its login was in flight or the revocation is not through.
THEOREM OthersEnd == Spec => []OnlyRacesSurvive
<1>1. PInv => OnlyRacesSurvive
  BY DEF PInv, Excused, OnlyRacesSurvive, Usable
<1> QED
  BY <1>1, PInvHolds, PTL

-----------------------------------------------------------------------------
\* Staff.

\* Who is not there has no history, and a request under way is about someone who is.
Settled ==
  /\ \A u \in People \ created : password[u] = First /\ rolesOf[u] = {}
  /\ \A s \in Entries : entry[s] = "new" => checked[s] = First /\ s \notin expired
  /\ \A c \in Changes : change[c].stage \in {"judged", "verified", "stored", "again", "deleting", "emptied"} =>
       change[c].of \in created

\* What a request was judged by.
Justified(c) ==
  /\ change[c].op = "disable" => ~LastOwner(change[c].of)
  /\ change[c].op = "assign" => MayReplace(change[c].of, change[c].gives)

\* A request that was not crossed is the only one pending, and its judgement holds.
Alone ==
  \A c \in Changes \ crossed :
    Pending(c) => Justified(c) /\ \A d \in Changes : Pending(d) => d = c

Replacing(c) == change[c].op = "assign" /\ change[c].stage \in {"deleting", "emptied"}

\* A transaction that is the only one in its DELETE deletes the roles as they are.
Seen ==
  \A c \in Changes : Replacing(c) /\ change[c].of \notin mixed =>
    /\ change[c].rows = rolesOf[change[c].of]
    /\ Rivals(c) = {}

\* A login under way that should have ended was in flight when it should.
Inflight ==
  \A s \in Entries :
    entry[s] = "checked" /\ (s \in expired \/ checked[s] # password[person[s]]) => s \in spared

FInv == /\ StaffTypeOK /\ Settled /\ Alone
        /\ Seen /\ RolesMixedOnlyByOverlap
        /\ Inflight /\ SessionsOutliveOnlyRaces

USE StaffAssumptions DEF StaffAssumptions

\* The initial states satisfy the invariant.
LEMMA InitFInv == StaffInit => FInv
<1> SUFFICES ASSUME StaffInit PROVE FInv
  OBVIOUS
<1> USE DEF StaffInit, Idle, Asked
<1>1. StaffTypeOK
  BY DEF StaffTypeOK
<1>2. Settled /\ Alone
  BY DEF Settled, Alone, Pending
<1>3. Seen /\ RolesMixedOnlyByOverlap
  BY DEF Seen, Replacing, RolesMixedOnlyByOverlap
<1>4. Inflight /\ SessionsOutliveOnlyRaces
  BY DEF Inflight, SessionsOutliveOnlyRaces
<1> QED
  BY <1>1, <1>2, <1>3, <1>4 DEF FInv

\* What a step that leaves requests, roles and active accounts alone keeps.
LEMMA JudgementsKept ==
  ASSUME FInv, UNCHANGED <<change, rolesOf, enabled, crossed>>
  PROVE  Alone'
<1> QED
  BY DEF FInv, Alone, Pending, Justified, LastOwner, IsOwner, OtherOwners, MayReplace

\* What a step that leaves requests and roles alone keeps.
LEMMA RolesKept ==
  ASSUME FInv, UNCHANGED <<change, rolesOf, mixed, assigned>>
  PROVE  Seen' /\ RolesMixedOnlyByOverlap'
<1> QED
  BY DEF FInv, Seen, Replacing, Rivals, RolesMixedOnlyByOverlap

\* What a step that leaves passwords and logins alone, and no request behind, keeps.
LEMMA EntriesKept ==
  ASSUME FInv, UNCHANGED <<staffEntries, password>>,
         \A c \in Changes : change[c].stage = "stored" => change'[c].stage = "stored" /\ change'[c].of = change[c].of
  PROVE  Inflight' /\ SessionsOutliveOnlyRaces'
<1> QED
  BY DEF FInv, Inflight, SessionsOutliveOnlyRaces, staffEntries

LEMMA SetupKeepsFInv ==
  ASSUME FInv, NEW u \in People, NEW s \in Entries, Setup(u, s)
  PROVE  FInv'
<1> USE DEF Setup, SetupFirm, OpenSession
<1>1. StaffTypeOK'
  BY DEF FInv, Settled, StaffTypeOK
<1>2. Settled'
  BY DEF FInv, Settled, StaffTypeOK
<1>3. \A c \in Changes : ~Pending(c) /\ ~Replacing(c) /\ change[c].stage # "stored"
  BY DEF FInv, Settled, Pending, Replacing
<1>4. Alone' /\ Seen'
  BY <1>3 DEF Alone, Seen, Pending, Replacing
<1>5. RolesMixedOnlyByOverlap'
  BY DEF FInv, StaffTypeOK, RolesMixedOnlyByOverlap
<1>6. Inflight' /\ SessionsOutliveOnlyRaces'
  BY <1>3 DEF FInv, StaffTypeOK, Settled, Inflight, SessionsOutliveOnlyRaces
<1> QED
  BY <1>1, <1>2, <1>4, <1>5, <1>6 DEF FInv

\* CheckLogin, IssueSession and Logout.
LEMMA EntryKeepsFInv ==
  ASSUME FInv, NEW s \in Entries, IssueSession(s) \/ Logout(s) \/ \E u \in People : CheckLogin(s, u)
  PROVE  FInv'
<1> USE DEF IssueSession, Logout, CheckLogin, OpenSession, EndSessions, Credentials, staffUsers, staffRoles
<1>1. StaffTypeOK'
  BY DEF FInv, StaffTypeOK
<1>2. Settled'
  BY DEF FInv, StaffTypeOK, Settled
<1>3. Alone' /\ Seen' /\ RolesMixedOnlyByOverlap'
  BY JudgementsKept, RolesKept
<1>4. Inflight' /\ SessionsOutliveOnlyRaces'
  BY DEF FInv, StaffTypeOK, Settled, Inflight, SessionsOutliveOnlyRaces
<1> QED
  BY <1>1, <1>2, <1>3, <1>4 DEF FInv

LEMMA UserKeepsFInv ==
  ASSUME FInv, NEW u \in People, Enable(u) \/ \E given \in SUBSET Roles : CreateUser(u, given)
  PROVE  FInv'
<1> USE DEF Enable, CreateUser, AddUser, Known
<1>1. StaffTypeOK'
  BY DEF FInv, StaffTypeOK, staffRoles, staffEntries
<1>2. Settled'
  BY DEF FInv, StaffTypeOK, Settled, staffRoles, staffEntries
<1>3. /\ enabled \subseteq enabled' /\ UNCHANGED <<change, crossed>>
      /\ \A v \in created : rolesOf'[v] = rolesOf[v]
  BY DEF FInv, StaffTypeOK, staffRoles
<1>4. Alone'
  <2>1. \A c \in Changes : Pending(c) => change[c].of \in created
    BY DEF FInv, Settled, Pending
  <2>2. \A v \in created : LastOwner(v)' => LastOwner(v)
    BY <1>3 DEF LastOwner, IsOwner, OtherOwners, FInv, StaffTypeOK
  <2> QED
    BY <1>3, <2>1, <2>2 DEF FInv, Alone, Pending, Justified, MayReplace
<1>5. Seen' /\ RolesMixedOnlyByOverlap'
  <2>1. RolesMixedOnlyByOverlap'
    <3>1. CASE Enable(u)
      BY <3>1 DEF FInv, RolesMixedOnlyByOverlap, staffRoles
    <3>2. ASSUME NEW given \in SUBSET Roles, CreateUser(u, given)
          PROVE  RolesMixedOnlyByOverlap'
      BY <3>2 DEF FInv, StaffTypeOK, RolesMixedOnlyByOverlap
    <3> QED
      BY <3>1, <3>2
  <2>2. \A c \in Changes : Replacing(c) => change[c].of \in created
    BY DEF FInv, Settled, Replacing
  <2>3. mixed' = mixed
    BY DEF staffRoles
  <2>4. \A c \in Changes : Rivals(c)' = Rivals(c) /\ (Replacing(c)' <=> Replacing(c))
    BY <1>3 DEF Rivals, Replacing
  <2>5. Seen'
    BY <1>3, <2>2, <2>3, <2>4 DEF FInv, Seen
  <2> QED
    BY <2>1, <2>5
<1>6. Inflight' /\ SessionsOutliveOnlyRaces'
  BY EntriesKept
<1> QED
  BY <1>1, <1>2, <1>4, <1>5, <1>6 DEF FInv

LEMMA RoleKeepsFInv ==
  ASSUME FInv, NEW r \in Roles, NEW manages \in BOOLEAN, CreateRole(r, manages) \/ UpdateRole(r, manages)
  PROVE  FInv'
<1> USE DEF CreateRole, UpdateRole, AddRole, ReplaceRole, staffUsers
<1>1. StaffTypeOK'
  BY DEF FInv, StaffTypeOK, staffEntries
<1>2. Settled'
  BY DEF FInv, Settled, staffEntries
<1>3. Alone' /\ Seen' /\ RolesMixedOnlyByOverlap' /\ Inflight' /\ SessionsOutliveOnlyRaces'
  BY JudgementsKept, RolesKept, EntriesKept
<1> QED
  BY <1>1, <1>2, <1>3 DEF FInv

\* A request, whatever its stage, is about someone.
ChangeRecords ==
  [op : {"none", "disable", "password", "assign"}, of : People \cup {Nobody},
   stage : {"new", "judged", "verified", "stored", "again", "deleting", "emptied", "done"},
   gives : SUBSET Roles, rows : SUBSET Roles]

\* What a step on the requests alone has to show for its types.
LEMMA RequestTypes ==
  ASSUME FInv, change' \in [Changes -> ChangeRecords], crossed' \subseteq Changes,
         UNCHANGED <<staffUsers, staffEntries, rolesOf, managing, assigned>>, mixed' \subseteq People
  PROVE  StaffTypeOK'
<1> QED
  BY DEF FInv, StaffTypeOK, ChangeRecords, staffUsers, staffEntries

\* A request is judged: what it was judged by holds, and it is alone if not crossed.
LEMMA JudgedIsAlone ==
  ASSUME FInv, NEW c \in Changes, change[c] = Idle, Cross(c), UNCHANGED <<enabled, rolesOf>>,
         Justified(c)', \A d \in Changes \ {c} : change'[d] = change[d]
  PROVE  Alone'
<1>1. \A d \in Changes \ {c} : Pending(d)' = Pending(d) /\ (Justified(d) => Justified(d)')
  BY DEF Pending, Justified, LastOwner, IsOwner, OtherOwners, MayReplace
<1>2. ~Pending(c)
  BY DEF Pending, Idle, Asked
<1>3. ASSUME NEW d \in Changes \ crossed', Pending(d)'
      PROVE  Justified(d)' /\ \A e \in Changes : Pending(e)' => e = d
  <2>1. d \notin crossed
    BY <1>3 DEF Cross
  <2>2. CASE d = c
    BY <2>2, <1>1, <1>2, <1>3 DEF Cross
  <2>3. CASE d # c
    <3>1. Pending(d) /\ Justified(d)
      BY <2>1, <2>3, <1>1, <1>3 DEF FInv, Alone
    <3>2. d \in crossed'
      BY <3>1 DEF Cross
    <3> QED
      BY <3>2, <1>3
  <2> QED
    BY <2>2, <2>3
<1> QED
  BY <1>3 DEF Alone

LEMMA JudgeDisableKeepsFInv ==
  ASSUME FInv, NEW c \in Changes, NEW u \in People, JudgeDisable(c, u)
  PROVE  FInv'
<1> DEFINE r == [op |-> "disable", of |-> u, stage |-> "judged", gives |-> {}, rows |-> {}]
<1>0. /\ change[c] = Idle /\ u \in created /\ ~LastOwner(u) /\ Cross(c)
      /\ change' = [change EXCEPT ![c] = r]
      /\ UNCHANGED <<enabled, created, password, rolesOf, managing, assigned, mixed>> /\ UNCHANGED staffEntries
  BY DEF JudgeDisable, Asked, staffUsers, staffRoles
<1>1. change'[c] = r /\ \A d \in Changes \ {c} : change'[d] = change[d]
  BY <1>0 DEF FInv, StaffTypeOK
<1>2. StaffTypeOK'
  <2>1. r \in ChangeRecords /\ change' \in [Changes -> ChangeRecords]
    BY <1>0 DEF FInv, StaffTypeOK, ChangeRecords
  <2>2. crossed' \subseteq Changes
    BY <1>0 DEF FInv, StaffTypeOK, Cross
  <2> QED
    BY <1>0, <2>1, <2>2, RequestTypes DEF FInv, StaffTypeOK, staffUsers
<1>3. Settled'
  BY <1>0, <1>1 DEF FInv, Settled, staffEntries
<1>4. Alone'
  <2>1. Justified(c)'
    BY <1>0, <1>1 DEF Justified, LastOwner, IsOwner, OtherOwners
  <2> QED
    BY <1>0, <1>1, <2>1, JudgedIsAlone
<1>5. Seen' /\ RolesMixedOnlyByOverlap'
  BY <1>0, <1>1 DEF FInv, Seen, Replacing, Rivals, RolesMixedOnlyByOverlap
<1>6. Inflight' /\ SessionsOutliveOnlyRaces'
  BY <1>0, <1>1, EntriesKept DEF Idle, Asked
<1> QED
  BY <1>2, <1>3, <1>4, <1>5, <1>6 DEF FInv

LEMMA VerifyKeepsFInv ==
  ASSUME FInv, NEW c \in Changes, NEW u \in People, VerifyPassword(c, u)
  PROVE  FInv'
<1> DEFINE r == [op |-> "password", of |-> u, stage |-> "verified", gives |-> {}, rows |-> {}]
<1>0. /\ change[c] = Idle /\ u \in enabled
      /\ change' = [change EXCEPT ![c] = r]
      /\ UNCHANGED <<enabled, created, password, rolesOf, managing, assigned, mixed, crossed>> /\ UNCHANGED staffEntries
  BY DEF VerifyPassword, Asked, SignedIn, staffUsers, staffRoles
<1>1. change'[c] = r /\ \A d \in Changes \ {c} : change'[d] = change[d]
  BY <1>0 DEF FInv, StaffTypeOK
<1>2. StaffTypeOK'
  <2>1. r \in ChangeRecords /\ change' \in [Changes -> ChangeRecords]
    BY <1>0 DEF FInv, StaffTypeOK, ChangeRecords
  <2> QED
    BY <1>0, <2>1, RequestTypes DEF FInv, StaffTypeOK, staffUsers
<1>3. Settled'
  BY <1>0, <1>1 DEF FInv, StaffTypeOK, Settled, staffEntries
<1>4. Alone'
  BY <1>0, <1>1 DEF FInv, Alone, Pending, Justified, LastOwner, IsOwner, OtherOwners, MayReplace
<1>5. Seen' /\ RolesMixedOnlyByOverlap'
  BY <1>0, <1>1 DEF FInv, Seen, Replacing, Rivals, RolesMixedOnlyByOverlap
<1>6. Inflight' /\ SessionsOutliveOnlyRaces'
  BY <1>0, <1>1, EntriesKept DEF Idle, Asked
<1> QED
  BY <1>2, <1>3, <1>4, <1>5, <1>6 DEF FInv

LEMMA JudgeRolesKeepsFInv ==
  ASSUME FInv, NEW c \in Changes, NEW u \in People, NEW gives \in SUBSET Roles, JudgeRoles(c, u, gives)
  PROVE  FInv'
<1> DEFINE r == [op |-> "assign", of |-> u, stage |-> "judged", gives |-> gives, rows |-> {}]
<1>0. /\ change[c] = Idle /\ u \in created /\ MayReplace(u, gives) /\ Cross(c)
      /\ change' = [change EXCEPT ![c] = r]
      /\ UNCHANGED <<enabled, created, password, rolesOf, managing, assigned, mixed>> /\ UNCHANGED staffEntries
  BY DEF JudgeRoles, Asked, staffUsers, staffRoles
<1>1. change'[c] = r /\ \A d \in Changes \ {c} : change'[d] = change[d]
  BY <1>0 DEF FInv, StaffTypeOK
<1>2. StaffTypeOK'
  <2>1. r \in ChangeRecords /\ change' \in [Changes -> ChangeRecords]
    BY <1>0 DEF FInv, StaffTypeOK, ChangeRecords
  <2>2. crossed' \subseteq Changes
    BY <1>0 DEF FInv, StaffTypeOK, Cross
  <2> QED
    BY <1>0, <2>1, <2>2, RequestTypes DEF FInv, StaffTypeOK, staffUsers
<1>3. Settled'
  BY <1>0, <1>1 DEF FInv, Settled, staffEntries
<1>4. Alone'
  <2>1. Justified(c)'
    BY <1>0, <1>1 DEF Justified, MayReplace, LastOwner, IsOwner, OtherOwners
  <2> QED
    BY <1>0, <1>1, <2>1, JudgedIsAlone
<1>5. Seen' /\ RolesMixedOnlyByOverlap'
  BY <1>0, <1>1 DEF FInv, Seen, Replacing, Rivals, RolesMixedOnlyByOverlap
<1>6. Inflight' /\ SessionsOutliveOnlyRaces'
  BY <1>0, <1>1, EntriesKept DEF Idle, Asked
<1> QED
  BY <1>2, <1>3, <1>4, <1>5, <1>6 DEF FInv

\* A request goes on to a stage, and the others stay where they are.
LEMMA Moved ==
  ASSUME FInv, NEW c \in Changes,
         NEW next \in {"judged", "verified", "stored", "again", "deleting", "emptied", "done"}, Move(c, next)
  PROVE  /\ change' \in [Changes -> ChangeRecords]
         /\ change'[c].stage = next /\ change'[c].op = change[c].op /\ change'[c].of = change[c].of
         /\ change'[c].gives = change[c].gives /\ change'[c].rows = change[c].rows
         /\ \A d \in Changes \ {c} : change'[d] = change[d]
<1>1. change \in [Changes -> ChangeRecords]
  BY DEF FInv, StaffTypeOK, ChangeRecords
<1> QED
  BY <1>1 DEF Move, ChangeRecords

\* A request is over.
LEMMA Ended ==
  ASSUME FInv, NEW c \in Changes, EndOf(c)
  PROVE  /\ change' \in [Changes -> ChangeRecords]
         /\ change'[c] = Over /\ \A d \in Changes \ {c} : change'[d] = change[d]
<1>1. change \in [Changes -> ChangeRecords] /\ Over \in ChangeRecords
  BY DEF FInv, StaffTypeOK, ChangeRecords, Over, Asked
<1> QED
  BY <1>1 DEF EndOf

\* A request that ends, or is pending no more, leaves the others as they were judged.
LEMMA OthersJudged ==
  ASSUME FInv, NEW c \in Changes, UNCHANGED <<enabled, rolesOf, crossed>>,
         \A d \in Changes \ {c} : change'[d] = change[d],
         Pending(c)' => Pending(c) /\ change'[c].op = change[c].op /\ change'[c].of = change[c].of
                        /\ change'[c].gives = change[c].gives
  PROVE  Alone'
<1>1. \A d \in Changes : Pending(d)' => Pending(d) /\ (Justified(d) => Justified(d)')
  BY DEF Pending, Justified, LastOwner, IsOwner, OtherOwners, MayReplace
<1> QED
  BY <1>1 DEF FInv, Alone

\* A request that is not in its DELETE, and does not enter it, changes no roles.
LEMMA OthersReplace ==
  ASSUME FInv, NEW c \in Changes, UNCHANGED <<rolesOf, assigned, mixed>>,
         \A d \in Changes \ {c} : change'[d] = change[d],
         Replacing(c)' => Replacing(c) /\ change'[c].of = change[c].of /\ change'[c].rows = change[c].rows
  PROVE  Seen' /\ RolesMixedOnlyByOverlap'
<1>1. \A d \in Changes : Replacing(d)' =>
        /\ Replacing(d) /\ change'[d].of = change[d].of /\ change'[d].rows = change[d].rows
  BY DEF Replacing
<1>2. \A d \in Changes : Replacing(d)' => Rivals(d)' \subseteq Rivals(d)
  BY <1>1 DEF Rivals, Replacing
<1> QED
  BY <1>1, <1>2 DEF FInv, Seen, RolesMixedOnlyByOverlap

LEMMA DisableKeepsFInv ==
  ASSUME FInv, NEW c \in Changes, Disable(c)
  PROVE  FInv'
<1> DEFINE u == change[c].of
<1>0. /\ change[c].op = "disable" /\ change[c].stage = "judged" /\ Move(c, "stored")
      /\ enabled' = enabled \ {u}
      /\ expired' = expired \cup LiveOf(u) \cup CheckedFor(u) /\ spared' = spared \cup CheckedFor(u)
      /\ UNCHANGED <<created, password, rolesOf, managing, assigned, mixed, entry, person, checked, crossed>>
  BY DEF Disable, staffRoles
<1>1. /\ change' \in [Changes -> ChangeRecords] /\ change'[c].stage = "stored" /\ change'[c].of = u
      /\ change'[c].op = "disable" /\ \A d \in Changes \ {c} : change'[d] = change[d]
  BY <1>0, Moved
<1>2. StaffTypeOK'
  BY <1>0, <1>1 DEF FInv, StaffTypeOK, ChangeRecords, LiveOf, CheckedFor
<1>3. Settled'
  <2>1. \A s \in Entries : entry'[s] = "new" => checked'[s] = First /\ s \notin expired'
    BY <1>0 DEF FInv, Settled, LiveOf, CheckedFor
  <2>2. \A d \in Changes : change'[d].stage \in {"judged", "verified", "stored", "again", "deleting", "emptied"} =>
          change'[d].of \in created'
    BY <1>0, <1>1 DEF FInv, Settled
  <2> QED
    BY <1>0, <2>1, <2>2 DEF FInv, Settled
<1>4. Alone'
  <2>1. Pending(c) /\ ~Pending(c)'
    BY <1>0, <1>1 DEF Pending
  <2>2. \A d \in Changes \ {c} : Pending(d)' = Pending(d)
    BY <1>1 DEF Pending
  <2>3. ASSUME NEW d \in Changes \ crossed', Pending(d)' PROVE FALSE
    BY <1>0, <2>1, <2>2, <2>3 DEF FInv, Alone
  <2> QED
    BY <2>3 DEF Alone
<1>5. Seen' /\ RolesMixedOnlyByOverlap'
  BY <1>0, <1>1, OthersReplace DEF Replacing
<1>6. Inflight'
  BY <1>0 DEF FInv, Inflight, LiveOf, CheckedFor
<1>7. SessionsOutliveOnlyRaces'
  <2> SUFFICES ASSUME NEW s \in Entries, entry'[s] = "live", s \in expired' \/ checked'[s] # password'[person'[s]]
               PROVE  s \in spared' \/ \E d \in Changes : change'[d].stage = "stored" /\ change'[d].of = person'[s]
    BY DEF SessionsOutliveOnlyRaces
  <2>1. CASE person[s] = u
    BY <2>1, <1>0, <1>1
  <2>2. CASE person[s] # u
    <3>1. s \in expired \/ checked[s] # password[person[s]]
      BY <2>2, <1>0 DEF LiveOf, CheckedFor
    <3>2. s \in spared \/ \E d \in Changes : change[d].stage = "stored" /\ change[d].of = person[s]
      BY <3>1, <1>0 DEF FInv, SessionsOutliveOnlyRaces
    <3> QED
      BY <3>2, <1>0, <1>1
  <2> QED
    BY <2>1, <2>2
<1> QED
  BY <1>2, <1>3, <1>4, <1>5, <1>6, <1>7 DEF FInv

LEMMA StoreKeepsFInv ==
  ASSUME FInv, NEW c \in Changes, StorePassword(c)
  PROVE  FInv'
<1> DEFINE u == change[c].of
<1>0. /\ change[c].op = "password" /\ change[c].stage = "verified" /\ Move(c, "stored")
      /\ UNCHANGED <<created, enabled, rolesOf, managing, assigned, mixed, entry, person, checked, expired, crossed>>
      /\ u \in created
  BY DEF StorePassword, staffRoles, FInv, Settled
<1>1. /\ change' \in [Changes -> ChangeRecords] /\ change'[c].stage = "stored" /\ change'[c].of = u
      /\ change'[c].op = "password" /\ \A d \in Changes \ {c} : change'[d] = change[d]
  BY <1>0, Moved
<1>a. \/ password' = [password EXCEPT ![u] = c] /\ spared' = spared \cup CheckedFor(u)
      \/ UNCHANGED <<password, spared>>
  BY DEF StorePassword
<1>2. StaffTypeOK'
  BY <1>0, <1>1, <1>a DEF FInv, StaffTypeOK, ChangeRecords, CheckedFor
<1>3. Settled'
  BY <1>0, <1>1, <1>a DEF FInv, StaffTypeOK, Settled
<1>4. Alone'
  BY <1>0, <1>1, OthersJudged DEF Pending
<1>5. Seen' /\ RolesMixedOnlyByOverlap'
  BY <1>0, <1>1, OthersReplace DEF Replacing
<1>6. Inflight'
  BY <1>0, <1>a DEF FInv, StaffTypeOK, Inflight, CheckedFor
<1>7. SessionsOutliveOnlyRaces'
  <2> SUFFICES ASSUME NEW s \in Entries, entry'[s] = "live", s \in expired' \/ checked'[s] # password'[person'[s]]
               PROVE  s \in spared' \/ \E d \in Changes : change'[d].stage = "stored" /\ change'[d].of = person'[s]
    BY DEF SessionsOutliveOnlyRaces
  <2>1. CASE person[s] = u
    BY <2>1, <1>0, <1>1
  <2>2. CASE person[s] # u
    <3>1. password'[person[s]] = password[person[s]]
      BY <2>2, <1>0, <1>a DEF FInv, StaffTypeOK
    <3>2. s \in spared \/ \E d \in Changes : change[d].stage = "stored" /\ change[d].of = person[s]
      BY <3>1, <1>0 DEF FInv, SessionsOutliveOnlyRaces
    <3> QED
      BY <3>2, <1>0, <1>1, <1>a
  <2> QED
    BY <2>1, <2>2
<1> QED
  BY <1>2, <1>3, <1>4, <1>5, <1>6, <1>7 DEF FInv

LEMMA EndKeepsFInv ==
  ASSUME FInv, NEW c \in Changes, EndSessionsOf(c)
  PROVE  FInv'
<1> DEFINE u == change[c].of
<1>0. /\ change[c].stage \in {"stored", "again"} /\ EndSessions(LiveOf(u))
      /\ Move(c, "again") \/ EndOf(c)
      /\ UNCHANGED <<enabled, created, password, rolesOf, managing, assigned, mixed, crossed>>
  BY DEF EndSessionsOf, RevokeUserSessions, staffUsers, staffRoles
<1>1. /\ change' \in [Changes -> ChangeRecords] /\ change'[c].stage \in {"again", "done"}
      /\ change'[c].stage = "again" => change'[c].of = u
      /\ \A d \in Changes \ {c} : change'[d] = change[d]
  BY <1>0, Moved, Ended DEF Over, Asked
<1>2. \A s \in Entries :
        IF s \in LiveOf(u)
        THEN entry'[s] = "gone" /\ checked'[s] = First /\ s \notin expired'
        ELSE /\ entry'[s] = entry[s] /\ person'[s] = person[s] /\ checked'[s] = checked[s]
             /\ s \in expired' <=> s \in expired
             /\ s \in spared' <=> s \in spared
  BY <1>0 DEF EndSessions
<1>3. StaffTypeOK'
  <2>1. /\ entry' \in [Entries -> {"new", "checked", "live", "gone"}]
        /\ person' \in [Entries -> People \cup {Nobody}] /\ checked' \in [Entries -> Changes \cup {First}]
        /\ expired' \subseteq Entries /\ spared' \subseteq Entries
    BY <1>0 DEF EndSessions, FInv, StaffTypeOK
  <2>2. \A s \in Entries : entry'[s] \in {"checked", "live"} => person'[s] \in created'
    BY <1>0, <1>2 DEF FInv, StaffTypeOK
  <2> QED
    BY <1>0, <1>1, <2>1, <2>2 DEF FInv, StaffTypeOK, ChangeRecords
<1>4. Settled'
  <2>1. \A s \in Entries : entry'[s] = "new" => checked'[s] = First /\ s \notin expired'
    BY <1>2 DEF FInv, Settled
  <2>2. \A d \in Changes : change'[d].stage \in {"judged", "verified", "stored", "again", "deleting", "emptied"} =>
          change'[d].of \in created'
    BY <1>0, <1>1 DEF FInv, Settled
  <2> QED
    BY <1>0, <2>1, <2>2 DEF FInv, Settled
<1>5. Alone' /\ Seen' /\ RolesMixedOnlyByOverlap'
  BY <1>0, <1>1, OthersJudged, OthersReplace DEF Pending, Replacing
<1>6. Inflight'
  BY <1>0, <1>2 DEF FInv, Inflight
<1>7. SessionsOutliveOnlyRaces'
  <2> SUFFICES ASSUME NEW s \in Entries, entry'[s] = "live", s \in expired' \/ checked'[s] # password'[person'[s]]
               PROVE  s \in spared' \/ \E d \in Changes : change'[d].stage = "stored" /\ change'[d].of = person'[s]
    BY DEF SessionsOutliveOnlyRaces
  <2>1. s \notin LiveOf(u) /\ entry[s] = "live" /\ person'[s] = person[s] /\ person[s] # u
    BY <1>2 DEF LiveOf
  <2>2. s \in spared \/ \E d \in Changes : change[d].stage = "stored" /\ change[d].of = person[s]
    BY <2>1, <1>0, <1>2 DEF FInv, SessionsOutliveOnlyRaces
  <2> QED
    BY <2>1, <2>2, <1>1, <1>2
<1> QED
  BY <1>3, <1>4, <1>5, <1>6, <1>7 DEF FInv

LEMMA CutKeepsFInv ==
  ASSUME FInv, NEW c \in Changes, SessionsKept(c)
  PROVE  FInv'
<1>0. /\ change[c].stage = "stored" /\ EndOf(c) /\ spared' = spared \cup LiveOf(change[c].of)
      /\ UNCHANGED <<enabled, created, password, rolesOf, managing, assigned, mixed, entry, person, checked,
                     expired, crossed>>
  BY DEF SessionsKept, staffUsers, staffRoles
<1>1. /\ change' \in [Changes -> ChangeRecords] /\ change'[c].stage = "done"
      /\ \A d \in Changes \ {c} : change'[d] = change[d]
  BY <1>0, Ended DEF Over, Asked
<1>2. StaffTypeOK'
  BY <1>0, <1>1 DEF FInv, StaffTypeOK, ChangeRecords, LiveOf
<1>3. Settled'
  BY <1>0, <1>1 DEF FInv, Settled
<1>4. Alone' /\ Seen' /\ RolesMixedOnlyByOverlap'
  BY <1>0, <1>1, OthersJudged, OthersReplace DEF Pending, Replacing
<1>5. Inflight'
  BY <1>0 DEF FInv, Inflight
<1>6. SessionsOutliveOnlyRaces'
  BY <1>0, <1>1 DEF FInv, SessionsOutliveOnlyRaces, LiveOf
<1> QED
  BY <1>2, <1>3, <1>4, <1>5, <1>6 DEF FInv

LEMMA SnapshotKeepsFInv ==
  ASSUME FInv, NEW c \in Changes, SnapshotRoles(c)
  PROVE  FInv'
<1> DEFINE u == change[c].of
<1>0. /\ change[c].op = "assign" /\ change[c].stage = "judged" /\ u \in created
      /\ change' = [change EXCEPT ![c].stage = "deleting", ![c].rows = rolesOf[u]]
      /\ mixed' = mixed \cup (IF Rivals(c) = {} THEN {} ELSE {u})
      /\ UNCHANGED <<enabled, created, password, rolesOf, managing, assigned, crossed>> /\ UNCHANGED staffEntries
  BY DEF SnapshotRoles, RowsToDelete, staffUsers, FInv, Settled
<1>1. /\ change' \in [Changes -> ChangeRecords] /\ change'[c].stage = "deleting" /\ change'[c].of = u
      /\ change'[c].op = "assign" /\ change'[c].gives = change[c].gives /\ change'[c].rows = rolesOf[u]
      /\ \A d \in Changes \ {c} : change'[d] = change[d]
  <2>1. change \in [Changes -> ChangeRecords] /\ rolesOf[u] \in SUBSET Roles
    BY <1>0 DEF FInv, StaffTypeOK, ChangeRecords
  <2> QED
    BY <1>0, <2>1 DEF ChangeRecords
<1>2. StaffTypeOK'
  <2>1. mixed' \subseteq People
    BY <1>0 DEF FInv, StaffTypeOK
  <2> QED
    BY <1>0, <1>1, <2>1, RequestTypes DEF FInv, StaffTypeOK, staffUsers
<1>3. Settled'
  BY <1>0, <1>1 DEF FInv, Settled, staffEntries
<1>4. Alone'
  BY <1>0, <1>1, OthersJudged DEF Pending
<1>5. RolesMixedOnlyByOverlap'
  BY <1>0 DEF FInv, RolesMixedOnlyByOverlap
<1>6. Seen'
  <2> SUFFICES ASSUME NEW d \in Changes, Replacing(d)', change'[d].of \notin mixed'
               PROVE  change'[d].rows = rolesOf[change'[d].of] /\ Rivals(d)' = {}
    BY <1>0 DEF Seen
  <2>1. CASE d = c
    <3>1. Rivals(c) = {}
      BY <2>1, <1>0, <1>1
    <3>2. Rivals(c)' = {}
      BY <3>1, <1>1 DEF Rivals
    <3> QED
      BY <2>1, <3>2, <1>1
  <2>2. CASE d # c
    <3>1. Replacing(d) /\ change'[d] = change[d]
      BY <2>2, <1>1 DEF Replacing
    <3>2. change[d].rows = rolesOf[change[d].of] /\ Rivals(d) = {}
      BY <3>1, <1>0 DEF FInv, Seen
    <3>3. change[d].of # u
      <4>1. SUFFICES ASSUME change[d].of = u PROVE FALSE
        OBVIOUS
      <4>2. d \in Rivals(c)
        BY <2>2, <3>1, <4>1 DEF Rivals, Replacing
      <4>3. u \in mixed'
        BY <1>0, <4>2
      <4> QED
        BY <3>1, <4>1, <4>3
    <3>4. Rivals(d)' = {}
      BY <3>1, <3>2, <3>3, <1>1 DEF Rivals
    <3> QED
      BY <3>1, <3>2, <3>4
  <2> QED
    BY <2>1, <2>2
<1>7. Inflight' /\ SessionsOutliveOnlyRaces'
  BY <1>0, <1>1, EntriesKept
<1> QED
  BY <1>2, <1>3, <1>4, <1>5, <1>6, <1>7 DEF FInv

\* DeleteRoles and AbortRoles.
LEMMA DeleteKeepsFInv ==
  ASSUME FInv, NEW c \in Changes, DeleteRoles(c) \/ AbortRoles(c)
  PROVE  FInv'
<1>0. /\ change[c].op = "assign"
      /\ \/ change[c].stage = "deleting" /\ Move(c, "emptied")
         \/ Pending(c) /\ EndOf(c)
      /\ UNCHANGED <<enabled, created, password, rolesOf, managing, assigned, mixed, crossed>> /\ UNCHANGED staffEntries
  BY DEF DeleteRoles, AbortRoles, staffUsers, staffRoles
<1>1. /\ change' \in [Changes -> ChangeRecords] /\ \A d \in Changes \ {c} : change'[d] = change[d]
      /\ \/ /\ change[c].stage = "deleting" /\ change'[c].stage = "emptied" /\ change'[c].op = change[c].op
            /\ change'[c].of = change[c].of /\ change'[c].gives = change[c].gives /\ change'[c].rows = change[c].rows
         \/ change'[c].stage = "done" /\ change[c].stage # "stored"
  BY <1>0, Moved, Ended DEF Over, Asked, Pending
<1>2. StaffTypeOK'
  BY <1>0, <1>1, RequestTypes DEF FInv, StaffTypeOK, staffUsers
<1>3. Settled'
  BY <1>0, <1>1 DEF FInv, Settled, staffEntries
<1>4. Alone'
  BY <1>0, <1>1, OthersJudged DEF Pending
<1>5. Seen' /\ RolesMixedOnlyByOverlap'
  BY <1>0, <1>1, OthersReplace DEF Replacing
<1>6. Inflight' /\ SessionsOutliveOnlyRaces'
  BY <1>0, <1>1, EntriesKept
<1> QED
  BY <1>2, <1>3, <1>4, <1>5, <1>6 DEF FInv

LEMMA AssignmentKeepsFInv ==
  ASSUME FInv, NEW c \in Changes, UpdateUserRoles(c)
  PROVE  FInv'
<1> DEFINE u == change[c].of
           left == rolesOf[u] \ change[c].rows
<1>0. /\ change[c].op = "assign" /\ change[c].stage = "emptied" /\ u \in created
      /\ change[c].gives \subseteq DOMAIN managing
      /\ rolesOf' = [rolesOf EXCEPT ![u] = left \cup change[c].gives]
      /\ assigned' = [assigned EXCEPT ![u] = change[c].gives]
      /\ UNCHANGED <<enabled, created, password, managing, mixed, crossed>> /\ UNCHANGED staffEntries
  BY DEF UpdateUserRoles, staffUsers, FInv, Settled
<1>1. /\ change' \in [Changes -> ChangeRecords] /\ change'[c].stage = "done"
      /\ \A d \in Changes \ {c} :
           /\ change'[d].op = change[d].op /\ change'[d].of = change[d].of
           /\ change'[d].stage = change[d].stage /\ change'[d].gives = change[d].gives
           /\ d \notin Rivals(c) => change'[d] = change[d]
  <2>1. change \in [Changes -> ChangeRecords] /\ Over \in ChangeRecords /\ Over.stage = "done"
    BY DEF FInv, StaffTypeOK, ChangeRecords, Over, Asked
  <2>2. change' = [d \in Changes |->
                    IF d = c THEN Over
                    ELSE IF d \in Rivals(c) THEN [change[d] EXCEPT !.rows = @ \ change[c].rows]
                    ELSE change[d]]
    BY DEF UpdateUserRoles
  <2> QED
    BY <2>1, <2>2 DEF ChangeRecords
<1>2. StaffTypeOK'
  <2>1. rolesOf' \in [People -> SUBSET DOMAIN managing]
    BY <1>0 DEF FInv, StaffTypeOK
  <2>2. assigned' \in [People -> SUBSET Roles]
    BY <1>0 DEF FInv, StaffTypeOK
  <2> QED
    BY <1>0, <1>1, <2>1, <2>2 DEF FInv, StaffTypeOK, ChangeRecords, staffEntries
<1>3. Settled'
  BY <1>0, <1>1 DEF FInv, StaffTypeOK, Settled, staffEntries
<1>4. Alone'
  <2>1. Pending(c) /\ ~Pending(c)'
    BY <1>0, <1>1 DEF Pending
  <2>2. \A d \in Changes \ {c} : Pending(d)' = Pending(d)
    BY <1>1 DEF Pending
  <2>3. ASSUME NEW d \in Changes \ crossed', Pending(d)' PROVE FALSE
    BY <1>0, <2>1, <2>2, <2>3 DEF FInv, Alone
  <2> QED
    BY <2>3 DEF Alone
<1>5. u \notin mixed => change[c].rows = rolesOf[u] /\ Rivals(c) = {}
  BY <1>0 DEF FInv, Seen, Replacing
<1>6. RolesMixedOnlyByOverlap'
  BY <1>0, <1>5 DEF FInv, StaffTypeOK, RolesMixedOnlyByOverlap
<1>7. Seen'
  <2> SUFFICES ASSUME NEW d \in Changes, Replacing(d)', change'[d].of \notin mixed'
               PROVE  change'[d].rows = rolesOf'[change'[d].of] /\ Rivals(d)' = {}
    BY DEF Seen
  <2>1. d # c /\ Replacing(d) /\ change'[d].of = change[d].of
    BY <1>1 DEF Replacing
  <2>2. change[d].rows = rolesOf[change[d].of] /\ Rivals(d) = {}
    BY <2>1, <1>0 DEF FInv, Seen
  <2>3. change[d].of # u /\ d \notin Rivals(c)
    BY <2>1, <2>2, <1>0 DEF Rivals
  <2>4. rolesOf'[change[d].of] = rolesOf[change[d].of]
    BY <2>3, <1>0 DEF FInv, StaffTypeOK
  <2>5. Rivals(d)' = {}
    BY <2>1, <2>2, <1>1 DEF Rivals
  <2> QED
    BY <2>1, <2>2, <2>3, <2>4, <2>5, <1>1
<1>8. Inflight' /\ SessionsOutliveOnlyRaces'
  BY <1>0, <1>1, EntriesKept
<1> QED
  BY <1>2, <1>3, <1>4, <1>6, <1>7, <1>8 DEF FInv

LEMMA NextFInv == FInv /\ [StaffNext]_staffVars => FInv'
<1> SUFFICES ASSUME FInv, [StaffNext]_staffVars PROVE FInv'
  OBVIOUS
<1>1. CASE UNCHANGED staffVars
  <2>0. UNCHANGED <<enabled, created, password, rolesOf, managing, assigned, mixed, change, crossed>>
        /\ UNCHANGED staffEntries
    BY <1>1 DEF staffVars, staffUsers, staffRoles
  <2>1. StaffTypeOK'
    BY <2>0 DEF FInv, StaffTypeOK, staffEntries
  <2>2. Settled'
    BY <2>0 DEF FInv, Settled, staffEntries
  <2> QED
    BY <2>0, <2>1, <2>2, JudgementsKept, RolesKept, EntriesKept DEF FInv
<1>2. CASE StaffNext
  BY <1>2, SetupKeepsFInv, EntryKeepsFInv, UserKeepsFInv, RoleKeepsFInv, JudgeDisableKeepsFInv, VerifyKeepsFInv,
     JudgeRolesKeepsFInv, DisableKeepsFInv, StoreKeepsFInv, EndKeepsFInv, CutKeepsFInv, SnapshotKeepsFInv,
     DeleteKeepsFInv, AssignmentKeepsFInv DEF StaffNext
<1> QED
  BY <1>1, <1>2

\* The invariant holds in every behaviour.
LEMMA FInvHolds == StaffSpec => []FInv
<1> QED
  BY InitFInv, NextFInv, PTL DEF StaffSpec

\* Every variable of Staff stays in its type.
THEOREM StaffTypes == StaffSpec => []StaffTypeOK
<1>1. FInv => StaffTypeOK
  BY DEF FInv
<1> QED
  BY <1>1, FInvHolds, PTL

\* UpdateUserRoles (admin.go): a user holds the roles last assigned, unless two
\* assignments of that user were in their DELETE at the same time.
THEOREM RolesAreAssigned == StaffSpec => []RolesMixedOnlyByOverlap
<1>1. FInv => RolesMixedOnlyByOverlap
  BY DEF FInv
<1> QED
  BY <1>1, FInvHolds, PTL

\* ChangePassword and SetUserActive (api.go): a session outlives the request that should
\* end it only if its login was in flight or the request was cut short.
THEOREM SessionsEnd == StaffSpec => []SessionsOutliveOnlyRaces
<1>1. FInv => SessionsOutliveOnlyRaces
  BY DEF FInv
<1> QED
  BY <1>1, FInvHolds, PTL

\* A step that takes nobody's account and leaves the roles of everybody who was there.
LEMMA OwnersStay ==
  ASSUME FInv, enabled \subseteq enabled', \A v \in created : rolesOf'[v] = rolesOf[v]
  PROVE  ActiveOwners \subseteq ActiveOwners'
<1> QED
  BY DEF FInv, StaffTypeOK, ActiveOwners, IsOwner

\* SetUserActive and UpdateUserRoles (api.go, admin.go): the last active Owner is taken
\* away only by a request that was judged while another was on its way to its write.
THEOREM OwnerIsCrossedAway == StaffSpec => OwnerLostOnlyByCrossing
<1> DEFINE Lost == ActiveOwners # {} /\ ActiveOwners' = {}
           Crossing == \E c \in crossed : change'[c].stage # change[c].stage
<1>1. ASSUME FInv, StaffNext, Lost PROVE Crossing
  <2>1. ASSUME NEW c \in Changes, Disable(c) PROVE Crossing
    <3>1. /\ Pending(c) /\ change[c].op = "disable" /\ enabled' = enabled \ {change[c].of} /\ rolesOf' = rolesOf
          /\ Move(c, "stored")
      BY <2>1 DEF Disable, Pending, staffRoles
    <3>2. change'[c].stage # change[c].stage
      BY <1>1, <2>1, <3>1, Moved DEF Disable
    <3>3. c \in crossed
      <4> SUFFICES ASSUME c \notin crossed PROVE FALSE
        OBVIOUS
      <4>1. ~LastOwner(change[c].of)
        BY <1>1, <3>1 DEF FInv, Alone, Justified
      <4>2. ActiveOwners' = ActiveOwners \ {change[c].of}
        BY <3>1 DEF ActiveOwners, IsOwner
      <4>3. OtherOwners(change[c].of) = ActiveOwners \ {change[c].of}
        BY DEF OtherOwners, ActiveOwners
      <4>4. ~IsOwner(change[c].of)
        BY <1>1, <4>1, <4>2, <4>3 DEF LastOwner
      <4> QED
        BY <1>1, <4>2, <4>4 DEF ActiveOwners
    <3> QED
      BY <3>2, <3>3
  <2>2. ASSUME NEW c \in Changes, UpdateUserRoles(c) PROVE Crossing
    <3> DEFINE u == change[c].of
               held == (rolesOf[u] \ change[c].rows) \cup change[c].gives
    <3>1. /\ Pending(c) /\ change[c].op = "assign" /\ enabled' = enabled
          /\ rolesOf' = [rolesOf EXCEPT ![u] = held] /\ change'[c] = Over /\ change[c].stage = "emptied"
      BY <2>2 DEF UpdateUserRoles, Pending, staffUsers
    <3>2. change'[c].stage # change[c].stage
      BY <3>1 DEF Over, Asked
    <3>3. c \in crossed
      <4> SUFFICES ASSUME c \notin crossed PROVE FALSE
        OBVIOUS
      <4>1. MayReplace(u, change[c].gives) /\ u \in People
        BY <1>1, <3>1 DEF FInv, Alone, Justified, Settled, Pending, StaffTypeOK
      <4>2. \A v \in enabled : v # u => rolesOf'[v] = rolesOf[v]
        BY <3>1, <1>1 DEF FInv, StaffTypeOK
      <4>3. rolesOf'[u] = held
        BY <3>1, <4>1, <1>1 DEF FInv, StaffTypeOK
      <4>4. ActiveOwners \ {u} \subseteq ActiveOwners'
        BY <3>1, <4>2 DEF ActiveOwners, IsOwner
      <4>5. u \in ActiveOwners
        BY <1>1, <4>4
      <4>6. Owner \notin change[c].gives
        BY <1>1, <3>1, <4>3, <4>5 DEF ActiveOwners, IsOwner
      <4>7. OtherOwners(u) # {}
        BY <4>1, <4>5, <4>6 DEF MayReplace, LastOwner, ActiveOwners
      <4>8. OtherOwners(u) \subseteq ActiveOwners \ {u}
        BY DEF OtherOwners, ActiveOwners
      <4> QED
        BY <1>1, <4>4, <4>7, <4>8
    <3> QED
      BY <3>2, <3>3
  <2>3. \/ \E c \in Changes : Disable(c) \/ UpdateUserRoles(c)
        \/ enabled \subseteq enabled' /\ \A v \in created : rolesOf'[v] = rolesOf[v]
    <3>1. ASSUME NEW u \in People, NEW s \in Entries, Setup(u, s)
          PROVE  enabled \subseteq enabled' /\ \A v \in created : rolesOf'[v] = rolesOf[v]
      BY <1>1, <3>1 DEF Setup, SetupFirm, FInv, StaffTypeOK
    <3>2. ASSUME NEW u \in People, NEW given \in SUBSET Roles, CreateUser(u, given)
          PROVE  enabled \subseteq enabled' /\ \A v \in created : rolesOf'[v] = rolesOf[v]
      BY <1>1, <3>2 DEF CreateUser, AddUser, FInv, StaffTypeOK
    <3>3. \/ \E u \in People, s \in Entries : Setup(u, s)
          \/ \E u \in People, given \in SUBSET Roles : CreateUser(u, given)
          \/ \E c \in Changes : Disable(c) \/ UpdateUserRoles(c)
          \/ enabled \subseteq enabled' /\ rolesOf' = rolesOf
      BY <1>1 DEF StaffNext, CheckLogin, IssueSession, Logout, Enable, CreateRole, UpdateRole, JudgeDisable,
         VerifyPassword, JudgeRoles, StorePassword, EndSessionsOf, SessionsKept, SnapshotRoles, DeleteRoles,
         AbortRoles, staffUsers, staffRoles
    <3> QED
      BY <3>1, <3>2, <3>3
  <2> QED
    BY <1>1, <2>1, <2>2, <2>3, OwnersStay
<1>2. ASSUME FInv, [StaffNext]_staffVars PROVE [Lost => Crossing]_staffVars
  BY <1>1, <1>2
<1> QED
  BY <1>2, FInvHolds, PTL DEF StaffSpec, OwnerLostOnlyByCrossing

-----------------------------------------------------------------------------
\* The office.

\* What is proved of the accounts, of the users and of the matters holds of the three
\* together.
THEOREM OfficeIsItsParts == OfficeSpec => Spec /\ StaffSpec /\ MatterSpec
<1>1. OfficeInit => Init /\ StaffInit /\ MatterInit
  BY DEF OfficeInit
<1>2. [ClientsMove \/ StaffMove \/ MattersMove]_officeVars
      => [Next]_vars /\ [StaffNext]_staffVars /\ [MatterNext]_matterVars
  BY DEF ClientsMove, StaffMove, MattersMove, officeVars
<1> QED
  BY <1>1, <1>2, PTL DEF OfficeSpec, Spec, StaffSpec, MatterSpec

\* Every variable of accounts, users and matters stays in its type.
THEOREM OfficeTypes == OfficeSpec => []OfficeTypeOK
<1>1. TypeOK /\ StaffTypeOK /\ MatterTypeOK => OfficeTypeOK
  BY DEF OfficeTypeOK
<1> QED
  BY <1>1, OfficeIsItsParts, PortalTypes, StaffTypes, TypeCorrect, PTL

=============================================================================
