-------------------------- MODULE NotificationsProofs --------------------------
(***************************************************************************)
(* One notification for each person and piece of work, and one e-mail      *)
(* unless a mark was lost: theorems about Notifications, for any number of *)
(* replicas, pieces of work, rows and faults. The first rests on the       *)
(* advisory lock: what its holder found stays unknown to the table until   *)
(* it commits. The second rests on the mark: a row whose e-mail was asked  *)
(* for is marked, or about to be, and is listed by nobody once its key is  *)
(* free again. Fairness is not needed for either, and both hold beside the *)
(* queue (MCMailing).                                                      *)
(***************************************************************************)
EXTENDS MCMailing, FiniteSetTheorems, SequenceTheorems, TLAPS

\* Whoever is inserting holds the lock, and inserts what the table does not have.
Publishing ==
  \A r \in Schedulers :
    cycle[r] = "inserting" => lock = r /\ \A n \in Rows : notices[n] \notin found[r]

\* A row of the queue that exists was asked for.
Counted == \A n \in 1..MaxNotices : mail[n] # "none" => requests[n] > 0

\* A row asked for is marked, in the hand of who asked, or its mark was lost.
Followed ==
  \A n \in 1..MaxNotices :
    requests[n] > 0 /\ n \notin unmarked => n \in marked \/ \E r \in Schedulers : n \in asked[r]

\* Once it is old or deleted, only the mark is left, and no cycle comes to it again.
Closed ==
  \A n \in 1..MaxNotices :
    requests[n] > 0 /\ n \notin unmarked /\ mail[n] \in {"old", "none"} =>
      n \in marked /\ \A r \in Schedulers : n \notin listed[r]

\* A second request takes a lost mark.
Once == \A n \in 1..MaxNotices : requests[n] > 1 => n \in unmarked

Mailing == Counted /\ Followed /\ Closed /\ Once

NInv == NoticeTypeOK /\ Publishing /\ NotifiedOnce /\ Mailing

\* The initial states satisfy the invariant.
LEMMA InitNInv == NoticeInit => NInv
<1> SUFFICES ASSUME NoticeInit PROVE NInv
  OBVIOUS
<1> USE NotificationAssumptions DEF NoticeInit
<1>1. notices = <<>> /\ Len(notices) = 0 /\ Rows = {}
  BY DEF Rows
<1>2. overlong \subseteq Subjects
  BY DEF NotificationAssumptions
<1>3. NoticeTypeOK
  BY <1>1, <1>2 DEF NoticeTypeOK
<1>4. Publishing /\ NotifiedOnce
  BY <1>1 DEF Publishing, NotifiedOnce
<1>5. Mailing
  BY <1>1 DEF Mailing, Counted, Followed, Closed, Once
<1> QED
  BY <1>3, <1>4, <1>5 DEF NInv

\* Steps that leave the e-mails alone.
LEMMA MailingStays ==
  ASSUME Mailing, UNCHANGED <<marked, mail, requests, unmarked, listed, asked>>
  PROVE  Mailing'
<1> QED
  BY DEF Mailing, Counted, Followed, Closed, Once

\* The statement lists what it inserts, each subject once.
LEMMA OrderIsInjective ==
  ASSUME NEW S \in SUBSET Subjects, NEW order \in Orders(S)
  PROVE  /\ order \in Seq(S) /\ order \in Seq(Subjects)
         /\ Len(order) = Cardinality(S) /\ Cardinality(S) \in Nat
         /\ \A i, j \in 1..Len(order) : order[i] = order[j] => i = j
<1>1. IsFiniteSet(S)
  BY FS_Subset, NotificationAssumptions
<1>2. Cardinality(S) \in Nat
  BY <1>1, FS_CardinalityType
<1>3. /\ IsFiniteSet(1..Cardinality(S))
      /\ Cardinality(1..Cardinality(S)) = Cardinality(S)
  BY <1>2, FS_Interval
<1>4. /\ order \in [1..Cardinality(S) -> S]
      /\ \A s \in S : \E i \in 1..Cardinality(S) : order[i] = s
  BY DEF Orders
<1>5. order \in Surjection(1..Cardinality(S), S)
  BY <1>4 DEF Surjection
<1>6. order \in Injection(1..Cardinality(S), S)
  BY <1>3, <1>5, FS_SurjSameCardinalityImpliesInj
<1>7. \A i, j \in 1..Cardinality(S) : order[i] = order[j] => i = j
  BY <1>6 DEF Injection, IsInjective
<1>8. order \in Seq(S) /\ order \in Seq(Subjects) /\ Len(order) = Cardinality(S)
  BY <1>2, <1>4
<1> QED
  BY <1>2, <1>7, <1>8

\* The publication: one replica at a time inserts what the table does not have.
LEMMA PublishKeepsNInv ==
  ASSUME NInv, NEW r \in Schedulers, BeginPublish(r) \/ CommitPublish(r) \/ RefusePublish(r)
  PROVE  NInv'
<1> USE NotificationAssumptions DEF NInv, noticeTable
<1>1. CASE BeginPublish(r)
  <2>1. NoticeTypeOK'
    BY <1>1 DEF BeginPublish, Unnotified, NoticeTypeOK, Rows
  <2>2. \A n \in Rows : notices[n] \notin Unnotified
    BY DEF Unnotified
  <2>3. Publishing'
    BY <1>1, <2>2 DEF BeginPublish, TryLock, Publishing, NoticeTypeOK, Rows
  <2>4. NotifiedOnce' /\ Mailing'
    BY <1>1, MailingStays DEF BeginPublish, NotifiedOnce, Rows
  <2> QED
    BY <2>1, <2>3, <2>4
<1>2. CASE CommitPublish(r)
  <2>1. PICK order \in Orders(found[r]) : notices' = notices \o order
    BY <1>2 DEF CommitPublish
  <2>2. found[r] \in SUBSET Subjects /\ notices \in Seq(Subjects)
    BY DEF NoticeTypeOK
  <2>3. /\ order \in Seq(found[r]) /\ order \in Seq(Subjects)
        /\ Len(order) = Cardinality(found[r]) /\ Cardinality(found[r]) \in Nat
        /\ \A i, j \in 1..Len(order) : order[i] = order[j] => i = j
    BY <2>2, OrderIsInjective
  <2>4. /\ notices' \in Seq(Subjects)
        /\ Len(notices') = Len(notices) + Len(order)
        /\ \A i \in 1..(Len(notices) + Len(order)) :
             notices'[i] = IF i <= Len(notices) THEN notices[i] ELSE order[i - Len(notices)]
    <3>1. notices \o order \in Seq(Subjects) /\ Len(notices \o order) = Len(notices) + Len(order)
      BY <2>2, <2>3
    <3>2. \A i \in 1..(Len(notices) + Len(order)) : (notices \o order)[i] =
            IF i <= Len(notices) THEN notices[i] ELSE order[i - Len(notices)]
      BY <2>2, <2>3
    <3> QED
      BY <2>1, <3>1, <3>2
  <2>5. Len(notices) \in Nat /\ Len(order) \in Nat
    BY <2>2, <2>3
  <2>6. Rows \subseteq Rows'
    BY <2>4, <2>5 DEF Rows
  <2>7. NoticeTypeOK'
    <3>1. Len(notices') <= MaxNotices
      BY <1>2, <2>3, <2>4 DEF CommitPublish
    <3>2. /\ listed' \in [Schedulers -> SUBSET Rows'] /\ marked' \subseteq Rows' /\ unmarked' \subseteq Rows'
          /\ asked' \in [Schedulers -> {{}} \cup {{n} : n \in Rows'}]
      <4>1. UNCHANGED <<listed, marked, unmarked, asked>>
        BY <1>2 DEF CommitPublish
      <4>2. {{}} \cup {{n} : n \in Rows} \subseteq {{}} \cup {{n} : n \in Rows'}
        BY <2>6
      <4>3. asked' \in [Schedulers -> {{}} \cup {{n} : n \in Rows'}]
        BY <4>1, <4>2 DEF NoticeTypeOK
      <4> QED
        BY <2>6, <4>1, <4>3 DEF NoticeTypeOK
    <3> QED
      BY <1>2, <2>4, <3>1, <3>2 DEF CommitPublish, NoticeTypeOK
  <2>8. Publishing'
    BY <1>2 DEF CommitPublish, Publishing, NoticeTypeOK
  <2>9. NotifiedOnce'
    <3> SUFFICES ASSUME NEW m \in Rows', NEW n \in Rows', notices'[m] = notices'[n], m <= n
                 PROVE  m = n
      BY <2>4, <2>5 DEF NotifiedOnce, Rows
    <3>1. m \in 1..(Len(notices) + Len(order)) /\ n \in 1..(Len(notices) + Len(order))
      BY <2>4 DEF Rows
    <3>2. CASE n <= Len(notices)
      BY <2>4, <2>5, <3>1, <3>2 DEF NotifiedOnce, Rows
    <3>3. CASE m > Len(notices)
      <4>1. m - Len(notices) \in 1..Len(order) /\ n - Len(notices) \in 1..Len(order)
        BY <2>5, <3>1, <3>3
      <4>2. order[m - Len(notices)] = order[n - Len(notices)]
        BY <2>4, <2>5, <3>1, <3>3
      <4>3. m - Len(notices) = n - Len(notices)
        BY <2>3, <4>1, <4>2
      <4> QED
        BY <2>5, <3>1, <4>3
    <3>4. CASE m <= Len(notices) /\ n > Len(notices)
      <4>1. m \in Rows /\ n - Len(notices) \in 1..Len(order)
        BY <2>5, <3>1, <3>4 DEF Rows
      <4>2. order[n - Len(notices)] \in found[r]
        BY <2>3, <4>1, ElementOfSeq
      <4>3. notices[m] \in found[r]
        BY <2>4, <2>5, <3>1, <3>4, <4>2
      <4> QED
        BY <1>2, <4>1, <4>3 DEF CommitPublish, Publishing
    <3> QED
      BY <2>5, <3>1, <3>2, <3>3, <3>4
  <2>10. Mailing'
    BY <1>2, MailingStays DEF CommitPublish
  <2> QED
    BY <2>7, <2>8, <2>9, <2>10
<1>3. CASE RefusePublish(r)
  <2>1. NoticeTypeOK'
    BY <1>3 DEF RefusePublish, NoticeTypeOK, Rows
  <2>2. Publishing'
    BY <1>3 DEF RefusePublish, Publishing, NoticeTypeOK, Rows
  <2>3. NotifiedOnce' /\ Mailing'
    BY <1>3, MailingStays DEF RefusePublish, NotifiedOnce, Rows
  <2> QED
    BY <2>1, <2>2, <2>3
<1> QED
  BY <1>1, <1>2, <1>3

\* Steps that leave the publication alone.
LEMMA PublishingStays ==
  ASSUME Publishing, NotifiedOnce,
         UNCHANGED <<notices, lock, found>>,
         \A q \in Schedulers : cycle'[q] = "inserting" => cycle[q] = "inserting"
  PROVE  Publishing' /\ NotifiedOnce'
<1> QED
  BY DEF Publishing, NotifiedOnce, Rows

\* The e-mails: a cycle lists, asks and marks.
LEMMA MailKeepsNInv ==
  ASSUME NInv, NEW r \in Schedulers,
         ListPending(r) \/ (\E n \in Rows : EnsureEmail(r, n)) \/ MarkQueued(r) \/ EndCycle(r)
  PROVE  NInv'
<1> USE NotificationAssumptions DEF NInv, noticeTable
<1>0. notices \in Seq(Subjects) /\ Rows \subseteq 1..MaxNotices
  BY DEF NoticeTypeOK, Rows
<1>1. CASE ListPending(r)
  <2>1. Oldest(Unmailed) \subseteq Rows /\ \A n \in Oldest(Unmailed) : n \notin marked
    BY DEF Oldest, Unmailed
  <2>2. NoticeTypeOK'
    BY <1>1, <2>1 DEF ListPending, NoticeTypeOK, Rows
  <2>3. Publishing' /\ NotifiedOnce'
    BY <1>1, PublishingStays DEF ListPending, NoticeTypeOK
  <2>4. Closed'
    BY <1>1, <2>1 DEF ListPending, Mailing, Closed, NoticeTypeOK
  <2> QED
    BY <1>1, <2>2, <2>3, <2>4 DEF ListPending, Mailing, Counted, Followed, Once
<1>2. ASSUME NEW n \in Rows, EnsureEmail(r, n) PROVE NInv'
  <2>1. n \in 1..MaxNotices /\ n \in listed[r]
    BY <1>0, <1>2 DEF EnsureEmail, NextListed
  <2>2. /\ asked'  = [asked EXCEPT ![r] = {n}] /\ asked[r] = {}
        /\ listed' = [listed EXCEPT ![r] = @ \ {n}]
        /\ UNCHANGED <<due, wanted, overlong, notices, marked, lock, cycle, found, swings, breaks, unmarked>>
    BY <1>2 DEF EnsureEmail, NextListed
  <2>3. \A q \in Schedulers : asked[q] \subseteq asked'[q] /\ listed'[q] \subseteq listed[q]
    BY <2>2 DEF NoticeTypeOK
  <2>4. \/ mail[n] # "none" /\ UNCHANGED <<mail, requests>>
        \/ /\ mail[n] = "none"
           /\ mail'     = [mail EXCEPT ![n] = "owed"]
           /\ requests' = [requests EXCEPT ![n] = IF @ < 2 THEN @ + 1 ELSE @]
    BY <1>2 DEF EnsureEmail, KeyFree
  <2>5. NoticeTypeOK'
    <3>1. mail' \in [1..MaxNotices -> {"none", "owed", "delivered", "failed", "old"}]
      BY <2>4 DEF NoticeTypeOK
    <3>2. requests' \in [1..MaxNotices -> 0..2]
      BY <2>1, <2>4 DEF NoticeTypeOK
    <3>3. /\ listed' \in [Schedulers -> SUBSET Rows]
          /\ asked' \in [Schedulers -> {{}} \cup {{m} : m \in Rows}]
      BY <1>2, <2>2 DEF NoticeTypeOK
    <3> QED
      BY <2>2, <3>1, <3>2, <3>3 DEF NoticeTypeOK, Rows
  <2>6. Publishing' /\ NotifiedOnce'
    BY <2>2, PublishingStays
  <2>7. \A m \in 1..MaxNotices \ {n} : mail'[m] = mail[m] /\ requests'[m] = requests[m]
    BY <2>1, <2>4 DEF NoticeTypeOK
  <2>8. requests'[n] > 0 /\ mail'[n] # "none" /\ n \in asked'[r]
    BY <2>1, <2>2, <2>4 DEF NoticeTypeOK, Mailing, Counted
  <2>9. Counted' /\ Followed'
    BY <2>2, <2>3, <2>7, <2>8 DEF Mailing, Counted, Followed
  <2>10. mail[n] \in {"none", "old"} => requests[n] = 0 \/ n \in unmarked
    <3>1. requests[n] \in 0..2 /\ Closed
      BY <2>1 DEF NoticeTypeOK, Mailing
    <3> QED
      BY <2>1, <3>1 DEF Closed
  <2>11. Closed'
    <3>1. mail'[n] \in {"none", "old"} => n \in unmarked
      BY <2>1, <2>4, <2>10 DEF NoticeTypeOK, Mailing, Counted
    <3> QED
      BY <2>2, <2>3, <2>7, <3>1 DEF Mailing, Closed
  <2>12. Once'
    <3>1. requests'[n] > 1 => n \in unmarked
      BY <2>1, <2>4, <2>10 DEF NoticeTypeOK, Mailing, Once
    <3> QED
      BY <2>2, <2>7, <3>1 DEF Mailing, Once
  <2> QED
    BY <2>5, <2>6, <2>9, <2>11, <2>12 DEF Mailing
<1>3. CASE MarkQueued(r)
  <2>1. asked[r] \subseteq Rows
    BY DEF NoticeTypeOK
  <2>2. NoticeTypeOK'
    BY <1>3, <2>1 DEF MarkQueued, NoticeTypeOK, Rows
  <2>3. Publishing' /\ NotifiedOnce'
    BY <1>3, PublishingStays DEF MarkQueued
  <2>4. Followed'
    BY <1>3 DEF MarkQueued, Mailing, Followed, NoticeTypeOK
  <2> QED
    BY <1>3, <2>2, <2>3, <2>4 DEF MarkQueued, Mailing, Counted, Closed, Once
<1>4. CASE EndCycle(r)
  <2>1. NoticeTypeOK'
    BY <1>4 DEF EndCycle, NoticeTypeOK, Rows
  <2>2. Publishing' /\ NotifiedOnce'
    BY <1>4, PublishingStays DEF EndCycle, NoticeTypeOK
  <2> QED
    BY <1>4, <2>1, <2>2, MailingStays DEF EndCycle
<1> QED
  BY <1>1, <1>2, <1>3, <1>4

\* Faults: what was asked for and is not marked counts as unmarked from then on.
LEMMA FaultKeepsNInv ==
  ASSUME NInv, NEW r \in Schedulers, LoseStatement(r) \/ CutCycle(r)
  PROVE  NInv'
<1> USE NotificationAssumptions DEF NInv, noticeTable
<1>0. asked[r] \subseteq Rows /\ breaks \in 0..MaxBreaks
  BY DEF NoticeTypeOK
<1>1. CASE LoseStatement(r)
  <2>1. /\ listed' \in [Schedulers -> SUBSET Rows]
        /\ asked' \in [Schedulers -> {{}} \cup {{m} : m \in Rows}]
        /\ unmarked \subseteq unmarked' /\ unmarked' \subseteq Rows
        /\ \A q \in Schedulers : /\ asked[q] \subseteq asked'[q] \cup unmarked'
                                 /\ listed'[q] \subseteq listed[q]
    BY <1>0, <1>1 DEF LoseStatement, NoticeTypeOK
  <2>2. breaks' \in 0..MaxBreaks /\ UNCHANGED <<due, wanted, overlong, noticeTable, lock, cycle, found, swings>>
    BY <1>0, <1>1 DEF LoseStatement, NotificationAssumptions
  <2>3. NoticeTypeOK'
    BY <2>1, <2>2 DEF NoticeTypeOK, Rows
  <2>4. Publishing' /\ NotifiedOnce'
    BY <2>2, PublishingStays
  <2> QED
    BY <2>1, <2>2, <2>3, <2>4 DEF Mailing, Counted, Followed, Closed, Once
<1>2. CASE CutCycle(r)
  <2>1. /\ listed' \in [Schedulers -> SUBSET Rows]
        /\ asked' \in [Schedulers -> {{}} \cup {{m} : m \in Rows}]
        /\ unmarked \subseteq unmarked' /\ unmarked' \subseteq Rows
        /\ \A q \in Schedulers : /\ asked[q] \subseteq asked'[q] \cup unmarked'
                                 /\ listed'[q] \subseteq listed[q]
    BY <1>0, <1>2 DEF CutCycle, NoticeTypeOK
  <2>2. breaks' \in 0..MaxBreaks /\ UNCHANGED <<due, wanted, overlong, noticeTable, swings>>
    BY <1>0, <1>2 DEF CutCycle, NotificationAssumptions
  <2>3. /\ lock' \in Schedulers \cup {NoReplica}
        /\ cycle' \in [Schedulers -> {"idle", "inserting", "listing", "mailing"}]
        /\ found' \in [Schedulers -> SUBSET Subjects]
    BY <1>2 DEF CutCycle, NoticeTypeOK
  <2>4. NoticeTypeOK'
    BY <2>1, <2>2, <2>3 DEF NoticeTypeOK, Rows
  <2>5. Publishing' /\ NotifiedOnce'
    BY <1>2 DEF CutCycle, Publishing, NotifiedOnce, NoticeTypeOK, Rows
  <2> QED
    BY <2>1, <2>2, <2>4, <2>5 DEF Mailing, Counted, Followed, Closed, Once
<1> QED
  BY <1>1, <1>2

\* Around the scheduler. A row of the queue is old only when no cycle has it in hand.
LEMMA OutsideKeepsNInv ==
  ASSUME NInv,
         \/ \E s \in Subjects : DueChanges(s) \/ PreferenceChanges(s)
         \/ \E n \in Rows : QueueMoves(n)
  PROVE  NInv'
<1> USE NotificationAssumptions DEF NInv, noticeTable, cycles
<1>1. ASSUME NEW s \in Subjects, DueChanges(s) \/ PreferenceChanges(s) PROVE NInv'
  <2>1. /\ due' \subseteq Subjects /\ wanted' \subseteq Subjects /\ swings' \in 0..MaxSwings
        /\ UNCHANGED <<overlong, noticeTable, cycles, breaks, unmarked>>
    BY <1>1 DEF DueChanges, PreferenceChanges, NoticeTypeOK, NotificationAssumptions
  <2>2. NoticeTypeOK'
    BY <2>1 DEF NoticeTypeOK, Rows
  <2>3. Publishing' /\ NotifiedOnce'
    BY <2>1, PublishingStays
  <2> QED
    BY <2>1, <2>2, <2>3, MailingStays
<1>2. ASSUME NEW n \in Rows, QueueMoves(n) PROVE NInv'
  <2>1. n \in 1..MaxNotices /\ notices \in Seq(Subjects)
    BY DEF NoticeTypeOK, Rows
  <2>2. UNCHANGED <<due, wanted, overlong, notices, marked, requests, cycles, swings, breaks, unmarked>>
    BY <1>2 DEF QueueMoves
  <2>3. /\ mail[n] # "none"
        /\ \E m \in {"none", "delivered", "failed", "old"} :
             /\ mail' = [mail EXCEPT ![n] = m]
             /\ m \in {"none", "old"} =>
                  \/ mail[n] = "old"
                  \/ \A r \in Schedulers : n \notin listed[r] \cup asked[r]
    BY <1>2 DEF QueueMoves
  <2>4. NoticeTypeOK'
    BY <2>1, <2>2, <2>3 DEF NoticeTypeOK, Rows
  <2>5. Publishing' /\ NotifiedOnce'
    BY <2>2, PublishingStays
  <2>6. \A m \in 1..MaxNotices \ {n} : mail'[m] = mail[m]
    BY <2>1, <2>3 DEF NoticeTypeOK
  <2>7. requests[n] > 0
    BY <2>1, <2>3 DEF Mailing, Counted
  <2>8. mail'[n] \in {"none", "old"} /\ n \notin unmarked =>
          n \in marked /\ \A r \in Schedulers : n \notin listed[r]
    BY <2>1, <2>3, <2>7 DEF NoticeTypeOK, Mailing, Followed, Closed
  <2>9. Counted' /\ Followed' /\ Closed' /\ Once'
    BY <2>2, <2>6, <2>7, <2>8 DEF Mailing, Counted, Followed, Closed, Once
  <2> QED
    BY <2>4, <2>5, <2>9 DEF Mailing
<1> QED
  BY <1>1, <1>2

\* Every step preserves the invariant.
LEMMA NextNInv == NInv /\ [NoticeNext]_noticeVars => NInv'
<1> SUFFICES ASSUME NInv, [NoticeNext]_noticeVars PROVE NInv'
  OBVIOUS
<1>1. CASE UNCHANGED noticeVars
  <2>1. UNCHANGED <<due, wanted, overlong, notices, marked, mail, requests, lock, cycle, found,
                    listed, asked, swings, breaks, unmarked>>
    BY <1>1 DEF noticeVars, noticeTable, cycles
  <2>2. Mailing'
    BY <2>1, MailingStays DEF NInv
  <2> QED
    BY <2>1, <2>2 DEF NInv, NoticeTypeOK, Publishing, NotifiedOnce, Rows
<1> QED
  BY <1>1, PublishKeepsNInv, MailKeepsNInv, FaultKeepsNInv, OutsideKeepsNInv DEF NoticeNext, CycleStep

\* NoticeSpec without its fairness, which safety does not need.
NoticeSafety == NoticeInit /\ [][NoticeNext]_noticeVars

LEMMA SpecIsSafe == NoticeSpec => NoticeSafety
<1> QED
  BY PTL DEF NoticeSpec, NoticeSafety

\* The invariant holds in every behaviour.
LEMMA NInvHolds == NoticeSafety => []NInv
<1> QED
  BY InitNInv, NextNInv, PTL DEF NoticeSafety

\* Every variable of Notifications stays in its type.
THEOREM NoticeTypes == NoticeSpec => []NoticeTypeOK
<1>1. NInv => NoticeTypeOK
  BY DEF NInv
<1> QED
  BY <1>1, NInvHolds, SpecIsSafe, PTL

\* PublishDueNotificationsLocked (admin.go): a person is told once of a deadline or
\* task, however many replicas publish.
THEOREM ToldOnce == NoticeSpec => []NotifiedOnce
<1>1. NInv => NotifiedOnce
  BY DEF NInv
<1> QED
  BY <1>1, NInvHolds, SpecIsSafe, PTL

\* The scheduler and EnsureEmail (scheduler.go, queue.go): a notification causes a
\* second e-mail only when a cycle that asked for the first did not get to mark it.
THEOREM MailedOnce == NoticeSpec => []MailedTwiceOnlyIfMarkLost
<1>1. NInv => MailedTwiceOnlyIfMarkLost
  <2> SUFFICES ASSUME NInv PROVE MailedTwiceOnlyIfMarkLost
    OBVIOUS
  <2>1. Rows \subseteq 1..MaxNotices
    BY NotificationAssumptions DEF NInv, NoticeTypeOK, Rows
  <2> QED
    BY <2>1 DEF NInv, Mailing, Once, MailedTwiceOnlyIfMarkLost
<1> QED
  BY <1>1, NInvHolds, SpecIsSafe, PTL

-----------------------------------------------------------------------------
\* What goes out by e-mail.

\* What is proved of the queue, and of notifications from their steps alone, holds of the
\* two together.
THEOREM MailingIsItsParts == MailingSpec => Spec /\ NoticeSafety
<1>1. MailingInit => Init /\ NoticeInit
  BY DEF MailingInit
<1>2. [OnNotices(NoticeNext) \/ OnMails(Next)]_mailingVars => [Next]_vars /\ [NoticeNext]_noticeVars
  BY DEF OnNotices, OnMails, mailingVars
<1> QED
  BY <1>1, <1>2, PTL DEF MailingSpec, Spec, NoticeSafety
=============================================================================
