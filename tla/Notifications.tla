----------------------------- MODULE Notifications -----------------------------
(***************************************************************************)
(* The notifications of due deadlines and overdue tasks and the e-mails    *)
(* they cause (internal/scheduler/scheduler.go, the notification functions *)
(* of internal/repository/admin.go, EnsureEmail of internal/jobs/queue.go).*)
(*                                                                         *)
(* Every API replica runs a cycle once a minute. The replica that gets the *)
(* advisory lock publishes what is due in one transaction, which releases  *)
(* the lock, and only then lists the notifications without e-mail and asks *)
(* the queue for each of them, in one statement, and marks it, in another. *)
(* So cycles overlap, and a cycle may end anywhere: its context lasts 20   *)
(* seconds, the process may die, the database may fail to answer. The      *)
(* queue's row is taken through the life MailPromise gives it; its         *)
(* deduplication key is free again once the row is deleted.                *)
(*                                                                         *)
(* A subject is a deadline or task with the person it is assigned to: the  *)
(* pair the NOT EXISTS of the publication looks at. Titles of work are kept *)
(* to 200 characters, titles of notifications to 180: work with a title in *)
(* between makes the INSERT of everyone's notifications fail. Reading a    *)
(* notification (read_at) decides nothing else and is left out.            *)
(***************************************************************************)
EXTENDS Integers, FiniteSets, Sequences

CONSTANTS
  Subjects,   \* deadlines and tasks, each with an assignee
  Schedulers, \* the replicas that run the scheduler
  NoReplica,  \* the advisory lock is free
  ListLimit,  \* LIMIT of the list (100)
  MaxNotices, \* bound: rows of notifications
  MaxSwings,  \* bound: how often work is finished or reopened, alerts switched
  MaxBreaks   \* bound: how many cycles are cut short or lose a statement

ASSUME NotificationAssumptions ==
  /\ NoReplica \notin Schedulers
  /\ IsFiniteSet(Subjects) /\ Subjects # {}
  /\ ListLimit \in Nat \ {0}
  /\ MaxNotices \in Nat /\ MaxSwings \in Nat /\ MaxBreaks \in Nat

VARIABLES
  due,      \* subjects that are open, assigned and due
  wanted,   \* subjects whose assignee is active and opted in to the e-mail
  overlong, \* subjects whose title a notification cannot hold
  notices,  \* the table, oldest first: the subject of each row
  marked,   \* rows with email_queued_at
  mail,     \* mail[n]: the queue's row under key notification:<n>
  lock,     \* who holds the advisory lock
  cycle,    \* where each replica is: idle, inserting, listing or mailing
  found,    \* what the INSERT of its publication is to insert
  listed,   \* rows a replica listed and has not come to yet
  asked,    \* the row whose e-mail a replica just asked for, as a set
  swings,   \* bound: changes of due and wanted so far
  breaks,   \* bound: faults so far
  requests, \* history: rows the queue inserted for n, counted up to 2
  unmarked  \* history: rows a cycle asked for and did not get to mark

noticeTable == <<notices, marked, mail, requests>>
cycles      == <<lock, cycle, found, listed, asked>>
noticeVars  == <<due, wanted, overlong, noticeTable, cycles, swings, breaks, unmarked>>

Rows == 1..Len(notices)

\* The life of the queue's row: owed until delivered or failed; 30 days after it
\* was delivered it is old, and deleted at the end of a worker's cycle. A cycle of
\* the scheduler that was under way at the delivery is over by then.
Settled == {"delivered", "failed", "old"}

\* It begins when everybody has opted in; one title may be too long, and its work due.
NoticeInit ==
  /\ overlong \in {{}, {CHOOSE s \in Subjects : TRUE}}
  /\ due      \in {{}, overlong}
  /\ wanted   = Subjects
  /\ notices  = <<>>
  /\ marked   = {}
  /\ mail     = [n \in 1..MaxNotices |-> "none"]
  /\ lock     = NoReplica
  /\ cycle    = [r \in Schedulers |-> "idle"]
  /\ found    = [r \in Schedulers |-> {}]
  /\ listed   = [r \in Schedulers |-> {}]
  /\ asked    = [r \in Schedulers |-> {}]
  /\ swings   = 0
  /\ breaks   = 0
  /\ requests = [n \in 1..MaxNotices |-> 0]
  /\ unmarked = {}

-----------------------------------------------------------------------------
\* Around the scheduler.

\* Work becomes due, is finished, cancelled, reopened or assigned to another.
DueChanges(s) ==
  /\ swings < MaxSwings
  /\ swings' = swings + 1
  /\ due' = IF s \in due THEN due \ {s} ELSE due \cup {s}
  /\ UNCHANGED <<wanted, overlong, noticeTable, cycles, breaks, unmarked>>

\* UpdateNotificationPreferences, or the account is disabled or enabled.
PreferenceChanges(s) ==
  /\ swings < MaxSwings
  /\ swings' = swings + 1
  /\ wanted' = IF s \in wanted THEN wanted \ {s} ELSE wanted \cup {s}
  /\ UNCHANGED <<due, overlong, noticeTable, cycles, breaks, unmarked>>

\* What the queue's workers make of a row.
QueueMoves(n) ==
  /\ \/ /\ mail[n] = "owed"
        /\ \E s \in {"delivered", "failed"} : mail' = [mail EXCEPT ![n] = s]
     \/ /\ mail[n] = "delivered"
        /\ \A r \in Schedulers : n \notin listed[r] \cup asked[r]
        /\ mail' = [mail EXCEPT ![n] = "old"]
     \/ /\ mail[n] = "old"
        /\ mail' = [mail EXCEPT ![n] = "none"]
  /\ UNCHANGED <<due, wanted, overlong, notices, marked, requests, cycles, swings, breaks, unmarked>>

-----------------------------------------------------------------------------
\* The publication.

Unnotified == {s \in due : ~\E n \in Rows : notices[n] = s}

\* Variants: no advisory lock; the cycle goes on when it did not get the lock.
AnyoneLocks(r)  == r \in Schedulers
OnlyUnlocked(r) == lock \notin {NoReplica, r}
TryLock(r)      == lock = NoReplica

\* PublishDueNotificationsLocked: who gets the lock goes on to the INSERT, whose
\* NOT EXISTS sees what was committed when it starts.
BeginPublish(r) ==
  /\ cycle[r] = "idle"
  /\ TryLock(r)
  /\ lock'  = r
  /\ found' = [found EXCEPT ![r] = Unnotified]
  /\ cycle' = [cycle EXCEPT ![r] = "inserting"]
  /\ UNCHANGED <<due, wanted, overlong, noticeTable, listed, asked, swings, breaks, unmarked>>

Orders(S) == {o \in [1..Cardinality(S) -> S] : \A s \in S : \E i \in DOMAIN o : o[i] = s}

\* The commit: the rows, in the order of their random ids, and the lock.
CommitPublish(r) ==
  /\ cycle[r] = "inserting"
  /\ found[r] \cap overlong = {}
  /\ Len(notices) + Cardinality(found[r]) <= MaxNotices
  /\ \E rows \in Orders(found[r]) : notices' = notices \o rows
  /\ lock'  = NoReplica
  /\ found' = [found EXCEPT ![r] = {}]
  /\ cycle' = [cycle EXCEPT ![r] = "listing"]
  /\ UNCHANGED <<due, wanted, overlong, marked, mail, requests, listed, asked, swings, breaks, unmarked>>

\* One title that does not fit fails the statement for all; the cycle is over.
RefusePublish(r) ==
  /\ cycle[r] = "inserting"
  /\ found[r] \cap overlong # {}
  /\ lock'  = NoReplica
  /\ found' = [found EXCEPT ![r] = {}]
  /\ cycle' = [cycle EXCEPT ![r] = "idle"]
  /\ UNCHANGED <<due, wanted, overlong, noticeTable, listed, asked, swings, breaks, unmarked>>

-----------------------------------------------------------------------------
\* The e-mails.

Unmailed == {n \in Rows : n \notin marked /\ notices[n] \in wanted}

\* The oldest ListLimit of them.
Oldest(S) == {n \in S : Cardinality({m \in S : m <= n}) <= ListLimit}

\* PendingEmailNotifications.
ListPending(r) ==
  /\ cycle[r] = "listing"
  /\ listed' = [listed EXCEPT ![r] = Oldest(Unmailed)]
  /\ cycle'  = [cycle EXCEPT ![r] = "mailing"]
  /\ UNCHANGED <<due, wanted, overlong, noticeTable, lock, found, asked, swings, breaks, unmarked>>

NextListed(r, n) == asked[r] = {} /\ n \in listed[r] /\ \A m \in listed[r] : n <= m

\* Variant: no deduplication key.
KeyAlwaysFree(n) == n \in Rows
KeyFree(n)       == mail[n] = "none"

\* enqueueEmail: ON CONFLICT DO NOTHING, and accepted whether or not it inserted.
EnsureEmail(r, n) ==
  /\ cycle[r] = "mailing" /\ NextListed(r, n)
  /\ IF KeyFree(n)
     THEN /\ mail'     = [mail EXCEPT ![n] = "owed"]
          /\ requests' = [requests EXCEPT ![n] = IF @ < 2 THEN @ + 1 ELSE @]
     ELSE UNCHANGED <<mail, requests>>
  /\ asked'  = [asked EXCEPT ![r] = {n}]
  /\ listed' = [listed EXCEPT ![r] = @ \ {n}]
  /\ UNCHANGED <<due, wanted, overlong, notices, marked, lock, cycle, found, swings, breaks, unmarked>>

\* MarkNotificationEmailQueued.
MarkQueued(r) ==
  /\ asked[r] # {}
  /\ marked' = marked \cup asked[r]
  /\ asked'  = [asked EXCEPT ![r] = {}]
  /\ UNCHANGED <<due, wanted, overlong, notices, mail, requests, lock, cycle, found, listed,
                 swings, breaks, unmarked>>

EndCycle(r) ==
  /\ cycle[r] = "mailing" /\ listed[r] = {} /\ asked[r] = {}
  /\ cycle' = [cycle EXCEPT ![r] = "idle"]
  /\ UNCHANGED <<due, wanted, overlong, noticeTable, lock, found, listed, asked, swings, breaks, unmarked>>

\* A statement fails: the loop of the e-mails goes on with the next item.
LoseStatement(r) ==
  /\ breaks < MaxBreaks
  /\ breaks' = breaks + 1
  /\ \/ /\ asked[r] # {}
        /\ asked'    = [asked EXCEPT ![r] = {}]
        /\ unmarked' = unmarked \cup asked[r]
        /\ UNCHANGED listed
     \/ \E n \in listed[r] :
        /\ NextListed(r, n)
        /\ listed' = [listed EXCEPT ![r] = @ \ {n}]
        /\ UNCHANGED <<asked, unmarked>>
  /\ UNCHANGED <<due, wanted, overlong, noticeTable, lock, cycle, found, swings>>

\* The process dies or the 20 seconds are over: a transaction is rolled back.
CutCycle(r) ==
  /\ cycle[r] # "idle"
  /\ breaks < MaxBreaks
  /\ breaks'   = breaks + 1
  /\ lock'     = IF cycle[r] = "inserting" THEN NoReplica ELSE lock
  /\ cycle'    = [cycle EXCEPT ![r] = "idle"]
  /\ found'    = [found EXCEPT ![r] = {}]
  /\ listed'   = [listed EXCEPT ![r] = {}]
  /\ asked'    = [asked EXCEPT ![r] = {}]
  /\ unmarked' = unmarked \cup asked[r]
  /\ UNCHANGED <<due, wanted, overlong, noticeTable, swings>>

-----------------------------------------------------------------------------
CycleStep(r) ==
  \/ BeginPublish(r) \/ CommitPublish(r) \/ RefusePublish(r)
  \/ ListPending(r) \/ MarkQueued(r) \/ EndCycle(r)
  \/ \E n \in Rows : EnsureEmail(r, n)

NoticeNext ==
  \/ \E s \in Subjects : DueChanges(s) \/ PreferenceChanges(s)
  \/ \E n \in Rows : QueueMoves(n)
  \/ \E r \in Schedulers : CycleStep(r) \/ LoseStatement(r) \/ CutCycle(r)

\* Fair by the ticker of Run: a replica goes on, one statement after the other.
NoticeSpec ==
  /\ NoticeInit
  /\ [][NoticeNext]_noticeVars
  /\ \A r \in Schedulers : WF_noticeVars(CycleStep(r))

-----------------------------------------------------------------------------
\* Every variable stays in its type; what a cycle has in hand are rows that exist.
NoticeTypeOK ==
  /\ due \subseteq Subjects /\ wanted \subseteq Subjects /\ overlong \subseteq Subjects
  /\ notices \in Seq(Subjects) /\ Len(notices) <= MaxNotices
  /\ marked \subseteq Rows /\ unmarked \subseteq Rows
  /\ mail \in [1..MaxNotices -> {"none", "owed", "delivered", "failed", "old"}]
  /\ lock \in Schedulers \cup {NoReplica}
  /\ cycle \in [Schedulers -> {"idle", "inserting", "listing", "mailing"}]
  /\ found \in [Schedulers -> SUBSET Subjects]
  /\ listed \in [Schedulers -> SUBSET Rows]
  /\ asked \in [Schedulers -> {{}} \cup {{n} : n \in Rows}]
  /\ swings \in 0..MaxSwings /\ breaks \in 0..MaxBreaks
  /\ requests \in [1..MaxNotices -> 0..2]

\* A person is told once of a deadline or task, however many replicas publish:
\* the table has no unique constraint, only the lock stands behind NOT EXISTS.
NotifiedOnce == \A m, n \in Rows : notices[m] = notices[n] => m = n

\* docs/operations.md, "preventing duplicate queue entries": two cycles that list
\* the same notification queue one e-mail. A second one takes a mark that was
\* lost and a first row that was delivered and deleted since.
MailedTwiceOnlyIfMarkLost == \A n \in Rows : requests[n] > 1 => n \in unmarked

\* Due work whose assignee wants the e-mail gets one, unless that changes first:
\* no lost mark, cut cycle or held lock strands it. What does is other work, of
\* anybody, whose title is too long for a notification, as long as it is due.
EveryAlertIsMailed ==
  \A s \in Subjects :
    s \in due \cap wanted ~> \/ s \notin due \cap wanted
                             \/ \E n \in Rows : notices[n] = s /\ n \in marked
                             \/ due \cap overlong # {}
=============================================================================
