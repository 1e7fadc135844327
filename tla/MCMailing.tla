------------------------------ MODULE MCMailing ------------------------------
(***************************************************************************)
(* What goes out by e-mail, on small instances, for TLC: the notifications *)
(* of due work, and the queue with no replica suspended. All a scheduler   *)
(* sees of the queue is whether the row of a notification is there, which  *)
(* its own model decides as MailPromise lets it; so one side moves while   *)
(* the other stays as it began. Fairness speaks of the side that moves.    *)
(***************************************************************************)
EXTENDS Notifications, OutboundQueue, TLC

VARIABLE side  \* what this behaviour is about

mailingVars == <<noticeVars, vars, side>>

MailingInit ==
  /\ NoticeInit /\ Init
  /\ side \in {"notices", "mails"}
  /\ side = "mails" => overlong = {}

OnNotices(A) == side = "notices" /\ A /\ UNCHANGED <<vars, side>>
OnMails(A)   == side = "mails" /\ A /\ UNCHANGED <<noticeVars, side>>

\* The fairness of NoticeSpec, and that of FairSpec.
MailingFairness ==
  /\ \A r \in Schedulers : WF_mailingVars(OnNotices(CycleStep(r)))
  /\ WF_mailingVars(OnMails(Tick))
  /\ \A w \in Workers :
       /\ WF_mailingVars(OnMails(Housekeeping(w)))
       /\ \A j \in Jobs : /\ SF_mailingVars(OnMails(Claim(w) /\ claimed'[w][j] > 0))
                          /\ SF_mailingVars(OnMails(Deliver(w, j)))
                          /\ SF_mailingVars(OnMails(Record(w, j)))
                          /\ WF_mailingVars(OnMails(RecordLost(w, j)))

MailingSpec ==
  /\ MailingInit
  /\ [][OnNotices(NoticeNext) \/ OnMails(Next)]_mailingVars
  /\ MailingFairness
=============================================================================
