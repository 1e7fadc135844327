----------------------------- MODULE MailPromise -----------------------------
(***************************************************************************)
(* What the outbound queue promises to the code that asks for a mail, with *)
(* no leases, workers, clocks or retries in sight. A requested mail is     *)
(* owed until it is settled. While it is owed, and only then, it is handed *)
(* to the SMTP server, any number of times. It is settled as delivered     *)
(* once the server took it; or abandoned, after it was handed over at      *)
(* least once, or when it was locked away from some sender meanwhile. A    *)
(* delivered mail is forgotten at some later time.                         *)
(***************************************************************************)
CONSTANT Jobs

VARIABLES
  stage,   \* none, owed, delivered, abandoned or forgotten
  handed,  \* the mails handed over at least once
  taken,   \* the mails the server took at least once
  locked   \* the mails some sender could not open while they were owed

vars == <<stage, handed, taken, locked>>

Init ==
  /\ stage  = [j \in Jobs |-> "none"]
  /\ handed = {}
  /\ taken  = {}
  /\ locked = {}

Request(j) ==
  /\ stage[j] = "none"
  /\ stage'  = [stage EXCEPT ![j] = "owed"]
  /\ locked' \in {locked, locked \cup {j}}
  /\ UNCHANGED <<handed, taken>>

\* A sender starts that cannot open what others store: only owed mails are hit.
LockAway ==
  /\ \E new \in SUBSET {j \in Jobs : stage[j] = "owed"} : locked' = locked \cup new
  /\ UNCHANGED <<stage, handed, taken>>

HandOver(j) ==
  /\ stage[j] = "owed"
  /\ handed' = handed \cup {j}
  /\ taken' \in {taken, taken \cup {j}}
  /\ UNCHANGED <<stage, locked>>

Deliver(j) ==
  /\ stage[j] = "owed"
  /\ j \in taken
  /\ stage' = [stage EXCEPT ![j] = "delivered"]
  /\ UNCHANGED <<handed, taken, locked>>

Abandon(j) ==
  /\ stage[j] = "owed"
  /\ j \in handed \cup locked
  /\ stage' = [stage EXCEPT ![j] = "abandoned"]
  /\ UNCHANGED <<handed, taken, locked>>

\* Rows older than 30 days are deleted together.
Forget ==
  /\ \E old \in SUBSET {j \in Jobs : stage[j] = "delivered"} :
       stage' = [j \in Jobs |-> IF j \in old THEN "forgotten" ELSE stage[j]]
  /\ UNCHANGED <<handed, taken, locked>>

Next ==
  \/ \E j \in Jobs : Request(j) \/ HandOver(j) \/ Deliver(j) \/ Abandon(j)
  \/ LockAway \/ Forget

Spec == Init /\ [][Next]_vars

=============================================================================
