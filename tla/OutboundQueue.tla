---------------------------- MODULE OutboundQueue ----------------------------
(***************************************************************************)
(* The outbound e-mail queue of internal/jobs/queue.go: the rows of the    *)
(* table outbound_jobs and one sequential worker per API replica.          *)
(*                                                                         *)
(* A worker claims a batch of due rows under a lease, hands each message   *)
(* to the SMTP sender, and records the outcome in a statement fenced by    *)
(* its worker identity. Everything a worker does in one cycle runs under   *)
(* one 45 second context; leases last five minutes. Workers crash and come *)
(* back with a fresh identity, answers of the database and of the SMTP     *)
(* server get lost, and the clock of a suspended replica may stand still   *)
(* while everybody else's runs. A payload is sealed under the secret of    *)
(* the replica that stores it, and a process that starts may be given      *)
(* another secret than the others have: it cannot open what they sealed.   *)
(*                                                                         *)
(* Time is a Tick that ages leases and contexts and counts backoffs down.  *)
(* Ages saturate at the limit they are compared with, attempts at          *)
(* AttemptCap (above every threshold), so the state space is finite and    *)
(* no comparison of the code changes its outcome.                          *)
(***************************************************************************)
EXTENDS Integers, FiniteSets

CONSTANTS
  Jobs,         \* identities of the rows that may be inserted
  Workers,      \* the queue workers, one per API replica
  MayStall,     \* workers whose replica may be suspended with its clock
  NoOne,        \* the NULL of locked_by
  Departed,     \* the identity of a worker process that no longer exists
  Secrets,      \* the values JOB_ENCRYPTION_SECRET is given
  FirstSecret,  \* the one every replica has at first
  BatchLimit,   \* LIMIT of the claim (10)
  MaxAttempts,  \* max_attempts of every row (5)
  WorkTimeout,  \* ticks of the per-cycle context (45 s)
  Lease,        \* ticks before a lease counts as abandoned (5 min)
  BackoffUnit,  \* ticks of the backoff unit (30 s)
  MaxCrashes,   \* bound: how many times worker processes may die
  AttemptCap    \* bound: attempts are counted up to this value

ASSUME QueueAssumptions ==
  /\ MayStall \subseteq Workers
  /\ NoOne \notin Workers /\ Departed \notin Workers /\ NoOne # Departed
  /\ FirstSecret \in Secrets
  /\ BatchLimit \in Nat \ {0}
  /\ MaxAttempts \in Nat \ {0}
  /\ WorkTimeout \in Nat \ {0}
  /\ Lease \in Nat \ {0}
  /\ WorkTimeout <= Lease
  /\ BackoffUnit \in Nat
  /\ MaxCrashes \in Nat
  /\ AttemptCap \in Nat /\ AttemptCap > MaxAttempts

VARIABLES
  status,    \* status of each row; "none" before the insert, "purged" after
  payload,   \* whether encrypted_payload is still there
  attempts,  \* attempts
  lockedBy,  \* locked_by
  lockAge,   \* ticks since locked_at
  wait,      \* ticks until available_at
  phase,     \* where each worker is in process()
  claimed,   \* claimed[w][j]: the attempts w's claim of j returned, 0 if none
  current,   \* the job whose outcome w is about to record
  ctxAge,    \* ticks since w created its work context
  crashes,   \* how many processes have died
  secret,    \* the secret each replica was started with
  sealed,    \* the secret each payload was sealed under, once there is one
  mixed,     \* history: while j was owed, a replica ran under another secret than j's
  accepts,   \* history: times the SMTP server accepted j, counted up to 2
  tried,     \* history: j was handed to the SMTP sender at least once
  uncertain  \* history: an outcome of j was, or may have been, left unrecorded

rows    == <<status, payload, attempts, lockedBy, lockAge, wait>>
workers == <<phase, claimed, current, ctxAge, crashes>>
history == <<accepts, tried, uncertain>>
secrets == <<secret, sealed, mixed>>
vars    == <<rows, workers, history, secrets>>

Statuses == {"none", "pending", "processing", "completed", "failed", "purged"}
Terminal == {"completed", "failed", "purged"}
Phases   == {"down", "idle", "deliver", "record_ok", "record_error"}
Busy     == {"deliver", "record_ok", "record_error"}
Owners   == Workers \cup {NoOne, Departed}

AtMost(n, cap) == IF n > cap THEN cap ELSE n

NothingClaimed == [j \in Jobs |-> 0]

\* The work context of w has not expired.
ContextAlive(w) == ctxAge[w] < WorkTimeout

\* The jobs of w's claimed batch it has not dealt with yet.
Batch(w) == {j \in Jobs : claimed[w][j] > 0}

\* A row that is neither finished nor still to be inserted.
Owed(j) == status[j] \in {"pending", "processing"}

\* Variants used to show that the properties notice a change of the code.
DueAnyLease == {j \in Jobs : \/ status[j] = "pending" /\ wait[j] = 0
                             \/ status[j] = "processing"}

DueWithoutReclaim == {j \in Jobs : status[j] = "pending" /\ wait[j] = 0}

\* The rows the claim statement selects.
Due == {j \in Jobs : \/ status[j] = "pending" /\ wait[j] = 0
                     \/ status[j] = "processing" /\ lockAge[j] >= Lease}

\* min(attempts, 6) doublings of the backoff unit; a claimed row has attempts >= 1.
Backoff(n) == BackoffUnit * (<<2, 4, 8, 16, 32, 64>>[AtMost(n, 6)])

Init ==
  /\ status    = [j \in Jobs |-> "none"]
  /\ payload   = [j \in Jobs |-> FALSE]
  /\ attempts  = [j \in Jobs |-> 0]
  /\ lockedBy  = [j \in Jobs |-> NoOne]
  /\ lockAge   = [j \in Jobs |-> 0]
  /\ wait      = [j \in Jobs |-> 0]
  /\ phase     = [w \in Workers |-> "idle"]
  /\ claimed   = [w \in Workers |-> NothingClaimed]
  /\ current   = [w \in Workers |-> {}]
  /\ ctxAge    = [w \in Workers |-> 0]
  /\ crashes   = 0
  /\ accepts   = [j \in Jobs |-> 0]
  /\ tried     = [j \in Jobs |-> FALSE]
  /\ uncertain = [j \in Jobs |-> FALSE]
  /\ secret    = [w \in Workers |-> FirstSecret]
  /\ sealed    = [j \in Jobs |-> FirstSecret]
  /\ mixed     = [j \in Jobs |-> FALSE]

-----------------------------------------------------------------------------
\* enqueueEmail on the replica of w: one INSERT. An EnsureEmail whose
\* deduplication key is taken changes nothing and is a stuttering step.
Enqueue(w, j) ==
  /\ phase[w] # "down"
  /\ status[j] = "none"
  /\ status'  = [status EXCEPT ![j] = "pending"]
  /\ payload' = [payload EXCEPT ![j] = TRUE]
  /\ sealed'  = [sealed EXCEPT ![j] = secret[w]]
  /\ mixed'   = [mixed EXCEPT ![j] = \E v \in Workers : phase[v] # "down" /\ secret[v] # secret[w]]
  /\ UNCHANGED <<attempts, lockedBy, lockAge, wait, secret, workers, history>>

\* The claim statement: up to BatchLimit due rows, in one statement. A row
\* that was still "processing" is taken over from whoever let its lease lapse.
LeaseAs(w, batch, taken) ==
  /\ batch \subseteq Due
  /\ Cardinality(batch) = AtMost(Cardinality(Due), BatchLimit)
  /\ status'    = [j \in Jobs |-> IF j \in batch THEN taken ELSE status[j]]
  /\ attempts'  = [j \in Jobs |-> IF j \in batch
                                  THEN AtMost(attempts[j] + 1, AttemptCap)
                                  ELSE attempts[j]]
  /\ lockedBy'  = [j \in Jobs |-> IF j \in batch THEN w ELSE lockedBy[j]]
  /\ lockAge'   = [j \in Jobs |-> IF j \in batch THEN 0 ELSE lockAge[j]]
  /\ uncertain' = [j \in Jobs |-> \/ uncertain[j]
                                  \/ j \in batch /\ status[j] = "processing"]
  /\ UNCHANGED <<payload, wait, accepts, tried>>

\* Variant: the claim forgets SET status='processing'.
TakeLeasesStillPending(w, batch) == LeaseAs(w, batch, "pending")

TakeLeases(w, batch) == LeaseAs(w, batch, "processing")

\* A cycle starts: fresh context, claim answered.
Claim(w) ==
  /\ phase[w] = "idle"
  /\ \E batch \in SUBSET Due :
       /\ TakeLeases(w, batch)
       /\ claimed' = [claimed EXCEPT ![w] =
                        [j \in Jobs |-> IF j \in batch THEN attempts'[j] ELSE 0]]
  /\ phase'  = [phase EXCEPT ![w] = "deliver"]
  /\ ctxAge' = [ctxAge EXCEPT ![w] = 0]
  /\ UNCHANGED <<current, crashes, secrets>>

\* The claim commits but its answer never arrives: process returns at once.
ClaimUnanswered(w) ==
  /\ phase[w] = "idle"
  /\ Due # {}
  /\ \E batch \in SUBSET Due : TakeLeases(w, batch)
  /\ UNCHANGED <<workers, secrets>>

\* What one SMTP exchange may come to: success is reported only after the
\* server took the message, but a broken DATA or QUIT answer makes the client
\* report an error for a message that was taken.
SmtpAnswer(accepted, reported) == reported => accepted

\* open: only the secret a payload was sealed under opens it, and what it then
\* yields is the message that was marshalled.
Opens(w, j) == sealed[j] = secret[w]

\* deliver, up to open: an error without an SMTP exchange.
OpenFails(w, j) ==
  /\ phase[w] = "deliver"
  /\ j \in Batch(w)
  /\ ContextAlive(w)
  /\ ~Opens(w, j)
  /\ current' = [current EXCEPT ![w] = {j}]
  /\ phase'   = [phase EXCEPT ![w] = "record_error"]
  /\ UNCHANGED <<rows, claimed, ctxAge, crashes, history, secrets>>

\* deliver, from Send on, with a live context.
Send(w, j) ==
  /\ phase[w] = "deliver"
  /\ j \in Batch(w)
  /\ ContextAlive(w)
  /\ Opens(w, j)
  /\ tried'   = [tried EXCEPT ![j] = TRUE]
  /\ current' = [current EXCEPT ![w] = {j}]
  /\ \E accepted, reported \in BOOLEAN :
       /\ SmtpAnswer(accepted, reported)
       /\ accepts'   = [accepts EXCEPT ![j] = IF accepted THEN AtMost(@ + 1, 2) ELSE @]
       /\ uncertain' = [uncertain EXCEPT ![j] = @ \/ (accepted /\ ~reported)]
       /\ phase'     = [phase EXCEPT ![w] = IF reported THEN "record_ok" ELSE "record_error"]
  /\ UNCHANGED <<rows, claimed, ctxAge, crashes, secrets>>

Deliver(w, j) == OpenFails(w, j) \/ Send(w, j)

\* Variant: the outcome statements without AND locked_by=$2.
HoldsAnyway(w, j) == status[j] \notin {"none", "purged"}

\* The fence of both outcome statements: WHERE id=$1 AND locked_by=$2.
Holds(w, j) == lockedBy[j] = w

Unlock(w, j) ==
  /\ lockedBy' = [lockedBy EXCEPT ![j] = IF Holds(w, j) THEN NoOne ELSE @]
  /\ lockAge'  = [lockAge EXCEPT ![j] = IF Holds(w, j) THEN 0 ELSE @]

\* The loop goes on to the next job of the batch.
NextJob(w, j) ==
  /\ phase'   = [phase EXCEPT ![w] = "deliver"]
  /\ claimed' = [claimed EXCEPT ![w][j] = 0]
  /\ current' = [current EXCEPT ![w] = {}]
  /\ UNCHANGED <<ctxAge, crashes>>

RecordCompleted(w, j) ==
  /\ phase[w] = "record_ok"
  /\ current[w] = {j}
  /\ ContextAlive(w)
  /\ status'  = [status EXCEPT ![j] = IF Holds(w, j) THEN "completed" ELSE @]
  /\ payload' = [payload EXCEPT ![j] = @ /\ ~Holds(w, j)]
  /\ Unlock(w, j)
  /\ NextJob(w, j)
  /\ UNCHANGED <<attempts, wait, history, secrets>>

\* The UPDATE of fail: back to `retry` with a backoff, or terminal if exhausted.
FailWith(w, j, exhausted, retry) ==
  /\ phase[w] = "record_error"
  /\ current[w] = {j}
  /\ ContextAlive(w)
  /\ status'  = [status EXCEPT ![j] =
                   IF ~Holds(w, j) THEN @ ELSE IF exhausted THEN "failed" ELSE retry]
  /\ payload' = [payload EXCEPT ![j] = @ /\ ~(Holds(w, j) /\ exhausted)]
  /\ wait'    = [wait EXCEPT ![j] = IF Holds(w, j) THEN Backoff(claimed[w][j]) ELSE @]
  /\ Unlock(w, j)
  /\ NextJob(w, j)
  /\ UNCHANGED <<attempts, history, secrets>>

\* Variants: gives up one attempt short; a status the workers do not know.
RecordFailedEarly(w, j) == FailWith(w, j, claimed[w][j] + 1 >= MaxAttempts, "pending")
RecordFailedOdd(w, j)   == FailWith(w, j, claimed[w][j] >= MaxAttempts, "retrying")

\* fail: terminal once the attempt count the claim returned reached max_attempts.
RecordFailed(w, j) == FailWith(w, j, claimed[w][j] >= MaxAttempts, "pending")

\* The outcome statement does not reach the table: the context expired or the
\* database failed. The error is logged and the loop goes on.
RecordLost(w, j) ==
  /\ phase[w] \in {"record_ok", "record_error"}
  /\ current[w] = {j}
  /\ NextJob(w, j)
  /\ UNCHANGED <<rows, history, secrets>>

\* Past the deadline every remaining job fails, in open or before it dials, and
\* every fail statement is refused: the rest of the batch is dropped, still leased.
DropRest(w) ==
  /\ phase[w] = "deliver"
  /\ Batch(w) # {}
  /\ ~ContextAlive(w)
  /\ claimed' = [claimed EXCEPT ![w] = NothingClaimed]
  /\ UNCHANGED <<rows, phase, current, ctxAge, crashes, history, secrets>>

\* End of the cycle: the DELETE of rows completed more than 30 days ago. The
\* model does not time 30 days: any set of completed rows may be old enough.
Finish(w) ==
  /\ phase[w] = "deliver"
  /\ Batch(w) = {}
  /\ \E old \in SUBSET {j \in Jobs : status[j] = "completed"} :
       /\ ContextAlive(w) \/ old = {}
       /\ status' = [j \in Jobs |-> IF j \in old THEN "purged" ELSE status[j]]
  /\ phase' = [phase EXCEPT ![w] = "idle"]
  /\ UNCHANGED <<payload, attempts, lockedBy, lockAge, wait,
                 claimed, current, ctxAge, crashes, history, secrets>>

-----------------------------------------------------------------------------
\* A process dies, or is shut down: its context is cancelled and nothing more
\* of it reaches the table. Its leases stay, under an identity nobody has.
Crash(w) ==
  /\ phase[w] # "down"
  /\ crashes < MaxCrashes
  /\ crashes'  = crashes + 1
  /\ phase'    = [phase EXCEPT ![w] = "down"]
  /\ claimed'  = [claimed EXCEPT ![w] = NothingClaimed]
  /\ current'  = [current EXCEPT ![w] = {}]
  /\ lockedBy' = [j \in Jobs |-> IF lockedBy[j] = w THEN Departed ELSE lockedBy[j]]
  /\ UNCHANGED <<status, payload, attempts, lockAge, wait, ctxAge, history, secrets>>

\* New: a fresh worker identity, and the secret of its configuration. Nothing
\* makes a deployment wait until what was sealed under another one is settled.
Restart(w) ==
  /\ phase[w] = "down"
  /\ phase' = [phase EXCEPT ![w] = "idle"]
  /\ \E s \in Secrets :
       /\ secret' = [secret EXCEPT ![w] = s]
       /\ mixed'  = [j \in Jobs |-> mixed[j] \/ (Owed(j) /\ sealed[j] # s)]
  /\ UNCHANGED <<rows, sealed, claimed, current, ctxAge, crashes, history>>

\* Time passes for the database and for every replica that is not suspended.
Tick ==
  /\ \E stalled \in SUBSET MayStall :
       ctxAge' = [w \in Workers |-> IF w \in stalled THEN ctxAge[w]
                                    ELSE AtMost(ctxAge[w] + 1, WorkTimeout)]
  /\ lockAge' = [j \in Jobs |-> IF status[j] = "processing"
                                THEN AtMost(lockAge[j] + 1, Lease)
                                ELSE lockAge[j]]
  /\ wait'    = [j \in Jobs |-> IF wait[j] > 0 THEN wait[j] - 1 ELSE 0]
  /\ UNCHANGED <<status, payload, attempts, lockedBy,
                 phase, claimed, current, crashes, history, secrets>>

\* What a worker does without an answer of anybody; only one of these is ever possible.
Housekeeping(w) == DropRest(w) \/ Finish(w) \/ Restart(w)

Record(w, j) == RecordCompleted(w, j) \/ RecordFailed(w, j)

Next ==
  \/ \E w \in Workers :
       \/ Claim(w)
       \/ ClaimUnanswered(w)
       \/ Housekeeping(w)
       \/ Crash(w)
       \/ \E j \in Jobs : \/ Enqueue(w, j)
                          \/ Deliver(w, j)
                          \/ Record(w, j)
                          \/ RecordLost(w, j)
  \/ Tick

Spec == Init /\ [][Next]_vars

-----------------------------------------------------------------------------
\* The environment and the scheduler: time passes; a worker that gives up an
\* expired batch, closes a cycle or is restarted gets to do so; and claims, SMTP
\* exchanges and outcome statements are answered within the context's life, if
\* not each time then again and again.
Fairness ==
  /\ WF_vars(Tick)
  /\ \A w \in Workers :
       /\ WF_vars(Housekeeping(w))
       /\ \A j \in Jobs : /\ SF_vars(Claim(w) /\ claimed'[w][j] > 0)
                          /\ SF_vars(Deliver(w, j))
                          /\ SF_vars(Record(w, j))
                          /\ WF_vars(RecordLost(w, j))

FairSpec == Spec /\ Fairness

-----------------------------------------------------------------------------
\* Every variable stays in its range.
TypeOK ==
  /\ status    \in [Jobs -> Statuses]
  /\ payload   \in [Jobs -> BOOLEAN]
  /\ attempts  \in [Jobs -> 0..AttemptCap]
  /\ lockedBy  \in [Jobs -> Owners]
  /\ lockAge   \in [Jobs -> 0..Lease]
  /\ wait      \in [Jobs -> Nat]
  /\ phase     \in [Workers -> Phases]
  /\ claimed   \in [Workers -> [Jobs -> 0..AttemptCap]]
  /\ current   \in [Workers -> {{}} \cup {{j} : j \in Jobs}]
  /\ ctxAge    \in [Workers -> 0..WorkTimeout]
  /\ crashes   \in 0..MaxCrashes
  /\ accepts   \in [Jobs -> 0..2]
  /\ tried     \in [Jobs -> BOOLEAN]
  /\ uncertain \in [Jobs -> BOOLEAN]
  /\ secret    \in [Workers -> Secrets]
  /\ sealed    \in [Jobs -> Secrets]
  /\ mixed     \in [Jobs -> BOOLEAN]

\* While a worker whose clock runs is inside a live context, every job left in
\* its batch is still leased to it: no other replica, crashed, expired or
\* suspended, can take the job over or overwrite its row. This is what
\* "SKIP LOCKED claims allow multiple replicas" rests on.
LeaseHeld ==
  \A w \in Workers \ MayStall : \A j \in Batch(w) :
    ContextAlive(w) =>
      /\ status[j] = "processing"
      /\ lockedBy[j] = w
      /\ attempts[j] = claimed[w][j]

\* Two replicas whose clocks run never have the same job in hand to send.
SendersExclusive ==
  \A v, w \in Workers \ MayStall :
    ContextAlive(v) /\ ContextAlive(w) /\ Batch(v) \cap Batch(w) # {} => v = w

\* The row keeps its ciphertext exactly as long as a delivery may still need
\* it, whatever late writer touches it: a retried row can always be decrypted,
\* a finished one never.
CiphertextMatchesStatus == \A j \in Jobs : payload[j] <=> Owed(j)

\* At-least-once: a row is completed, and later deleted, only after the SMTP
\* server accepted its message. It is failed only after max_attempts claims, and
\* without a hand-over to the sender only if, while it was owed, some replica ran
\* under another secret ("Drain or expire pending jobs before rotating",
\* docs/portal.md:11): a rotation between two mails costs neither.
NoMailDropped ==
  \A j \in Jobs :
    /\ status[j] \in {"completed", "purged"} => accepts[j] > 0
    /\ status[j] = "failed" => attempts[j] >= MaxAttempts /\ (tried[j] \/ mixed[j])

\* A recipient gets a message twice only if the outcome of a delivery was
\* uncertain: the server took a message but reported an error, or a lease was
\* abandoned and taken over. Retries alone never duplicate.
DuplicateNeedsUncertainty ==
  \A j \in Jobs : accepts[j] > 1 => uncertain[j]

\* A finished row is never reopened: a suspended worker that wakes up after
\* another one finished its job cannot put the row back.
TerminalIsFinal ==
  [][\A j \in Jobs : status[j] \in Terminal =>
       status'[j] = status[j] \/ (status[j] = "completed" /\ status'[j] = "purged")]_vars

\* Every accepted request for a mail is settled: delivered, or given up after
\* bounded retries. No crash, lost answer or abandoned lease strands a row.
EveryJobSettles == \A j \in Jobs : status[j] = "pending" ~> status[j] \in Terminal

\* The queue as its callers see it: leases, workers and retries hidden.
StageOf(s) ==
  CASE s = "none"                       -> "none"
    [] s \in {"pending", "processing"}  -> "owed"
    [] s = "completed"                  -> "delivered"
    [] s = "failed"                     -> "abandoned"
    [] s = "purged"                     -> "forgotten"

Promise == INSTANCE MailPromise WITH
  stage  <- [j \in Jobs |-> StageOf(status[j])],
  handed <- {j \in Jobs : tried[j]},
  taken  <- {j \in Jobs : accepts[j] > 0},
  locked <- {j \in Jobs : mixed[j]}

\* With no replica suspended, the queue keeps the promise of MailPromise: in
\* particular no mail goes out after its row is finished, and no row finishes
\* without the hand-over it reports, unless replicas disagreed on the secret.
KeepsPromise == Promise!Spec

\* "abandoned leases are reclaimed, and bounded retry ends in a terminal state"
\* (docs/architecture.md:27): no job is claimed more than max_attempts times.
RetryIsBounded == \A j \in Jobs : attempts[j] <= MaxAttempts

-----------------------------------------------------------------------------
\* The inductive invariant behind the safety properties, by part.

\* A worker has claimed jobs only inside a cycle, and a current job, one of
\* them, exactly while it records an outcome.
PhaseInv ==
  \A w \in Workers :
    /\ phase[w] \notin Busy => Batch(w) = {}
    /\ phase[w] \in {"record_ok", "record_error"} =>
         \E j \in Jobs : current[w] = {j} /\ claimed[w][j] > 0

\* A row is leased exactly while it is processing, keeps its ciphertext exactly
\* until it is finished, and nothing happens to it before it is there.
RowInv ==
  \A j \in Jobs :
    /\ lockedBy[j] # NoOne <=> status[j] = "processing"
    /\ payload[j] <=> status[j] \in {"pending", "processing"}
    /\ status[j] = "none" => attempts[j] = 0 /\ ~mixed[j]

\* The lease of a job in a live batch is intact and no older than the context.
LeaseInv ==
  \A w \in Workers \ MayStall : \A j \in Batch(w) :
    ContextAlive(w) =>
      /\ status[j] = "processing"
      /\ lockedBy[j] = w
      /\ attempts[j] = claimed[w][j]
      /\ lockAge[j] <= ctxAge[w]

\* What a claim returned is never ahead of the row; what is about to be
\* recorded did happen.
OutcomeInv ==
  \A w \in Workers : \A j \in Jobs :
    /\ claimed[w][j] <= attempts[j]
    /\ current[w] = {j} /\ phase[w] = "record_ok"    => accepts[j] > 0
    /\ current[w] = {j} /\ phase[w] = "record_error" => tried[j] \/ mixed[j]

\* Who cannot open an owed row, or one it has in hand, makes the secrets mixed.
SecretInv ==
  \A w \in Workers : \A j \in Jobs :
    secret[w] # sealed[j] /\ (claimed[w][j] > 0 \/ (phase[w] # "down" /\ Owed(j)))
      => mixed[j]

\* As long as no outcome of j is uncertain, whoever has j in its batch holds
\* its lease, and once j was accepted only a success is still to be recorded.
CertainAt(j) ==
  /\ \A w \in Workers : claimed[w][j] > 0 =>
       status[j] = "processing" /\ lockedBy[j] = w
  /\ accepts[j] > 0 =>
       /\ accepts[j] = 1
       /\ status[j] \in {"processing", "completed", "purged"}
       /\ \A w \in Workers : claimed[w][j] > 0 =>
            phase[w] = "record_ok" /\ current[w] = {j}

CertainInv == \A j \in Jobs : ~uncertain[j] => CertainAt(j)

IInv ==
  /\ TypeOK
  /\ PhaseInv
  /\ RowInv
  /\ LeaseInv
  /\ OutcomeInv
  /\ SecretInv
  /\ NoMailDropped
  /\ CertainInv

=============================================================================
