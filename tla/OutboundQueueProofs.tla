------------------------- MODULE OutboundQueueProofs -------------------------
(***************************************************************************)
(* Machine-checked proofs about OutboundQueue, for any number of jobs and  *)
(* workers, any timing with WorkTimeout <= Lease, any crash budget.        *)
(*                                                                         *)
(* IInv is shown inductive one action at a time; every safety property and *)
(* the refinement of MailPromise then follow from it.                      *)
(***************************************************************************)
EXTENDS OutboundQueue, TLAPS

\* The backoff table holds natural numbers wherever fail reads it.
LEMMA BackoffIsNat == ASSUME NEW n \in Nat \ {0} PROVE Backoff(n) \in Nat
  <1>1. AtMost(n, 6) \in 1..6
    BY DEF AtMost
  <1>2. <<2, 4, 8, 16, 32, 64>>[AtMost(n, 6)] \in Nat
    BY <1>1
  <1>3. BackoffUnit \in Nat
    BY QueueAssumptions
  <1> QED
    BY <1>2, <1>3 DEF Backoff

\* The job whose outcome is about to be recorded is one the worker claimed.
LEMMA CurrentIsClaimed ==
  ASSUME TypeOK, PhaseInv, NEW w \in Workers, NEW j \in Jobs,
         phase[w] \in {"record_ok", "record_error"}, current[w] = {j}
  PROVE  claimed[w][j] \in 1..AttemptCap
  <1>1. PICK i \in Jobs : current[w] = {i} /\ claimed[w][i] > 0
    BY DEF PhaseInv
  <1>2. i = j
    BY <1>1
  <1> QED
    BY <1>1, <1>2, QueueAssumptions DEF TypeOK

\* If w is about to send j and no outcome of j is uncertain, then w alone has
\* j in hand, holds its lease, and the server never accepted j.
LEMMA CertainSender ==
  ASSUME TypeOK, CertainInv, NEW w \in Workers, NEW j \in Jobs,
         ~uncertain[j], claimed[w][j] > 0, phase[w] # "record_ok"
  PROVE  /\ status[j] = "processing" /\ lockedBy[j] = w /\ accepts[j] = 0
         /\ \A v \in Workers : claimed[v][j] > 0 => v = w
  <1>1. CertainAt(j)
    BY DEF CertainInv
  <1>2. accepts[j] \in 0..2
    BY DEF TypeOK
  <1> QED
    BY <1>1, <1>2 DEF CertainAt

\* A step that leaves job k and the other workers alone leaves k certain.
LEMMA CertainFrame ==
  ASSUME CertainInv, NEW w \in Workers, NEW k \in Jobs, ~uncertain[k],
         status'[k] = status[k], lockedBy'[k] = lockedBy[k],
         accepts'[k] = accepts[k],
         \A v \in Workers : claimed'[v][k] = claimed[v][k],
         \A v \in Workers \ {w} : phase'[v] = phase[v] /\ current'[v] = current[v],
         phase[w] # "record_ok" \/ current[w] # {k}
  PROVE  CertainAt(k)'
  <1>1. CertainAt(k)
    BY DEF CertainInv
  <1>2. accepts[k] > 0 => ~(claimed[w][k] > 0)
    BY <1>1 DEF CertainAt
  <1> QED
    BY <1>1, <1>2 DEF CertainAt

\* The initial state satisfies the invariant.
LEMMA InitIInv == Init => IInv
  <1> SUFFICES ASSUME Init PROVE IInv
    OBVIOUS
  <1> USE QueueAssumptions DEF Init, NothingClaimed
  <1>1. TypeOK
    BY DEF TypeOK, Statuses, Owners, Phases
  <1>2. PhaseInv
    BY DEF PhaseInv, Batch, Busy
  <1>3. RowInv
    BY DEF RowInv
  <1>4. LeaseInv
    BY DEF LeaseInv, Batch
  <1>5. OutcomeInv
    BY DEF OutcomeInv
  <1>6. NoMailDropped
    BY DEF NoMailDropped
  <1>7. CertainInv
    BY DEF CertainInv, CertainAt
  <1>8. SecretInv
    BY DEF SecretInv
  <1> QED
    BY <1>1, <1>2, <1>3, <1>4, <1>5, <1>6, <1>7, <1>8 DEF IInv

\* Inserting a row preserves the invariant: nobody has it in hand yet.
LEMMA EnqueuePreserves ==
  ASSUME IInv, NEW w \in Workers, NEW j \in Jobs, Enqueue(w, j)
  PROVE  IInv'
  <1> USE DEF IInv, Enqueue, workers, history
  <1>0. \A v \in Workers : claimed[v][j] = 0
    BY QueueAssumptions DEF RowInv, OutcomeInv, TypeOK
  <1>1. TypeOK'
    BY DEF TypeOK, Statuses
  <1>2. PhaseInv'
    BY DEF PhaseInv, Batch
  <1>3. RowInv'
    BY DEF RowInv, TypeOK
  <1>4. LeaseInv'
    BY DEF LeaseInv, Batch, ContextAlive, TypeOK
  <1>5. OutcomeInv'
    <2>1. \A k \in Jobs : k # j => mixed'[k] = mixed[k]
      BY DEF TypeOK
    <2>2. \A v \in Workers : phase[v] \in {"record_ok", "record_error"} => current[v] # {j}
      BY <1>0 DEF PhaseInv
    <2> QED
      BY <2>1, <2>2 DEF OutcomeInv
  <1>6. NoMailDropped'
    BY DEF NoMailDropped, TypeOK
  <1>7. CertainInv'
    BY DEF CertainInv, CertainAt, TypeOK
  <1>8. SecretInv'
    <2> SUFFICES ASSUME NEW v \in Workers, NEW k \in Jobs, secret'[v] # sealed'[k],
                        claimed'[v][k] > 0 \/ (phase'[v] # "down" /\ Owed(k)')
                 PROVE  mixed'[k]
      BY DEF SecretInv
    <2>1. CASE k = j
      BY <1>0, <2>1 DEF TypeOK
    <2>2. CASE k # j
      <3>1. sealed'[k] = sealed[k] /\ mixed'[k] = mixed[k] /\ status'[k] = status[k]
        BY <2>2 DEF TypeOK
      <3> QED
        BY <3>1 DEF SecretInv, Owed
    <2> QED
      BY <2>1, <2>2
  <1> QED
    BY <1>1, <1>2, <1>3, <1>4, <1>5, <1>6, <1>7, <1>8

\* A payload that cannot be opened preserves the invariant: the secrets are mixed.
LEMMA OpenFailsPreserves ==
  ASSUME IInv, NEW w \in Workers, NEW j \in Jobs, OpenFails(w, j)
  PROVE  IInv'
  <1> USE QueueAssumptions DEF IInv, OpenFails, Opens, rows, history, secrets
  <1>0. mixed[j] /\ claimed[w][j] > 0 /\ phase[w] = "deliver"
    BY DEF SecretInv, Batch
  <1>1. TypeOK'
    BY DEF TypeOK, Phases
  <1>2. PhaseInv'
    BY DEF PhaseInv, Batch, TypeOK, Busy, Phases
  <1>3. RowInv'
    BY DEF RowInv, TypeOK
  <1>4. LeaseInv'
    BY DEF LeaseInv, Batch, ContextAlive
  <1>5. OutcomeInv'
    BY <1>0 DEF OutcomeInv, TypeOK
  <1>6. NoMailDropped'
    BY DEF NoMailDropped
  <1>7. CertainInv'
    <2>1. \A k \in Jobs : ~uncertain[k] =>
            (accepts[k] > 0 => ~(claimed[w][k] > 0))
      BY <1>0 DEF CertainInv, CertainAt
    <2>2. \A v \in Workers \ {w} : phase'[v] = phase[v] /\ current'[v] = current[v]
      BY DEF TypeOK
    <2> QED
      BY <2>1, <2>2 DEF CertainInv, CertainAt
  <1>8. SecretInv'
    BY <1>0 DEF SecretInv, Owed, TypeOK
  <1> QED
    BY <1>1, <1>2, <1>3, <1>4, <1>5, <1>6, <1>7, <1>8

\* Handing a message to the SMTP server preserves the invariant.
LEMMA SendPreserves ==
  ASSUME IInv, NEW w \in Workers, NEW j \in Jobs, Send(w, j)
  PROVE  IInv'
  <1> USE QueueAssumptions DEF IInv, Send, SmtpAnswer, rows, secrets
  <1>1. TypeOK'
    <2>1. /\ phase' \in [Workers -> Phases] /\ current' \in [Workers -> {{}} \cup {{i} : i \in Jobs}]
          /\ tried' \in [Jobs -> BOOLEAN] /\ uncertain' \in [Jobs -> BOOLEAN]
      BY DEF TypeOK, Phases
    <2>2. accepts' \in [Jobs -> 0..2]
      BY DEF TypeOK, AtMost
    <2> QED
      BY <2>1, <2>2 DEF TypeOK
  <1>2. PhaseInv'
    BY DEF PhaseInv, Batch, TypeOK, Busy, Phases
  <1>3. RowInv'
    BY DEF RowInv, TypeOK
  <1>4. LeaseInv'
    BY DEF LeaseInv, PhaseInv, Batch, ContextAlive, TypeOK, Busy
  <1>5. OutcomeInv'
    <2>1. accepts[j] \in 0..2
      BY DEF TypeOK
    <2>2. tried'[j] /\ (phase'[w] = "record_ok" => accepts'[j] > 0)
      BY <2>1 DEF TypeOK, AtMost
    <2>3. ASSUME NEW k \in Jobs
          PROVE  (accepts[k] > 0 => accepts'[k] > 0) /\ (tried[k] => tried'[k])
      <3>1. CASE k = j
        BY <2>1, <3>1 DEF TypeOK, AtMost
      <3>2. CASE k # j
        BY <3>2 DEF TypeOK
      <3> QED
        BY <3>1, <3>2
    <2>4. current'[w] = {j}
      BY DEF TypeOK
    <2>5. \A v \in Workers \ {w} : phase'[v] = phase[v] /\ current'[v] = current[v]
      BY DEF TypeOK
    <2>6. claimed' = claimed /\ attempts' = attempts /\ mixed' = mixed
      OBVIOUS
    <2> HIDE DEF IInv, Send
    <2> QED
      BY <2>2, <2>3, <2>4, <2>5, <2>6 DEF OutcomeInv, IInv
  <1>6. NoMailDropped'
    <2>0. accepts[j] \in 0..2
      BY DEF TypeOK
    <2>1. status' = status /\ attempts' = attempts /\ mixed' = mixed
      OBVIOUS
    <2>2. \A k \in Jobs : tried[k] => tried'[k]
      BY DEF TypeOK
    <2>3. ASSUME NEW k \in Jobs, accepts[k] > 0 PROVE accepts'[k] > 0
      <3>1. CASE k = j
        BY <2>0, <2>3, <3>1 DEF TypeOK, AtMost
      <3>2. CASE k # j
        BY <2>3, <3>2 DEF TypeOK
      <3> QED
        BY <3>1, <3>2
    <2>4. NoMailDropped
      BY DEF IInv
    <2> HIDE DEF Send, IInv
    <2> QED
      BY <2>1, <2>2, <2>3, <2>4 DEF NoMailDropped
  <1>7. CertainInv'
    <2>1. SUFFICES ASSUME NEW k \in Jobs, ~uncertain'[k] PROVE CertainAt(k)'
      BY DEF CertainInv
    <2>2. claimed[w][j] > 0 /\ phase[w] = "deliver"
      BY DEF Batch
    <2>3. ~uncertain[k]
      BY <2>1 DEF TypeOK
    <2>4. CASE k = j
      <3>1. /\ status[j] = "processing" /\ lockedBy[j] = w /\ accepts[j] = 0
            /\ \A v \in Workers : claimed[v][j] > 0 => v = w
        BY <2>2, <2>3, <2>4, CertainSender
      <3>2. accepts'[j] > 0 => accepts'[j] = 1 /\ phase'[w] = "record_ok"
        BY <2>1, <2>4, <3>1 DEF TypeOK, AtMost
      <3>3. current'[w] = {j}
        BY DEF TypeOK
      <3>4. status' = status /\ lockedBy' = lockedBy /\ claimed' = claimed
        OBVIOUS
      <3> HIDE DEF IInv, Send
      <3> QED
        BY <2>4, <3>1, <3>2, <3>3, <3>4 DEF CertainAt
    <2>5. CASE k # j
      <3>1. accepts'[k] = accepts[k]
        BY <2>5 DEF TypeOK
      <3>2. \A v \in Workers \ {w} : phase'[v] = phase[v] /\ current'[v] = current[v]
        BY DEF TypeOK
      <3> QED
        BY <2>2, <2>3, <3>1, <3>2, CertainFrame
    <2> QED
      BY <2>4, <2>5
  <1>8. SecretInv'
    BY DEF SecretInv, Owed, TypeOK, PhaseInv, RowInv, Batch, Busy
  <1> QED
    BY <1>1, <1>2, <1>3, <1>4, <1>5, <1>6, <1>7, <1>8

\* Giving up an expired batch preserves the invariant.
LEMMA DropRestPreserves ==
  ASSUME IInv, NEW w \in Workers, DropRest(w)
  PROVE  IInv'
  <1> USE QueueAssumptions DEF IInv, DropRest, rows, history, NothingClaimed, secrets
  <1>1. TypeOK'
    BY DEF TypeOK, PhaseInv, Statuses, Phases, Owners, Batch, AtMost
  <1>2. PhaseInv'
    BY DEF PhaseInv, Batch, TypeOK, Busy, Phases
  <1>3. RowInv'
    BY DEF RowInv, TypeOK
  <1>4. LeaseInv'
    BY DEF LeaseInv, PhaseInv, Batch, ContextAlive, TypeOK, Busy
  <1>5. OutcomeInv'
    BY DEF OutcomeInv, PhaseInv, TypeOK, Batch
  <1>6. NoMailDropped'
    BY DEF NoMailDropped, OutcomeInv, TypeOK
  <1>7. CertainInv'
    BY DEF CertainInv, CertainAt, PhaseInv, TypeOK, RowInv, Batch
  <1>8. SecretInv'
    BY DEF SecretInv, Owed, TypeOK, PhaseInv, RowInv, Batch, Busy
  <1> QED
    BY <1>1, <1>2, <1>3, <1>4, <1>5, <1>6, <1>7, <1>8

\* Closing a cycle and purging old rows preserves the invariant.
LEMMA FinishPreserves ==
  ASSUME IInv, NEW w \in Workers, Finish(w)
  PROVE  IInv'
  <1> USE QueueAssumptions DEF IInv, Finish, history, secrets
  <1>1. TypeOK'
    BY DEF TypeOK, PhaseInv, Statuses, Phases, Owners, Batch, AtMost
  <1>2. PhaseInv'
    BY DEF PhaseInv, Batch, TypeOK, Busy, Phases
  <1>3. RowInv'
    BY DEF RowInv, TypeOK
  <1>4. LeaseInv'
    BY DEF LeaseInv, PhaseInv, Batch, ContextAlive, TypeOK, Busy
  <1>5. OutcomeInv'
    BY DEF OutcomeInv, PhaseInv, TypeOK, Batch
  <1>6. NoMailDropped'
    BY DEF NoMailDropped, OutcomeInv, TypeOK
  <1>7. CertainInv'
    BY DEF CertainInv, CertainAt, PhaseInv, TypeOK, RowInv, Batch
  <1>8. SecretInv'
    BY DEF SecretInv, Owed, TypeOK, PhaseInv, RowInv, Batch, Busy
  <1> QED
    BY <1>1, <1>2, <1>3, <1>4, <1>5, <1>6, <1>7, <1>8

\* The death of a worker process preserves the invariant.
LEMMA CrashPreserves ==
  ASSUME IInv, NEW w \in Workers, Crash(w)
  PROVE  IInv'
  <1> USE QueueAssumptions DEF IInv, Crash, history, NothingClaimed, secrets
  <1>1. TypeOK'
    <2>1. crashes' \in 0..MaxCrashes /\ lockedBy' \in [Jobs -> Owners]
      BY DEF TypeOK, Owners
    <2>2. claimed' \in [Workers -> [Jobs -> 0..AttemptCap]]
      BY DEF TypeOK
    <2>3. phase' \in [Workers -> Phases] /\ current' \in [Workers -> {{}} \cup {{i} : i \in Jobs}]
      BY DEF TypeOK, Phases
    <2> QED
      BY <2>1, <2>2, <2>3 DEF TypeOK
  <1>2. PhaseInv'
    BY DEF PhaseInv, Batch, TypeOK, Busy, Phases
  <1>3. RowInv'
    BY DEF RowInv, TypeOK
  <1>4. LeaseInv'
    BY DEF LeaseInv, PhaseInv, Batch, ContextAlive, TypeOK, Busy
  <1>5. OutcomeInv'
    BY DEF OutcomeInv, PhaseInv, TypeOK, Batch
  <1>6. NoMailDropped'
    BY DEF NoMailDropped, OutcomeInv, TypeOK
  <1>7. CertainInv'
    BY DEF CertainInv, CertainAt, PhaseInv, TypeOK, RowInv, Batch
  <1>8. SecretInv'
    BY DEF SecretInv, Owed, TypeOK, PhaseInv, RowInv, Batch, Busy
  <1> QED
    BY <1>1, <1>2, <1>3, <1>4, <1>5, <1>6, <1>7, <1>8

\* A new worker process preserves the invariant.
LEMMA RestartPreserves ==
  ASSUME IInv, NEW w \in Workers, Restart(w)
  PROVE  IInv'
  <1> USE QueueAssumptions DEF IInv, Restart, rows, history
  <1>1. TypeOK'
    BY DEF TypeOK, PhaseInv, Statuses, Phases, Owners, Batch, AtMost
  <1>2. PhaseInv'
    BY DEF PhaseInv, Batch, TypeOK, Busy, Phases
  <1>3. RowInv'
    BY DEF RowInv, TypeOK, Owed
  <1>4. LeaseInv'
    BY DEF LeaseInv, PhaseInv, Batch, ContextAlive, TypeOK, Busy
  <1>5. OutcomeInv'
    BY DEF OutcomeInv, PhaseInv, TypeOK, Batch
  <1>6. NoMailDropped'
    BY DEF NoMailDropped, OutcomeInv, TypeOK
  <1>7. CertainInv'
    BY DEF CertainInv, CertainAt, PhaseInv, TypeOK, RowInv, Batch
  <1>8. SecretInv'
    <2> SUFFICES ASSUME NEW v \in Workers, NEW k \in Jobs, secret'[v] # sealed[k],
                        claimed[v][k] > 0 \/ (phase'[v] # "down" /\ Owed(k))
                 PROVE  mixed'[k]
      BY DEF SecretInv, Owed
    <2>1. ~(claimed[w][k] > 0)
      BY DEF PhaseInv, Busy, Batch
    <2>2. CASE v = w
      BY <2>1, <2>2 DEF TypeOK
    <2>3. CASE v # w
      BY <2>3 DEF SecretInv, TypeOK
    <2> QED
      BY <2>2, <2>3
  <1> QED
    BY <1>1, <1>2, <1>3, <1>4, <1>5, <1>6, <1>7, <1>8

\* The passage of time preserves the invariant.
LEMMA TickPreserves ==
  ASSUME IInv, Tick
  PROVE  IInv'
  <1> USE QueueAssumptions DEF IInv, Tick, history, secrets
  <1>1. TypeOK'
    <2>1. ctxAge' \in [Workers -> 0..WorkTimeout]
      BY DEF TypeOK, AtMost
    <2>2. lockAge' \in [Jobs -> 0..Lease] /\ wait' \in [Jobs -> Nat]
      BY DEF TypeOK, AtMost
    <2> QED
      BY <2>1, <2>2 DEF TypeOK
  <1>2. PhaseInv'
    BY DEF PhaseInv, Batch, TypeOK, Busy, Phases
  <1>3. RowInv'
    BY DEF RowInv, TypeOK
  <1>4. LeaseInv'
    BY DEF LeaseInv, Batch, ContextAlive, TypeOK, AtMost
  <1>5. OutcomeInv'
    BY DEF OutcomeInv, PhaseInv, TypeOK, Batch
  <1>6. NoMailDropped'
    BY DEF NoMailDropped, OutcomeInv, TypeOK
  <1>7. CertainInv'
    BY DEF CertainInv, CertainAt, PhaseInv, TypeOK, RowInv, Batch
  <1>8. SecretInv'
    BY DEF SecretInv, Owed, TypeOK, PhaseInv, RowInv, Batch, Busy
  <1> QED
    BY <1>1, <1>2, <1>3, <1>4, <1>5, <1>6, <1>7, <1>8

\* Losing an outcome statement preserves the invariant.
LEMMA LostPreserves ==
  ASSUME IInv, NEW w \in Workers, NEW j \in Jobs, RecordLost(w, j)
  PROVE  IInv'
  <1> USE QueueAssumptions DEF IInv, RecordLost, NextJob, rows, history, secrets
  <1>1. TypeOK'
    BY DEF TypeOK, Statuses, Phases, Owners
  <1>2. PhaseInv'
    BY DEF PhaseInv, Batch, TypeOK, Busy, Phases
  <1>3. RowInv'
    BY DEF RowInv, TypeOK
  <1>4. LeaseInv'
    BY DEF LeaseInv, PhaseInv, Batch, ContextAlive, TypeOK, Busy
  <1>5. OutcomeInv'
    BY DEF OutcomeInv, PhaseInv, TypeOK, Batch
  <1>6. NoMailDropped'
    BY DEF NoMailDropped, OutcomeInv, TypeOK
  <1>7. CertainInv'
    <2>1. claimed[w][j] > 0
      BY CurrentIsClaimed
    <2>2. SUFFICES ASSUME NEW k \in Jobs, ~uncertain[k] PROVE CertainAt(k)'
      BY DEF CertainInv
    <2>3. CASE k = j
      BY <2>1, <2>2, <2>3 DEF CertainInv, CertainAt, TypeOK
    <2>4. CASE k # j
      <3>1. status'[k] = status[k] /\ lockedBy'[k] = lockedBy[k]
        BY <2>4 DEF TypeOK
      <3>2. \A v \in Workers : claimed'[v][k] = claimed[v][k]
        BY <2>4 DEF TypeOK
      <3>3. current[w] # {k}
        BY <2>4
      <3>4. \A v \in Workers \ {w} : phase'[v] = phase[v] /\ current'[v] = current[v]
        BY DEF TypeOK
      <3> QED
        BY <2>2, <3>1, <3>2, <3>3, <3>4, CertainFrame
    <2> QED
      BY <2>3, <2>4
  <1>8. SecretInv'
    BY DEF SecretInv, Owed, TypeOK, PhaseInv, RowInv, Batch, Busy
  <1> QED
    BY <1>1, <1>2, <1>3, <1>4, <1>5, <1>6, <1>7, <1>8

\* Recording a success preserves the invariant.
LEMMA CompletedPreserves ==
  ASSUME IInv, NEW w \in Workers, NEW j \in Jobs, RecordCompleted(w, j)
  PROVE  IInv'
  <1> USE QueueAssumptions DEF IInv, RecordCompleted, NextJob, Unlock, Holds, history, secrets
  <1>1. TypeOK'
    <2>1. status' \in [Jobs -> Statuses] /\ payload' \in [Jobs -> BOOLEAN]
      BY DEF TypeOK, Statuses
    <2>2. lockedBy' \in [Jobs -> Owners] /\ lockAge' \in [Jobs -> 0..Lease]
      BY DEF TypeOK, Owners
    <2>3. claimed' \in [Workers -> [Jobs -> 0..AttemptCap]]
      BY DEF TypeOK
    <2>4. phase' \in [Workers -> Phases] /\ current' \in [Workers -> {{}} \cup {{i} : i \in Jobs}]
      BY DEF TypeOK, Phases
    <2> QED
      BY <2>1, <2>2, <2>3, <2>4 DEF TypeOK
  <1>2. PhaseInv'
    BY DEF PhaseInv, Batch, TypeOK, Busy, Phases
  <1>3. RowInv'
    BY DEF RowInv, TypeOK
  <1>4. LeaseInv'
    BY DEF LeaseInv, PhaseInv, Batch, ContextAlive, TypeOK, Busy
  <1>5. OutcomeInv'
    BY DEF OutcomeInv, PhaseInv, TypeOK, Batch
  <1>6. NoMailDropped'
    BY DEF NoMailDropped, OutcomeInv, TypeOK
  <1>7. CertainInv'
    <2>1. claimed[w][j] > 0
      BY CurrentIsClaimed
    <2>2. SUFFICES ASSUME NEW k \in Jobs, ~uncertain[k] PROVE CertainAt(k)'
      BY DEF CertainInv
    <2>3. CASE k = j
      BY <2>1, <2>2, <2>3 DEF CertainInv, CertainAt, TypeOK
    <2>4. CASE k # j
      <3>1. status'[k] = status[k] /\ lockedBy'[k] = lockedBy[k]
        BY <2>4 DEF TypeOK
      <3>2. \A v \in Workers : claimed'[v][k] = claimed[v][k]
        BY <2>4 DEF TypeOK
      <3>3. current[w] # {k}
        BY <2>4
      <3>4. \A v \in Workers \ {w} : phase'[v] = phase[v] /\ current'[v] = current[v]
        BY DEF TypeOK
      <3> QED
        BY <2>2, <3>1, <3>2, <3>3, <3>4, CertainFrame
    <2> QED
      BY <2>3, <2>4
  <1>8. SecretInv'
    BY DEF SecretInv, Owed, TypeOK, PhaseInv, RowInv, Batch, Busy
  <1> QED
    BY <1>1, <1>2, <1>3, <1>4, <1>5, <1>6, <1>7, <1>8


\* Recording a failure preserves the invariant.
LEMMA FailedPreserves ==
  ASSUME IInv, NEW w \in Workers, NEW j \in Jobs, RecordFailed(w, j)
  PROVE  IInv'
  <1> USE QueueAssumptions DEF IInv, RecordFailed, FailWith, NextJob, Unlock, Holds, history, secrets
  <1>a. claimed[w][j] \in 1..AttemptCap
    BY CurrentIsClaimed
  <1>1. TypeOK'
    <2>1. Backoff(claimed[w][j]) \in Nat
      BY <1>a, BackoffIsNat
    <2>2. wait' \in [Jobs -> Nat]
      BY <2>1 DEF TypeOK
    <2>3. status' \in [Jobs -> Statuses] /\ payload' \in [Jobs -> BOOLEAN]
      BY DEF TypeOK, Statuses
    <2>4. lockedBy' \in [Jobs -> Owners] /\ lockAge' \in [Jobs -> 0..Lease]
      BY DEF TypeOK, Owners
    <2>5. /\ phase' \in [Workers -> Phases]
          /\ claimed' \in [Workers -> [Jobs -> 0..AttemptCap]]
          /\ current' \in [Workers -> {{}} \cup {{i} : i \in Jobs}]
      BY DEF TypeOK, Phases
    <2> QED
      BY <2>2, <2>3, <2>4, <2>5 DEF TypeOK
  <1>2. PhaseInv'
    BY DEF PhaseInv, Batch, TypeOK, Busy, Phases
  <1>3. RowInv'
    BY DEF RowInv, TypeOK
  <1>4. LeaseInv'
    BY DEF LeaseInv, PhaseInv, Batch, ContextAlive, TypeOK, Busy
  <1>5. OutcomeInv'
    BY DEF OutcomeInv, PhaseInv, TypeOK, Batch
  <1>6. NoMailDropped'
    BY <1>a DEF NoMailDropped, OutcomeInv, TypeOK
  <1>7. CertainInv'
    <2>1. claimed[w][j] > 0
      BY <1>a
    <2>2. SUFFICES ASSUME NEW k \in Jobs, ~uncertain[k] PROVE CertainAt(k)'
      BY DEF CertainInv
    <2>3. CASE k = j
      <3>1. accepts[j] = 0 /\ \A v \in Workers : claimed[v][j] > 0 => v = w
        BY <2>1, <2>2, <2>3, CertainSender
      <3>2. \A v \in Workers : ~(claimed'[v][j] > 0)
        BY <3>1 DEF TypeOK
      <3> QED
        BY <2>3, <3>1, <3>2 DEF CertainAt
    <2>4. CASE k # j
      <3>1. status'[k] = status[k] /\ lockedBy'[k] = lockedBy[k]
        BY <2>4 DEF TypeOK
      <3>2. \A v \in Workers : claimed'[v][k] = claimed[v][k]
        BY <2>4 DEF TypeOK
      <3>3. current[w] # {k}
        BY <2>4
      <3>4. \A v \in Workers \ {w} : phase'[v] = phase[v] /\ current'[v] = current[v]
        BY DEF TypeOK
      <3> QED
        BY <2>2, <3>1, <3>2, <3>3, <3>4, CertainFrame
    <2> QED
      BY <2>3, <2>4
  <1>8. SecretInv'
    BY DEF SecretInv, Owed, TypeOK, PhaseInv, RowInv, Batch, Busy
  <1> QED
    BY <1>1, <1>2, <1>3, <1>4, <1>5, <1>6, <1>7, <1>8

\* No row in a live batch of a worker whose clock runs is ever due: its lease
\* is younger than the context, and the context shorter than the lease.
LEMMA LiveBatchNotDue ==
  ASSUME TypeOK, LeaseInv, NEW w \in Workers \ MayStall, NEW j \in Batch(w),
         ContextAlive(w)
  PROVE  j \notin Due
  <1>1. j \in Jobs /\ status[j] = "processing" /\ lockAge[j] <= ctxAge[w]
    BY DEF LeaseInv, Batch
  <1>2. lockAge[j] \in Nat /\ ctxAge[w] \in Nat /\ ctxAge[w] < WorkTimeout
    BY <1>1, QueueAssumptions DEF TypeOK, ContextAlive
  <1> QED
    BY <1>1, <1>2, QueueAssumptions DEF Due

\* The claim statement alone preserves every part of the invariant that
\* does not look at what the claiming worker then does with its answer.
LEMMA LeasesPreserve ==
  ASSUME IInv, NEW w \in Workers, phase[w] = "idle", NEW batch \in SUBSET Due,
         TakeLeases(w, batch), UNCHANGED secrets
  PROVE  /\ status' \in [Jobs -> Statuses] /\ attempts' \in [Jobs -> 0..AttemptCap]
         /\ lockedBy' \in [Jobs -> Owners] /\ lockAge' \in [Jobs -> 0..Lease]
         /\ uncertain' \in [Jobs -> BOOLEAN]
         /\ payload' = payload /\ wait' = wait /\ accepts' = accepts /\ tried' = tried
         /\ RowInv' /\ NoMailDropped'
         /\ \A j \in Jobs : attempts[j] <= attempts'[j]
         /\ \A j \in batch : /\ status'[j] = "processing" /\ lockedBy'[j] = w
                             /\ lockAge'[j] = 0 /\ attempts'[j] > 0
         /\ \A j \in Jobs \ batch : /\ status'[j] = status[j] /\ lockedBy'[j] = lockedBy[j]
                                    /\ lockAge'[j] = lockAge[j]
                                    /\ attempts'[j] = attempts[j]
                                    /\ uncertain'[j] = uncertain[j]
         /\ \A j \in batch : ~uncertain'[j] => ~uncertain[j] /\ status[j] = "pending"
  <1> USE QueueAssumptions DEF IInv, TakeLeases, LeaseAs, secrets
  <1>1. batch \subseteq Jobs /\ \A j \in batch : status[j] \in {"pending", "processing"}
    BY DEF Due
  <1>2. \A j \in Jobs : attempts[j] \in 0..AttemptCap
    BY DEF TypeOK
  <1>3. \A j \in Jobs : /\ attempts[j] <= attempts'[j]
                        /\ attempts'[j] \in 0..AttemptCap
                        /\ j \in batch => attempts'[j] > 0
    BY <1>1, <1>2 DEF AtMost
  <1>4. /\ status' \in [Jobs -> Statuses] /\ attempts' \in [Jobs -> 0..AttemptCap]
        /\ lockedBy' \in [Jobs -> Owners] /\ lockAge' \in [Jobs -> 0..Lease]
        /\ uncertain' \in [Jobs -> BOOLEAN]
    BY <1>1, <1>3 DEF TypeOK, Statuses, Owners
  <1>5. /\ \A j \in batch : /\ status'[j] = "processing" /\ lockedBy'[j] = w
                            /\ lockAge'[j] = 0 /\ attempts'[j] > 0
        /\ \A j \in Jobs \ batch : /\ status'[j] = status[j] /\ lockedBy'[j] = lockedBy[j]
                                   /\ lockAge'[j] = lockAge[j]
                                   /\ attempts'[j] = attempts[j]
                                   /\ uncertain'[j] = uncertain[j]
    BY <1>1, <1>3 DEF TypeOK
  <1>6. \A j \in batch : ~uncertain'[j] => ~uncertain[j] /\ status[j] = "pending"
    BY <1>1
  <1>7. RowInv'
    BY <1>1, <1>5 DEF RowInv
  <1>8. NoMailDropped'
    BY <1>1, <1>5 DEF NoMailDropped
  <1> QED
    BY <1>3, <1>4, <1>5, <1>6, <1>7, <1>8

\* A claim whose answer arrives preserves the invariant.
LEMMA ClaimPreserves == ASSUME IInv, NEW w \in Workers, Claim(w) PROVE IInv'
  <1> USE QueueAssumptions
  <1>1. phase[w] = "idle" /\ UNCHANGED secrets
    BY DEF Claim
  <1>2. PICK batch \in SUBSET Due :
          /\ TakeLeases(w, batch)
          /\ claimed' = [claimed EXCEPT ![w] =
                           [j \in Jobs |-> IF j \in batch THEN attempts'[j] ELSE 0]]
    BY DEF Claim
  <1>3. /\ phase' = [phase EXCEPT ![w] = "deliver"]
        /\ ctxAge' = [ctxAge EXCEPT ![w] = 0]
        /\ current' = current /\ crashes' = crashes
    BY DEF Claim
  <1>4. TypeOK
    BY DEF IInv
  <1>5. /\ status' \in [Jobs -> Statuses] /\ attempts' \in [Jobs -> 0..AttemptCap]
        /\ lockedBy' \in [Jobs -> Owners] /\ lockAge' \in [Jobs -> 0..Lease]
        /\ uncertain' \in [Jobs -> BOOLEAN]
        /\ payload' = payload /\ wait' = wait /\ accepts' = accepts /\ tried' = tried
        /\ RowInv' /\ NoMailDropped'
    BY <1>1, <1>2, LeasesPreserve
  <1>6. /\ \A j \in batch : /\ status'[j] = "processing" /\ lockedBy'[j] = w
                            /\ lockAge'[j] = 0 /\ attempts'[j] > 0
        /\ \A j \in Jobs \ batch : /\ status'[j] = status[j] /\ lockedBy'[j] = lockedBy[j]
                                   /\ lockAge'[j] = lockAge[j]
                                   /\ attempts'[j] = attempts[j]
                                   /\ uncertain'[j] = uncertain[j]
    BY <1>1, <1>2, LeasesPreserve
  <1>7. /\ \A j \in Jobs : attempts[j] <= attempts'[j]
        /\ \A j \in batch : ~uncertain'[j] => ~uncertain[j] /\ status[j] = "pending"
    BY <1>1, <1>2, LeasesPreserve
  <1>8. /\ claimed' \in [Workers -> [Jobs -> 0..AttemptCap]]
        /\ \A j \in Jobs : claimed'[w][j] = IF j \in batch THEN attempts'[j] ELSE 0
        /\ \A v \in Workers \ {w} : claimed'[v] = claimed[v]
    BY <1>2, <1>4, <1>5 DEF TypeOK
  <1>9. /\ phase' \in [Workers -> Phases] /\ ctxAge' \in [Workers -> 0..WorkTimeout]
        /\ phase'[w] = "deliver" /\ ctxAge'[w] = 0
        /\ \A v \in Workers \ {w} : phase'[v] = phase[v] /\ ctxAge'[v] = ctxAge[v]
    BY <1>3, <1>4 DEF TypeOK, Phases
  <1>10. TypeOK'
    BY <1>1, <1>3, <1>4, <1>5, <1>8, <1>9 DEF TypeOK, secrets
  <1>11. PhaseInv'
    BY <1>3, <1>8, <1>9 DEF IInv, PhaseInv, Batch, Busy
  <1>12. LeaseInv'
    <2> SUFFICES ASSUME NEW v \in Workers \ MayStall, NEW j \in Jobs,
                        claimed'[v][j] > 0, ContextAlive(v)'
                 PROVE  /\ status'[j] = "processing" /\ lockedBy'[j] = v
                        /\ attempts'[j] = claimed'[v][j]
                        /\ lockAge'[j] <= ctxAge'[v]
      BY DEF LeaseInv, Batch
    <2>1. CASE v = w
      BY <1>6, <1>8, <1>9, <2>1
    <2>2. CASE v # w
      <3>1. claimed[v][j] > 0 /\ ContextAlive(v)
        BY <1>8, <1>9, <2>2 DEF ContextAlive
      <3>2. j \in Batch(v)
        BY <3>1 DEF Batch
      <3>3. j \notin batch
        BY <1>4, <3>1, <3>2, LiveBatchNotDue DEF IInv
      <3> QED
        BY <1>6, <1>8, <1>9, <2>2, <3>1, <3>2, <3>3 DEF IInv, LeaseInv
    <2> QED
      BY <2>1, <2>2
  <1>13. OutcomeInv'
    <2> SUFFICES ASSUME NEW v \in Workers, NEW j \in Jobs
                 PROVE  /\ claimed'[v][j] <= attempts'[j]
                        /\ current'[v] = {j} /\ phase'[v] = "record_ok"    => accepts'[j] > 0
                        /\ current'[v] = {j} /\ phase'[v] = "record_error" => tried'[j] \/ mixed'[j]
      BY DEF OutcomeInv
    <2>1. CASE v = w
      BY <1>5, <1>8, <1>9, <2>1
    <2>2. CASE v # w
      <3>1. claimed[v][j] \in Nat /\ attempts[j] \in Nat /\ attempts'[j] \in Nat
        BY <1>4, <1>5 DEF TypeOK
      <3> QED
        BY <1>1, <1>3, <1>5, <1>7, <1>8, <1>9, <2>2, <3>1 DEF IInv, OutcomeInv, secrets
    <2> QED
      BY <2>1, <2>2
  <1>14. CertainInv'
    <2> SUFFICES ASSUME NEW k \in Jobs, ~uncertain'[k] PROVE CertainAt(k)'
      BY DEF CertainInv
    <2>1. CertainAt(k)
      BY <1>6, <1>7 DEF IInv, CertainInv
    <2>2. CASE k \in batch
      <3>1. status[k] = "pending"
        BY <1>7, <2>2
      <3>2. accepts[k] = 0 /\ \A v \in Workers : ~(claimed[v][k] > 0)
        BY <1>4, <2>1, <3>1 DEF CertainAt, TypeOK
      <3> QED
        BY <1>5, <1>6, <1>8, <2>2, <3>2 DEF CertainAt
    <2>3. CASE k \notin batch
      <3>1. \A v \in Workers : claimed'[v][k] > 0 => v # w /\ claimed[v][k] > 0
        BY <1>8, <2>3
      <3>2. status'[k] = status[k] /\ lockedBy'[k] = lockedBy[k] /\ accepts'[k] = accepts[k]
        BY <1>5, <1>6, <2>3
      <3> QED
        BY <1>3, <1>9, <2>1, <3>1, <3>2 DEF CertainAt
    <2> QED
      BY <2>2, <2>3
  <1>15. SecretInv'
    <2> SUFFICES ASSUME NEW v \in Workers, NEW k \in Jobs, secret[v] # sealed[k],
                        claimed'[v][k] > 0 \/ (phase'[v] # "down" /\ Owed(k)')
                 PROVE  mixed[k]
      BY <1>1 DEF SecretInv, secrets
    <2>1. Owed(k)' => Owed(k)
      BY <1>2, <1>6 DEF Owed, Due
    <2>2. CASE v = w
      BY <1>1, <1>2, <1>8, <2>1, <2>2 DEF IInv, SecretInv, Owed, Due
    <2> QED
      BY <1>8, <1>9, <2>1, <2>2 DEF IInv, SecretInv
  <1> QED
    BY <1>5, <1>10, <1>11, <1>12, <1>13, <1>14, <1>15 DEF IInv

\* A claim whose answer is lost preserves the invariant.
LEMMA ClaimUnansweredPreserves ==
  ASSUME IInv, NEW w \in Workers, ClaimUnanswered(w) PROVE IInv'
  <1> USE QueueAssumptions
  <1>1. phase[w] = "idle" /\ workers' = workers /\ UNCHANGED secrets
    BY DEF ClaimUnanswered
  <1>2. PICK batch \in SUBSET Due : TakeLeases(w, batch)
    BY DEF ClaimUnanswered
  <1>3. phase' = phase /\ claimed' = claimed /\ current' = current
        /\ ctxAge' = ctxAge /\ crashes' = crashes
    BY <1>1 DEF workers
  <1>4. TypeOK
    BY DEF IInv
  <1>5. /\ status' \in [Jobs -> Statuses] /\ attempts' \in [Jobs -> 0..AttemptCap]
        /\ lockedBy' \in [Jobs -> Owners] /\ lockAge' \in [Jobs -> 0..Lease]
        /\ uncertain' \in [Jobs -> BOOLEAN]
        /\ payload' = payload /\ wait' = wait /\ accepts' = accepts /\ tried' = tried
        /\ RowInv' /\ NoMailDropped'
    BY <1>1, <1>2, LeasesPreserve
  <1>6. /\ \A j \in Jobs \ batch : /\ status'[j] = status[j] /\ lockedBy'[j] = lockedBy[j]
                                   /\ lockAge'[j] = lockAge[j]
                                   /\ attempts'[j] = attempts[j]
                                   /\ uncertain'[j] = uncertain[j]
        /\ \A j \in batch : status'[j] = "processing"
    BY <1>1, <1>2, LeasesPreserve
  <1>7. /\ \A j \in Jobs : attempts[j] <= attempts'[j]
        /\ \A j \in batch : ~uncertain'[j] => ~uncertain[j] /\ status[j] = "pending"
    BY <1>1, <1>2, LeasesPreserve
  <1>8. TypeOK'
    BY <1>1, <1>3, <1>4, <1>5 DEF TypeOK, secrets
  <1>9. PhaseInv'
    BY <1>3 DEF IInv, PhaseInv, Batch
  <1>10. LeaseInv'
    <2> SUFFICES ASSUME NEW v \in Workers \ MayStall, NEW j \in Batch(v), ContextAlive(v)
                 PROVE  /\ status'[j] = "processing" /\ lockedBy'[j] = v
                        /\ attempts'[j] = claimed[v][j] /\ lockAge'[j] <= ctxAge[v]
      BY <1>3 DEF LeaseInv, Batch, ContextAlive
    <2>1. j \in Jobs \ batch
      BY <1>4, LiveBatchNotDue DEF IInv, Batch
    <2> QED
      BY <1>6, <2>1 DEF IInv, LeaseInv
  <1>11. OutcomeInv'
    <2> SUFFICES ASSUME NEW v \in Workers, NEW j \in Jobs
                 PROVE  claimed[v][j] <= attempts'[j]
      BY <1>1, <1>3, <1>5 DEF IInv, OutcomeInv, secrets
    <2>1. claimed[v][j] \in Nat /\ attempts[j] \in Nat /\ attempts'[j] \in Nat
      BY <1>4, <1>5 DEF TypeOK
    <2> QED
      BY <1>7, <2>1 DEF IInv, OutcomeInv
  <1>12. CertainInv'
    <2> SUFFICES ASSUME NEW k \in Jobs, ~uncertain'[k] PROVE CertainAt(k)'
      BY DEF CertainInv
    <2>1. CertainAt(k)
      BY <1>6, <1>7 DEF IInv, CertainInv
    <2>2. CASE k \in batch
      <3>1. status[k] = "pending"
        BY <1>7, <2>2
      <3>2. accepts[k] = 0 /\ \A v \in Workers : ~(claimed[v][k] > 0)
        BY <1>4, <2>1, <3>1 DEF CertainAt, TypeOK
      <3> QED
        BY <1>3, <1>5, <3>2 DEF CertainAt
    <2>3. CASE k \notin batch
      BY <1>3, <1>5, <1>6, <2>1, <2>3 DEF CertainAt
    <2> QED
      BY <2>2, <2>3
  <1>13. SecretInv'
    <2> SUFFICES ASSUME NEW v \in Workers, NEW k \in Jobs, secret[v] # sealed[k],
                        claimed'[v][k] > 0 \/ (phase'[v] # "down" /\ Owed(k)')
                 PROVE  mixed[k]
      BY <1>1 DEF SecretInv, secrets
    <2>1. Owed(k)' => Owed(k)
      BY <1>2, <1>6 DEF Owed, Due
    <2> QED
      BY <1>3, <2>1 DEF IInv, SecretInv
  <1> QED
    BY <1>5, <1>8, <1>9, <1>10, <1>11, <1>12, <1>13 DEF IInv

\* Every step preserves the invariant.
LEMMA NextIInv == IInv /\ [Next]_vars => IInv'
  <1> SUFFICES ASSUME IInv, [Next]_vars PROVE IInv'
    OBVIOUS
  <1>1. ASSUME NEW w \in Workers, NEW j \in Jobs, Enqueue(w, j) PROVE IInv'
    BY <1>1, EnqueuePreserves
  <1>2. ASSUME NEW w \in Workers, Claim(w) PROVE IInv'
    BY <1>2, ClaimPreserves
  <1>3. ASSUME NEW w \in Workers, ClaimUnanswered(w) PROVE IInv'
    BY <1>3, ClaimUnansweredPreserves
  <1>4. ASSUME NEW w \in Workers, DropRest(w) PROVE IInv'
    BY <1>4, DropRestPreserves
  <1>5. ASSUME NEW w \in Workers, Finish(w) PROVE IInv'
    BY <1>5, FinishPreserves
  <1>6. ASSUME NEW w \in Workers, Crash(w) PROVE IInv'
    BY <1>6, CrashPreserves
  <1>7. ASSUME NEW w \in Workers, Restart(w) PROVE IInv'
    BY <1>7, RestartPreserves
  <1>8. ASSUME NEW w \in Workers, NEW j \in Jobs, Deliver(w, j) PROVE IInv'
    BY <1>8, OpenFailsPreserves, SendPreserves DEF Deliver
  <1>9. ASSUME NEW w \in Workers, NEW j \in Jobs, RecordCompleted(w, j) PROVE IInv'
    BY <1>9, CompletedPreserves
  <1>10. ASSUME NEW w \in Workers, NEW j \in Jobs, RecordFailed(w, j) PROVE IInv'
    BY <1>10, FailedPreserves
  <1>11. ASSUME NEW w \in Workers, NEW j \in Jobs, RecordLost(w, j) PROVE IInv'
    BY <1>11, LostPreserves
  <1>12. CASE Tick
    BY <1>12, TickPreserves
  <1>13. CASE UNCHANGED vars
    BY <1>13 DEF vars, rows, workers, history, secrets, IInv, TypeOK, PhaseInv, RowInv,
              LeaseInv, OutcomeInv, SecretInv, NoMailDropped, CertainInv, CertainAt, Batch,
              ContextAlive, Owed
  <1> QED
    BY <1>1, <1>2, <1>3, <1>4, <1>5, <1>6, <1>7, <1>8, <1>9, <1>10, <1>11, <1>12,
       <1>13 DEF Next, Housekeeping, Record

THEOREM Invariance == Spec => []IInv
  BY InitIInv, NextIInv, PTL DEF Spec

-----------------------------------------------------------------------------
\* Every variable of the queue stays in its range.
THEOREM TypeCorrect == Spec => []TypeOK
  <1>1. IInv => TypeOK
    BY DEF IInv
  <1> QED
    BY Invariance, <1>1, PTL

\* The lease of every job a live, unsuspended worker has in hand is intact.
THEOREM LeaseIsHeld == Spec => []LeaseHeld
  <1>1. IInv => LeaseHeld
    BY DEF IInv, LeaseInv, LeaseHeld
  <1> QED
    BY Invariance, <1>1, PTL

\* Two live, unsuspended workers never have the same job in hand.
THEOREM SendersAreExclusive == Spec => []SendersExclusive
  <1>1. IInv => SendersExclusive
    <2> SUFFICES ASSUME IInv, NEW v \in Workers \ MayStall, NEW w \in Workers \ MayStall,
                        ContextAlive(v), ContextAlive(w),
                        NEW j \in Batch(v) \cap Batch(w)
                 PROVE  v = w
      BY DEF SendersExclusive
    <2>1. lockedBy[j] = v /\ lockedBy[j] = w
      BY DEF IInv, LeaseInv
    <2> QED
      BY <2>1
  <1> QED
    BY Invariance, <1>1, PTL

\* Ciphertext is there exactly while a delivery may still need it.
THEOREM CiphertextIsKept == Spec => []CiphertextMatchesStatus
  <1>1. IInv => CiphertextMatchesStatus
    BY DEF IInv, RowInv, CiphertextMatchesStatus, Owed
  <1> QED
    BY Invariance, <1>1, PTL

\* At-least-once: nothing is completed undelivered; nothing fails before max_attempts
\* claims, nor untried unless a replica ran under another secret while it was owed.
THEOREM AtLeastOnce == Spec => []NoMailDropped
  <1>1. IInv => NoMailDropped
    BY DEF IInv
  <1> QED
    BY Invariance, <1>1, PTL

\* A duplicate needs an uncertain outcome.
THEOREM DuplicatesAreExcused == Spec => []DuplicateNeedsUncertainty
  <1>1. IInv => DuplicateNeedsUncertainty
    <2> SUFFICES ASSUME TypeOK, CertainInv, NEW j \in Jobs, accepts[j] > 1, ~uncertain[j]
                 PROVE  FALSE
      BY DEF IInv, DuplicateNeedsUncertainty
    <2>1. accepts[j] \in 0..2
      BY DEF TypeOK
    <2> QED
      BY <2>1 DEF CertainInv, CertainAt
  <1> QED
    BY Invariance, <1>1, PTL

\* No step of any worker, late or not, reopens a finished row.
THEOREM TerminalStays == Spec => TerminalIsFinal
  <1> DEFINE Kept == \A j \in Jobs : status[j] \in Terminal =>
                status'[j] = status[j] \/ (status[j] = "completed" /\ status'[j] = "purged")
  <1>1. IInv /\ [Next]_vars => [Kept]_vars
    <2> SUFFICES ASSUME IInv, Next, NEW k \in Jobs, status[k] \in Terminal
                 PROVE  status'[k] = status[k]
                        \/ (status[k] = "completed" /\ status'[k] = "purged")
      OBVIOUS
    <2> USE DEF Terminal
    <2>1. status \in [Jobs -> Statuses] /\ lockedBy \in [Jobs -> Owners]
      BY DEF IInv, TypeOK
    <2>2. lockedBy[k] = NoOne /\ k \notin Due
      BY DEF IInv, RowInv, Due
    <2>3. \A w \in Workers : ~Holds(w, k)
      BY <2>2, QueueAssumptions DEF Holds
    <2>4. ASSUME NEW w \in Workers, NEW j \in Jobs, Enqueue(w, j) PROVE status'[k] = status[k]
      BY <2>1, <2>4 DEF Enqueue
    <2>5. ASSUME NEW w \in Workers, NEW batch \in SUBSET Due, TakeLeases(w, batch)
          PROVE  status'[k] = status[k]
      BY <2>2, <2>5 DEF TakeLeases, LeaseAs
    <2>6. ASSUME NEW w \in Workers, Claim(w) \/ ClaimUnanswered(w)
          PROVE  status'[k] = status[k]
      BY <2>5, <2>6 DEF Claim, ClaimUnanswered
    <2>7. ASSUME NEW w \in Workers, Finish(w)
          PROVE  status'[k] = status[k]
                 \/ (status[k] = "completed" /\ status'[k] = "purged")
      BY <2>7 DEF Finish
    <2>8. ASSUME NEW w \in Workers, NEW j \in Jobs, Record(w, j)
          PROVE  status'[k] = status[k]
      BY <2>1, <2>3, <2>8 DEF Record, RecordCompleted, RecordFailed, FailWith
    <2>9. ASSUME NEW w \in Workers, NEW j \in Jobs, Deliver(w, j) \/ RecordLost(w, j)
          PROVE  status'[k] = status[k]
      BY <2>9 DEF Deliver, OpenFails, Send, SmtpAnswer, RecordLost, rows
    <2>10. ASSUME NEW w \in Workers, DropRest(w) \/ Crash(w) \/ Restart(w)
           PROVE  status'[k] = status[k]
      BY <2>10 DEF DropRest, Crash, Restart, rows
    <2>11. CASE Tick
      BY <2>11 DEF Tick
    <2> QED
      BY <2>4, <2>6, <2>7, <2>8, <2>9, <2>10, <2>11 DEF Next, Housekeeping
  <1> QED
    BY Invariance, <1>1, PTL DEF Spec, TerminalIsFinal

-----------------------------------------------------------------------------
\* The stage each status stands for.
LEMMA StageOfStatus ==
  /\ StageOf("none") = "none"
  /\ StageOf("pending") = "owed" /\ StageOf("processing") = "owed"
  /\ StageOf("completed") = "delivered"
  /\ StageOf("failed") = "abandoned"
  /\ StageOf("purged") = "forgotten"
  BY DEF StageOf

\* With no suspended replica, the queue implements MailPromise: initial states
\* map to initial states, every step to a step of the promise or a stutter.
THEOREM QueueKeepsPromise == ASSUME MayStall = {} PROVE Spec => KeepsPromise
  <1> DEFINE stage  == [j \in Jobs |-> StageOf(status[j])]
             handed == {j \in Jobs : tried[j]}
             taken  == {j \in Jobs : accepts[j] > 0}
             locked == {j \in Jobs : mixed[j]}
  <1>1. Init => Promise!Init
    BY StageOfStatus DEF Init, Promise!Init
  <1>2. IInv /\ [Next]_vars => [Promise!Next]_(Promise!vars)
    <2> SUFFICES ASSUME IInv, [Next]_vars
                 PROVE  Promise!Next \/ UNCHANGED <<stage, handed, taken, locked>>
      BY DEF Promise!vars
    <2>1. /\ status \in [Jobs -> Statuses] /\ lockedBy \in [Jobs -> Owners]
          /\ accepts \in [Jobs -> 0..2] /\ tried \in [Jobs -> BOOLEAN]
      BY DEF IInv, TypeOK
    <2>2. ASSUME NEW w \in Workers, NEW j \in Jobs, Enqueue(w, j) PROVE Promise!Next
      <3>1. stage[j] = "none" /\ stage' = [stage EXCEPT ![j] = "owed"]
        BY <2>1, <2>2, StageOfStatus DEF Enqueue
      <3>2. handed' = handed /\ taken' = taken
        BY <2>2 DEF Enqueue, history
      <3>3. ~mixed[j]
        BY <2>1, <2>2 DEF IInv, RowInv, Enqueue
      <3>4. locked' \in {locked, locked \cup {j}}
        BY <2>1, <2>2, <3>3 DEF Enqueue
      <3>5. Promise!Request(j)
        BY <3>1, <3>2, <3>4 DEF Promise!Request
      <3> QED
        BY <3>5 DEF Promise!Next
    <2>3. ASSUME NEW w \in Workers, NEW j \in Jobs, Send(w, j) PROVE Promise!Next
      <3>1. status[j] = "processing" /\ status' = status
        BY <2>3 DEF IInv, LeaseInv, Send, SmtpAnswer, rows
      <3>2. stage[j] = "owed" /\ stage' = stage
        BY <3>1 DEF StageOf
      <3>3. tried' = [tried EXCEPT ![j] = TRUE]
        BY <2>3 DEF Send, SmtpAnswer
      <3>4. handed' = handed \cup {j}
        BY <2>1, <3>3
      <3>5. PICK accepted \in BOOLEAN :
              accepts' = [accepts EXCEPT ![j] = IF accepted THEN AtMost(accepts[j] + 1, 2)
                                                ELSE accepts[j]]
        BY <2>3 DEF Send, SmtpAnswer
      <3>6. taken' \in {taken, taken \cup {j}}
        <4>1. CASE accepted
          BY <2>1, <3>5, <4>1 DEF AtMost
        <4>2. CASE ~accepted
          BY <2>1, <3>5, <4>2
        <4> QED
          BY <4>1, <4>2
      <3>7. locked' = locked
        BY <2>3 DEF Send, secrets
      <3>8. Promise!HandOver(j)
        BY <3>2, <3>4, <3>6, <3>7 DEF Promise!HandOver
      <3> QED
        BY <3>8 DEF Promise!Next
    <2>4. ASSUME NEW w \in Workers, NEW j \in Jobs, RecordCompleted(w, j)
          PROVE  Promise!Next \/ UNCHANGED <<stage, handed, taken, locked>>
      <3>1. UNCHANGED <<handed, taken, locked>>
        BY <2>4 DEF RecordCompleted, history, secrets
      <3>2. CASE Holds(w, j)
        <4>1. status[j] = "processing" /\ accepts[j] > 0
          BY <2>1, <2>4, <3>2, QueueAssumptions
             DEF IInv, RowInv, OutcomeInv, RecordCompleted, Holds
        <4>2. stage[j] = "owed" /\ j \in taken /\ stage' = [stage EXCEPT ![j] = "delivered"]
          BY <2>1, <2>4, <3>2, <4>1, StageOfStatus DEF RecordCompleted
        <4>3. Promise!Deliver(j)
          BY <3>1, <4>2 DEF Promise!Deliver
        <4> QED
          BY <4>3 DEF Promise!Next
      <3>3. CASE ~Holds(w, j)
        BY <2>1, <2>4, <3>1, <3>3 DEF RecordCompleted
      <3> QED
        BY <3>2, <3>3
    <2>5. ASSUME NEW w \in Workers, NEW j \in Jobs, RecordFailed(w, j)
          PROVE  Promise!Next \/ UNCHANGED <<stage, handed, taken, locked>>
      <3>1. UNCHANGED <<handed, taken, locked>>
        BY <2>5 DEF RecordFailed, FailWith, history, secrets
      <3>2. CASE Holds(w, j)
        <4>1. status[j] = "processing" /\ (tried[j] \/ mixed[j])
          BY <2>1, <2>5, <3>2, QueueAssumptions
             DEF IInv, RowInv, OutcomeInv, RecordFailed, FailWith, Holds
        <4>2. CASE claimed[w][j] >= MaxAttempts
          <5>1. stage[j] = "owed" /\ stage' = [stage EXCEPT ![j] = "abandoned"]
            BY <2>1, <2>5, <3>2, <4>1, <4>2, StageOfStatus DEF RecordFailed, FailWith
          <5>2. Promise!Abandon(j)
            BY <3>1, <4>1, <5>1 DEF Promise!Abandon
          <5> QED
            BY <5>2 DEF Promise!Next
        <4>3. CASE ~(claimed[w][j] >= MaxAttempts)
          <5>1. stage' = stage
            BY <2>1, <2>5, <3>2, <4>1, <4>3, StageOfStatus DEF RecordFailed, FailWith
          <5> QED
            BY <3>1, <5>1
        <4> QED
          BY <4>2, <4>3
      <3>3. CASE ~Holds(w, j)
        BY <2>1, <2>5, <3>1, <3>3 DEF RecordFailed, FailWith
      <3> QED
        BY <3>2, <3>3
    <2>6. ASSUME NEW w \in Workers, Finish(w) PROVE Promise!Next
      <3>1. PICK old \in SUBSET {j \in Jobs : status[j] = "completed"} :
              status' = [j \in Jobs |-> IF j \in old THEN "purged" ELSE status[j]]
        BY <2>6 DEF Finish
      <3>2. old \in SUBSET {j \in Jobs : stage[j] = "delivered"}
        BY <3>1, StageOfStatus
      <3>3. stage' = [j \in Jobs |-> IF j \in old THEN "forgotten" ELSE stage[j]]
        BY <3>1, StageOfStatus
      <3>4. UNCHANGED <<handed, taken, locked>>
        BY <2>6 DEF Finish, history, secrets
      <3>5. Promise!Forget
        BY <3>2, <3>3, <3>4 DEF Promise!Forget
      <3> QED
        BY <3>5 DEF Promise!Next
    <2>7. ASSUME NEW w \in Workers, NEW batch \in SUBSET Due, TakeLeases(w, batch),
                 UNCHANGED secrets
          PROVE  UNCHANGED <<stage, handed, taken, locked>>
      <3>1. \A j \in Jobs : StageOf(status'[j]) = StageOf(status[j])
        BY <2>1, <2>7, StageOfStatus DEF TakeLeases, LeaseAs, Due
      <3>2. UNCHANGED <<tried, accepts, mixed>>
        BY <2>7 DEF TakeLeases, LeaseAs, secrets
      <3> QED
        BY <3>1, <3>2
    <2>8. ASSUME NEW w \in Workers, Claim(w) \/ ClaimUnanswered(w)
          PROVE  UNCHANGED <<stage, handed, taken, locked>>
      <3>1. PICK batch \in SUBSET Due : TakeLeases(w, batch)
        BY <2>8 DEF Claim, ClaimUnanswered
      <3>2. UNCHANGED secrets
        BY <2>8 DEF Claim, ClaimUnanswered
      <3> QED
        BY <2>7, <3>1, <3>2
    <2>9. ASSUME NEW w \in Workers, NEW j \in Jobs, OpenFails(w, j) \/ RecordLost(w, j)
          PROVE  UNCHANGED <<stage, handed, taken, locked>>
      BY <2>9 DEF OpenFails, RecordLost, rows, history, secrets
    <2>10. ASSUME NEW w \in Workers, DropRest(w) \/ Crash(w)
           PROVE  UNCHANGED <<stage, handed, taken, locked>>
      BY <2>10 DEF DropRest, Crash, rows, history, secrets
    <2>11. ASSUME NEW w \in Workers, Restart(w) PROVE Promise!Next
      <3>1. PICK s \in Secrets : mixed' = [j \in Jobs |-> mixed[j] \/ (Owed(j) /\ sealed[j] # s)]
        BY <2>11 DEF Restart
      <3>2. UNCHANGED <<stage, handed, taken>>
        BY <2>11 DEF Restart, rows, history
      <3> DEFINE new == {j \in Jobs : Owed(j) /\ sealed[j] # s}
      <3>3. new \in SUBSET {j \in Jobs : stage[j] = "owed"}
        BY StageOfStatus DEF Owed
      <3>4. locked' = locked \cup new
        BY <3>1
      <3>5. Promise!LockAway
        BY <3>2, <3>3, <3>4 DEF Promise!LockAway
      <3> QED
        BY <3>5 DEF Promise!Next
    <2>12. CASE Tick
      BY <2>12 DEF Tick, history, secrets
    <2>13. CASE UNCHANGED vars
      BY <2>13 DEF vars, rows, history, secrets
    <2> QED
      BY <2>2, <2>3, <2>4, <2>5, <2>6, <2>8, <2>9, <2>10, <2>11, <2>12, <2>13
         DEF Next, Housekeeping, Deliver, Record
  <1> QED
    BY <1>1, <1>2, Invariance, PTL DEF Spec, KeepsPromise, Promise!Spec

=============================================================================
