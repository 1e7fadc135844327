----------------------------- MODULE ProcessProofs -----------------------------
(***************************************************************************)
(* How a replica starts and how it stops: theorems about Startup and       *)
(* Shutdown.                                                               *)
(*                                                                         *)
(* Stopping, for any number of requests, streams and workers: the pool is  *)
(* closed last, or late. The invariant SInv says what main has established *)
(* before each of its steps, and that nothing it has waited for comes back.*)
(*                                                                         *)
(* Starting, for any number of replicas and migrations: whatever releases  *)
(* start, stop and crash side by side, the schema is a prefix of the       *)
(* migrations and no start finds a conflict. The invariant MInv says what  *)
(* the holder of the advisory lock knows: every migration it has looked at *)
(* is applied, and the one it is applying is not.                          *)
(*                                                                         *)
(* Both hold, with what RealtimeProofs says of events, of a replica that   *)
(* does all three (MCService).                                             *)
(***************************************************************************)
EXTENDS MCService, RealtimeProofs, FiniteSetTheorems, TLAPS

-----------------------------------------------------------------------------
\* Stopping.

Past == {"draining", "waiting", "closing", "gone"}

\* What main has done so far, by where it is.
Course ==
  /\ main # "serving" => cancelled
  /\ main \in Past => ~accepting /\ ~hubOpen
  /\ ~poolOpen <=> main \in {"closing", "gone"}

\* What it has waited for is over, unless the deadline was.
Waited ==
  /\ main \in {"waiting", "closing", "gone"} => late \/ Drained
  /\ main \in {"closing", "gone"} => late \/ AllEnded
  /\ main # "gone" \/ ~late => \A c \in Calls : call[c] # "cut"

SInv == ShutdownTypeOK /\ Course /\ Waited /\ (main = "gone" => conn = {})

\* The initial states satisfy the invariant.
LEMMA InitSInv == ShutdownInit => SInv
<1> SUFFICES ASSUME ShutdownInit PROVE SInv
  OBVIOUS
<1>1. ShutdownTypeOK
  BY DEF ShutdownInit, ShutdownTypeOK
<1>2. Course
  BY DEF ShutdownInit, Past, Course
<1>3. Waited /\ main # "gone"
  BY DEF ShutdownInit, Waited
<1> QED
  BY <1>1, <1>2, <1>3 DEF SInv

\* A request: none is accepted any more once main drains.
LEMMA CallKeepsSInv ==
  ASSUME SInv, NEW c \in Calls,
         AcceptCall(c) \/ CommitChange(c) \/ RefuseCall(c) \/ PublishChange(c)
  PROVE  SInv'
<1> USE DEF SInv, mainVars
<1>1. CASE AcceptCall(c)
  BY <1>1 DEF AcceptCall, ShutdownTypeOK, Past, Course, Waited, Drained, AllEnded
<1>2. CASE CommitChange(c)
  BY <1>2 DEF CommitChange, ShutdownTypeOK, Past, Course, Waited, Drained, AllEnded
<1>3. CASE RefuseCall(c)
  BY <1>3 DEF RefuseCall, ShutdownTypeOK, Past, Course, Waited, Drained, AllEnded
<1>4. CASE PublishChange(c)
  BY <1>4 DEF PublishChange, ShutdownTypeOK, Past, Course, Waited, Drained, AllEnded
<1> QED
  BY <1>1, <1>2, <1>3, <1>4

\* A stream, a worker, the listener and the connections.
LEMMA OthersKeepSInv ==
  ASSUME SInv,
         \/ \E s \in Streams : OpenStream(s) \/ EndStream(s)
         \/ \E w \in Loops : BeginCycle(w) \/ FinishCycle(w) \/ EndLoop(w)
         \/ \E x \in Calls \cup Loops : Acquire(x)
         \/ StopListening
  PROVE  SInv'
<1> USE DEF SInv, mainVars, requestVars
<1>1. ASSUME NEW s \in Streams, OpenStream(s) \/ EndStream(s) PROVE SInv'
  BY <1>1 DEF OpenStream, EndStream, ShutdownTypeOK, Past, Course, Waited, Drained, AllEnded
<1>2. ASSUME NEW w \in Loops, BeginCycle(w) PROVE SInv'
  BY <1>2 DEF BeginCycle, ShutdownTypeOK, Past, Course, Waited, Drained, AllEnded
<1>3. ASSUME NEW w \in Loops, FinishCycle(w) PROVE SInv'
  BY <1>3 DEF FinishCycle, ShutdownTypeOK, Past, Course, Waited, Drained, AllEnded
<1>4. ASSUME NEW w \in Loops, EndLoop(w) PROVE SInv'
  BY <1>4 DEF EndLoop, ShutdownTypeOK, Past, Course, Waited, Drained, AllEnded
<1>5. ASSUME NEW x \in Calls \cup Loops, Acquire(x) PROVE SInv'
  BY <1>5 DEF Acquire, ShutdownTypeOK, Past, Course, Waited, Drained, AllEnded
<1>6. CASE StopListening
  BY <1>6 DEF StopListening, ShutdownTypeOK, Past, Course, Waited, Drained, AllEnded
<1> QED
  BY <1>1, <1>2, <1>3, <1>4, <1>5, <1>6

\* main itself.
LEMMA MainKeepsSInv ==
  ASSUME SInv,
         \/ Signal \/ LeaveSelect \/ CloseHubOnStop \/ BeginDrain
         \/ Deadline \/ EndDrain \/ EndWait \/ Exit
  PROVE  SInv'
<1> USE DEF SInv, requestVars
<1>1. CASE Signal
  BY <1>1 DEF Signal, ShutdownTypeOK, Past, Course, Waited
<1>2. CASE LeaveSelect
  BY <1>2 DEF LeaveSelect, ShutdownTypeOK, Past, Course, Waited
<1>3. CASE CloseHubOnStop
  BY <1>3 DEF CloseHubOnStop, ShutdownTypeOK, Past, Course, Waited
<1>4. CASE BeginDrain
  BY <1>4 DEF BeginDrain, ShutdownTypeOK, Past, Course, Waited
<1>5. CASE Deadline
  BY <1>5 DEF Deadline, ShutdownTypeOK, Past, Course, Waited
<1>6. CASE EndDrain
  BY <1>6 DEF EndDrain, ShutdownTypeOK, Past, Course, Waited, Drained
<1>7. CASE EndWait
  BY <1>7 DEF EndWait, ShutdownTypeOK, Past, Course, Waited, Drained, AllEnded
<1>8. CASE Exit
  <2>1. ShutdownTypeOK'
    BY <1>8 DEF Exit, ShutdownTypeOK
  <2>2. late \/ (Drained /\ AllEnded)
    BY <1>8 DEF Exit, Waited
  <2>3. Waited'
    BY <1>8, <2>2 DEF Exit, Waited, Drained, AllEnded
  <2> QED
    BY <1>8, <2>1, <2>3 DEF Exit, Past, Course
<1> QED
  BY <1>1, <1>2, <1>3, <1>4, <1>5, <1>6, <1>7, <1>8

\* Every step preserves the invariant.
LEMMA NextSInv == SInv /\ [ShutdownNext]_shutdownVars => SInv'
<1>1. SInv /\ UNCHANGED shutdownVars => SInv'
  BY DEF SInv, shutdownVars, mainVars, requestVars, ShutdownTypeOK, Past, Course, Waited,
         Drained, AllEnded
<1> QED
  BY <1>1, CallKeepsSInv, OthersKeepSInv, MainKeepsSInv DEF ShutdownNext

\* The invariant says what the property does.
LEMMA SInvImpliesOrder == SInv => StopsInOrder
<1> SUFFICES ASSUME SInv PROVE StopsInOrder
  OBVIOUS
<1>1. ~poolOpen => late \/ (Drained /\ AllEnded)
  BY DEF SInv, Course, Waited
<1>2. main = "gone" => conn = {}
  BY DEF SInv
<1>3. main = "gone" => late \/ \A c \in Calls : call[c] \in {"none", "answered"}
  BY DEF SInv, ShutdownTypeOK, Waited, Drained
<1> QED
  BY <1>1, <1>2, <1>3 DEF AllEnded, StopsInOrder

\* The invariant holds in every behaviour.
LEMMA SInvHolds == ShutdownSpec => []SInv
<1> QED
  BY InitSInv, NextSInv, PTL DEF ShutdownSpec

\* Every variable of Shutdown stays in its type.
THEOREM ShutdownTypes == ShutdownSpec => []ShutdownTypeOK
<1>1. SInv => ShutdownTypeOK
  BY DEF SInv
<1> QED
  BY <1>1, SInvHolds, PTL

\* The second half of main (main.go): the pool is closed under a request, a stream or a
\* worker, and one of them is cut off, only when the 15 seconds were over.
THEOREM PoolIsClosedLast == ShutdownSpec => []StopsInOrder
<1> QED
  BY SInvHolds, SInvImpliesOrder, PTL

-----------------------------------------------------------------------------
\* Starting.

\* The schema is one the files lead to.
Prefix == \E n \in Nat : applied = 1..n

\* Only the holder of the lock looks at migrations or applies one.
LockHeld == \A p \in Processes : state[p] \in {"checking", "applying"} => advisory = p

\* What a replica has passed over or applied is there.
Passed ==
  \A p \in Processes :
    /\ state[p] \in {"checking", "applying"} => 1..(nextOne[p] - 1) \subseteq applied
    /\ state[p] = "applying" => nextOne[p] \notin applied /\ nextOne[p] <= carries[p]
    /\ state[p] \in {"migrated", "serving"} => 1..carries[p] \subseteq applied
    /\ state[p] # "conflict"

MInv == StartupTypeOK /\ Prefix /\ LockHeld /\ Passed

USE StartupAssumptions DEF StartupAssumptions

\* The initial states satisfy the invariant.
LEMMA InitMInv == StartupInit => MInv
<1> SUFFICES ASSUME StartupInit PROVE MInv
  OBVIOUS
<1>1. StartupTypeOK
  BY DEF StartupInit, StartupTypeOK
<1>2. applied = 1..0
  BY DEF StartupInit
<1>3. Prefix
  BY <1>2 DEF Prefix
<1>4. LockHeld /\ Passed
  BY DEF StartupInit, LockHeld, Passed
<1> QED
  BY <1>1, <1>3, <1>4 DEF MInv

\* The one step that changes the schema adds the next migration.
LEMMA NextIsOneMore ==
  ASSUME MInv, NEW p \in Processes, ApplyMigration(p), NEW n \in Nat, applied = 1..n
  PROVE  nextOne[p] = n + 1 /\ applied' = 1..(n + 1)
<1>1. nextOne[p] \in 1..(Newest + 1) /\ state[p] = "applying"
  BY DEF MInv, ApplyMigration, StartupTypeOK
<1>2. nextOne[p] \notin 1..n /\ 1..(nextOne[p] - 1) \subseteq 1..n
  BY <1>1 DEF MInv, Passed
<1>3. nextOne[p] > n
  BY <1>1, <1>2
<1>4. nextOne[p] = 1 \/ nextOne[p] - 1 \in 1..n
  BY <1>1, <1>2
<1>5. nextOne[p] = n + 1
  BY <1>1, <1>3, <1>4
<1> QED
  BY <1>5 DEF ApplyMigration

LEMMA ApplyKeepsMInv == ASSUME MInv, NEW p \in Processes, ApplyMigration(p) PROVE MInv'
<1> USE DEF MInv
<1>1. PICK n \in Nat : applied = 1..n
  BY DEF Prefix
<1>2. nextOne[p] = n + 1 /\ applied' = 1..(n + 1)
  BY <1>1, NextIsOneMore
<1>3. applied' = 1..(n + 1)
  BY <1>2
<1>4. Prefix'
  BY <1>3 DEF Prefix
<1>5. /\ applied \subseteq applied'
      /\ nextOne[p] \in applied'
      /\ \A q \in Processes \ {p} : state[q] \notin {"checking", "applying"}
  BY DEF ApplyMigration, LockHeld
<1>6. StartupTypeOK'
  <2>1. n + 1 <= Newest
    BY <1>2 DEF ApplyMigration, Passed, StartupTypeOK
  <2>2. nextOne' \in [Processes -> 1..(Newest + 1)]
    BY <1>2, <2>1 DEF ApplyMigration, StartupTypeOK
  <2>3. applied' \subseteq 1..Newest
    BY <1>3, <2>1
  <2> QED
    BY <2>2, <2>3 DEF ApplyMigration, StartupTypeOK, Becomes, Unlocked
<1>7. LockHeld'
  BY <1>5 DEF ApplyMigration, LockHeld, StartupTypeOK, Becomes, Unlocked
<1>8. Passed'
  <2> SUFFICES ASSUME NEW q \in Processes
               PROVE /\ state'[q] \in {"checking", "applying"} => 1..(nextOne'[q] - 1) \subseteq applied'
                     /\ state'[q] = "applying" => nextOne'[q] \notin applied' /\ nextOne'[q] <= carries'[q]
                     /\ state'[q] \in {"migrated", "serving"} => 1..carries'[q] \subseteq applied'
                     /\ state'[q] # "conflict"
    BY DEF Passed
  <2>1. CASE q # p
    BY <2>1, <1>5 DEF ApplyMigration, Passed, StartupTypeOK, Becomes
  <2>2. CASE q = p /\ state'[p] = "down"
    BY <2>2
  <2>3. CASE q = p /\ state'[p] # "down"
    <3>1. state'[p] = "checking" /\ nextOne'[p] = n + 2
      BY <2>3, <1>2 DEF ApplyMigration, StartupTypeOK, Becomes
    <3> QED
      BY <2>3, <3>1, <1>3
  <2> QED
    BY <2>1, <2>2, <2>3
<1> QED
  BY <1>4, <1>6, <1>7, <1>8

\* Every step preserves the invariant.
LEMMA NextMInv == MInv /\ [StartupNext]_startupVars => MInv'
<1> SUFFICES ASSUME MInv, [StartupNext]_startupVars PROVE MInv'
  OBVIOUS
<1> USE DEF MInv
<1>1. ASSUME NEW p \in Processes, Launch(p) PROVE MInv'
  BY <1>1 DEF Launch, Becomes, StartupTypeOK, Prefix, LockHeld, Passed
<1>2. ASSUME NEW p \in Processes, TakeLock(p) PROVE MInv'
  <2>0. 1 \in 1..(Newest + 1) /\ Prefix'
    BY <1>2 DEF TakeLock, Prefix
  <2>1. StartupTypeOK'
    BY <1>2, <2>0 DEF TakeLock, Becomes, StartupTypeOK
  <2>2. LockHeld'
    BY <1>2 DEF TakeLock, LockIsFree, Becomes, StartupTypeOK, LockHeld
  <2>3. 1..(nextOne'[p] - 1) = {}
    BY <1>2 DEF TakeLock, StartupTypeOK
  <2>4. Passed'
    BY <1>2, <2>3 DEF TakeLock, Becomes, StartupTypeOK, Passed
  <2> QED
    BY <2>0, <2>1, <2>2, <2>4
<1>3. ASSUME NEW p \in Processes, CheckMigration(p) PROVE MInv'
  <2>1. CASE nextOne[p] \in applied
    <3>1. state[p] = "checking" /\ nextOne[p] \in 1..Newest
      BY <1>3 DEF CheckMigration, StartupTypeOK
    <3>2. /\ nextOne' = [nextOne EXCEPT ![p] = @ + 1]
          /\ UNCHANGED <<state, carries, advisory, applied>>
      BY <1>3, <2>1 DEF CheckMigration
    <3>3. 1..(nextOne'[p] - 1) = 1..(nextOne[p] - 1) \cup {nextOne[p]}
      BY <3>1, <3>2 DEF StartupTypeOK
    <3>4. Passed'
      BY <3>1, <3>2, <3>3, <2>1 DEF StartupTypeOK, Passed
    <3>5. StartupTypeOK'
      BY <3>1, <3>2 DEF StartupTypeOK
    <3> QED
      BY <3>2, <3>4, <3>5 DEF Prefix, LockHeld
  <2>2. CASE nextOne[p] \notin applied
    BY <1>3, <2>2 DEF CheckMigration, Becomes, StartupTypeOK, Prefix, LockHeld, Passed
  <2> QED
    BY <2>1, <2>2
<1>4. ASSUME NEW p \in Processes, ApplyMigration(p) PROVE MInv'
  BY <1>4, ApplyKeepsMInv
<1>5. ASSUME NEW p \in Processes, RefuseMigration(p) PROVE MInv'
  BY <1>5 DEF RefuseMigration, Passed
<1>6. ASSUME NEW p \in Processes, FinishMigrations(p) PROVE MInv'
  <2>1. 1..carries[p] \subseteq applied
    <3>1. 1..carries[p] \subseteq 1..(nextOne[p] - 1)
      BY <1>6 DEF FinishMigrations, StartupTypeOK
    <3> QED
      BY <1>6, <3>1 DEF FinishMigrations, Passed
  <2>2. StartupTypeOK' /\ Prefix' /\ LockHeld'
    BY <1>6 DEF FinishMigrations, Becomes, Unlocked, StartupTypeOK, Prefix, LockHeld
  <2>3. Passed'
    BY <1>6, <2>1 DEF FinishMigrations, Becomes, StartupTypeOK, Passed
  <2> QED
    BY <2>2, <2>3
<1>7. ASSUME NEW p \in Processes, StartServing(p) PROVE MInv'
  BY <1>7 DEF StartServing, Becomes, StartupTypeOK, Prefix, LockHeld, Passed
<1>8. ASSUME NEW p \in Processes, GoDown(p) PROVE MInv'
  BY <1>8 DEF GoDown, Becomes, Unlocked, StartupTypeOK, Prefix, LockHeld, Passed
<1>9. CASE UNCHANGED startupVars
  BY <1>9 DEF startupVars, StartupTypeOK, Prefix, LockHeld, Passed
<1> QED
  BY <1>1, <1>2, <1>3, <1>4, <1>5, <1>6, <1>7, <1>8, <1>9 DEF StartupNext

\* The invariant says what the property does.
LEMMA MInvImpliesOrder == MInv => MigrationsInOrder
<1> SUFFICES ASSUME MInv PROVE MigrationsInOrder
  OBVIOUS
<1>1. PICK n \in Nat : applied = 1..n
  BY DEF MInv, Prefix
<1>2. Cardinality(1..n) = n
  BY FS_Interval
<1> QED
  BY <1>1, <1>2 DEF MInv, Passed, MigrationsInOrder

\* The invariant holds in every behaviour.
LEMMA MInvHolds == StartupSpec => []MInv
<1> QED
  BY InitMInv, NextMInv, PTL DEF StartupSpec

\* Every variable of Startup stays in its type.
THEOREM StartupTypes == StartupSpec => []StartupTypeOK
<1>1. MInv => StartupTypeOK
  BY DEF MInv
<1> QED
  BY <1>1, MInvHolds, PTL

\* Database Migrate (database.go): the schema is a prefix of the migrations, whoever
\* serves has its own applied, and no start fails because of another.
THEOREM SchemaIsAPrefix == StartupSpec => []MigrationsInOrder
<1> QED
  BY MInvHolds, MInvImpliesOrder, PTL

\* At most one replica is at migrations at a time, and a step that changes the schema
\* adds the migration that is next in order.
SchemaGrowsByOne ==
  [][applied' # applied =>
       /\ applied' = 1..(Cardinality(applied) + 1)
       /\ \A p, q \in Processes : {state[p], state[q]} \subseteq {"checking", "applying"} => p = q]_startupVars

\* Database Migrate (database.go): replicas that start together apply each migration once,
\* one after the other, and never side by side; no release takes one back.
THEOREM MigrationsOneByOne == StartupSpec => SchemaGrowsByOne
<1> DEFINE Step ==
      applied' # applied =>
        /\ applied' = 1..(Cardinality(applied) + 1)
        /\ \A p, q \in Processes : {state[p], state[q]} \subseteq {"checking", "applying"} => p = q
<1>1. ASSUME MInv, [StartupNext]_startupVars, applied' # applied
      PROVE  Step
  <2>1. PICK p \in Processes : ApplyMigration(p)
    BY <1>1 DEF StartupNext, startupVars, Launch, TakeLock, CheckMigration, RefuseMigration,
                FinishMigrations, StartServing, GoDown
  <2>2. PICK n \in Nat : applied = 1..n
    BY <1>1 DEF MInv, Prefix
  <2>3. Cardinality(applied) = n
    BY <2>2, FS_Interval
  <2>4. applied' = 1..(n + 1)
    BY <1>1, <2>1, <2>2, NextIsOneMore
  <2>5. ASSUME NEW q \in Processes, NEW r \in Processes,
               {state[q], state[r]} \subseteq {"checking", "applying"}
        PROVE  q = r
    BY <2>5, <1>1 DEF MInv, LockHeld
  <2> QED
    BY <2>3, <2>4, <2>5
<1>2. MInv /\ [StartupNext]_startupVars => [Step]_startupVars
  BY <1>1
<1>3. StartupSpec => [][Step]_startupVars
  BY <1>2, MInvHolds, PTL DEF StartupSpec
<1> QED
  BY <1>3 DEF SchemaGrowsByOne

-----------------------------------------------------------------------------
\* The three sides of a replica.

\* What is proved of starting, of events and of stopping holds of them together.
THEOREM ServiceIsItsParts == ServiceSpec => Spec /\ StartupSpec /\ ShutdownSpec
<1>1. ServiceInit => Init /\ StartupInit /\ ShutdownInit
  BY DEF ServiceInit
<1>2. [StartMove \/ EventsMove \/ StopMove]_serviceVars =>
        [Next]_vars /\ [StartupNext]_startupVars /\ [ShutdownNext]_shutdownVars
  BY DEF StartMove, EventsMove, StopMove, serviceVars
<1> QED
  BY <1>1, <1>2, PTL DEF ServiceSpec, Spec, StartupSpec, ShutdownSpec

\* Every variable of the three stays in its type.
THEOREM ServiceTypes == ServiceSpec => []ServiceTypeOK
<1>1. TypeOK /\ StartupTypeOK /\ ShutdownTypeOK => ServiceTypeOK
  BY DEF ServiceTypeOK
<1> QED
  BY <1>1, ServiceIsItsParts, RealtimeTypes, StartupTypes, ShutdownTypes, PTL

=============================================================================
