-------------------------------- MODULE Startup --------------------------------
(***************************************************************************)
(* How replicas start on one database (cmd/api/main.go, Open and Migrate   *)
(* of internal/database/database.go): each brings the schema up to the     *)
(* migrations it carries before it serves, and a release is rolled out, or *)
(* back, while other replicas run. Migrations are numbered in the order of *)
(* their file names. The advisory lock belongs to the session, which ends  *)
(* with the process.                                                       *)
(***************************************************************************)
EXTENDS Integers, FiniteSets

CONSTANTS
  Processes,  \* replicas
  NoProcess,  \* the lock is free
  Newest      \* migrations of the newest release

ASSUME StartupAssumptions == NoProcess \notin Processes /\ Newest \in Nat \ {0}

VARIABLES
  carries,    \* migrations in the release of a replica
  state,      \* down, waiting, checking, applying, migrated, serving or conflict
  advisory,   \* who holds the advisory lock
  nextOne,    \* the migration a replica looks at
  applied     \* rows of schema_migrations

startupVars == <<carries, state, advisory, nextOne, applied>>

StartupInit ==
  /\ carries \in [Processes -> 1..Newest]
  /\ state    = [p \in Processes |-> "down"]
  /\ advisory = NoProcess
  /\ nextOne  = [p \in Processes |-> 1]
  /\ applied  = {}

Becomes(p, s) == state' = [state EXCEPT ![p] = s]
\* The session ends, by pg_advisory_unlock or with the process.
Unlocked(p) == advisory' = IF advisory = p THEN NoProcess ELSE advisory

-----------------------------------------------------------------------------
\* The process starts with some release and reaches the database.
Launch(p) ==
  /\ state[p] = "down"
  /\ \E n \in 1..Newest : carries' = [carries EXCEPT ![p] = n]
  /\ Becomes(p, "waiting")
  /\ UNCHANGED <<advisory, nextOne, applied>>

\* Variant: nobody waits.
LockIgnored == advisory \in Processes \cup {NoProcess}
LockIsFree  == advisory = NoProcess

TakeLock(p) ==
  /\ state[p] = "waiting"
  /\ LockIsFree
  /\ advisory' = p
  /\ nextOne'  = [nextOne EXCEPT ![p] = 1]
  /\ Becomes(p, "checking")
  /\ UNCHANGED <<carries, applied>>

\* SELECT EXISTS for the next name.
CheckMigration(p) ==
  /\ state[p] = "checking" /\ nextOne[p] <= carries[p]
  /\ IF nextOne[p] \in applied
     THEN nextOne' = [nextOne EXCEPT ![p] = @ + 1] /\ state' = state
     ELSE Becomes(p, "applying") /\ nextOne' = nextOne
  /\ UNCHANGED <<carries, advisory, applied>>

\* The file and its row in one transaction. Without an answer to the commit the process
\* gives up.
ApplyMigration(p) ==
  /\ state[p] = "applying" /\ nextOne[p] \notin applied
  /\ applied' = applied \cup {nextOne[p]}
  /\ \/ /\ Becomes(p, "checking")
        /\ nextOne' = [nextOne EXCEPT ![p] = @ + 1]
        /\ UNCHANGED advisory
     \/ Becomes(p, "down") /\ Unlocked(p) /\ UNCHANGED nextOne
  /\ UNCHANGED carries

\* Tables that exist already, and the primary key of schema_migrations, refuse it.
RefuseMigration(p) ==
  /\ state[p] = "applying" /\ nextOne[p] \in applied
  /\ Becomes(p, "conflict")
  /\ Unlocked(p)
  /\ UNCHANGED <<carries, nextOne, applied>>

FinishMigrations(p) ==
  /\ state[p] = "checking" /\ nextOne[p] > carries[p]
  /\ Becomes(p, "migrated")
  /\ Unlocked(p)
  /\ UNCHANGED <<carries, nextOne, applied>>

\* Storage, queue, realtime and handlers come up, then workers and server.
StartServing(p) ==
  /\ state[p] = "migrated"
  /\ Becomes(p, "serving")
  /\ UNCHANGED <<carries, advisory, nextOne, applied>>

\* An error of any step of main, a signal, a crash.
GoDown(p) ==
  /\ state[p] # "down"
  /\ Becomes(p, "down")
  /\ Unlocked(p)
  /\ UNCHANGED <<carries, nextOne, applied>>

StartupNext ==
  \E p \in Processes :
    \/ Launch(p) \/ TakeLock(p) \/ CheckMigration(p) \/ ApplyMigration(p)
    \/ RefuseMigration(p) \/ FinishMigrations(p) \/ StartServing(p) \/ GoDown(p)

StartupSpec == StartupInit /\ [][StartupNext]_startupVars

-----------------------------------------------------------------------------
\* Every variable stays in its type.
StartupTypeOK ==
  /\ carries \in [Processes -> 1..Newest]
  /\ state \in [Processes -> {"down", "waiting", "checking", "applying", "migrated",
                              "serving", "conflict"}]
  /\ advisory \in Processes \cup {NoProcess}
  /\ nextOne \in [Processes -> 1..(Newest + 1)]
  /\ applied \subseteq 1..Newest

\* docs/operations.md, PostgreSQL coordinates migrations: whatever releases start, stop
\* and crash side by side, the schema is one the files lead to, whoever serves finds
\* every migration of its own, and no start fails because another was migrating.
MigrationsInOrder ==
  /\ applied = 1..Cardinality(applied)
  /\ \A p \in Processes : /\ state[p] = "serving" => 1..carries[p] \subseteq applied
                          /\ state[p] # "conflict"
=============================================================================
