------------------------------- MODULE Shutdown --------------------------------
(***************************************************************************)
(* How one replica stops (the second half of cmd/api/main.go, Close and    *)
(* Publish of internal/realtime): the signal context ends the workers and  *)
(* the listener, the hub is closed so that the streams end, the server     *)
(* waits for its requests and then main for the workers, both no longer    *)
(* than 15 seconds, and the connections are closed last. A request changes *)
(* something once and publishes it; the database is up, module Realtime    *)
(* has the publications that fail. Writes and timeouts of one connection   *)
(* are left out.                                                           *)
(***************************************************************************)
EXTENDS Integers

CONSTANTS
  Calls,     \* requests that change something
  Streams,   \* requests that read events
  Loops,     \* background workers main waits for
  Listener   \* the goroutine that listens, which main does not wait for

ASSUME ShutdownAssumptions == Calls \cap Loops = {} /\ Listener \notin Calls \cup Loops

VARIABLES
  main,      \* where main is: serving, stopping, draining, waiting, closing, gone
  cancelled, \* the signal context is done
  accepting, \* the server takes requests
  hubOpen,   \* the hub is not closed
  late,      \* the 15 seconds are over
  call,      \* of a request: none, begun, changed, answered or cut
  told,      \* who gets its event: nobody, here (this replica's streams), everybody
  strm,      \* of a stream: none, open, ended or cut
  loop,      \* of a worker: idle, busy, ended or cut
  conn,      \* who holds a connection of the pool
  poolOpen   \* connections may be acquired

mainVars     == <<main, cancelled, accepting, hubOpen, late, poolOpen>>
requestVars  == <<call, told>>
shutdownVars == <<mainVars, requestVars, strm, loop, conn>>

ShutdownInit ==
  /\ main = "serving" /\ cancelled = FALSE /\ accepting = TRUE
  /\ hubOpen = TRUE /\ late = FALSE /\ poolOpen = TRUE
  /\ call = [c \in Calls |-> "none"]
  /\ told = [c \in Calls |-> "nobody"]
  /\ strm = [s \in Streams |-> "none"]
  /\ loop = [w \in Loops |-> "idle"]
  /\ conn = {Listener}

-----------------------------------------------------------------------------
\* Requests. One that was accepted goes on until it is answered, or the process ends.

AcceptCall(c) ==
  /\ accepting /\ call[c] = "none"
  /\ call' = [call EXCEPT ![c] = "begun"]
  /\ UNCHANGED <<mainVars, told, strm, loop, conn>>

Working == {c \in Calls : call[c] = "begun"} \cup {w \in Loops : loop[w] = "busy"}

Acquire(x) ==
  /\ poolOpen
  /\ x \in Working \ conn
  /\ conn' = conn \cup {x}
  /\ UNCHANGED <<mainVars, requestVars, strm, loop>>

CommitChange(c) ==
  /\ call[c] = "begun" /\ c \in conn
  /\ call' = [call EXCEPT ![c] = "changed"]
  /\ conn' = conn \ {c}
  /\ UNCHANGED <<mainVars, told, strm, loop>>

\* Nothing to change, an error, or a pool that is closed.
RefuseCall(c) ==
  /\ call[c] = "begun"
  /\ call' = [call EXCEPT ![c] = "answered"]
  /\ conn' = conn \ {c}
  /\ UNCHANGED <<mainVars, told, strm, loop>>

\* The publication has a context of its own, derived from the signal context: once that
\* is done nothing is stored any more, and a closed hub delivers to nobody.
PublishChange(c) ==
  /\ call[c] = "changed"
  /\ told' = [told EXCEPT ![c] = IF ~cancelled THEN "everybody"
                                 ELSE IF hubOpen THEN "here" ELSE "nobody"]
  /\ call' = [call EXCEPT ![c] = "answered"]
  /\ UNCHANGED <<mainVars, strm, loop, conn>>

\* A closed hub hands out a closed channel, and the stream ends at once.
OpenStream(s) ==
  /\ accepting /\ strm[s] = "none"
  /\ strm' = [strm EXCEPT ![s] = IF hubOpen THEN "open" ELSE "ended"]
  /\ UNCHANGED <<mainVars, requestVars, loop, conn>>

\* The browser leaves, or the channel was closed.
EndStream(s) ==
  /\ strm[s] = "open"
  /\ strm' = [strm EXCEPT ![s] = "ended"]
  /\ UNCHANGED <<mainVars, requestVars, loop, conn>>

-----------------------------------------------------------------------------
\* Workers and the listener.

\* With the ticker and the context both ready, select may still choose the ticker.
BeginCycle(w) ==
  /\ main # "gone" /\ loop[w] = "idle"
  /\ loop' = [loop EXCEPT ![w] = "busy"]
  /\ UNCHANGED <<mainVars, requestVars, strm, conn>>

FinishCycle(w) ==
  /\ loop[w] = "busy"
  /\ loop' = [loop EXCEPT ![w] = "idle"]
  /\ conn' = conn \ {w}
  /\ UNCHANGED <<mainVars, requestVars, strm>>

EndLoop(w) ==
  /\ loop[w] = "idle" /\ cancelled
  /\ loop' = [loop EXCEPT ![w] = "ended"]
  /\ UNCHANGED <<mainVars, requestVars, strm, conn>>

StopListening ==
  /\ cancelled /\ Listener \in conn
  /\ conn' = conn \ {Listener}
  /\ UNCHANGED <<mainVars, requestVars, strm, loop>>

-----------------------------------------------------------------------------
\* main.

Signal ==
  /\ main = "serving" /\ ~cancelled
  /\ cancelled' = TRUE
  /\ UNCHANGED <<main, accepting, hubOpen, late, poolOpen, requestVars, strm, loop, conn>>

\* ListenAndServe returned, or the signal did; stop() cancels the context either way.
LeaveSelect ==
  /\ main = "serving"
  /\ main' = "stopping"
  /\ accepting' \in IF cancelled THEN BOOLEAN ELSE {FALSE}
  /\ cancelled' = TRUE
  /\ UNCHANGED <<hubOpen, late, poolOpen, requestVars, strm, loop, conn>>

CloseHubOnStop ==
  /\ main = "stopping" /\ hubOpen
  /\ hubOpen' = FALSE
  /\ UNCHANGED <<main, cancelled, accepting, late, poolOpen, requestVars, strm, loop, conn>>

BeginDrain ==
  /\ main = "stopping" /\ ~hubOpen
  /\ main' = "draining" /\ accepting' = FALSE
  /\ UNCHANGED <<cancelled, hubOpen, late, poolOpen, requestVars, strm, loop, conn>>

Deadline ==
  /\ main \in {"draining", "waiting"}
  /\ late' = TRUE
  /\ UNCHANGED <<main, cancelled, accepting, hubOpen, poolOpen, requestVars, strm, loop, conn>>

Drained ==
  /\ \A c \in Calls : call[c] \notin {"begun", "changed"}
  /\ \A s \in Streams : strm[s] # "open"

EndDrain ==
  /\ main = "draining" /\ (Drained \/ late)
  /\ main' = "waiting"
  /\ UNCHANGED <<cancelled, accepting, hubOpen, late, poolOpen, requestVars, strm, loop, conn>>

\* Variant: a worker that is not counted in the WaitGroup.
SomeEnded == Loops = {} \/ \E w \in Loops : loop[w] = "ended"
AllEnded  == \A w \in Loops : loop[w] = "ended"

\* main returns, and the deferred db.Close lets nobody acquire a connection any more.
EndWait ==
  /\ main = "waiting" /\ (AllEnded \/ late)
  /\ main' = "closing" /\ poolOpen' = FALSE
  /\ UNCHANGED <<cancelled, accepting, hubOpen, late, requestVars, strm, loop, conn>>

\* db.Close waits for the connections in use; what still runs ends with the process.
Exit ==
  /\ main = "closing" /\ conn = {}
  /\ main' = "gone"
  /\ call' = [c \in Calls |-> IF call[c] \in {"begun", "changed"} THEN "cut" ELSE call[c]]
  /\ strm' = [s \in Streams |-> IF strm[s] = "open" THEN "cut" ELSE strm[s]]
  /\ loop' = [w \in Loops |-> IF loop[w] # "ended" THEN "cut" ELSE "ended"]
  /\ UNCHANGED <<cancelled, accepting, hubOpen, late, poolOpen, told, conn>>

ShutdownNext ==
  \/ \E c \in Calls : AcceptCall(c) \/ CommitChange(c) \/ RefuseCall(c) \/ PublishChange(c)
  \/ \E s \in Streams : OpenStream(s) \/ EndStream(s)
  \/ \E w \in Loops : BeginCycle(w) \/ FinishCycle(w) \/ EndLoop(w)
  \/ \E x \in Calls \cup Loops : Acquire(x)
  \/ StopListening \/ Signal \/ LeaveSelect \/ CloseHubOnStop \/ BeginDrain
  \/ Deadline \/ EndDrain \/ EndWait \/ Exit

ShutdownSpec == ShutdownInit /\ [][ShutdownNext]_shutdownVars

-----------------------------------------------------------------------------
\* Every variable stays in its type.
ShutdownTypeOK ==
  /\ main \in {"serving", "stopping", "draining", "waiting", "closing", "gone"}
  /\ {cancelled, accepting, hubOpen, late, poolOpen} \subseteq BOOLEAN
  /\ call \in [Calls -> {"none", "begun", "changed", "answered", "cut"}]
  /\ told \in [Calls -> {"nobody", "here", "everybody"}]
  /\ strm \in [Streams -> {"none", "open", "ended", "cut"}]
  /\ loop \in [Loops -> {"idle", "busy", "ended", "cut"}]
  /\ conn \subseteq Calls \cup Loops \cup {Listener}

\* docs/architecture.md, a signal cancels the workers, closes the streams, drains HTTP
\* and then closes PostgreSQL: whatever comes in on the way, the pool is closed under a
\* request, a stream or a worker, and one of them is cut off, only when the 15 seconds
\* were over, and nobody is cut off in the middle of a statement.
StopsInOrder ==
  /\ ~poolOpen => late \/ (Drained /\ \A w \in Loops : loop[w] = "ended")
  /\ main = "gone" => /\ conn = {}
                      /\ late \/ \A c \in Calls : call[c] \in {"none", "answered"}
=============================================================================
