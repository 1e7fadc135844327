------------------------------- MODULE Realtime -------------------------------
(***************************************************************************)
(* Realtime events of one firm: publication into PostgreSQL with NOTIFY    *)
(* and its local fallback (internal/realtime), and the event stream a      *)
(* browser keeps open, loses and reopens with Last-Event-ID                *)
(* (Handler.Stream, frontend/src/hooks/useRealtime.ts).                    *)
(*                                                                         *)
(* An event gets its id from a bigserial when it is inserted, and reaches  *)
(* the listeners of the replicas in the order of the commits; the two      *)
(* orders may differ. A hub that delivers by itself numbers events with a  *)
(* counter of its own. The seven days of retention are not timed.          *)
(***************************************************************************)
EXTENDS Integers, Sequences, FiniteSets

CONSTANTS
  Publications,  \* how many events are published; event e is the e-th begun
  Replicas,      \* API replicas, each with a hub
  Browsers,      \* browsers with an EventSource
  None,          \* no replica
  ChannelSize,   \* buffer of a subscriber's channel (16)
  ReplayLimit,   \* LIMIT of the replay query (500)
  HistoryLimit,  \* events a hub without database replay keeps (100)
  MaxConnects,   \* bound: connections a browser opens
  MaxFaults      \* bound: hubs closed, listeners stopped, publications failed or
                 \* unanswered, connections broken

ASSUME RealtimeAssumptions ==
  /\ {Publications, ChannelSize, ReplayLimit, HistoryLimit, MaxConnects} \subseteq Nat \ {0}
  /\ MaxFaults \in Nat
  /\ None \notin Replicas /\ "db" \notin Replicas

Events == 1..Publications

VARIABLES
  durable,    \* replicas whose StartPostgres succeeded
  closed,     \* replicas whose hub is closed
  listening,  \* replicas whose listener goroutine runs
  stage,      \* publications: new, inserted, committed, unanswered, failed or local
  by,         \* the replica that publishes an event
  ids,        \* the id the INSERT drew for an event, 0 if none
  sequence,   \* the bigserial
  log,        \* committed events in the order of their notifications
  position,   \* notifications each listener has taken
  localId,    \* Hub.nextID
  issued,     \* every numbered event: committed, or delivered by a hub alone
  phase,      \* streams: off, subscribed (replay not read yet) or live
  at,         \* the replica of a stream
  channel,    \* the subscriber's channel
  replay,     \* replayed events still to be written
  sent,       \* lastSent of the stream
  broken,     \* streams whose writes no longer reach the browser
  lastId,     \* the browser's Last-Event-ID, 0 for none
  seen,       \* numbered events the browser received
  connects,   \* bound: connections opened
  faults,     \* bound: faults so far
  base,       \* history: events numbered before the browser asked for any
  missed,     \* history: events a full channel or a limit kept from it
  repeated    \* history: events it received twice

publication == <<stage, by, ids, sequence, log>>
hubs        == <<durable, closed, listening, position, localId>>
stream      == <<phase, at, sent, broken>>
browser     == <<lastId, seen, connects, base, repeated>>
vars        == <<publication, hubs, issued, stream, channel, replay, missed, browser, faults>>

Numbered(space, id, e) == [space |-> space, id |-> id, event |-> e]

Init ==
  /\ durable \in SUBSET Replicas
  /\ listening = durable
  /\ closed    = {}
  /\ stage     = [e \in Events |-> "new"]
  /\ by        = [e \in Events |-> None]
  /\ ids       = [e \in Events |-> 0]
  /\ sequence  = 0
  /\ log       = <<>>
  /\ position  = [r \in Replicas |-> 0]
  /\ localId   = [r \in Replicas |-> 0]
  /\ issued    = {}
  /\ phase     = [c \in Browsers |-> "off"]
  /\ at        = [c \in Browsers |-> None]
  /\ channel   = [c \in Browsers |-> <<>>]
  /\ replay    = [c \in Browsers |-> {}]
  /\ sent      = [c \in Browsers |-> 0]
  /\ broken    = {}
  /\ lastId    = [c \in Browsers |-> 0]
  /\ seen      = [c \in Browsers |-> {}]
  /\ connects  = [c \in Browsers |-> 0]
  /\ faults    = 0
  /\ base      = [c \in Browsers |-> {}]
  /\ missed    = [c \in Browsers |-> {}]
  /\ repeated  = [c \in Browsers |-> {}]

Fault == faults < MaxFaults /\ faults' = faults + 1

-----------------------------------------------------------------------------
\* The hub.

\* Variant: a stream joins the hub only after its replay was read.
JoinedLate(r) == {c \in Browsers : at[c] = r /\ phase[c] = "live"}

\* The streams in h.clients; a closed hub has none.
Joined(r) == {c \in Browsers : at[c] = r /\ phase[c] # "off" /\ r \notin closed}

\* Variant: the channel takes whatever comes.
AlwaysRoom(c) == phase[c] # "off"

HasRoom(c) == Len(channel[c]) < ChannelSize

\* Deliver: whoever has no room in the channel does not get the event.
Deliver(r, item) ==
  /\ channel' = [c \in Browsers |-> IF c \in Joined(r) /\ HasRoom(c)
                                   THEN Append(channel[c], item) ELSE channel[c]]
  /\ missed'  = [c \in Browsers |-> IF c \in Joined(r) /\ ~HasRoom(c)
                                   THEN missed[c] \cup {item} ELSE missed[c]]

CloseHub(r) ==
  /\ r \notin closed
  /\ closed'    = closed \cup {r}
  /\ listening' = listening \ {r}
  /\ Fault
  /\ UNCHANGED <<publication, durable, position, localId, issued, stream, channel,
                 replay, missed, browser>>

-----------------------------------------------------------------------------
\* Publication.

\* Event e is the next one some handler of r publishes.
Begins(e, r) ==
  /\ stage[e] = "new"
  /\ \A f \in 1..(e - 1) : stage[f] # "new"
  /\ by' = [by EXCEPT ![e] = r]

\* The INSERT of the publishing transaction draws the id.
InsertEvent(e, r) ==
  /\ r \in durable
  /\ Begins(e, r)
  /\ stage'    = [stage EXCEPT ![e] = "inserted"]
  /\ sequence' = sequence + 1
  /\ ids'      = [ids EXCEPT ![e] = sequence + 1]
  /\ UNCHANGED <<log, hubs, issued, stream, channel, replay, missed, browser, faults>>

\* The commit, with its notification. Its answer may be lost.
CommitEvent(e) ==
  /\ stage[e] = "inserted"
  /\ \/ stage' = [stage EXCEPT ![e] = "committed"] /\ UNCHANGED faults
     \/ stage' = [stage EXCEPT ![e] = "unanswered"] /\ Fault
  /\ log'    = Append(log, Numbered("db", ids[e], e))
  /\ issued' = issued \cup {Numbered("db", ids[e], e)}
  /\ UNCHANGED <<by, ids, sequence, hubs, stream, channel, replay, missed, browser>>

\* The transaction fails before it commits, or the hub has no publisher.
FailPublish(e, r) ==
  /\ \/ Begins(e, r)
     \/ stage[e] = "inserted" /\ by[e] = r /\ UNCHANGED by
  /\ stage' = [stage EXCEPT ![e] = "failed"]
  /\ IF r \in durable THEN Fault ELSE UNCHANGED faults
  /\ UNCHANGED <<ids, sequence, log, hubs, issued, stream, channel, replay, missed, browser>>

\* ... and Publish delivers locally, under an id of the hub.
DeliverLocally(e) ==
  LET r    == by[e]
      item == Numbered(r, localId[r] + 1, e)
  IN
  /\ stage[e] \in {"failed", "unanswered"}
  /\ stage' = [stage EXCEPT ![e] = "local"]
  /\ Deliver(r, item)
  /\ IF r \in closed
       THEN UNCHANGED <<localId, issued>>
       ELSE /\ localId' = [localId EXCEPT ![r] = @ + 1]
            /\ issued'  = issued \cup {item}
  /\ UNCHANGED <<by, ids, sequence, log, durable, closed, listening, position, stream,
                 replay, browser, faults>>

\* The listener takes a notification.
Listen(r) ==
  /\ r \in listening
  /\ position[r] < Len(log)
  /\ Deliver(r, log[position[r] + 1])
  /\ position' = [position EXCEPT ![r] = @ + 1]
  /\ UNCHANGED <<publication, durable, closed, listening, localId, issued, stream,
                 replay, browser, faults>>

\* The listener's connection breaks; nothing starts it again.
StopListener(r) ==
  /\ r \in listening
  /\ listening' = listening \ {r}
  /\ Fault
  /\ UNCHANGED <<publication, durable, closed, position, localId, issued, stream,
                 channel, replay, missed, browser>>

-----------------------------------------------------------------------------
\* The stream.

After(c, items) == {i \in items : i.id > lastId[c]}

\* The n events of items with the smallest ids.
First(items, n) == {i \in items : Cardinality({j \in items : j.id < i.id}) < n}

Kept(r) == {i \in issued : i.space = r /\ i.id > localId[r] - HistoryLimit}

\* What a browser that names a Last-Event-ID is replayed, of all that there is.
Replayed(c, all, available) ==
  IF lastId[c] = 0
    THEN replay' = [replay EXCEPT ![c] = {}] /\ UNCHANGED missed
    ELSE /\ replay' = [replay EXCEPT ![c] = available]
         /\ missed' = [missed EXCEPT ![c] = @ \cup (all \ available)]

\* Subscribe: the stream joins the hub. Without a database replay the hub's own
\* history is read under the same lock.
Subscribe(c, r) ==
  /\ phase[c] = "off"
  /\ connects[c] < MaxConnects
  /\ r \notin closed
  /\ connects' = [connects EXCEPT ![c] = @ + 1]
  /\ at'       = [at EXCEPT ![c] = r]
  /\ sent'     = [sent EXCEPT ![c] = lastId[c]]
  /\ base'     = [base EXCEPT ![c] = IF lastId[c] = 0 THEN issued ELSE @]
  /\ IF r \in durable
       THEN phase' = [phase EXCEPT ![c] = "subscribed"] /\ UNCHANGED <<replay, missed>>
       ELSE /\ phase' = [phase EXCEPT ![c] = "live"]
            /\ Replayed(c, After(c, {i \in issued : i.space = r}), After(c, Kept(r)))
  /\ UNCHANGED <<publication, hubs, issued, channel, broken, lastId, seen, repeated, faults>>

\* The replay query, outside the lock.
QueryReplay(c) ==
  LET committed == After(c, {i \in issued : i.space = "db"}) IN
  /\ phase[c] = "subscribed"
  /\ phase' = [phase EXCEPT ![c] = "live"]
  /\ Replayed(c, committed, First(committed, ReplayLimit))
  /\ UNCHANGED <<publication, hubs, issued, at, sent, broken, channel, browser, faults>>

\* Variant: ids already sent are written again.
AlwaysFresh(c, item) == item.id > 0

Fresh(c, item) == item.id > sent[c]

\* writeEvent.
WriteEvent(c, item) ==
  LET received == Fresh(c, item) /\ c \notin broken IN
  /\ sent'     = [sent EXCEPT ![c] = IF Fresh(c, item) THEN item.id ELSE @]
  /\ lastId'   = [lastId EXCEPT ![c] = IF received THEN item.id ELSE @]
  /\ seen'     = [seen EXCEPT ![c] = IF received THEN @ \cup {item} ELSE @]
  /\ repeated' = [repeated EXCEPT ![c] =
                    IF received /\ \E i \in seen[c] : i.event = item.event
                    THEN @ \cup {item.event} ELSE @]

\* Replayed events are written first, by ascending id.
WriteReplayed(c) ==
  /\ phase[c] = "live"
  /\ \E item \in First(replay[c], 1) :
       /\ WriteEvent(c, item)
       /\ replay' = [replay EXCEPT ![c] = @ \ {item}]
  /\ UNCHANGED <<publication, hubs, issued, phase, at, broken, channel, connects, base, missed, faults>>

WriteLive(c) ==
  /\ phase[c] = "live"
  /\ replay[c] = {} /\ channel[c] # <<>>
  /\ WriteEvent(c, Head(channel[c]))
  /\ channel' = [channel EXCEPT ![c] = Tail(@)]
  /\ UNCHANGED <<publication, hubs, issued, phase, at, broken, replay, connects, base, missed, faults>>

\* The network loses the connection before the server notices.
Break(c) ==
  /\ phase[c] = "live" /\ c \notin broken
  /\ broken' = broken \cup {c}
  /\ Fault
  /\ UNCHANGED <<publication, hubs, issued, phase, at, sent, channel, replay, missed, browser>>

\* The stream ends: an error, a closed channel, a failed query, a closed tab.
Disconnect(c) ==
  /\ phase[c] # "off"
  /\ phase'   = [phase EXCEPT ![c] = "off"]
  /\ at'      = [at EXCEPT ![c] = None]
  /\ sent'    = [sent EXCEPT ![c] = 0]
  /\ channel' = [channel EXCEPT ![c] = <<>>]
  /\ replay'  = [replay EXCEPT ![c] = {}]
  /\ broken'  = broken \ {c}
  /\ UNCHANGED <<publication, hubs, issued, missed, browser, faults>>

-----------------------------------------------------------------------------
Next ==
  \/ \E r \in Replicas :
       \/ CloseHub(r) \/ Listen(r) \/ StopListener(r)
       \/ \E e \in Events : InsertEvent(e, r) \/ FailPublish(e, r)
       \/ \E c \in Browsers : Subscribe(c, r)
  \/ \E e \in Events : CommitEvent(e) \/ DeliverLocally(e)
  \/ \E c \in Browsers :
       QueryReplay(c) \/ WriteReplayed(c) \/ WriteLive(c) \/ Break(c) \/ Disconnect(c)

Spec == Init /\ [][Next]_vars

-----------------------------------------------------------------------------
Item == [space : Replicas \cup {"db"}, id : Nat, event : Events]

\* Every variable stays in its range; a channel never holds more than it can.
TypeOK ==
  /\ durable \subseteq Replicas /\ closed \subseteq Replicas
  /\ listening \subseteq durable
  /\ stage \in [Events -> {"new", "inserted", "committed", "unanswered", "failed", "local"}]
  /\ by \in [Events -> Replicas \cup {None}]
  /\ ids \in [Events -> 0..sequence]
  /\ log \in Seq(Item)
  /\ position \in [Replicas -> 0..Len(log)]
  /\ localId \in [Replicas -> Nat]
  /\ issued \subseteq Item
  /\ phase \in [Browsers -> {"off", "subscribed", "live"}]
  /\ at \in [Browsers -> Replicas \cup {None}]
  /\ channel \in [Browsers -> Seq(Item)]
  /\ \A c \in Browsers : Len(channel[c]) <= ChannelSize
  /\ replay \in [Browsers -> SUBSET Item]
  /\ sent \in [Browsers -> Nat] /\ lastId \in [Browsers -> Nat]
  /\ seen \in [Browsers -> SUBSET Item] /\ base \in [Browsers -> SUBSET Item]
  /\ missed \in [Browsers -> SUBSET Item]
  /\ repeated \in [Browsers -> SUBSET Events]
  /\ broken \subseteq Browsers
  /\ connects \in [Browsers -> 0..MaxConnects]
  /\ faults \in 0..MaxFaults

\* Notifications that came after one with a larger id.
Overtaken == {log[n] : n \in {n \in 1..Len(log) : \E m \in 1..(n - 1) : log[m].id > log[n].id}}

\* A browser's Last-Event-ID is honest: as long as its ids come from the
\* database, it received every event up to there that was numbered since it
\* first asked, unless a channel was full, the replay limit was hit, or the
\* event's commit was overtaken. No event falls between replay and live
\* delivery, whatever the replica it reconnects to and how far its listener is.
NoGap ==
  \A c \in Browsers : (\A i \in seen[c] : i.space = "db") =>
    \A i \in {i \in issued : i.space = "db"} \ base[c] :
      i.id <= lastId[c] => i \in seen[c] \cup missed[c] \cup Overtaken

\* A browser gets an event twice only if the answer to its commit was lost.
RepeatedOnlyInDoubt ==
  \A c \in Browsers : \A e \in repeated[c] :
    stage[e] = "local" /\ Numbered("db", ids[e], e) \in issued

\* "The HTTP stream suppresses IDs already sent" (docs/architecture.md:43):
\* the event it takes from the channel is received, or has been before.
SuppressedWasSent ==
  [][\A c \in Browsers :
       phase[c] = "live" /\ phase'[c] = "live" /\ c \notin broken
         /\ channel[c] # <<>> /\ channel'[c] = Tail(channel[c])
       => \E i \in seen'[c] : i.event = Head(channel[c]).event]_vars

=============================================================================
