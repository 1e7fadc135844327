---------------------------- MODULE RealtimeProofs ----------------------------
(***************************************************************************)
(* No event falls between replay and live delivery: theorems about         *)
(* Realtime, for any number of events, replicas, browsers and faults. The  *)
(* invariant follows an event a browser has yet to get. Once the listener  *)
(* of the browser's replica has taken it, it is in the channel; once the   *)
(* replay was read, what was committed before it is in the replay; and the *)
(* channel has the order of the log, so that what comes after an event     *)
(* with a larger id is the notifications' own order (Overtaken).           *)
(***************************************************************************)
EXTENDS Realtime, FiniteSetTheorems, TLAPS

Logged(i) == \E n \in 1..Len(log) : log[n] = i

\* An event has at most one id of the database, and one place in the log.
Sequenced ==
  /\ sequence \in Nat
  /\ \A e, f \in Events : ids[e] = ids[f] /\ ids[e] # 0 => e = f
  /\ \A e \in Events : /\ stage[e] = "new" => ids[e] = 0
                       /\ stage[e] = "inserted" => ids[e] # 0
                       /\ stage[e] # "new" => by[e] \in Replicas
  /\ \A n \in 1..Len(log) : /\ log[n].event \in Events /\ ids[log[n].event] # 0
                            /\ log[n] = Numbered("db", ids[log[n].event], log[n].event)
                            /\ stage[log[n].event] \notin {"new", "inserted"}
  /\ \A m, n \in 1..Len(log) : log[m] = log[n] => m = n

\* What is issued is logged, or was delivered by one hub alone.
Issued ==
  /\ IsFiniteSet(issued)
  /\ \A n \in 1..Len(log) : log[n] \in issued
  /\ \A i \in issued : i.id > 0 /\ (i.space = "db" => Logged(i))
  /\ \A i, j \in issued : i.space # "db" /\ j.space # "db" /\ i.event = j.event => i = j
  /\ \A i \in issued : i.space # "db" => stage[i.event] = "local"

Clean(c) == \A i \in seen[c] : i.space = "db"

\* A listener runs only for a hub that is open and durable.
Listeners ==
  /\ listening \cap closed = {}
  /\ \A r \in Replicas \ durable : position[r] = 0

\* What a browser has seen, and its Last-Event-ID.
Received(c) ==
  /\ seen[c] \subseteq issued
  /\ \A i \in seen[c] : i.id <= lastId[c]
  /\ Clean(c) /\ lastId[c] # 0 => \E i \in seen[c] : i.id = lastId[c]

\* What a stream holds.
Held(c) ==
  /\ phase[c] = "off" => channel[c] = <<>> /\ replay[c] = {} /\ c \notin broken
  /\ phase[c] # "off" => at[c] \in Replicas /\ sent[c] >= lastId[c]
  /\ phase[c] # "off" /\ c \notin broken => sent[c] = lastId[c]
  /\ phase[c] = "subscribed" => replay[c] = {} /\ c \notin broken
  /\ replay[c] \subseteq issued
  /\ \A a \in 1..Len(channel[c]) : channel[c][a] \in issued

\* The channel has what its listener took, in the order of the log.
Ordered(c) ==
  /\ \A a \in 1..Len(channel[c]), n \in 1..Len(log) : channel[c][a] = log[n] => n <= position[at[c]]
  /\ \A a, b \in 1..Len(channel[c]), m, n \in 1..Len(log) :
       a < b /\ channel[c][a] = log[m] /\ channel[c][b] = log[n] => m < n

\* A browser has yet to get an event.
Awaits(c, i) == i.id > lastId[c] /\ i \notin base[c] \cup missed[c]

InChannel(c, i) == \E a \in 1..Len(channel[c]) : channel[c][a] = i

\* What the listener took and the browser has yet to get is in the channel or the
\* replay, or will be in a replay that is still to be read.
Taken(c) ==
  phase[c] # "off" /\ c \notin broken /\ Clean(c) =>
    \A n \in 1..position[at[c]] : Awaits(c, log[n]) =>
      InChannel(c, log[n]) \/ log[n] \in replay[c] \/ (phase[c] = "subscribed" /\ lastId[c] # 0)

\* What was committed before an event of the replay is in the replay as well.
Complete(c) ==
  c \notin broken =>
    \A m, n \in 1..Len(log) : m < n /\ log[n] \in replay[c] /\ log[m].id > lastId[c] =>
      log[m] \in replay[c] \cup missed[c]

\* NoGap and RepeatedOnlyInDoubt, of one browser.
Gapless(c) ==
  Clean(c) => \A i \in issued : i.space = "db" /\ i \notin base[c] /\ i.id <= lastId[c] =>
    i \in seen[c] \cup missed[c] \cup Overtaken

Doubtful(c) == \A e \in repeated[c] : stage[e] = "local" /\ Numbered("db", ids[e], e) \in issued

Stream(c) == Held(c) /\ Ordered(c) /\ Taken(c) /\ Complete(c)
Browsing(c) == Received(c) /\ Gapless(c) /\ Doubtful(c)

RInv == /\ TypeOK /\ Sequenced /\ Issued /\ Listeners
        /\ \A c \in Browsers : Stream(c) /\ Browsing(c)

USE RealtimeAssumptions DEF RealtimeAssumptions

-----------------------------------------------------------------------------
\* Steps of the publication.

LEMMA InitRInv == Init => RInv
<1> SUFFICES ASSUME Init PROVE RInv
  OBVIOUS
<1> USE DEF Init
<1>1. TypeOK
  BY DEF TypeOK, Item
<1>2. Sequenced /\ Listeners
  BY DEF Sequenced, Listeners
<1>3. Issued
  BY FS_EmptySet DEF Issued
<1>4. ASSUME NEW c \in Browsers PROVE Stream(c) /\ Browsing(c)
  BY DEF Stream, Held, Ordered, Taken, Complete, Browsing, Received, Clean, Gapless, Doubtful
<1> QED
  BY <1>1, <1>2, <1>3, <1>4 DEF RInv

\* A logged event is one of the database, and is there once.
LEMMA LoggedFacts ==
  ASSUME RInv, NEW n \in 1..Len(log)
  PROVE  /\ log[n] \in Item /\ log[n] \in issued /\ log[n].space = "db" /\ log[n].id \in Nat
         /\ \A m \in 1..Len(log) : log[m].id = log[n].id => m = n
<1>1. log[n] \in Item
  BY DEF RInv, TypeOK
<1>2. log[n] \in issued /\ log[n] = Numbered("db", ids[log[n].event], log[n].event)
  BY DEF RInv, Issued, Sequenced
<1>3. log[n].space = "db" /\ log[n].id = ids[log[n].event] /\ log[n].event \in Events /\ ids[log[n].event] # 0
  BY <1>1, <1>2 DEF Numbered, Item, RInv, Sequenced
<1>4. ASSUME NEW m \in 1..Len(log), log[m].id = log[n].id PROVE m = n
  <2>1. log[m] = Numbered("db", ids[log[m].event], log[m].event) /\ log[m].event \in Events
    BY DEF RInv, Sequenced
  <2>2. log[m].id = ids[log[m].event]
    BY <2>1 DEF Numbered
  <2>3. \A e, f \in Events : ids[e] = ids[f] /\ ids[e] # 0 => e = f
    BY DEF RInv, Sequenced
  <2>a. log[m].event = log[n].event
    BY <1>3, <1>4, <2>1, <2>2, <2>3
  <2>4. log[m] = log[n]
    BY <1>2, <2>1, <2>a
  <2> QED
    BY <2>4 DEF RInv, Sequenced
<1> QED
  BY <1>1, <1>2, <1>3, <1>4 DEF Item

\* An issued event of the database is in the log.
LEMMA IssuedIsLogged ==
  ASSUME RInv, NEW i \in issued, i.space = "db"
  PROVE  \E n \in 1..Len(log) : log[n] = i
<1> QED
  BY DEF RInv, Issued, Logged

LEMMA OvertakenFacts ==
  ASSUME NEW m \in 1..Len(log), NEW n \in 1..Len(log), m < n, log[m].id > log[n].id
  PROVE  log[n] \in Overtaken
<1>1. m \in 1..(n - 1)
  OBVIOUS
<1> QED
  BY <1>1 DEF Overtaken

\* A browser and its stream do not notice what does not touch them.
LEMMA BrowserKept ==
  ASSUME RInv, NEW c \in Browsers,
         UNCHANGED <<log, issued, position>>,
         \A e \in Events : stage[e] = "local" => stage'[e] = "local" /\ ids'[e] = ids[e],
         phase'[c] = phase[c], at'[c] = at[c], channel'[c] = channel[c], replay'[c] = replay[c],
         sent'[c] = sent[c], c \in broken' <=> c \in broken, lastId'[c] = lastId[c], seen'[c] = seen[c],
         base'[c] = base[c], missed'[c] = missed[c], repeated'[c] = repeated[c]
  PROVE  Stream(c)' /\ Browsing(c)'
<1>0. Stream(c) /\ Browsing(c) /\ repeated[c] \subseteq Events
  BY DEF RInv, TypeOK
<1>1. Held(c)'
  BY <1>0 DEF Stream, Held
<1>2. Ordered(c)'
  BY <1>0 DEF Stream, Ordered
<1>3. Clean(c)' = Clean(c) /\ \A i : Awaits(c, i)' = Awaits(c, i) /\ InChannel(c, i)' = InChannel(c, i)
  BY DEF Clean, Awaits, InChannel
<1>4. Taken(c)'
  BY <1>0, <1>3 DEF Stream, Taken
<1>5. Complete(c)'
  BY <1>0 DEF Stream, Complete
<1>6. Received(c)' /\ Gapless(c)'
  BY <1>0, <1>3 DEF Browsing, Received, Gapless, Overtaken
<1>7. Doubtful(c)'
  BY <1>0 DEF Browsing, Doubtful
<1> QED
  BY <1>1, <1>2, <1>4, <1>5, <1>6, <1>7 DEF Stream, Browsing

\* CloseHub and StopListener.
LEMMA StopKeepsRInv ==
  ASSUME RInv, NEW r \in Replicas, CloseHub(r) \/ StopListener(r)
  PROVE  RInv'
<1>1. /\ listening' = listening \ {r} /\ closed' \in {closed, closed \cup {r}}
      /\ faults' \in 0..MaxFaults
      /\ UNCHANGED <<publication, durable, position, localId, issued, stream, channel, replay, missed, browser>>
  BY DEF CloseHub, StopListener, Fault, RInv, TypeOK
<1>2. TypeOK'
  BY <1>1 DEF RInv, TypeOK, publication, stream, browser
<1>3. Sequenced' /\ Issued' /\ Listeners'
  BY <1>1 DEF RInv, Sequenced, Issued, Logged, Listeners, publication
<1>4. ASSUME NEW c \in Browsers PROVE Stream(c)' /\ Browsing(c)'
  BY <1>1, BrowserKept DEF publication, stream, browser
<1> QED
  BY <1>2, <1>3, <1>4 DEF RInv

\* InsertEvent and FailPublish.
LEMMA PublishKeepsRInv ==
  ASSUME RInv, NEW e \in Events, NEW r \in Replicas, InsertEvent(e, r) \/ FailPublish(e, r)
  PROVE  RInv'
<1>1. /\ stage[e] \in {"new", "inserted"} /\ by' \in {by, [by EXCEPT ![e] = r]}
      /\ stage[e] = "new" => by' = [by EXCEPT ![e] = r]
      /\ \/ stage[e] = "new" /\ stage' = [stage EXCEPT ![e] = "inserted"]
            /\ ids' = [ids EXCEPT ![e] = sequence + 1] /\ sequence' = sequence + 1
         \/ stage' = [stage EXCEPT ![e] = "failed"] /\ UNCHANGED <<ids, sequence>>
      /\ faults' \in 0..MaxFaults
      /\ UNCHANGED <<log, hubs, issued, stream, channel, replay, missed, browser>>
  BY DEF InsertEvent, FailPublish, Begins, Fault, RInv, TypeOK
<1>2. sequence \in Nat
  BY DEF RInv, Sequenced
<1>3. TypeOK'
  <2>1. ids \in [Events -> 0..sequence]
    BY DEF RInv, TypeOK
  <2>2. ids' \in [Events -> 0..sequence']
    BY <1>1, <1>2, <2>1
  <2>3. stage' \in [Events -> {"new", "inserted", "committed", "unanswered", "failed", "local"}]
    BY <1>1 DEF RInv, TypeOK
  <2>4. by' \in [Events -> Replicas \cup {None}]
    BY <1>1 DEF RInv, TypeOK
  <2> QED
    BY <1>1, <2>2, <2>3, <2>4 DEF RInv, TypeOK, hubs, stream, browser
<1>4. Sequenced'
  <2>1. \A f, g \in Events : ids'[f] = ids'[g] /\ ids'[f] # 0 => f = g
    <3>1. ids \in [Events -> 0..sequence] /\ \A f, g \in Events : ids[f] = ids[g] /\ ids[f] # 0 => f = g
      BY DEF RInv, TypeOK, Sequenced
    <3> QED
      BY <1>1, <1>2, <3>1
  <2>2. \A f \in Events : /\ stage'[f] = "new" => ids'[f] = 0
                          /\ stage'[f] = "inserted" => ids'[f] # 0
                          /\ stage'[f] # "new" => by'[f] \in Replicas
    BY <1>1, <1>2 DEF RInv, TypeOK, Sequenced
  <2>3. ASSUME NEW n \in 1..Len(log)
        PROVE  log[n].event # e /\ stage'[log[n].event] = stage[log[n].event] /\ ids'[log[n].event] = ids[log[n].event]
    BY <1>1 DEF RInv, TypeOK, Sequenced
  <2> QED
    BY <1>1, <1>2, <2>1, <2>2, <2>3 DEF RInv, Sequenced
<1>5. Issued'
  <2>1. \A i \in issued : i.event \in Events /\ (i.space # "db" => stage'[i.event] = "local")
    BY <1>1 DEF RInv, TypeOK, Item, Issued
  <2> QED
    BY <1>1, <2>1 DEF RInv, Issued, Logged
<1>6. Listeners'
  BY <1>1 DEF RInv, Listeners, hubs
<1>7. ASSUME NEW c \in Browsers PROVE Stream(c)' /\ Browsing(c)'
  <2>1. \A f \in Events : stage[f] = "local" => stage'[f] = "local" /\ ids'[f] = ids[f]
    BY <1>1 DEF RInv, TypeOK
  <2> QED
    BY <1>1, <2>1, BrowserKept DEF hubs, stream, browser
<1> QED
  BY <1>3, <1>4, <1>5, <1>6, <1>7 DEF RInv

\* What a commit appends is new, and is issued with it.
LEMMA CommitKeepsRInv ==
  ASSUME RInv, NEW e \in Events, CommitEvent(e)
  PROVE  RInv'
<1> DEFINE item == Numbered("db", ids[e], e)
<1> DEFINE last == Len(log) + 1
<1>1. /\ stage[e] = "inserted" /\ \E next \in {"committed", "unanswered"} : stage' = [stage EXCEPT ![e] = next]
      /\ log' = Append(log, item) /\ issued' = issued \cup {item} /\ faults' \in 0..MaxFaults
      /\ UNCHANGED <<by, ids, sequence, hubs, stream, channel, replay, missed, browser>>
  BY DEF CommitEvent, Fault, RInv, TypeOK
<1>2. item \in Item /\ item.id > 0 /\ item.space = "db" /\ item.event = e /\ item.id = ids[e]
  BY <1>1 DEF RInv, TypeOK, Sequenced, Item, Numbered
<1>3. log \in Seq(Item) /\ Len(log) \in Nat
  BY DEF RInv, TypeOK
<1>4. Len(log') = last /\ log'[last] = item /\ \A n \in 1..Len(log) : log'[n] = log[n]
  BY <1>1, <1>2, <1>3
<1>5. \A n \in 1..Len(log) : log[n].event # e /\ log[n] # item /\ log[n].id # item.id
  <2> SUFFICES ASSUME NEW n \in 1..Len(log) PROVE log[n].event # e /\ log[n] # item /\ log[n].id # item.id
    OBVIOUS
  <2>1. /\ log[n].event \in Events /\ ids[log[n].event] # 0 /\ stage[log[n].event] # "inserted"
        /\ log[n] = Numbered("db", ids[log[n].event], log[n].event)
        /\ \A f, g \in Events : ids[f] = ids[g] /\ ids[f] # 0 => f = g
    BY DEF RInv, Sequenced
  <2>2. log[n].id = ids[log[n].event]
    BY <2>1 DEF Numbered
  <2> QED
    BY <1>1, <1>2, <2>1, <2>2
<1>6. item \notin issued
  BY <1>2, <1>5 DEF RInv, Issued, Logged
<1>7. TypeOK'
  <2>1. log' \in Seq(Item) /\ position \in [Replicas -> 0..Len(log')]
    BY <1>1, <1>2, <1>3, <1>4 DEF RInv, TypeOK
  <2>2. stage' \in [Events -> {"new", "inserted", "committed", "unanswered", "failed", "local"}]
    BY <1>1 DEF RInv, TypeOK
  <2> QED
    BY <1>1, <1>2, <2>1, <2>2 DEF RInv, TypeOK, hubs, stream, browser
<1>8. \A n \in 1..Len(log') : n \in 1..Len(log) \/ n = last
  BY <1>3, <1>4
<1>9. \A f \in Events : IF f = e THEN stage'[f] \in {"committed", "unanswered"} ELSE stage'[f] = stage[f]
  BY <1>1 DEF RInv, TypeOK
<1>10. Sequenced'
  <2>1. ASSUME NEW n \in 1..Len(log')
        PROVE  /\ log'[n].event \in Events /\ ids[log'[n].event] # 0
               /\ log'[n] = Numbered("db", ids[log'[n].event], log'[n].event)
               /\ stage'[log'[n].event] \notin {"new", "inserted"}
    <3>1. CASE n = last
      BY <3>1, <1>1, <1>2, <1>4, <1>9
    <3>2. CASE n \in 1..Len(log)
      BY <3>2, <1>4, <1>5, <1>9 DEF RInv, Sequenced
    <3> QED
      BY <3>1, <3>2, <1>8
  <2>2. \A m, n \in 1..Len(log') : log'[m] = log'[n] => m = n
    BY <1>4, <1>5, <1>8 DEF RInv, Sequenced
  <2>3. \A f \in Events : /\ stage'[f] = "new" => ids[f] = 0
                          /\ stage'[f] = "inserted" => ids[f] # 0
                          /\ stage'[f] # "new" => by[f] \in Replicas
    BY <1>1, <1>9 DEF RInv, Sequenced
  <2> QED
    BY <1>1, <2>1, <2>2, <2>3 DEF RInv, Sequenced
<1>11. Issued'
  <2>1. IsFiniteSet(issued')
    BY <1>1, FS_AddElement DEF RInv, Issued
  <2>2. \A n \in 1..Len(log') : log'[n] \in issued'
    BY <1>1, <1>4, <1>8 DEF RInv, Issued
  <2>3. \A i \in issued' : i.id > 0 /\ (i.space = "db" => \E n \in 1..Len(log') : log'[n] = i)
    BY <1>1, <1>2, <1>3, <1>4 DEF RInv, Issued, Logged
  <2>4. \A i \in issued' : i.space # "db" => i \in issued /\ i.event \in Events /\ stage[i.event] = "local"
    BY <1>1, <1>2 DEF RInv, Issued, TypeOK, Item
  <2>5. \A i \in issued' : i.space # "db" => stage'[i.event] = "local"
    BY <1>1, <1>9, <2>4
  <2> QED
    BY <2>1, <2>2, <2>3, <2>4, <2>5 DEF RInv, Issued, Logged
<1>12. Listeners'
  BY <1>1 DEF RInv, Listeners, hubs
<1>13. Overtaken \subseteq Overtaken'
  BY <1>3, <1>4 DEF Overtaken
<1>14. ASSUME NEW c \in Browsers PROVE Stream(c)' /\ Browsing(c)'
  <2>0. /\ Stream(c) /\ Browsing(c) /\ repeated[c] \subseteq Events /\ at[c] \in Replicas \cup {None}
        /\ UNCHANGED <<phase, at, sent, broken, channel, replay, lastId, seen, base, missed, repeated, ids, position>>
    BY <1>1 DEF RInv, TypeOK, stream, browser, hubs
  <2>1. Held(c)'
    BY <1>1, <2>0 DEF Stream, Held
  <2>2. \A a \in 1..Len(channel[c]) : channel[c][a] # item
    BY <1>6, <2>0 DEF Stream, Held
  <2>3. Ordered(c)'
    <3>1. \A a \in 1..Len(channel[c]), n \in 1..Len(log') : channel[c][a] = log'[n] => n \in 1..Len(log)
      BY <1>4, <1>8, <2>2
    <3>2. /\ \A a \in 1..Len(channel[c]), n \in 1..Len(log') :
               channel[c][a] = log'[n] => n <= position[at[c]]
          /\ \A a, b \in 1..Len(channel[c]), m, n \in 1..Len(log') :
               a < b /\ channel[c][a] = log'[m] /\ channel[c][b] = log'[n] => m < n
      BY <1>4, <2>0, <3>1 DEF Stream, Ordered
    <3> QED
      BY <2>0, <3>2 DEF Ordered
  <2>4. \A n \in 1..position[at[c]] : at[c] \in Replicas => n \in 1..Len(log)
    BY DEF RInv, TypeOK
  <2>5. Taken(c)'
    BY <1>4, <2>0, <2>4 DEF Stream, Held, Taken, Clean, Awaits, InChannel
  <2>6. item \notin replay[c]
    BY <1>6, <2>0 DEF Stream, Held
  <2>7. Complete(c)'
    BY <1>4, <1>8, <1>3, <2>0, <2>6 DEF Stream, Complete
  <2>8. Received(c)'
    BY <1>1, <2>0 DEF Browsing, Received, Clean
  <2>9. Gapless(c)'
    <3>1. SUFFICES ASSUME Clean(c), item.id <= lastId[c]
                   PROVE  item \in Overtaken'
      BY <1>1, <1>13, <2>0 DEF Browsing, Gapless, Clean
    <3>2. lastId[c] \in Nat
      BY DEF RInv, TypeOK
    <3>3. PICK i \in seen[c] : i.id = lastId[c]
      BY <3>1, <3>2, <1>2, <2>0 DEF Browsing, Received, Item
    <3>4. PICK n \in 1..Len(log) : log[n] = i
      BY <3>1, <2>0 DEF Clean, Browsing, Received, RInv, Issued, Logged
    <3>5. log'[n].id > log'[last].id /\ n < last /\ n \in 1..Len(log') /\ last \in 1..Len(log')
      BY <1>2, <1>3, <1>4, <1>5, <3>1, <3>2, <3>3, <3>4 DEF Item
    <3>6. n \in 1..(last - 1)
      BY <1>3
    <3> QED
      BY <1>4, <3>5, <3>6 DEF Overtaken
  <2>10. Doubtful(c)'
    BY <1>1, <1>9, <2>0 DEF Browsing, Doubtful
  <2> QED
    BY <2>1, <2>3, <2>5, <2>7, <2>8, <2>9, <2>10 DEF Stream, Browsing
<1> QED
  BY <1>7, <1>10, <1>11, <1>12, <1>14 DEF RInv

\* What a hub's delivery does to one browser.
LEMMA DeliverFacts ==
  ASSUME RInv, NEW r \in Replicas, NEW item \in Item, Deliver(r, item), NEW c \in Browsers
  PROVE  /\ channel'[c] \in Seq(Item) /\ Len(channel'[c]) <= ChannelSize
         /\ \A a \in 1..Len(channel'[c]) :
              \/ a \in 1..Len(channel[c]) /\ channel'[c][a] = channel[c][a]
              \/ a = Len(channel[c]) + 1 /\ channel'[c][a] = item /\ c \in Joined(r)
         /\ \A a \in 1..Len(channel[c]) : a \in 1..Len(channel'[c]) /\ channel'[c][a] = channel[c][a]
         /\ missed[c] \subseteq missed'[c] /\ missed'[c] \subseteq missed[c] \cup {item}
         /\ c \in Joined(r) => item \in missed'[c] \/ \E a \in 1..Len(channel'[c]) : channel'[c][a] = item
<1>1. channel[c] \in Seq(Item) /\ Len(channel[c]) \in Nat /\ Len(channel[c]) <= ChannelSize
  BY DEF RInv, TypeOK
<1>2. CASE c \in Joined(r) /\ HasRoom(c)
  <2>1. channel'[c] = Append(channel[c], item) /\ missed'[c] = missed[c]
    BY <1>2 DEF Deliver
  <2>2. /\ channel'[c] \in Seq(Item) /\ Len(channel'[c]) = Len(channel[c]) + 1
        /\ channel'[c][Len(channel[c]) + 1] = item
        /\ \A a \in 1..Len(channel[c]) : channel'[c][a] = channel[c][a]
    BY <1>1, <2>1
  <2>3. Len(channel'[c]) <= ChannelSize
    BY <1>1, <1>2, <2>2 DEF HasRoom
  <2> QED
    BY <1>1, <1>2, <2>1, <2>2, <2>3
<1>3. CASE c \in Joined(r) /\ ~HasRoom(c)
  BY <1>1, <1>3 DEF Deliver
<1>4. CASE c \notin Joined(r)
  BY <1>1, <1>4 DEF Deliver
<1> QED
  BY <1>2, <1>3, <1>4

LEMMA DeliverTypes ==
  ASSUME RInv, NEW r \in Replicas, NEW item \in Item, Deliver(r, item)
  PROVE  /\ channel' \in [Browsers -> Seq(Item)] /\ \A c \in Browsers : Len(channel'[c]) <= ChannelSize
         /\ missed' \in [Browsers -> SUBSET Item]
<1>1. \A c \in Browsers : channel'[c] \in Seq(Item) /\ Len(channel'[c]) <= ChannelSize
  BY DeliverFacts
<1>2. ASSUME NEW c \in Browsers PROVE missed'[c] \subseteq Item
  <2>1. missed'[c] \subseteq missed[c] \cup {item} /\ missed[c] \subseteq Item
    BY DeliverFacts DEF RInv, TypeOK
  <2> QED
    BY <2>1
<1>3. channel' = [c \in Browsers |-> channel'[c]] /\ missed' = [c \in Browsers |-> missed'[c]]
  BY DEF Deliver
<1> QED
  BY <1>1, <1>2, <1>3

\* A delivery that loses or sends what it sends leaves the rest of a stream complete.
LEMMA DeliverKeepsStream ==
  ASSUME RInv, NEW r \in Replicas, NEW item \in Item, Deliver(r, item), NEW c \in Browsers,
         issued \subseteq issued', c \in Joined(r) => item \in issued',
         \A i \in issued' \ issued : i.space # "db",
         \A e \in Events : stage[e] = "local" => stage'[e] = "local",
         UNCHANGED <<log, ids>> /\ UNCHANGED stream /\ UNCHANGED replay /\ UNCHANGED browser
  PROVE  Held(c)' /\ Complete(c)' /\ Browsing(c)'
<1>1. Stream(c) /\ Browsing(c) /\ repeated[c] \subseteq Events
  BY DEF RInv, TypeOK
<1>2. missed[c] \subseteq missed'[c]
  BY DeliverFacts
<1>3. Held(c)'
  <2>1. \A a \in 1..Len(channel'[c]) : channel'[c][a] \in issued'
    BY <1>1, DeliverFacts DEF Stream, Held
  <2>2. phase[c] = "off" => channel'[c] = <<>>
    BY <1>1 DEF Deliver, Joined, Stream, Held
  <2>3. replay'[c] \subseteq issued'
    BY <1>1 DEF Stream, Held
  <2>4. /\ phase'[c] = phase[c] /\ at'[c] = at[c] /\ sent'[c] = sent[c] /\ lastId'[c] = lastId[c]
        /\ broken' = broken /\ replay'[c] = replay[c]
    BY DEF stream, browser
  <2> QED
    BY <1>1, <2>1, <2>2, <2>3, <2>4 DEF Stream, Held
<1>4. Complete(c)'
  BY <1>1, <1>2 DEF Stream, Complete, stream, browser
<1>5. Received(c)'
  BY <1>1 DEF Browsing, Received, Clean, browser
<1>6. Gapless(c)'
  BY <1>1, <1>2 DEF Browsing, Gapless, Clean, Overtaken, browser
<1>7. Doubtful(c)'
  BY <1>1 DEF Browsing, Doubtful, browser
<1> QED
  BY <1>3, <1>4, <1>5, <1>6, <1>7 DEF Browsing

\* The fallback delivers what is not in the log.
LEMMA LocalKeepsRInv ==
  ASSUME RInv, NEW e \in Events, DeliverLocally(e)
  PROVE  RInv'
<1> DEFINE r == by[e]
<1> DEFINE item == Numbered(r, localId[r] + 1, e)
<1>1. /\ stage[e] \in {"failed", "unanswered"} /\ stage' = [stage EXCEPT ![e] = "local"] /\ Deliver(r, item)
      /\ \/ r \in closed /\ UNCHANGED <<localId, issued>>
         \/ r \notin closed /\ localId' = [localId EXCEPT ![r] = @ + 1] /\ issued' = issued \cup {item}
      /\ UNCHANGED <<by, ids, sequence, log, durable, closed, listening, position, faults>>
      /\ UNCHANGED stream /\ UNCHANGED replay /\ UNCHANGED browser
  BY DEF DeliverLocally
<1>2. r \in Replicas
  BY <1>1 DEF RInv, Sequenced
<1>3. item \in Item /\ item.id > 0 /\ item.space # "db" /\ item.event = e
  BY <1>2 DEF RInv, TypeOK, Item, Numbered
<1>4. issued \subseteq issued' /\ issued' \subseteq issued \cup {item}
  BY <1>1
<1>5. stage'[e] = "local" /\ \A f \in Events \ {e} : stage'[f] = stage[f]
  BY <1>1 DEF RInv, TypeOK
<1>6. TypeOK'
  <2>1. /\ stage' \in [Events -> {"new", "inserted", "committed", "unanswered", "failed", "local"}]
        /\ issued' \subseteq Item
    BY <1>1, <1>3, <1>4 DEF RInv, TypeOK
  <2>2. localId' \in [Replicas -> Nat]
    <3>1. localId \in [Replicas -> Nat] /\ localId' \in {localId, [localId EXCEPT ![r] = @ + 1]}
      BY <1>1 DEF RInv, TypeOK
    <3> QED
      BY <3>1
  <2> QED
    BY <1>1, <1>2, <1>3, <2>1, <2>2, DeliverTypes DEF RInv, TypeOK, stream, browser
<1>7. Sequenced'
  <2>1. \A n \in 1..Len(log) : stage'[log[n].event] \notin {"new", "inserted"}
    BY <1>5 DEF RInv, Sequenced
  <2>2. \A f \in Events : /\ stage'[f] = "new" => ids[f] = 0
                          /\ stage'[f] = "inserted" => ids[f] # 0
                          /\ stage'[f] # "new" => by[f] \in Replicas
    BY <1>1, <1>5 DEF RInv, Sequenced
  <2> QED
    BY <1>1, <2>1, <2>2 DEF RInv, Sequenced
<1>8. Issued'
  <2>1. IsFiniteSet(issued')
    BY <1>1, FS_AddElement DEF RInv, Issued
  <2>2. \A n \in 1..Len(log) : log[n] \in issued'
    BY <1>4 DEF RInv, Issued
  <2>3. \A i \in issued' : i.id > 0 /\ (i.space = "db" => Logged(i))
    BY <1>3, <1>4 DEF RInv, Issued
  <2>4. \A i \in issued : i.space # "db" => i.event # e /\ i.event \in Events /\ stage[i.event] = "local"
    BY <1>1 DEF RInv, Issued, TypeOK, Item
  <2>5. \A i \in issued' : i.space # "db" => stage'[i.event] = "local"
    BY <1>3, <1>4, <1>5, <2>4
  <2>6. \A i, j \in issued' : i.space # "db" /\ j.space # "db" /\ i.event = j.event => i = j
    BY <1>3, <1>4, <2>4 DEF RInv, Issued
  <2> QED
    BY <1>1, <2>1, <2>2, <2>3, <2>5, <2>6 DEF Issued, Logged
<1>9. Listeners'
  BY <1>1 DEF RInv, Listeners
<1>10. ASSUME NEW c \in Browsers PROVE Stream(c)' /\ Browsing(c)'
  <2>1. Held(c)' /\ Complete(c)' /\ Browsing(c)'
    BY <1>1, <1>2, <1>3, <1>4, <1>5, DeliverKeepsStream DEF Joined
  <2>2. /\ Stream(c) /\ at'[c] = at[c] /\ phase'[c] = phase[c] /\ replay'[c] = replay[c] /\ lastId'[c] = lastId[c]
        /\ seen'[c] = seen[c] /\ base'[c] = base[c] /\ position' = position /\ log' = log /\ broken' = broken
    BY <1>1 DEF RInv, stream, browser
  <2>3. \A n \in 1..Len(log) : log[n] # item
    BY <1>3, LoggedFacts
  <2>4. Len(channel[c]) \in Nat
    BY DEF RInv, TypeOK
  <2>5. \A a \in 1..Len(channel'[c]), n \in 1..Len(log) :
          channel'[c][a] = log[n] => a \in 1..Len(channel[c]) /\ channel[c][a] = log[n]
    BY <1>1, <1>2, <1>3, <2>3, DeliverFacts
  <2>6. Ordered(c)'
    <3>1. /\ \A a \in 1..Len(channel'[c]), n \in 1..Len(log) :
               channel'[c][a] = log[n] => n <= position[at[c]]
          /\ \A a, b \in 1..Len(channel'[c]), m, n \in 1..Len(log) :
               a < b /\ channel'[c][a] = log[m] /\ channel'[c][b] = log[n] => m < n
      BY <2>2, <2>5 DEF Stream, Ordered
    <3> QED
      BY <2>2, <3>1 DEF Ordered
  <2>7. Taken(c)'
    <3>1. missed[c] \subseteq missed'[c] /\ \A i : InChannel(c, i) => \E a \in 1..Len(channel'[c]) : channel'[c][a] = i
      BY <1>1, <1>2, <1>3, DeliverFacts DEF InChannel
    <3> QED
      BY <2>2, <3>1 DEF Stream, Taken, Clean, Awaits, InChannel
  <2> QED
    BY <2>1, <2>6, <2>7 DEF Stream
<1> QED
  BY <1>6, <1>7, <1>8, <1>9, <1>10 DEF RInv

\* A listener delivers the next event of the log.
LEMMA ListenKeepsRInv ==
  ASSUME RInv, NEW r \in Replicas, Listen(r)
  PROVE  RInv'
<1> DEFINE p == position[r] + 1
<1> DEFINE item == log[p]
<1>1. /\ r \in listening /\ Deliver(r, item) /\ position' = [position EXCEPT ![r] = p]
      /\ position[r] < Len(log)
      /\ UNCHANGED <<durable, closed, listening, localId, issued, faults>>
      /\ UNCHANGED publication /\ UNCHANGED stream /\ UNCHANGED replay /\ UNCHANGED browser
  BY DEF Listen
<1>2. /\ p \in 1..Len(log) /\ Len(log) \in Nat /\ position \in [Replicas -> 0..Len(log)] /\ p \in 0..Len(log)
      /\ UNCHANGED <<stage, by, ids, sequence, log>>
  BY <1>1 DEF RInv, TypeOK, publication
<1>3. item \in Item /\ item \in issued
  BY <1>2, LoggedFacts
<1>4. TypeOK'
  <2>1. position' \in [Replicas -> 0..Len(log)]
    BY <1>1, <1>2
  <2> QED
    BY <1>1, <1>2, <1>3, <2>1, DeliverTypes DEF RInv, TypeOK, stream, browser
<1>5. Sequenced' /\ Issued'
  BY <1>1, <1>2 DEF RInv, Sequenced, Issued, Logged
<1>6. Listeners'
  BY <1>1 DEF RInv, Listeners, TypeOK
<1>7. ASSUME NEW c \in Browsers PROVE Stream(c)' /\ Browsing(c)'
  <2>1. Held(c)' /\ Complete(c)' /\ Browsing(c)'
    BY <1>1, <1>2, <1>3, DeliverKeepsStream
  <2>2. /\ Stream(c) /\ at'[c] = at[c] /\ phase'[c] = phase[c] /\ replay'[c] = replay[c] /\ lastId'[c] = lastId[c]
        /\ seen'[c] = seen[c] /\ base'[c] = base[c] /\ log' = log /\ broken' = broken
        /\ channel[c] \in Seq(Item) /\ Len(channel[c]) \in Nat
    BY <1>1, <1>2 DEF RInv, TypeOK, stream, browser
  <2>3. \A n \in 1..Len(log) : log[n] = item => n = p
    BY <1>2 DEF RInv, Sequenced
  <2>4. CASE c \in Joined(r)
    <3>1. at[c] = r /\ phase[c] # "off" /\ position'[at'[c]] = p
      BY <1>1, <1>2, <2>2, <2>4 DEF Joined
    <3>2. \A a \in 1..Len(channel[c]), n \in 1..Len(log) : channel[c][a] = log[n] => n < p
      BY <1>2, <2>2, <3>1 DEF Stream, Ordered
    <3>3. \A a \in 1..Len(channel'[c]), n \in 1..Len(log) :
            channel'[c][a] = log[n] =>
              \/ a \in 1..Len(channel[c]) /\ channel[c][a] = log[n] /\ n < p
              \/ a = Len(channel[c]) + 1 /\ n = p
      BY <1>1, <1>3, <2>3, <3>2, DeliverFacts
    <3>4. Ordered(c)'
      <4>1. \A a \in 1..Len(channel'[c]), n \in 1..Len(log) : channel'[c][a] = log[n] => n <= p
        BY <1>2, <3>3
      <4>2. ASSUME NEW a \in 1..Len(channel'[c]), NEW b \in 1..Len(channel'[c]),
                   NEW m \in 1..Len(log), NEW n \in 1..Len(log),
                   a < b, channel'[c][a] = log[m], channel'[c][b] = log[n]
            PROVE  m < n
        <5>0. b <= Len(channel[c]) + 1 /\ a # Len(channel[c]) + 1
          <6>1. b <= Len(channel[c]) + 1
            BY <3>3, <4>2, <2>2
          <6> QED
            BY <6>1, <4>2, <2>2
        <5>1. a \in 1..Len(channel[c]) /\ channel[c][a] = log[m] /\ m < p
          BY <3>3, <4>2, <5>0
        <5>2. CASE b \in 1..Len(channel[c]) /\ channel[c][b] = log[n]
          BY <5>1, <5>2, <4>2, <2>2 DEF Stream, Ordered
        <5>3. CASE n = p
          BY <5>1, <5>3
        <5> QED
          BY <3>3, <4>2, <5>2, <5>3
      <4> QED
        BY <2>2, <3>1, <4>1, <4>2 DEF Ordered
    <3>5. Taken(c)'
      <4>1. SUFFICES ASSUME c \notin broken, Clean(c), NEW n \in 1..p, Awaits(c, log[n])'
                     PROVE  InChannel(c, log[n])' \/ log[n] \in replay[c] \/ (phase[c] = "subscribed" /\ lastId[c] # 0)
        BY <1>2, <2>2, <3>1 DEF Taken, Clean, Awaits, InChannel
      <4>2. CASE n = p
        BY <4>1, <4>2, <1>1, <1>2, <1>3, <2>2, <2>4, DeliverFacts DEF Awaits, InChannel
      <4>3. CASE n # p
        <5>1. n \in 1..position[at[c]]
          BY <4>3, <3>1, <1>2
        <5>2. Awaits(c, log[n])
          BY <4>1, <1>1, <1>2, <1>3, <2>2, DeliverFacts DEF Awaits
        <5>3. InChannel(c, log[n]) \/ log[n] \in replay[c] \/ (phase[c] = "subscribed" /\ lastId[c] # 0)
          BY <4>1, <5>1, <5>2, <2>2, <3>1 DEF Stream, Taken
        <5>4. InChannel(c, log[n]) => \E a \in 1..Len(channel'[c]) : channel'[c][a] = log[n]
          BY <1>1, <1>3, DeliverFacts DEF InChannel
        <5> QED
          BY <5>3, <5>4, <1>2 DEF InChannel
      <4> QED
        BY <4>2, <4>3
    <3> QED
      BY <2>1, <3>4, <3>5 DEF Stream
  <2>5. CASE c \notin Joined(r)
    <3>1. channel'[c] = channel[c] /\ missed'[c] = missed[c]
      BY <1>1, <2>5 DEF Deliver
    <3>2. phase[c] # "off" => at[c] \in Replicas /\ at[c] # r
      BY <1>1, <2>2, <2>5 DEF Joined, Stream, Held, RInv, Listeners
    <3>3. phase[c] # "off" => position'[at'[c]] = position[at[c]]
      BY <1>1, <1>2, <2>2, <3>2
    <3>4. Ordered(c)'
      <4>1. CASE phase[c] = "off"
        <5>1. channel'[c] = <<>>
          BY <4>1, <2>2, <3>1 DEF Stream, Held
        <5> QED
          BY <5>1 DEF Ordered
      <4>2. CASE phase[c] # "off"
        BY <4>2, <2>2, <3>1, <3>3 DEF Stream, Ordered
      <4> QED
        BY <4>1, <4>2
    <3>5. Taken(c)'
      BY <2>2, <3>1, <3>3 DEF Stream, Taken, Clean, Awaits, InChannel
    <3> QED
      BY <2>1, <3>4, <3>5 DEF Stream
  <2> QED
    BY <2>4, <2>5
<1> QED
  BY <1>4, <1>5, <1>6, <1>7 DEF RInv


-----------------------------------------------------------------------------
\* Steps of one stream.

\* The other browsers do not notice it.
LEMMA OthersKept ==
  ASSUME RInv, NEW c \in Browsers,
         UNCHANGED <<publication, hubs, issued>>,
         faults' \in 0..MaxFaults, TypeOK',
         \A d \in Browsers \ {c} :
           /\ phase'[d] = phase[d] /\ at'[d] = at[d] /\ channel'[d] = channel[d] /\ replay'[d] = replay[d]
           /\ sent'[d] = sent[d] /\ (d \in broken' <=> d \in broken) /\ lastId'[d] = lastId[d] /\ seen'[d] = seen[d]
           /\ base'[d] = base[d] /\ missed'[d] = missed[d] /\ repeated'[d] = repeated[d],
         Stream(c)', Browsing(c)'
  PROVE  RInv'
<1>1. Sequenced'
  BY DEF RInv, Sequenced, publication
<1>a. Issued'
  BY DEF RInv, Issued, Logged, publication
<1>b. Listeners'
  BY DEF RInv, Listeners, hubs
<1>2. ASSUME NEW d \in Browsers \ {c} PROVE Stream(d)' /\ Browsing(d)'
  BY BrowserKept DEF publication, hubs
<1> QED
  BY <1>1, <1>a, <1>b, <1>2 DEF RInv

\* What a browser got so far does not change when its stream does.
LEMMA BrowsingKept ==
  ASSUME RInv, NEW c \in Browsers, UNCHANGED <<publication, issued>>,
         lastId'[c] = lastId[c], seen'[c] = seen[c], repeated'[c] = repeated[c],
         missed[c] \subseteq missed'[c],
         base'[c] = base[c] \/ (lastId[c] = 0 /\ base'[c] = issued)
  PROVE  Browsing(c)'
<1>1. Browsing(c)
  BY DEF RInv
<1>2. Received(c)'
  BY <1>1 DEF Browsing, Received, Clean
<1>3. Gapless(c)'
  BY <1>1 DEF Browsing, Gapless, Clean, Overtaken, publication
<1>4. Doubtful(c)'
  BY <1>1 DEF Browsing, Doubtful, publication
<1> QED
  BY <1>2, <1>3, <1>4 DEF Browsing

\* What is replayed is numbered.
LEMMA ReplayedTypes ==
  ASSUME RInv, NEW c \in Browsers, NEW all \in SUBSET issued, NEW available \in SUBSET all,
         Replayed(c, all, available)
  PROVE  /\ replay' \in [Browsers -> SUBSET Item] /\ missed' \in [Browsers -> SUBSET Item]
         /\ missed[c] \subseteq missed'[c] /\ \A d \in Browsers \ {c} : replay'[d] = replay[d] /\ missed'[d] = missed[d]
         /\ IF lastId[c] = 0 THEN replay'[c] = {}
            ELSE replay'[c] = available /\ missed'[c] = missed[c] \cup (all \ available)
<1>1. /\ replay \in [Browsers -> SUBSET Item] /\ missed \in [Browsers -> SUBSET Item]
      /\ available \in SUBSET Item /\ all \ available \in SUBSET Item
  BY DEF RInv, TypeOK
<1>2. CASE lastId[c] = 0
  BY <1>1, <1>2 DEF Replayed
<1>3. CASE lastId[c] # 0
  <2>1. /\ replay' = [replay EXCEPT ![c] = available]
        /\ missed' = [missed EXCEPT ![c] = @ \cup (all \ available)]
    BY <1>3 DEF Replayed
  <2> QED
    BY <1>1, <1>3, <2>1
<1> QED
  BY <1>2, <1>3

\* A stream is opened: what its listener took is in a replay that is still to be read,
\* or before what the browser asked for.
LEMMA SubscribeKeepsRInv ==
  ASSUME RInv, NEW c \in Browsers, NEW r \in Replicas, Subscribe(c, r)
  PROVE  RInv'
<1>1. /\ phase[c] = "off" /\ connects[c] < MaxConnects
      /\ connects' = [connects EXCEPT ![c] = @ + 1] /\ at' = [at EXCEPT ![c] = r]
      /\ sent' = [sent EXCEPT ![c] = lastId[c]]
      /\ base' = [base EXCEPT ![c] = IF lastId[c] = 0 THEN issued ELSE @]
      /\ UNCHANGED <<publication, hubs, issued, channel, broken, lastId, seen, repeated, faults>>
  BY DEF Subscribe
<1>2. /\ replay' \in [Browsers -> SUBSET Item] /\ missed' \in [Browsers -> SUBSET Item]
      /\ missed[c] \subseteq missed'[c] /\ \A d \in Browsers \ {c} : replay'[d] = replay[d] /\ missed'[d] = missed[d]
      /\ \/ r \in durable /\ phase' = [phase EXCEPT ![c] = "subscribed"] /\ replay'[c] = {}
         \/ /\ r \notin durable /\ phase' = [phase EXCEPT ![c] = "live"]
            /\ \A i \in replay'[c] : i \in issued /\ i.space = r
  <2>1. CASE r \in durable
    <3>1. phase' = [phase EXCEPT ![c] = "subscribed"] /\ replay' = replay /\ missed' = missed
      BY <2>1 DEF Subscribe
    <3>2. replay[c] = {}
      BY <1>1 DEF RInv, Stream, Held
    <3> QED
      BY <2>1, <3>1, <3>2 DEF RInv, TypeOK
  <2>2. CASE r \notin durable
    <3> DEFINE all == After(c, {i \in issued : i.space = r})
    <3> DEFINE available == After(c, Kept(r))
    <3>1. phase' = [phase EXCEPT ![c] = "live"] /\ Replayed(c, all, available)
      BY <2>2 DEF Subscribe
    <3>2. all \in SUBSET issued /\ available \in SUBSET all /\ \A i \in all : i.space = r
      BY DEF After, Kept
    <3>3. /\ replay' \in [Browsers -> SUBSET Item] /\ missed' \in [Browsers -> SUBSET Item]
          /\ missed[c] \subseteq missed'[c] /\ \A d \in Browsers \ {c} : replay'[d] = replay[d] /\ missed'[d] = missed[d]
          /\ IF lastId[c] = 0 THEN replay'[c] = {}
             ELSE replay'[c] = available /\ missed'[c] = missed[c] \cup (all \ available)
      <4> HIDE DEF all, available
      <4> QED
        BY <3>1, <3>2, ReplayedTypes
    <3> QED
      <4> HIDE DEF all, available
      <4> QED
        BY <2>2, <3>1, <3>2, <3>3
  <2> QED
    BY <2>1, <2>2
<1>3. phase' \in [Browsers -> {"off", "subscribed", "live"}] /\ phase'[c] \in {"subscribed", "live"}
  BY <1>2 DEF RInv, TypeOK
<1>4. TypeOK'
  <2>1. /\ connects' \in [Browsers -> 0..MaxConnects] /\ at' \in [Browsers -> Replicas \cup {None}]
        /\ sent' \in [Browsers -> Nat]
    BY <1>1 DEF RInv, TypeOK
  <2>2. base' \in [Browsers -> SUBSET Item]
    BY <1>1 DEF RInv, TypeOK
  <2> QED
    BY <1>1, <1>2, <1>3, <2>1, <2>2 DEF RInv, TypeOK, publication, hubs
<1>5. /\ at'[c] = r /\ sent'[c] = lastId[c] /\ lastId[c] \in Nat /\ channel'[c] = <<>> /\ c \notin broken'
      /\ position' = position /\ log' = log
      /\ base'[c] = IF lastId[c] = 0 THEN issued ELSE base[c]
  BY <1>1 DEF RInv, TypeOK, Stream, Held, publication, hubs
<1>6. Held(c)'
  BY <1>1, <1>2, <1>3, <1>5 DEF Held
<1>7. Ordered(c)'
  BY <1>5 DEF Ordered
<1>8. Taken(c)'
  <2>1. CASE r \notin durable
    <3>1. position[r] = 0
      BY <2>1 DEF RInv, Listeners
    <3> QED
      BY <3>1, <1>5 DEF Taken
  <2>2. CASE r \in durable
    <3>1. phase'[c] = "subscribed"
      BY <2>2, <1>2 DEF RInv, TypeOK
    <3>2. \A n \in 1..position[r] : log[n] \in issued
      BY DEF RInv, TypeOK, Issued
    <3> QED
      BY <1>1, <1>5, <3>1, <3>2 DEF Taken, Awaits
  <2> QED
    BY <2>1, <2>2
<1>9. Complete(c)'
  <2>1. \A n \in 1..Len(log) : log[n] \notin replay'[c]
    BY <1>2, LoggedFacts
  <2> QED
    BY <1>5, <2>1 DEF Complete
<1>10. Browsing(c)'
  BY <1>1, <1>2, <1>5, BrowsingKept
<1>11. ASSUME NEW d \in Browsers \ {c}
       PROVE /\ phase'[d] = phase[d] /\ at'[d] = at[d] /\ sent'[d] = sent[d] /\ base'[d] = base[d]
  BY <1>1, <1>2 DEF RInv, TypeOK
<1> QED
  BY <1>1, <1>2, <1>4, <1>6, <1>7, <1>8, <1>9, <1>10, <1>11, OthersKept DEF Stream, RInv, TypeOK

\* The replay is read: what was committed until now is in it, or missed.
LEMMA QueryKeepsRInv ==
  ASSUME RInv, NEW c \in Browsers, QueryReplay(c)
  PROVE  RInv'
<1> DEFINE all == After(c, {i \in issued : i.space = "db"})
<1> DEFINE available == First(all, ReplayLimit)
<1>1. /\ phase[c] = "subscribed" /\ phase' = [phase EXCEPT ![c] = "live"] /\ Replayed(c, all, available)
      /\ UNCHANGED <<publication, hubs, issued, at, sent, broken, channel, browser, faults>>
  BY DEF QueryReplay
<1>2. all \in SUBSET issued /\ available \in SUBSET all
  BY DEF After, First
<1>3. \A n \in 1..Len(log) : log[n].id > lastId[c] => log[n] \in all
  BY LoggedFacts DEF After
<1>4. /\ replay' \in [Browsers -> SUBSET Item] /\ missed' \in [Browsers -> SUBSET Item]
      /\ missed[c] \subseteq missed'[c] /\ \A d \in Browsers \ {c} : replay'[d] = replay[d] /\ missed'[d] = missed[d]
      /\ IF lastId[c] = 0 THEN replay'[c] = {}
         ELSE replay'[c] = available /\ missed'[c] = missed[c] \cup (all \ available)
  <2> HIDE DEF all, available
  <2> QED
    BY <1>1, <1>2, ReplayedTypes
<1> HIDE DEF all, available
<1>5. TypeOK'
  <2>1. phase' \in [Browsers -> {"off", "subscribed", "live"}]
    BY <1>1 DEF RInv, TypeOK
  <2> QED
    BY <1>1, <1>4, <2>1 DEF RInv, TypeOK, publication, hubs, browser
<1>6. /\ phase'[c] = "live" /\ at' = at /\ sent' = sent /\ broken' = broken /\ lastId' = lastId /\ seen' = seen
      /\ base' = base /\ channel' = channel /\ position' = position /\ log' = log /\ issued' = issued
      /\ Stream(c) /\ replay[c] = {} /\ c \notin broken
      /\ \A d \in Browsers \ {c} : phase'[d] = phase[d]
  BY <1>1 DEF RInv, TypeOK, publication, hubs, browser, Stream, Held
<1>7. Held(c)'
  <2>1. replay'[c] \subseteq issued
    BY <1>2, <1>4
  <2> QED
    BY <2>1, <1>1, <1>6 DEF Stream, Held
<1>8. Ordered(c)'
  BY <1>6 DEF Stream, Ordered
<1>9. Taken(c)'
  <2> SUFFICES ASSUME Clean(c), NEW n \in 1..position[at[c]], Awaits(c, log[n])'
               PROVE  InChannel(c, log[n]) \/ log[n] \in replay'[c]
    BY <1>6 DEF Taken, Clean, Awaits, InChannel
  <2>1. n \in 1..Len(log) /\ Awaits(c, log[n])
    BY <1>1, <1>4, <1>6 DEF Stream, Held, RInv, TypeOK, Awaits
  <2>2. InChannel(c, log[n]) \/ lastId[c] # 0
    BY <2>1, <1>1, <1>6 DEF Stream, Taken
  <2>3. log[n] \in all /\ log[n] \notin missed'[c]
    BY <2>1, <1>3, <1>6 DEF Awaits
  <2> QED
    BY <2>2, <2>3, <1>4
<1>10. Complete(c)'
  BY <1>3, <1>4, <1>6 DEF Complete
<1>11. Browsing(c)'
  BY <1>1, <1>4, <1>6, BrowsingKept DEF browser
<1> QED
  BY <1>1, <1>4, <1>5, <1>6, <1>7, <1>8, <1>9, <1>10, <1>11, OthersKept DEF Stream, RInv, TypeOK, browser

\* Break and Disconnect.
LEMMA EndKeepsRInv ==
  ASSUME RInv, NEW c \in Browsers, Break(c) \/ Disconnect(c)
  PROVE  RInv'
<1>1. CASE Break(c)
  <2>1. /\ phase[c] = "live" /\ broken' = broken \cup {c} /\ faults' \in 0..MaxFaults
        /\ UNCHANGED <<publication, hubs, issued, phase, at, sent, channel, replay, missed, browser>>
        /\ Stream(c)
    BY <1>1 DEF Break, Fault, RInv, TypeOK
  <2>2. TypeOK'
    BY <2>1 DEF RInv, TypeOK, publication, hubs, browser
  <2>3. Stream(c)'
    <3>1. Held(c)'
      BY <2>1 DEF Stream, Held, browser
    <3>2. Ordered(c)'
      BY <2>1 DEF Stream, Ordered, publication, hubs
    <3>3. Taken(c)' /\ Complete(c)'
      BY <2>1 DEF Taken, Complete
    <3> QED
      BY <3>1, <3>2, <3>3 DEF Stream
  <2>4. Browsing(c)'
    BY <2>1, BrowsingKept DEF browser
  <2> QED
    BY <2>1, <2>2, <2>3, <2>4, OthersKept DEF browser
<1>2. CASE Disconnect(c)
  <2>1. /\ phase' = [phase EXCEPT ![c] = "off"] /\ at' = [at EXCEPT ![c] = None] /\ sent' = [sent EXCEPT ![c] = 0]
        /\ channel' = [channel EXCEPT ![c] = <<>>] /\ replay' = [replay EXCEPT ![c] = {}] /\ broken' = broken \ {c}
        /\ UNCHANGED <<publication, hubs, issued, missed, browser, faults>>
    BY <1>2 DEF Disconnect
  <2>2. /\ phase' \in [Browsers -> {"off", "subscribed", "live"}] /\ at' \in [Browsers -> Replicas \cup {None}]
        /\ sent' \in [Browsers -> Nat] /\ replay' \in [Browsers -> SUBSET Item]
        /\ phase'[c] = "off" /\ channel'[c] = <<>> /\ replay'[c] = {} /\ c \notin broken'
        /\ \A d \in Browsers \ {c} :
             /\ phase'[d] = phase[d] /\ at'[d] = at[d] /\ sent'[d] = sent[d]
             /\ channel'[d] = channel[d] /\ replay'[d] = replay[d]
    BY <2>1 DEF RInv, TypeOK
  <2>3. channel' \in [Browsers -> Seq(Item)] /\ \A d \in Browsers : Len(channel'[d]) <= ChannelSize
    BY <2>1 DEF RInv, TypeOK
  <2>4. TypeOK'
    BY <2>1, <2>2, <2>3 DEF RInv, TypeOK, publication, hubs, browser
  <2>5. Stream(c)'
    BY <2>2 DEF Stream, Held, Ordered, Taken, Complete
  <2>6. Browsing(c)'
    BY <2>1, BrowsingKept DEF browser
  <2>7. faults' \in 0..MaxFaults
    BY <2>1 DEF RInv, TypeOK
  <2> QED
    BY <2>1, <2>2, <2>4, <2>5, <2>6, <2>7, OthersKept DEF browser
<1> QED
  BY <1>1, <1>2

\* Who is first of a replay has the smallest id.
LEMMA FirstIsLeast ==
  ASSUME NEW items, IsFiniteSet(items), NEW item \in First(items, 1)
  PROVE  item \in items /\ \A j \in items : ~(j.id < item.id)
<1> DEFINE below == {i \in items : i.id < item.id}
<1>1. item \in items /\ Cardinality(below) < 1
  BY DEF First
<1>2. IsFiniteSet(below)
  BY FS_Subset
<1>3. Cardinality(below) = 0
  BY <1>1, <1>2, FS_CardinalityType
<1>4. below = {}
  BY <1>2, <1>3, FS_EmptySet
<1> QED
  BY <1>1, <1>4

\* What a browser gets: a gap it could fall behind is missed or overtaken, and what it
\* has already had was delivered a second time by a hub alone.
LEMMA WriteKeepsBrowsing ==
  ASSUME RInv, NEW c \in Browsers, NEW item \in issued, phase[c] # "off", WriteEvent(c, item),
         UNCHANGED <<publication, issued, missed, base>>,
         c \notin broken /\ Clean(c) /\ item.space = "db" /\ item.id > lastId[c] =>
           \A i \in issued : i.space = "db" /\ i \notin base[c] /\ lastId[c] < i.id /\ i.id < item.id =>
             i \in missed[c] \cup Overtaken
  PROVE  Browsing(c)'
<1> DEFINE received == Fresh(c, item) /\ c \notin broken
<1>1. /\ Browsing(c) /\ Held(c) /\ item \in Item /\ item.id \in Nat /\ lastId[c] \in Nat
      /\ lastId \in [Browsers -> Nat] /\ seen \in [Browsers -> SUBSET Item] /\ repeated \in [Browsers -> SUBSET Events]
      /\ issued \subseteq Item
  BY DEF RInv, Stream, TypeOK, Item
<1>2. /\ lastId' = [lastId EXCEPT ![c] = IF received THEN item.id ELSE @]
      /\ seen' = [seen EXCEPT ![c] = IF received THEN @ \cup {item} ELSE @]
      /\ repeated' = [repeated EXCEPT ![c] = IF received /\ \E i \in seen[c] : i.event = item.event
                                             THEN @ \cup {item.event} ELSE @]
  BY DEF WriteEvent
<1>3. CASE ~received
  <2>1. lastId'[c] = lastId[c] /\ seen'[c] = seen[c] /\ repeated'[c] = repeated[c]
    BY <1>1, <1>2, <1>3
  <2> QED
    BY <2>1, BrowsingKept
<1>4. CASE received
  <2>1. lastId'[c] = item.id /\ seen'[c] = seen[c] \cup {item} /\ c \notin broken /\ item.id > lastId[c]
    BY <1>1, <1>2, <1>4 DEF Fresh, Held
  <2>2. \A i \in seen[c] : i \in issued /\ i.id \in Nat /\ i.id <= lastId[c] /\ i # item
    BY <1>1, <2>1 DEF Browsing, Received, Item
  <2>3. Received(c)'
    BY <1>1, <2>1, <2>2 DEF Received
  <2>4. Gapless(c)'
    <3>1. SUFFICES ASSUME \A i \in seen[c] \cup {item} : i.space = "db",
                          NEW i \in issued, i.space = "db", i \notin base[c], i.id <= item.id
                   PROVE  i \in seen[c] \cup {item} \cup missed[c] \cup Overtaken
      BY <2>1 DEF Gapless, Clean, Overtaken, publication
    <3>2. Clean(c) /\ item.space = "db" /\ i.id \in Nat
      BY <3>1, <1>1 DEF Clean, Item
    <3>3. CASE i.id <= lastId[c]
      BY <3>1, <3>2, <3>3, <1>1 DEF Browsing, Gapless
    <3>4. CASE i.id = item.id
      BY <3>1, <3>2, <3>4, IssuedIsLogged, LoggedFacts
    <3>5. CASE lastId[c] < i.id /\ i.id < item.id
      BY <3>1, <3>2, <3>5, <2>1
    <3> QED
      BY <3>1, <3>2, <3>3, <3>4, <3>5, <1>1
  <2>5. Doubtful(c)'
    <3> DEFINE e == item.event
    <3>1. SUFFICES ASSUME NEW i \in seen[c], i.event = e
                   PROVE  stage[e] = "local" /\ Numbered("db", ids[e], e) \in issued
      <4>1. repeated'[c] \subseteq repeated[c] \cup {e}
        BY <1>1, <1>2
      <4>2. e \in repeated'[c] => e \in repeated[c] \/ \E i \in seen[c] : i.event = e
        BY <1>1, <1>2
      <4> QED
        BY <4>1, <4>2, <3>1, <1>1 DEF Browsing, Doubtful, publication
    <3>2. i \in issued /\ i # item
      BY <2>2
    <3>3. ASSUME NEW j \in issued, j.space = "db" PROVE j = Numbered("db", ids[j.event], j.event)
      BY <3>3, IssuedIsLogged DEF RInv, Sequenced
    <3>4. ~(i.space = "db" /\ item.space = "db")
      BY <3>1, <3>2, <3>3
    <3>5. i.space = "db" \/ item.space = "db"
      BY <3>1, <3>2 DEF RInv, Issued
    <3> QED
      BY <3>1, <3>2, <3>3, <3>4, <3>5 DEF RInv, Issued
  <2> QED
    BY <2>3, <2>4, <2>5 DEF Browsing
<1> QED
  BY <1>3, <1>4


\* The stream and the browser after a write.
LEMMA WriteFacts ==
  ASSUME RInv, NEW c \in Browsers, NEW item \in issued, phase[c] # "off", WriteEvent(c, item)
  PROVE  /\ sent' \in [Browsers -> Nat] /\ lastId' \in [Browsers -> Nat]
         /\ seen' \in [Browsers -> SUBSET Item] /\ repeated' \in [Browsers -> SUBSET Events]
         /\ \A d \in Browsers \ {c} : /\ sent'[d] = sent[d] /\ lastId'[d] = lastId[d]
                                     /\ seen'[d] = seen[d] /\ repeated'[d] = repeated[d]
         /\ sent'[c] >= lastId'[c] /\ seen[c] \subseteq seen'[c]
         /\ c \notin broken => sent'[c] = lastId'[c] /\ lastId'[c] >= item.id /\ lastId'[c] >= lastId[c]
<1> DEFINE fresh == Fresh(c, item)
<1> DEFINE received == fresh /\ c \notin broken
<1>1. /\ sent' = [sent EXCEPT ![c] = IF fresh THEN item.id ELSE @]
      /\ lastId' = [lastId EXCEPT ![c] = IF received THEN item.id ELSE @]
      /\ seen' = [seen EXCEPT ![c] = IF received THEN @ \cup {item} ELSE @]
      /\ repeated' = [repeated EXCEPT ![c] = IF received /\ \E i \in seen[c] : i.event = item.event
                                             THEN @ \cup {item.event} ELSE @]
  BY DEF WriteEvent
<1>2. /\ item \in Item /\ item.id \in Nat /\ item.event \in Events
      /\ sent \in [Browsers -> Nat] /\ lastId \in [Browsers -> Nat]
      /\ seen \in [Browsers -> SUBSET Item] /\ repeated \in [Browsers -> SUBSET Events]
  BY DEF RInv, TypeOK, Item
<1>3. /\ sent[c] >= lastId[c]
      /\ c \notin broken => sent[c] = lastId[c]
      /\ fresh <=> item.id > sent[c]
  BY DEF RInv, Stream, Held, Fresh
<1> HIDE DEF fresh
<1>4. sent' \in [Browsers -> Nat] /\ lastId' \in [Browsers -> Nat]
  BY <1>1, <1>2
<1>5. seen' \in [Browsers -> SUBSET Item] /\ repeated' \in [Browsers -> SUBSET Events]
  BY <1>1, <1>2
<1>6. \A d \in Browsers \ {c} : /\ sent'[d] = sent[d] /\ lastId'[d] = lastId[d]
                               /\ seen'[d] = seen[d] /\ repeated'[d] = repeated[d]
  BY <1>1, <1>2
<1>7. /\ sent'[c] = IF fresh THEN item.id ELSE sent[c]
      /\ lastId'[c] = IF received THEN item.id ELSE lastId[c]
      /\ seen[c] \subseteq seen'[c] /\ sent[c] \in Nat /\ lastId[c] \in Nat
  BY <1>1, <1>2
<1>8. sent'[c] >= lastId'[c]
  BY <1>2, <1>3, <1>7
<1>9. c \notin broken => sent'[c] = lastId'[c] /\ lastId'[c] >= item.id /\ lastId'[c] >= lastId[c]
  BY <1>2, <1>3, <1>7
<1>10. seen[c] \subseteq seen'[c]
  BY <1>7
<1> HIDE DEF received
<1> QED
  BY <1>4, <1>5, <1>6, <1>8, <1>9, <1>10

\* What a stream's listener took is in the log.
LEMMA TakenIsLogged ==
  ASSUME RInv, NEW c \in Browsers, phase[c] # "off", NEW n \in 1..position[at[c]]
  PROVE  n \in 1..Len(log)
<1>1. at[c] \in Replicas
  BY DEF RInv, Stream, Held
<1>2. position \in [Replicas -> 0..Len(log)] /\ Len(log) \in Nat
  BY DEF RInv, TypeOK
<1>3. position[at[c]] \in 0..Len(log)
  BY <1>1, <1>2
<1> QED
  BY <1>2, <1>3

\* A replayed event is written: what has a smaller id and was committed before it is
\* not in the replay any more, so the browser has it or missed it.
LEMMA WriteReplayedKeepsRInv ==
  ASSUME RInv, NEW c \in Browsers, WriteReplayed(c)
  PROVE  RInv'
<1>1. PICK item \in First(replay[c], 1) : /\ WriteEvent(c, item)
                                          /\ replay' = [replay EXCEPT ![c] = @ \ {item}]
  BY DEF WriteReplayed
<1>2. /\ phase[c] = "live"
      /\ UNCHANGED <<publication, hubs, issued, phase, at, broken, channel, connects, base, missed, faults>>
      /\ UNCHANGED <<log, position>>
  BY DEF WriteReplayed, publication, hubs
<1>3. /\ Stream(c) /\ Browsing(c) /\ replay[c] \subseteq issued /\ IsFiniteSet(replay[c]) /\ issued \subseteq Item
      /\ lastId[c] \in Nat
  BY FS_Subset DEF RInv, Stream, Held, Issued, TypeOK
<1>4. item \in replay[c] /\ item \in issued /\ \A j \in replay[c] : ~(j.id < item.id)
  <2>1. item \in First(replay[c], 1)
    BY <1>1
  <2>2. item \in replay[c] /\ \A j \in replay[c] : ~(j.id < item.id)
    BY <1>3, <2>1, FirstIsLeast
  <2> QED
    BY <1>3, <2>2
<1>5. replay' \in [Browsers -> SUBSET Item] /\ replay'[c] = replay[c] \ {item}
      /\ \A d \in Browsers \ {c} : replay'[d] = replay[d]
  BY <1>1 DEF RInv, TypeOK
<1>6. /\ sent' \in [Browsers -> Nat] /\ lastId' \in [Browsers -> Nat]
      /\ seen' \in [Browsers -> SUBSET Item] /\ repeated' \in [Browsers -> SUBSET Events]
      /\ \A d \in Browsers \ {c} : /\ sent'[d] = sent[d] /\ lastId'[d] = lastId[d]
                                  /\ seen'[d] = seen[d] /\ repeated'[d] = repeated[d]
      /\ sent'[c] >= lastId'[c] /\ seen[c] \subseteq seen'[c]
      /\ c \notin broken => /\ sent'[c] = lastId'[c] /\ lastId'[c] >= item.id /\ lastId'[c] >= lastId[c]
  BY <1>1, <1>2, <1>4, WriteFacts
<1>7. TypeOK'
  BY <1>2, <1>5, <1>6 DEF RInv, TypeOK, publication, hubs
<1>8. Held(c)'
  BY <1>2, <1>3, <1>5, <1>6 DEF Stream, Held
<1>9. Ordered(c)'
  BY <1>2, <1>3 DEF Stream, Ordered
<1>10. item.id \in Nat /\ lastId'[c] \in Nat
  BY <1>3, <1>4, <1>6 DEF Item
<1>11. ASSUME c \notin broken, NEW i \in issued, i.id > lastId'[c]
       PROVE  i.id > lastId[c] /\ i # item
  BY <1>3, <1>6, <1>10, <1>11 DEF Item
<1>12. Taken(c)'
  <2> SUFFICES ASSUME c \notin broken, Clean(c)', NEW n \in 1..position[at[c]], Awaits(c, log[n])'
               PROVE  InChannel(c, log[n]) \/ log[n] \in replay'[c]
    BY <1>2 DEF Taken, InChannel
  <2>1. n \in 1..Len(log) /\ log[n] \in issued
    BY <1>2, TakenIsLogged, LoggedFacts
  <2>2. Awaits(c, log[n]) /\ log[n] # item
    BY <1>2, <1>11, <2>1 DEF Awaits
  <2>3. Clean(c)
    BY <1>6 DEF Clean
  <2> QED
    BY <2>2, <2>3, <1>2, <1>3, <1>5 DEF Stream, Taken
<1>13. Complete(c)'
  <2> SUFFICES ASSUME c \notin broken, NEW m \in 1..Len(log), NEW n \in 1..Len(log), m < n,
                      log[n] \in replay'[c], log[m].id > lastId'[c]
               PROVE  log[m] \in replay'[c] \cup missed[c]
    BY <1>2 DEF Complete
  <2>1. log[m].id > lastId[c] /\ log[m] # item
    BY <1>11, LoggedFacts
  <2> QED
    BY <2>1, <1>3, <1>5 DEF Stream, Complete
<1>14. ASSUME c \notin broken, item.space = "db",
              NEW i \in issued, i.space = "db", lastId[c] < i.id, i.id < item.id
       PROVE  i \in missed[c] \cup Overtaken
  <2>1. PICK m \in 1..Len(log) : log[m] = i
    BY <1>14, IssuedIsLogged
  <2>2. PICK n \in 1..Len(log) : log[n] = item
    BY <1>4, <1>14, IssuedIsLogged
  <2>3. i.id \in Nat
    BY <1>3 DEF Item
  <2>4. i \notin replay[c] /\ m # n
    BY <1>4, <1>10, <1>14, <2>1, <2>2, <2>3
  <2>5. CASE m < n
    BY <2>5, <2>1, <2>2, <2>3, <2>4, <1>3, <1>4, <1>14 DEF Stream, Complete
  <2>6. CASE n < m
    BY <2>6, <2>1, <2>2, <2>3, <1>10, <1>14, OvertakenFacts
  <2>7. Len(log) \in Nat
    BY DEF RInv, TypeOK
  <2> QED
    BY <2>4, <2>5, <2>6, <2>7
<1>15. Browsing(c)'
  BY <1>1, <1>2, <1>4, <1>14, WriteKeepsBrowsing
<1>16. faults' \in 0..MaxFaults
  BY <1>2 DEF RInv, TypeOK
<1> QED
  BY <1>2, <1>5, <1>6, <1>7, <1>8, <1>9, <1>12, <1>13, <1>15, <1>16, OthersKept DEF Stream

\* A live event is written: what its listener took before it was before it in the
\* channel, so that of what has a smaller id only the overtaken is left.
LEMMA WriteLiveKeepsRInv ==
  ASSUME RInv, NEW c \in Browsers, WriteLive(c)
  PROVE  RInv'
<1> DEFINE item == Head(channel[c])
<1> DEFINE size == Len(channel[c])
<1>1. /\ phase[c] = "live" /\ replay[c] = {} /\ channel[c] # <<>> /\ WriteEvent(c, item)
      /\ channel' = [channel EXCEPT ![c] = Tail(@)]
      /\ UNCHANGED <<publication, hubs, issued, phase, at, broken, replay, connects, base, missed, faults>>
      /\ UNCHANGED <<log, position>>
  BY DEF WriteLive, publication, hubs
<1>2. channel[c] \in Seq(Item) /\ size \in Nat /\ size <= ChannelSize /\ channel \in [Browsers -> Seq(Item)]
  BY DEF RInv, TypeOK
<1>3. /\ item = channel[c][1] /\ 1 \in 1..size
      /\ channel'[c] \in Seq(Item) /\ Len(channel'[c]) = size - 1
      /\ \A a \in 1..(size - 1) : channel'[c][a] = channel[c][a + 1]
      /\ \A d \in Browsers \ {c} : channel'[d] = channel[d]
  <2>1. channel'[c] = Tail(channel[c]) /\ \A d \in Browsers \ {c} : channel'[d] = channel[d]
    BY <1>1, <1>2
  <2> QED
    BY <1>1, <1>2, <2>1
<1>4. Stream(c) /\ Browsing(c) /\ item \in issued /\ issued \subseteq Item /\ lastId[c] \in Nat
  BY <1>3 DEF RInv, Stream, Held, TypeOK
<1> HIDE DEF item, size
<1>6. /\ sent' \in [Browsers -> Nat] /\ lastId' \in [Browsers -> Nat]
      /\ seen' \in [Browsers -> SUBSET Item] /\ repeated' \in [Browsers -> SUBSET Events]
      /\ \A d \in Browsers \ {c} : /\ sent'[d] = sent[d] /\ lastId'[d] = lastId[d]
                                  /\ seen'[d] = seen[d] /\ repeated'[d] = repeated[d]
      /\ sent'[c] >= lastId'[c] /\ seen[c] \subseteq seen'[c]
      /\ c \notin broken => /\ sent'[c] = lastId'[c] /\ lastId'[c] >= item.id /\ lastId'[c] >= lastId[c]
  BY <1>1, <1>4, WriteFacts
<1>7. TypeOK'
  <2>1. channel' \in [Browsers -> Seq(Item)] /\ \A d \in Browsers : Len(channel'[d]) <= ChannelSize
    <3>1. \A d \in Browsers : channel'[d] \in Seq(Item) /\ Len(channel'[d]) <= ChannelSize
      <4>1. Len(channel'[c]) <= ChannelSize
        BY <1>2, <1>3
      <4>2. \A d \in Browsers \ {c} : channel'[d] \in Seq(Item) /\ Len(channel'[d]) <= ChannelSize
        BY <1>2, <1>3 DEF RInv, TypeOK
      <4> QED
        BY <1>3, <4>1, <4>2
    <3>2. channel' = [d \in Browsers |-> channel'[d]]
      BY <1>1, <1>2
    <3> QED
      BY <3>1, <3>2
  <2> QED
    BY <1>1, <1>6, <2>1 DEF RInv, TypeOK, publication, hubs
<1>8. Held(c)'
  <2>1. \A a \in 1..Len(channel'[c]) : channel'[c][a] \in issued
    BY <1>2, <1>3, <1>4 DEF Stream, Held, size
  <2> QED
    BY <1>1, <1>4, <1>6, <2>1 DEF Stream, Held
<1>9. Ordered(c)'
  <2>1. \A a \in 1..Len(channel'[c]) : a + 1 \in 1..Len(channel[c]) /\ channel'[c][a] = channel[c][a + 1]
    BY <1>2, <1>3 DEF size
  <2>2. \A a \in 1..Len(channel'[c]), n \in 1..Len(log) : channel'[c][a] = log[n] => n <= position[at[c]]
    BY <1>4, <2>1 DEF Stream, Ordered
  <2>3. \A a, b \in 1..Len(channel'[c]), m, n \in 1..Len(log) :
          a < b /\ channel'[c][a] = log[m] /\ channel'[c][b] = log[n] => m < n
    <3> SUFFICES ASSUME NEW a \in 1..Len(channel'[c]), NEW b \in 1..Len(channel'[c]),
                        NEW m \in 1..Len(log), NEW n \in 1..Len(log),
                        a < b, channel'[c][a] = log[m], channel'[c][b] = log[n]
                 PROVE  m < n
      OBVIOUS
    <3>1. /\ a + 1 \in 1..Len(channel[c]) /\ channel[c][a + 1] = log[m]
          /\ b + 1 \in 1..Len(channel[c]) /\ channel[c][b + 1] = log[n]
          /\ a + 1 < b + 1
      BY <2>1, <1>3
    <3>2. \A x, y \in 1..Len(channel[c]) : x < y /\ channel[c][x] = log[m] /\ channel[c][y] = log[n] => m < n
      BY <1>4 DEF Stream, Ordered
    <3> QED
      BY <3>1, <3>2
  <2>4. at' = at /\ log' = log /\ position' = position
    BY <1>1
  <2> QED
    BY <2>2, <2>3, <2>4 DEF Ordered
<1>10. item.id \in Nat /\ lastId'[c] \in Nat
  BY <1>4, <1>6 DEF Item
<1>11. ASSUME c \notin broken, NEW i \in issued, i.id > lastId'[c]
       PROVE  i.id > lastId[c] /\ i # item
  BY <1>4, <1>6, <1>10, <1>11 DEF Item
<1>12. Taken(c)'
  <2> SUFFICES ASSUME c \notin broken, Clean(c)', NEW n \in 1..position[at[c]], Awaits(c, log[n])'
               PROVE  \E a \in 1..Len(channel'[c]) : channel'[c][a] = log[n]
    BY <1>1 DEF Taken, InChannel
  <2>1. n \in 1..Len(log) /\ log[n] \in issued
    BY <1>1, TakenIsLogged, LoggedFacts
  <2>2. Awaits(c, log[n]) /\ log[n] # item
    BY <1>1, <1>11, <2>1 DEF Awaits
  <2>3. Clean(c)
    BY <1>6 DEF Clean
  <2>4. PICK a \in 1..size : channel[c][a] = log[n]
    BY <2>2, <2>3, <1>1, <1>4 DEF Stream, Taken, InChannel, size
  <2>5. a - 1 \in 1..(size - 1) /\ channel'[c][a - 1] = log[n]
    BY <2>2, <2>4, <1>2, <1>3
  <2> QED
    BY <2>5, <1>3
<1>13. Complete(c)'
  BY <1>1 DEF Complete
<1>14. ASSUME c \notin broken, Clean(c), item.space = "db",
              NEW i \in issued, i.space = "db", i \notin base[c], lastId[c] < i.id, i.id < item.id
       PROVE  i \in missed[c] \cup Overtaken
  <2>1. PICK m \in 1..Len(log) : log[m] = i
    BY <1>14, IssuedIsLogged
  <2>2. PICK n \in 1..Len(log) : log[n] = item
    BY <1>4, <1>14, IssuedIsLogged
  <2>3. i.id \in Nat /\ i # item
    BY <1>4, <1>10, <1>14 DEF Item
  <2>4. CASE n < m
    BY <2>4, <2>1, <2>2, <2>3, <1>10, <1>14, OvertakenFacts
  <2>5. CASE m < n /\ i \notin missed[c]
    <3>1. n <= position[at[c]] /\ position[at[c]] \in Nat
      BY <2>2, <1>1, <1>3, <1>4 DEF Stream, Held, Ordered, size, RInv, TypeOK
    <3>2. m \in 1..position[at[c]]
      BY <2>5, <3>1
    <3>3. Awaits(c, log[m])
      BY <2>1, <2>5, <1>4, <2>3, <1>14 DEF Awaits
    <3>4. PICK b \in 1..size : channel[c][b] = log[m]
      BY <3>2, <3>3, <1>1, <1>4, <1>14 DEF Stream, Taken, InChannel, size
    <3>5. b # 1 /\ 1 < b
      BY <3>4, <2>1, <2>3, <1>2, <1>3
    <3>6. n < m
      BY <3>4, <3>5, <2>2, <1>3, <1>4 DEF Stream, Ordered, size
    <3> QED
      BY <2>5, <3>6
  <2>6. m # n /\ Len(log) \in Nat
    BY <2>1, <2>2, <2>3 DEF RInv, TypeOK
  <2> QED
    BY <2>4, <2>5, <2>6
<1>15. Browsing(c)'
  BY <1>1, <1>4, <1>14, WriteKeepsBrowsing
<1>16. faults' \in 0..MaxFaults
  BY <1>1 DEF RInv, TypeOK
<1> QED
  BY <1>1, <1>3, <1>6, <1>7, <1>8, <1>9, <1>12, <1>13, <1>15, <1>16, OthersKept DEF Stream

-----------------------------------------------------------------------------
LEMMA NextRInv == RInv /\ [Next]_vars => RInv'
<1> SUFFICES ASSUME RInv, [Next]_vars PROVE RInv'
  OBVIOUS
<1>1. ASSUME NEW r \in Replicas, CloseHub(r) \/ StopListener(r) PROVE RInv'
  BY <1>1, StopKeepsRInv
<1>2. ASSUME NEW r \in Replicas, Listen(r) PROVE RInv'
  BY <1>2, ListenKeepsRInv
<1>3. ASSUME NEW r \in Replicas, NEW e \in Events, InsertEvent(e, r) \/ FailPublish(e, r) PROVE RInv'
  BY <1>3, PublishKeepsRInv
<1>4. ASSUME NEW r \in Replicas, NEW c \in Browsers, Subscribe(c, r) PROVE RInv'
  BY <1>4, SubscribeKeepsRInv
<1>5. ASSUME NEW e \in Events, CommitEvent(e) PROVE RInv'
  BY <1>5, CommitKeepsRInv
<1>6. ASSUME NEW e \in Events, DeliverLocally(e) PROVE RInv'
  BY <1>6, LocalKeepsRInv
<1>7. ASSUME NEW c \in Browsers, QueryReplay(c) PROVE RInv'
  BY <1>7, QueryKeepsRInv
<1>8. ASSUME NEW c \in Browsers, WriteReplayed(c) PROVE RInv'
  BY <1>8, WriteReplayedKeepsRInv
<1>9. ASSUME NEW c \in Browsers, WriteLive(c) PROVE RInv'
  BY <1>9, WriteLiveKeepsRInv
<1>10. ASSUME NEW c \in Browsers, Break(c) \/ Disconnect(c) PROVE RInv'
  BY <1>10, EndKeepsRInv
<1>11. CASE UNCHANGED vars
  <2>1. UNCHANGED <<publication, hubs, issued, stream, channel, replay, missed, browser, faults>>
    BY <1>11 DEF vars
  <2>2. TypeOK'
    BY <2>1 DEF RInv, TypeOK, publication, hubs, stream, browser
  <2>3. Sequenced' /\ Listeners'
    BY <2>1 DEF RInv, Sequenced, Listeners, publication, hubs
  <2>4. Issued'
    BY <2>1 DEF RInv, Issued, Logged, publication
  <2>5. ASSUME NEW c \in Browsers PROVE Stream(c)' /\ Browsing(c)'
    BY <2>1, BrowserKept DEF publication, hubs, stream, browser
  <2> QED
    BY <2>2, <2>3, <2>4, <2>5 DEF RInv
<1> QED
  BY <1>1, <1>2, <1>3, <1>4, <1>5, <1>6, <1>7, <1>8, <1>9, <1>10, <1>11 DEF Next

LEMMA RInvHolds == Spec => []RInv
<1> QED
  BY InitRInv, NextRInv, PTL DEF Spec

\* Realtime: every variable stays in its range, and no channel holds more than it can.
THEOREM RealtimeTypes == Spec => []TypeOK
<1>1. RInv => TypeOK
  BY DEF RInv
<1> QED
  BY <1>1, RInvHolds, PTL

\* Handler.Stream and Hub.deliver: a browser has every event up to its Last-Event-ID but
\* what a full channel, the limit of the replay or the order of the commits kept from it.
THEOREM NothingFallsBetween == Spec => []NoGap
<1>1. RInv => NoGap
  BY DEF RInv, Browsing, Gapless, Clean, NoGap
<1> QED
  BY <1>1, RInvHolds, PTL

\* Hub.Publish: a browser gets an event twice only if the answer to its commit was lost.
THEOREM RepeatedWhenUnanswered == Spec => []RepeatedOnlyInDoubt
<1>1. RInv => RepeatedOnlyInDoubt
  BY DEF RInv, Browsing, Doubtful, RepeatedOnlyInDoubt
<1> QED
  BY <1>1, RInvHolds, PTL

-----------------------------------------------------------------------------
\* What a step may do to a browser.

\* Only the writes of a stream reach a browser, and they bring issued events.
LEMMA OnlyWritesReach ==
  ASSUME RInv, [Next]_vars, NEW c \in Browsers
  PROVE  \/ seen'[c] = seen[c]
         \/ \E item \in issued : phase[c] # "off" /\ WriteEvent(c, item)
<1> USE DEF RInv
<1>1. ASSUME NEW d \in Browsers, NEW item \in issued, phase[d] # "off", WriteEvent(d, item)
      PROVE  seen'[c] = seen[c] \/ (d = c /\ WriteEvent(c, item))
  BY <1>1, WriteFacts
<1>2. ASSUME NEW d \in Browsers, WriteReplayed(d)
      PROVE  \E item \in issued : phase[d] # "off" /\ WriteEvent(d, item)
  BY <1>2 DEF WriteReplayed, First, Stream, Held
<1>3. ASSUME NEW d \in Browsers, WriteLive(d)
      PROVE  \E item \in issued : phase[d] # "off" /\ WriteEvent(d, item)
  <2>1. channel[d] \in Seq(Item) /\ channel[d] # <<>>
    BY <1>3 DEF WriteLive, TypeOK
  <2>2. 1 \in 1..Len(channel[d]) /\ Head(channel[d]) = channel[d][1]
    BY <2>1
  <2> QED
    BY <1>3, <2>2 DEF WriteLive, Stream, Held
<1>4. CASE \E d \in Browsers : WriteReplayed(d) \/ WriteLive(d)
  BY <1>1, <1>2, <1>3, <1>4
<1>5. CASE ~\E d \in Browsers : WriteReplayed(d) \/ WriteLive(d)
  <2>1. UNCHANGED seen
    BY <1>5 DEF Next, vars, browser, CloseHub, Listen, StopListener, InsertEvent, FailPublish,
                Subscribe, CommitEvent, DeliverLocally, QueryReplay, Break, Disconnect
  <2> QED
    BY <2>1
<1> QED
  BY <1>4, <1>5

\* What a browser receives has a larger id than all it received before, across its
\* connections, the replicas they lead to, and the two counters ids come from.
IdsAscend ==
  [][\A c \in Browsers : \A new \in seen'[c] \ seen[c] : \A old \in seen[c] : old.id < new.id]_vars

\* writeEvent of Handler.Stream: a stream starts from the Last-Event-ID its browser sent, so
\* that ids ascend for the browser whatever became of its earlier streams.
THEOREM BrowsersSeeIdsAscend == Spec => IdsAscend
<1> DEFINE Step == \A c \in Browsers : \A new \in seen'[c] \ seen[c] : \A old \in seen[c] : old.id < new.id
<1>1. ASSUME RInv, [Next]_vars PROVE Step
  <2> SUFFICES ASSUME NEW c \in Browsers, NEW new \in seen'[c] \ seen[c], NEW old \in seen[c]
               PROVE  old.id < new.id
    OBVIOUS
  <2>1. PICK item \in issued : phase[c] # "off" /\ WriteEvent(c, item)
    BY <1>1, OnlyWritesReach
  <2>2. new = item /\ item.id > sent[c]
    BY <1>1, <2>1 DEF WriteEvent, Fresh, RInv, TypeOK
  <2>3. old.id <= lastId[c] /\ lastId[c] <= sent[c]
    BY <1>1, <2>1 DEF RInv, Browsing, Received, Stream, Held
  <2>4. old.id \in Nat /\ item.id \in Nat /\ lastId[c] \in Nat /\ sent[c] \in Nat
    BY <1>1, <2>1 DEF RInv, TypeOK, Item
  <2> QED
    BY <2>2, <2>3, <2>4
<1>2. Spec => [][Step]_vars
  BY <1>1, RInvHolds, PTL DEF Spec
<1> QED
  BY <1>2 DEF IdsAscend

\* An event of the database that a stream takes from the channel is received, or was
\* before, unless the channel or a limit kept it away, it is older than the browser's
\* first question, or its commit was overtaken: the only excuses for suppressing it.
SuppressedIsExcused ==
  [][\A c \in Browsers :
       /\ phase[c] = "live" /\ phase'[c] = "live" /\ c \notin broken /\ Clean(c)
       /\ channel[c] # <<>> /\ channel'[c] = Tail(channel[c]) /\ Head(channel[c]).space = "db"
       => Head(channel[c]) \in seen'[c] \cup missed[c] \cup base[c] \cup Overtaken]_vars

\* writeEvent of Handler.Stream: how far the claim of docs/architecture.md:43 holds, that
\* only ids already sent are suppressed.
THEOREM SuppressionIsExcused == Spec => SuppressedIsExcused
<1> DEFINE Step ==
      \A c \in Browsers :
        /\ phase[c] = "live" /\ phase'[c] = "live" /\ c \notin broken /\ Clean(c)
        /\ channel[c] # <<>> /\ channel'[c] = Tail(channel[c]) /\ Head(channel[c]).space = "db"
        => Head(channel[c]) \in seen'[c] \cup missed[c] \cup base[c] \cup Overtaken
<1>1. ASSUME RInv, [Next]_vars PROVE [Step]_vars
  <2> USE <1>1 DEF RInv
  <2> SUFFICES ASSUME NEW c \in Browsers, phase[c] = "live", phase'[c] = "live", c \notin broken,
                      Clean(c), channel[c] # <<>>, channel'[c] = Tail(channel[c]),
                      Head(channel[c]).space = "db"
               PROVE  Head(channel[c]) \in seen'[c] \cup missed[c] \cup base[c] \cup Overtaken
    OBVIOUS
  <2>1. channel \in [Browsers -> Seq(Item)] /\ channel[c] \in Seq(Item) /\ lastId[c] \in Nat
    BY DEF TypeOK
  <2>2. Len(channel'[c]) = Len(channel[c]) - 1 /\ Len(channel[c]) \in Nat
    BY <2>1
  <2>3. channel'[c] # channel[c] /\ \A i \in Item : channel'[c] # Append(channel[c], i)
    <3>1. channel'[c] # channel[c]
      <4> SUFFICES ASSUME channel'[c] = channel[c] PROVE FALSE
        OBVIOUS
      <4>1. Len(channel[c]) = Len(channel[c]) - 1
        BY ONLY <2>2, channel'[c] = channel[c]
      <4> QED
        BY ONLY <2>2, <4>1
    <3>2. ASSUME NEW i \in Item PROVE channel'[c] # Append(channel[c], i)
      <4>1. Len(Append(channel[c], i)) = Len(channel[c]) + 1
        BY <2>1
      <4> SUFFICES ASSUME channel'[c] = Append(channel[c], i) PROVE FALSE
        OBVIOUS
      <4>2. Len(channel[c]) - 1 = Len(channel[c]) + 1
        BY ONLY <2>2, <4>1, channel'[c] = Append(channel[c], i)
      <4> QED
        BY ONLY <2>2, <4>2
    <3> QED
      BY <3>1, <3>2
  <2>4. Head(channel[c]) \in issued /\ Head(channel[c]) \in Item
    <3>1. 1 \in 1..Len(channel[c]) /\ Head(channel[c]) = channel[c][1]
      BY <2>1
    <3> QED
      BY <2>1, <3>1 DEF Stream, Held
  <2>5. WriteLive(c)
    <3>1. ASSUME NEW r \in Replicas, NEW item \in Item, Deliver(r, item) PROVE FALSE
      BY <2>3, <3>1 DEF Deliver
    <3>2. ASSUME NEW r \in Replicas, Listen(r) PROVE FALSE
      <4>1. log[position[r] + 1] \in Item
        BY <3>2 DEF Listen, TypeOK
      <4> QED
        BY <3>1, <3>2, <4>1 DEF Listen
    <3>3. ASSUME NEW e \in Events, DeliverLocally(e) PROVE FALSE
      <4>1. by[e] \in Replicas
        BY <3>3 DEF DeliverLocally, Sequenced
      <4>2. Numbered(by[e], localId[by[e]] + 1, e) \in Item
        BY <4>1 DEF Numbered, Item, TypeOK
      <4> QED
        BY <3>1, <3>3, <4>1, <4>2 DEF DeliverLocally
    <3>4. ASSUME NEW d \in Browsers, Disconnect(d) PROVE FALSE
      BY <2>3, <3>4 DEF Disconnect, TypeOK
    <3>5. ASSUME NEW d \in Browsers, WriteLive(d) PROVE d = c
      BY <2>1, <2>3, <3>5 DEF WriteLive
    <3> QED
      BY <2>3, <3>2, <3>3, <3>4, <3>5
      DEF Next, vars, CloseHub, StopListener, InsertEvent, FailPublish, Subscribe, CommitEvent,
          QueryReplay, WriteReplayed, Break
  <2>6. CASE Fresh(c, Head(channel[c]))
    BY <2>5, <2>6 DEF WriteLive, WriteEvent, TypeOK
  <2>7. CASE ~Fresh(c, Head(channel[c]))
    <3>1. Head(channel[c]).id <= lastId[c]
      BY <2>1, <2>4, <2>7 DEF Fresh, Stream, Held, Item, TypeOK
    <3>2. seen[c] \subseteq seen'[c]
      BY <2>4, <2>5, WriteFacts DEF WriteLive
    <3> QED
      BY <2>4, <3>1, <3>2 DEF Browsing, Gapless
  <2> QED
    BY <2>6, <2>7
<1>2. Spec => [][Step]_vars
  BY <1>1, RInvHolds, PTL DEF Spec
<1> QED
  BY <1>2 DEF SuppressedIsExcused
=============================================================================
