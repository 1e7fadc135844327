----------------------------- MODULE MattersProofs -----------------------------
(***************************************************************************)
(* Machine-checked proofs about Matters, for any matters, any requests and *)
(* any finite amount of work.                                              *)
(***************************************************************************)
EXTENDS Matters, FiniteSetTheorems, SequenceTheorems, TLAPS

\* A request that was not confirmed found nothing open: what is open in its
\* matter now was opened after the count.
UnconfirmedSawNothing ==
  \A q \in Requests :
    stage[q] = "counted" /\ q \notin force => OpenIn(subject[q]) \subseteq late[q]

\* The strengthening: a counted request is about a matter that exists.
SubjectExists ==
  \A q \in Requests : stage[q] = "counted" => subject[q] \in Matters /\ Exists(subject[q])

IInv ==
  /\ MatterTypeOK
  /\ TimelineTellsArchive
  /\ ArchivedStatusIsBacked
  /\ UnconfirmedSawNothing
  /\ SubjectExists

\* The counts a closure stores are natural numbers.
LEMMA CountIsNat ==
  ASSUME NEW items \in SUBSET Work, NEW k
  PROVE  CountOf(items, k) \in Nat
  <1>1. {w \in items : kind[w] = k} \subseteq Work
    OBVIOUS
  <1>2. IsFiniteSet({w \in items : kind[w] = k})
    BY <1>1, FS_Subset, MatterAssumptions
  <1> QED
    BY <1>2, FS_CardinalityType DEF CountOf

LEMMA ClosureTyped ==
  ASSUME MatterTypeOK, NEW q \in Requests
  PROVE  Closure(q) \in Closures /\ Closure(q) # NoMatter
  <1>1. counted[q] \in SUBSET Work
    BY DEF MatterTypeOK
  <1>2. CountOf(counted[q], "task") \in Nat /\ CountOf(counted[q], "deadline") \in Nat
    BY <1>1, CountIsNat
  <1>3. (CountOf(counted[q], "fee") > 0) \in BOOLEAN
    OBVIOUS
  <1>4. Closure(q) \in Closures
    BY <1>2, <1>3 DEF Closure, Closures
  <1> QED
    BY <1>4, MatterAssumptions

LEMMA AppendReopened == Append(<<"archived">>, "reopened") = <<"archived", "reopened">>
  <1> DEFINE S == {"archived", "reopened"}
             s == Append(<<"archived">>, "reopened")
             t == <<"archived", "reopened">>
  <1>1. <<"archived">> \in Seq(S) /\ "reopened" \in S
    OBVIOUS
  <1>2. /\ s \in Seq(S) /\ Len(s) = 2
        /\ s[1] = "archived" /\ s[2] = "reopened"
    BY <1>1, AppendProperties
  <1>3. /\ t \in Seq(S) /\ Len(t) = 2
        /\ t[1] = "archived" /\ t[2] = "reopened"
    OBVIOUS
  <1>4. \A i \in 1..Len(s) : s[i] = t[i]
    <2>1. 1..Len(s) = {1, 2}
      BY <1>2
    <2> QED
      BY <1>2, <1>3, <2>1
  <1> HIDE DEF s, t
  <1> QED
    BY <1>2, <1>3, <1>4, SeqEqual DEF s, t

LEMMA InitIInv == MatterInit => IInv
  <1> SUFFICES ASSUME MatterInit PROVE IInv
    OBVIOUS
  <1>1. MatterTypeOK
    BY DEF MatterInit, MatterTypeOK, Exists, Statuses, Kinds
  <1>2. TimelineTellsArchive
    BY DEF MatterInit, TimelineTellsArchive
  <1>3. ArchivedStatusIsBacked
    BY DEF MatterInit, ArchivedStatusIsBacked
  <1>4. UnconfirmedSawNothing /\ SubjectExists
    BY DEF MatterInit, UnconfirmedSawNothing, SubjectExists
  <1> QED
    BY <1>1, <1>2, <1>3, <1>4 DEF IInv

\* A matter is created or gets a status that is not "archived".
LEMMA StatusStep ==
  ASSUME IInv, NEW m \in Matters, NEW s \in Statuses,
         CreateMatter(m, s) \/ UpdateMatterStatus(m, s)
  PROVE  IInv'
  <1>1. /\ status' = [status EXCEPT ![m] = s]
        /\ UNCHANGED <<archived, closure, timeline, work, request, late, rejected>>
    BY DEF CreateMatter, UpdateMatterStatus
  <1>2. s \notin {"absent", "archived"}
    BY DEF Statuses
  <1>3. MatterTypeOK'
    BY <1>1, <1>2 DEF IInv, MatterTypeOK, Exists, work, request
  <1>4. TimelineTellsArchive'
    BY <1>1 DEF IInv, TimelineTellsArchive
  <1>5. ArchivedStatusIsBacked'
    BY <1>1, <1>2 DEF IInv, MatterTypeOK, ArchivedStatusIsBacked
  <1>6. UnconfirmedSawNothing'
    BY <1>1 DEF IInv, UnconfirmedSawNothing, OpenIn, work, request
  <1>7. SubjectExists'
    BY <1>1, <1>2 DEF IInv, MatterTypeOK, SubjectExists, Exists, request
  <1> QED
    BY <1>3, <1>4, <1>5, <1>6, <1>7 DEF IInv

\* Work that opens is late for every request that has counted in its matter.
LEMMA OpensKeeps ==
  ASSUME IInv, NEW w \in Work, NEW m, Opens(w, m),
         place' = [place EXCEPT ![w] = m], UNCHANGED <<matter, request>>
  PROVE  /\ UnconfirmedSawNothing'
         /\ late' \in [Requests -> SUBSET Work] /\ open' \subseteq Work
  <1>1. late' \in [Requests -> SUBSET Work] /\ open' \subseteq Work
    BY DEF IInv, MatterTypeOK, Opens
  <1>2. ASSUME NEW q \in Requests, stage[q] = "counted", q \notin force,
               NEW v \in OpenIn(subject[q])'
        PROVE  v \in late'[q]
    <2>1. v \in open \cup {w} /\ place'[v] = subject[q]
      BY <1>2 DEF OpenIn, Opens, request
    <2>2. late[q] \subseteq late'[q]
      BY DEF Opens
    <2>3. CASE v = w
      <3>1. place'[v] = m
        BY <2>3 DEF IInv, MatterTypeOK
      <3> QED
        BY <1>2, <2>1, <2>3, <3>1 DEF Opens
    <2>4. CASE v # w
      <3>1. v \in OpenIn(subject[q])
        BY <2>1, <2>4 DEF OpenIn, IInv, MatterTypeOK
      <3> QED
        BY <1>2, <2>2, <3>1 DEF IInv, UnconfirmedSawNothing
    <2> QED
      BY <2>3, <2>4
  <1> QED
    BY <1>1, <1>2 DEF UnconfirmedSawNothing, request

LEMMA CreateWorkStep ==
  ASSUME IInv, NEW w \in Work, NEW m \in Matters, NEW k \in Kinds, CreateWork(w, m, k)
  PROVE  IInv'
  <1>1. UnconfirmedSawNothing' /\ late' \in [Requests -> SUBSET Work] /\ open' \subseteq Work
    BY OpensKeeps DEF CreateWork
  <1>2. MatterTypeOK'
    BY <1>1 DEF IInv, MatterTypeOK, CreateWork, Exists, matter, request
  <1>3. TimelineTellsArchive' /\ ArchivedStatusIsBacked' /\ SubjectExists'
    BY DEF IInv, TimelineTellsArchive, ArchivedStatusIsBacked, SubjectExists, Exists,
           CreateWork, matter, request
  <1> QED
    BY <1>1, <1>2, <1>3 DEF IInv

LEMMA ReopenWorkStep ==
  ASSUME IInv, NEW w \in Work, ReopenWork(w)
  PROVE  IInv'
  <1>1. place = [place EXCEPT ![w] = place[w]]
    BY DEF IInv, MatterTypeOK
  <1>2. UnconfirmedSawNothing' /\ late' \in [Requests -> SUBSET Work] /\ open' \subseteq Work
    BY <1>1, OpensKeeps DEF ReopenWork
  <1>3. MatterTypeOK'
    BY <1>2 DEF IInv, MatterTypeOK, ReopenWork, Exists, matter, request
  <1>4. TimelineTellsArchive' /\ ArchivedStatusIsBacked' /\ SubjectExists'
    BY DEF IInv, TimelineTellsArchive, ArchivedStatusIsBacked, SubjectExists, Exists,
           ReopenWork, matter, request
  <1> QED
    BY <1>2, <1>3, <1>4 DEF IInv

LEMMA FinishWorkStep ==
  ASSUME IInv, NEW w \in Work, FinishWork(w)
  PROVE  IInv'
  <1>1. MatterTypeOK'
    BY DEF IInv, MatterTypeOK, FinishWork, Exists, matter, request
  <1>2. TimelineTellsArchive' /\ ArchivedStatusIsBacked' /\ SubjectExists'
    BY DEF IInv, TimelineTellsArchive, ArchivedStatusIsBacked, SubjectExists, Exists,
           FinishWork, matter, request
  <1>3. UnconfirmedSawNothing'
    BY DEF IInv, UnconfirmedSawNothing, OpenIn, FinishWork, request
  <1> QED
    BY <1>1, <1>2, <1>3 DEF IInv

LEMMA CountWorkStep ==
  ASSUME IInv, NEW q \in Requests, NEW m \in Matters, CountWork(q, m)
  PROVE  IInv'
  <1>1. OpenIn(m) \subseteq Work
    BY DEF IInv, MatterTypeOK, OpenIn
  <1>2. MatterTypeOK'
    <2>1. /\ stage'   \in [Requests -> {"new", "counted", "finished"}]
          /\ subject' \in [Requests -> Matters \cup {NoMatter}]
          /\ force'   \subseteq Requests
      BY DEF IInv, MatterTypeOK, CountWork
    <2>2. counted' \in [Requests -> SUBSET Work]
      <3>1. CASE counted' = [counted EXCEPT ![q] = OpenIn(m)]
        BY <1>1, <3>1 DEF IInv, MatterTypeOK
      <3>2. CASE UNCHANGED counted
        BY <3>2 DEF IInv, MatterTypeOK
      <3> QED
        BY <3>1, <3>2 DEF CountWork
    <2>3. UNCHANGED <<matter, work, late, rejected>>
      BY DEF CountWork
    <2> QED
      BY <2>1, <2>2, <2>3 DEF IInv, MatterTypeOK, Exists, matter, work
  <1>3. TimelineTellsArchive' /\ ArchivedStatusIsBacked'
    BY DEF IInv, TimelineTellsArchive, ArchivedStatusIsBacked, CountWork, matter
  <1>4. SubjectExists'
    BY DEF IInv, MatterTypeOK, SubjectExists, Exists, CountWork, matter
  <1>5. ASSUME NEW p \in Requests, stage'[p] = "counted", p \notin force'
        PROVE  OpenIn(subject[p])' \subseteq late'[p]
    <2>1. UNCHANGED <<open, place, late>>
      BY DEF CountWork, work
    <2>2. CASE p = q
      <3>1. subject'[p] = m /\ OpenIn(m) = {}
        BY <1>5, <2>2 DEF CountWork, IInv, MatterTypeOK
      <3> QED
        BY <2>1, <3>1 DEF OpenIn
    <2>3. CASE p # q
      <3>1. stage[p] = "counted" /\ p \notin force /\ subject'[p] = subject[p]
        BY <1>5, <2>3 DEF CountWork, IInv, MatterTypeOK
      <3> QED
        BY <2>1, <3>1 DEF IInv, UnconfirmedSawNothing, OpenIn
    <2> QED
      BY <2>2, <2>3
  <1>6. UnconfirmedSawNothing'
    BY <1>5 DEF UnconfirmedSawNothing
  <1> QED
    BY <1>2, <1>3, <1>4, <1>6 DEF IInv

\* What every end of a request keeps, whatever becomes of its matter.
LEMMA FinishKeeps ==
  ASSUME IInv, NEW q \in Requests, Finish(q), UNCHANGED work
  PROVE  /\ stage'   \in [Requests -> {"new", "counted", "finished"}]
         /\ subject' \in [Requests -> Matters \cup {NoMatter}]
         /\ force'   \subseteq Requests
         /\ counted' \in [Requests -> SUBSET Work]
         /\ late'    \in [Requests -> SUBSET Work]
         /\ \A p \in Requests : stage'[p] = "counted" =>
              stage[p] = "counted" /\ p # q /\ subject'[p] = subject[p]
         /\ UnconfirmedSawNothing'
  <1>1. /\ stage'   \in [Requests -> {"new", "counted", "finished"}]
        /\ subject' \in [Requests -> Matters \cup {NoMatter}]
        /\ force'   \subseteq Requests
        /\ counted' \in [Requests -> SUBSET Work]
        /\ late'    \in [Requests -> SUBSET Work]
    BY DEF IInv, MatterTypeOK, Finish
  <1>2. ASSUME NEW p \in Requests, stage'[p] = "counted"
        PROVE  stage[p] = "counted" /\ p # q /\ subject'[p] = subject[p]
    BY <1>2 DEF IInv, MatterTypeOK, Finish
  <1>3. ASSUME NEW p \in Requests, stage'[p] = "counted", p \notin force'
        PROVE  OpenIn(subject[p])' \subseteq late'[p]
    <2>1. p \notin force /\ late'[p] = late[p] /\ UNCHANGED <<open, place>>
      BY <1>2, <1>3 DEF IInv, MatterTypeOK, Finish, work
    <2> QED
      BY <1>2, <1>3, <2>1 DEF IInv, UnconfirmedSawNothing, OpenIn
  <1>4. UnconfirmedSawNothing'
    BY <1>3 DEF UnconfirmedSawNothing
  <1> QED
    BY <1>1, <1>2, <1>4

LEMMA ArchiveMatterStep ==
  ASSUME IInv, NEW q \in Requests, ArchiveMatter(q)
  PROVE  IInv'
  <1> DEFINE m == subject[q]
  <1>1. m \in Matters /\ Exists(m)
    BY DEF ArchiveMatter, IInv, SubjectExists
  <1>2. Finish(q) /\ UNCHANGED <<work, rejected>>
    BY DEF ArchiveMatter
  <1>3. Closure(q) \in Closures /\ Closure(q) # NoMatter
    BY ClosureTyped DEF IInv
  <1>4. closure[m] = NoMatter /\ timeline[m] = <<>> /\ m \notin archived
    BY <1>1 DEF ArchiveMatter, MayStoreClosure, IInv, TimelineTellsArchive
  <1>5. /\ closure'  = [closure EXCEPT ![m] = Closure(q)]
        /\ status'   = [status EXCEPT ![m] = "archived"]
        /\ archived' = archived \cup {m}
        /\ timeline' = [timeline EXCEPT ![m] = <<"archived">>]
    BY <1>4 DEF ArchiveMatter
  <1>6. MatterTypeOK'
    <2>1. /\ status'   \in [Matters -> Statuses \cup {"absent", "archived"}]
          /\ archived' \subseteq {n \in Matters : status'[n] # "absent"}
      BY <1>1, <1>5 DEF IInv, MatterTypeOK, Exists
    <2>2. closure' \in [Matters -> Closures \cup {NoMatter}]
      BY <1>1, <1>3, <1>5 DEF IInv, MatterTypeOK
    <2>3. timeline' \in [Matters -> Seq({"archived", "reopened"})]
      <3>1. <<"archived">> \in Seq({"archived", "reopened"})
        OBVIOUS
      <3> QED
        BY <1>1, <1>5, <3>1 DEF IInv, MatterTypeOK
    <2> QED
      BY <1>2, <2>1, <2>2, <2>3, FinishKeeps DEF IInv, MatterTypeOK, Exists, work
  <1>7. TimelineTellsArchive'
    BY <1>1, <1>3, <1>4, <1>5 DEF IInv, MatterTypeOK, TimelineTellsArchive
  <1>8. ArchivedStatusIsBacked'
    BY <1>1, <1>5 DEF IInv, MatterTypeOK, ArchivedStatusIsBacked
  <1>9. SubjectExists'
    BY <1>1, <1>2, <1>5, FinishKeeps DEF IInv, MatterTypeOK, SubjectExists, Exists
  <1> QED
    BY <1>2, <1>6, <1>7, <1>8, <1>9, FinishKeeps DEF IInv

LEMMA EndStep ==
  ASSUME IInv, NEW q \in Requests, RejectArchive(q) \/ LoseRequest(q)
  PROVE  IInv'
  <1>1. /\ Finish(q) /\ UNCHANGED <<matter, work>>
        /\ rejected' \in {rejected, rejected \cup {q}}
    BY DEF RejectArchive, LoseRequest
  <1>2. MatterTypeOK'
    BY <1>1, FinishKeeps DEF IInv, MatterTypeOK, Exists, matter, work
  <1>3. TimelineTellsArchive' /\ ArchivedStatusIsBacked'
    BY <1>1 DEF IInv, TimelineTellsArchive, ArchivedStatusIsBacked, matter
  <1>4. SubjectExists'
    BY <1>1, FinishKeeps DEF IInv, SubjectExists, Exists, matter
  <1> QED
    BY <1>1, <1>2, <1>3, <1>4, FinishKeeps DEF IInv

LEMMA ReopenMatterStep ==
  ASSUME IInv, NEW m \in Matters, ReopenMatter(m)
  PROVE  IInv'
  <1>1. m \in archived /\ timeline[m] = <<"archived">>
    BY DEF ReopenMatter, MayReopen, IInv, TimelineTellsArchive
  <1>0. Append(timeline[m], "reopened") = <<"archived", "reopened">>
    BY <1>1, AppendReopened
  <1>2. /\ archived' = archived \ {m}
        /\ status'   = [status EXCEPT ![m] = "active"]
        /\ timeline' = [timeline EXCEPT ![m] = <<"archived", "reopened">>]
        /\ UNCHANGED <<closure, work, request, late, rejected>>
    <2>1. timeline' = [timeline EXCEPT ![m] = Append(timeline[m], "reopened")]
      BY DEF ReopenMatter
    <2>2. timeline' = [timeline EXCEPT ![m] = <<"archived", "reopened">>]
      BY <1>0, <2>1, Zenon
    <2>3. status' = [status EXCEPT ![m] = "active"] /\ archived' = archived \ {m}
      BY DEF ReopenMatter, ResetStatus, StatusReopened
    <2>4. UNCHANGED <<closure, work, request, late, rejected>>
      BY DEF ReopenMatter
    <2> QED
      BY <2>2, <2>3, <2>4
  <1>3. MatterTypeOK'
    <2>1. /\ status'   \in [Matters -> Statuses \cup {"absent", "archived"}]
          /\ archived' \subseteq {n \in Matters : status'[n] # "absent"}
      BY <1>2 DEF IInv, MatterTypeOK, Exists, Statuses
    <2>2. timeline' \in [Matters -> Seq({"archived", "reopened"})]
      <3>1. <<"archived", "reopened">> \in Seq({"archived", "reopened"})
        OBVIOUS
      <3> QED
        BY <1>2, <3>1 DEF IInv, MatterTypeOK
    <2> QED
      BY <1>2, <2>1, <2>2 DEF IInv, MatterTypeOK, Exists, work, request
  <1>4. TimelineTellsArchive'
    <2>1. <<"archived", "reopened">> # <<"archived">> /\ <<"archived", "reopened">> # <<>>
      OBVIOUS
    <2>2. ASSUME NEW n \in Matters
          PROVE  /\ timeline'[n] \in {<<>>, <<"archived">>, <<"archived", "reopened">>}
                 /\ n \in archived' <=> timeline'[n] = <<"archived">>
                 /\ closure'[n] = NoMatter <=> timeline'[n] = <<>>
      <3>1. CASE n = m
        <4>1. closure[m] # NoMatter
          BY <1>1 DEF IInv, TimelineTellsArchive
        <4> QED
          BY <1>2, <2>1, <3>1, <4>1 DEF IInv, MatterTypeOK
      <3>2. CASE n # m
        <4>1. timeline'[n] = timeline[n] /\ (n \in archived' <=> n \in archived)
          BY <1>2, <3>2 DEF IInv, MatterTypeOK
        <4> QED
          BY <1>2, <4>1 DEF IInv, TimelineTellsArchive
      <3> QED
        BY <3>1, <3>2
    <2> QED
      BY <2>2 DEF TimelineTellsArchive
  <1>5. ArchivedStatusIsBacked'
    BY <1>2 DEF IInv, MatterTypeOK, ArchivedStatusIsBacked
  <1>6. UnconfirmedSawNothing'
    BY <1>2 DEF IInv, UnconfirmedSawNothing, OpenIn, work, request
  <1>7. SubjectExists'
    BY <1>2 DEF IInv, MatterTypeOK, SubjectExists, Exists, request
  <1> QED
    BY <1>3, <1>4, <1>5, <1>6, <1>7 DEF IInv

\* No action breaks the invariant.
LEMMA StepIInv == IInv /\ [MatterNext]_matterVars => IInv'
  <1> SUFFICES ASSUME IInv, [MatterNext]_matterVars PROVE IInv'
    OBVIOUS
  <1>1. ASSUME NEW m \in Matters, NEW s \in Statuses,
               CreateMatter(m, s) \/ UpdateMatterStatus(m, s)
        PROVE  IInv'
    BY <1>1, StatusStep
  <1>2. ASSUME NEW m \in Matters, NEW w \in Work, NEW k \in Kinds, CreateWork(w, m, k)
        PROVE  IInv'
    BY <1>2, CreateWorkStep
  <1>3. ASSUME NEW m \in Matters, NEW q \in Requests, CountWork(q, m)
        PROVE  IInv'
    BY <1>3, CountWorkStep
  <1>4. ASSUME NEW m \in Matters, ReopenMatter(m)
        PROVE  IInv'
    BY <1>4, ReopenMatterStep
  <1>5. ASSUME NEW w \in Work, FinishWork(w) \/ ReopenWork(w)
        PROVE  IInv'
    BY <1>5, FinishWorkStep, ReopenWorkStep
  <1>6. ASSUME NEW q \in Requests, ArchiveMatter(q) \/ RejectArchive(q) \/ LoseRequest(q)
        PROVE  IInv'
    BY <1>6, ArchiveMatterStep, EndStep
  <1>7. CASE UNCHANGED matterVars
    BY <1>7 DEF IInv, MatterTypeOK, TimelineTellsArchive, ArchivedStatusIsBacked, SubjectExists,
               UnconfirmedSawNothing, OpenIn, Exists, matterVars, matter, work, request
  <1> QED
    BY <1>1, <1>2, <1>3, <1>4, <1>5, <1>6, <1>7 DEF MatterNext

\* IInv is an invariant of the specification.
THEOREM Invariance == MatterSpec => []IInv
  <1> QED
    BY InitIInv, StepIInv, PTL DEF MatterSpec

\* Every variable stays in its range.
THEOREM TypeCorrect == MatterSpec => []MatterTypeOK
  <1>1. IInv => MatterTypeOK
    BY DEF IInv
  <1> QED
    BY <1>1, Invariance, PTL

\* The timeline of a matter tells whether it is archived and never repeats an
\* entry: a matter is archived at most once and its closure stays.
THEOREM TimelineIsFaithful == MatterSpec => []TimelineTellsArchive
  <1>1. IInv => TimelineTellsArchive
    BY DEF IInv
  <1> QED
    BY <1>1, Invariance, PTL

\* A matter whose status is "archived" has archived_at set.
THEOREM ArchivedIsBacked == MatterSpec => []ArchivedStatusIsBacked
  <1>1. IInv => ArchivedStatusIsBacked
    BY DEF IInv
  <1> QED
    BY <1>1, Invariance, PTL

\* An unconfirmed archive closes over no work but what was opened between its
\* count and its commit.
THEOREM NothingElseOverlooked == MatterSpec => OverlookedCameLate
  <1>1. IInv =>
          \A q \in Requests : stage[q] = "counted" /\ q \notin force
            => {w \in open : place[w] = subject[q]} \subseteq late[q]
    BY DEF IInv, UnconfirmedSawNothing, OpenIn
  <1>2. IInv /\ [MatterNext]_matterVars =>
          [\A q \in Requests :
             stage[q] = "counted" /\ archived' # archived
               /\ closure'[subject[q]] # closure[subject[q]]
               /\ closure'[subject[q]].request = q /\ q \notin force
             => {w \in open : place[w] = subject[q]} \subseteq late[q]]_matterVars
    BY <1>1
  <1> QED
    BY <1>2, Invariance, PTL DEF MatterSpec, OverlookedCameLate

================================================================================
