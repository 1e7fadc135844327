---------------------------- MODULE ExtractionProofs ----------------------------
(***************************************************************************)
(* Stored chunks lie within stored pages, a reprocessing request wins over *)
(* work that began before it, and nothing is given up early: theorems      *)
(* about Extraction, for any number of documents, versions, workers, pages *)
(* and requests. The invariant is about the fence locked_by: a worker that *)
(* holds a row holds it by its latest claim, which no request overtook. By *)
(* it, every step is one of TextPromise or goes unseen there.              *)
(***************************************************************************)
EXTENDS Extraction, TLAPS

\* What a worker has open is in its batch, and its chunks are of the pages found.
InWork ==
  \A w \in Workers :
    /\ \A k \in Versions : open[w] = {k} => k \in Batch(w)
    /\ open[w] = {} => built[w] = {}
    /\ built[w] \subseteq found[w] /\ rest[w] \subseteq found[w]
    /\ outdated[w] \subseteq Batch(w)

\* A row of the queue exists with its version.
Rowed ==
  /\ \A k \in Versions : owner[k] = None => status[k] = "none"
  /\ \A d \in Docs : Exists(d) => owner[current[d]] # None

\* Whoever holds a row was not overtaken, and its claim returned the row's attempts.
Fence ==
  \A k \in Versions, w \in Workers :
    Holds(w, k) => /\ k \notin outdated[w]
                   /\ k \in Batch(w) => batch[w][k] = attempts[k]

Kept == ChunksWithinPages /\ ReprocessIsHonoured /\ GivesUpOnlyExhausted

XInv == TypeOK /\ InWork /\ Rowed /\ Fence /\ Kept

\* The initial states satisfy the invariant.
LEMMA InitXInv == Init => XInv
<1> SUFFICES ASSUME Init PROVE XInv
  OBVIOUS
<1> USE ExtractionAssumptions DEF Init
<1>1. TypeOK
  BY DEF TypeOK, Statuses
<1>2. InWork /\ Rowed /\ Fence
  BY DEF InWork, Batch, Rowed, Exists, Fence, Holds
<1>3. Kept
  BY DEF Kept, ChunksWithinPages, ReprocessIsHonoured, GivesUpOnlyExhausted
<1> QED
  BY <1>1, <1>2, <1>3 DEF XInv

\* Requests on documents other than reprocessing.
LEMMA DocumentKeepsXInv ==
  ASSUME XInv, NEW d \in Docs,
         (\E k \in Versions : AddVersion(k, d)) \/ SoftDeleteDocument(d) \/ RestoreDocument(d)
  PROVE  XInv'
<1> USE ExtractionAssumptions DEF XInv, queue, text, workers
<1>1. ASSUME NEW k \in Versions, AddVersion(k, d) PROVE XInv'
  <2>1. /\ owner' = [owner EXCEPT ![k] = d] /\ owner[k] = None
        /\ current' = [current EXCEPT ![d] = IF d \in deleted THEN @ ELSE k]
        /\ status' = [status EXCEPT ![k] = "pending"]
        /\ UNCHANGED <<deleted, attempts, lockedBy, pages, chunks, stale, batch, open, found, rest,
                       built, outdated, requests>>
    BY <1>1 DEF AddVersion
  <2>2. TypeOK'
    BY <2>1 DEF TypeOK, Statuses
  <2>3. InWork' /\ Fence'
    BY <2>1 DEF InWork, Batch, Fence, Holds
  <2>4. Rowed'
    BY <2>1 DEF Rowed, Exists, TypeOK
  <2>5. status[k] = "none" /\ lockedBy[k] = None
    BY <2>1 DEF Rowed, Kept, GivesUpOnlyExhausted
  <2>6. Kept'
    BY <2>1, <2>5 DEF Kept, ChunksWithinPages, ReprocessIsHonoured, GivesUpOnlyExhausted, TypeOK
  <2> QED
    BY <2>2, <2>3, <2>4, <2>6
<1>2. CASE SoftDeleteDocument(d) \/ RestoreDocument(d)
  <2>1. /\ deleted' \subseteq Docs /\ requests' \in 0..MaxRequests
        /\ UNCHANGED <<owner, current, status, attempts, lockedBy, pages, chunks, stale, batch, open,
                       found, rest, built, outdated>>
    BY <1>2 DEF SoftDeleteDocument, RestoreDocument, TypeOK
  <2> QED
    BY <2>1 DEF TypeOK, InWork, Batch, Rowed, Exists, Fence, Holds, Kept, ChunksWithinPages,
                ReprocessIsHonoured, GivesUpOnlyExhausted
<1> QED
  BY <1>1, <1>2

\* A reprocessing request: whoever has the row in hand loses the lease.
LEMMA RequeueKeepsXInv ==
  ASSUME XInv, NEW d \in Docs, RequeueDocumentExtraction(d)
  PROVE  XInv'
<1> USE ExtractionAssumptions DEF XInv, table, text
<1> DEFINE k == current[d]
<1>1. /\ status'   = [status EXCEPT ![k] = "pending"]
      /\ attempts' = [attempts EXCEPT ![k] = 0]
      /\ lockedBy' = [lockedBy EXCEPT ![k] = None]
      /\ outdated' = [w \in Workers |-> outdated[w] \cup (Batch(w) \cap {k})]
      /\ requests < MaxRequests /\ requests' = requests + 1
      /\ UNCHANGED <<owner, current, deleted, pages, chunks, stale, batch, open, found, rest, built>>
  BY DEF RequeueDocumentExtraction, DropLease
<1>2. k \in Versions /\ owner[k] # None
  BY DEF RequeueDocumentExtraction, Exists, Rowed, TypeOK
<1>3. TypeOK'
  <2>1. requests' \in 0..MaxRequests
    BY <1>1 DEF TypeOK
  <2>2. outdated' \in [Workers -> SUBSET Versions]
    BY <1>1, <1>2 DEF TypeOK
  <2>3. attempts' \in [Versions -> 0..MaxAttempts]
    <3>1. 0 \in 0..MaxAttempts
      BY DEF ExtractionAssumptions
    <3> QED
      BY <1>1, <3>1 DEF TypeOK
  <2> QED
    BY <1>1, <2>1, <2>2, <2>3 DEF TypeOK, Statuses
<1>4. InWork'
  BY <1>1 DEF InWork, Batch
<1>5. Rowed'
  BY <1>1, <1>2 DEF Rowed, Exists, TypeOK
<1>6. Fence'
  BY <1>1, <1>2 DEF Fence, Holds, Batch, TypeOK
<1>7. Kept'
  BY <1>1, <1>2 DEF Kept, ChunksWithinPages, ReprocessIsHonoured, GivesUpOnlyExhausted, TypeOK
<1> QED
  BY <1>3, <1>4, <1>5, <1>6, <1>7

\* A claim: its worker has nothing else in hand.
LEMMA ClaimKeepsXInv ==
  ASSUME XInv, NEW w \in Workers, ClaimDocumentExtractions(w)
  PROVE  XInv'
<1> USE ExtractionAssumptions DEF XInv, table, text
<1>1. PICK taken \in SUBSET Claimable :
        /\ status'   = [k \in Versions |-> IF k \in taken THEN "processing" ELSE status[k]]
        /\ attempts' = [k \in Versions |-> IF k \in taken /\ attempts[k] < MaxAttempts
                                           THEN attempts[k] + 1 ELSE attempts[k]]
        /\ lockedBy' = [k \in Versions |-> IF k \in taken THEN w ELSE lockedBy[k]]
        /\ batch' = [batch EXCEPT ![w] = [k \in Versions |-> IF k \in taken THEN attempts'[k] ELSE 0]]
  BY DEF ClaimDocumentExtractions, TakeLeases
<1>2. /\ Batch(w) = {}
      /\ UNCHANGED <<owner, current, deleted, pages, chunks, stale, open, found, rest, built,
                     outdated, requests>>
  BY DEF ClaimDocumentExtractions
<1>3. outdated[w] = {} /\ \A k \in Versions : open[w] # {k}
  BY <1>2 DEF InWork
<1>4. \A k \in taken : k \in Versions /\ status[k] \in {"pending", "processing"}
  BY DEF Claimable
<1>5. attempts' \in [Versions -> 0..MaxAttempts]
  BY <1>1 DEF TypeOK
<1>6. batch' \in [Workers -> [Versions -> 0..MaxAttempts]]
  BY <1>1, <1>5 DEF TypeOK
<1>7. TypeOK'
  BY <1>1, <1>2, <1>5, <1>6 DEF TypeOK, Statuses
<1>8. \A v \in Workers \ {w} : batch'[v] = batch[v]
  BY <1>1 DEF TypeOK
<1>9. InWork'
  <2> SUFFICES ASSUME NEW v \in Workers
               PROVE  /\ \A k \in Versions : open[v] = {k} => k \in Batch(v)'
                      /\ open[v] = {} => built[v] = {}
                      /\ built[v] \subseteq found[v] /\ rest[v] \subseteq found[v]
                      /\ outdated[v] \subseteq Batch(v)'
    BY <1>2 DEF InWork
  <2>1. CASE v = w
    BY <1>3, <2>1 DEF InWork
  <2>2. CASE v # w
    <3>1. Batch(v)' = Batch(v)
      BY <1>8, <2>2 DEF Batch
    <3> QED
      BY <3>1 DEF InWork
  <2> QED
    BY <2>1, <2>2
<1>10. Rowed'
  BY <1>1, <1>2, <1>4 DEF Rowed, Exists, TypeOK
<1>11. Fence'
  <2> SUFFICES ASSUME NEW k \in Versions, NEW v \in Workers, lockedBy'[k] = v
               PROVE  k \notin outdated[v] /\ (batch'[v][k] > 0 => batch'[v][k] = attempts'[k])
    BY <1>2 DEF Fence, Holds, Batch
  <2>1. CASE k \in taken
    BY <1>1, <1>3, <2>1 DEF TypeOK
  <2>2. CASE k \notin taken /\ v = w
    BY <1>1, <1>3, <2>2 DEF TypeOK
  <2>3. CASE k \notin taken /\ v # w
    BY <1>1, <1>8, <2>3 DEF Fence, Holds, Batch, TypeOK
  <2> QED
    BY <2>1, <2>2, <2>3
<1>12. Kept'
  BY <1>1, <1>2, <1>4 DEF Kept, ChunksWithinPages, ReprocessIsHonoured, GivesUpOnlyExhausted, TypeOK
<1> QED
  BY <1>7, <1>9, <1>10, <1>11, <1>12

\* A worker is through with a row.
LEMMA LeaveKeeps ==
  ASSUME XInv, NEW w \in Workers, NEW k \in Versions, LeaveItem(w, k),
         k \in Batch(w), open[w] \in {{}, {k}}
  PROVE  /\ InWork'
         /\ batch' \in [Workers -> [Versions -> 0..MaxAttempts]]
         /\ open'  \in [Workers -> {{}} \cup {{j} : j \in Versions}]
         /\ found' \in [Workers -> SUBSET Pages] /\ rest' \in [Workers -> SUBSET Pages]
         /\ built' \in [Workers -> SUBSET Pages] /\ outdated' \in [Workers -> SUBSET Versions]
         /\ \A v \in Workers : outdated'[v] \subseteq outdated[v]
         /\ \A v \in Workers, j \in Versions : batch'[v][j] > 0 => batch'[v][j] = batch[v][j]
<1> USE ExtractionAssumptions DEF XInv
<1>1. batch' \in [Workers -> [Versions -> 0..MaxAttempts]]
  BY DEF LeaveItem, TypeOK
<1>2. /\ \A j \in Versions : batch'[w][j] = IF j = k THEN 0 ELSE batch[w][j]
      /\ \A v \in Workers \ {w} : batch'[v] = batch[v]
  BY DEF LeaveItem, TypeOK
<1>3. /\ open'  \in [Workers -> {{}} \cup {{j} : j \in Versions}]
      /\ found' \in [Workers -> SUBSET Pages] /\ rest' \in [Workers -> SUBSET Pages]
      /\ built' \in [Workers -> SUBSET Pages] /\ outdated' \in [Workers -> SUBSET Versions]
  BY DEF LeaveItem, TypeOK
<1>4. /\ open'[w] = {} /\ found'[w] = {} /\ rest'[w] = {} /\ built'[w] = {}
      /\ outdated'[w] = outdated[w] \ {k}
      /\ \A v \in Workers \ {w} : /\ open'[v] = open[v] /\ found'[v] = found[v]
                                  /\ rest'[v] = rest[v] /\ built'[v] = built[v]
                                  /\ outdated'[v] = outdated[v]
  BY DEF LeaveItem, TypeOK
<1>5. Batch(w)' = Batch(w) \ {k} /\ \A v \in Workers \ {w} : Batch(v)' = Batch(v)
  BY <1>2 DEF Batch, TypeOK
<1>6. InWork'
  <2> SUFFICES ASSUME NEW v \in Workers
               PROVE  /\ \A j \in Versions : open'[v] = {j} => j \in Batch(v)'
                      /\ open'[v] = {} => built'[v] = {}
                      /\ built'[v] \subseteq found'[v] /\ rest'[v] \subseteq found'[v]
                      /\ outdated'[v] \subseteq Batch(v)'
    BY DEF InWork
  <2>1. CASE v = w
    BY <1>4, <1>5, <2>1 DEF InWork
  <2>2. CASE v # w
    BY <1>4, <1>5, <2>2 DEF InWork
  <2> QED
    BY <2>1, <2>2
<1>7. \A v \in Workers : outdated'[v] \subseteq outdated[v]
  BY <1>4
<1>8. \A v \in Workers, j \in Versions : batch'[v][j] > 0 => batch'[v][j] = batch[v][j]
  BY <1>2
<1> QED
  BY <1>1, <1>3, <1>6, <1>7, <1>8

\* Failure, commit and abandonment: a row changes only under the lease.
LEMMA OutcomeKeepsXInv ==
  ASSUME XInv, NEW w \in Workers, NEW k \in Versions,
         FailDocumentExtraction(w, k) \/ CommitComplete(w, k) \/ DropItem(w, k)
  PROVE  XInv'
<1> USE ExtractionAssumptions DEF XInv, table, queue, text
<1>1. /\ LeaveItem(w, k) /\ k \in Batch(w) /\ open[w] \in {{}, {k}}
      /\ UNCHANGED <<owner, current, deleted, attempts, requests>>
  BY DEF FailDocumentExtraction, CommitComplete, DropItem, InWork
<1>2. /\ InWork'
      /\ batch' \in [Workers -> [Versions -> 0..MaxAttempts]]
      /\ open'  \in [Workers -> {{}} \cup {{j} : j \in Versions}]
      /\ found' \in [Workers -> SUBSET Pages] /\ rest' \in [Workers -> SUBSET Pages]
      /\ built' \in [Workers -> SUBSET Pages] /\ outdated' \in [Workers -> SUBSET Versions]
      /\ \A v \in Workers : outdated'[v] \subseteq outdated[v]
      /\ \A v \in Workers, j \in Versions : batch'[v][j] > 0 => batch'[v][j] = batch[v][j]
  BY <1>1, LeaveKeeps
<1>3. CASE UNCHANGED <<status, lockedBy, pages, chunks, stale>>
  <2>1. TypeOK'
    BY <1>1, <1>2, <1>3 DEF TypeOK
  <2>2. Rowed' /\ Kept'
    BY <1>1, <1>3 DEF Rowed, Exists, Kept, ChunksWithinPages, ReprocessIsHonoured, GivesUpOnlyExhausted
  <2>3. Fence'
    BY <1>1, <1>2, <1>3 DEF Fence, Holds, Batch
  <2> QED
    BY <1>2, <2>1, <2>2, <2>3
<1>4. CASE /\ Holds(w, k)
           /\ lockedBy' = [lockedBy EXCEPT ![k] = None]
           /\ \/ /\ \E s \in {"unsupported", AfterFailure(batch[w][k])} :
                       status' = [status EXCEPT ![k] = s]
                 /\ UNCHANGED <<pages, chunks, stale>>
              \/ /\ status' = [status EXCEPT ![k] = "succeeded"]
                 /\ pages'  = [pages EXCEPT ![k] = found[w]]
                 /\ chunks' = [chunks EXCEPT ![k] = built[w]]
                 /\ stale'  = IF k \in outdated[w] THEN stale \cup {k} ELSE stale \ {k}
  <2>1. /\ k \notin outdated[w] /\ batch[w][k] = attempts[k]
        /\ status[k] = "processing" /\ owner[k] # None
    BY <1>1, <1>4 DEF Fence, Kept, GivesUpOnlyExhausted, Rowed, Holds
  <2>2. PICK s \in {"unsupported", "succeeded", "failed", "pending"} :
          /\ status' = [status EXCEPT ![k] = s]
          /\ s = "failed" => attempts[k] >= MaxAttempts
    BY <1>4, <2>1 DEF AfterFailure
  <2>3. /\ pages' \in [Versions -> SUBSET Pages] /\ chunks' \in [Versions -> SUBSET Pages]
        /\ stale' = stale /\ \A j \in Versions : chunks'[j] \subseteq pages'[j]
    BY <1>4, <2>1 DEF TypeOK, InWork, Kept, ReprocessIsHonoured, ChunksWithinPages
  <2>4. TypeOK'
    <3>1. lockedBy' \in [Versions -> Workers \cup {None}] /\ status' \in [Versions -> Statuses]
      BY <1>4, <2>2 DEF TypeOK, Statuses
    <3> QED
      BY <1>1, <1>2, <2>3, <3>1 DEF TypeOK
  <2>5. Rowed'
    BY <1>1, <2>1, <2>2 DEF Rowed, Exists, TypeOK
  <2>6. Fence'
    BY <1>1, <1>2, <1>4 DEF Fence, Holds, Batch, TypeOK
  <2>7. Kept'
    BY <1>1, <1>4, <2>2, <2>3 DEF Kept, ChunksWithinPages, ReprocessIsHonoured, GivesUpOnlyExhausted, TypeOK
  <2> QED
    BY <1>2, <2>4, <2>5, <2>6, <2>7
<1>5. CASE FailDocumentExtraction(w, k)
  <2>1. CASE Holds(w, k)
    BY <1>4, <1>5, <2>1 DEF FailDocumentExtraction
  <2>2. CASE ~Holds(w, k)
    <3>1. UNCHANGED <<status, lockedBy>>
      BY <1>5, <2>2 DEF FailDocumentExtraction, TypeOK
    <3> QED
      BY <1>3, <1>5, <3>1 DEF FailDocumentExtraction
  <2> QED
    BY <2>1, <2>2
<1>6. CASE CommitComplete(w, k)
  BY <1>3, <1>4, <1>6 DEF CommitComplete, ChunksReplaced
<1>7. CASE DropItem(w, k)
  BY <1>3, <1>7 DEF DropItem
<1> QED
  BY <1>5, <1>6, <1>7

\* Inside the transaction nothing of the table changes.
LEMMA TransactionKeepsXInv ==
  ASSUME XInv, NEW w \in Workers, NEW k \in Versions, BeginComplete(w, k) \/ BuildChunks(w, k)
  PROVE  XInv'
<1> USE ExtractionAssumptions DEF XInv, table, queue, text
<1>1. UNCHANGED <<owner, current, deleted, status, attempts, lockedBy, pages, chunks, stale,
                  batch, outdated, requests>>
  BY DEF BeginComplete, BuildChunks
<1>2. Rowed' /\ Fence' /\ Kept'
  BY <1>1 DEF Rowed, Exists, Fence, Holds, Batch, Kept, ChunksWithinPages, ReprocessIsHonoured,
              GivesUpOnlyExhausted
<1>3. CASE BeginComplete(w, k)
  <2>1. PICK ps \in SUBSET Pages : /\ found' = [found EXCEPT ![w] = ps]
                                   /\ rest'  = [rest EXCEPT ![w] = ps]
    BY <1>3 DEF BeginComplete
  <2>2. k \in Batch(w) /\ open[w] = {} /\ open' = [open EXCEPT ![w] = {k}] /\ built' = built
    BY <1>3 DEF BeginComplete
  <2>3. TypeOK'
    BY <1>1, <2>1, <2>2 DEF TypeOK
  <2>4. InWork'
    <3> SUFFICES ASSUME NEW v \in Workers
                 PROVE  /\ \A j \in Versions : open'[v] = {j} => j \in Batch(v)
                        /\ open'[v] = {} => built[v] = {}
                        /\ built[v] \subseteq found'[v] /\ rest'[v] \subseteq found'[v]
                        /\ outdated[v] \subseteq Batch(v)
      BY <1>1, <2>2 DEF InWork, Batch
    <3>1. CASE v = w
      <4>1. open'[v] = {k} /\ found'[v] = ps /\ rest'[v] = ps /\ built[v] = {}
        BY <2>1, <2>2, <3>1 DEF TypeOK, InWork
      <4> QED
        BY <2>2, <3>1, <4>1 DEF InWork
    <3>2. CASE v # w
      BY <2>1, <2>2, <3>2 DEF TypeOK, InWork
    <3> QED
      BY <3>1, <3>2
  <2> QED
    BY <1>2, <2>3, <2>4
<1>4. CASE BuildChunks(w, k)
  <2>1. PICK p \in rest[w] :
          /\ rest'  = [rest EXCEPT ![w] = @ \ {p}]
          /\ built' = [built EXCEPT ![w] = IF owner[k] \in deleted THEN @ ELSE @ \cup {p}]
    BY <1>4 DEF BuildChunks
  <2>2. open[w] = {k} /\ open' = open /\ found' = found
    BY <1>4 DEF BuildChunks
  <2>3. /\ rest'[w] \subseteq rest[w] /\ built'[w] \subseteq built[w] \cup {p}
        /\ \A v \in Workers \ {w} : rest'[v] = rest[v] /\ built'[v] = built[v]
    BY <2>1 DEF TypeOK
  <2>4. p \in Pages
    BY DEF TypeOK
  <2>5. TypeOK'
    BY <1>1, <2>1, <2>2, <2>4 DEF TypeOK
  <2>6. InWork'
    <3> SUFFICES ASSUME NEW v \in Workers
                 PROVE  /\ open[v] = {} => built'[v] = {}
                        /\ built'[v] \subseteq found[v] /\ rest'[v] \subseteq found[v]
      BY <1>1, <2>2 DEF InWork, Batch
    <3>1. CASE v = w
      BY <2>1, <2>2, <2>3, <3>1 DEF InWork
    <3>2. CASE v # w
      BY <2>3, <3>2 DEF InWork
    <3> QED
      BY <3>1, <3>2
  <2> QED
    BY <1>2, <2>5, <2>6
<1> QED
  BY <1>2, <1>3, <1>4

\* Every step preserves the invariant.
LEMMA NextXInv == XInv /\ [Next]_vars => XInv'
<1> SUFFICES ASSUME XInv, [Next]_vars PROVE XInv'
  OBVIOUS
<1>1. CASE UNCHANGED vars
  BY <1>1 DEF XInv, vars, table, queue, text, workers, TypeOK, InWork, Batch, Rowed, Exists, Fence,
              Holds, Kept, ChunksWithinPages, ReprocessIsHonoured, GivesUpOnlyExhausted
<1> QED
  BY <1>1, DocumentKeepsXInv, RequeueKeepsXInv, ClaimKeepsXInv, OutcomeKeepsXInv,
     TransactionKeepsXInv DEF Next

\* The invariant holds in every behaviour.
LEMMA XInvHolds == Spec => []XInv
<1> QED
  BY InitXInv, NextXInv, PTL DEF Spec

\* Every variable of Extraction stays in its type.
THEOREM ExtractionTypes == Spec => []TypeOK
<1>1. XInv => TypeOK
  BY DEF XInv
<1> QED
  BY <1>1, XInvHolds, PTL

\* CompleteDocumentExtraction (extractions.go): retrieval never cites a page the stored
\* text does not have.
THEOREM ChunksAreOfPages == Spec => []ChunksWithinPages
<1>1. XInv => ChunksWithinPages
  BY DEF XInv, Kept
<1> QED
  BY <1>1, XInvHolds, PTL

\* RequeueDocumentExtraction (extractions.go): text stored after a reprocessing request
\* never comes from work that began before it.
THEOREM ReprocessingWins == Spec => []ReprocessIsHonoured
<1>1. XInv => ReprocessIsHonoured
  BY DEF XInv, Kept
<1> QED
  BY <1>1, XInvHolds, PTL

\* FailDocumentExtraction (extractions.go): an extraction is given up only after
\* max_attempts claims, and a lease belongs to exactly the rows in processing.
THEOREM GivenUpWhenExhausted == Spec => []GivesUpOnlyExhausted
<1>1. XInv => GivesUpOnlyExhausted
  BY DEF XInv, Kept
<1> QED
  BY <1>1, XInvHolds, PTL
\* Whoever changes the text of a version holds its lease, by a claim that is the
\* latest one of the row and that no reprocessing overtook.
LatestClaimStores ==
  [][\A k \in Versions : pages'[k] # pages[k] \/ chunks'[k] # chunks[k] =>
       \E w \in Workers : /\ Holds(w, k) /\ k \in Batch(w) \ outdated[w]
                          /\ batch[w][k] = attempts[k]]_vars

\* CompleteDocumentExtraction (extractions.go): the text of a version is stored by its
\* latest claim, also while workers of earlier claims, lapsed or overtaken, still run.
THEOREM TextIsOfLatestClaim == Spec => LatestClaimStores
<1> DEFINE Step ==
      \A k \in Versions : pages'[k] # pages[k] \/ chunks'[k] # chunks[k] =>
        \E w \in Workers : /\ Holds(w, k) /\ k \in Batch(w) \ outdated[w]
                           /\ batch[w][k] = attempts[k]
<1>1. ASSUME XInv, [Next]_vars PROVE [Step]_vars
  <2> USE <1>1 DEF XInv
  <2> SUFFICES ASSUME ~UNCHANGED <<pages, chunks>> PROVE Step
    OBVIOUS
  <2>1. PICK w \in Workers, k \in Versions : CommitComplete(w, k) /\ Holds(w, k)
    BY DEF Next, vars, table, queue, text, workers, AddVersion, SoftDeleteDocument,
           RestoreDocument, RequeueDocumentExtraction, ClaimDocumentExtractions,
           FailDocumentExtraction, BeginComplete, BuildChunks, CommitComplete, DropItem
  <2>2. \A j \in Versions \ {k} : pages'[j] = pages[j] /\ chunks'[j] = chunks[j]
    BY <2>1 DEF CommitComplete, TypeOK
  <2>3. k \in Batch(w) \ outdated[w] /\ batch[w][k] = attempts[k]
    BY <2>1 DEF CommitComplete, InWork, Fence
  <2> QED
    BY <2>1, <2>2, <2>3
<1>2. Spec => [][Step]_vars
  BY <1>1, XInvHolds, PTL DEF Spec
<1> QED
  BY <1>2 DEF LatestClaimStores

-----------------------------------------------------------------------------
\* The queue implements TextPromise.

\* One row's status changes: one wish changes.
LEMMA WishBecomes ==
  ASSUME TypeOK, NEW k \in Versions, NEW s, status' = [status EXCEPT ![k] = s]
  PROVE  Promise!Becomes(k, WishOf(s))
<1> DEFINE wishes == [j \in Versions |-> WishOf(status[j])]
<1>1. \A j \in Versions : status'[j] = IF j = k THEN s ELSE status[j]
  BY DEF TypeOK
<1>2. \A j \in Versions : WishOf(status'[j]) = IF j = k THEN WishOf(s) ELSE WishOf(status[j])
  BY <1>1
<1>3. wishes' = [wishes EXCEPT ![k] = WishOf(s)]
  BY <1>2
<1> QED
  BY <1>3 DEF Promise!Becomes

\* A step that leaves wishes and texts alone is a stutter of the promise.
LEMMA QuietIsUnseen ==
  ASSUME \A k \in Versions : WishOf(status[k])' = WishOf(status[k]), UNCHANGED <<pages, chunks>>
  PROVE  UNCHANGED Promise!promiseVars
<1> QED
  BY DEF Promise!promiseVars

\* A version that is added, or queued again, is a text that is wanted.
LEMMA QueuedIsWanted ==
  ASSUME TypeOK, NEW k \in Versions, status' = [status EXCEPT ![k] = "pending"],
         UNCHANGED <<pages, chunks>>
  PROVE  Promise!Want(k)
<1>1. Promise!Becomes(k, WishOf("pending"))
  BY WishBecomes
<1>2. WishOf("pending") = "wanted"
  BY DEF WishOf
<1> QED
  BY <1>1, <1>2 DEF Promise!Want

\* The promise of a claim is kept by taking pending rows and lapsed ones only.
LEMMA ClaimIsUnseen ==
  ASSUME XInv, NEW w \in Workers, ClaimDocumentExtractions(w)
  PROVE  UNCHANGED Promise!promiseVars
<1>1. PICK taken \in SUBSET Claimable :
        status' = [k \in Versions |-> IF k \in taken THEN "processing" ELSE status[k]]
  BY DEF ClaimDocumentExtractions, TakeLeases
<1>2. \A k \in Versions : WishOf(status[k])' = WishOf(status[k])
  <2> SUFFICES ASSUME NEW k \in Versions PROVE WishOf(status'[k]) = WishOf(status[k])
    OBVIOUS
  <2>1. CASE k \in taken
    <3>1. status'[k] = "processing" /\ status[k] \in {"pending", "processing"}
      BY <1>1, <2>1 DEF Claimable
    <3> QED
      BY <3>1 DEF WishOf
  <2>2. CASE k \notin taken
    BY <1>1, <2>2
  <2> QED
    BY <2>1, <2>2
<1> QED
  BY <1>2, QuietIsUnseen DEF ClaimDocumentExtractions, text

\* A worker that holds the row at its outcome meets the wish or gives it up, or
\* leaves it pending; one that lost the lease changes nothing.
LEMMA OutcomeKeepsPromise ==
  ASSUME XInv, NEW w \in Workers, NEW k \in Versions,
         FailDocumentExtraction(w, k) \/ CommitComplete(w, k) \/ DropItem(w, k)
  PROVE  Promise!Meet(k) \/ Promise!GiveUp(k) \/ UNCHANGED Promise!promiseVars
<1> USE DEF XInv, text, queue
<1>1. ASSUME Holds(w, k) PROVE WishOf(status[k]) = "wanted"
  <2>1. lockedBy[k] # None
    BY <1>1, ExtractionAssumptions DEF Holds
  <2>2. status[k] = "processing"
    BY <2>1 DEF Kept, GivesUpOnlyExhausted
  <2> QED
    BY <2>2 DEF WishOf
<1>2. CASE UNCHANGED <<status, pages, chunks>>
  BY <1>2, QuietIsUnseen
<1>3. CASE FailDocumentExtraction(w, k) /\ Holds(w, k)
  <2>1. PICK s \in {"unsupported", "failed", "pending"} : status' = [status EXCEPT ![k] = s]
    BY <1>3 DEF FailDocumentExtraction, AfterFailure
  <2>2. UNCHANGED <<pages, chunks>>
    BY <1>3 DEF FailDocumentExtraction
  <2>3. Promise!Becomes(k, WishOf(s))
    BY <2>1, WishBecomes
  <2>4. CASE s = "pending"
    <3>1. \A j \in Versions : status'[j] = IF j = k THEN s ELSE status[j]
      BY <2>1 DEF TypeOK
    <3>2. WishOf(s) = "wanted"
      BY <2>4 DEF WishOf
    <3>3. \A j \in Versions : WishOf(status[j])' = WishOf(status[j])
      BY <1>1, <1>3, <3>1, <3>2
    <3> QED
      BY <2>2, <3>3, QuietIsUnseen
  <2>5. CASE s # "pending"
    <3>1. WishOf(s) = "given up"
      BY <2>5 DEF WishOf
    <3> QED
      BY <1>1, <1>3, <2>2, <2>3, <3>1 DEF Promise!GiveUp
  <2> QED
    BY <2>4, <2>5
<1>4. CASE FailDocumentExtraction(w, k) /\ ~Holds(w, k)
  BY <1>2, <1>4 DEF FailDocumentExtraction, TypeOK
<1>5. CASE CommitComplete(w, k) /\ Holds(w, k)
  <2>1. /\ status' = [status EXCEPT ![k] = "succeeded"]
        /\ pages'  = [pages EXCEPT ![k] = found[w]]
        /\ chunks' = [chunks EXCEPT ![k] = built[w]]
    BY <1>5 DEF CommitComplete, ChunksReplaced
  <2>2. Promise!Becomes(k, WishOf("succeeded")) /\ WishOf("succeeded") = "met"
    BY <2>1, WishBecomes DEF WishOf
  <2>3. found[w] \in SUBSET Pages /\ built[w] \in SUBSET found[w]
    BY DEF TypeOK, InWork
  <2> QED
    BY <1>1, <1>5, <2>1, <2>2, <2>3 DEF Promise!Meet
<1>6. CASE CommitComplete(w, k) /\ ~Holds(w, k)
  BY <1>2, <1>6 DEF CommitComplete
<1>7. CASE DropItem(w, k)
  BY <1>2, <1>7 DEF DropItem
<1> QED
  BY <1>3, <1>4, <1>5, <1>6, <1>7

\* A request on a document is a wish or goes unseen.
LEMMA RequestKeepsPromise ==
  ASSUME XInv, NEW d \in Docs,
         \/ \E k \in Versions : AddVersion(k, d)
         \/ SoftDeleteDocument(d) \/ RestoreDocument(d) \/ RequeueDocumentExtraction(d)
  PROVE  (\E k \in Versions : Promise!Want(k)) \/ UNCHANGED Promise!promiseVars
<1> USE DEF XInv, text, queue
<1>1. ASSUME NEW k \in Versions, AddVersion(k, d) PROVE Promise!Want(k)
  BY <1>1, QueuedIsWanted DEF AddVersion
<1>2. CASE RequeueDocumentExtraction(d)
  <2>1. current[d] \in Versions
    BY <1>2 DEF RequeueDocumentExtraction, Exists, TypeOK
  <2> QED
    BY <1>2, <2>1, QueuedIsWanted DEF RequeueDocumentExtraction
<1>3. CASE SoftDeleteDocument(d) \/ RestoreDocument(d)
  BY <1>3, QuietIsUnseen DEF SoftDeleteDocument, RestoreDocument
<1> QED
  BY <1>1, <1>2, <1>3

\* Every step of the queue is a step of the promise or a stutter.
LEMMA StepKeepsPromise == XInv /\ [Next]_vars => [Promise!PromiseNext]_(Promise!promiseVars)
<1> SUFFICES ASSUME XInv, [Next]_vars
             PROVE  \/ \E k \in Versions : Promise!Want(k) \/ Promise!Meet(k) \/ Promise!GiveUp(k)
                    \/ UNCHANGED Promise!promiseVars
  BY DEF Promise!PromiseNext
<1>1. ASSUME NEW w \in Workers, NEW k \in Versions, BeginComplete(w, k) \/ BuildChunks(w, k)
      PROVE  UNCHANGED Promise!promiseVars
  BY <1>1, QuietIsUnseen DEF BeginComplete, BuildChunks, queue, text
<1>2. CASE UNCHANGED vars
  BY <1>2, QuietIsUnseen DEF vars, queue, text
<1> QED
  BY <1>1, <1>2, RequestKeepsPromise, ClaimIsUnseen, OutcomeKeepsPromise DEF Next

\* The extraction queue keeps TextPromise (extractions.go, the whole queue): text that is
\* stored, or given up, stays so until the version is queued again, however late a worker
\* answers, and retrieval finds only pages of the stored text.
THEOREM QueueKeepsText == Spec => KeepsText
<1>1. Init => Promise!PromiseInit
  BY DEF Init, Promise!PromiseInit, WishOf
<1> QED
  BY <1>1, StepKeepsPromise, XInvHolds, PTL DEF Spec, KeepsText, Promise!PromiseSpec
=============================================================================
