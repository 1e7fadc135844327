----------------------------- MODULE Extraction ------------------------------
(***************************************************************************)
(* The text extraction that every document version queues, up to the       *)
(* chunks retrieval works on (internal/repository/extractions.go and       *)
(* retrieval.go, internal/ocr/worker.go, migration 000007).                *)
(*                                                                         *)
(* Workers claim rows under a lease, read the object, call the provider    *)
(* and fence the statement that records the outcome by their identity. A   *)
(* lease may lapse and a backoff end at any moment here: the ten minutes   *)
(* are not timed, so the model covers suspended replicas; a worker that    *)
(* gives up (deadline, lost answer, crash) drops its items.                *)
(*                                                                         *)
(* Module Documents details how versions come to be; here a version is     *)
(* added in one step, and documents are deleted, restored and reprocessed  *)
(* while workers are busy.                                                 *)
(***************************************************************************)
EXTENDS Integers, FiniteSets

CONSTANTS
  Docs,         \* identities of documents
  Versions,     \* identities of versions, and of their extraction rows
  Workers,      \* extraction workers, one per API replica
  Pages,        \* pages the text provider may return
  None,         \* absent document, version or lease
  ClaimLimit,   \* LIMIT of the extraction claim (3)
  MaxAttempts,  \* max_attempts of an extraction (5)
  MaxRequests   \* bound: deletions of documents and reprocessing requests

ASSUME ExtractionAssumptions ==
  /\ None \notin Docs /\ None \notin Versions /\ None \notin Workers
  /\ ClaimLimit \in Nat \ {0}
  /\ MaxAttempts \in Nat \ {0}
  /\ MaxRequests \in Nat

VARIABLES
  owner,     \* version rows: the document of each version, None without a row
  current,   \* documents.current_version_id, None before the document exists
  deleted,   \* documents with deleted_at set
  status,    \* document_extractions.status, "none" without a row
  attempts,  \* document_extractions.attempts, counted up to MaxAttempts
  lockedBy,  \* document_extractions.locked_by
  pages,     \* document_extraction_pages: the pages stored
  chunks,    \* document_chunks: the pages that have chunks
  batch,     \* batch[w][k]: the attempts w's claim of k returned, 0 if none
  open,      \* the extraction whose completing transaction w has open
  found,     \* the pages the provider returned for it
  rest,      \* the pages whose chunks are still to be inserted
  built,     \* the pages whose chunks were inserted
  requests,  \* bound: how many deletions and reprocessing requests happened
  outdated,  \* history: outdated[w]: claims of w that a reprocessing overtook
  stale      \* history: versions whose text comes from an overtaken claim

table   == <<owner, current, deleted>>
queue   == <<status, attempts, lockedBy>>
text    == <<pages, chunks, stale>>
workers == <<batch, open, found, rest, built, outdated>>
vars    == <<table, queue, text, workers, requests>>

Statuses == {"none", "pending", "processing", "succeeded", "failed", "unsupported"}

Exists(d) == current[d] # None

\* The claimed items w has not dealt with yet.
Batch(w) == {k \in Versions : batch[w][k] > 0}

Init ==
  /\ owner    = [k \in Versions |-> None]
  /\ current  = [d \in Docs |-> None]
  /\ deleted  = {}
  /\ status   = [k \in Versions |-> "none"]
  /\ attempts = [k \in Versions |-> 0]
  /\ lockedBy = [k \in Versions |-> None]
  /\ pages    = [k \in Versions |-> {}]
  /\ chunks   = [k \in Versions |-> {}]
  /\ stale    = {}
  /\ batch    = [w \in Workers |-> [k \in Versions |-> 0]]
  /\ open     = [w \in Workers |-> {}]
  /\ found    = [w \in Workers |-> {}]
  /\ rest     = [w \in Workers |-> {}]
  /\ built    = [w \in Workers |-> {}]
  /\ outdated = [w \in Workers |-> {}]
  /\ requests = 0

-----------------------------------------------------------------------------
\* Requests on documents.

\* A version row, and by trigger its extraction row. The pointer follows unless
\* the document is deleted.
AddVersion(k, d) ==
  /\ owner[k] = None
  /\ owner'   = [owner EXCEPT ![k] = d]
  /\ current' = [current EXCEPT ![d] = IF d \in deleted THEN @ ELSE k]
  /\ status'  = [status EXCEPT ![k] = "pending"]
  /\ UNCHANGED <<deleted, attempts, lockedBy, text, workers, requests>>

SoftDeleteDocument(d) ==
  /\ requests < MaxRequests
  /\ Exists(d) /\ d \notin deleted
  /\ deleted'  = deleted \cup {d}
  /\ requests' = requests + 1
  /\ UNCHANGED <<owner, current, queue, text, workers>>

RestoreDocument(d) ==
  /\ d \in deleted
  /\ deleted' = deleted \ {d}
  /\ UNCHANGED <<owner, current, queue, text, workers, requests>>

\* Variant: the reset forgets locked_by.
KeepLease(k) == lockedBy' = lockedBy

DropLease(k) == lockedBy' = [lockedBy EXCEPT ![k] = None]

\* RequeueDocumentExtraction: the current version's row starts over, whatever
\* its status; a worker that has it in hand is not told.
RequeueDocumentExtraction(d) ==
  /\ requests < MaxRequests
  /\ Exists(d) /\ d \notin deleted
  /\ LET k == current[d] IN
       /\ status'   = [status EXCEPT ![k] = "pending"]
       /\ attempts' = [attempts EXCEPT ![k] = 0]
       /\ DropLease(k)
       /\ outdated' = [w \in Workers |-> outdated[w] \cup (Batch(w) \cap {k})]
  /\ requests' = requests + 1
  /\ UNCHANGED <<table, text, batch, open, found, rest, built>>

-----------------------------------------------------------------------------
\* Extraction workers.

\* Rows the claim may select: pending ones, and leased ones whose lease lapsed.
Claimable == {k \in Versions : /\ status[k] \in {"pending", "processing"}
                               /\ owner[k] \notin deleted}

TakeLeases(w, taken) ==
  /\ taken # {} /\ Cardinality(taken) <= ClaimLimit
  /\ status'   = [k \in Versions |-> IF k \in taken THEN "processing" ELSE status[k]]
  /\ attempts' = [k \in Versions |-> IF k \in taken /\ attempts[k] < MaxAttempts
                                     THEN attempts[k] + 1 ELSE attempts[k]]
  /\ lockedBy' = [k \in Versions |-> IF k \in taken THEN w ELSE lockedBy[k]]

ClaimDocumentExtractions(w) ==
  /\ Batch(w) = {}
  /\ \E taken \in SUBSET Claimable :
       /\ TakeLeases(w, taken)
       /\ batch' = [batch EXCEPT ![w] =
                      [k \in Versions |-> IF k \in taken THEN attempts'[k] ELSE 0]]
  /\ UNCHANGED <<table, text, open, found, rest, built, outdated, requests>>

\* Variant: the failed status is misspelt.
GivenUpOddly(n) == IF n >= MaxAttempts THEN "fail" ELSE "pending"

\* What a failure makes of a row whose claim returned n attempts.
AfterFailure(n) == IF n >= MaxAttempts THEN "failed" ELSE "pending"

\* The worker is through with k, whatever became of it.
LeaveItem(w, k) ==
  /\ batch' = [batch EXCEPT ![w][k] = 0]
  /\ open'  = [open EXCEPT ![w] = {}]
  /\ found' = [found EXCEPT ![w] = {}]
  /\ rest'  = [rest EXCEPT ![w] = {}]
  /\ built' = [built EXCEPT ![w] = {}]
  /\ outdated' = [outdated EXCEPT ![w] = @ \ {k}]

\* Variant: outcome statements without AND locked_by=$3.
HoldsAnyway(w, k) == status[k] # "none"

Holds(w, k) == lockedBy[k] = w

\* The object cannot be read, the provider fails, or it does not support the
\* type: FailDocumentExtraction, which changes nothing without the lease.
FailDocumentExtraction(w, k) ==
  /\ k \in Batch(w) /\ open[w] = {}
  /\ \E unsupported \in BOOLEAN :
       /\ status' = [status EXCEPT ![k] =
                       IF ~Holds(w, k) THEN @
                       ELSE IF unsupported THEN "unsupported"
                       ELSE AfterFailure(batch[w][k])]
  /\ lockedBy' = [lockedBy EXCEPT ![k] = IF Holds(w, k) THEN None ELSE @]
  /\ LeaveItem(w, k)
  /\ UNCHANGED <<table, attempts, text, requests>>

\* The text is there: CompleteDocumentExtraction opens its transaction.
BeginComplete(w, k) ==
  /\ k \in Batch(w) /\ open[w] = {}
  /\ open' = [open EXCEPT ![w] = {k}]
  /\ \E ps \in SUBSET Pages : /\ found' = [found EXCEPT ![w] = ps]
                              /\ rest'  = [rest EXCEPT ![w] = ps]
  /\ UNCHANGED <<table, queue, text, batch, built, outdated, requests>>

\* replaceDocumentChunks, one page: an INSERT ... SELECT from the document, which
\* inserts nothing when this statement finds the document deleted.
BuildChunks(w, k) ==
  /\ open[w] = {k}
  /\ \E p \in rest[w] :
       /\ rest'  = [rest EXCEPT ![w] = @ \ {p}]
       /\ built' = [built EXCEPT ![w] = IF owner[k] \in deleted THEN @ ELSE @ \cup {p}]
  /\ UNCHANGED <<table, queue, text, batch, open, found, outdated, requests>>

\* What the DELETE and the INSERTs of the transaction leave of k's chunks.
\* Variant: the chunks of an earlier extraction are not deleted.
ChunksAdded(w, k)    == chunks[k] \cup built[w]
ChunksReplaced(w, k) == built[w]

\* The fenced UPDATE, and the commit; without the lease everything rolls back.
CommitComplete(w, k) ==
  /\ open[w] = {k} /\ rest[w] = {}
  /\ IF Holds(w, k)
       THEN /\ status'   = [status EXCEPT ![k] = "succeeded"]
            /\ lockedBy' = [lockedBy EXCEPT ![k] = None]
            /\ pages'    = [pages EXCEPT ![k] = found[w]]
            /\ chunks'   = [chunks EXCEPT ![k] = ChunksReplaced(w, k)]
            /\ stale'    = IF k \in outdated[w] THEN stale \cup {k} ELSE stale \ {k}
       ELSE UNCHANGED <<status, lockedBy, text>>
  /\ LeaveItem(w, k)
  /\ UNCHANGED <<table, attempts, requests>>

\* A statement fails, the deadline passes or the process dies: nothing of this
\* item reaches the table, its lease stays.
DropItem(w, k) ==
  /\ k \in Batch(w)
  /\ open[w] \in {{}, {k}}
  /\ LeaveItem(w, k)
  /\ UNCHANGED <<table, queue, text, requests>>

Next ==
  \/ \E d \in Docs :
       \/ \E k \in Versions : AddVersion(k, d)
       \/ SoftDeleteDocument(d)
       \/ RestoreDocument(d)
       \/ RequeueDocumentExtraction(d)
  \/ \E w \in Workers :
       \/ ClaimDocumentExtractions(w)
       \/ \E k \in Versions :
            \/ FailDocumentExtraction(w, k)
            \/ BeginComplete(w, k)
            \/ BuildChunks(w, k)
            \/ CommitComplete(w, k)
            \/ DropItem(w, k)

Spec == Init /\ [][Next]_vars

-----------------------------------------------------------------------------
\* Every variable stays in its range.
TypeOK ==
  /\ owner    \in [Versions -> Docs \cup {None}]
  /\ current  \in [Docs -> Versions \cup {None}]
  /\ deleted  \subseteq Docs
  /\ status   \in [Versions -> Statuses]
  /\ attempts \in [Versions -> 0..MaxAttempts]
  /\ lockedBy \in [Versions -> Workers \cup {None}]
  /\ pages    \in [Versions -> SUBSET Pages]
  /\ chunks   \in [Versions -> SUBSET Pages]
  /\ stale    \subseteq Versions
  /\ batch    \in [Workers -> [Versions -> 0..MaxAttempts]]
  /\ open     \in [Workers -> {{}} \cup {{k} : k \in Versions}]
  /\ found    \in [Workers -> SUBSET Pages]
  /\ rest     \in [Workers -> SUBSET Pages]
  /\ built    \in [Workers -> SUBSET Pages]
  /\ outdated \in [Workers -> SUBSET Versions]
  /\ requests \in 0..MaxRequests

\* Retrieval never cites a page the stored text does not have, also after a
\* reprocessing that finds fewer pages or a completion that is rolled back.
ChunksWithinPages == \A k \in Versions : chunks[k] \subseteq pages[k]

\* What the queue makes of a wish for the text of a version.
WishOf(s) ==
  CASE s = "none" -> "none"
    [] s \in {"pending", "processing"} -> "wanted"
    [] s = "succeeded" -> "met"
    [] s \in {"failed", "unsupported"} -> "given up"

Promise == INSTANCE TextPromise WITH
  wish <- [k \in Versions |-> WishOf(status[k])], stored <- pages, indexed <- chunks

\* The queue keeps TextPromise: however late a worker is, text that was stored stays as
\* it is, and what was given up stays so, until the version is queued again; and
\* retrieval never cites a page the stored text does not have.
KeepsText == Promise!PromiseSpec

\* A reprocessing request is honoured: text stored after it never comes from a
\* provider call that was already running when it was made.
ReprocessIsHonoured == stale = {}

\* An extraction is given up only after max_attempts claims since it was last
\* queued, and a lease belongs to exactly the rows in processing.
GivesUpOnlyExhausted ==
  \A k \in Versions :
    /\ status[k] = "failed" => attempts[k] >= MaxAttempts
    /\ lockedBy[k] # None <=> status[k] = "processing"

\* "Successful extraction rebuilds version/page-aware chunks in the same
\* transaction" (docs/ocr.md:35): a document in the library whose extraction
\* succeeded has chunks for all its pages.
SuccessRebuildsChunks ==
  \A d \in Docs : Exists(d) /\ d \notin deleted /\ status[current[d]] = "succeeded" =>
    chunks[current[d]] = pages[current[d]]

=============================================================================
