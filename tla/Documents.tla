------------------------------ MODULE Documents ------------------------------
(***************************************************************************)
(* Documents, their immutable versions and the stored objects              *)
(* (internal/service/service.go, internal/repository/operations.go).       *)
(*                                                                         *)
(* An upload is a request that puts an object into the storage and then    *)
(* writes metadata in a transaction; the two stores share no transaction.  *)
(* An upload, the object it stores and the version row it may create share *)
(* one identity. What the extraction queue makes of a version is the       *)
(* subject of module Extraction.                                           *)
(***************************************************************************)
EXTENDS Integers, FiniteSets

CONSTANTS
  Docs,         \* identities of documents
  Uploads,      \* identities of upload requests
  None,         \* absent document or version
  MaxDeletions  \* bound: deletions of documents

ASSUME DocumentAssumptions ==
  /\ None \notin Docs /\ None \notin Uploads
  /\ IsFiniteSet(Uploads)
  /\ MaxDeletions \in Nat

VARIABLES
  stage,     \* where each upload request is
  target,    \* the document an upload is for
  objects,   \* keys present in the object storage
  drawn,     \* the version number the INSERT ... SELECT max+1 computed
  owner,     \* version rows: the document of each version, None without a row
  number,    \* version rows: version_number
  current,   \* documents.current_version_id, None before the document exists
  deleted,   \* documents with deleted_at set
  aside,     \* history: versions that were added to a document while it was deleted
  deletions  \* bound: how many deletions happened

upload == <<stage, target, objects, drawn>>
table  == <<owner, number, current, deleted, aside>>
vars   == <<upload, table, deletions>>

Stages   == {"new", "stored", "numbered", "cleanup", "done", "refused", "lost"}
InFlight == {"stored", "numbered", "cleanup"}

Exists(d)   == current[d] # None
Versions(d) == {k \in Uploads : owner[k] = d}
Numbers(d)  == {number[k] : k \in Versions(d)}

Init ==
  /\ stage     = [k \in Uploads |-> "new"]
  /\ target    = [k \in Uploads |-> None]
  /\ objects   = {}
  /\ drawn     = [k \in Uploads |-> 0]
  /\ owner     = [k \in Uploads |-> None]
  /\ number    = [k \in Uploads |-> 0]
  /\ current   = [d \in Docs |-> None]
  /\ deleted   = {}
  /\ aside     = {}
  /\ deletions = 0

-----------------------------------------------------------------------------
\* storeUpload for document d. Put may report a failure although the object is
\* there; a body that turns out too long is removed again after Put.
StoreUpload(k, d) ==
  /\ stage[k] = "new"
  /\ target' = [target EXCEPT ![k] = d]
  /\ \/ /\ objects' = objects \cup {k}
        /\ \E next \in {"stored", "cleanup"} : stage' = [stage EXCEPT ![k] = next]
     \/ /\ objects' \in {objects, objects \cup {k}}
        /\ stage' = [stage EXCEPT ![k] = "refused"]
  /\ UNCHANGED <<drawn, table, deletions>>

\* UploadDocument up to CreateDocument: the document gets a fresh identity.
UploadDocument(k, d) ==
  /\ ~Exists(d)
  /\ \A l \in Uploads : target[l] # d
  /\ StoreUpload(k, d)

\* AddVersion up to AddDocumentVersion: DocumentVersion finds a document that
\* is not deleted, then the file is stored.
AddVersion(k, d) ==
  /\ Exists(d) /\ d \notin deleted
  /\ StoreUpload(k, d)

\* The version number, drawn from the rows its statement sees: 1 for a new
\* document, COALESCE(max(version_number), 0) + 1 otherwise.
DrawNumber(k) ==
  /\ stage[k] = "stored"
  /\ \E n \in 1..(Cardinality(Uploads) + 1) :
       /\ \A m \in Numbers(target[k]) : m < n
       /\ n = 1 \/ n - 1 \in Numbers(target[k])
       /\ drawn' = [drawn EXCEPT ![k] = n]
  /\ stage' = [stage EXCEPT ![k] = "numbered"]
  /\ UNCHANGED <<target, objects, table, deletions>>

\* The row of the version.
InsertVersion(k) ==
  /\ owner'  = [owner EXCEPT ![k] = target[k]]
  /\ number' = [number EXCEPT ![k] = drawn[k]]

\* Variant: no UNIQUE (document_id, version_number).
DrawnIsAlwaysFree(k) == drawn[k] > 0

DrawnIsFree(k) == drawn[k] \notin Numbers(target[k])

\* Variants: a reply no handler knows; a refusal that goes unnoticed.
AnsweredOddly(k) == stage' = [stage EXCEPT ![k] = "accepted"]

RefusalIgnored(k) ==
  /\ stage[k] \in {"stored", "numbered"}
  /\ stage' = [stage EXCEPT ![k] = "done"]
  /\ UNCHANGED <<target, objects, drawn, table, deletions>>

\* The transaction commits; the request learns it, or gets an error instead
\* (broken connection, cancelled request) and goes on to delete the object.
Answered(k) ==
  \E next \in {"done", "cleanup"} : stage' = [stage EXCEPT ![k] = next]

\* CreateDocument: document, first version and pointer in one transaction.
CreateDocument(k) ==
  /\ stage[k] = "numbered"
  /\ ~Exists(target[k])
  /\ InsertVersion(k)
  /\ current' = [current EXCEPT ![target[k]] = k]
  /\ Answered(k)
  /\ UNCHANGED <<target, objects, drawn, deleted, aside, deletions>>

\* Variant: the first version added stays the current one.
MovesOnce(k)    == target[k] \notin deleted /\ drawn[k] < 3
MovesPointer(k) == target[k] \notin deleted

\* AddDocumentVersion: the pointer moves only if the document is not deleted,
\* and nobody looks at how many rows that UPDATE changed.
AddDocumentVersion(k) ==
  /\ stage[k] = "numbered"
  /\ Exists(target[k])
  /\ DrawnIsFree(k)
  /\ InsertVersion(k)
  /\ current' = [current EXCEPT ![target[k]] = IF MovesPointer(k) THEN k ELSE @]
  /\ aside'   = IF target[k] \in deleted THEN aside \cup {k} ELSE aside
  /\ Answered(k)
  /\ UNCHANGED <<target, objects, drawn, deleted, deletions>>

\* The transaction fails, for one because a concurrent version took the number.
RefuseVersion(k) ==
  /\ stage[k] \in {"stored", "numbered"}
  /\ stage' = [stage EXCEPT ![k] = "cleanup"]
  /\ UNCHANGED <<target, objects, drawn, table, deletions>>

\* Storage.Delete after an error; its own error is ignored.
RemoveObject(k) ==
  /\ stage[k] = "cleanup"
  /\ objects' \in {objects, objects \ {k}}
  /\ stage' = [stage EXCEPT ![k] = "refused"]
  /\ UNCHANGED <<target, drawn, table, deletions>>

\* The process dies with the request.
LoseUpload(k) ==
  /\ stage[k] \in InFlight
  /\ stage' = [stage EXCEPT ![k] = "lost"]
  /\ UNCHANGED <<target, objects, drawn, table, deletions>>

-----------------------------------------------------------------------------
\* Requests on documents.

SoftDeleteDocument(d) ==
  /\ deletions < MaxDeletions
  /\ Exists(d) /\ d \notin deleted
  /\ deleted'   = deleted \cup {d}
  /\ deletions' = deletions + 1
  /\ UNCHANGED <<upload, owner, number, current, aside>>

RestoreDocument(d) ==
  /\ d \in deleted
  /\ deleted' = deleted \ {d}
  /\ UNCHANGED <<upload, owner, number, current, aside, deletions>>

-----------------------------------------------------------------------------
Next ==
  \/ \E k \in Uploads :
       \/ \E d \in Docs : UploadDocument(k, d) \/ AddVersion(k, d)
       \/ DrawNumber(k)
       \/ CreateDocument(k)
       \/ AddDocumentVersion(k)
       \/ RefuseVersion(k)
       \/ RemoveObject(k)
       \/ LoseUpload(k)
  \/ \E d \in Docs : SoftDeleteDocument(d) \/ RestoreDocument(d)

Spec == Init /\ [][Next]_vars

-----------------------------------------------------------------------------
\* Every variable stays in its range.
TypeOK ==
  /\ stage     \in [Uploads -> Stages]
  /\ target    \in [Uploads -> Docs \cup {None}]
  /\ objects   \subseteq Uploads
  /\ drawn     \in [Uploads -> Nat]
  /\ owner     \in [Uploads -> Docs \cup {None}]
  /\ number    \in [Uploads -> Nat]
  /\ current   \in [Docs -> Uploads \cup {None}]
  /\ deleted   \subseteq Docs /\ aside \subseteq Uploads
  /\ deletions \in 0..MaxDeletions

\* An upload that was answered with success has its row and its object, and a
\* row without its object belongs to a request that was told it failed: no
\* mix of lost answers, failed deletions and crashes eats a reported version.
AcknowledgedIsReadable ==
  \A k \in Uploads :
    /\ stage[k] = "done" => owner[k] = target[k] /\ k \in objects
    /\ owner[k] # None /\ k \notin objects => stage[k] = "refused"

\* Concurrent additions leave the versions of a document numbered 1, 2, 3, ...
\* without a gap or a duplicate: "select max, insert max + 1" needs the
\* UNIQUE constraint for that.
VersionsAreNumbered ==
  \A d \in Docs : /\ Numbers(d) = 1..Cardinality(Versions(d))
                  /\ Exists(d) => owner[current[d]] = d

\* The current version is the newest one, but for versions that were added while
\* the document was deleted: a request that found it before succeeds, and its
\* version stays aside when the document is restored.
NewestIsCurrent ==
  \A k \in Uploads \ aside :
    owner[k] # None => number[k] <= number[current[owner[k]]]

\* The history of a document: its versions in the order of their numbers.
HistoryOf(d) ==
  [n \in 1..Cardinality(Versions(d)) |-> CHOOSE k \in Versions(d) : number[k] = n]

Promise == INSTANCE VersionHistory WITH
  history <- [d \in Docs |-> HistoryOf(d)], shown <- current, hidden <- deleted

\* However the requests overlap, fail and are cut off, the rows implement a history per
\* document that only grows at its end, and the pointer is at the version added last
\* while the document was not deleted.
KeepsHistory == Promise!HistorySpec
=============================================================================
