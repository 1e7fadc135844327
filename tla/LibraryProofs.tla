---------------------------- MODULE LibraryProofs -----------------------------
(***************************************************************************)
(* What a firm keeps: theorems about Documents, Embedding, Workflows and   *)
(* Pages, for any number of documents, uploads, chunks, workers and edits, *)
(* and for pages of any length; and about their composition.               *)
(*                                                                         *)
(* Documents: what was acknowledged is there, versions are numbered without*)
(* a gap, and the current one is the newest. The invariant DInv follows an *)
(* upload from its object to its row, and a drawn number from the rows it  *)
(* was drawn from: it may be taken meanwhile, but never leaves a gap. By   *)
(* it, every step is one of VersionHistory or goes unseen there.           *)
(*                                                                         *)
(* Embedding: no chunk without an embedding is ever given up. EInv is about*)
(* the fence: whoever holds a chunk and has it in hand has the attempts the*)
(* row has, and that is one as long as there is no embedding.              *)
(*                                                                         *)
(* Workflows: the stages of a workflow are one list. WInv says that at most*)
(* one open edit has deleted the list there is, that at most one is writing*)
(* another, and that what an open edit has not seen was committed since.   *)
(*                                                                         *)
(* Pages: short passages are whole in one piece. PInv says of every turn   *)
(* of the loop that a passage is in a piece already or lies ahead of start,*)
(* and that the pieces so far are behind it but for the overlap.           *)
(***************************************************************************)
EXTENDS MCLibrary, FiniteSetTheorems, WellFoundedInduction, TLAPS

-----------------------------------------------------------------------------
\* Documents.

\* A request under way, answered or lost has its object; a row belongs to one that
\* got as far as its transaction, and is answered with success if anything is.
Stored ==
  \A k \in Uploads :
    /\ stage[k] \in {"stored", "numbered", "cleanup", "done", "lost"} => k \in objects
    /\ stage[k] # "new" => target[k] \in Docs
    /\ owner[k] # None => owner[k] = target[k] /\ stage[k] \in {"done", "cleanup", "refused", "lost"}
    /\ stage[k] = "done" => owner[k] # None

\* A document exists exactly if it has a version, and its pointer leads to one.
Pointed ==
  /\ \A k \in Uploads : owner[k] # None => Exists(owner[k])
  /\ \A d \in Docs : Exists(d) => owner[current[d]] = d

\* A drawn number continues the rows there are.
Drawn ==
  \A k \in Uploads :
    stage[k] = "numbered" => drawn[k] = 1 \/ (drawn[k] > 1 /\ drawn[k] - 1 \in Numbers(target[k]))

\* The numbers of a document begin with one and have no gap.
Gapless == \A d \in Docs : \E m \in Nat : Numbers(d) = 1..m

\* No number is given twice.
Distinct ==
  \A k, l \in Uploads : owner[k] # None /\ owner[k] = owner[l] /\ number[k] = number[l] => k = l

Numbered == Drawn /\ Gapless /\ Distinct /\ NewestIsCurrent

DInv == TypeOK /\ Stored /\ Pointed /\ Numbered

\* The initial states satisfy the invariant.
LEMMA InitDInv == Init => DInv
<1> SUFFICES ASSUME Init PROVE DInv
  OBVIOUS
<1> USE DocumentAssumptions DEF Init
<1>1. TypeOK /\ Stored
  BY DEF TypeOK, Stages, Stored
<1>2. \A d \in Docs : Numbers(d) = 1..0
  BY DEF Numbers, Versions
<1>3. Pointed /\ Numbered
  BY <1>2 DEF Pointed, Exists, Numbered, Drawn, Gapless, Distinct, NewestIsCurrent
<1> QED
  BY <1>1, <1>3 DEF DInv

\* Steps that insert no row.
LEMMA NumbersStay ==
  ASSUME Pointed, Numbered,
         UNCHANGED <<owner, number, current, aside>>,
         \A k \in Uploads : stage'[k] = "numbered" =>
            stage[k] = "numbered" /\ drawn'[k] = drawn[k] /\ target'[k] = target[k]
  PROVE  Pointed' /\ Numbered'
<1>1. \A d : Numbers(d)' = Numbers(d)
  BY DEF Numbers, Versions
<1>2. Drawn'
  BY <1>1 DEF Numbered, Drawn, Numbers, Versions
<1> QED
  BY <1>1, <1>2 DEF Pointed, Exists, Numbered, Gapless, Distinct, NewestIsCurrent

\* An upload is stored.
LEMMA StoreKeepsDInv ==
  ASSUME DInv, NEW k \in Uploads, NEW d \in Docs, StoreUpload(k, d)
  PROVE  DInv'
<1> USE DocumentAssumptions DEF DInv, table
<1>1. /\ stage[k] = "new" /\ target' = [target EXCEPT ![k] = d]
      /\ objects \subseteq objects' /\ objects' \subseteq objects \cup {k}
      /\ \E next \in {"stored", "cleanup", "refused"} :
            stage' = [stage EXCEPT ![k] = next] /\ (next # "refused" => k \in objects')
      /\ UNCHANGED <<drawn, owner, number, current, deleted, aside, deletions>>
  BY DEF StoreUpload
<1>2. owner[k] = None
  BY <1>1 DEF Stored
<1>3. TypeOK'
  BY <1>1 DEF TypeOK, Stages
<1>4. Stored'
  BY <1>1, <1>2 DEF Stored, TypeOK
<1>5. Pointed' /\ Numbered'
  BY <1>1, NumbersStay DEF TypeOK
<1> QED
  BY <1>3, <1>4, <1>5

\* A number is drawn.
LEMMA DrawKeepsDInv ==
  ASSUME DInv, NEW k \in Uploads, DrawNumber(k)
  PROVE  DInv'
<1> USE DocumentAssumptions DEF DInv, table
<1>1. Cardinality(Uploads) \in Nat
  BY FS_CardinalityType
<1>2. PICK n \in 1..(Cardinality(Uploads) + 1) :
        /\ n = 1 \/ n - 1 \in Numbers(target[k])
        /\ drawn' = [drawn EXCEPT ![k] = n]
  BY DEF DrawNumber
<1>3. /\ stage[k] = "stored" /\ stage' = [stage EXCEPT ![k] = "numbered"]
      /\ UNCHANGED <<target, objects, owner, number, current, deleted, aside, deletions>>
  BY DEF DrawNumber
<1>4. n \in Nat /\ n >= 1
  BY <1>1, <1>2
<1>5. TypeOK'
  BY <1>2, <1>3, <1>4 DEF TypeOK, Stages
<1>6. Stored'
  BY <1>3 DEF Stored, TypeOK
<1>7. \A d : Numbers(d)' = Numbers(d)
  BY <1>3 DEF Numbers, Versions
<1>8. Drawn'
  <2> SUFFICES ASSUME NEW l \in Uploads, stage'[l] = "numbered"
               PROVE  drawn'[l] = 1 \/ (drawn'[l] > 1 /\ drawn'[l] - 1 \in Numbers(target[l]))
    BY <1>3, <1>7 DEF Drawn, Numbers, Versions
  <2>1. CASE l = k
    BY <1>2, <1>4, <2>1 DEF TypeOK
  <2>2. CASE l # k
    BY <1>2, <1>3, <2>2 DEF TypeOK, Numbered, Drawn
  <2> QED
    BY <2>1, <2>2
<1>9. Pointed' /\ Gapless' /\ Distinct' /\ NewestIsCurrent'
  BY <1>3, <1>7 DEF Pointed, Exists, Numbered, Gapless, Distinct, NewestIsCurrent
<1> QED
  BY <1>5, <1>6, <1>8, <1>9 DEF Numbered

\* A row is inserted, under the next number of its document.
LEMMA InsertKeepsDInv ==
  ASSUME DInv, NEW k \in Uploads, CreateDocument(k) \/ AddDocumentVersion(k)
  PROVE  DInv'
<1> USE DocumentAssumptions DEF DInv
<1> DEFINE d == target[k]
<1>1. /\ stage[k] = "numbered"
      /\ owner' = [owner EXCEPT ![k] = d] /\ number' = [number EXCEPT ![k] = drawn[k]]
      /\ \E next \in {"done", "cleanup"} : stage' = [stage EXCEPT ![k] = next]
      /\ UNCHANGED <<target, objects, drawn, deleted, deletions>>
  BY DEF CreateDocument, AddDocumentVersion, InsertVersion, Answered
<1>2. d \in Docs /\ owner[k] = None /\ k \in objects
  BY <1>1 DEF Stored
<1>3. PICK m \in Nat : Numbers(d) = 1..m
  BY <1>2 DEF Numbered, Gapless
<1>4. drawn[k] = m + 1
  <2>1. drawn[k] = 1 \/ (drawn[k] > 1 /\ drawn[k] - 1 \in 1..m)
    BY <1>1, <1>3 DEF Numbered, Drawn
  <2>2. drawn[k] \in Nat
    BY DEF TypeOK
  <2>3. drawn[k] \notin 1..m
    <3>1. CASE CreateDocument(k)
      <4>1. Numbers(d) = {}
        BY <1>2, <3>1 DEF CreateDocument, Pointed, Numbers, Versions
      <4> QED
        BY <1>3, <4>1
    <3>2. CASE AddDocumentVersion(k)
      BY <1>3, <3>2 DEF AddDocumentVersion, DrawnIsFree
    <3> QED
      BY <3>1, <3>2
  <2> QED
    BY <2>1, <2>2, <2>3
<1>5. /\ Versions(d)' = Versions(d) \cup {k}
      /\ \A e \in Docs \ {d} : Versions(e)' = Versions(e)
      /\ \A e \in Docs : \A l \in Versions(e) : l # k /\ number'[l] = number[l]
  BY <1>1, <1>2 DEF TypeOK, Versions
<1>6. number'[k] = m + 1
  BY <1>1, <1>4 DEF TypeOK
<1>7. Numbers(d)' = 1..(m + 1)
  <2>1. Numbers(d)' = Numbers(d) \cup {m + 1}
    BY <1>2, <1>5, <1>6 DEF Numbers
  <2> QED
    BY <1>3, <2>1
<1>8. \A e \in Docs \ {d} : Numbers(e)' = Numbers(e)
  BY <1>5 DEF Numbers
<1>9. /\ \A e \in Docs \ {d} : current'[e] = current[e]
      /\ current'[d] \in {k, current[d]} /\ (Exists(d) \/ current'[d] = k)
      /\ current' \in [Docs -> Uploads \cup {None}]
      /\ aside \subseteq aside' /\ aside' \subseteq Uploads
      /\ k \in aside' \/ current'[d] = k
  BY <1>2 DEF CreateDocument, AddDocumentVersion, MovesPointer, TypeOK
<1>10. TypeOK'
  <2>1. number' \in [Uploads -> Nat] /\ owner' \in [Uploads -> Docs \cup {None}]
    BY <1>1, <1>2 DEF TypeOK
  <2> QED
    BY <1>1, <1>9, <2>1 DEF TypeOK, Stages
<1>11. Stored'
  BY <1>1, <1>2 DEF Stored, TypeOK
<1>12. Pointed'
  <2>1. current'[d] # None /\ \A e \in Docs \ {d} : current'[e] = current[e]
    BY <1>2, <1>9 DEF Exists
  <2>2. \A e \in Docs : current[e] # None => current'[e] # None
    BY <2>1
  <2>3. ASSUME NEW e \in Docs, current'[e] # None PROVE owner'[current'[e]] = e
    <3>1. CASE current'[e] = k /\ e = d
      BY <1>1, <3>1 DEF TypeOK
    <3>2. CASE current'[e] = current[e] /\ Exists(e)
      <4>1. owner[current[e]] = e /\ current[e] \in Uploads /\ current[e] # k
        BY <1>2, <3>2 DEF Pointed, Exists, TypeOK
      <4> QED
        BY <1>1, <3>2, <4>1 DEF TypeOK
    <3> QED
      BY <1>9, <2>1, <2>3, <3>1, <3>2 DEF Exists
  <2>4. ASSUME NEW l \in Uploads, owner'[l] # None PROVE current'[owner'[l]] # None
    <3>1. CASE l = k
      BY <1>1, <2>1, <3>1 DEF TypeOK
    <3>2. CASE l # k
      BY <1>1, <2>2, <2>4, <3>2 DEF Pointed, Exists, TypeOK
    <3> QED
      BY <3>1, <3>2
  <2> QED
    BY <2>3, <2>4 DEF Pointed, Exists
<1>13. Drawn'
  <2> SUFFICES ASSUME NEW l \in Uploads, stage'[l] = "numbered"
               PROVE  (drawn[l] = 1 \/ (drawn[l] > 1 /\ drawn[l] - 1 \in Numbers(target[l])))'
    BY DEF Drawn
  <2>1. stage[l] = "numbered" /\ target[l] \in Docs
    BY <1>1 DEF TypeOK, Stored
  <2>2. Numbers(target[l]) \subseteq Numbers(target[l])'
    <3>1. CASE target[l] = d
      BY <1>1, <1>3, <1>7, <3>1 DEF Numbers
    <3>2. CASE target[l] # d
      BY <1>1, <1>8, <2>1, <3>2
    <3> QED
      BY <3>1, <3>2
  <2> QED
    BY <1>1, <2>1, <2>2 DEF Numbered, Drawn
<1>14. Gapless'
  <2> SUFFICES ASSUME NEW e \in Docs PROVE \E n \in Nat : Numbers(e)' = 1..n
    BY DEF Gapless
  <2>1. CASE e = d
    <3>1. Numbers(e)' = 1..(m + 1)
      BY <1>1, <1>7, <2>1 DEF Numbers, Versions
    <3> QED
      BY <3>1
  <2>2. CASE e # d
    BY <1>8, <2>2 DEF Numbered, Gapless
  <2> QED
    BY <2>1, <2>2
<1>15. Distinct'
  <2>1. \A l \in Versions(d) : number[l] \in 1..m
    BY <1>3 DEF Numbers
  <2> QED
    BY <1>1, <1>2, <1>6, <2>1 DEF Numbered, Distinct, Versions, TypeOK
<1>16. NewestIsCurrent'
  <2> SUFFICES ASSUME NEW l \in Uploads \ aside', owner'[l] # None
               PROVE  number'[l] <= number'[current'[owner'[l]]]
    BY DEF NewestIsCurrent
  <2>1. \A j \in Versions(d) : number[j] \in 1..m
    BY <1>3 DEF Numbers
  <2>2. CASE owner'[l] = d /\ current'[d] = k
    <3>1. l = k \/ number'[l] \in 1..m
      BY <1>1, <2>1, <2>2 DEF TypeOK, Versions
    <3> QED
      BY <1>6, <2>2, <3>1
  <2>3. CASE owner'[l] # d \/ current'[d] # k
    <3>1. l # k /\ owner'[l] = owner[l] /\ number'[l] = number[l] /\ l \notin aside
      BY <1>1, <1>9, <2>3 DEF TypeOK
    <3>2. owner[l] \in Docs /\ Exists(owner[l]) /\ current'[owner[l]] = current[owner[l]]
      BY <1>9, <2>3, <3>1 DEF TypeOK, Pointed
    <3>3. owner[current[owner[l]]] = owner[l] /\ current[owner[l]] \in Uploads
      BY <3>2 DEF Pointed, Exists, TypeOK
    <3>4. current[owner[l]] # k
      BY <1>2, <3>2, <3>3
    <3>5. number'[current[owner[l]]] = number[current[owner[l]]]
      BY <1>1, <3>3, <3>4 DEF TypeOK
    <3> QED
      BY <3>1, <3>2, <3>5 DEF Numbered, NewestIsCurrent
  <2> QED
    BY <2>2, <2>3
<1> QED
  BY <1>10, <1>11, <1>12, <1>13, <1>14, <1>15, <1>16 DEF Numbered

\* A request fails, cleans up or is lost.
LEMMA EndKeepsDInv ==
  ASSUME DInv, NEW k \in Uploads, RefuseVersion(k) \/ RemoveObject(k) \/ LoseUpload(k)
  PROVE  DInv'
<1> USE DEF DInv, table
<1>1. /\ \E next \in {"cleanup", "refused", "lost"} :
            /\ stage' = [stage EXCEPT ![k] = next]
            /\ next = "refused" \/ (stage[k] \in InFlight /\ objects' = objects)
      /\ stage[k] \in InFlight
      /\ objects' \subseteq objects /\ objects \ {k} \subseteq objects'
      /\ UNCHANGED <<target, drawn, owner, number, current, deleted, aside, deletions>>
  BY DEF RefuseVersion, RemoveObject, LoseUpload, InFlight
<1>2. TypeOK'
  BY <1>1 DEF TypeOK, Stages
<1>3. Stored'
  BY <1>1 DEF Stored, TypeOK, InFlight
<1>4. Pointed' /\ Numbered'
  BY <1>1, NumbersStay DEF TypeOK
<1> QED
  BY <1>2, <1>3, <1>4

\* A document is deleted or restored.
LEMMA RequestKeepsDInv ==
  ASSUME DInv, NEW d \in Docs, SoftDeleteDocument(d) \/ RestoreDocument(d)
  PROVE  DInv'
<1> USE DocumentAssumptions DEF DInv, upload
<1>1. /\ deleted' \subseteq Docs /\ deletions' \in 0..MaxDeletions
      /\ UNCHANGED <<stage, target, objects, drawn, owner, number, current, aside>>
  BY DEF SoftDeleteDocument, RestoreDocument, TypeOK
<1>2. TypeOK' /\ Stored'
  BY <1>1 DEF TypeOK, Stored
<1>3. Pointed' /\ Numbered'
  BY <1>1, NumbersStay
<1> QED
  BY <1>2, <1>3

\* Every step preserves the invariant.
LEMMA NextDInv == DInv /\ [Next]_vars => DInv'
<1> SUFFICES ASSUME DInv, [Next]_vars PROVE DInv'
  OBVIOUS
<1>1. CASE UNCHANGED vars
  <2>1. UNCHANGED <<stage, target, objects, drawn, owner, number, current, deleted, aside, deletions>>
    BY <1>1 DEF vars, upload, table
  <2>2. Pointed' /\ Numbered'
    BY <2>1, NumbersStay DEF DInv
  <2> QED
    BY <2>1, <2>2 DEF DInv, TypeOK, Stored
<1>2. ASSUME NEW k \in Uploads, NEW d \in Docs, UploadDocument(k, d) \/ AddVersion(k, d) PROVE DInv'
  BY <1>2, StoreKeepsDInv DEF UploadDocument, AddVersion
<1> QED
  BY <1>1, <1>2, DrawKeepsDInv, InsertKeepsDInv, EndKeepsDInv, RequestKeepsDInv DEF Next

\* The invariant says what the properties do.
LEMMA DInvImpliesNumbered == DInv => VersionsAreNumbered
<1> SUFFICES ASSUME DInv, NEW d \in Docs
             PROVE  /\ Numbers(d) = 1..Cardinality(Versions(d))
                    /\ Exists(d) => owner[current[d]] = d
  BY DEF VersionsAreNumbered
<1> USE DocumentAssumptions DEF DInv
<1>1. PICK m \in Nat : Numbers(d) = 1..m
  BY DEF Numbered, Gapless
<1> DEFINE f == [k \in Versions(d) |-> number[k]]
<1>2. f \in [Versions(d) -> 1..m] /\ \A n \in 1..m : \E k \in Versions(d) : f[k] = n
  BY <1>1 DEF Numbers
<1>3. \A k, l \in Versions(d) : f[k] = f[l] => k = l
  BY DEF Numbered, Distinct, Versions
<1>4. f \in Surjection(Versions(d), 1..m)
  BY <1>2 DEF Surjection
<1>5. f \in Injection(Versions(d), 1..m)
  BY <1>2, <1>3 DEF Injection, IsInjective
<1>6. IsFiniteSet(Versions(d))
  BY FS_Subset DEF Versions
<1>7. Cardinality(1..m) = Cardinality(Versions(d))
  <2>1. IsFiniteSet(1..m)
    BY FS_Interval
  <2> QED
    BY <1>4, <1>5, <1>6, <2>1, FS_Injection
<1>8. Cardinality(1..m) = m
  BY FS_Interval
<1> QED
  BY <1>1, <1>7, <1>8 DEF Pointed

\* The invariant holds in every behaviour.
LEMMA DInvHolds == Spec => []DInv
<1> QED
  BY InitDInv, NextDInv, PTL DEF Spec

\* Every variable of Documents stays in its type.
THEOREM DocumentTypes == Spec => []TypeOK
<1>1. DInv => TypeOK
  BY DEF DInv
<1> QED
  BY <1>1, DInvHolds, PTL

\* UploadDocument and AddVersion (service.go): a version reported as stored is there,
\* and a row without its object belongs to a request that was told it failed.
THEOREM AcknowledgedIsThere == Spec => []AcknowledgedIsReadable
<1>1. DInv => AcknowledgedIsReadable
  BY DEF DInv, Stored, TypeOK, Stages, AcknowledgedIsReadable
<1> QED
  BY <1>1, DInvHolds, PTL

\* AddDocumentVersion (operations.go): concurrent additions leave the versions of a
\* document numbered without a gap or a duplicate.
THEOREM NumberedWithoutGap == Spec => []VersionsAreNumbered
<1> QED
  BY DInvImpliesNumbered, DInvHolds, PTL

\* AddDocumentVersion (operations.go): the current version is the newest, but for those
\* added while the document was deleted.
THEOREM CurrentIsNewest == Spec => []NewestIsCurrent
<1>1. DInv => NewestIsCurrent
  BY DEF DInv, Numbered
<1> QED
  BY <1>1, DInvHolds, PTL

-----------------------------------------------------------------------------
\* Documents implement VersionHistory.

DeletedExist == \A d \in deleted : Exists(d)

\* Only a document with a version is ever deleted.
LEMMA InitDeletedExist == Init => DeletedExist
BY DEF Init, DeletedExist

LEMMA NextDeletedExist == DInv /\ DeletedExist /\ [Next]_vars => DeletedExist'
<1> SUFFICES ASSUME DInv, DeletedExist, [Next]_vars PROVE DeletedExist'
  OBVIOUS
<1> USE DocumentAssumptions
<1>1. CASE UNCHANGED <<current, deleted>>
  BY <1>1 DEF DeletedExist, Exists
<1>2. ASSUME NEW k \in Uploads, CreateDocument(k) \/ AddDocumentVersion(k) PROVE DeletedExist'
  BY <1>2 DEF CreateDocument, AddDocumentVersion, DInv, TypeOK, DeletedExist, Exists
<1>3. ASSUME NEW d \in Docs, SoftDeleteDocument(d) \/ RestoreDocument(d) PROVE DeletedExist'
  BY <1>3 DEF SoftDeleteDocument, RestoreDocument, upload, DeletedExist, Exists
<1>4. \/ UNCHANGED <<current, deleted>>
      \/ \E k \in Uploads : CreateDocument(k) \/ AddDocumentVersion(k)
      \/ \E d \in Docs : SoftDeleteDocument(d) \/ RestoreDocument(d)
  BY DEF Next, UploadDocument, AddVersion, StoreUpload, DrawNumber, RefuseVersion, RemoveObject,
         LoseUpload, vars, upload, table
<1> QED
  BY <1>1, <1>2, <1>3, <1>4

\* The n-th version of a document is the one numbered n.
InOrder(d) ==
  /\ Cardinality(Versions(d)) \in Nat
  /\ \A n \in 1..Cardinality(Versions(d)) :
       /\ HistoryOf(d)[n] \in Versions(d) /\ number[HistoryOf(d)[n]] = n
       /\ \A k \in Versions(d) : number[k] = n => k = HistoryOf(d)[n]

AllInOrder == \A d \in Docs : InOrder(d)

LEMMA NthVersion == DInv => AllInOrder
<1> SUFFICES ASSUME DInv, NEW d \in Docs PROVE InOrder(d)
  BY DEF AllInOrder
<1>1. IsFiniteSet(Versions(d))
  BY DocumentAssumptions, FS_Subset DEF Versions
<1>2. Cardinality(Versions(d)) \in Nat
  BY <1>1, FS_CardinalityType
<1>3. Numbers(d) = 1..Cardinality(Versions(d))
  BY DInvImpliesNumbered DEF VersionsAreNumbered
<1>4. ASSUME NEW n \in 1..Cardinality(Versions(d))
      PROVE  HistoryOf(d)[n] \in Versions(d) /\ number[HistoryOf(d)[n]] = n
  <2>1. \E k \in Versions(d) : number[k] = n
    BY <1>3 DEF Numbers
  <2>2. HistoryOf(d)[n] = CHOOSE k \in Versions(d) : number[k] = n
    BY DEF HistoryOf
  <2> QED
    BY <2>1, <2>2
<1>5. \A k, l \in Versions(d) : number[k] = number[l] => k = l
  BY DocumentAssumptions DEF DInv, Numbered, Distinct, Versions
<1> QED
  BY <1>2, <1>4, <1>5 DEF InOrder

\* What leaves the rows alone leaves the histories alone.
LEMMA HistoryStays ==
  ASSUME UNCHANGED <<owner, number>>
  PROVE  \A d : HistoryOf(d)' = HistoryOf(d)
BY DEF HistoryOf, Versions

\* An inserted row ends the history of its document, and no other changes.
LEMMA HistoryGrows ==
  ASSUME DInv, DInv', NEW k \in Uploads, CreateDocument(k) \/ AddDocumentVersion(k),
         NEW d \in Docs
  PROVE  HistoryOf(d)' = IF d = target[k] THEN Append(HistoryOf(d), k) ELSE HistoryOf(d)
<1> USE DocumentAssumptions
<1>1. /\ stage[k] = "numbered"
      /\ owner' = [owner EXCEPT ![k] = target[k]] /\ number' = [number EXCEPT ![k] = drawn[k]]
  BY DEF CreateDocument, AddDocumentVersion, InsertVersion
<1>2. target[k] \in Docs /\ owner[k] = None
  BY <1>1 DEF DInv, Stored
<1>3. /\ Versions(d)' = IF d = target[k] THEN Versions(d) \cup {k} ELSE Versions(d)
      /\ k \notin Versions(d) /\ \A l \in Versions(d) : number'[l] = number[l]
  BY <1>1, <1>2 DEF DInv, TypeOK, Versions
<1> DEFINE m == Cardinality(Versions(d))
<1>4. CASE d # target[k]
  <2>1. Versions(d)' = Versions(d) /\ \A l \in Versions(d) : number'[l] = number[l]
    BY <1>3, <1>4
  <2>2. \A n \in 1..m : (CHOOSE l \in Versions(d) : number'[l] = n) = (CHOOSE l \in Versions(d) : number[l] = n)
    BY <2>1
  <2> QED
    BY <1>4, <2>1, <2>2 DEF HistoryOf
<1>5. CASE d = target[k]
  <2> DEFINE old == HistoryOf(d)
             new == HistoryOf(d)'
  <2>1. IsFiniteSet(Versions(d)) /\ m \in Nat
    BY FS_Subset, FS_CardinalityType DEF Versions
  <2>2. Cardinality(Versions(d))' = m + 1
    BY <1>3, <1>5, <2>1, FS_AddElement
  <2>3. /\ \A n \in 1..m :
             /\ old[n] \in Versions(d) /\ number[old[n]] = n
             /\ \A l \in Versions(d) : number[l] = n => l = old[n]
    BY NthVersion DEF AllInOrder, InOrder
  <2>4. \A n \in 1..(m + 1) :
          /\ new[n] \in Versions(d)' /\ number'[new[n]] = n
          /\ \A l \in Versions(d)' : number'[l] = n => l = new[n]
    <3>1. AllInOrder'
      BY NthVersion, PTL
    <3> QED
      BY <2>2, <3>1 DEF AllInOrder, InOrder
  <2>5. old = [n \in 1..m |-> old[n]] /\ new = [n \in 1..(m + 1) |-> new[n]]
    BY <2>2 DEF HistoryOf
  <2> HIDE DEF old, new, m
  <2>6. \A n \in 1..m : new[n] = old[n]
    <3> TAKE n \in 1..m
    <3>1. old[n] \in Versions(d)' /\ number'[old[n]] = n
      BY <1>3, <1>5, <2>3
    <3> QED
      BY <2>1, <2>4, <3>1
  <2>7. new[m + 1] = k
    <3>1. new[m + 1] \in Versions(d) \cup {k} /\ number'[new[m + 1]] = m + 1
      BY <1>3, <1>5, <2>1, <2>4
    <3>2. CASE new[m + 1] \in Versions(d)
      <4>1. number[new[m + 1]] = m + 1
        BY <1>3, <3>1, <3>2
      <4>2. number[new[m + 1]] \in Numbers(d)
        BY <3>2 DEF Numbers
      <4>3. Numbers(d) = 1..m
        BY DInvImpliesNumbered DEF VersionsAreNumbered, m
      <4> QED
        BY <2>1, <4>1, <4>2, <4>3
    <3> QED
      BY <3>1, <3>2
  <2>8. new = Append(old, k)
    <3>1. Len(old) = m
      BY <2>1, <2>5
    <3>2. Append(old, k) = [n \in 1..(m + 1) |-> IF n = m + 1 THEN k ELSE old[n]]
      BY <2>1, <2>5, <3>1
    <3>3. \A n \in 1..(m + 1) : new[n] = IF n = m + 1 THEN k ELSE old[n]
      BY <2>1, <2>6, <2>7
    <3> QED
      BY <2>5, <3>2, <3>3
  <2> QED
    BY <1>5, <2>8 DEF old, new
<1> QED
  BY <1>4, <1>5

\* A step that inserts nothing and shows, hides or reveals nothing is not seen.
LEMMA QuietIsUnseen ==
  ASSUME UNCHANGED <<owner, number, current, deleted>>
  PROVE  UNCHANGED Promise!historyVars
BY HistoryStays DEF Promise!historyVars

\* An inserted row extends the history of its document.
LEMMA InsertExtends ==
  ASSUME DInv, DInv', DeletedExist,
         NEW k \in Uploads, CreateDocument(k) \/ AddDocumentVersion(k)
  PROVE  target[k] \in Docs /\ Promise!Extend(target[k], k)
<1> USE DocumentAssumptions
<1> DEFINE d == target[k]
<1>1. d \in Docs /\ owner[k] = None
  BY DEF CreateDocument, AddDocumentVersion, DInv, Stored
<1>2. k \notin Promise!Recorded
  <2> SUFFICES ASSUME NEW e \in Docs, NEW n \in DOMAIN HistoryOf(e), HistoryOf(e)[n] = k
               PROVE  FALSE
    BY DEF Promise!Recorded
  <2>1. n \in 1..Cardinality(Versions(e))
    BY DEF HistoryOf
  <2>2. HistoryOf(e)[n] \in Versions(e)
    BY <2>1, NthVersion DEF AllInOrder, InOrder
  <2> QED
    BY <1>1, <2>2 DEF Versions
<1>3. [e \in Docs |-> HistoryOf(e)]' =
        [[e \in Docs |-> HistoryOf(e)] EXCEPT ![d] = Append(@, k)]
  <2>1. \A e \in Docs : HistoryOf(e)' = IF e = d THEN Append(HistoryOf(e), k) ELSE HistoryOf(e)
    BY HistoryGrows
  <2> QED
    BY <1>1, <2>1
<1>4. current' = [current EXCEPT ![d] = IF d \in deleted THEN @ ELSE k]
  BY <1>1 DEF CreateDocument, AddDocumentVersion, MovesPointer, DeletedExist, DInv, TypeOK
<1>5. deleted' = deleted
  BY DEF CreateDocument, AddDocumentVersion
<1> QED
  BY <1>1, <1>2, <1>3, <1>4, <1>5 DEF Promise!Extend

\* Deleting a document hides it, and restoring it reveals it.
LEMMA RequestHides ==
  ASSUME NEW d \in Docs, SoftDeleteDocument(d) \/ RestoreDocument(d)
  PROVE  Promise!Hide(d) \/ Promise!Reveal(d)
<1>1. UNCHANGED <<owner, number, current>>
  BY DEF SoftDeleteDocument, RestoreDocument, upload
<1>2. [e \in Docs |-> HistoryOf(e)]' = [e \in Docs |-> HistoryOf(e)]
  BY <1>1, HistoryStays
<1> QED
  BY <1>1, <1>2 DEF SoftDeleteDocument, RestoreDocument, Exists, Promise!Hide, Promise!Reveal

\* Every step is a step of the histories, or none.
LEMMA StepOfHistories ==
  DInv /\ DInv' /\ DeletedExist /\ [Next]_vars => [Promise!HistoryNext]_(Promise!historyVars)
<1> SUFFICES ASSUME DInv, DInv', DeletedExist, [Next]_vars
             PROVE  Promise!HistoryNext \/ UNCHANGED Promise!historyVars
  OBVIOUS
<1>1. CASE UNCHANGED <<owner, number, current, deleted>>
  BY <1>1, QuietIsUnseen
<1>2. ASSUME NEW k \in Uploads, CreateDocument(k) \/ AddDocumentVersion(k)
      PROVE  Promise!HistoryNext
  BY <1>2, InsertExtends DEF Promise!HistoryNext
<1>3. ASSUME NEW d \in Docs, SoftDeleteDocument(d) \/ RestoreDocument(d)
      PROVE  Promise!HistoryNext
  BY <1>3, RequestHides DEF Promise!HistoryNext
<1>4. \/ UNCHANGED <<owner, number, current, deleted>>
      \/ \E k \in Uploads : CreateDocument(k) \/ AddDocumentVersion(k)
      \/ \E d \in Docs : SoftDeleteDocument(d) \/ RestoreDocument(d)
  BY DEF Next, UploadDocument, AddVersion, StoreUpload, DrawNumber, RefuseVersion, RemoveObject,
         LoseUpload, vars, upload, table
<1> QED
  BY <1>1, <1>2, <1>3, <1>4

\* UploadDocument, AddVersion, DeleteDocument and RestoreDocument (service.go,
\* operations.go): for any number of documents and uploads the rows implement
\* VersionHistory. Versions are only added, at the end, and the pointer follows them
\* unless the document is deleted.
THEOREM DocumentsKeepHistory == Spec => KeepsHistory
<1>1. Init => Promise!HistoryInit
  <2> SUFFICES ASSUME Init PROVE Promise!HistoryInit
    OBVIOUS
  <2>1. \A d \in Docs : Versions(d) = {}
    BY DocumentAssumptions DEF Init, Versions
  <2>2. \A d \in Docs : HistoryOf(d) = <<>>
    BY <2>1, FS_EmptySet DEF HistoryOf
  <2> QED
    BY <2>2 DEF Init, Promise!HistoryInit
<1> QED
  BY <1>1, DInvHolds, InitDeletedExist, NextDeletedExist, StepOfHistories, PTL
     DEF Spec, KeepsHistory, Promise!HistorySpec

-----------------------------------------------------------------------------
\* Embedding.

\* A chunk that is leased is in work, and the claim of its holder is the latest one.
Leased ==
  \A c \in Chunks, w \in Embedders :
    holder[c] = w => /\ chunk[c] = "processing"
                     /\ batch[w][c] > 0 => batch[w][c] = attempts[c]

\* A row that does not exist has no history.
Fresh == \A c \in Chunks : chunk[c] = "absent" => vector[c] = NoModel /\ attempts[c] = 0

\* The limit of failed attempts is only met by a chunk that has an embedding, which
\* replicas with different models renew in turns. A chunk that never got one stays in
\* the queue, whatever fails, and however often: its attempts start from one with
\* every claim. So the bound of docs/ai-workspace.md:106 is not kept (MCEmbedding).
OnlyEmbeddedGivenUp ==
  \A c \in Chunks : /\ chunk[c] = "failed" => vector[c] # NoModel
                    /\ chunk[c] \notin {"absent", "deleted"} /\ vector[c] = NoModel =>
                         chunk[c] \in {"pending", "processing"} /\ attempts[c] <= 1

\* OnlyEmbeddedGivenUp, of one chunk.
Chance(c) ==
  /\ chunk[c] = "failed" => vector[c] # NoModel
  /\ chunk[c] \notin {"absent", "deleted"} /\ vector[c] = NoModel =>
       chunk[c] \in {"pending", "processing"} /\ attempts[c] <= 1

EInv == EmbedTypeOK /\ Leased /\ Fresh /\ OnlyEmbeddedGivenUp

\* The property is the conjunction of its instances.
LEMMA ChanceForAll == OnlyEmbeddedGivenUp <=> \A c \in Chunks : Chance(c)
<1> QED
  BY DEF OnlyEmbeddedGivenUp, Chance

\* The initial states satisfy the invariant.
LEMMA InitEInv == EmbedInit => EInv
<1> QED
  BY EmbeddingAssumptions DEF EmbedInit, Nothing, EInv, EmbedTypeOK, Leased, Fresh, OnlyEmbeddedGivenUp

\* What others do to a row.
LEMMA RowKeepsEInv ==
  ASSUME EInv, NEW c \in Chunks, InsertChunk(c) \/ ShowOrHide(c) \/ DeleteChunk(c)
  PROVE  EInv'
<1> USE EmbeddingAssumptions DEF EInv, workerVars
<1>1. CASE InsertChunk(c)
  <2>1. EmbedTypeOK'
    BY <1>1 DEF InsertChunk, EmbedTypeOK
  <2>2. Leased' /\ Fresh' /\ OnlyEmbeddedGivenUp'
    BY <1>1 DEF InsertChunk, EmbedTypeOK, Leased, Fresh, OnlyEmbeddedGivenUp
  <2> QED
    BY <2>1, <2>2
<1>2. CASE ShowOrHide(c)
  BY <1>2 DEF ShowOrHide, EmbedTypeOK, Leased, Fresh, OnlyEmbeddedGivenUp
<1>3. CASE DeleteChunk(c)
  <2>1. EmbedTypeOK'
    BY <1>3 DEF DeleteChunk, EmbedTypeOK
  <2>2. Leased' /\ Fresh' /\ OnlyEmbeddedGivenUp'
    BY <1>3 DEF DeleteChunk, EmbedTypeOK, Leased, Fresh, OnlyEmbeddedGivenUp
  <2> QED
    BY <2>1, <2>2
<1> QED
  BY <1>1, <1>2, <1>3

\* A claim counts from one when there is no embedding, and takes no chunk that was given up.
LEMMA ClaimKeepsEInv ==
  ASSUME EInv, NEW w \in Embedders, ClaimChunks(w)
  PROVE  EInv'
<1> USE EmbeddingAssumptions DEF EInv
<1>1. PICK S \in SUBSET Candidates(w) :
        /\ chunk'    = [c \in Chunks |-> IF c \in S THEN "processing" ELSE chunk[c]]
        /\ holder'   = [c \in Chunks |-> IF c \in S THEN w ELSE holder[c]]
        /\ attempts' = [c \in Chunks |-> IF c \in S THEN AttemptsOf(w, c) ELSE attempts[c]]
        /\ batch'    = [batch EXCEPT ![w] =
                          [c \in Chunks |-> IF c \in S THEN AttemptsOf(w, c) ELSE 0]]
  BY DEF ClaimChunks
<1>2. /\ phase' = [phase EXCEPT ![w] = "asking"]
      /\ claims < MaxClaims /\ claims' = claims + 1
      /\ UNCHANGED <<shown, vector, model>>
  BY DEF ClaimChunks
<1>3. \A c \in Chunks : /\ AttemptsOf(w, c) \in Nat
                        /\ vector[c] = NoModel => AttemptsOf(w, c) = 1
  BY DEF AttemptsOf, EmbedTypeOK
<1>4. \A c \in S : c \in Chunks /\ chunk[c] \in {"pending", "processing", "succeeded"}
  BY DEF Candidates, EmbedTypeOK
<1>5. EmbedTypeOK'
  <2>1. [c \in Chunks |-> IF c \in S THEN AttemptsOf(w, c) ELSE 0] \in [Chunks -> Nat]
    BY <1>3
  <2>2. batch' \in [Embedders -> [Chunks -> Nat]]
    BY <1>1, <2>1 DEF EmbedTypeOK
  <2>3. attempts' \in [Chunks -> Nat]
    BY <1>1, <1>3 DEF EmbedTypeOK
  <2>4. /\ chunk' \in [Chunks -> {"absent", "pending", "processing", "succeeded", "failed", "deleted"}]
        /\ holder' \in [Chunks -> Embedders \cup {Unclaimed}]
    BY <1>1 DEF EmbedTypeOK
  <2>5. phase' \in [Embedders -> {"idle", "asking", "storing", "failing"}] /\ claims' \in 0..MaxClaims
    BY <1>2 DEF EmbedTypeOK
  <2> QED
    BY <1>2, <2>2, <2>3, <2>4, <2>5 DEF EmbedTypeOK
<1>6. Leased'
  BY <1>1 DEF Leased, EmbedTypeOK
<1>7. Fresh'
  BY <1>1, <1>2 DEF Fresh, EmbedTypeOK
<1>8. OnlyEmbeddedGivenUp'
  <2>1. ASSUME NEW c \in S PROVE Chance(c)'
    BY <1>1, <1>2, <1>3, <1>4, <2>1 DEF Chance, EmbedTypeOK
  <2>2. ASSUME NEW c \in Chunks \ S PROVE Chance(c)'
    BY <1>1, <1>2, <2>2, ChanceForAll DEF Chance, EmbedTypeOK
  <2> QED
    BY <2>1, <2>2 DEF OnlyEmbeddedGivenUp, Chance
<1> QED
  BY <1>5, <1>6, <1>7, <1>8

\* What becomes of a chunk in hand: its row changes under the fence, or not at all.
LEMMA OutcomeKeepsEInv ==
  ASSUME EInv, NEW w \in Embedders, NEW c \in Chunks, CompleteChunk(w, c) \/ FailChunk(w, c)
  PROVE  EInv'
<1> USE EmbeddingAssumptions DEF EInv
<1>1. c \in InHand(w) /\ DropItem(w, c) /\ UNCHANGED <<shown, attempts, model, claims>>
  BY DEF CompleteChunk, FailChunk
<1>2. batch[w][c] > 0 /\ batch' = [batch EXCEPT ![w][c] = 0]
  BY <1>1 DEF InHand, DropItem
<1>3. /\ batch' \in [Embedders -> [Chunks -> Nat]]
      /\ \A v \in Embedders, d \in Chunks : batch'[v][d] \in {0, batch[v][d]}
  BY <1>2 DEF EmbedTypeOK
<1>4. phase' \in [Embedders -> {"idle", "asking", "storing", "failing"}]
  BY <1>1 DEF DropItem, EmbedTypeOK
<1>5. CASE UNCHANGED <<chunk, vector, holder>>
  <2>1. EmbedTypeOK'
    BY <1>1, <1>3, <1>4, <1>5 DEF EmbedTypeOK
  <2>2. Leased'
    BY <1>1, <1>3, <1>5 DEF Leased, EmbedTypeOK
  <2> QED
    BY <1>1, <1>5, <2>1, <2>2 DEF Fresh, OnlyEmbeddedGivenUp
<1>6. CASE /\ holder[c] = w
           /\ holder' = [holder EXCEPT ![c] = Unclaimed]
           /\ \/ /\ chunk'  = [chunk EXCEPT ![c] = "succeeded"]
                 /\ vector' = [vector EXCEPT ![c] = model[w]]
              \/ /\ chunk' = [chunk EXCEPT ![c] = IF batch[w][c] >= EmbedLimit
                                                  THEN "failed" ELSE "pending"]
                 /\ UNCHANGED vector
  <2>1. chunk[c] = "processing" /\ batch[w][c] = attempts[c]
    BY <1>2, <1>6 DEF Leased
  <2>2. EmbedTypeOK'
    <3>1. chunk' \in [Chunks -> {"absent", "pending", "processing", "succeeded", "failed", "deleted"}]
      BY <1>6 DEF EmbedTypeOK
    <3>2. vector' \in [Chunks -> Models \cup {NoModel}]
      BY <1>6 DEF EmbedTypeOK
    <3>3. holder' \in [Chunks -> Embedders \cup {Unclaimed}]
      BY <1>6 DEF EmbedTypeOK
    <3> QED
      BY <1>1, <1>3, <1>4, <3>1, <3>2, <3>3 DEF EmbedTypeOK
  <2>3. Leased'
    BY <1>1, <1>3, <1>6 DEF Leased, EmbedTypeOK
  <2>4. Fresh'
    BY <1>1, <1>6 DEF Fresh, EmbedTypeOK
  <2>5. Chance(c)'
    <3>1. CASE vector[c] = NoModel
      <4>1. attempts[c] \in Nat /\ attempts[c] <= 1 /\ attempts[c] < EmbedLimit
        BY <2>1, <3>1 DEF OnlyEmbeddedGivenUp, EmbedTypeOK
      <4> QED
        BY <1>1, <1>6, <2>1, <3>1, <4>1 DEF Chance, EmbedTypeOK
    <3>2. CASE vector[c] # NoModel
      BY <1>1, <1>6, <3>2 DEF Chance, EmbedTypeOK
    <3> QED
      BY <3>1, <3>2
  <2>6. ASSUME NEW d \in Chunks \ {c} PROVE Chance(d)'
    BY <1>1, <1>6, ChanceForAll DEF Chance, EmbedTypeOK
  <2> QED
    BY <2>2, <2>3, <2>4, <2>5, <2>6 DEF OnlyEmbeddedGivenUp, Chance
<1> QED
  BY <1>5, <1>6 DEF CompleteChunk, FailChunk, FailRow, StoreUnnoticed, Fenced

\* Every step preserves the invariant.
LEMMA NextEInv == EInv /\ [EmbedNext]_embedVars => EInv'
<1> SUFFICES ASSUME EInv, [EmbedNext]_embedVars PROVE EInv'
  OBVIOUS
<1>1. ASSUME NEW w \in Embedders, EmbedBatch(w) PROVE EInv'
  BY <1>1 DEF EInv, EmbedBatch, rowVars, EmbedTypeOK, Leased, Fresh, OnlyEmbeddedGivenUp
<1>2. ASSUME NEW w \in Embedders, StopEmbedder(w) PROVE EInv'
  <2>1. Nothing \in [Chunks -> Nat] /\ \A c \in Chunks : Nothing[c] = 0
    BY DEF Nothing
  <2>2. EmbedTypeOK'
    BY <1>2, <2>1 DEF EInv, StopEmbedder, rowVars, EmbedTypeOK
  <2>3. Leased'
    BY <1>2, <2>1 DEF EInv, StopEmbedder, rowVars, EmbedTypeOK, Leased
  <2> QED
    BY <1>2, <2>2, <2>3 DEF EInv, StopEmbedder, rowVars, Fresh, OnlyEmbeddedGivenUp
<1>3. CASE UNCHANGED embedVars
  BY <1>3 DEF EInv, embedVars, rowVars, workerVars, EmbedTypeOK, Leased, Fresh, OnlyEmbeddedGivenUp
<1> QED
  BY <1>1, <1>2, <1>3, RowKeepsEInv, ClaimKeepsEInv, OutcomeKeepsEInv DEF EmbedNext

\* The invariant holds in every behaviour.
LEMMA EInvHolds == EmbedSpec => []EInv
<1> QED
  BY InitEInv, NextEInv, PTL DEF EmbedSpec

\* Every variable of Embedding stays in its type.
THEOREM EmbeddingTypes == EmbedSpec => []EmbedTypeOK
<1>1. EInv => EmbedTypeOK
  BY DEF EInv
<1> QED
  BY <1>1, EInvHolds, PTL

\* ClaimEmbeddingChunks and FailEmbeddingChunk (retrieval.go): a chunk that was never
\* embedded is never given up, whatever fails, and however often. It is what the code
\* does, not what it should do.
THEOREM NeverEmbeddedNeverGivenUp == EmbedSpec => []OnlyEmbeddedGivenUp
<1>1. EInv => OnlyEmbeddedGivenUp
  BY DEF EInv
<1> QED
  BY <1>1, EInvHolds, PTL

\* CompleteEmbeddingChunk (retrieval.go): the fence asks for the worker's name only, and
\* yet a worker stores nothing under a claim that was overtaken by a later one.
THEOREM EmbeddingsAreStoredUnderLease == EmbedSpec => StoredUnderLease
<1> DEFINE Step ==
      \A c \in Chunks :
        vector'[c] # vector[c] =>
          \/ chunk'[c] = "deleted" /\ vector'[c] = NoModel
          \/ \E w \in Embedders :
               /\ vector'[c] = model[w] /\ chunk'[c] = "succeeded"
               /\ phase[w] = "storing" /\ chunk[c] = "processing"
               /\ batch[w][c] > 0 /\ batch[w][c] = attempts[c]
<1>1. ASSUME EInv, [EmbedNext]_embedVars PROVE Step
  <2> SUFFICES ASSUME NEW c \in Chunks, vector'[c] # vector[c]
               PROVE  \/ chunk'[c] = "deleted" /\ vector'[c] = NoModel
                      \/ \E w \in Embedders :
                           /\ vector'[c] = model[w] /\ chunk'[c] = "succeeded"
                           /\ phase[w] = "storing" /\ chunk[c] = "processing"
                           /\ batch[w][c] > 0 /\ batch[w][c] = attempts[c]
    OBVIOUS
  <2>1. CASE \E d \in Chunks : DeleteChunk(d)
    <3>1. PICK d \in Chunks : DeleteChunk(d)
      BY <2>1
    <3>2. d = c
      BY <3>1 DEF DeleteChunk, EInv, EmbedTypeOK
    <3>3. chunk'[c] = "deleted" /\ vector'[c] = NoModel
      BY <1>1, <3>1, <3>2 DEF DeleteChunk, EInv, EmbedTypeOK
    <3> QED
      BY <3>3
  <2>2. CASE \E w \in Embedders, d \in Chunks : CompleteChunk(w, d) \/ FailChunk(w, d)
    <3>1. PICK w \in Embedders, d \in Chunks : CompleteChunk(w, d) \/ FailChunk(w, d)
      BY <2>2
    <3>2. d \in InHand(w) /\ phase[w] = "storing" /\ holder[d] = w
          /\ vector' = [vector EXCEPT ![d] = model[w]]
          /\ chunk' = [chunk EXCEPT ![d] = "succeeded"]
      BY <3>1, <1>1 DEF CompleteChunk, FailChunk, FailRow, StoreUnnoticed, Fenced
    <3>3. d = c
      BY <3>2, <1>1 DEF EInv, EmbedTypeOK
    <3>4. chunk[c] = "processing" /\ batch[w][c] > 0 /\ batch[w][c] = attempts[c]
      BY <3>2, <3>3, <1>1 DEF InHand, EInv, Leased
    <3> QED
      BY <3>2, <3>3, <3>4, <1>1 DEF EInv, EmbedTypeOK
  <2>3. ~ UNCHANGED vector
    OBVIOUS
  <2> QED
    BY <1>1, <2>1, <2>2, <2>3
    DEF EmbedNext, embedVars, rowVars, InsertChunk, ShowOrHide, ClaimChunks, EmbedBatch, StopEmbedder
<1>2. EmbedSpec => [][Step]_embedVars
  BY <1>1, EInvHolds, PTL DEF EmbedSpec
<1> QED
  BY <1>2 DEF StoredUnderLease

-----------------------------------------------------------------------------
\* Workflows.

\* The rows of a workflow, or those a DELETE is about, are one list, which begins at 0.
IsList(r) == r = {} \/ \E x \in Edits : size[x] > 0 /\ r = Stage(x, size[x])

Lists ==
  /\ \A f \in Workflows : IsList(rows[f])
  /\ \A e \in Edits : IsList(aimed[e])
  /\ \A e \in Edits : step[e] # "inserting" => erased[e] = {} /\ placed[e] = 0
  /\ \A e \in Edits : step[e] = "done" => last[flow[e]] # NoEdit
  /\ \A f \in Workflows : last[f] = NoEdit => rows[f] = {}

\* An edit that deleted anything deleted the whole list, and nobody else has.
Emptied ==
  \A e \in Edits : erased[e] # {} =>
    /\ erased[e] = rows[flow[e]]
    /\ \A g \in Rivals(e) : erased[g] = {}

\* An edit that inserted a stage left no row of another list, and nobody else inserts.
Placing ==
  \A e \in Edits : placed[e] > 0 =>
    /\ rows[flow[e]] \subseteq erased[e]
    /\ \A g \in Rivals(e) : placed[g] = 0

Committed(e) == \E y \in overlap[e] : rows[flow[e]] = Stage(y, size[y])

\* Rows an open edit has not seen were committed since it began.
Unseen ==
  \A e \in Edits :
    /\ step[e] = "deleting" => rows[flow[e]] = aimed[e] \/ Committed(e)
    /\ step[e] = "inserting" /\ erased[e] = {} => rows[flow[e]] = {} \/ Committed(e)

Told ==
  \A f \in Workflows : last[f] # NoEdit =>
    \E e \in {last[f]} \cup IF size[last[f]] = 0 THEN overlap[last[f]] ELSE {} : rows[f] = Stage(e, size[e])

WInv == WorkflowTypeOK /\ Lists /\ Emptied /\ Placing /\ Unseen /\ Told

USE WorkflowAssumptions DEF WorkflowAssumptions

\* Lists that are not empty begin at 0, and belong to one edit.
LEMMA StageFacts ==
  ASSUME NEW e, NEW n \in Nat
  PROVE  /\ n = 0 => Stage(e, n) = {}
         /\ n > 0 => <<e, 0>> \in Stage(e, n)
         /\ \A r \in Stage(e, n) : r[1] = e
<1> QED
  BY DEF Stage

\* Two lists that share a row are the same.
LEMMA ListsAgree ==
  ASSUME size \in [Edits -> 0..MaxStages], NEW r, NEW q, IsList(r), IsList(q), r \cap q # {}
  PROVE  r = q
<1>1. PICK x \in Edits : size[x] > 0 /\ r = Stage(x, size[x])
  BY DEF IsList
<1>2. PICK y \in Edits : size[y] > 0 /\ q = Stage(y, size[y])
  BY DEF IsList
<1>3. x = y
  <2>1. PICK z \in r \cap q : TRUE
    OBVIOUS
  <2>2. z[1] = x
    <3>1. size[x] \in Nat
      OBVIOUS
    <3> QED
      BY <1>1, <2>1, <3>1, StageFacts
  <2>3. z[1] = y
    <3>1. size[y] \in Nat
      OBVIOUS
    <3> QED
      BY <1>2, <2>1, <3>1, StageFacts
  <2> QED
    BY <2>2, <2>3
<1> QED
  BY <1>1, <1>2, <1>3

\* A list without a row at 0 is empty.
LEMMA NoFirstNoList ==
  ASSUME size \in [Edits -> 0..MaxStages], NEW r, IsList(r), \A z \in r : z[2] # 0
  PROVE  r = {}
<1> SUFFICES ASSUME r # {} PROVE FALSE
  OBVIOUS
<1>1. PICK x \in Edits : size[x] > 0 /\ r = Stage(x, size[x])
  BY DEF IsList
<1>2. <<x, 0>> \in r
  BY <1>1, StageFacts
<1> QED
  BY <1>2

\* The initial states satisfy the invariant.
LEMMA InitWInv == WorkflowInit => WInv
<1> SUFFICES ASSUME WorkflowInit PROVE WInv
  OBVIOUS
<1> USE DEF WorkflowInit
<1>1. WorkflowTypeOK
  BY DEF WorkflowTypeOK
<1>2. Lists /\ Emptied /\ Placing /\ Unseen /\ Told
  BY DEF Lists, IsList, Emptied, Placing, Unseen, Told
<1> QED
  BY <1>1, <1>2 DEF WInv

\* CreateWorkflow and ReplaceRequest.
LEMMA RequestKeepsWInv ==
  ASSUME WInv, NEW e \in Edits, CreateWorkflow(e) \/ ReplaceRequest(e)
  PROVE  WInv'
<1>1. /\ step[e] = "new" /\ \E next \in {"opened", "failed"} : step' = [step EXCEPT ![e] = next]
      /\ defined' \subseteq Workflows
      /\ UNCHANGED <<flow, size, placed, aimed, erased, rows, last, overlap>>
  BY DEF CreateWorkflow, ReplaceRequest, edit, transaction, WInv, WorkflowTypeOK
<1>2. WorkflowTypeOK'
  BY <1>1 DEF WInv, WorkflowTypeOK
<1>3. \A g \in Edits : /\ step'[g] = step[g] \/ (step[g] = "new" /\ step'[g] \in {"opened", "failed"})
                       /\ Rivals(g)' = Rivals(g)
  BY <1>1 DEF Rivals, WInv, WorkflowTypeOK
<1>4. Lists'
  BY <1>1, <1>3 DEF WInv, Lists, IsList, Stage
<1>5. Emptied' /\ Placing'
  BY <1>1, <1>3 DEF WInv, Emptied, Placing
<1>6. Unseen' /\ Told'
  BY <1>1, <1>3 DEF WInv, Unseen, Told, Committed, Stage
<1> QED
  BY <1>2, <1>4, <1>5, <1>6 DEF WInv

LEMMA BeginKeepsWInv ==
  ASSUME WInv, NEW e \in Edits, BeginDelete(e)
  PROVE  WInv'
<1>1. /\ step[e] = "opened" /\ step' = [step EXCEPT ![e] = "deleting"]
      /\ aimed' = [aimed EXCEPT ![e] = rows[flow[e]]]
      /\ UNCHANGED <<flow, size, placed, erased, defined, rows, last, overlap>>
      /\ erased[e] = {} /\ placed[e] = 0
  BY DEF BeginDelete, edit, WInv, Lists
<1>2. WorkflowTypeOK'
  BY <1>1 DEF WInv, WorkflowTypeOK
<1>3. \A g \in Edits \ {e} : step'[g] = step[g] /\ aimed'[g] = aimed[g] /\ Rivals(g)' \subseteq Rivals(g) \cup {e}
  BY <1>1 DEF WInv, WorkflowTypeOK, Rivals
<1>4. step'[e] = "deleting" /\ aimed'[e] = rows[flow[e]]
  BY <1>1 DEF WInv, WorkflowTypeOK
<1>5. Lists'
  <2>1. \A g \in Edits : IsList(aimed'[g])
    BY <1>1, <1>3, <1>4 DEF WInv, WorkflowTypeOK, Lists
  <2> QED
    BY <2>1, <1>1, <1>3, <1>4 DEF WInv, Lists, IsList, Stage
<1>6. Emptied' /\ Placing'
  BY <1>1, <1>3 DEF WInv, Emptied, Placing
<1>7. Unseen' /\ Told'
  BY <1>1, <1>3, <1>4 DEF WInv, Unseen, Told, Committed, Stage
<1> QED
  BY <1>2, <1>5, <1>6, <1>7 DEF WInv

LEMMA DeleteKeepsWInv ==
  ASSUME WInv, NEW e \in Edits, DeleteStages(e)
  PROVE  WInv'
<1>1. /\ step[e] = "deleting" /\ step' = [step EXCEPT ![e] = "inserting"]
      /\ erased' = [erased EXCEPT ![e] = aimed[e] \cap rows[flow[e]]]
      /\ \A g \in Rivals(e) : erased[g] \cap aimed[e] = {}
      /\ UNCHANGED <<flow, size, placed, aimed, defined, rows, last, overlap>>
      /\ erased[e] = {} /\ placed[e] = 0
  BY DEF DeleteStages, edit, WInv, Lists
<1>2. WorkflowTypeOK'
  BY <1>1 DEF WInv, WorkflowTypeOK
<1>3. \A g \in Edits \ {e} : step'[g] = step[g] /\ erased'[g] = erased[g]
  BY <1>1 DEF WInv, WorkflowTypeOK
<1>4. step'[e] = "inserting" /\ erased'[e] = aimed[e] \cap rows[flow[e]]
  BY <1>1 DEF WInv, WorkflowTypeOK
<1>5. \A g \in Edits : Rivals(g)' = Rivals(g)
  BY <1>1, <1>3, <1>4 DEF Rivals
<1>6. erased'[e] # {} => erased'[e] = rows[flow[e]] /\ aimed[e] = rows[flow[e]]
  <2>1. IsList(aimed[e]) /\ IsList(rows[flow[e]]) /\ size \in [Edits -> 0..MaxStages]
    BY DEF WInv, Lists, WorkflowTypeOK
  <2> QED
    BY <1>4, <2>1, ListsAgree
<1>7. Lists'
  BY <1>1, <1>3, <1>4 DEF WInv, Lists, IsList, Stage
<1>8. Emptied'
  <2>1. erased'[e] # {} => \A g \in Rivals(e) : erased[g] = {}
    <3> SUFFICES ASSUME erased'[e] # {}, NEW g \in Rivals(e), erased[g] # {} PROVE FALSE
      OBVIOUS
    <3>1. g \in Edits /\ flow[g] = flow[e]
      BY DEF Rivals
    <3>2. erased[g] = rows[flow[e]]
      BY <3>1 DEF WInv, Emptied
    <3> QED
      BY <3>2, <1>1, <1>6
  <2>2. ASSUME NEW g \in Edits \ {e}, erased[g] # {} PROVE e \in Rivals(g) => erased'[e] = {}
    <3> SUFFICES ASSUME e \in Rivals(g), erased'[e] # {} PROVE FALSE
      OBVIOUS
    <3>1. g \in Rivals(e)
      <4>1. step[g] = "inserting"
        BY <2>2 DEF WInv, Lists
      <4> QED
        BY <4>1 DEF Rivals
    <3> QED
      BY <3>1, <2>1, <2>2
  <2> QED
    BY <1>1, <1>3, <1>5, <1>6, <2>1, <2>2 DEF WInv, Emptied, Rivals
<1>9. Placing'
  BY <1>1, <1>3, <1>5 DEF WInv, Placing
<1>10. Unseen'
  <2>1. erased'[e] = {} => rows[flow[e]] = {} \/ Committed(e)
    BY <1>1, <1>4 DEF WInv, Unseen
  <2> QED
    BY <1>1, <1>3, <1>4, <2>1 DEF WInv, Unseen, Committed, Stage
<1>11. Told'
  BY <1>1 DEF WInv, Told, Stage
<1> QED
  BY <1>2, <1>7, <1>8, <1>9, <1>10, <1>11 DEF WInv

LEMMA InsertKeepsWInv ==
  ASSUME WInv, NEW e \in Edits, InsertStage(e)
  PROVE  WInv'
<1>1. /\ step[e] = "inserting" /\ placed[e] < size[e] /\ PlaceIsFree(e)
      /\ placed' = [placed EXCEPT ![e] = @ + 1]
      /\ UNCHANGED <<step, flow, size, aimed, erased, defined, rows, last, overlap>>
  BY DEF InsertStage, edit
<1>2. WorkflowTypeOK'
  BY <1>1 DEF WInv, WorkflowTypeOK
<1>3. \A g \in Edits \ {e} : placed'[g] = placed[g]
  BY <1>1 DEF WInv, WorkflowTypeOK
<1>4. \A g \in Edits : Rivals(g)' = Rivals(g)
  BY <1>1 DEF Rivals
<1>5. placed[e] \in Nat /\ \A g \in Edits : placed[g] \in Nat
  BY DEF WInv, WorkflowTypeOK
<1>6. rows[flow[e]] \subseteq erased[e] /\ \A g \in Rivals(e) : placed[g] = 0
  <2>1. CASE placed[e] > 0
    BY <2>1 DEF WInv, Placing
  <2>2. CASE placed[e] = 0
    <3>1. \A g \in Rivals(e) : placed[g] = 0
      BY <1>1, <1>5, <2>2 DEF PlaceIsFree, Rivals
    <3>2. CASE erased[e] = {}
      <4>1. \A z \in rows[flow[e]] : z[2] # 0
        BY <1>1, <2>2, <3>2 DEF PlaceIsFree
      <4>2. IsList(rows[flow[e]]) /\ size \in [Edits -> 0..MaxStages]
        BY DEF WInv, Lists, WorkflowTypeOK
      <4> QED
        BY <3>1, <4>1, <4>2, NoFirstNoList
    <3>3. CASE erased[e] # {}
      BY <3>1, <3>3 DEF WInv, Emptied
    <3> QED
      BY <3>2, <3>3
  <2> QED
    BY <1>5, <2>1, <2>2
<1>7. Lists'
  BY <1>1, <1>3 DEF WInv, Lists, IsList, Stage
<1>8. Emptied'
  BY <1>1, <1>4 DEF WInv, Emptied
<1>9. Placing'
  <2> SUFFICES ASSUME NEW g \in Edits, placed'[g] > 0
               PROVE  rows[flow[g]] \subseteq erased[g] /\ \A h \in Rivals(g) : placed'[h] = 0
    BY <1>1, <1>4 DEF Placing
  <2>1. CASE g = e
    BY <2>1, <1>3, <1>6 DEF Rivals
  <2>2. CASE g # e
    <3>1. placed[g] > 0
      BY <2>2, <1>3
    <3>2. e \notin Rivals(g)
      <4>1. step[g] = "inserting"
        BY <3>1, <1>5 DEF WInv, Lists
      <4>2. e \in Rivals(g) => g \in Rivals(e)
        BY <2>2, <4>1 DEF Rivals
      <4> QED
        BY <3>1, <4>2, <1>5, <1>6
    <3> QED
      BY <3>1, <3>2, <1>3 DEF WInv, Placing, Rivals
  <2> QED
    BY <2>1, <2>2
<1>10. Unseen' /\ Told'
  BY <1>1 DEF WInv, Unseen, Told, Committed, Stage
<1> QED
  BY <1>2, <1>7, <1>8, <1>9, <1>10 DEF WInv

LEMMA CommitKeepsWInv ==
  ASSUME WInv, NEW e \in Edits, CommitStages(e)
  PROVE  WInv'
<1> DEFINE f == flow[e]
<1>1. /\ step[e] = "inserting" /\ placed[e] = size[e]
      /\ rows' = [rows EXCEPT ![f] = (rows[f] \ erased[e]) \cup Stage(e, size[e])]
      /\ last' = [last EXCEPT ![f] = e]
      /\ overlap' = [g \in Edits |-> IF g \in Rivals(e) THEN overlap[g] \cup {e} ELSE overlap[g]]
      /\ placed' = [placed EXCEPT ![e] = 0] /\ aimed' = [aimed EXCEPT ![e] = {}] /\ erased' = [erased EXCEPT ![e] = {}]
      /\ UNCHANGED <<flow, size, defined>>
  BY DEF CommitStages, EndTransaction, edit
<1>2. PICK next \in {"done", "failed"} : step' = [step EXCEPT ![e] = next]
  BY DEF CommitStages
<1>3. /\ f \in Workflows /\ size \in [Edits -> 0..MaxStages] /\ size[e] \in Nat
      /\ \A g \in Edits : flow[g] \in Workflows /\ placed[g] \in Nat
  BY DEF WInv, WorkflowTypeOK
<1>4. WorkflowTypeOK'
  <2>1. Stage(e, size[e]) \subseteq Edits \X (0..MaxStages)
    BY <1>3 DEF Stage
  <2>2. rows' \in [Workflows -> SUBSET (Edits \X (0..MaxStages))]
    BY <1>1, <2>1 DEF WInv, WorkflowTypeOK
  <2>3. overlap' \in [Edits -> SUBSET Edits] /\ last' \in [Workflows -> Edits \cup {NoEdit}]
    BY <1>1 DEF WInv, WorkflowTypeOK
  <2> QED
    BY <1>1, <1>2, <2>2, <2>3 DEF WInv, WorkflowTypeOK
<1>5. /\ \A g \in Edits \ {e} : /\ step'[g] = step[g] /\ placed'[g] = placed[g]
                               /\ aimed'[g] = aimed[g] /\ erased'[g] = erased[g]
      /\ step'[e] \in {"done", "failed"} /\ placed'[e] = 0 /\ aimed'[e] = {} /\ erased'[e] = {}
      /\ \A h \in Workflows \ {f} : rows'[h] = rows[h] /\ last'[h] = last[h]
      /\ last'[f] = e
  BY <1>1, <1>2, <1>3 DEF WInv, WorkflowTypeOK
<1>6. \A g \in Edits \ {e} : Rivals(g)' \subseteq Rivals(g)
  BY <1>1, <1>5 DEF Rivals
<1>7. \A g \in Edits : overlap[g] \subseteq overlap'[g] /\ (g \in Rivals(e) => e \in overlap'[g])
  BY <1>1 DEF WInv, WorkflowTypeOK
\* The list becomes that of the edit, or stays, if the edit has none to write.
<1>8. rows'[f] = Stage(e, size[e]) \/ (rows'[f] = rows[f] /\ size[e] = 0 /\ erased[e] = {})
  <2>1. rows'[f] = (rows[f] \ erased[e]) \cup Stage(e, size[e])
    BY <1>1, <1>3 DEF WInv, WorkflowTypeOK
  <2>2. CASE size[e] > 0
    BY <2>1, <2>2, <1>1 DEF WInv, Placing
  <2>3. CASE size[e] = 0
    <3>1. Stage(e, size[e]) = {}
      BY <2>3, <1>3, StageFacts
    <3>2. erased[e] = {} \/ erased[e] = rows[f]
      BY DEF WInv, Emptied
    <3> QED
      BY <2>1, <2>3, <3>1, <3>2
  <2> QED
    BY <1>3, <2>2, <2>3
<1>9. \A g \in Edits : g \in Rivals(e) <=> g # e /\ flow[g] = f /\ step[g] \in {"deleting", "inserting"}
  BY DEF Rivals
<1>10. \A g \in Edits : g \in Rivals(e) => e \in Rivals(g)
  BY <1>1 DEF Rivals
<1>11. Lists'
  <2>1. \A h \in Workflows : IsList(rows'[h])
    <3>1. IsList(rows'[f])
      <4>1. size[e] = 0 => Stage(e, size[e]) = {}
        BY StageFacts, <1>3
      <4> QED
        BY <1>3, <1>8, <4>1 DEF IsList, WInv, Lists
    <3> QED
      BY <1>5, <3>1 DEF WInv, Lists
  <2>2. \A g \in Edits : IsList(aimed'[g])
    BY <1>5 DEF WInv, Lists, IsList
  <2>3. \A h \in Workflows : last'[h] = NoEdit => rows'[h] = {}
    BY <1>5 DEF WInv, Lists
  <2>4. \A g \in Edits : step'[g] = "done" => last'[flow'[g]] # NoEdit
    BY <1>1, <1>3, <1>5 DEF WInv, Lists
  <2>5. \A g \in Edits : step'[g] # "inserting" => erased'[g] = {} /\ placed'[g] = 0
    BY <1>5 DEF WInv, Lists
  <2> QED
    BY <1>1, <2>1, <2>2, <2>3, <2>4, <2>5 DEF Lists, IsList, Stage
\* What the commit leaves of an edit that has deleted or placed something.
<1>12. \A g \in Edits \ {e} : erased[g] # {} \/ placed[g] > 0 => rows'[flow[g]] = rows[flow[g]]
  <2> SUFFICES ASSUME NEW g \in Edits \ {e}, erased[g] # {} \/ placed[g] > 0, flow[g] = f
               PROVE  rows'[f] = rows[f]
    BY <1>3, <1>5
  <2>1. step[g] = "inserting"
    BY <1>3 DEF WInv, Lists
  <2>2. g \in Rivals(e) /\ e \in Rivals(g)
    BY <2>1, <1>9, <1>10
  <2>3. CASE placed[g] > 0
    <3>1. placed[e] = 0 /\ size[e] = 0
      BY <2>2, <2>3, <1>1 DEF WInv, Placing
    <3>2. erased[e] = {} => rows'[f] = rows[f]
      <4>1. Stage(e, size[e]) = {}
        BY <3>1, <1>3, StageFacts
      <4> QED
        BY <1>1, <1>3, <4>1 DEF WInv, WorkflowTypeOK
    <3>3. CASE erased[e] # {}
      <4>1. erased[g] = {} /\ erased[e] = rows[f]
        BY <2>2, <3>3 DEF WInv, Emptied
      <4>2. rows[f] = {}
        BY <2>3, <4>1 DEF WInv, Placing
      <4> QED
        BY <3>3, <4>1, <4>2
    <3> QED
      BY <3>2, <3>3
  <2>4. CASE erased[g] # {}
    <3>1. erased[e] = {} /\ erased[g] = rows[f]
      BY <2>2, <2>4 DEF WInv, Emptied
    <3>2. size[e] = 0
      <4>1. placed[e] > 0 => rows[f] \subseteq erased[e]
        BY DEF WInv, Placing
      <4> QED
        BY <2>4, <3>1, <4>1, <1>1, <1>3
    <3>3. Stage(e, size[e]) = {}
      BY <3>2, <1>3, StageFacts
    <3> QED
      BY <1>1, <1>3, <3>1, <3>3 DEF WInv, WorkflowTypeOK
  <2> QED
    BY <2>3, <2>4
<1>13. Emptied'
  <2>1. ASSUME NEW g \in Edits, erased'[g] # {}
        PROVE  erased'[g] = rows'[flow[g]] /\ \A h \in Rivals(g)' : erased'[h] = {}
    <3>1. g # e /\ erased[g] # {} /\ erased'[g] = erased[g]
      BY <2>1, <1>5
    <3>2. erased'[g] = rows'[flow[g]]
      BY <3>1, <1>12 DEF WInv, Emptied
    <3>3. \A h \in Rivals(g)' : h \in Edits /\ h \in Rivals(g)
      BY <3>1, <1>6 DEF Rivals
    <3> QED
      BY <3>1, <3>2, <3>3, <1>5 DEF WInv, Emptied
  <2> QED
    BY <2>1, <1>1 DEF Emptied
<1>14. Placing'
  BY <1>1, <1>3, <1>5, <1>6, <1>12 DEF WInv, Placing, Rivals
<1>15. Unseen'
  <2> SUFFICES ASSUME NEW g \in Edits, step'[g] \in {"deleting", "inserting"}
               PROVE  /\ step'[g] = "deleting" => rows'[flow[g]] = aimed'[g] \/ Committed(g)'
                      /\ step'[g] = "inserting" /\ erased'[g] = {} => rows'[flow[g]] = {} \/ Committed(g)'
    BY <1>1 DEF Unseen
  <2>1. g # e /\ step'[g] = step[g] /\ aimed'[g] = aimed[g] /\ erased'[g] = erased[g]
    BY <1>5
  <2>2. CASE rows'[flow[g]] = rows[flow[g]]
    <3>1. Committed(g) => Committed(g)'
      BY <2>2, <1>1, <1>7 DEF Committed, Stage
    <3> QED
      BY <2>1, <2>2, <3>1 DEF WInv, Unseen
  <2>3. CASE rows'[flow[g]] # rows[flow[g]]
    <3>1. flow[g] = f /\ rows'[f] = Stage(e, size[e])
      BY <2>3, <1>3, <1>5, <1>8
    <3>2. e \in overlap'[g]
      BY <2>1, <3>1, <1>7, <1>9
    <3>3. Committed(g)'
      BY <3>1, <3>2, <1>1 DEF Committed, Stage
    <3> QED
      BY <3>3
  <2> QED
    BY <2>2, <2>3
<1>16. Told'
  <2> DEFINE From(h) == {last'[h]} \cup IF size'[last'[h]] = 0 THEN overlap'[last'[h]] ELSE {}
  <2>1. \E y \in From(f) : rows'[f] = Stage(y, size[y])
    <3>1. CASE rows'[f] = Stage(e, size[e])
      BY <3>1, <1>5
    <3>2. CASE rows'[f] = rows[f] /\ size[e] = 0 /\ erased[e] = {}
      <4>1. rows[f] = {} \/ Committed(e)
        BY <3>2, <1>1 DEF WInv, Unseen
      <4>2. Stage(e, size[e]) = {}
        BY <3>2, <1>3, StageFacts
      <4>3. overlap[e] \subseteq From(f)
        BY <3>2, <1>1, <1>5, <1>7
      <4> QED
        BY <3>2, <4>1, <4>2, <4>3, <1>5 DEF Committed
    <3> QED
      BY <3>1, <3>2, <1>8
  <2>2. ASSUME NEW h \in Workflows \ {f}, last'[h] # NoEdit
        PROVE  \E y \in From(h) : rows'[h] = Stage(y, size[y])
    <3>1. last'[h] = last[h] /\ rows'[h] = rows[h] /\ last[h] \in Edits
      BY <1>5, <2>2 DEF WInv, WorkflowTypeOK
    <3>2. overlap[last[h]] \subseteq overlap'[last[h]]
      BY <1>7, <3>1
    <3>3. PICK y \in {last[h]} \cup IF size[last[h]] = 0 THEN overlap[last[h]] ELSE {} : rows[h] = Stage(y, size[y])
      BY <2>2, <3>1 DEF WInv, Told
    <3>4. y \in From(h)
      BY <3>1, <3>2, <3>3, <1>1
    <3> QED
      BY <3>1, <3>3, <3>4
  <2>3. \A h \in Workflows : last'[h] # NoEdit => \E y \in From(h) : rows'[h] = Stage(y, size[y])
    BY <2>1, <2>2
  <2> QED
    BY <2>3, <1>1 DEF Told, Stage
<1> QED
  BY <1>4, <1>11, <1>13, <1>14, <1>15, <1>16 DEF WInv

LEMMA RollBackKeepsWInv ==
  ASSUME WInv, NEW e \in Edits, RollBackStages(e)
  PROVE  WInv'
<1>1. /\ step' = [step EXCEPT ![e] = "failed"]
      /\ placed' = [placed EXCEPT ![e] = 0] /\ aimed' = [aimed EXCEPT ![e] = {}] /\ erased' = [erased EXCEPT ![e] = {}]
      /\ UNCHANGED <<flow, size, defined, rows, last, overlap>>
  BY DEF RollBackStages, EndTransaction, edit
<1>2. WorkflowTypeOK'
  BY <1>1 DEF WInv, WorkflowTypeOK
<1>3. /\ \A g \in Edits \ {e} : /\ step'[g] = step[g] /\ placed'[g] = placed[g] /\ aimed'[g] = aimed[g]
                               /\ erased'[g] = erased[g] /\ Rivals(g)' \subseteq Rivals(g)
      /\ step'[e] = "failed" /\ placed'[e] = 0 /\ aimed'[e] = {} /\ erased'[e] = {}
  BY <1>1 DEF WInv, WorkflowTypeOK, Rivals
<1>4. Lists'
  BY <1>1, <1>3 DEF WInv, Lists, IsList, Stage
<1>5. Emptied'
  BY <1>1, <1>3 DEF WInv, Emptied, Rivals
<1>6. Placing'
  BY <1>1, <1>3 DEF WInv, Placing, Rivals
<1>7. Unseen' /\ Told'
  BY <1>1, <1>3 DEF WInv, Unseen, Told, Committed, Stage
<1> QED
  BY <1>2, <1>4, <1>5, <1>6, <1>7 DEF WInv

LEMMA NextWInv == WInv /\ [WorkflowNext]_workflowVars => WInv'
<1> SUFFICES ASSUME WInv, [WorkflowNext]_workflowVars PROVE WInv'
  OBVIOUS
<1>1. CASE UNCHANGED workflowVars
  <2>0. UNCHANGED <<step, flow, size, placed, aimed, erased, defined, rows, last, overlap>>
    BY <1>1 DEF workflowVars, edit, transaction
  <2>1. WorkflowTypeOK' /\ Lists'
    BY <2>0 DEF WInv, WorkflowTypeOK, Lists, IsList, Stage
  <2>2. Emptied' /\ Placing'
    BY <2>0 DEF WInv, Emptied, Placing, Rivals
  <2>3. Unseen' /\ Told'
    BY <2>0 DEF WInv, Unseen, Told, Committed, Stage
  <2> QED
    BY <2>1, <2>2, <2>3 DEF WInv
<1>2. CASE WorkflowNext
  BY <1>2, RequestKeepsWInv, BeginKeepsWInv, DeleteKeepsWInv, InsertKeepsWInv, CommitKeepsWInv, RollBackKeepsWInv
     DEF WorkflowNext
<1> QED
  BY <1>1, <1>2

\* The invariant holds in every behaviour.
LEMMA WInvHolds == WorkflowSpec => []WInv
<1> QED
  BY InitWInv, NextWInv, PTL DEF WorkflowSpec

\* Every variable of Workflows stays in its type.
THEOREM WorkflowTypes == WorkflowSpec => []WorkflowTypeOK
<1>1. WInv => WorkflowTypeOK
  BY DEF WInv
<1> QED
  BY <1>1, WInvHolds, PTL

\* ReplaceWorkflowStages (management.go): the stages of a workflow are the whole list of
\* one request, of the last one or of one it overlapped without a list of its own.
THEOREM StagesStayWhole == WorkflowSpec => []StagesAreOneList
<1>1. WInv => StagesAreOneList
  BY DEF WInv, WorkflowTypeOK, Lists, Told, StagesAreOneList
<1> QED
  BY <1>1, WInvHolds, PTL

-----------------------------------------------------------------------------
\* Pages.

\* Less-than on the naturals is well-founded, and so a set of them has a least.
LEMMA LeastOf ==
  ASSUME NEW less, IsWellFoundedOn(less, Nat), \A a, b \in Nat : a < b => <<a, b>> \in less,
         NEW S \in SUBSET Nat, S # {}
  PROVE  \E i \in S : \A j \in S : i <= j
<1>1. \E i \in S : \A j \in S : ~ (<<j, i>> \in less)
  BY ONLY WFMin, IsWellFoundedOn(less, Nat), S # {}, S \subseteq Nat
<1>2. PICK i \in S : \A j \in S : ~ (<<j, i>> \in less)
  BY <1>1, Zenon
<1>3. ASSUME NEW j \in S PROVE ~ (j < i)
  BY <1>2, Zenon
<1>4. \A j \in S : i <= j
  BY <1>3
<1> QED
  BY <1>4

\* The first and the final of some positions are what their names say.
LEMMA FirstOf ==
  ASSUME NEW S \in SUBSET Nat, S # {}
  PROVE  First(S) \in S /\ \A j \in S : First(S) <= j
<1>1. \A a, b \in Nat : a < b => <<a, b>> \in OpToRel(<, Nat)
  BY Zenon DEF OpToRel
<1>2. \E i \in S : \A j \in S : i <= j
  BY <1>1, NatLessThanWellFounded, LeastOf, Zenon
<1> QED
  BY <1>2 DEF First

LEMMA FinalOf ==
  ASSUME NEW S, NEW b \in Nat, S \subseteq 0..b, S # {}
  PROVE  Final(S) \in S /\ \A j \in S : j <= Final(S)
<1> DEFINE back == {b - j : j \in S}
<1>1. back \in SUBSET Nat /\ back # {}
  <2>1. \A j \in S : b - j \in Nat
    OBVIOUS
  <2>2. PICK j \in S : TRUE
    OBVIOUS
  <2>3. b - j \in back
    OBVIOUS
  <2> QED
    BY <2>1, <2>3
<1>2. First(back) \in back /\ \A j \in back : First(back) <= j
  <2> HIDE DEF back
  <2> QED
    BY <1>1, FirstOf
<1>3. PICK i \in S : First(back) = b - i
  BY <1>2
<1>4. \A j \in S : b - i <= b - j
  BY <1>2, <1>3
<1>5. \A j \in S : j <= i
  BY <1>4
<1> QED
  BY <1>5 DEF Final

\* While a trimmed page is cut: something but blanks ends it, and is still ahead.
TextAhead ==
  progress = "trimmed" =>
    /\ textEnd \in Inked(page) /\ start < textEnd
    /\ \A i \in Inked(page) : i <= textEnd

Covered(i, j) == \E n \in DOMAIN pieces : pieces[n][1] < i /\ j <= pieces[n][2]

\* Each short passage that begins in what the cut has left behind is in a piece.
LeftBehind ==
  progress = "trimmed" =>
    \A i, j \in Inked(page) : i <= j /\ j <= i + Overlap /\ i <= start => Covered(i, j)

\* The pieces there are began before the one to come, repeat no more than the overlap
\* with it, and do not reach the end.
PiecesBehind ==
  /\ progress = "read" => pieces = <<>>
  /\ progress = "trimmed" =>
       \A n \in DOMAIN pieces :
          pieces[n][1] < start /\ pieces[n][2] <= start + Overlap /\ pieces[n][2] < textEnd

PInv == PageTypeOK /\ TextAhead /\ LeftBehind /\ PiecesBehind /\ PiecesCoverPage

\* The initial state satisfies the invariant.
LEMMA PageInitPInv == PageInit => PInv
BY PageAssumptions DEF PageInit, PInv, PageTypeOK, TextAhead, LeftBehind, PiecesBehind, PiecesCoverPage, Inked, Runes

\* A rune that is read adds no piece.
LEMMA ReadKeeps ==
  ASSUME PInv, NEW r \in Runes, ReadRune(r)
  PROVE  PInv'
<1> USE DEF ReadRune
<1>1. PageTypeOK'
  <2>1. pieces' = <<>> /\ Len(page') = Len(page) + 1 /\ page' \in Seq(Runes)
    BY DEF PInv, PiecesBehind, PageTypeOK
  <2>2. start' \in 0..Len(page') /\ textEnd' \in 0..Len(page') /\ Len(page') <= MaxPage
    BY <2>1, PageAssumptions DEF PInv, PageTypeOK
  <2> QED
    BY <2>1, <2>2 DEF PInv, PageTypeOK
<1> QED
  BY <1>1 DEF PInv, TextAhead, LeftBehind, PiecesBehind, PiecesCoverPage

\* Trimming leaves out blanks only.
LEMMA TrimKeeps ==
  ASSUME PInv, Trim
  PROVE  PInv'
<1> DEFINE inked == Inked(page)
<1>1. inked \subseteq 1..Len(page) /\ Len(page) \in Nat /\ pieces = <<>>
  BY DEF PInv, PageTypeOK, PiecesBehind, Inked, Trim
<1>2. CASE inked = {}
  BY <1>1, <1>2 DEF Trim, PInv, PageTypeOK, TextAhead, LeftBehind, PiecesBehind, PiecesCoverPage, Inked
<1>3. CASE inked # {}
  <2>1. First(inked) \in inked /\ \A i \in inked : First(inked) <= i
    <3> HIDE DEF inked
    <3>1. inked \in SUBSET Nat
      BY <1>1
    <3> QED
      BY <3>1, <1>3, FirstOf
  <2>2. Final(inked) \in inked /\ \A i \in inked : i <= Final(inked)
    <3> HIDE DEF inked
    <3>1. inked \subseteq 0..Len(page)
      BY <1>1
    <3> QED
      BY <3>1, <1>1, <1>3, FinalOf
  <2>3. /\ progress' = "trimmed" /\ start' = First(inked) - 1 /\ textEnd' = Final(inked)
        /\ page' = page /\ pieces' = <<>> /\ Inked(page)' = inked
    BY <1>1, <1>3 DEF Trim
  <2> HIDE DEF inked
  <2>4. First(inked) \in 1..Len(page) /\ Final(inked) \in 1..Len(page)
    BY <1>1, <2>1, <2>2
  <2>5. PageTypeOK'
    <3>1. start' \in 0..Len(page') /\ textEnd' \in 0..Len(page')
      BY <1>1, <2>3, <2>4
    <3> QED
      BY <2>3, <3>1 DEF PInv, PageTypeOK
  <2>6. TextAhead'
    <3>1. First(inked) <= Final(inked)
      BY <2>1, <2>2
    <3>2. start' < textEnd'
      BY <2>3, <2>4, <3>1
    <3> QED
      BY <2>2, <2>3, <3>2 DEF TextAhead
  <2>7. \A i \in inked : ~ (i <= start')
    BY <1>1, <2>1, <2>3, <2>4
  <2>8. LeftBehind' /\ PiecesBehind' /\ PiecesCoverPage'
    BY <2>3, <2>7 DEF LeftBehind, PiecesBehind, PiecesCoverPage
  <2> QED
    BY <2>5, <2>6, <2>8 DEF PInv
<1> QED
  BY <1>2, <1>3

\* Where a piece ends: after its start, within the size, and beyond what it repeats
\* unless that is the end of the page.
LEMMA CutBounds ==
  ASSUME PInv, progress = "trimmed"
  PROVE  /\ EndOf \in (start + 1)..textEnd
         /\ EndOf - start <= ChunkSize
         /\ EndOf = textEnd \/ EndOf - Overlap > start
<1>1. start \in Nat /\ textEnd \in Nat /\ start < textEnd
  BY DEF PInv, PageTypeOK, TextAhead
<1>2. CASE start + ChunkSize > textEnd
  BY <1>1, <1>2, PageAssumptions DEF EndOf
<1>3. CASE ~ (start + ChunkSize > textEnd)
  <2> DEFINE full  == start + ChunkSize
             stops == {i \in (full - LookBack + 1)..full : page[i] \in Stops}
  <2>1. CutAt(full) = IF stops = {} THEN full ELSE Final(stops)
    BY DEF CutAt
  <2>2. stops \subseteq (full - LookBack + 1)..full
    OBVIOUS
  <2>3. EndOf = CutAt(full)
    BY <1>1, <1>3, PageAssumptions DEF EndOf
  <2>4. full \in Nat /\ full - LookBack > start + Overlap
    BY <1>1, PageAssumptions
  <2> HIDE DEF stops, full
  <2>5. stops \subseteq 0..full
    BY <2>2, <2>4, <1>1, PageAssumptions
  <2>6. stops # {} => Final(stops) \in stops
    BY <2>4, <2>5, FinalOf
  <2>7. CutAt(full) \in (full - LookBack)..full
    <3>1. CASE stops = {}
      BY <2>1, <2>4, <3>1, PageAssumptions
    <3>2. CASE stops # {}
      <4>1. Final(stops) \in (full - LookBack + 1)..full
        BY <2>2, <2>6, <3>2
      <4> QED
        BY <2>1, <2>4, <3>2, <4>1, PageAssumptions
    <3> QED
      BY <3>1, <3>2
  <2>8. full = start + ChunkSize
    BY DEF full
  <2> QED
    BY <1>1, <1>3, <2>3, <2>4, <2>7, <2>8, PageAssumptions
<1> QED
  BY <1>2, <1>3

\* A turn of the loop covers what begins before the next piece, or all that is left.
LEMMA CutCovers ==
  ASSUME PInv, CutPiece,
         NEW i \in Inked(page), NEW j \in Inked(page), i <= j, j <= i + Overlap, j <= EndOf
  PROVE  Covered(i, j)'
<1>1. progress = "trimmed"
  BY DEF CutPiece
<1>2. start \in Nat /\ EndOf \in Nat /\ i \in Nat /\ j \in Nat
  BY <1>1, CutBounds DEF PInv, PageTypeOK, Inked
<1>3. pieces \in Seq(Nat \X Nat)
  BY DEF PInv, PageTypeOK
<1>4. CASE i <= start
  <2>1. PICK n \in DOMAIN pieces : pieces[n][1] < i /\ j <= pieces[n][2]
    BY <1>1, <1>4 DEF PInv, LeftBehind, Covered
  <2>2. n \in DOMAIN pieces' /\ pieces'[n] = pieces[n]
    BY <1>2, <1>3, <2>1 DEF CutPiece
  <2> QED
    BY <2>1, <2>2 DEF Covered
<1>5. CASE start < i
  <2>1. i \in Inked(page) \cap (start + 1)..EndOf
    BY <1>2, <1>5
  <2>2. pieces' = Append(pieces, <<start, EndOf>>)
    BY <2>1 DEF CutPiece
  <2>3. Len(pieces) + 1 \in DOMAIN pieces' /\ pieces'[Len(pieces) + 1] = <<start, EndOf>>
    BY <2>2, <1>2, <1>3
  <2> QED
    BY <2>3, <1>2, <1>5 DEF Covered
<1> QED
  BY <1>2, <1>4, <1>5

\* A turn of the loop, once more: what it does to the pieces, and how far it gets.
LEMMA CutKeeps ==
  ASSUME PInv, CutPiece
  PROVE  PInv'
<1> DEFINE end == EndOf
<1>1. progress = "trimmed" /\ page' = page /\ textEnd' = textEnd /\ Inked(page)' = Inked(page)
  BY DEF CutPiece
<1>2. start \in Nat /\ textEnd \in 0..Len(page) /\ Len(page) \in Nat /\ start < textEnd
  BY <1>1 DEF PInv, PageTypeOK, TextAhead
<1>3. end \in (start + 1)..textEnd /\ end - start <= ChunkSize /\ (end = textEnd \/ end - Overlap > start)
  BY <1>1, CutBounds
<1>4. \/ pieces' = pieces
      \/ pieces' = Append(pieces, <<start, end>>)
  BY DEF CutPiece
<1>5. \/ end = textEnd /\ progress' = "split" /\ start' = start
      \/ end # textEnd /\ progress' = "trimmed" /\ start' = end - Overlap
  <2> HIDE DEF end
  <2>1. CASE end # textEnd
    <3>1. NextStart(end) = end - Overlap /\ NextStart(end) < textEnd
      BY <1>2, <1>3, <2>1, PageAssumptions DEF NextStart
    <3> QED
      BY <2>1, <3>1 DEF CutPiece, end
  <2> QED
    BY <2>1 DEF CutPiece, end
<1>6. pieces \in Seq((0..Len(page)) \X (0..Len(page)))
  BY DEF PInv, PageTypeOK
<1>7. \A i, j \in Inked(page) : i <= j /\ j <= i + Overlap /\ j <= end => Covered(i, j)'
  BY CutCovers
<1>8. Inked(page) \subseteq Nat
  BY DEF Inked, PInv, PageTypeOK
<1> HIDE DEF end
<1> DEFINE intervals == (0..Len(page)) \X (0..Len(page))
<1>9. <<start, end>> \in intervals
  BY <1>2, <1>3
<1>10. /\ pieces' \in Seq(intervals)
       /\ \A n \in DOMAIN pieces : n \in DOMAIN pieces' /\ pieces'[n] = pieces[n]
       /\ \A n \in DOMAIN pieces' :
            \/ n \in DOMAIN pieces /\ pieces'[n] = pieces[n]
            \/ n = Len(pieces) + 1 /\ pieces'[n] = <<start, end>>
  <2> DEFINE piece == <<start, end>>
  <2>1. pieces' = pieces \/ pieces' = Append(pieces, piece)
    BY <1>4
  <2>2. piece \in intervals /\ pieces \in Seq(intervals)
    BY <1>6, <1>9
  <2>3. piece = <<start, end>>
    OBVIOUS
  <2> HIDE DEF piece, intervals
  <2>4. CASE pieces' = pieces
    BY <2>2, <2>4
  <2>5. CASE pieces' = Append(pieces, piece)
    <3>1. pieces' \in Seq(intervals) /\ Len(pieces') = Len(pieces) + 1
      BY <2>2, <2>5
    <3>2. \A n \in 1..Len(pieces) : pieces'[n] = pieces[n]
      BY <2>2, <2>5
    <3>3. pieces'[Len(pieces) + 1] = piece
      BY <2>2, <2>5
    <3>4. Len(pieces) \in Nat /\ DOMAIN pieces = 1..Len(pieces) /\ DOMAIN pieces' = 1..(Len(pieces) + 1)
      BY <2>2, <3>1
    <3>5. \A n \in DOMAIN pieces' : n \in DOMAIN pieces \/ n = Len(pieces) + 1
      BY <3>4
    <3>6. \A n \in DOMAIN pieces : n \in DOMAIN pieces' /\ pieces'[n] = pieces[n]
      BY <3>2, <3>4
    <3> QED
      BY <2>3, <3>1, <3>3, <3>5, <3>6
  <2> QED
    BY <2>1, <2>4, <2>5
<1>11. Len(pieces) \in Nat /\ DOMAIN pieces = 1..Len(pieces)
  BY <1>6
<1>12. \A n \in DOMAIN pieces :
         /\ pieces[n][1] \in Nat /\ pieces[n][2] \in Nat
         /\ pieces[n][1] < start /\ pieces[n][2] <= start + Overlap /\ pieces[n][2] < textEnd
  BY <1>1, <1>6 DEF PInv, PiecesBehind
<1>13. PageTypeOK'
  <2>1. start' \in 0..Len(page)
    BY <1>2, <1>3, <1>5, PageAssumptions
  <2> QED
    BY <1>1, <1>5, <1>10, <2>1 DEF PInv, PageTypeOK
<1>14. TextAhead'
  <2>1. progress' = "trimmed" => start' < textEnd'
    BY <1>1, <1>2, <1>3, <1>5, PageAssumptions
  <2> QED
    BY <1>1, <2>1 DEF PInv, TextAhead
<1>15. LeftBehind'
  <2> SUFFICES ASSUME progress' = "trimmed",
                      NEW i \in Inked(page), NEW j \in Inked(page),
                      i <= j, j <= i + Overlap, i <= start'
               PROVE  Covered(i, j)'
    BY <1>1 DEF LeftBehind
  <2>1. j <= end
    BY <1>2, <1>3, <1>5, <1>8, PageAssumptions
  <2> QED
    BY <1>7, <2>1
<1>16. PiecesBehind'
  <2> SUFFICES ASSUME progress' = "trimmed", NEW n \in DOMAIN pieces'
               PROVE  /\ pieces'[n][1] < start' /\ pieces'[n][2] <= start' + Overlap
                      /\ pieces'[n][2] < textEnd'
    BY <1>5 DEF PiecesBehind
  <2>1. end < textEnd /\ start < start' /\ start' + Overlap = end /\ start' \in Nat /\ end \in Nat
    BY <1>2, <1>3, <1>5, PageAssumptions
  <2>2. CASE n \in DOMAIN pieces /\ pieces'[n] = pieces[n]
    BY <1>1, <1>2, <1>12, <2>1, <2>2, PageAssumptions
  <2>3. CASE n = Len(pieces) + 1 /\ pieces'[n] = <<start, end>>
    <3>1. pieces'[n][1] = start /\ pieces'[n][2] = end
      BY <2>3
    <3> QED
      BY <1>1, <2>1, <3>1
  <2> QED
    BY <1>10, <2>2, <2>3
<1>17. progress' = "split" =>
         \A i, j \in Inked(page)' : i <= j /\ j <= i + Overlap => Covered(i, j)'
  <2>1. progress' = "split" => \A i \in Inked(page) : i <= end
    BY <1>1, <1>5 DEF PInv, TextAhead
  <2> QED
    BY <1>1, <1>7, <2>1
<1>18. \A n \in DOMAIN pieces' :
         /\ pieces'[n][1] < pieces'[n][2] /\ pieces'[n][2] - pieces'[n][1] <= ChunkSize
         /\ \A m \in 1..(n - 1) :
              /\ pieces'[m][1] < pieces'[n][1] /\ pieces'[m][2] < pieces'[n][2]
              /\ pieces'[m][2] - pieces'[n][1] <= Overlap
  <2> TAKE n \in DOMAIN pieces'
  <2>1. CASE n \in DOMAIN pieces /\ pieces'[n] = pieces[n]
    <3>1. \A m \in 1..(n - 1) : m \in DOMAIN pieces /\ pieces'[m] = pieces[m]
      <4>1. \A m \in 1..(n - 1) : m \in DOMAIN pieces
        BY <1>11, <2>1
      <4> QED
        BY <1>10, <4>1
    <3> QED
      BY <2>1, <3>1 DEF PInv, PiecesCoverPage
  <2>2. CASE n = Len(pieces) + 1 /\ pieces'[n] = <<start, end>>
    <3>1. pieces'[n][1] = start /\ pieces'[n][2] = end /\ end \in Nat
      BY <1>2, <1>3, <2>2
    <3>2. start < end /\ end - start <= ChunkSize
      BY <1>2, <1>3
    <3>3. ASSUME NEW m \in 1..(n - 1)
          PROVE  /\ pieces'[m][1] < start /\ pieces'[m][2] < end
                 /\ pieces'[m][2] - start <= Overlap
      <4>1. m \in DOMAIN pieces /\ pieces'[m] = pieces[m]
        <5>1. m \in DOMAIN pieces
          BY <1>11, <2>2
        <5> QED
          BY <1>10, <5>1
      <4>2. pieces[m][2] <= start + Overlap => pieces[m][2] - start <= Overlap
        BY <1>2, <1>12, <4>1, PageAssumptions
      <4>3. pieces[m][2] < end
        BY <1>2, <1>3, <1>12, <4>1, PageAssumptions
      <4> QED
        BY <1>12, <4>1, <4>2, <4>3
    <3> QED
      BY <3>1, <3>2, <3>3
  <2> QED
    BY <1>10, <2>1, <2>2
<1>19. PiecesCoverPage'
  BY <1>17, <1>18 DEF PiecesCoverPage, Covered
<1> QED
  BY <1>13, <1>14, <1>15, <1>16, <1>19 DEF PInv

\* Every step keeps the invariant.
LEMMA PageStepPInv == PInv /\ [PageNext]_pageVars => PInv'
<1> SUFFICES ASSUME PInv, [PageNext]_pageVars PROVE PInv'
  OBVIOUS
<1>1. CASE UNCHANGED pageVars
  BY <1>1 DEF pageVars, PInv, PageTypeOK, TextAhead, LeftBehind, Covered, PiecesBehind, PiecesCoverPage
<1> QED
  BY <1>1, ReadKeeps, TrimKeeps, CutKeeps DEF PageNext

LEMMA PageInvariant == PageSpec => []PInv
BY PageInitPInv, PageStepPInv, PTL DEF PageSpec

\* Every variable of Pages stays in its type.
THEOREM PageTypes == PageSpec => []PageTypeOK
BY PageInvariant, PTL DEF PInv

\* Whatever the page and the sizes, as long as the look back for a stop and the overlap
\* together stay below the size of a piece: every passage as short as the overlap is
\* whole in a piece, no piece is too long or repeats more than the overlap.
THEOREM ShortPassagesAreWhole == PageSpec => []PiecesCoverPage
BY PageInvariant, PTL DEF PInv

\* The loop ends: each turn of it either is the last or begins the next piece further
\* on in the page, however stops and blanks lie.
THEOREM CutGoesOn ==
  PageSpec => [][CutPiece => progress' = "split" \/ (start < start' /\ start' < textEnd)]_pageVars
<1>1. PInv /\ CutPiece => progress' = "split" \/ (start < start' /\ start' < textEnd)
  <2> SUFFICES ASSUME PInv, CutPiece, progress' # "split"
               PROVE  start < start' /\ start' < textEnd
    OBVIOUS
  <2>1. progress = "trimmed" /\ start \in Nat /\ textEnd \in Nat
    BY DEF CutPiece, PInv, PageTypeOK
  <2>2. EndOf \in (start + 1)..textEnd /\ EndOf # textEnd /\ start' = NextStart(EndOf)
    BY <2>1, CutBounds DEF CutPiece
  <2>3. EndOf - Overlap > start
    BY <2>1, <2>2, CutBounds
  <2> QED
    BY <2>1, <2>2, <2>3, PageAssumptions DEF NextStart
<1> QED
  BY <1>1, PageInvariant, PTL DEF PageSpec

-----------------------------------------------------------------------------
\* The four together.

\* What moves one of the four is a step of its own, and none of the others notices.
LEMMA MovesAreSteps ==
  [LibraryMoves]_libraryVars =>
    [Next]_vars /\ [PageNext]_pageVars /\ [EmbedNext]_embedVars /\ [WorkflowNext]_workflowVars
<1>1. UNCHANGED libraryVars => UNCHANGED <<vars, pageVars, embedVars, workflowVars>>
  BY DEF libraryVars
<1> QED
  BY <1>1 DEF LibraryMoves, DocumentsMove, PagesMove, ChunksMove, WorkflowsMove

\* What is proved of each of the four holds of them together.
THEOREM LibraryIsItsParts == LibrarySpec => Spec /\ PageSpec /\ EmbedSpec /\ WorkflowSpec
<1>1. LibraryInit => Init /\ PageInit /\ EmbedInit /\ WorkflowInit
  BY DEF LibraryInit
<1> QED
  BY <1>1, MovesAreSteps, PTL DEF LibrarySpec, Spec, PageSpec, EmbedSpec, WorkflowSpec

\* Every variable of the four stays in its type.
THEOREM LibraryTypes == LibrarySpec => []LibraryTypeOK
<1>1. TypeOK /\ PageTypeOK /\ EmbedTypeOK /\ WorkflowTypeOK => LibraryTypeOK
  BY DEF LibraryTypeOK
<1> QED
  BY <1>1, LibraryIsItsParts, DocumentTypes, PageTypes, EmbeddingTypes, WorkflowTypes, PTL

=============================================================================
