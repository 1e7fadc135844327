------------------------------- MODULE Embedding -------------------------------
(***************************************************************************)
(* The queue of chunks that get an embedding (ClaimEmbeddingChunks,        *)
(* CompleteEmbeddingChunk, FailEmbeddingChunk of                           *)
(* internal/repository/retrieval.go; internal/ai/embedding_worker.go).     *)
(*                                                                         *)
(* The rows are the chunks of module Extraction, which inserts them and    *)
(* deletes them. A worker claims a batch, asks the provider once for all   *)
(* of it and stores the answers one by one. Replicas may run different     *)
(* embedding models, as they do while a new one is rolled out. Time is not *)
(* modelled: a chunk that was set back may be claimed again, and so may    *)
(* one whose lease lapsed, even under a worker that was only suspended.    *)
(***************************************************************************)
EXTENDS Integers, FiniteSets

CONSTANTS
  Chunks,      \* rows of document_chunks; a row that was deleted never returns
  Embedders,   \* worker processes
  Models,      \* embedding models
  NoModel,     \* a chunk without an embedding
  Unclaimed,   \* a chunk without a lease
  EmbedLimit,  \* failed attempts after which a chunk is given up (5)
  BatchLimit,  \* chunks of one claim (32)
  MaxClaims    \* bound: batches claimed

ASSUME EmbeddingAssumptions ==
  /\ NoModel \notin Models /\ Unclaimed \notin Embedders
  /\ EmbedLimit \in Nat \ {0, 1} /\ BatchLimit \in Nat \ {0} /\ MaxClaims \in Nat

VARIABLES
  chunk,    \* embedding_status, or absent
  shown,    \* chunks of the current version of a document that is not deleted
  vector,   \* embedding_model of the stored embedding
  attempts, \* embedding_attempts
  holder,   \* embedding_locked_by
  model,    \* the model each worker is configured with
  phase,    \* of a worker: idle, asking, storing or failing
  batch,    \* batch[w][c]: attempts the claim returned for c, 0 if c is not in hand
  claims    \* bound: claims so far

rowVars    == <<chunk, shown, vector, attempts, holder>>
workerVars == <<model, phase, batch>>
embedVars  == <<rowVars, workerVars, claims>>

Nothing == [c \in Chunks |-> 0]
InHand(w) == {c \in Chunks : batch[w][c] > 0}

EmbedInit ==
  /\ chunk    = [c \in Chunks |-> "absent"]
  /\ shown    = {}
  /\ vector   = [c \in Chunks |-> NoModel]
  /\ attempts = [c \in Chunks |-> 0]
  /\ holder   = [c \in Chunks |-> Unclaimed]
  /\ model   \in [Embedders -> Models]
  /\ phase    = [w \in Embedders |-> "idle"]
  /\ batch    = [w \in Embedders |-> Nothing]
  /\ claims   = 0

-----------------------------------------------------------------------------
\* What extraction and the requests on documents do to the rows.

InsertChunk(c) ==
  /\ chunk[c] = "absent"
  /\ chunk' = [chunk EXCEPT ![c] = "pending"]
  /\ shown' = shown \cup {c}
  /\ UNCHANGED <<vector, attempts, holder, workerVars, claims>>

\* A newer version, a deletion or a restoration of its document.
ShowOrHide(c) ==
  /\ chunk[c] \notin {"absent", "deleted"}
  /\ shown' = IF c \in shown THEN shown \ {c} ELSE shown \cup {c}
  /\ UNCHANGED <<chunk, vector, attempts, holder, workerVars, claims>>

\* The DELETE of replaceDocumentChunks.
DeleteChunk(c) ==
  /\ chunk[c] \notin {"absent", "deleted"}
  /\ chunk'    = [chunk    EXCEPT ![c] = "deleted"]
  /\ shown'    = shown \ {c}
  /\ vector'   = [vector   EXCEPT ![c] = NoModel]
  /\ attempts' = [attempts EXCEPT ![c] = 0]
  /\ holder'   = [holder   EXCEPT ![c] = Unclaimed]
  /\ UNCHANGED <<workerVars, claims>>

-----------------------------------------------------------------------------
\* The worker.

Candidates(w) ==
  {c \in shown : \/ chunk[c] \in {"pending", "processing"}
                 \/ chunk[c] = "succeeded" /\ vector[c] # model[w]}

\* A chunk without an embedding is, to SQL, DISTINCT FROM every model.
AttemptsOf(w, c) == IF vector[c] # model[w] THEN 1 ELSE attempts[c] + 1

\* Which candidates come first, and which a concurrent claim made it skip, is open.
ClaimChunks(w) ==
  /\ phase[w] = "idle"
  /\ claims < MaxClaims
  /\ claims' = claims + 1
  /\ \E S \in SUBSET Candidates(w) \ {{}} :
       /\ Cardinality(S) <= BatchLimit
       /\ chunk'    = [c \in Chunks |-> IF c \in S THEN "processing" ELSE chunk[c]]
       /\ holder'   = [c \in Chunks |-> IF c \in S THEN w ELSE holder[c]]
       /\ attempts' = [c \in Chunks |-> IF c \in S THEN AttemptsOf(w, c) ELSE attempts[c]]
       /\ batch'    = [batch EXCEPT ![w] =
                         [c \in Chunks |-> IF c \in S THEN AttemptsOf(w, c) ELSE 0]]
  /\ phase' = [phase EXCEPT ![w] = "asking"]
  /\ UNCHANGED <<shown, vector, model>>

\* Embed: an error, or a wrong number of vectors, fails the whole batch.
EmbedBatch(w) ==
  /\ phase[w] = "asking"
  /\ \E next \in {"storing", "failing"} : phase' = [phase EXCEPT ![w] = next]
  /\ UNCHANGED <<rowVars, model, batch, claims>>

\* A worker goes on with the rest of its batch, or is idle again.
DropItem(w, c) ==
  /\ batch' = [batch EXCEPT ![w][c] = 0]
  /\ phase' = [phase EXCEPT ![w] = IF InHand(w) = {c} THEN "idle" ELSE @]

\* Variant: the statements without AND embedding_locked_by=$3.
HeldOnce(w, c) == c \in Chunks /\ batch[w][c] > 0
Fenced(w, c)   == holder[c] = w

\* CompleteEmbeddingChunk, answered.
CompleteChunk(w, c) ==
  /\ phase[w] = "storing" /\ c \in InHand(w)
  /\ Fenced(w, c)
  /\ chunk'  = [chunk  EXCEPT ![c] = "succeeded"]
  /\ vector' = [vector EXCEPT ![c] = model[w]]
  /\ holder' = [holder EXCEPT ![c] = Unclaimed]
  /\ DropItem(w, c)
  /\ UNCHANGED <<shown, attempts, model, claims>>

\* FailEmbeddingChunk judges by the attempts its claim returned.
FailRow(w, c) ==
  /\ Fenced(w, c)
  /\ chunk'  = [chunk EXCEPT ![c] = IF batch[w][c] >= EmbedLimit THEN "failed" ELSE "pending"]
  /\ holder' = [holder EXCEPT ![c] = Unclaimed]
  /\ UNCHANGED vector

\* The answer was lost after the embedding was stored: what FailEmbeddingChunk
\* then looks for is no longer locked.
StoreUnnoticed(w, c) ==
  /\ phase[w] = "storing"
  /\ Fenced(w, c)
  /\ chunk'  = [chunk  EXCEPT ![c] = "succeeded"]
  /\ vector' = [vector EXCEPT ![c] = model[w]]
  /\ holder' = [holder EXCEPT ![c] = Unclaimed]

\* The failure of one item: of the whole batch, or of its own storing.
FailChunk(w, c) ==
  /\ phase[w] \in {"storing", "failing"} /\ c \in InHand(w)
  /\ \/ FailRow(w, c)
     \/ StoreUnnoticed(w, c)
     \/ UNCHANGED <<chunk, vector, holder>>
  /\ DropItem(w, c)
  /\ UNCHANGED <<shown, attempts, model, claims>>

\* The 90 seconds of a batch are over, or the process is replaced by one that
\* may run another model: what it held stays locked until the lease lapses.
StopEmbedder(w) ==
  /\ phase' = [phase EXCEPT ![w] = "idle"]
  /\ batch' = [batch EXCEPT ![w] = Nothing]
  /\ \E m \in Models : model' = [model EXCEPT ![w] = m]
  /\ UNCHANGED <<rowVars, claims>>

EmbedNext ==
  \/ \E c \in Chunks : InsertChunk(c) \/ ShowOrHide(c) \/ DeleteChunk(c)
  \/ \E w \in Embedders :
       \/ ClaimChunks(w) \/ EmbedBatch(w) \/ StopEmbedder(w)
       \/ \E c \in Chunks : CompleteChunk(w, c) \/ FailChunk(w, c)

EmbedSpec == EmbedInit /\ [][EmbedNext]_embedVars

-----------------------------------------------------------------------------
\* Every variable stays in its type.
EmbedTypeOK ==
  /\ chunk \in [Chunks -> {"absent", "pending", "processing", "succeeded", "failed", "deleted"}]
  /\ shown \subseteq Chunks
  /\ vector \in [Chunks -> Models \cup {NoModel}]
  /\ attempts \in [Chunks -> Nat]
  /\ holder \in [Chunks -> Embedders \cup {Unclaimed}]
  /\ model \in [Embedders -> Models]
  /\ phase \in [Embedders -> {"idle", "asking", "storing", "failing"}]
  /\ batch \in [Embedders -> [Chunks -> Nat]]
  /\ claims \in 0..MaxClaims

\* An embedding goes only with its chunk; and one that is stored is of the model its
\* worker runs, for a chunk nobody has claimed since that worker did: a worker that
\* comes late, or was replaced, writes nothing over what a later claim stored.
StoredUnderLease ==
  [][\A c \in Chunks :
       vector'[c] # vector[c] =>
         \/ chunk'[c] = "deleted" /\ vector'[c] = NoModel
         \/ \E w \in Embedders :
              /\ vector'[c] = model[w] /\ chunk'[c] = "succeeded"
              /\ phase[w] = "storing" /\ chunk[c] = "processing"
              /\ batch[w][c] > 0 /\ batch[w][c] = attempts[c]]_embedVars
=============================================================================
