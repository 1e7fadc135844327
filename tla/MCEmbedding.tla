------------------------------ MODULE MCEmbedding ------------------------------
(***************************************************************************)
(* How often the embedding of one chunk is tried again: the queue of       *)
(* Embedding with a count kept beside it, on small instances, for TLC.     *)
(***************************************************************************)
EXTENDS Embedding, TLC

VARIABLE setBacks  \* history: failures that put a chunk back, in a row

retryVars == <<embedVars, setBacks>>

RetryInit == EmbedInit /\ setBacks = [c \in Chunks |-> 0]

\* What a step makes of the count; only FailEmbeddingChunk puts a claimed chunk back.
Counted(c) ==
  IF chunk[c] = "processing" /\ chunk'[c] = "pending" THEN setBacks[c] + 1
  ELSE IF chunk'[c] \in {"succeeded", "deleted"} THEN 0
  ELSE setBacks[c]

RetrySpec ==
  /\ RetryInit
  /\ [][EmbedNext /\ setBacks' = [c \in Chunks |-> Counted(c)]]_retryVars

\* "leases and bounded retries" (docs/ai-workspace.md:106), "Terminal failures remain
\* visible": the failure that makes it EmbedLimit of them in a row is terminal.
RetriesAreBounded == \A c \in Chunks : setBacks[c] < EmbedLimit
=============================================================================
