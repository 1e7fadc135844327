------------------------------- MODULE MCLibrary -------------------------------
(***************************************************************************)
(* What a firm keeps, on small instances, for TLC: its documents, how      *)
(* their pages are cut and the pieces embedded, and the stages of its      *)
(* workflows. The four share no variable: a version is there before        *)
(* anything is extracted from it, what becomes of it later the embedding   *)
(* queue lets happen at any time, and no matter or document refers to a    *)
(* stage. One of them moves, the others stay as they began.                *)
(***************************************************************************)
EXTENDS Documents, Pages, Embedding, Workflows, TLC

VARIABLE side  \* what this behaviour is about

libraryVars == <<vars, pageVars, embedVars, workflowVars, side>>

LibraryInit ==
  /\ Init /\ PageInit /\ EmbedInit /\ WorkflowInit
  /\ side \in {"documents", "pages", "chunks", "workflows"}
  /\ side # "workflows" => \A e \in Edits : size[e] = 0
  /\ side # "chunks" => \A w, v \in Embedders : model[w] = model[v]

DocumentsMove == side = "documents" /\ Next /\ UNCHANGED <<pageVars, embedVars, workflowVars, side>>
PagesMove     == side = "pages" /\ PageNext /\ UNCHANGED <<vars, embedVars, workflowVars, side>>
ChunksMove    == side = "chunks" /\ EmbedNext /\ UNCHANGED <<vars, pageVars, workflowVars, side>>
WorkflowsMove == side = "workflows" /\ WorkflowNext /\ UNCHANGED <<vars, pageVars, embedVars, side>>

LibraryMoves == DocumentsMove \/ PagesMove \/ ChunksMove \/ WorkflowsMove

LibrarySpec == LibraryInit /\ [][LibraryMoves]_libraryVars

\* Uploads and documents are interchangeable, and so are chunks and models, which the
\* same values as the documents stand for.
LibrarySymmetry == Permutations(Uploads) \cup Permutations(Docs)

\* Every variable stays in its type.
LibraryTypeOK == TypeOK /\ PageTypeOK /\ EmbedTypeOK /\ WorkflowTypeOK
=============================================================================
