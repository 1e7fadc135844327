---------------------------- MODULE VersionHistory ----------------------------
(***************************************************************************)
(* What is promised about the versions of documents, with no requests,     *)
(* objects, numbers or transactions in sight: every document has a history *)
(* that only grows at its end, by versions that are nowhere else. Readers  *)
(* are shown the version added last, but for those that were added while   *)
(* the document was hidden; these stay aside when it is shown again.       *)
(***************************************************************************)
EXTENDS Sequences

CONSTANTS Docs, Uploads, None

VARIABLES
  history,  \* history[d]: the versions of a document, oldest first
  shown,    \* shown[d]: the version readers get, None before there is one
  hidden    \* documents readers do not find

historyVars == <<history, shown, hidden>>

HistoryInit ==
  /\ history = [d \in Docs |-> <<>>]
  /\ shown   = [d \in Docs |-> None]
  /\ hidden  = {}

Recorded == UNION {{history[d][n] : n \in DOMAIN history[d]} : d \in Docs}

Extend(d, k) ==
  /\ shown'   = [shown EXCEPT ![d] = IF d \in hidden THEN @ ELSE k]
  /\ UNCHANGED hidden
  /\ k \notin Recorded
  /\ history' = [history EXCEPT ![d] = Append(@, k)]

Hide(d) ==
  /\ shown[d] # None /\ d \notin hidden
  /\ hidden' = hidden \cup {d}
  /\ UNCHANGED <<history, shown>>

Reveal(d) ==
  /\ d \in hidden
  /\ hidden' = hidden \ {d}
  /\ UNCHANGED <<history, shown>>

HistoryNext ==
  \E d \in Docs : Hide(d) \/ Reveal(d) \/ \E k \in Uploads : Extend(d, k)

HistorySpec == HistoryInit /\ [][HistoryNext]_historyVars
=============================================================================
