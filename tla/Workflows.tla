------------------------------- MODULE Workflows -------------------------------
(***************************************************************************)
(* Workflows and their lists of stages (CreateWorkflow and                 *)
(* ReplaceWorkflowStages of internal/http/handlers/management.go and       *)
(* internal/repository/management.go).                                     *)
(*                                                                         *)
(* A list is replaced by one transaction at READ COMMITTED: a DELETE, then *)
(* an INSERT for each stage. The DELETE decides which rows it is about     *)
(* from what was committed when it began, and waits for those another      *)
(* transaction is deleting; rows committed meanwhile it does not see. A    *)
(* stage is the edit it comes from and its sort_order; its name, colour    *)
(* and lists of tasks decide nothing here.                                 *)
(***************************************************************************)
EXTENDS Integers

CONSTANTS
  Workflows,  \* rows of workflow_definitions
  Edits,      \* requests that write a list of stages
  NoEdit,     \* a workflow whose list nobody has written yet
  MaxStages   \* stages of a list, at most (50)

ASSUME WorkflowAssumptions == NoEdit \notin Edits /\ MaxStages \in Nat

VARIABLES
  step,     \* of an edit: new, opened, deleting, inserting, done or failed
  flow,     \* the workflow an edit is about
  size,     \* how many stages it was sent with
  placed,   \* how many of them its transaction has inserted
  aimed,    \* rows its DELETE is about
  erased,   \* rows it deleted, not committed yet
  defined,  \* workflows that exist
  rows,     \* rows[f]: committed rows of workflow_stages, as <<edit, sort_order>>
  last,     \* history: the edit committed last for each workflow
  overlap   \* history: edits committed for the workflow since this one's DELETE began

edit         == <<flow, size>>
transaction  == <<placed, aimed, erased>>
workflowVars == <<step, edit, transaction, defined, rows, last, overlap>>

Stage(e, n) == {<<e, i>> : i \in 0..(n - 1)}
\* The other edits of the same workflow that have a transaction open.
Rivals(e) == {g \in Edits \ {e} : flow[g] = flow[e] /\ step[g] \in {"deleting", "inserting"}}

WorkflowInit ==
  /\ step    = [e \in Edits |-> "new"]
  /\ flow   \in [Edits -> Workflows]
  /\ size   \in [Edits -> 0..MaxStages]
  /\ placed  = [e \in Edits |-> 0]
  /\ aimed   = [e \in Edits |-> {}]
  /\ erased  = [e \in Edits |-> {}]
  /\ defined = {}
  /\ rows    = [f \in Workflows |-> {}]
  /\ last    = [f \in Workflows |-> NoEdit]
  /\ overlap = [e \in Edits |-> {}]

-----------------------------------------------------------------------------
\* The row of the workflow, in a statement of its own. Its answer may be lost, and
\* the list is then not written.
CreateWorkflow(e) ==
  /\ step[e] = "new" /\ flow[e] \notin defined
  /\ defined' = defined \cup {flow[e]}
  /\ \E next \in {"opened", "failed"} : step' = [step EXCEPT ![e] = next]
  /\ UNCHANGED <<edit, transaction, rows, last, overlap>>

\* A request that replaces the list of an existing workflow.
ReplaceRequest(e) ==
  /\ step[e] = "new" /\ flow[e] \in defined
  /\ step' = [step EXCEPT ![e] = "opened"]
  /\ UNCHANGED <<edit, transaction, defined, rows, last, overlap>>

BeginDelete(e) ==
  /\ step[e] = "opened"
  /\ step'    = [step    EXCEPT ![e] = "deleting"]
  /\ aimed'   = [aimed   EXCEPT ![e] = rows[flow[e]]]
  /\ UNCHANGED <<edit, placed, erased, defined, rows, last, overlap>>

\* Rows another transaction has deleted are waited for, and skipped once it committed.
DeleteStages(e) ==
  /\ step[e] = "deleting"
  /\ \A g \in Rivals(e) : erased[g] \cap aimed[e] = {}
  /\ step'   = [step   EXCEPT ![e] = "inserting"]
  /\ erased' = [erased EXCEPT ![e] = aimed[e] \cap rows[flow[e]]]
  /\ UNCHANGED <<edit, placed, aimed, defined, rows, last, overlap>>

\* Variant: no UNIQUE (workflow_id, sort_order).
PlaceIsAlwaysFree(e) == step[e] = "inserting"

\* No row has this sort_order, committed or not, but those the edit deleted itself. An
\* INSERT waits for one that is not committed, and fails if it becomes so.
PlaceIsFree(e) ==
  /\ \A r \in rows[flow[e]] \ erased[e] : r[2] # placed[e]
  /\ \A g \in Rivals(e) : placed[g] <= placed[e]

InsertStage(e) ==
  /\ step[e] = "inserting" /\ placed[e] < size[e]
  /\ PlaceIsFree(e)
  /\ placed' = [placed EXCEPT ![e] = @ + 1]
  /\ UNCHANGED <<step, edit, aimed, erased, defined, rows, last, overlap>>

EndTransaction(e) ==
  /\ placed' = [placed EXCEPT ![e] = 0]
  /\ aimed'  = [aimed  EXCEPT ![e] = {}]
  /\ erased' = [erased EXCEPT ![e] = {}]

\* The caller may get an error although the list is written.
CommitStages(e) ==
  /\ step[e] = "inserting" /\ placed[e] = size[e]
  /\ rows'    = [rows EXCEPT ![flow[e]] = (@ \ erased[e]) \cup Stage(e, size[e])]
  /\ last'    = [last EXCEPT ![flow[e]] = e]
  /\ overlap' = [g \in Edits |-> IF g \in Rivals(e) THEN overlap[g] \cup {e} ELSE overlap[g]]
  /\ \E next \in {"done", "failed"} : step' = [step EXCEPT ![e] = next]
  /\ EndTransaction(e)
  /\ UNCHANGED <<edit, defined>>

\* A statement fails, for one because the sort_order is taken, or the process dies.
RollBackStages(e) ==
  /\ step[e] \in {"opened", "deleting", "inserting"}
  /\ step' = [step EXCEPT ![e] = "failed"]
  /\ EndTransaction(e)
  /\ UNCHANGED <<edit, defined, rows, last, overlap>>

WorkflowNext ==
  \E e \in Edits :
    \/ CreateWorkflow(e) \/ ReplaceRequest(e)
    \/ BeginDelete(e) \/ DeleteStages(e) \/ InsertStage(e)
    \/ CommitStages(e) \/ RollBackStages(e)

WorkflowSpec == WorkflowInit /\ [][WorkflowNext]_workflowVars

-----------------------------------------------------------------------------
\* Every variable stays in its type.
WorkflowTypeOK ==
  /\ step \in [Edits -> {"new", "opened", "deleting", "inserting", "done", "failed"}]
  /\ flow \in [Edits -> Workflows] /\ size \in [Edits -> 0..MaxStages]
  /\ placed \in [Edits -> 0..MaxStages]
  /\ aimed \in [Edits -> SUBSET (Edits \X (0..MaxStages))]
  /\ erased \in [Edits -> SUBSET (Edits \X (0..MaxStages))]
  /\ defined \subseteq Workflows
  /\ rows \in [Workflows -> SUBSET (Edits \X (0..MaxStages))]
  /\ last \in [Workflows -> Edits \cup {NoEdit}]
  /\ overlap \in [Edits -> SUBSET Edits]

\* docs/workflows.md, ordered stages: however the edits of one workflow overlap, its
\* stages are the whole list of one of them, of the one committed last, or of one
\* committed while that one was emptying the list. A list nobody wrote belongs to a
\* workflow whose creation was reported as failed.
StagesAreOneList ==
  \A f \in defined :
    IF last[f] = NoEdit
    THEN rows[f] = {} /\ \A e \in Edits : step[e] = "done" => flow[e] # f
    ELSE LET from == {last[f]} \cup IF size[last[f]] = 0 THEN overlap[last[f]] ELSE {}
         IN  \E e \in from : rows[f] = Stage(e, size[e])
=============================================================================
