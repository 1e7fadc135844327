------------------------------ MODULE TextPromise ------------------------------
(***************************************************************************)
(* What is promised about the text of versions, with no workers, leases,   *)
(* attempts or transactions in sight. The text of a version is wanted once *)
(* it is uploaded, and again whenever somebody asks. A wish is met, by     *)
(* pages and an index of none but these, or given up, and nothing changes  *)
(* the text of a version while nobody wants it.                            *)
(***************************************************************************)
CONSTANTS Versions, Pages

VARIABLES
  wish,    \* none, wanted, met or given up
  stored,  \* the pages of a version
  indexed  \* those of them that retrieval finds

promiseVars == <<wish, stored, indexed>>

PromiseInit ==
  /\ wish    = [k \in Versions |-> "none"]
  /\ stored  = [k \in Versions |-> {}]
  /\ indexed = [k \in Versions |-> {}]

Becomes(k, w) == wish' = [wish EXCEPT ![k] = w]

Want(k) == Becomes(k, "wanted") /\ UNCHANGED <<stored, indexed>>

Meet(k) ==
  /\ wish[k] = "wanted"
  /\ Becomes(k, "met")
  /\ \E found \in SUBSET Pages : \E some \in SUBSET found :
       /\ stored'  = [stored EXCEPT ![k] = found]
       /\ indexed' = [indexed EXCEPT ![k] = some]

GiveUp(k) ==
  /\ wish[k] = "wanted"
  /\ Becomes(k, "given up")
  /\ UNCHANGED <<stored, indexed>>

PromiseNext == \E k \in Versions : Want(k) \/ Meet(k) \/ GiveUp(k)

PromiseSpec == PromiseInit /\ [][PromiseNext]_promiseVars
=============================================================================
