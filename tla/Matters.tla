------------------------------- MODULE Matters -------------------------------
(***************************************************************************)
(* The life of a matter: creation, status changes, the work opened in it,  *)
(* structured archive and reopening (internal/repository/admin.go,         *)
(* management.go, legal.go and their handlers).                            *)
(*                                                                         *)
(* An archive request counts the open work in one statement and closes the *)
(* matter in later ones of the same READ COMMITTED transaction, while      *)
(* others open and finish work. Who may do what is left out: any request   *)
(* may be refused before it touches the database.                          *)
(***************************************************************************)
EXTENDS Integers, Sequences, FiniteSets

CONSTANTS
  Matters,   \* identities of matters
  Work,      \* identities of tasks, deadlines, hearings and financial entries
  Requests,  \* identities of archive requests
  NoMatter   \* no matter, no closure

Closures == [request : Requests, tasks : Nat, deadlines : Nat, financial : BOOLEAN]

ASSUME MatterAssumptions ==
  NoMatter \notin Matters /\ NoMatter \notin Closures /\ IsFiniteSet(Work)

VARIABLES
  status,    \* matters.status, "absent" before the matter exists
  archived,  \* matters with archived_at set
  closure,   \* matter_closures: the row of a matter, NoMatter without it
  timeline,  \* matter_events of a matter about archive and reopening
  kind,      \* what each piece of work is, "none" before it exists
  place,     \* the matter it is in
  open,      \* the work that is neither done, completed, cancelled, past nor paid
  stage,     \* archive requests: new, counted or finished
  subject,   \* the matter a request is about
  force,     \* requests that confirm the warnings
  counted,   \* the open work a request's count saw
  late,      \* history: work opened in its matter since a request counted
  rejected   \* history: confirmed requests refused although the matter was not archived

matter  == <<status, archived, closure, timeline>>
work    == <<kind, place, open>>
request == <<stage, subject, force, counted>>
matterVars    == <<matter, work, request, late, rejected>>

Statuses == {"draft", "active", "on_hold", "closing"}
Kinds    == {"task", "deadline", "hearing", "fee"}

Exists(m) == status[m] # "absent"

MatterInit ==
  /\ status   = [m \in Matters |-> "absent"]
  /\ archived = {}
  /\ closure  = [m \in Matters |-> NoMatter]
  /\ timeline = [m \in Matters |-> <<>>]
  /\ kind     = [w \in Work |-> "none"]
  /\ place    = [w \in Work |-> NoMatter]
  /\ open     = {}
  /\ stage    = [q \in Requests |-> "new"]
  /\ subject  = [q \in Requests |-> NoMatter]
  /\ force    = {}
  /\ counted  = [q \in Requests |-> {}]
  /\ late     = [q \in Requests |-> {}]
  /\ rejected = {}

-----------------------------------------------------------------------------
\* Matters and their work.

CreateMatter(m, s) ==
  /\ ~Exists(m)
  /\ status' = [status EXCEPT ![m] = s]
  /\ UNCHANGED <<archived, closure, timeline, work, request, late, rejected>>

\* Any status but "archived", whether or not the matter is archived.
UpdateMatterStatus(m, s) ==
  /\ Exists(m)
  /\ status' = [status EXCEPT ![m] = s]
  /\ UNCHANGED <<archived, closure, timeline, work, request, late, rejected>>

\* Work w is open in m from now on.
Opens(w, m) ==
  /\ open' = open \cup {w}
  /\ late' = [q \in Requests |-> IF stage[q] = "counted" /\ subject[q] = m
                                THEN late[q] \cup {w} ELSE late[q]]

\* A task, a deadline, a future hearing or an unpaid fee, cost or expense.
CreateWork(w, m, k) ==
  /\ Exists(m)
  /\ kind[w] = "none"
  /\ kind'  = [kind EXCEPT ![w] = k]
  /\ place' = [place EXCEPT ![w] = m]
  /\ Opens(w, m)
  /\ UNCHANGED <<matter, request, rejected>>

\* A task or a deadline is finished, a hearing passes. Nothing ever pays a fee.
FinishWork(w) ==
  /\ w \in open
  /\ kind[w] # "fee"
  /\ open' = open \ {w}
  /\ UNCHANGED <<matter, kind, place, request, late, rejected>>

\* A finished task or deadline is set back.
ReopenWork(w) ==
  /\ w \notin open
  /\ kind[w] \in {"task", "deadline"}
  /\ Opens(w, place[w])
  /\ UNCHANGED <<matter, kind, place, request, rejected>>

-----------------------------------------------------------------------------
\* Archive.

\* Variant: deadlines do not count.
OpenButDeadlines(m) == {w \in open : place[w] = m /\ kind[w] # "deadline"}

OpenIn(m) == {w \in open : place[w] = m}

\* The first statement of the transaction. Without a confirmation, open work
\* ends the request with warnings.
CountWork(q, m) ==
  /\ stage[q] = "new"
  /\ Exists(m)
  /\ \/ /\ stage'   = [stage EXCEPT ![q] = "counted"]
        /\ subject' = [subject EXCEPT ![q] = m]
        /\ counted' = [counted EXCEPT ![q] = OpenIn(m)]
        /\ \/ OpenIn(m) = {} /\ UNCHANGED force
           \/ force' = force \cup {q}
     \/ /\ OpenIn(m) # {}
        /\ stage' = [stage EXCEPT ![q] = "finished"]
        /\ UNCHANGED <<subject, force, counted>>
  /\ UNCHANGED <<matter, work, late, rejected>>

\* The request is over, with everything it read.
Finish(q) ==
  /\ stage'   = [stage EXCEPT ![q] = "finished"]
  /\ subject' = [subject EXCEPT ![q] = NoMatter]
  /\ force'   = force \ {q}
  /\ counted' = [counted EXCEPT ![q] = {}]
  /\ late'    = [late EXCEPT ![q] = {}]

CountOf(items, k) == Cardinality({w \in items : kind[w] = k})

\* The closure that is stored: hearings are not part of it.
Closure(q) ==
  [request   |-> q,
   tasks     |-> CountOf(counted[q], "task"),
   deadlines |-> CountOf(counted[q], "deadline"),
   financial |-> CountOf(counted[q], "fee") > 0]

\* Variant: no UNIQUE (matter_id).
AnyClosureStored(m) == Exists(m)

MayStoreClosure(m) == closure[m] = NoMatter

\* Closure, status and timeline, then the commit.
ArchiveMatter(q) ==
  LET m == subject[q] IN
  /\ stage[q] = "counted"
  /\ MayStoreClosure(m)
  /\ closure'  = [closure EXCEPT ![m] = Closure(q)]
  /\ status'   = [status EXCEPT ![m] = "archived"]
  /\ archived' = archived \cup {m}
  /\ timeline' = [timeline EXCEPT ![m] = Append(@, "archived")]
  /\ Finish(q)
  /\ UNCHANGED <<work, rejected>>

\* The closure conflicts with an earlier one of the same matter.
RejectArchive(q) ==
  LET m == subject[q] IN
  /\ stage[q] = "counted"
  /\ ~MayStoreClosure(m)
  /\ rejected' = IF q \in force /\ m \notin archived THEN rejected \cup {q} ELSE rejected
  /\ Finish(q)
  /\ UNCHANGED <<matter, work>>

\* The transaction fails, or its process dies.
LoseRequest(q) ==
  /\ stage[q] = "counted"
  /\ Finish(q)
  /\ UNCHANGED <<matter, work, rejected>>

StatusReopened == "active"

MayReopen(m) == m \in archived

\* Variant: the status is left alone.
ReopenKeepsStatus(m) == UNCHANGED status

ResetStatus(m) == status' = [status EXCEPT ![m] = StatusReopened]

\* The closure stays.
ReopenMatter(m) ==
  /\ MayReopen(m)
  /\ archived' = archived \ {m}
  /\ ResetStatus(m)
  /\ timeline' = [timeline EXCEPT ![m] = Append(@, "reopened")]
  /\ UNCHANGED <<closure, work, request, late, rejected>>

-----------------------------------------------------------------------------
MatterNext ==
  \/ \E m \in Matters :
       \/ \E s \in Statuses : CreateMatter(m, s) \/ UpdateMatterStatus(m, s)
       \/ \E w \in Work, k \in Kinds : CreateWork(w, m, k)
       \/ \E q \in Requests : CountWork(q, m)
       \/ ReopenMatter(m)
  \/ \E w \in Work : FinishWork(w) \/ ReopenWork(w)
  \/ \E q \in Requests : ArchiveMatter(q) \/ RejectArchive(q) \/ LoseRequest(q)

MatterSpec == MatterInit /\ [][MatterNext]_matterVars

-----------------------------------------------------------------------------
\* Every variable stays in its range.
MatterTypeOK ==
  /\ status   \in [Matters -> Statuses \cup {"absent", "archived"}]
  /\ archived \subseteq {m \in Matters : Exists(m)}
  /\ closure  \in [Matters -> Closures \cup {NoMatter}]
  /\ timeline \in [Matters -> Seq({"archived", "reopened"})]
  /\ kind     \in [Work -> Kinds \cup {"none"}]
  /\ place    \in [Work -> Matters \cup {NoMatter}]
  /\ open     \subseteq Work
  /\ stage    \in [Requests -> {"new", "counted", "finished"}]
  /\ subject  \in [Requests -> Matters \cup {NoMatter}]
  /\ force    \subseteq Requests /\ rejected \subseteq Requests
  /\ counted  \in [Requests -> SUBSET Work]
  /\ late     \in [Requests -> SUBSET Work]

\* However archive requests, reopenings and status changes interleave, the
\* timeline of a matter tells whether it is archived, no entry is ever there
\* twice, and an entry "archived" comes with the closure that explains it.
TimelineTellsArchive ==
  \A m \in Matters :
    /\ timeline[m] \in {<<>>, <<"archived">>, <<"archived", "reopened">>}
    /\ m \in archived <=> timeline[m] = <<"archived">>
    /\ closure[m] = NoMatter <=> timeline[m] = <<>>

\* A matter shown as archived is one: its archived_at is set. (The converse
\* fails: UpdateMatterStatus does not look at archived_at.)
ArchivedStatusIsBacked ==
  \A m \in Matters : status[m] = "archived" => m \in archived

\* Work that an unconfirmed archive closed over was opened while the request
\* was between its count and its commit: no kind of work escapes the count.
OverlookedCameLate ==
  [][\A q \in Requests :
       stage[q] = "counted" /\ archived' # archived /\ closure'[subject[q]] # closure[subject[q]]
         /\ closure'[subject[q]].request = q /\ q \notin force
       => {w \in open : place[w] = subject[q]} \subseteq late[q]]_matterVars

\* "Authorized users may proceed while preserving warning counts and closure
\* metadata. Archived Matters ... can be reopened" (README.md:170): who
\* confirms the archive of a matter that is not archived is not turned away.
ConfirmedArchiveAccepted == rejected = {}

=============================================================================
