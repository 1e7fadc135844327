--------------------------------- MODULE Pages ---------------------------------
(***************************************************************************)
(* How an extracted page is cut into overlapping pieces                    *)
(* (splitExtractionPage of internal/repository/retrieval.go): trimmed      *)
(* first, then one piece per turn of its loop. A page is a sequence of     *)
(* runes, of which only what they mean to the cut is kept: a letter, a     *)
(* stop ('.' or ';'), a newline, which is both a stop and blank, or another*)
(* blank. Positions are those of the page, and a piece is the interval it  *)
(* was cut from.                                                           *)
(***************************************************************************)
EXTENDS Integers, Sequences

CONSTANTS
  ChunkSize,  \* runes of a piece, at most (1800)
  Overlap,    \* runes a piece repeats of the one before (250)
  LookBack,   \* how far back from the end a stop is looked for (300)
  MaxPage     \* bound: runes of a page

ASSUME PageAssumptions ==
  /\ ChunkSize \in Nat \ {0} /\ Overlap \in Nat /\ LookBack \in Nat /\ MaxPage \in Nat
  /\ LookBack + Overlap < ChunkSize

VARIABLES
  page,      \* what the extraction made of a page
  progress,  \* of the cut: the page is "read", "trimmed" or "split"
  start,     \* the piece to be cut begins after this position
  textEnd,   \* the last position of the trimmed page
  pieces     \* <<start, end>> of the pieces so far

pageVars == <<page, progress, start, textEnd, pieces>>

Runes     == {"letter", "stop", "newline", "blank"}
Blanks    == {"newline", "blank"}
Stops     == {"stop", "newline"}

PageInit ==
  /\ page = <<>> /\ progress = "read"
  /\ start = 0 /\ textEnd = 0 /\ pieces = <<>>

\* Any page comes into being, rune by rune.
ReadRune(r) ==
  /\ progress = "read" /\ Len(page) < MaxPage
  /\ page' = Append(page, r)
  /\ UNCHANGED <<progress, start, textEnd, pieces>>

-----------------------------------------------------------------------------
Inked(p) == {i \in DOMAIN p : p[i] \notin Blanks}

First(S) == CHOOSE i \in S : \A j \in S : i <= j
Final(S) == CHOOSE i \in S : \A j \in S : j <= i

\* strings.TrimSpace; of a blank page nothing is left.
Trim ==
  /\ progress = "read"
  /\ IF Inked(page) = {} THEN progress' = "split" /\ UNCHANGED <<start, textEnd>>
     ELSE /\ progress' = "trimmed"
          /\ start' = First(Inked(page)) - 1 /\ textEnd' = Final(Inked(page))
  /\ UNCHANGED <<page, pieces>>

\* The last stop among the final LookBack runes before end, or end itself.
CutAt(end) ==
  LET stops == {i \in (end - LookBack + 1)..end : page[i] \in Stops}
  IN  IF stops = {} THEN end ELSE Final(stops)

\* Where the piece that begins after start ends.
EndOf == IF start + ChunkSize > textEnd THEN textEnd ELSE CutAt(start + ChunkSize)

\* Variant: the next piece begins one rune too late.
SkipOver(end)  == end - Overlap + 1
NextStart(end) == IF end - Overlap <= start THEN end ELSE end - Overlap

\* A turn of the loop: a piece that is all blank is left out.
CutPiece ==
  LET end == EndOf
  IN  /\ progress = "trimmed"
      /\ pieces' = IF Inked(page) \cap (start + 1)..end = {} THEN pieces
                   ELSE Append(pieces, <<start, end>>)
      /\ IF end = textEnd THEN progress' = "split" /\ UNCHANGED start
         ELSE /\ start' = NextStart(end)
              /\ progress' = IF NextStart(end) < textEnd THEN "trimmed" ELSE "split"
      /\ UNCHANGED <<page, textEnd>>

PageNext == Trim \/ CutPiece \/ \E r \in Runes : ReadRune(r)

PageSpec == PageInit /\ [][PageNext]_pageVars

-----------------------------------------------------------------------------
\* Every variable stays in its type.
PageTypeOK ==
  /\ page \in Seq(Runes) /\ Len(page) <= MaxPage
  /\ progress \in {"read", "trimmed", "split"}
  /\ start \in 0..Len(page) /\ textEnd \in 0..Len(page)
  /\ pieces \in Seq((0..Len(page)) \X (0..Len(page)))

\* When a page is split, every passage of at most Overlap + 1 runes that begins
\* and ends with something not blank is whole in one piece: the search can find it.
\* Pieces keep to the size, each goes on beyond the one before, and repeats at most
\* the overlap of it.
PiecesCoverPage ==
  /\ progress = "split" =>
       \A i, j \in Inked(page) : i <= j /\ j <= i + Overlap =>
          \E n \in DOMAIN pieces : pieces[n][1] < i /\ j <= pieces[n][2]
  /\ \A n \in DOMAIN pieces :
       /\ pieces[n][1] < pieces[n][2] /\ pieces[n][2] - pieces[n][1] <= ChunkSize
       /\ \A m \in 1..(n - 1) :
            /\ pieces[m][1] < pieces[n][1] /\ pieces[m][2] < pieces[n][2]
            /\ pieces[m][2] - pieces[n][1] <= Overlap
=============================================================================
