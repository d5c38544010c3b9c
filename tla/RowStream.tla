----------------------------- MODULE RowStream -----------------------------
(***************************************************************************)
(* What the driver promises the caller of SQLFetch about one result set:   *)
(* a forward-only stream.  The k-th row handed out is row k, no row is     *)
(* skipped or repeated, and the end is reported after the last row only.   *)
(* QueryReader is related to it by refinement.                             *)
(***************************************************************************)
EXTENDS Naturals, Sequences

CONSTANT MaxRows   \* bound on the size of a result set

VARIABLES
  rows,        \* number of rows of the result set, fixed when it is opened
  delivered,   \* the rows handed out so far, by row number
  ended        \* the end of the stream was reported

streamVars == <<rows, delivered, ended>>

Init ==
  /\ rows \in 0..MaxRows
  /\ delivered = <<>>
  /\ ended = FALSE

\* The next row of the stream is handed out.
Deliver ==
  /\ ~ended
  /\ Len(delivered) < rows
  /\ delivered' = Append(delivered, Len(delivered) + 1)
  /\ UNCHANGED <<rows, ended>>

\* The end is reported: SQL_NO_DATA.
End ==
  /\ ~ended
  /\ Len(delivered) = rows
  /\ ended' = TRUE
  /\ UNCHANGED <<rows, delivered>>

Next == Deliver \/ End

Spec == Init /\ [][Next]_streamVars

\* The weaker stream: rows in order, none skipped or repeated, nothing after the
\* reported end, but the end may be reported early.
EndEarly ==
  /\ ~ended
  /\ ended' = TRUE
  /\ UNCHANGED <<rows, delivered>>

PrefixNext == Deliver \/ EndEarly

PrefixSpec == Init /\ [][PrefixNext]_streamVars
=============================================================================
