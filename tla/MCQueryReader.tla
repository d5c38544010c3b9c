--------------------------- MODULE MCQueryReader ---------------------------
(***************************************************************************)
(* Instances of QueryReader for TLC.  Frames of up to 3 rows and up to 6   *)
(* rows give every alignment of the end of the data with the end of a      *)
(* frame, an empty last frame, and three frames or more in flight one      *)
(* after the other.                                                        *)
(***************************************************************************)
EXTENDS QueryReader

MCMaxRows == 6
MCFetchSize == 2
MCOptimalBytes == 6

\* Rows of 2, 3 and 6 bytes: the fetch size becomes 3, 2 or 1.
MCRowBytes == {2, 3, 6}

\* A row larger than the optimal response: the fetch size becomes 0.
MCLargeRows == {7}

\* All of these, and 0 bytes for a response without Content-Length.
MCAnyRowBytes == {0, 2, 3, 6, 7}

\* The loader was overtaken: when the reading thread came to the end of a frame, that was the
\* last one, and the task that had pushed it had not returned.  The thread has read a whole
\* frame between the push and the end of the task.
VARIABLE overtaken

Overtakes ==
  /\ reader = "idle" /\ reader' = "tryLoad"
  /\ task \in {"decide", "adjust", "return"} /\ frameCache' = << >>

MCVars == <<vars, overtaken>>
MCInit == Init /\ overtaken = FALSE
MCNext == Next /\ overtaken' = (overtaken \/ Overtakes)
MCSpec == MCInit /\ [][MCNext]_MCVars
MCFairSpec == MCSpec /\ Fairness

\* As long as no request failed and the loader was not overtaken the reader implements the
\* forward-only stream: the end comes after the last row, wherever it falls in a frame.
ImplementsStream ==
  Stream!Init /\ [][Stream!Next \/ overtaken' \/ failures' < MaxFailures]_(Stream!streamVars)
=============================================================================
