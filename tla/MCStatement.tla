---------------------------- MODULE MCStatement ----------------------------
(***************************************************************************)
(* Instances of Statement for TLC.  With frames of two rows, three rows    *)
(* are a full frame and a last one with a single row.                      *)
(***************************************************************************)
EXTENDS Statement

MCQueries == {"query", "other", "select 1"}
MCLocal == {"select 1"}
MCRowCount == [r \in Requests |-> IF r = "query" THEN 3 ELSE IF r = "other" THEN 2 ELSE 1]

MCColumns == {1}
=============================================================================
