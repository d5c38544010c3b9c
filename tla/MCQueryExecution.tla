-------------------------- MODULE MCQueryExecution --------------------------
(***************************************************************************)
(* Instances of QueryExecution for TLC: a query with the HAVING clause     *)
(* that is not sent, the one that is answered by the driver, and two whose *)
(* length does not fit 16 bits, of which one has the clause, too, and is   *)
(* refused by the parser.                                                  *)
(***************************************************************************)
EXTENDS QueryExecution, TLC

CONSTANTS s1, s2

MCTexts == {"query", "select 1", "long", "huge"}
MCLength == ("query" :> 20) @@ ("select 1" :> 8) @@ ("long" :> 40000)
            @@ ("huge" :> 65556)
=============================================================================
