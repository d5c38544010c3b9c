-------------------------- MODULE MCHandleRegistry --------------------------
(***************************************************************************)
(* Two threads and five handles: an environment, two connections and a     *)
(* child of each of them, or fewer objects and handles left for the calls  *)
(* that fail or free.                                                      *)
(***************************************************************************)
EXTENDS HandleRegistry, TLC

CONSTANTS t1, t2

MCThreads == {t1, t2}
MCFirstHandle == 100
MCLastHandle == 105

\* The threads are interchangeable.
ThreadSymmetry == Permutations(MCThreads)
=============================================================================
