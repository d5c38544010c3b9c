---------------------------- MODULE MCLifecycle -----------------------------
(***************************************************************************)
(* Instances of Lifecycle for TLC: threads and statements are model values.*)
(***************************************************************************)
EXTENDS Lifecycle

CONSTANTS t1, t2, s1, s2
=============================================================================
