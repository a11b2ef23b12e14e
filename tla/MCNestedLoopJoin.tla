-------------------------- MODULE MCNestedLoopJoin --------------------------
(***************************************************************************)
(* NestedLoopJoin for every join condition on tables of a few rows.        *)
(***************************************************************************)
EXTENDS NestedLoopJoin
============================================================================
