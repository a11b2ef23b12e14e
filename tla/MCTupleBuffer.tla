---------------------------- MODULE MCTupleBuffer ----------------------------
(***************************************************************************)
(* TupleBuffer from capacity 1 up, long enough to grow more than once.     *)
(***************************************************************************)
EXTENDS TupleBuffer
============================================================================
