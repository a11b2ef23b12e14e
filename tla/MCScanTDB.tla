----------------------------- MODULE MCScanTDB ------------------------------
(***************************************************************************)
(* ScanTDB for every file of a few blocks.                                 *)
(***************************************************************************)
EXTENDS ScanTDB
============================================================================
