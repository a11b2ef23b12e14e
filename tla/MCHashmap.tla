----------------------------- MODULE MCHashmap -----------------------------
(***************************************************************************)
(* A small instance of HashmapMachine: "a" and "c" share the bucket of the *)
(* empty string, as the hash of a string can be a multiple of the size.    *)
(***************************************************************************)
EXTENDS HashmapMachine

MCHashColliding == [k \in Keys |->
    CASE k = "a" -> 2 [] k = "c" -> 4 [] OTHER -> 0]
============================================================================
