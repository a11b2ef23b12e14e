---------------------------- MODULE CommandLine ----------------------------
(***************************************************************************)
(* The arguments of the program: the loop of main in src/squel.c, and the  *)
(* options it sets.  An argument is the name of an option, a number, the   *)
(* SQL statement, or some other text.                                      *)
(***************************************************************************)
EXTENDS Integers, Sequences

CONSTANTS
    SqlArg,     \* The argument that is an SQL statement
    Numerals    \* Arguments that strtoull takes for a number

ASSUME CommandLineAssumption ==
    {SqlArg, "--help", "--htsize", "--hashjoin", "--parse"} \cap Numerals = {}

RECURSIVE Loop(_, _)

\* initOptions, and main's variables.  i is the index in argv.
InitOptions == [i |-> 1, queryArg |-> 1, enableHashjoin |-> "on",
                onlyParse |-> FALSE, ends |-> "no"]

WithNumber == {"--htsize", "--hashjoin"}

\* An option and its number are two arguments in front of the query, --parse
\* is one, but the loop skips what is behind it.
Loop(o, args) ==
    IF o.i > Len(args) \/ o.ends # "no" THEN o
    ELSE Loop(
        CASE args[o.i] = "--help" -> [o EXCEPT !.ends = "shown"]
          [] args[o.i] \in WithNumber /\ o.i = Len(args) ->
                [o EXCEPT !.ends = "crashed"]
          [] args[o.i] \in WithNumber /\ o.i < Len(args) ->
                [o EXCEPT !.i = @ + 2, !.queryArg = @ + 2,
                    !.ends = IF args[o.i + 1] \in Numerals THEN @ ELSE "failed",
                    !.enableHashjoin = IF args[o.i] # "--hashjoin" THEN @
                                       ELSE IF args[o.i + 1] = "0" THEN "off" ELSE "on"]
          [] args[o.i] = "--parse" ->
                [o EXCEPT !.i = @ + 2, !.queryArg = @ + 1, !.onlyParse = TRUE]
          [] OTHER -> [o EXCEPT !.i = @ + 1], args)

\* What main has when it reads argv[query_arg]; there may be no such argument.
Options(args) ==
    LET o == Loop(InitOptions, args) IN
    CASE args = <<>> -> [o EXCEPT !.ends = "failed"]
      [] o.ends = "no" /\ o.queryArg > Len(args) -> [o EXCEPT !.ends = "crashed"]
      [] OTHER -> o
============================================================================
