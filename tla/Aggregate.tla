----------------------------- MODULE Aggregate -----------------------------
(***************************************************************************)
(* What aggregateGetTuple of src/operators/aggregate.c computes.  Its      *)
(* variables result and observations are a record here; op is the          *)
(* operator, [fun, col].                                                   *)
(***************************************************************************)
EXTENDS Filter

ASSUME AggregateAssumption == LongBits >= IntBits

NoObservations(op) ==
    [result |-> IF op.fun = "MIN" THEN LongMax ELSE 0, observations |-> 0]

\* The tuple after its column was read, which COUNT does not do.
Observed(op, t) == IF op.fun = "COUNT" THEN t ELSE WithLong(t, op.col)

\* agg_fun.
Combine(fun, result, n) ==
    CASE fun \in {"SUM", "AVG"} -> result + n
      [] fun = "MAX" -> IF n > result THEN n ELSE result
      [] fun = "MIN" -> IF n < result THEN n ELSE result
      [] fun = "COUNT" -> result

Counted(op, a, t) ==
    [result |-> Combine(op.fun, a.result, Long(t, op.col)),
     observations |-> a.observations + 1]

\* An integer division by zero ends the program.
DividesByZero(op, a) == op.fun = "AVG" /\ a.observations = 0

\* The quotient is unsigned, as observations is.
Final(op, a) ==
    CASE op.fun = "COUNT" -> a.observations
      [] op.fun = "AVG" ->
            Wrapped((a.result % 2 ^ LongBits) \div a.observations, LongBits)
      [] OTHER -> a.result

\* The result is put into the caller's tuple, which stays of the type and
\* size it was made with.
WithResult(t, result) ==
    [t EXCEPT !.long = result, !.longs[0] = result, !.longCount = 1,
              !.casted[0] = TRUE, !.offsets[0] = 0]
============================================================================
