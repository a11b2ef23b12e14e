------------------------------- MODULE Filter -------------------------------
(***************************************************************************)
(* The evaluation of a list of filter operators on a tuple,                *)
(* src/operators/filter.c.                                                 *)
(*                                                                         *)
(* A condition is [type |-> "cond", left, boolOp, right, dtypes] with      *)
(* operands [kind, col, const]: a column by its index, a number or a       *)
(* string.  It is evaluated on the tuples ts, one or two.  Reading a       *)
(* column as a number converts it, so an evaluation returns them too.      *)
(***************************************************************************)
EXTENDS Tuple

CONSTANT IntBits    \* Width of an int

ASSUME FilterAssumption == IntBits \in Nat \ {0}

RECURSIVE EvaluateOps(_, _)

\* An integer kept in so many bits, two's complement.
Wrapped(n, bits) == ((n + 2 ^ (bits - 1)) % 2 ^ bits) - 2 ^ (bits - 1)

IsCol(operand) == operand.kind = "col"

\* An operand is read from the first tuple or from the second; a filter hands
\* the same one in twice, here as the only one.
Side(ts, n) == IF n \in DOMAIN ts THEN n ELSE 1

WithOperand(ts, n, operand) ==
    IF IsCol(operand) THEN [ts EXCEPT ![Side(ts, n)] = WithLong(@, operand.col)] ELSE ts

NumberOf(ts, n, operand) ==
    IF IsCol(operand) THEN Long(ts[Side(ts, n)], operand.col) ELSE Number[operand.const]
RankOf(ts, n, operand) ==
    Rank[IF IsCol(operand) THEN Text(ts[Side(ts, n)], operand.col) ELSE operand.const]

\* cmpRes.  Numbers: the difference of two longs is put into an int.
\* Strings: strcmp, with the constant first when it is on the right of a
\* column.
CmpRes(ts, f) ==
    IF f.dtypes[1] = "long"
    THEN Wrapped(NumberOf(ts, 1, f.left) - NumberOf(ts, 2, f.right), IntBits)
    ELSE IF IsCol(f.left) /\ ~ IsCol(f.right)
         THEN RankOf(ts, 2, f.right) - RankOf(ts, 1, f.left)
         ELSE RankOf(ts, 1, f.left) - RankOf(ts, 2, f.right)

Holds(boolOp, cmp) ==
    CASE boolOp = "="  -> cmp = 0
      [] boolOp = "!=" -> cmp # 0
      [] boolOp = "<"  -> cmp < 0
      [] boolOp = ">"  -> cmp > 0
      [] boolOp = ">=" -> cmp >= 0
      [] boolOp = "<=" -> cmp <= 0

\* evaluateTupleAgainstFilterOp; values of different types, or of none, end
\* the program.
EvaluateOp(ts, f) ==
    IF f.dtypes[1] # f.dtypes[2] \/ f.dtypes[1] = "undefined"
    THEN [tuples |-> ts, value |-> FALSE, failed |-> TRUE]
    ELSE LET read == IF f.dtypes[1] = "long"
                     THEN WithOperand(WithOperand(ts, 1, f.left), 2, f.right)
                     ELSE ts
         IN  [tuples |-> read, value |-> Holds(f.boolOp, CmpRes(read, f)),
              failed |-> FALSE]

\* Mutant: the operator behind an entry connects it with what is before.
ApplyNext(sofar, here, entry) ==
    IF sofar.failed THEN sofar
    ELSE [tuples |-> here.tuples,
          value  |-> IF entry.next # "OR" THEN here.value /\ sofar.value
                                          ELSE here.value \/ sofar.value,
          failed |-> here.failed,
          boolOp |-> entry.next]

\* One turn of the loop over the list: the value so far and the one of this
\* entry are connected by the operator that was between them.
Apply(sofar, here, entry) ==
    IF sofar.failed THEN sofar
    ELSE [tuples |-> here.tuples,
          value  |-> IF sofar.boolOp = "AND" THEN here.value /\ sofar.value
                                             ELSE here.value \/ sofar.value,
          failed |-> here.failed \/ sofar.boolOp \notin {"AND", "OR"},
          boolOp |-> entry.next]

\* evaluateTuplesAgainstFilterOps, as the set of its one result: strictly
\* from left to right, every operand evaluated.
EvaluateOps(ts, ops) ==
    LET Here(sofar, op) == IF op.type = "(" THEN EvaluateOps(sofar.tuples, op.child)
                                            ELSE {EvaluateOp(sofar.tuples, op)}
        Turn(results, entry) ==
            UNION {{Apply(sofar, here, entry) : here \in Here(sofar, entry.op)}
                   : sofar \in results}
    IN  FoldLeft(Turn, {[tuples |-> ts, value |-> TRUE, failed |-> FALSE,
                         boolOp |-> "AND"]}, ops)
============================================================================
