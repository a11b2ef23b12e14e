------------------------------ MODULE Hashmap ------------------------------
(***************************************************************************)
(* The multi-value hash map of src/util/hashmap.c as a data structure: the *)
(* value a map has and what each call computes from it.  The callers own   *)
(* the state: HashmapMachine drives one map through every legal sequence   *)
(* of calls, HashJoin uses one as the index of its right relation.         *)
(*                                                                         *)
(* A bucket is the chain of MapNodes that starts in map->data and goes on  *)
(* through node->next.  The head is calloc'ed with the table, so a chain   *)
(* is never empty, and an unused head has the empty string as its key.     *)
(* A node is [key, values, cursor]: node->obs is Len(values).              *)
(***************************************************************************)
EXTENDS Integers, Sequences

CONSTANTS
    Keys,       \* The C strings used as keys
    Empty,      \* The string of length 0
    TableSize,  \* Number of buckets: option OPT_HTSIZE
    HashOf,     \* The shift-and-add sum of each string, before the modulo
    Cap         \* Room for values in a node: 10000 in MapNode.values

ASSUME HashmapAssumption ==
    /\ Empty \in Keys
    /\ TableSize \in Nat \ {0}
    /\ Cap \in Nat \ {0}
    /\ HashOf \in [Keys -> Nat]
    /\ HashOf[Empty] = 0        \* hash() never enters its loop

Buckets == 0 .. (TableSize - 1)

Bucket(k) == HashOf[k] % TableSize
----------------------------------------------------------------------------
FreshNode == [key |-> Empty, values |-> <<>>, cursor |-> 0]

\* Mutant: the table is not allocated with its heads.
InitNoHeads == [b \in Buckets |-> <<>>]

\* calloc of the table: one unused head node per bucket.
InitHashmap == [b \in Buckets |-> <<FreshNode>>]

(***************************************************************************)
(* The walks along a chain.  Insertion stops at the first node that is     *)
(* unused or has the key, a look-up at the first node that has the key.    *)
(***************************************************************************)
\* Mutant: an unused head is not claimed.
AcceptsOnlyKey(node, k) == node.key = k

Accepts(node, k) == node.values = <<>> \/ node.key = k

HasSlot(c, k) == \E i \in DOMAIN c : Accepts(c[i], k)

Slot(c, k) == CHOOSE i \in DOMAIN c :
                 /\ Accepts(c[i], k)
                 /\ \A j \in 1 .. (i - 1) : ~ Accepts(c[j], k)

Has(c, k) == \E i \in DOMAIN c : c[i].key = k

Find(c, k) == CHOOSE i \in DOMAIN c :
                 /\ c[i].key = k
                 /\ \A j \in 1 .. (i - 1) : c[j].key # k
----------------------------------------------------------------------------
\* Mutants: the cursor is rewound by an insertion; values go in front.
PutRewinds(node, k, v) == [key    |-> k,
                           values |-> Append(node.values, v),
                           cursor |-> 0]
PutInFront(node, k, v) == [key    |-> k,
                           values |-> <<v>> \o node.values,
                           cursor |-> node.cursor]

Put(node, k, v) == [key    |-> k,
                    values |-> Append(node.values, v),
                    cursor |-> node.cursor]

\* Mutant: only the head is compared before a node is linked.
InsertLooksAtHead(c, k, v) ==
    IF Accepts(c[1], k) THEN [c EXCEPT ![1] = Put(@, k, v)]
                        ELSE Append(c, Put(FreshNode, k, v))

\* An unused or equal-keyed node takes the value, else a new node is linked.
InsertInChain(c, k, v) ==
    IF HasSlot(c, k) THEN [c EXCEPT ![Slot(c, k)] = Put(@, k, v)]
                     ELSE Append(c, Put(FreshNode, k, v))

\* The bound is tested after values[obs] is written: the call that finds a
\* full node writes one past the array, on top of obs.
Overruns(m, k) ==
    /\ k # Empty
    /\ HasSlot(m[Bucket(k)], k)
    /\ Len(m[Bucket(k)][Slot(m[Bucket(k)], k)].values) = Cap

\* Mutant: the empty key is not dropped.
InsertEmptyToo(m, k, v) ==
    [m EXCEPT ![Bucket(k)] = InsertInChain(@, k, v)]

\* Defined for calls that do not overrun.  The empty key is dropped.
InsertToHashmap(m, k, v) ==
    IF k = Empty THEN m
    ELSE [m EXCEPT ![Bucket(k)] = InsertInChain(@, k, v)]

\* True iff the next getValueFromHashmap(k) delivers an inserted value.
IsInHashmap(m, k) ==
    LET c == m[Bucket(k)] IN
    /\ Has(c, k)
    /\ c[Find(c, k)].cursor # Len(c[Find(c, k)].values)
    /\ Len(c[Find(c, k)].values) > 0

At(node, p) == [key |-> node.key, values |-> node.values, cursor |-> p]

NotFound  == 0      \* returned for a key without a node
Exhausted == -1     \* returned when the cursor is at the end

\* The value getValueFromHashmap returns ...
GetResult(m, k) ==
    LET c == m[Bucket(k)]
        n == c[Find(c, k)]
    IN  IF ~ Has(c, k) THEN NotFound
        ELSE IF n.cursor = Len(n.values) THEN Exhausted
        ELSE n.values[n.cursor + 1]

\* Mutant: the cursor moves on at the end of the values.
AfterGetAlways(m, k) ==
    LET c == m[Bucket(k)]
        i == Find(c, k)
    IN  IF ~ Has(c, k) THEN m
        ELSE [m EXCEPT ![Bucket(k)] = [c EXCEPT ![i] = At(c[i], c[i].cursor + 1)]]

\* ... and the map it leaves: the node's cursor has moved past the value.
AfterGet(m, k) ==
    LET c == m[Bucket(k)]
        i == Find(c, k)
    IN  IF ~ Has(c, k) \/ c[i].cursor = Len(c[i].values) THEN m
        ELSE [m EXCEPT ![Bucket(k)] = [c EXCEPT ![i] = At(c[i], c[i].cursor + 1)]]

\* Mutant: the whole chain is rewound.
ResetChain(m, k) ==
    LET c == m[Bucket(k)] IN
    [m EXCEPT ![Bucket(k)] = [i \in DOMAIN c |-> At(c[i], 0)]]

\* map->data[idx].cursor = 0: the head of the bucket, whatever its key.
ResetCursor(m, k) ==
    LET c == m[Bucket(k)] IN
    [m EXCEPT ![Bucket(k)] = [c EXCEPT ![1] = At(c[1], 0)]]
============================================================================
