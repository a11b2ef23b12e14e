-------------------------- MODULE HashmapMachine ---------------------------
(***************************************************************************)
(* One hash map and every sequence of calls of its interface: the life of  *)
(* a map from initHashmap to freeHashmap.  The calls of src/operators/     *)
(* hashjoin.c and of src/test/hashmap_test_*.c are behaviours of this      *)
(* module.                                                                 *)
(***************************************************************************)
EXTENDS Hashmap

CONSTANT Values     \* The row numbers stored under keys

ASSUME ValuesAssumption == Values \subseteq Nat

VARIABLES
    map,    \* The table: bucket -> chain of nodes
    last,   \* The last call made and what it returned
    phase   \* "live", "wild" after a write past a node's array, "freed"

vars == <<map, last, phase>>

Init ==
    /\ map = InitHashmap
    /\ last = [op |-> "init", key |-> Empty, result |-> 0]
    /\ phase = "live"

Insert(k, v) ==
    /\ phase = "live"
    /\ ~ Overruns(map, k)
    /\ map' = InsertToHashmap(map, k, v)
    /\ last' = [op |-> "insert", key |-> k, result |-> 0]
    /\ UNCHANGED phase

\* The write lands on node->obs.  What the map does from then on is not
\* determined by the source, so the model stops here.
InsertTooMany(k) ==
    /\ phase = "live"
    /\ Overruns(map, k)
    /\ phase' = "wild"
    /\ UNCHANGED <<map, last>>

IsIn(k) ==
    /\ phase = "live"
    /\ last' = [op |-> "isin", key |-> k,
                result |-> IF IsInHashmap(map, k) THEN 1 ELSE 0]
    /\ UNCHANGED <<map, phase>>

Get(k) ==
    /\ phase = "live"
    /\ last' = [op |-> "get", key |-> k, result |-> GetResult(map, k)]
    /\ map' = AfterGet(map, k)
    /\ UNCHANGED phase

Reset(k) ==
    /\ phase = "live"
    /\ map' = ResetCursor(map, k)
    /\ last' = [op |-> "reset", key |-> k, result |-> 0]
    /\ UNCHANGED phase

Free ==
    /\ phase = "live"
    /\ phase' = "freed"
    /\ UNCHANGED <<map, last>>

Next ==
    \/ \E k \in Keys : \/ \E v \in Values : Insert(k, v)
                       \/ InsertTooMany(k)
                       \/ IsIn(k)
                       \/ Get(k)
                       \/ Reset(k)
    \/ Free

Spec == Init /\ [][Next]_vars
----------------------------------------------------------------------------
(***************************************************************************)
(* Invariants.                                                             *)
(***************************************************************************)
Node == [key : Keys, values : Seq(Values), cursor : Nat]

Call == [op : {"init", "insert", "isin", "get", "reset"},
         key : Keys, result : Nat \cup {-1}]

\* The table keeps a non-empty chain of nodes per bucket, the last call is
\* one of the interface and the map is in one of its three phases.
TypeOK ==
    /\ map \in [Buckets -> Seq(Node) \ {<<>>}]
    /\ last \in Call
    /\ phase \in {"live", "wild", "freed"}

\* Only the head of a bucket can be unused, and then nothing is linked to it:
\* the walk of _tryInsert, which claims the first unused node, therefore never
\* stops before a node that already has the key.
UnusedOnlyAlone ==
    \A b \in Buckets : \A i \in DOMAIN map[b] :
        map[b][i].values = <<>> => map[b] = <<FreshNode>>

\* A used node sits in the bucket its key hashes to and the empty string is
\* never stored: later look-ups start at the chain that has the node.
KeysInTheirBucket ==
    \A b \in Buckets : \A i \in DOMAIN map[b] :
        map[b][i].values # <<>> =>
            map[b][i].key # Empty /\ Bucket(map[b][i].key) = b

\* A key has one node: its values are never split over two nodes, of which
\* a look-up would only ever find the first.
OneNodePerKey ==
    \A b \in Buckets : \A i, j \in DOMAIN map[b] :
        map[b][i].key = map[b][j].key => i = j

\* The cursor of a node stays within the values read from it, and these
\* within the room of the node.
CursorInRange ==
    \A b \in Buckets : \A i \in DOMAIN map[b] :
        /\ map[b][i].cursor <= Len(map[b][i].values)
        /\ Len(map[b][i].values) <= Cap

WellFormed ==
    /\ UnusedOnlyAlone
    /\ KeysInTheirBucket
    /\ OneNodePerKey
    /\ CursorInRange
----------------------------------------------------------------------------
(***************************************************************************)
(* The map as the multi-map its users think of.                            *)
(***************************************************************************)
Names == Keys \ {Empty}

ValuesOf(k) ==
    LET c == map[Bucket(k)] IN
    IF Has(c, k) THEN c[Find(c, k)].values ELSE <<>>

CursorOf(k) ==
    LET c == map[Bucket(k)] IN
    IF Has(c, k) THEN c[Find(c, k)].cursor ELSE 0

MM == INSTANCE MultiMap WITH
        Ignored <- Empty,
        log     <- [k \in Names |-> ValuesOf(k)],
        pos     <- [k \in Names |-> CursorOf(k)]

\* When no two keys share a bucket the map implements the multi-map: every
\* insertion, look-up, read and rewind of hashmap.c does what its name says.
ImplementsMultiMap == MM!MMSpec

NoCollisions == \A j, k \in Keys : Bucket(j) = Bucket(k) => j = k

\* The key resetCursor rewinds when it is called for k.
HeadKey(k) == map[Bucket(k)][1].key

RewindsHead(k) ==
    /\ last' = [op |-> "reset", key |-> k, result |-> 0]
    /\ \A n \in Names :
          /\ ValuesOf(n)' = ValuesOf(n)
          /\ CursorOf(n)' = IF n = HeadKey(k) THEN 0 ELSE CursorOf(n)

\* With collisions every call but resetCursor still does what the multi-map
\* does: colliding keys keep their values, their order and their position
\* apart, although they share a chain.  resetCursor rewinds the first key of
\* the bucket, which may not be the one it is called for.
ActsAsMultiMap ==
    [][MM!MMNext \/ \E k \in Keys : RewindsHead(k)]_<<map, last>>
============================================================================
