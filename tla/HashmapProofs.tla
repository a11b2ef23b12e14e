--------------------------- MODULE HashmapProofs ---------------------------
(***************************************************************************)
(* Proofs about HashmapMachine, for every set of keys, every hash, every   *)
(* table size and every capacity of a node.                                *)
(***************************************************************************)
EXTENDS HashmapMachine, HashmapChains

IInv ==
    /\ MapOK(map, Values)
    /\ last \in Call
    /\ phase \in {"live", "wild", "freed"}

\* The invariants of the machine are the good chains of its map.
LEMMA InvMeans == IInv <=> TypeOK /\ WellFormed
  BY DEF IInv, MapOK, ChainOK, NodeOf, Node, TypeOK, WellFormed, UnusedOnlyAlone,
         KeysInTheirBucket, OneNodePerKey, CursorInRange

LEMMA InitInv == Init => IInv
  BY InitMapOK, HashmapAssumption DEF Init, IInv, Call

\* What a read returns: an inserted value, 0 or -1.
LEMMA GetResultType ==
  ASSUME IInv, NEW k \in Keys
  PROVE  GetResult(map, k) \in Nat \cup {-1}
  <1> DEFINE c == map[Bucket(k)]
             n == c[Find(c, k)]
  <1>1. ChainOK(c, Bucket(k), Values)
    BY BucketInTable DEF IInv, MapOK
  <1>2. ASSUME Has(c, k), n.cursor # Len(n.values)
        PROVE  n.values[n.cursor + 1] \in Nat
    <2>1. Find(c, k) \in DOMAIN c
      BY <1>1, <1>2, FindFinds
    <2>2. n.values \in Seq(Values) /\ n.cursor + 1 \in 1 .. Len(n.values)
      BY <1>1, <1>2, <2>1, NodeFacts
    <2>3. n.values[n.cursor + 1] \in Values
      BY <2>2
    <2> QED BY <2>3, ValuesAssumption
  <1> QED BY <1>2 DEF GetResult, NotFound, Exhausted

LEMMA NextInv == IInv /\ [Next]_vars => IInv'
  <1> SUFFICES ASSUME IInv, [Next]_vars PROVE IInv'
    OBVIOUS
  <1>1. ASSUME NEW k \in Keys, NEW v \in Values, Insert(k, v) PROVE IInv'
    <2>1. MapOK(map', Values)
      BY <1>1, InsertMap DEF IInv, Insert
    <2> QED BY <1>1, <2>1 DEF IInv, Insert, Call
  <1>2. ASSUME NEW k \in Keys, InsertTooMany(k) PROVE IInv'
    BY <1>2 DEF IInv, InsertTooMany
  <1>3. ASSUME NEW k \in Keys, IsIn(k) PROVE IInv'
    BY <1>3 DEF IInv, IsIn, Call
  <1>4. ASSUME NEW k \in Keys, Get(k) PROVE IInv'
    <2>1. MapOK(map', Values)
      BY <1>4, GetMap DEF IInv, Get
    <2> QED BY <1>4, <2>1, GetResultType DEF IInv, Get, Call
  <1>5. ASSUME NEW k \in Keys, Reset(k) PROVE IInv'
    <2>1. MapOK(map', Values)
      BY <1>5, ResetMap DEF IInv, Reset
    <2> QED BY <1>5, <2>1 DEF IInv, Reset, Call
  <1>6. CASE Free
    BY <1>6 DEF IInv, Free
  <1>7. CASE UNCHANGED vars
    BY <1>7 DEF IInv, vars
  <1> QED BY <1>1, <1>2, <1>3, <1>4, <1>5, <1>6, <1>7 DEF Next

\* Chains of used nodes with known keys and stored values (hashmap.c).
THEOREM TypeCorrect == Spec => []TypeOK
  <1>1. IInv => TypeOK
    BY InvMeans
  <1> QED BY <1>1, InitInv, NextInv, PTL DEF Spec

\* Whatever calls are made on a map before it is freed or a node overruns,
\* each key has at most one node: a look-up that finds the key has found all
\* its values (hashmap.c: _tryInsert, _isInHashmap, _getValueFromHashmap).
THEOREM KeysHaveOneNode == Spec => []OneNodePerKey
  <1>1. IInv => OneNodePerKey
    BY InvMeans DEF WellFormed
  <1> QED BY <1>1, InitInv, NextInv, PTL DEF Spec

\* A used node is in the chain of the bucket its key hashes to, where isIn and
\* the look-ups of hashmap.c search for it, and the empty string has none.
THEOREM KeysAreWhereTheyHash == Spec => []KeysInTheirBucket
  <1>1. IInv => KeysInTheirBucket
    BY InvMeans DEF WellFormed
  <1> QED BY <1>1, InitInv, NextInv, PTL DEF Spec

\* A node without values is the head of a bucket that nothing was inserted
\* into: insertToHashmap may take the first such node for its key.
THEOREM UnusedNodesAreAlone == Spec => []UnusedOnlyAlone
  <1>1. IInv => UnusedOnlyAlone
    BY InvMeans DEF WellFormed
  <1> QED BY <1>1, InitInv, NextInv, PTL DEF Spec

\* getNextFromHashmap never reads behind the values of a node, and
\* insertToHashmap never keeps more than there is room for.
THEOREM CursorsStayInside == Spec => []CursorInRange
  <1>1. IInv => CursorInRange
    BY InvMeans DEF WellFormed
  <1> QED BY <1>1, InitInv, NextInv, PTL DEF Spec
----------------------------------------------------------------------------
(***************************************************************************)
(* The map as a multi-map.  What is stored under a key is read off its one *)
(* node; the lemmas say what the calls do to it, key by key.               *)
(***************************************************************************)
LogIn(m, k) ==
    LET c == m[Bucket(k)] IN
    IF Has(c, k) THEN c[Find(c, k)].values ELSE <<>>

PosIn(m, k) ==
    LET c == m[Bucket(k)] IN
    IF Has(c, k) THEN c[Find(c, k)].cursor ELSE 0

LEMMA AtNode ==
  ASSUME NEW m, MapOK(m, Values), NEW k \in Keys
  PROVE  LET c == m[Bucket(k)] IN
         /\ \A i \in DOMAIN c : c[i].key = k =>
               LogIn(m, k) = c[i].values /\ PosIn(m, k) = c[i].cursor
         /\ (\A i \in DOMAIN c : c[i].key # k) => LogIn(m, k) = <<>> /\ PosIn(m, k) = 0
  <1>1. ChainOK(m[Bucket(k)], Bucket(k), Values)
    BY BucketInTable DEF MapOK
  <1> QED BY <1>1, FindFinds DEF LogIn, PosIn, Has

\* A node whose key is a name is used and its bucket is that of the name.
LEMMA NamedNode ==
  ASSUME NEW m, MapOK(m, Values), NEW b \in Buckets, NEW i \in DOMAIN m[b],
         m[b][i].key # Empty
  PROVE  m[b][i].values # <<>> /\ Bucket(m[b][i].key) = b
  <1>1. ChainOK(m[b], b, Values)
    BY DEF MapOK
  <1>2. m[b] = <<FreshNode>> => m[b][i].key = Empty
    BY DEF FreshNode
  <1> QED BY <1>1, <1>2 DEF ChainOK

LEMMA UnnamedNode ==
  ASSUME NEW m, MapOK(m, Values), NEW b \in Buckets, NEW i \in DOMAIN m[b],
         m[b][i].key = Empty
  PROVE  m[b][i].values = <<>> /\ m[b][i].cursor = 0
  <1>1. ChainOK(m[b], b, Values)
    BY DEF MapOK
  <1>2. m[b][i].values = <<>>
    BY <1>1 DEF ChainOK
  <1> QED BY <1>1, <1>2, NodeFacts

LEMMA InsertActs ==
  ASSUME NEW m, MapOK(m, Values), NEW k \in Names, NEW v \in Values, ~ Overruns(m, k),
         NEW n, n = InsertToHashmap(m, k, v), NEW q \in Names
  PROVE  /\ LogIn(n, q) = IF q = k THEN Append(LogIn(m, q), v) ELSE LogIn(m, q)
         /\ PosIn(n, q) = PosIn(m, q)
  <1> DEFINE b == Bucket(k)
  <1>1. k \in Keys /\ q \in Keys /\ k # Empty /\ q # Empty
        /\ b \in Buckets /\ Bucket(q) \in Buckets
    BY BucketInTable DEF Names
  <1>2. MapOK(n, Values) /\ \A a \in Buckets \ {b} : n[a] = m[a]
    BY <1>1, InsertMap
  <1>3. PICK s \in Nat \ {0} : PutAt(m[b], n[b], s, k, v)
    BY <1>1, InsertMap
  <1>4. CASE Bucket(q) # b
    <2>1. n[Bucket(q)] = m[Bucket(q)] /\ q # k
      BY <1>1, <1>2, <1>4
    <2> QED BY <2>1 DEF LogIn, PosIn
  <1>5. CASE Bucket(q) = b /\ q # k
    <2>1. CASE \E i \in DOMAIN m[b] : m[b][i].key = q
      <3>1. PICK i \in DOMAIN m[b] : m[b][i].key = q
        BY <2>1
      <3>2. i # s
        BY <1>1, <1>3, <1>5, <3>1, NamedNode DEF PutAt
      <3>3. i \in DOMAIN n[b] /\ n[b][i] = m[b][i]
        BY <1>3, <3>1, <3>2 DEF PutAt
      <3> QED BY <1>1, <1>2, <1>5, <3>1, <3>3, AtNode
    <2>2. CASE \A i \in DOMAIN m[b] : m[b][i].key # q
      <3>1. \A i \in DOMAIN n[b] : n[b][i].key # q
        BY <1>3, <1>5, <2>2 DEF PutAt
      <3> QED BY <1>1, <1>2, <1>5, <2>2, <3>1, AtNode
    <2> QED BY <2>1, <2>2
  <1>6. CASE q = k
    <2>1. s \in DOMAIN n[b] /\ n[b][s].key = k
      BY <1>3 DEF PutAt
    <2>2. LogIn(n, q) = n[b][s].values /\ PosIn(n, q) = n[b][s].cursor
      BY <1>1, <1>2, <1>6, <2>1, AtNode
    <2>3. CASE s \in DOMAIN m[b] /\ m[b][s].key = k
      <3>1. LogIn(m, q) = m[b][s].values /\ PosIn(m, q) = m[b][s].cursor
        BY <1>1, <1>6, <2>3, AtNode
      <3> QED BY <1>3, <1>6, <2>2, <2>3, <3>1 DEF PutAt
    <2>4. CASE ~ (s \in DOMAIN m[b] /\ m[b][s].key = k)
      <3>1. \A i \in DOMAIN m[b] : m[b][i].key # k
        BY <1>3, <2>4 DEF PutAt
      <3>2. LogIn(m, q) = <<>> /\ PosIn(m, q) = 0
        BY <1>1, <1>6, <3>1, AtNode
      <3>3. Append(<<>>, v) = <<v>>
        OBVIOUS
      <3>4. CASE s \in DOMAIN m[b]
        <4>1. m[b][s].values = <<>> /\ n[b][s].values = Append(m[b][s].values, v)
              /\ n[b][s].cursor = m[b][s].cursor
          BY <1>3, <2>4, <3>4 DEF PutAt
        <4>2. ChainOK(m[b], b, Values)
          BY <1>1 DEF MapOK
        <4>3. m[b][s].cursor = 0
          BY <3>4, <4>1, <4>2, NodeFacts
        <4> QED BY <1>6, <2>2, <3>2, <3>3, <4>1, <4>3
      <3>5. CASE s \notin DOMAIN m[b]
        <4>1. n[b][s].values = <<v>> /\ n[b][s].cursor = 0
          BY <1>3, <3>5 DEF PutAt
        <4> QED BY <1>6, <2>2, <3>2, <3>3, <4>1
      <3> QED BY <3>4, <3>5
    <2> QED BY <2>3, <2>4
  <1> QED BY <1>4, <1>5, <1>6

LEMMA MoveActs ==
  ASSUME NEW m, MapOK(m, Values), NEW n, MapOK(n, Values),
         NEW b \in Buckets, NEW i \in DOMAIN m[b], NEW p, Moved(m, n, b, i, p),
         NEW q \in Names
  PROVE  /\ LogIn(n, q) = LogIn(m, q)
         /\ PosIn(n, q) = IF m[b][i].key = q THEN p ELSE PosIn(m, q)
  <1> DEFINE a == Bucket(q)
  <1>1. q \in Keys /\ q # Empty /\ a \in Buckets
    BY BucketInTable DEF Names
  <1>2. m[b][i].key = q => a = b
    BY <1>1, NamedNode
  <1>3. CASE \E j \in DOMAIN m[a] : m[a][j].key = q
    <2>1. PICK j \in DOMAIN m[a] : m[a][j].key = q
      BY <1>3
    <2>2. /\ j \in DOMAIN n[a] /\ n[a][j].key = q
          /\ n[a][j].values = m[a][j].values
          /\ n[a][j].cursor = IF a = b /\ j = i THEN p ELSE m[a][j].cursor
      BY <1>1, <2>1 DEF Moved
    <2>3. /\ LogIn(m, q) = m[a][j].values /\ PosIn(m, q) = m[a][j].cursor
          /\ LogIn(n, q) = n[a][j].values /\ PosIn(n, q) = n[a][j].cursor
      BY <1>1, <2>1, <2>2, AtNode
    <2>4. m[b][i].key = q <=> a = b /\ j = i
      BY <1>1, <1>2, <2>1 DEF MapOK, ChainOK
    <2> QED BY <2>2, <2>3, <2>4
  <1>4. CASE \A j \in DOMAIN m[a] : m[a][j].key # q
    <2>1. \A j \in DOMAIN n[a] : n[a][j].key # q
      BY <1>1, <1>4 DEF Moved
    <2>2. m[b][i].key # q
      BY <1>2, <1>4
    <2> QED BY <1>1, <1>4, <2>1, <2>2, AtNode
  <1> QED BY <1>3, <1>4

\* The variables of the multi-map, name by name.
LEMMA Mapped ==
  \A k \in Names : ValuesOf(k) = LogIn(map, k) /\ CursorOf(k) = PosIn(map, k)
  BY DEF ValuesOf, CursorOf, LogIn, PosIn

LEMMA MappedNext ==
  \A k \in Names : ValuesOf(k)' = LogIn(map', k) /\ CursorOf(k)' = PosIn(map', k)
  BY DEF ValuesOf, CursorOf, LogIn, PosIn

\* What is stored under a name, and how far it has been read.
LEMMA StoredUnder ==
  ASSUME IInv, NEW k \in Names
  PROVE  LET c == map[Bucket(k)]
             i == Find(c, k)
         IN  /\ Bucket(k) \in Buckets
             /\ ValuesOf(k) \in Seq(Values) /\ CursorOf(k) \in 0 .. Len(ValuesOf(k))
             /\ Has(c, k) => /\ i \in DOMAIN c /\ c[i].key = k
                             /\ ValuesOf(k) = c[i].values /\ CursorOf(k) = c[i].cursor
                             /\ ValuesOf(k) # <<>> /\ Len(ValuesOf(k)) > 0
             /\ ~ Has(c, k) => ValuesOf(k) = <<>> /\ CursorOf(k) = 0
  <1> DEFINE b == Bucket(k)
             c == map[b]
             i == Find(c, k)
  <1>1. k \in Keys /\ k # Empty /\ b \in Buckets /\ ChainOK(c, b, Values)
    BY BucketInTable DEF Names, IInv, MapOK
  <1>2. ASSUME Has(c, k)
        PROVE  /\ i \in DOMAIN c /\ c[i].key = k
               /\ ValuesOf(k) = c[i].values /\ CursorOf(k) = c[i].cursor
               /\ c[i].values \in Seq(Values) /\ c[i].cursor \in 0 .. Len(c[i].values)
               /\ c[i].values # <<>> /\ Len(c[i].values) > 0
    <2>1. i \in DOMAIN c /\ c[i].key = k
      BY <1>1, <1>2, FindFinds
    <2>2. ValuesOf(k) = c[i].values /\ CursorOf(k) = c[i].cursor
      BY <1>2 DEF ValuesOf, CursorOf
    <2>3. c[i].values # <<>>
      BY <1>1, <2>1, NamedNode DEF IInv
    <2> HIDE DEF i
    <2>4. /\ c[i].values \in Seq(Values) /\ c[i].cursor \in 0 .. Len(c[i].values)
          /\ Len(c[i].values) > 0
      BY <1>1, <2>1, <2>3, NodeFacts
    <2> QED BY <2>1, <2>2, <2>3, <2>4
  <1>3. ~ Has(c, k) => ValuesOf(k) = <<>> /\ CursorOf(k) = 0
    BY DEF ValuesOf, CursorOf
  <1>4. <<>> \in Seq(Values) /\ 0 \in 0 .. Len(<<>>)
    OBVIOUS
  <1> HIDE DEF c, i
  <1>5. CASE Has(c, k)
    BY <1>1, <1>2, <1>5 DEF c, i
  <1>6. CASE ~ Has(c, k)
    BY <1>1, <1>3, <1>4, <1>6 DEF c, i
  <1> QED BY <1>5, <1>6

\* Nothing is stored under the empty string.
LEMMA NothingIgnored ==
  ASSUME IInv
  PROVE  /\ Empty \in Keys
         /\ ~ IsInHashmap(map, Empty)
         /\ GetResult(map, Empty) \in {0, -1}
         /\ AfterGet(map, Empty) = map
  <1> DEFINE b == Bucket(Empty)
             c == map[b]
             i == Find(c, Empty)
  <1>1. Empty \in Keys /\ b \in Buckets /\ ChainOK(c, b, Values)
    BY BucketInTable, HashmapAssumption DEF IInv, MapOK
  <1>2. Has(c, Empty) => c[i].values = <<>> /\ c[i].cursor = 0
    BY <1>1, FindFinds, UnnamedNode DEF IInv
  <1>3. Len(<<>>) = 0
    OBVIOUS
  <1> QED BY <1>1, <1>2, <1>3 DEF IsInHashmap, GetResult, AfterGet, NotFound, Exhausted

LEMMA RewindActs ==
  ASSUME IInv, NEW k \in Keys, Reset(k)
  PROVE  RewindsHead(k)
  <1> DEFINE b == Bucket(k)
  <1>1. b \in Buckets /\ MapOK(map, Values) /\ map' = ResetCursor(map, k)
        /\ last' = [op |-> "reset", key |-> k, result |-> 0]
    BY BucketInTable DEF IInv, Reset
  <1>2. MapOK(map', Values) /\ 1 \in DOMAIN map[b] /\ Moved(map, map', b, 1, 0)
    BY <1>1, ResetMap
  <1>3. \A n \in Names :
           /\ LogIn(map', n) = LogIn(map, n)
           /\ PosIn(map', n) = IF map[b][1].key = n THEN 0 ELSE PosIn(map, n)
    BY <1>1, <1>2, MoveActs
  <1> QED BY <1>1, <1>3, Mapped, MappedNext DEF RewindsHead, HeadKey

LEMMA CallActs ==
  ASSUME IInv, Next
  PROVE  \/ MM!MMNext
         \/ \E k \in Keys : RewindsHead(k)
         \/ UNCHANGED <<map, last>>
  <1>1. ASSUME NEW k \in Keys, NEW v \in Values, Insert(k, v) PROVE MM!MMNext
    <2>1. CASE k = Empty
      <3>1. map' = map /\ last' = [op |-> "insert", key |-> Empty, result |-> 0]
        BY <1>1, <2>1 DEF Insert, InsertToHashmap
      <3> QED BY <3>1 DEF MM!MMNext, MM!NoEffect, ValuesOf, CursorOf
    <2>2. CASE k # Empty
      <3>1. k \in Names /\ MapOK(map, Values) /\ ~ Overruns(map, k)
            /\ map' = InsertToHashmap(map, k, v)
            /\ last' = [op |-> "insert", key |-> k, result |-> 0]
        BY <1>1, <2>2 DEF Insert, IInv, Names
      <3>2. \A q \in Names :
               /\ LogIn(map', q) = IF q = k THEN Append(LogIn(map, q), v) ELSE LogIn(map, q)
               /\ PosIn(map', q) = PosIn(map, q)
        BY <3>1, InsertActs
      <3>3. \A q \in Names :
               /\ ValuesOf(q)' = IF q = k THEN Append(ValuesOf(q), v) ELSE ValuesOf(q)
               /\ CursorOf(q)' = CursorOf(q)
        BY <3>2, Mapped, MappedNext
      <3>4. MM!PutValue(k, v)
        BY <3>1, <3>3 DEF MM!PutValue
      <3> QED BY <3>1, <3>4 DEF MM!MMNext
    <2> QED BY <2>1, <2>2
  <1>2. ASSUME NEW k \in Keys, IsIn(k) PROVE MM!MMNext
    <2>1. map' = map
          /\ last' = [op |-> "isin", key |-> k, result |-> IF IsInHashmap(map, k) THEN 1 ELSE 0]
      BY <1>2 DEF IsIn
    <2>2. \A q \in Names : ValuesOf(q)' = ValuesOf(q) /\ CursorOf(q)' = CursorOf(q)
      BY <2>1, Mapped, MappedNext
    <2>3. CASE k = Empty
      <3>1. last' = [op |-> "isin", key |-> Empty, result |-> 0]
        BY <2>1, <2>3, NothingIgnored
      <3> QED BY <2>2, <3>1 DEF MM!MMNext, MM!NoEffect
    <2>4. CASE k # Empty
      <3>1. k \in Names
        BY <2>4 DEF Names
      <3>2. IsInHashmap(map, k) <=> CursorOf(k) < Len(ValuesOf(k))
        <4> DEFINE c == map[Bucket(k)]
        <4>1. CASE Has(c, k)
          <5>1. /\ ValuesOf(k) = c[Find(c, k)].values /\ CursorOf(k) = c[Find(c, k)].cursor
                /\ Len(ValuesOf(k)) > 0 /\ CursorOf(k) \in 0 .. Len(ValuesOf(k))
                /\ ValuesOf(k) \in Seq(Values)
            BY <3>1, <4>1, StoredUnder
          <5>2. CursorOf(k) # Len(ValuesOf(k)) <=> CursorOf(k) < Len(ValuesOf(k))
            BY <5>1
          <5> QED BY <4>1, <5>1, <5>2 DEF IsInHashmap
        <4>2. CASE ~ Has(c, k)
          <5>1. ValuesOf(k) = <<>> /\ CursorOf(k) = 0
            BY <3>1, <4>2, StoredUnder
          <5>2. ~ (CursorOf(k) < Len(ValuesOf(k)))
            BY <5>1
          <5> QED BY <4>2, <5>2 DEF IsInHashmap
        <4> QED BY <4>1, <4>2
      <3>3. MM!Ask(k)
        BY <2>1, <2>2, <3>1, <3>2 DEF MM!Ask
      <3> QED BY <3>1, <3>3 DEF MM!MMNext
    <2> QED BY <2>3, <2>4
  <1>3. ASSUME NEW k \in Keys, Get(k) PROVE MM!MMNext
    <2> DEFINE c == map[Bucket(k)]
               i == Find(c, k)
    <2>1. map' = AfterGet(map, k) /\ MapOK(map, Values)
          /\ last' = [op |-> "get", key |-> k, result |-> GetResult(map, k)]
      BY <1>3 DEF Get, IInv
    <2>2. CASE k = Empty
      <3>1. map' = map /\ GetResult(map, k) \in {0, -1}
        BY <2>1, <2>2, NothingIgnored
      <3>2. last' \in [op : {"get"}, key : {Empty}, result : {0, -1}]
        BY <2>1, <2>2, <3>1
      <3> QED BY <3>1, <3>2 DEF MM!MMNext, MM!NoEffect, ValuesOf, CursorOf
    <2>3. CASE k # Empty /\ (~ Has(c, k) \/ c[i].cursor = Len(c[i].values))
      <3>1. k \in Names
        BY <2>3 DEF Names
      <3>2. map' = map
        BY <2>1, <2>3, GetMap
      <3>3. CursorOf(k) = Len(ValuesOf(k))
            /\ GetResult(map, k) = IF ValuesOf(k) = <<>> THEN 0 ELSE -1
        <4>1. CASE Has(c, k)
          BY <2>3, <3>1, <4>1, StoredUnder DEF GetResult, Exhausted
        <4>2. CASE ~ Has(c, k)
          <5>1. Len(<<>>) = 0
            OBVIOUS
          <5> QED BY <3>1, <4>2, <5>1, StoredUnder DEF GetResult, NotFound
        <4> QED BY <4>1, <4>2
      <3>4. MM!NoValue(k)
        BY <2>1, <3>1, <3>2, <3>3 DEF MM!NoValue, ValuesOf, CursorOf
      <3> QED BY <3>1, <3>4 DEF MM!MMNext
    <2>4. CASE k # Empty /\ Has(c, k) /\ c[i].cursor # Len(c[i].values)
      <3>1. k \in Names /\ Bucket(k) \in Buckets
        BY <2>4, BucketInTable DEF Names
      <3>2. /\ MapOK(map', Values) /\ i \in DOMAIN c /\ c[i].key = k
            /\ Moved(map, map', Bucket(k), i, c[i].cursor + 1)
        BY <2>1, <2>4, GetMap
      <3>3. /\ ValuesOf(k) = c[i].values /\ CursorOf(k) = c[i].cursor
            /\ ValuesOf(k) \in Seq(Values) /\ CursorOf(k) \in 0 .. Len(ValuesOf(k))
        BY <2>4, <3>1, StoredUnder
      <3>4. GetResult(map, k) = ValuesOf(k)[CursorOf(k) + 1]
        BY <2>4, <3>3 DEF GetResult
      <3>5. CursorOf(k) < Len(ValuesOf(k))
        BY <2>4, <3>3
      <3>6. \A q \in Names :
               /\ LogIn(map', q) = LogIn(map, q)
               /\ PosIn(map', q) = IF k = q THEN c[i].cursor + 1 ELSE PosIn(map, q)
        BY <2>1, <3>1, <3>2, MoveActs
      <3>7. \A q \in Names :
               /\ ValuesOf(q)' = ValuesOf(q)
               /\ CursorOf(q)' = IF q = k THEN CursorOf(q) + 1 ELSE CursorOf(q)
        BY <3>3, <3>6, Mapped, MappedNext
      <3>8. MM!NextValue(k)
        BY <2>1, <3>1, <3>4, <3>5, <3>7 DEF MM!NextValue
      <3> QED BY <3>1, <3>8 DEF MM!MMNext
    <2> QED BY <2>2, <2>3, <2>4
  <1>4. ASSUME NEW k \in Keys, Reset(k) PROVE RewindsHead(k)
    BY <1>4, RewindActs
  <1> QED BY <1>1, <1>2, <1>3, <1>4 DEF Next, InsertTooMany, Free

\* Keys that share a bucket and its chain keep their values, their order and
\* their position apart in every call of hashmap.c, except that resetCursor
\* rewinds the first key of the bucket it is called for.
THEOREM CollidingKeysStayApart == Spec => ActsAsMultiMap
  <1>1. IInv /\ [Next]_vars =>
           [MM!MMNext \/ \E k \in Keys : RewindsHead(k)]_<<map, last>>
    <2> SUFFICES ASSUME IInv, [Next]_vars
                 PROVE  [MM!MMNext \/ \E k \in Keys : RewindsHead(k)]_<<map, last>>
      OBVIOUS
    <2>1. UNCHANGED vars => UNCHANGED <<map, last>>
      BY DEF vars
    <2> QED BY <2>1, CallActs
  <1> QED BY <1>1, InitInv, NextInv, PTL DEF Spec, ActsAsMultiMap

\* A map in which no two keys share a bucket is a multi-map: then resetCursor
\* rewinds the key it is called for.
THEOREM WithoutCollisions ==
  ASSUME NoCollisions
  PROVE  Spec => ImplementsMultiMap
  <1>1. Init => MM!MMInit
    <2> SUFFICES ASSUME Init PROVE MM!MMInit
      OBVIOUS
    <2>1. ASSUME NEW k \in Names PROVE ValuesOf(k) = <<>> /\ CursorOf(k) = 0
      <3>1. k # Empty /\ map[Bucket(k)] = <<FreshNode>>
        BY BucketInTable DEF Names, Init, InitHashmap
      <3>2. ~ Has(<<FreshNode>>, k)
        BY <3>1 DEF Has, FreshNode
      <3> QED BY <3>1, <3>2 DEF ValuesOf, CursorOf
    <2> QED BY <2>1 DEF Init, MM!MMInit
  <1>2. ASSUME IInv, NEW k \in Keys, RewindsHead(k) PROVE MM!MMNext
    <2>1. /\ last' = [op |-> "reset", key |-> k, result |-> 0]
          /\ \A n \in Names :
                /\ ValuesOf(n)' = ValuesOf(n)
                /\ CursorOf(n)' = IF n = HeadKey(k) THEN 0 ELSE CursorOf(n)
      BY <1>2 DEF RewindsHead
    <2>2. Bucket(k) \in Buckets /\ 1 \in DOMAIN map[Bucket(k)]
          /\ ChainOK(map[Bucket(k)], Bucket(k), Values)
      BY <1>2, BucketInTable DEF IInv, MapOK, ChainOK
    <2>3. HeadKey(k) # Empty => HeadKey(k) = k
      <3>1. HeadKey(k) # Empty => Bucket(HeadKey(k)) = Bucket(k)
        BY <1>2, <2>2, NamedNode DEF HeadKey, IInv
      <3>2. HeadKey(k) \in Keys
        BY <2>2, NodeFacts DEF HeadKey
      <3> QED BY <3>1, <3>2 DEF NoCollisions
    <2>4. CASE k = Empty
      <3>1. \A n \in Names : CursorOf(n)' = CursorOf(n)
        BY <2>1, <2>3, <2>4 DEF Names
      <3> QED BY <2>1, <2>4, <3>1 DEF MM!MMNext, MM!NoEffect
    <2>5. CASE k # Empty
      <3>1. k \in Names
        BY <2>5 DEF Names
      <3>2. HeadKey(k) = Empty => CursorOf(k) = 0
        <4>1. HeadKey(k) = Empty => map[Bucket(k)] = <<FreshNode>>
          BY <1>2, <2>2, UnnamedNode DEF HeadKey, IInv, ChainOK
        <4>2. ~ Has(<<FreshNode>>, k)
          BY <2>5 DEF Has, FreshNode
        <4> QED BY <4>1, <4>2 DEF CursorOf
      <3>3. \A n \in Names : CursorOf(n)' = IF n = k THEN 0 ELSE CursorOf(n)
        BY <2>1, <2>3, <3>1, <3>2 DEF Names
      <3>4. MM!Rewind(k)
        BY <2>1, <3>1, <3>3 DEF MM!Rewind
      <3> QED BY <3>1, <3>4 DEF MM!MMNext
    <2> QED BY <2>4, <2>5
  <1>3. IInv /\ [Next]_vars => [MM!MMNext]_(MM!mmVars)
    <2> SUFFICES ASSUME IInv, [Next]_vars PROVE [MM!MMNext]_(MM!mmVars)
      OBVIOUS
    <2>1. UNCHANGED <<map, last>> => UNCHANGED MM!mmVars
      BY DEF MM!mmVars, ValuesOf, CursorOf
    <2>2. UNCHANGED vars => UNCHANGED <<map, last>>
      BY DEF vars
    <2> QED BY <1>2, <2>1, <2>2, CallActs
  <1> QED BY <1>1, <1>3, InitInv, NextInv, PTL DEF Spec, ImplementsMultiMap, MM!MMSpec
============================================================================
