--------------------------- MODULE HashmapChains ---------------------------
(***************************************************************************)
(* What holds of every table and chain that the operators of Hashmap build *)
(* up, whoever owns the map and whatever set V the values come from.       *)
(***************************************************************************)
EXTENDS Hashmap, TLAPS

NodeOf(V) == [key : Keys, values : Seq(V), cursor : Nat]

(***************************************************************************)
(* A good chain of bucket b: only a head that is alone is unused, a used   *)
(* node is in its bucket, no two nodes have the same key, no cursor is     *)
(* behind the values and these are within the room of a node.              *)
(***************************************************************************)
ChainOK(c, b, V) ==
    /\ c \in Seq(NodeOf(V)) \ {<<>>}
    /\ \A i \in DOMAIN c : c[i].values = <<>> => c = <<FreshNode>>
    /\ \A i \in DOMAIN c : c[i].values # <<>> => c[i].key # Empty /\ Bucket(c[i].key) = b
    /\ \A i, j \in DOMAIN c : c[i].key = c[j].key => i = j
    /\ \A i \in DOMAIN c : c[i].cursor <= Len(c[i].values) /\ Len(c[i].values) <= Cap

MapOK(m, V) ==
    /\ m \in [Buckets -> Seq(NodeOf(V)) \ {<<>>}]
    /\ \A b \in Buckets : ChainOK(m[b], b, V)
----------------------------------------------------------------------------
\* Hashing stays inside the table.
LEMMA BucketInTable == \A k \in Keys : Bucket(k) \in Buckets
  BY HashmapAssumption DEF Bucket, Buckets

\* The unused head of a fresh table is a good chain.
LEMMA FreshChainOK ==
  ASSUME NEW V
  PROVE  \A b \in Buckets : ChainOK(<<FreshNode>>, b, V)
  <1>1. FreshNode \in NodeOf(V)
    BY HashmapAssumption DEF FreshNode, NodeOf
  <1>2. <<FreshNode>> \in Seq(NodeOf(V)) /\ Len(<<FreshNode>>) = 1
        /\ <<FreshNode>>[1] = FreshNode /\ DOMAIN <<FreshNode>> = {1}
    BY <1>1
  <1>3. Len(FreshNode.values) = 0 /\ FreshNode.cursor = 0 /\ FreshNode.values = <<>>
    BY DEF FreshNode
  <1> QED
    BY <1>2, <1>3, HashmapAssumption DEF ChainOK

LEMMA InitMapOK ==
  ASSUME NEW V
  PROVE  MapOK(InitHashmap, V)
  BY FreshChainOK DEF MapOK, InitHashmap, ChainOK

\* The parts of a node of a good chain.
LEMMA NodeFacts ==
  ASSUME NEW V, NEW b, NEW c, ChainOK(c, b, V), NEW i \in DOMAIN c
  PROVE  /\ c[i] \in NodeOf(V) /\ c[i].key \in Keys /\ c[i].values \in Seq(V)
         /\ c[i].cursor \in Nat /\ Len(c[i].values) \in Nat
         /\ c[i].cursor <= Len(c[i].values)
         /\ DOMAIN c[i].values = 1 .. Len(c[i].values)
         /\ c[i].values = <<>> <=> Len(c[i].values) = 0
  <1>1. c[i] \in NodeOf(V) /\ c[i].cursor <= Len(c[i].values)
    BY DEF ChainOK
  <1> QED BY <1>1 DEF NodeOf

\* Find points at the node that has the key, wherever the chain has it.
LEMMA FindFinds ==
  ASSUME NEW V, NEW b, NEW c, ChainOK(c, b, V), NEW k
  PROVE  /\ Has(c, k) => Find(c, k) \in DOMAIN c /\ c[Find(c, k)].key = k
         /\ \A i \in DOMAIN c : c[i].key = k => Has(c, k) /\ Find(c, k) = i
  <1>1. ASSUME NEW i \in DOMAIN c, c[i].key = k
        PROVE  /\ Has(c, k) /\ Find(c, k) \in DOMAIN c /\ c[Find(c, k)].key = k
               /\ Find(c, k) = i
    <2>1. \A j \in 1 .. (i - 1) : c[j].key # k
      BY <1>1 DEF ChainOK
    <2>2. Find(c, k) \in DOMAIN c /\ c[Find(c, k)].key = k
      BY <1>1, <2>1 DEF Find
    <2>3. Find(c, k) = i
      BY <1>1, <2>2 DEF ChainOK
    <2> QED BY <1>1, <2>2, <2>3 DEF Has
  <1> QED BY <1>1 DEF Has

\* A node that accepts the key is either the unused head, alone in its chain,
\* or the node that has the key.
LEMMA SlotFinds ==
  ASSUME NEW V, NEW b, NEW c, ChainOK(c, b, V),
         NEW k \in Keys \ {Empty}, HasSlot(c, k)
  PROVE  /\ Slot(c, k) \in DOMAIN c
         /\ \/ c = <<FreshNode>> /\ Slot(c, k) = 1
            \/ c[Slot(c, k)].values # <<>> /\ c[Slot(c, k)].key = k
  <1>1. PICK i \in DOMAIN c : Accepts(c[i], k)
    BY DEF HasSlot
  <1>2. \A j \in 1 .. (i - 1) : ~ Accepts(c[j], k)
    <2>1. CASE c[i].values = <<>>
      <3>1. c = <<FreshNode>> /\ i = 1
        BY <1>1, <2>1 DEF ChainOK
      <3> QED BY <3>1
    <2>2. CASE c[i].values # <<>>
      <3>1. c[i].key = k
        BY <1>1, <2>2 DEF Accepts
      <3>2. ASSUME NEW j \in 1 .. (i - 1), Accepts(c[j], k) PROVE FALSE
        <4>1. j \in DOMAIN c /\ j # i
          BY <1>1 DEF ChainOK
        <4>2. c[j].values = <<>>
          BY <4>1, <3>1, <3>2, <1>1 DEF ChainOK, Accepts
        <4>3. c = <<FreshNode>>
          BY <4>1, <4>2 DEF ChainOK
        <4> QED BY <4>1, <4>3, <1>1
      <3> QED BY <3>2
    <2> QED BY <2>1, <2>2
  <1>3. Slot(c, k) \in DOMAIN c /\ Accepts(c[Slot(c, k)], k)
    BY <1>1, <1>2 DEF Slot
  <1>4. CASE c[Slot(c, k)].values = <<>>
    <2>1. c = <<FreshNode>>
      BY <1>3, <1>4 DEF ChainOK
    <2> QED BY <1>3, <2>1
  <1>5. CASE c[Slot(c, k)].values # <<>>
    BY <1>3, <1>5 DEF Accepts
  <1> QED BY <1>3, <1>4, <1>5
----------------------------------------------------------------------------
(***************************************************************************)
(* What an insertion does to a chain: the value goes to the end of one     *)
(* node, which has the key from then on, and the others stay.              *)
(***************************************************************************)
\* d is c with v put into node s, which may be new.
PutAt(c, d, s, k, v) ==
    /\ DOMAIN d = DOMAIN c \cup {s}
    /\ d[s].key = k
    /\ IF s \in DOMAIN c
       THEN /\ c[s].values = <<>> \/ c[s].key = k
            /\ d[s].values = Append(c[s].values, v)
            /\ d[s].cursor = c[s].cursor
       ELSE s = Len(c) + 1 /\ d[s].values = <<v>> /\ d[s].cursor = 0
    /\ \A i \in DOMAIN c : i # s => d[i] = c[i] /\ c[i].values # <<>> /\ c[i].key # k

\* A node that takes one more value stays a node.
LEMMA PutNode ==
  ASSUME NEW V, NEW k \in Keys, NEW v \in V, NEW n \in NodeOf(V)
  PROVE  /\ Put(n, k, v) \in NodeOf(V)
         /\ Put(n, k, v).key = k
         /\ Put(n, k, v).cursor = n.cursor
         /\ Put(n, k, v).values = Append(n.values, v)
         /\ Len(Put(n, k, v).values) = Len(n.values) + 1
         /\ Put(n, k, v).values # <<>>
  BY DEF Put, NodeOf

\* Insertion keeps a chain good: it fills the unused head, lengthens the node
\* of the key, or links a node for a key that had none.
LEMMA InsertInChainOK ==
  ASSUME NEW V, NEW b \in Buckets, NEW c, ChainOK(c, b, V),
         NEW k \in Keys \ {Empty}, Bucket(k) = b, NEW v \in V,
         HasSlot(c, k) => Len(c[Slot(c, k)].values) # Cap
  PROVE  /\ ChainOK(InsertInChain(c, k, v), b, V)
         /\ \E s \in Nat \ {0} : PutAt(c, InsertInChain(c, k, v), s, k, v)
  <1> DEFINE d == InsertInChain(c, k, v)
  <1>0. k \in Keys /\ k # Empty /\ c \in Seq(NodeOf(V))
    BY DEF ChainOK
  <1>1. CASE HasSlot(c, k)
    <2> DEFINE s == Slot(c, k)
    <2>1. s \in DOMAIN c /\ c[s] \in NodeOf(V) /\ s \in Nat \ {0}
      BY <1>0, <1>1, SlotFinds
    <2>2. d = [c EXCEPT ![s] = Put(c[s], k, v)]
      BY <1>1 DEF InsertInChain
    <2>3. d \in Seq(NodeOf(V)) /\ DOMAIN d = DOMAIN c /\ d # <<>>
          /\ d[s] = Put(c[s], k, v)
          /\ \A i \in DOMAIN c : i # s => d[i] = c[i]
      BY <2>1, <2>2, <1>0, PutNode
    <2>4. c[s].cursor <= Len(c[s].values) /\ Len(c[s].values) <= Cap
          /\ Len(c[s].values) \in Nat /\ c[s].cursor \in Nat
      BY <2>1 DEF ChainOK, NodeOf
    <2>5. d[s].key = k /\ d[s].values # <<>>
          /\ d[s].values = Append(c[s].values, v) /\ d[s].cursor = c[s].cursor
          /\ Len(d[s].values) = Len(c[s].values) + 1
      BY <2>1, <2>3, <1>0, PutNode
    <2>6. d[s].cursor <= Len(d[s].values) /\ Len(d[s].values) <= Cap
      BY <2>4, <2>5, <1>1, HashmapAssumption
    <2>7. \A i \in DOMAIN c : i # s => c[i].values # <<>> /\ c[i].key # k
      <3>1. CASE c = <<FreshNode>> /\ s = 1
        BY <3>1
      <3>2. CASE c[s].values # <<>> /\ c[s].key = k
        <4>1. c # <<FreshNode>>
          <5> SUFFICES ASSUME c = <<FreshNode>> PROVE FALSE
            OBVIOUS
          <5>1. c[s] = FreshNode
            BY <2>1
          <5> QED BY <5>1, <3>2 DEF FreshNode
        <4> QED BY <4>1, <3>2, <2>1 DEF ChainOK
      <3> QED BY <1>1, <3>1, <3>2, SlotFinds
    <2>8. c[s].values = <<>> \/ c[s].key = k
      <3>1. c = <<FreshNode>> /\ s = 1 => c[s].values = <<>>
        BY DEF FreshNode
      <3> QED BY <1>1, <3>1, SlotFinds
    <2> HIDE DEF d, s
    <2>9. PutAt(c, d, s, k, v)
      BY <2>1, <2>3, <2>5, <2>7, <2>8 DEF PutAt
    <2>10. \A i \in DOMAIN d : d[i].values # <<>> /\ d[i].key # Empty /\ Bucket(d[i].key) = b
      BY <1>0, <2>3, <2>5, <2>7 DEF ChainOK
    <2>11. \A i, j \in DOMAIN d : d[i].key = d[j].key => i = j
      BY <2>3, <2>5, <2>7 DEF ChainOK
    <2>12. \A i \in DOMAIN d : d[i].cursor <= Len(d[i].values) /\ Len(d[i].values) <= Cap
      BY <2>3, <2>6 DEF ChainOK
    <2>13. ChainOK(d, b, V)
      BY <2>3, <2>10, <2>11, <2>12 DEF ChainOK
    <2> QED BY <2>1, <2>9, <2>13 DEF d
  <1>2. CASE ~ HasSlot(c, k)
    <2> DEFINE new == Put(FreshNode, k, v)
               s == Len(c) + 1
    <2>1. FreshNode \in NodeOf(V) /\ FreshNode.cursor = 0 /\ FreshNode.values = <<>>
      BY HashmapAssumption DEF FreshNode, NodeOf
    <2>2. new \in NodeOf(V) /\ new.key = k /\ new.cursor = 0 /\ new.values = <<v>>
          /\ Len(new.values) = 1 /\ new.values # <<>>
      <3>1. Append(FreshNode.values, v) = <<v>> /\ Len(<<v>>) = 1 /\ <<v>> # <<>>
        BY <2>1
      <3>2. new \in NodeOf(V) /\ new.key = k /\ new.cursor = FreshNode.cursor
            /\ new.values = Append(FreshNode.values, v)
        BY <1>0, <2>1, PutNode
      <3> QED BY <2>1, <3>1, <3>2
    <2>3. d = Append(c, new)
      BY <1>2 DEF InsertInChain
    <2> HIDE DEF new
    <2>4. d \in Seq(NodeOf(V)) /\ d # <<>> /\ DOMAIN d = DOMAIN c \cup {s}
          /\ s \in Nat \ {0} /\ s \notin DOMAIN c
          /\ d[s] = new /\ \A i \in DOMAIN c : d[i] = c[i]
      BY <1>0, <2>2, <2>3
    <2>5. \A i \in DOMAIN c : c[i].values # <<>> /\ c[i].key # k
      BY <1>2 DEF HasSlot, Accepts
    <2>6. PutAt(c, d, s, k, v)
      BY <2>2, <2>4, <2>5 DEF PutAt
    <2> HIDE DEF d, s
    <2>7. \A i \in DOMAIN d : d[i].values # <<>> /\ d[i].key # Empty /\ Bucket(d[i].key) = b
      <3> SUFFICES ASSUME NEW i \in DOMAIN d
                   PROVE  d[i].values # <<>> /\ d[i].key # Empty /\ Bucket(d[i].key) = b
        OBVIOUS
      <3>1. CASE i = s
        BY <1>0, <2>2, <2>4, <3>1
      <3>2. CASE i \in DOMAIN c
        <4>1. d[i] = c[i] /\ c[i].values # <<>>
          BY <2>4, <2>5, <3>2
        <4>2. c[i].key # Empty /\ Bucket(c[i].key) = b
          BY <3>2, <4>1 DEF ChainOK
        <4> QED BY <4>1, <4>2
      <3> QED BY <2>4, <3>1, <3>2
    <2>8. \A i, j \in DOMAIN d : d[i].key = d[j].key => i = j
      BY <2>2, <2>4, <2>5 DEF ChainOK
    <2>9. \A i \in DOMAIN d : d[i].cursor <= Len(d[i].values) /\ Len(d[i].values) <= Cap
      <3>1. \A i \in DOMAIN c : c[i].cursor <= Len(c[i].values) /\ Len(c[i].values) <= Cap
        BY DEF ChainOK
      <3>2. 0 <= 1 /\ 1 <= Cap
        BY HashmapAssumption
      <3> QED BY <2>2, <2>4, <3>1, <3>2
    <2>10. ChainOK(d, b, V)
      BY <2>4, <2>7, <2>8, <2>9 DEF ChainOK
    <2> QED BY <2>4, <2>6, <2>10 DEF d
  <1> QED BY <1>1, <1>2
----------------------------------------------------------------------------
(***************************************************************************)
(* What moving a cursor does to a map: one node has the cursor p, and all  *)
(* else is the same.                                                       *)
(***************************************************************************)
Moved(m, n, b, i, p) ==
    \A a \in Buckets :
        /\ DOMAIN n[a] = DOMAIN m[a]
        /\ \A j \in DOMAIN m[a] :
              /\ n[a][j].key = m[a][j].key
              /\ n[a][j].values = m[a][j].values
              /\ n[a][j].cursor = IF a = b /\ j = i THEN p ELSE m[a][j].cursor

\* Moving a cursor within the values of its node, or back to the first,
\* keeps a chain good.
LEMMA CursorInChainOK ==
  ASSUME NEW V, NEW b, NEW c, ChainOK(c, b, V), NEW i \in DOMAIN c,
         NEW p \in 0 .. Len(c[i].values)
  PROVE  ChainOK([c EXCEPT ![i] = At(c[i], p)], b, V)
  <1> DEFINE n == At(c[i], p)
             d == [c EXCEPT ![i] = n]
  <1>1. c \in Seq(NodeOf(V)) /\ c[i] \in NodeOf(V) /\ p \in Nat
    BY DEF ChainOK
  <1>0. p <= Len(c[i].values) /\ Len(c[i].values) \in Nat
    BY <1>1 DEF NodeOf
  <1>2. n \in NodeOf(V) /\ n.key = c[i].key /\ n.values = c[i].values /\ n.cursor = p
    BY <1>1 DEF At, NodeOf
  <1> HIDE DEF n
  <1>3. /\ d \in Seq(NodeOf(V)) /\ DOMAIN d = DOMAIN c /\ d # <<>>
        /\ d[i] = n /\ \A j \in DOMAIN c : j # i => d[j] = c[j]
        /\ \A j \in DOMAIN c : d[j].key = c[j].key /\ d[j].values = c[j].values
    BY <1>1, <1>2 DEF ChainOK
  <1>4. c[i].values = <<>> => d = <<FreshNode>>
    <2> SUFFICES ASSUME c[i].values = <<>> PROVE d = <<FreshNode>>
      OBVIOUS
    <2>1. c = <<FreshNode>> /\ p = 0 /\ i = 1
      BY DEF ChainOK
    <2>2. d[1] = FreshNode
      BY <1>3, <2>1 DEF FreshNode, At, n
    <2>3. d = <<d[1]>>
      BY <2>1 DEF d
    <2> QED BY <2>2, <2>3
  <1>5. \A j \in DOMAIN c : j # i => c[j].values # <<>>
    BY DEF ChainOK
  <1> HIDE DEF d
  <1>6. \A j \in DOMAIN d : d[j].values = <<>> => d = <<FreshNode>>
    BY <1>3, <1>4, <1>5
  <1>7. \A j \in DOMAIN d : d[j].cursor <= Len(d[j].values) /\ Len(d[j].values) <= Cap
    <2>1. \A j \in DOMAIN c : c[j].cursor <= Len(c[j].values) /\ Len(c[j].values) <= Cap
      BY DEF ChainOK
    <2>2. d[i].cursor <= Len(d[i].values)
      BY <1>0, <1>2, <1>3
    <2> QED BY <1>3, <2>1, <2>2
  <1>8. \A j \in DOMAIN d : d[j].values # <<>> => d[j].key # Empty /\ Bucket(d[j].key) = b
    BY <1>3 DEF ChainOK
  <1>9. \A j, m \in DOMAIN d : d[j].key = d[m].key => j = m
    BY <1>3 DEF ChainOK
  <1> QED BY <1>3, <1>6, <1>7, <1>8, <1>9 DEF ChainOK, d, n

LEMMA CursorMoved ==
  ASSUME NEW V, NEW m, MapOK(m, V), NEW b \in Buckets, NEW i \in DOMAIN m[b],
         NEW p \in 0 .. Len(m[b][i].values),
         NEW n, n = [m EXCEPT ![b] = [m[b] EXCEPT ![i] = At(m[b][i], p)]]
  PROVE  MapOK(n, V) /\ Moved(m, n, b, i, p)
  <1> DEFINE d == [m[b] EXCEPT ![i] = At(m[b][i], p)]
  <1>1. m \in [Buckets -> Seq(NodeOf(V)) \ {<<>>}] /\ ChainOK(m[b], b, V)
    BY DEF MapOK
  <1>2. ChainOK(d, b, V)
    BY <1>1, CursorInChainOK
  <1>3. /\ DOMAIN d = DOMAIN m[b]
        /\ \A j \in DOMAIN m[b] : d[j] = IF j = i THEN At(m[b][i], p) ELSE m[b][j]
    OBVIOUS
  <1> HIDE DEF d
  <1>4. n = [m EXCEPT ![b] = d]
    BY DEF d
  <1>5. d \in Seq(NodeOf(V)) \ {<<>>}
    BY <1>2 DEF ChainOK
  <1>6. /\ n \in [Buckets -> Seq(NodeOf(V)) \ {<<>>}]
        /\ n[b] = d /\ \A a \in Buckets : a # b => n[a] = m[a]
    BY <1>1, <1>4, <1>5
  <1>7. MapOK(n, V)
    BY <1>2, <1>6 DEF MapOK
  <1>8. Moved(m, n, b, i, p)
    BY <1>3, <1>6 DEF Moved, At
  <1> QED BY <1>7, <1>8
----------------------------------------------------------------------------
(***************************************************************************)
(* The calls.                                                              *)
(***************************************************************************)
\* An insertion that does not overrun changes one chain, in one node.
LEMMA InsertMap ==
  ASSUME NEW V, NEW m, MapOK(m, V), NEW k \in Keys, NEW v \in V, ~ Overruns(m, k),
         NEW n, n = InsertToHashmap(m, k, v)
  PROVE  /\ MapOK(n, V)
         /\ k = Empty => n = m
         /\ k # Empty => /\ \E s \in Nat \ {0} : PutAt(m[Bucket(k)], n[Bucket(k)], s, k, v)
                         /\ \A a \in Buckets \ {Bucket(k)} : n[a] = m[a]
  <1>1. CASE k = Empty
    BY <1>1 DEF InsertToHashmap
  <1>2. CASE k # Empty
    <2> DEFINE b == Bucket(k)
               c == m[b]
               d == InsertInChain(c, k, v)
    <2>1. k \in Keys \ {Empty} /\ b \in Buckets /\ ChainOK(c, b, V)
      BY <1>2, BucketInTable DEF MapOK
    <2>2. HasSlot(c, k) => Len(c[Slot(c, k)].values) # Cap
      BY <1>2 DEF Overruns
    <2>3. ChainOK(d, b, V) /\ \E s \in Nat \ {0} : PutAt(c, d, s, k, v)
      BY <2>1, <2>2, InsertInChainOK
    <2>4. n = [m EXCEPT ![b] = d]
      BY <1>2 DEF InsertToHashmap
    <2>5. m \in [Buckets -> Seq(NodeOf(V)) \ {<<>>}] /\ d \in Seq(NodeOf(V)) \ {<<>>}
      BY <2>3 DEF MapOK, ChainOK
    <2> HIDE DEF d, b
    <2>6. /\ n \in [Buckets -> Seq(NodeOf(V)) \ {<<>>}]
          /\ n[b] = d /\ \A a \in Buckets \ {b} : n[a] = m[a]
      BY <2>1, <2>4, <2>5
    <2>7. MapOK(n, V)
      BY <2>3, <2>6 DEF MapOK
    <2> QED BY <1>2, <2>3, <2>6, <2>7 DEF b
  <1> QED BY <1>1, <1>2

\* A read moves the cursor of the key's node past the value it delivers, and
\* changes nothing when there is no such node or no value left.
LEMMA GetMap ==
  ASSUME NEW V, NEW m, MapOK(m, V), NEW k \in Keys, NEW n, n = AfterGet(m, k)
  PROVE  LET c == m[Bucket(k)]
             i == Find(c, k)
         IN  /\ MapOK(n, V)
             /\ ~ Has(c, k) \/ c[i].cursor = Len(c[i].values) => n = m
             /\ Has(c, k) /\ c[i].cursor # Len(c[i].values) =>
                    /\ i \in DOMAIN c /\ c[i].key = k
                    /\ c[i].cursor + 1 \in 1 .. Len(c[i].values)
                    /\ Moved(m, n, Bucket(k), i, c[i].cursor + 1)
  <1> DEFINE b == Bucket(k)
             c == m[b]
             i == Find(c, k)
  <1>1. b \in Buckets /\ ChainOK(c, b, V)
    BY BucketInTable DEF MapOK
  <1>2. CASE ~ Has(c, k) \/ c[i].cursor = Len(c[i].values)
    BY <1>2 DEF AfterGet
  <1>3. CASE Has(c, k) /\ c[i].cursor # Len(c[i].values)
    <2>1. i \in DOMAIN c /\ c[i].key = k
      BY <1>1, <1>3, FindFinds
    <2>2. c[i].cursor + 1 \in 1 .. Len(c[i].values)
      BY <1>1, <1>3, <2>1, NodeFacts
    <2>3. c[i].cursor + 1 \in 0 .. Len(c[i].values)
      BY <2>2
    <2>4. n = [m EXCEPT ![b] = [c EXCEPT ![i] = At(c[i], c[i].cursor + 1)]]
      BY <1>3 DEF AfterGet
    <2> HIDE DEF b, i
    <2>5. MapOK(n, V) /\ Moved(m, n, b, i, c[i].cursor + 1)
      BY <1>1, <2>1, <2>3, <2>4, CursorMoved
    <2> QED BY <1>3, <2>1, <2>2, <2>5 DEF b, i
  <1> QED BY <1>2, <1>3

\* A rewind moves the cursor of the head of the bucket, whatever its key.
LEMMA ResetMap ==
  ASSUME NEW V, NEW m, MapOK(m, V), NEW k \in Keys, NEW n, n = ResetCursor(m, k)
  PROVE  MapOK(n, V) /\ 1 \in DOMAIN m[Bucket(k)] /\ Moved(m, n, Bucket(k), 1, 0)
  <1> DEFINE b == Bucket(k)
  <1>1. b \in Buckets /\ ChainOK(m[b], b, V)
    BY BucketInTable DEF MapOK
  <1>2. 1 \in DOMAIN m[b]
    BY <1>1 DEF ChainOK
  <1>3. 0 \in 0 .. Len(m[b][1].values)
    BY <1>1, <1>2, NodeFacts
  <1>4. n = [m EXCEPT ![b] = [m[b] EXCEPT ![1] = At(m[b][1], 0)]]
    BY DEF ResetCursor
  <1> HIDE DEF b
  <1>5. MapOK(n, V) /\ Moved(m, n, b, 1, 0)
    BY <1>1, <1>2, <1>3, <1>4, CursorMoved
  <1> QED BY <1>2, <1>5 DEF b
============================================================================
