--------------------------- MODULE HashJoinProofs --------------------------
(***************************************************************************)
(* Proofs about HashJoin, for tables of any size, every set of keys, every *)
(* hash, table size and node capacity: the result is what ReturnsExactly   *)
(* says, in order and without repetition.                                  *)
(***************************************************************************)
EXTENDS HashJoin, HashmapChains

----------------------------------------------------------------------------
(***************************************************************************)
(* What the map says of the right rows.                                    *)
(***************************************************************************)
\* The nodes of chain c hold rows with their key, in the order of the rows.
RowsOfKey(c, n) ==
    \A i \in DOMAIN c : \A p \in DOMAIN c[i].values :
        /\ c[i].values[p] \in 0 .. (n - 1)
        /\ right[c[i].values[p] + 1].key = c[i].key

Ascending(c) ==
    \A i \in DOMAIN c : \A p, q \in DOMAIN c[i].values :
        p < q => c[i].values[p] < c[i].values[q]

\* Each of the first n rows with a key of bucket b is in the node of its key,
\* and none of them came before the first row of the head.
Indexed(c, b, n) ==
    \A j \in 1 .. n :
        right[j].key # Empty /\ Bucket(right[j].key) = b =>
            /\ \E i \in DOMAIN c : /\ c[i].key = right[j].key
                                   /\ \E p \in DOMAIN c[i].values : c[i].values[p] = j - 1
            /\ c[1].values # <<>> /\ c[1].values[1] <= j - 1

Holds(c, b, n) == RowsOfKey(c, n) /\ Ascending(c) /\ Indexed(c, b, n)

\* The map is a well-formed index of the right rows collected so far.
IndexOK ==
    /\ MapOK(map, Nat)
    /\ \A b \in Buckets : Holds(map[b], b, rcount)
----------------------------------------------------------------------------
(***************************************************************************)
(* How far the probing has come.                                           *)
(***************************************************************************)
Places ==
    /\ pc \in {"collect", "wild"} => out = <<>> /\ lpos = 0
    /\ pc = "collect" => \A b \in Buckets : \A i \in DOMAIN map[b] : map[b][i].cursor = 0
    /\ pc \in {"probe", "returned"} => lpos <= Len(left)
    /\ pc \in {"finish", "done"} => lpos = Len(left) + 1
    /\ pc \in {"probe", "returned", "finish", "done"} => rcount = Len(right)

\* The right row j has been taken out of the map, and its node not rewound.
Passed(j) ==
    \E b \in Buckets : \E i \in DOMAIN map[b] :
        \E p \in 1 .. map[b][i].cursor : map[b][i].values[p] = j - 1

\* What was returned for the current left row has been passed.
ReturnedPassed ==
    \A n \in DOMAIN out :
        out[n][1] <= lpos /\ (out[n][1] = lpos => Passed(out[n][2]))

Seen(k) == \E h \in 1 .. (lpos - 1) : left[h].key = k

\* The key of the current left row; the zeroed tuple has none.
Current == IF lpos = 0 THEN Empty ELSE left[lpos].key

\* The node of a key that is not the current one is rewound when it is the
\* head of its bucket, and used up once a left row had the key when not.
Cursors ==
    \A b \in Buckets : \A i \in DOMAIN map[b] :
        LET node == map[b][i] IN
        /\ node.key # Current =>
              node.cursor = IF i # 1 /\ Seen(node.key) THEN Len(node.values) ELSE 0
        /\ i # 1 /\ Seen(node.key) => node.cursor = Len(node.values)

\* The result so far: all of the rows before, the passed part of this one.
ResultSoFar ==
    Returned = {p \in Pairs : /\ GetsJoined(p)
                              /\ p[1] < lpos \/ (p[1] = lpos /\ Passed(p[2]))}

Exactly ==
    Plain /\ pc \in {"probe", "returned", "finish", "done"} =>
        /\ pc \in {"probe", "returned"} => Cursors
        /\ ResultSoFar

IInv ==
    TypeOK /\ IndexOK /\ Places /\ ReturnedPassed /\ NoPairTwice /\ Exactly /\ InOrder
----------------------------------------------------------------------------
(***************************************************************************)
(* The rows and the index of them.                                         *)
(***************************************************************************)
LEMMA RowFacts ==
  ASSUME TypeOK
  PROVE  /\ Len(left) \in Nat /\ Len(right) \in Nat
         /\ DOMAIN left = 1 .. Len(left) /\ DOMAIN right = 1 .. Len(right)
         /\ \A j \in 1 .. Len(left) :
               left[j].key \in Keys /\ left[j].alt \in Keys /\ left[j].val \in Int
         /\ \A j \in 1 .. Len(right) : right[j].key \in Keys /\ right[j].val \in Int
  <1>1. left \in Seq(Row) /\ right \in Seq(Row)
    BY InputsAssumption DEF TypeOK
  <1>2. \A s \in Seq(Row) : /\ Len(s) \in Nat /\ DOMAIN s = 1 .. Len(s)
                            /\ \A j \in 1 .. Len(s) : s[j] \in Row
    OBVIOUS
  <1>3. \A r \in Row : r.key \in Keys /\ r.alt \in Keys /\ r.val \in Int
    BY DEF Row
  <1> QED BY <1>1, <1>2, <1>3

\* A row that is not for this chain leaves it an index of one row more.
LEMMA HoldsOther ==
  ASSUME NEW c, NEW b, NEW n \in Nat, Holds(c, b, n),
         right[n + 1].key = Empty \/ Bucket(right[n + 1].key) # b
  PROVE  Holds(c, b, n + 1)
  <1>1. \A j \in 1 .. (n + 1) : j \in 1 .. n \/ j = n + 1
    OBVIOUS
  <1>2. \A v \in 0 .. (n - 1) : v \in 0 .. (n + 1 - 1)
    OBVIOUS
  <1>3. RowsOfKey(c, n + 1)
    BY <1>2 DEF Holds, RowsOfKey
  <1>4. Indexed(c, b, n + 1)
    BY <1>1 DEF Holds, Indexed
  <1> QED BY <1>3, <1>4 DEF Holds

\* Inserting the number of the next row under its key keeps the index.
LEMMA HoldsInserted ==
  ASSUME NEW b, NEW n \in Nat, NEW k, k = right[n + 1].key, k # Empty,
         NEW c, ChainOK(c, b, Nat), NEW d, ChainOK(d, b, Nat),
         NEW s \in Nat \ {0}, PutAt(c, d, s, k, n), Holds(c, b, n)
  PROVE  Holds(d, b, n + 1)
  <1>1. /\ DOMAIN d = DOMAIN c \cup {s} /\ d[s].key = k
        /\ \A i \in DOMAIN c : i # s => d[i] = c[i] /\ c[i].values # <<>> /\ c[i].key # k
    BY DEF PutAt
  \* The values of the node that took the row: those it had and n.
  <1>2. PICK old \in Seq(Nat) :
           /\ d[s].values = Append(old, n)
           /\ s \in DOMAIN c => old = c[s].values
           /\ s \notin DOMAIN c => old = <<>>
    <2>1. CASE s \in DOMAIN c
      <3>1. c[s].values \in Seq(Nat)
        BY <2>1, NodeFacts
      <3> QED BY <2>1, <3>1 DEF PutAt
    <2>2. CASE s \notin DOMAIN c
      <3>1. Append(<<>>, n) = <<n>> /\ <<>> \in Seq(Nat)
        OBVIOUS
      <3> QED BY <2>2, <3>1 DEF PutAt
    <2> QED BY <2>1, <2>2
  <1>3. /\ \A p \in DOMAIN old : old[p] \in 0 .. (n - 1) /\ right[old[p] + 1].key = k
        /\ \A p, q \in DOMAIN old : p < q => old[p] < old[q]
    <2>1. CASE old = <<>>
      BY <2>1
    <2>2. CASE old # <<>>
      <3>1. s \in DOMAIN c /\ old = c[s].values /\ c[s].key = k
        BY <1>2, <2>2 DEF PutAt
      <3> QED BY <3>1 DEF Holds, RowsOfKey, Ascending
    <2> QED BY <2>1, <2>2
  <1>4. /\ DOMAIN d[s].values = DOMAIN old \cup {Len(old) + 1} /\ DOMAIN old = 1 .. Len(old)
        /\ d[s].values[Len(old) + 1] = n /\ \A p \in DOMAIN old : d[s].values[p] = old[p]
        /\ Len(old) \in Nat /\ d[s].values # <<>>
    BY <1>2
  <1>5. n \in 0 .. (n + 1 - 1) /\ \A v \in 0 .. (n - 1) : v \in 0 .. (n + 1 - 1) /\ v < n
    OBVIOUS
  <1>6. RowsOfKey(d, n + 1)
    <2>1. ASSUME NEW i \in DOMAIN d, NEW p \in DOMAIN d[i].values
          PROVE  d[i].values[p] \in 0 .. (n + 1 - 1) /\ right[d[i].values[p] + 1].key = d[i].key
      <3>1. CASE i = s
        BY <1>1, <1>3, <1>4, <1>5, <3>1
      <3>2. CASE i # s
        <4>1. i \in DOMAIN c /\ d[i] = c[i]
          BY <1>1, <3>2
        <4> QED BY <1>5, <4>1 DEF Holds, RowsOfKey
      <3> QED BY <3>1, <3>2
    <2> QED BY <2>1 DEF RowsOfKey
  <1>7. Ascending(d)
    <2>1. ASSUME NEW i \in DOMAIN d, NEW p \in DOMAIN d[i].values,
                 NEW q \in DOMAIN d[i].values, p < q
          PROVE  d[i].values[p] < d[i].values[q]
      <3>1. CASE i = s
        <4>1. p \in DOMAIN old
          BY <1>4, <2>1, <3>1
        <4> QED BY <1>3, <1>4, <1>5, <2>1, <3>1, <4>1
      <3>2. CASE i # s
        <4>1. i \in DOMAIN c /\ d[i] = c[i]
          BY <1>1, <3>2
        <4> QED BY <2>1, <4>1 DEF Holds, Ascending
      <3> QED BY <3>1, <3>2
    <2> QED BY <2>1 DEF Ascending
  <1>8. Indexed(d, b, n + 1)
    <2> SUFFICES ASSUME NEW j \in 1 .. (n + 1), right[j].key # Empty, Bucket(right[j].key) = b
                 PROVE  /\ \E i \in DOMAIN d :
                             /\ d[i].key = right[j].key
                             /\ \E p \in DOMAIN d[i].values : d[i].values[p] = j - 1
                        /\ d[1].values # <<>> /\ d[1].values[1] <= j - 1
      BY DEF Indexed
    <2>1. 1 \in DOMAIN c /\ 1 \in DOMAIN d
      BY <1>1 DEF ChainOK
    <2>2. CASE j \in 1 .. n
      <3>1. /\ \E i \in DOMAIN c : /\ c[i].key = right[j].key
                                   /\ \E p \in DOMAIN c[i].values : c[i].values[p] = j - 1
            /\ c[1].values # <<>> /\ c[1].values[1] <= j - 1
        BY <2>2 DEF Holds, Indexed
      <3>2. PICK i \in DOMAIN c : /\ c[i].key = right[j].key
                                  /\ \E p \in DOMAIN c[i].values : c[i].values[p] = j - 1
        BY <3>1
      <3>3. /\ d[i].key = right[j].key
            /\ \E p \in DOMAIN d[i].values : d[i].values[p] = j - 1
        <4>1. CASE i = s
          <5>1. old = c[s].values /\ old # <<>>
            BY <1>2, <3>2, <4>1
          <5>2. c[s].key = k
            BY <3>2, <4>1, <5>1 DEF PutAt
          <5> QED BY <1>1, <1>4, <3>2, <4>1, <5>1, <5>2
        <4>2. CASE i # s
          BY <1>1, <3>2, <4>2
        <4> QED BY <4>1, <4>2
      <3>4. d[1].values # <<>> /\ d[1].values[1] = c[1].values[1]
        <4>1. CASE s = 1
          <5>1. old = c[1].values /\ old # <<>> /\ 1 \in DOMAIN old
            BY <1>2, <1>4, <2>1, <3>1, <4>1
          <5> QED BY <1>4, <4>1, <5>1
        <4>2. CASE s # 1
          BY <1>1, <2>1, <4>2
        <4> QED BY <4>1, <4>2
      <3> QED BY <1>1, <3>1, <3>2, <3>3, <3>4
    <2>3. CASE j = n + 1
      <3>1. d[s].key = right[j].key /\ Len(old) + 1 \in DOMAIN d[s].values
            /\ d[s].values[Len(old) + 1] = j - 1
        BY <1>1, <1>4, <2>3
      <3>2. d[1].values # <<>> /\ d[1].values[1] <= n
        <4>1. 1 \in DOMAIN d[1].values
          <5>1. CASE s = 1
            BY <1>4, <5>1, SMTT(30)
          <5>2. CASE s # 1
            <6>1. d[1] = c[1] /\ c[1].values # <<>>
              BY <1>1, <2>1, <5>2
            <6> QED BY <2>1, <6>1, NodeFacts
          <5> QED BY <5>1, <5>2
        <4>2. d[1].values[1] \in 0 .. (n + 1 - 1)
          BY <1>6, <2>1, <4>1 DEF RowsOfKey
        <4> QED BY <4>1, <4>2
      <3> QED BY <1>1, <2>3, <3>1, <3>2
    <2> QED BY <2>2, <2>3
  <1> QED BY <1>6, <1>7, <1>8 DEF Holds

\* Steps that leave the rows and the map alone keep the index.
LEMMA SameIndex ==
  ASSUME IndexOK, right' = right, map' = map, rcount' = rcount
  PROVE  IndexOK'
  BY DEF IndexOK, Holds, RowsOfKey, Ascending, Indexed

\* Moving a cursor does not change what the nodes hold.
LEMMA MovedIndex ==
  ASSUME IndexOK, right' = right, rcount' = rcount, MapOK(map', Nat),
         NEW b \in Buckets, NEW i, NEW p, Moved(map, map', b, i, p)
  PROVE  IndexOK'
  <1>1. \A a \in Buckets :
           /\ DOMAIN map'[a] = DOMAIN map[a] /\ 1 \in DOMAIN map[a]
           /\ \A j \in DOMAIN map[a] : /\ map'[a][j].key = map[a][j].key
                                       /\ map'[a][j].values = map[a][j].values
    BY DEF Moved, IndexOK, MapOK, ChainOK
  <1>2. ASSUME NEW a \in Buckets PROVE Holds(map[a], a, rcount)'
    <2>1. Holds(map[a], a, rcount)
      BY DEF IndexOK
    <2>2. RowsOfKey(map[a], rcount)' /\ Ascending(map[a])'
      BY <1>1, <2>1 DEF Holds, RowsOfKey, Ascending
    <2>3. Indexed(map[a], a, rcount)'
      BY <1>1, <2>1 DEF Holds, Indexed
    <2> QED BY <2>2, <2>3 DEF Holds
  <1> QED BY <1>2 DEF IndexOK

LEMMA InitInv == Init => IInv
  <1> SUFFICES ASSUME Init PROVE IInv
    OBVIOUS
  <1>1. TypeOK
    <2>1. out \in Seq((1 .. Len(left)) \X (1 .. Len(right)))
      BY DEF Init
    <2>2. Len(left) \in Nat /\ Len(right) \in Nat
      BY InputsAssumption DEF Init
    <2>3. 0 \in 0 .. Len(right) /\ 0 \in 0 .. (Len(left) + 1)
      BY <2>2
    <2> QED BY <2>1, <2>3 DEF Init, TypeOK
  <1>2. MapOK(map, Nat)
    BY InitMapOK DEF Init
  <1>3. \A b \in Buckets : map[b] = <<FreshNode>>
    BY DEF Init, InitHashmap
  <1>4. DOMAIN <<FreshNode>> = {1} /\ FreshNode.values = <<>> /\ FreshNode.cursor = 0
        /\ <<FreshNode>>[1] = FreshNode /\ DOMAIN <<>> = {}
    BY DEF FreshNode
  <1>5. \A b \in Buckets : Holds(map[b], b, 0)
    <2>1. \A j \in 1 .. 0 : FALSE
      OBVIOUS
    <2> QED BY <1>3, <1>4, <2>1 DEF Holds, RowsOfKey, Ascending, Indexed
  <1>6. IndexOK
    BY <1>2, <1>5 DEF IndexOK, Init
  <1>7. Places
    BY <1>3, <1>4 DEF Init, Places
  <1>8. ReturnedPassed /\ NoPairTwice /\ Exactly /\ InOrder
    BY <1>4 DEF Init, ReturnedPassed, NoPairTwice, Exactly, InOrder
  <1> QED BY <1>1, <1>6, <1>7, <1>8 DEF IInv

LEMMA CollectRightKeeps == ASSUME IInv, CollectRight PROVE IInv'
  <1> DEFINE k == right[rcount + 1].key
  <1>1. TypeOK /\ IndexOK /\ Places /\ MapOK(map, Nat)
    BY DEF IInv, IndexOK
  <1>2. /\ pc = "collect" /\ pc' = "collect" /\ rcount < Len(right) /\ rcount' = rcount + 1
        /\ ~ Overruns(map, k) /\ map' = InsertToHashmap(map, k, rcount)
        /\ left' = left /\ right' = right /\ lpos' = lpos /\ casted' = casted /\ out' = out
    BY DEF CollectRight
  <1>3. rcount \in Nat /\ rcount + 1 \in 1 .. Len(right) /\ rcount + 1 \in 0 .. Len(right)
        /\ k \in Keys
    BY <1>1, <1>2, RowFacts DEF TypeOK
  <1> HIDE DEF k
  <1>4. /\ MapOK(map', Nat)
        /\ k = Empty => map' = map
        /\ k # Empty => /\ \E s \in Nat \ {0} : PutAt(map[Bucket(k)], map'[Bucket(k)], s, k, rcount)
                        /\ \A a \in Buckets \ {Bucket(k)} : map'[a] = map[a]
    BY <1>1, <1>2, <1>3, InsertMap
  <1>5. ASSUME NEW b \in Buckets
        PROVE  /\ Holds(map'[b], b, rcount + 1)
               /\ \A i \in DOMAIN map'[b] : map'[b][i].cursor = 0
    <2>1. Holds(map[b], b, rcount) /\ ChainOK(map[b], b, Nat) /\ ChainOK(map'[b], b, Nat)
          /\ \A i \in DOMAIN map[b] : map[b][i].cursor = 0
      BY <1>1, <1>2, <1>4 DEF IndexOK, MapOK, Places
    <2>2. CASE k = Empty \/ Bucket(k) # b
      <3>1. map'[b] = map[b]
        BY <1>4, <2>2
      <3>2. Holds(map[b], b, rcount + 1)
        BY <1>3, <2>1, <2>2, HoldsOther DEF k
      <3> QED BY <2>1, <3>1, <3>2
    <2>3. CASE k # Empty /\ Bucket(k) = b
      <3>1. PICK s \in Nat \ {0} : PutAt(map[b], map'[b], s, k, rcount)
        BY <1>4, <2>3
      <3>2. Holds(map'[b], b, rcount + 1)
        BY <1>3, <2>1, <2>3, <3>1, HoldsInserted DEF k
      <3>3. \A i \in DOMAIN map'[b] : map'[b][i].cursor = 0
        BY <2>1, <3>1 DEF PutAt
      <3> QED BY <3>2, <3>3
    <2> QED BY <2>2, <2>3
  <1>6. IndexOK'
    BY <1>2, <1>4, <1>5 DEF IndexOK, Holds, RowsOfKey, Ascending, Indexed
  <1>7. TypeOK'
    BY <1>1, <1>2, <1>3 DEF TypeOK
  <1>8. Places' /\ Exactly'
    BY <1>1, <1>2, <1>5 DEF Places, Exactly
  <1>9. out' = <<>>
    BY <1>1, <1>2 DEF Places
  <1>10. ReturnedPassed' /\ NoPairTwice' /\ InOrder'
    <2>1. DOMAIN out' = {}
      BY <1>9
    <2> QED BY <2>1 DEF ReturnedPassed, NoPairTwice, InOrder
  <1> QED BY <1>6, <1>7, <1>8, <1>10 DEF IInv

LEMMA CollectTooManyKeeps == ASSUME IInv, CollectTooMany PROVE IInv'
  <1>1. /\ pc = "collect" /\ pc' = "wild"
        /\ left' = left /\ right' = right /\ map' = map /\ rcount' = rcount
        /\ lpos' = lpos /\ casted' = casted /\ out' = out
    BY DEF CollectTooMany
  <1>2. TypeOK' /\ Places' /\ Exactly'
    BY <1>1 DEF IInv, TypeOK, Places, Exactly
  <1>3. IndexOK'
    BY <1>1, SameIndex DEF IInv
  <1>4. DOMAIN out' = {}
    BY <1>1 DEF IInv, Places
  <1>5. ReturnedPassed' /\ NoPairTwice' /\ InOrder'
    BY <1>4 DEF ReturnedPassed, NoPairTwice, InOrder
  <1> QED BY <1>2, <1>3, <1>5 DEF IInv

LEMMA CollectedKeeps == ASSUME IInv, Collected PROVE IInv'
  <1>1. /\ pc = "collect" /\ pc' = "probe" /\ rcount = Len(right)
        /\ left' = left /\ right' = right /\ map' = map /\ rcount' = rcount
        /\ lpos' = lpos /\ casted' = casted /\ out' = out
    BY DEF Collected
  <1>2. TypeOK /\ Places /\ out = <<>> /\ lpos = 0
    BY <1>1 DEF IInv, Places
  <1>3. TypeOK'
    BY <1>1, <1>2 DEF TypeOK
  <1>4. Places'
    BY <1>1, <1>2, RowFacts DEF Places
  <1>5. IndexOK'
    BY <1>1, SameIndex DEF IInv
  <1>6. DOMAIN out' = {}
    BY <1>1, <1>2
  <1>7. ReturnedPassed' /\ NoPairTwice' /\ InOrder' /\ Returned' = {}
    BY <1>6 DEF ReturnedPassed, NoPairTwice, InOrder, Returned
  <1>8. Cursors'
    <2>1. \A k : ~ Seen(k)'
      BY <1>1, <1>2 DEF Seen
    <2>2. \A b \in Buckets : \A i \in DOMAIN map'[b] : map'[b][i].cursor = 0
      BY <1>1, <1>2 DEF Places
    <2> QED BY <2>1, <2>2 DEF Cursors
  <1>9. ResultSoFar'
    <2>1. \A p \in Pairs' : ~ (p[1] < 0) /\ p[1] # 0
      BY <1>1, <1>2, RowFacts DEF Pairs
    <2> QED BY <1>1, <1>2, <1>7, <2>1 DEF ResultSoFar
  <1> QED BY <1>3, <1>4, <1>5, <1>7, <1>8, <1>9 DEF IInv, Exactly
----------------------------------------------------------------------------
(***************************************************************************)
(* Probing.                                                                *)
(***************************************************************************)
\* A row is in one place of the map.
LEMMA OnePlace ==
  ASSUME TypeOK, IndexOK,
         NEW b \in Buckets, NEW i \in DOMAIN map[b], NEW p \in DOMAIN map[b][i].values,
         NEW a \in Buckets, NEW j \in DOMAIN map[a], NEW q \in DOMAIN map[a][j].values,
         map[b][i].values[p] = map[a][j].values[q]
  PROVE  a = b /\ j = i /\ q = p
  <1>1. map[b][i].key = map[a][j].key
    BY DEF IndexOK, Holds, RowsOfKey
  <1>2. ChainOK(map[b], b, Nat) /\ ChainOK(map[a], a, Nat)
    BY DEF IndexOK, MapOK
  <1>3. DOMAIN map[b][i].values \subseteq Nat /\ DOMAIN map[a][j].values \subseteq Nat
        /\ map[b][i].values # <<>> /\ map[a][j].values # <<>>
    <2>1. DOMAIN <<>> = {}
      OBVIOUS
    <2>2. DOMAIN map[b][i].values = 1 .. Len(map[b][i].values)
          /\ DOMAIN map[a][j].values = 1 .. Len(map[a][j].values)
      BY <1>2, NodeFacts
    <2> QED BY <2>1, <2>2
  <1>4. a = b
    BY <1>1, <1>2, <1>3 DEF ChainOK
  <1>5. j = i
    BY <1>1, <1>2, <1>4 DEF ChainOK
  <1>6. Ascending(map[b])
    BY DEF IndexOK, Holds
  <1>7. ~ (p < q) /\ ~ (q < p)
    <2>1. map[b][i].values \in Seq(Nat)
      BY <1>2, NodeFacts
    <2>2. map[b][i].values[p] \in Nat /\ map[b][i].values[q] = map[b][i].values[p]
      BY <1>4, <1>5, <2>1
    <2> QED BY <1>4, <1>5, <1>6, <2>2 DEF Ascending
  <1> QED BY <1>3, <1>4, <1>5, <1>7

\* A row of the map has been passed when the cursor of its node is behind it.
LEMMA PassedAt ==
  ASSUME TypeOK, IndexOK, NEW b \in Buckets, NEW i \in DOMAIN map[b],
         NEW p \in DOMAIN map[b][i].values, NEW j, map[b][i].values[p] = j - 1
  PROVE  Passed(j) <=> p <= map[b][i].cursor
  <1>1. ChainOK(map[b], b, Nat)
    BY DEF IndexOK, MapOK
  <1>2. DOMAIN map[b][i].values = 1 .. Len(map[b][i].values) /\ map[b][i].cursor \in Nat
        /\ Len(map[b][i].values) \in Nat
    BY <1>1, NodeFacts
  <1>3. p <= map[b][i].cursor => Passed(j)
    BY <1>2 DEF Passed
  <1>4. ASSUME Passed(j) PROVE p <= map[b][i].cursor
    <2>1. PICK a \in Buckets : \E h \in DOMAIN map[a] :
             \E q \in 1 .. map[a][h].cursor : map[a][h].values[q] = j - 1
      BY <1>4 DEF Passed
    <2>2. PICK h \in DOMAIN map[a] :
             \E q \in 1 .. map[a][h].cursor : map[a][h].values[q] = j - 1
      BY <2>1
    <2>3. PICK q \in 1 .. map[a][h].cursor : map[a][h].values[q] = j - 1
      BY <2>2
    <2>4. q \in DOMAIN map[a][h].values /\ map[a][h].cursor \in Nat
      <3>1. ChainOK(map[a], a, Nat)
        BY DEF IndexOK, MapOK
      <3>2. DOMAIN map[a][h].values = 1 .. Len(map[a][h].values) /\ map[a][h].cursor \in Nat
            /\ Len(map[a][h].values) \in Nat /\ map[a][h].cursor <= Len(map[a][h].values)
        BY <3>1, NodeFacts
      <3> QED BY <3>2
    <2>5. a = b /\ h = i /\ q = p
      BY <2>3, <2>4, OnePlace
    <2> QED BY <2>4, <2>5
  <1> QED BY <1>3, <1>4

ProbeBucket == Bucket(JoinValue)
ProbeIndex  == Find(map[ProbeBucket], JoinValue)
ProbeNode   == map[ProbeBucket][ProbeIndex]

LEMMA JoinValueFacts ==
  ASSUME IInv, pc = "probe"
  PROVE  /\ lpos \in 0 .. Len(left) /\ JoinValue \in Keys /\ ProbeBucket \in Buckets
         /\ ChainOK(map[ProbeBucket], ProbeBucket, Nat)
         /\ lpos = 0 => JoinValue = Empty
         /\ Plain => JoinValue = Current
  <1>1. TypeOK /\ Places /\ IndexOK
    BY DEF IInv
  <1>2. lpos \in 0 .. Len(left)
    BY <1>1, RowFacts DEF TypeOK, Places
  <1>3. lpos # 0 => lpos \in 1 .. Len(left)
    BY <1>2
  <1>4. JoinValue \in Keys
    BY <1>1, <1>3, RowFacts, HashmapAssumption DEF JoinValue
  <1>5. ProbeBucket \in Buckets
    BY <1>4, BucketInTable DEF ProbeBucket
  <1>6. Plain => JoinValue = Current
    BY <1>1, <1>3, RowFacts DEF Plain, JoinValue, Current
  <1> QED BY <1>1, <1>2, <1>4, <1>5, <1>6 DEF JoinValue, IndexOK, MapOK

\* The row the loop looks at: it has the join value as its key, and it has
\* not been passed, so that it was not returned for the current left row.
LEMMA CandidateFacts ==
  ASSUME IInv, pc = "probe", IsInHashmap(map, JoinValue)
  PROVE  /\ lpos \in 1 .. Len(left) /\ JoinValue # Empty
         /\ ProbeIndex \in DOMAIN map[ProbeBucket] /\ ProbeNode.key = JoinValue
         /\ ProbeNode.cursor \in Nat /\ ProbeNode.cursor < Len(ProbeNode.values)
         /\ ProbeNode.cursor + 1 \in DOMAIN ProbeNode.values
         /\ Candidate \in 1 .. Len(right) /\ right[Candidate].key = JoinValue
         /\ ProbeNode.values[ProbeNode.cursor + 1] = Candidate - 1
         /\ ~ Passed(Candidate)
  <1>1. TypeOK /\ Places /\ IndexOK
    BY DEF IInv
  <1>2. /\ lpos \in 0 .. Len(left) /\ JoinValue \in Keys /\ ProbeBucket \in Buckets
        /\ ChainOK(map[ProbeBucket], ProbeBucket, Nat) /\ (lpos = 0 => JoinValue = Empty)
    BY JoinValueFacts
  <1>3. /\ Has(map[ProbeBucket], JoinValue)
        /\ ProbeNode.cursor # Len(ProbeNode.values) /\ Len(ProbeNode.values) > 0
    BY DEF IsInHashmap, ProbeNode, ProbeIndex, ProbeBucket
  <1>4. ProbeIndex \in DOMAIN map[ProbeBucket] /\ ProbeNode.key = JoinValue
    BY <1>2, <1>3, FindFinds DEF ProbeIndex, ProbeNode
  <1>5. /\ ProbeNode.cursor \in Nat /\ ProbeNode.values \in Seq(Nat)
        /\ Len(ProbeNode.values) \in Nat /\ ProbeNode.cursor <= Len(ProbeNode.values)
        /\ DOMAIN ProbeNode.values = 1 .. Len(ProbeNode.values)
        /\ (ProbeNode.values = <<>> <=> Len(ProbeNode.values) = 0)
    BY <1>2, <1>4, NodeFacts DEF ProbeNode
  <1>6. JoinValue # Empty
    BY <1>2, <1>3, <1>4, <1>5 DEF ChainOK, ProbeNode
  <1>7. ProbeNode.cursor < Len(ProbeNode.values)
        /\ ProbeNode.cursor + 1 \in DOMAIN ProbeNode.values
    BY <1>3, <1>5
  <1>8. Candidate = ProbeNode.values[ProbeNode.cursor + 1] + 1
    BY <1>3 DEF Candidate, GetResult, ProbeNode, ProbeIndex, ProbeBucket
  <1>9. ProbeNode.values[ProbeNode.cursor + 1] \in 0 .. (rcount - 1)
        /\ right[Candidate].key = JoinValue
    BY <1>1, <1>2, <1>4, <1>7, <1>8 DEF IndexOK, Holds, RowsOfKey, ProbeNode
  <1>10. Candidate \in 1 .. Len(right)
         /\ ProbeNode.values[ProbeNode.cursor + 1] = Candidate - 1
    <2>1. Len(right) \in Nat /\ rcount \in 0 .. Len(right)
      BY <1>1, RowFacts DEF TypeOK
    <2>2. \A v \in 0 .. (rcount - 1) : v + 1 \in 1 .. Len(right) /\ v = (v + 1) - 1
      BY <2>1
    <2> QED BY <1>8, <1>9, <2>2
  <1>11. ~ Passed(Candidate)
    <2>1. Passed(Candidate) <=> ProbeNode.cursor + 1 <= ProbeNode.cursor
      BY <1>1, <1>2, <1>4, <1>7, <1>10, PassedAt DEF ProbeNode
    <2> QED BY <1>5, <2>1
  <1> QED BY <1>2, <1>4, <1>5, <1>6, <1>7, <1>9, <1>10, <1>11

\* What taking the candidate out of the map does, whether it matches or not.
LEMMA TakeCandidate ==
  ASSUME IInv, pc = "probe", IsInHashmap(map, JoinValue), map' = AfterGet(map, JoinValue),
         left' = left, right' = right, rcount' = rcount, lpos' = lpos
  PROVE  /\ IndexOK'
         /\ \A j \in Nat : Passed(j)' <=> Passed(j) \/ j = Candidate
         /\ Plain /\ Cursors => Cursors'
  <1> DEFINE b == ProbeBucket
             i == ProbeIndex
             p == ProbeNode.cursor + 1
  <1>1. /\ TypeOK /\ IndexOK /\ JoinValue \in Keys /\ b \in Buckets
        /\ Plain => JoinValue = Current
    BY JoinValueFacts DEF IInv
  <1>2. /\ i \in DOMAIN map[b] /\ map[b][i].key = JoinValue
        /\ map[b][i].cursor \in Nat /\ map[b][i].cursor < Len(map[b][i].values)
        /\ p \in DOMAIN map[b][i].values /\ p = map[b][i].cursor + 1
        /\ map[b][i].values[p] = Candidate - 1 /\ Candidate \in Nat
    BY CandidateFacts DEF ProbeNode
  <1>3. MapOK(map', Nat) /\ Moved(map, map', b, i, p)
    <2>1. MapOK(map, Nat) /\ Has(map[b], JoinValue) /\ map[b][i].cursor # Len(map[b][i].values)
      BY <1>1 DEF IndexOK, IsInHashmap, ProbeBucket, ProbeIndex
    <2> QED BY <1>1, <1>2, <2>1, GetMap DEF ProbeBucket, ProbeIndex
  <1>4. IndexOK'
    BY <1>1, <1>3, MovedIndex
  <1> HIDE DEF b, i, p
  <1>5. \A a \in Buckets :
           /\ DOMAIN map'[a] = DOMAIN map[a]
           /\ \A h \in DOMAIN map[a] :
                 /\ map'[a][h].key = map[a][h].key
                 /\ map'[a][h].values = map[a][h].values
                 /\ map'[a][h].cursor = IF a = b /\ h = i THEN p ELSE map[a][h].cursor
    BY <1>3 DEF Moved
  <1>6. ASSUME NEW j \in Nat PROVE Passed(j)' <=> Passed(j) \/ j = Candidate
    <2>1. ASSUME Passed(j) PROVE Passed(j)'
      <3>0. PICK a \in Buckets : \E h \in DOMAIN map[a] :
               \E q \in 1 .. map[a][h].cursor : map[a][h].values[q] = j - 1
        BY <2>1 DEF Passed
      <3>1. PICK h \in DOMAIN map[a] :
               \E q \in 1 .. map[a][h].cursor : map[a][h].values[q] = j - 1
        BY <3>0
      <3>2. PICK q \in 1 .. map[a][h].cursor : map[a][h].values[q] = j - 1
        BY <3>1
      <3>3. q \in 1 .. map'[a][h].cursor
        BY <1>2, <1>5, <3>2
      <3>4. h \in DOMAIN map'[a] /\ map'[a][h].values[q] = j - 1
        BY <1>5, <3>2
      <3> QED BY <3>3, <3>4 DEF Passed
    <2>2. ASSUME j = Candidate PROVE Passed(j)'
      <3>1. i \in DOMAIN map'[b] /\ map'[b][i].values[p] = j - 1 /\ p \in 1 .. map'[b][i].cursor
        BY <1>1, <1>2, <1>5, <2>2
      <3> QED BY <1>1, <3>1 DEF Passed
    <2>3. ASSUME Passed(j)', ~ Passed(j) PROVE j = Candidate
      <3>0. PICK a \in Buckets : \E h \in DOMAIN map'[a] :
               \E q \in 1 .. map'[a][h].cursor : map'[a][h].values[q] = j - 1
        BY <2>3 DEF Passed
      <3>1. PICK h \in DOMAIN map'[a] :
               \E q \in 1 .. map'[a][h].cursor : map'[a][h].values[q] = j - 1
        BY <3>0
      <3>2. PICK q \in 1 .. map'[a][h].cursor : map'[a][h].values[q] = j - 1
        BY <3>1
      <3>3. h \in DOMAIN map[a] /\ map[a][h].values[q] = j - 1
        BY <1>5, <3>1, <3>2
      <3>4. ~ (q \in 1 .. map[a][h].cursor)
        BY <2>3, <3>3 DEF Passed
      <3>5. a = b /\ h = i /\ q = p
        BY <1>2, <1>5, <3>2, <3>3, <3>4
      <3> QED BY <1>2, <3>3, <3>5
    <2> QED BY <2>1, <2>2, <2>3
  <1>7. ASSUME Plain, Cursors PROVE Cursors'
    <2>1. Current' = Current /\ \A k : Seen(k)' <=> Seen(k)
      BY DEF Current, Seen
    <2>2. map[b][i].key = Current /\ ~ (i # 1 /\ Seen(map[b][i].key))
      BY <1>1, <1>2, <1>7 DEF Cursors
    <2> QED BY <1>5, <1>7, <2>1, <2>2 DEF Cursors
  <1> QED BY <1>4, <1>6, <1>7

\* While the tables are the same, so is the join of them.
LEMMA SameJoin ==
  ASSUME left' = left, right' = right
  PROVE  /\ Pairs' = Pairs /\ (Plain' <=> Plain)
         /\ \A p : GetsJoined(p)' <=> GetsJoined(p)
  BY DEF Pairs, Plain, GetsJoined, Chained, Matches

\* Row j is in the node of key k.
InNode(k, j) ==
    /\ Bucket(k) \in Buckets
    /\ \E i \in DOMAIN map[Bucket(k)] :
          /\ map[Bucket(k)][i].key = k
          /\ \E p \in DOMAIN map[Bucket(k)][i].values : map[Bucket(k)][i].values[p] = j - 1

\* Every row with a key is in the node of its key.
LEMMA RowPlace ==
  ASSUME TypeOK, IndexOK, rcount = Len(right),
         NEW j \in 1 .. Len(right), right[j].key # Empty
  PROVE  InNode(right[j].key, j)
  <1>1. Bucket(right[j].key) \in Buckets
    BY RowFacts, BucketInTable
  <1> QED BY <1>1 DEF IndexOK, Holds, Indexed, InNode

\* A key is chained when its node is not the head of the bucket.
LEMMA ChainedIs ==
  ASSUME TypeOK, IndexOK, rcount = Len(right), NEW b \in Buckets,
         NEW i \in DOMAIN map[b], map[b][i].values # <<>>
  PROVE  Chained(map[b][i].key) <=> i # 1
  <1> DEFINE c == map[b]
             k == c[i].key
  <1>1. ChainOK(c, b, Nat) /\ RowsOfKey(c, rcount) /\ Indexed(c, b, rcount)
    BY DEF IndexOK, MapOK, Holds
  <1>2. 1 \in DOMAIN c /\ k # Empty /\ Bucket(k) = b
    BY <1>1 DEF ChainOK
  <1>3. rcount \in Nat /\ DOMAIN right = 1 .. rcount
    BY RowFacts
  <1>4. ASSUME i # 1 PROVE Chained(k)
    <2>1. c[1].values # <<>>
      <3>1. c = <<FreshNode>> => DOMAIN c = {1}
        OBVIOUS
      <3> QED BY <1>1, <1>2, <1>4, <3>1 DEF ChainOK
    <2>2. 1 \in DOMAIN c[1].values
      BY <1>1, <1>2, <2>1, NodeFacts
    <2> DEFINE j == c[1].values[1] + 1
    <2>3. j \in 1 .. rcount /\ right[j].key = c[1].key /\ c[1].values[1] = j - 1
      BY <1>1, <1>2, <1>3, <2>2 DEF RowsOfKey
    <2>4. right[j].key \notin {Empty, k} /\ Bucket(right[j].key) = b
      BY <1>1, <1>2, <1>4, <2>1, <2>3 DEF ChainOK
    <2>5. ASSUME NEW h \in 1 .. j, right[h].key = k PROVE FALSE
      <3>1. h \in 1 .. rcount
        BY <1>3, <2>3
      <3>2. c[1].values[1] <= h - 1
        BY <1>1, <1>2, <2>5, <3>1 DEF Indexed
      <3>3. h = j
        BY <2>3, <3>2
      <3> QED BY <2>4, <2>5, <3>3
    <2> HIDE DEF j
    <2> QED BY <1>2, <1>3, <2>3, <2>4, <2>5 DEF Chained
  <1>5. ASSUME i = 1, Chained(k) PROVE FALSE
    <2>1. PICK j \in 1 .. rcount : /\ right[j].key \notin {Empty, k}
                                   /\ Bucket(right[j].key) = Bucket(k)
                                   /\ \A h \in 1 .. j : right[h].key # k
      BY <1>3, <1>5 DEF Chained
    <2>2. c[1].values # <<>> /\ c[1].values[1] <= j - 1
      BY <1>1, <1>2, <2>1 DEF Indexed
    <2>3. 1 \in DOMAIN c[1].values
      BY <1>1, <1>2, <2>2, NodeFacts
    <2>4. c[1].values[1] \in 0 .. (rcount - 1) /\ right[c[1].values[1] + 1].key = k
      BY <1>1, <1>2, <1>5, <2>3 DEF RowsOfKey
    <2>5. c[1].values[1] + 1 \in 1 .. j
      BY <1>3, <2>1, <2>2, <2>4
    <2> QED BY <2>1, <2>4, <2>5
  <1> QED BY <1>4, <1>5

LEMMA RejectKeeps == ASSUME IInv, Reject PROVE IInv'
  <1>1. /\ pc = "probe" /\ pc' = "probe" /\ IsInHashmap(map, JoinValue)
        /\ ~ Matches(left[lpos], right[Candidate])
        /\ map' = AfterGet(map, JoinValue) /\ casted' = TRUE
        /\ left' = left /\ right' = right /\ rcount' = rcount /\ lpos' = lpos /\ out' = out
    BY DEF Reject
  <1>2. /\ TypeOK /\ Places /\ ReturnedPassed /\ NoPairTwice /\ InOrder
        /\ Plain => Cursors /\ ResultSoFar
    BY <1>1 DEF IInv, Exactly
  <1>3. /\ IndexOK'
        /\ \A j \in Nat : Passed(j)' <=> Passed(j) \/ j = Candidate
        /\ Plain /\ Cursors => Cursors'
    BY <1>1, TakeCandidate
  <1>4. TypeOK'
    BY <1>1, <1>2 DEF TypeOK
  <1>5. Places'
    BY <1>1, <1>2 DEF Places
  <1>6. NoPairTwice' /\ InOrder'
    BY <1>1, <1>2, SameJoin DEF NoPairTwice, InOrder, Before
  <1>7. ReturnedPassed'
    <2>1. \A n \in DOMAIN out : out[n][2] \in Nat
      BY <1>2, RowFacts DEF TypeOK
    <2> QED BY <1>1, <1>2, <1>3, <2>1 DEF ReturnedPassed
  <1>8. ASSUME Plain PROVE ResultSoFar'
    <2>1. \A p \in Pairs : p[2] \in Nat
      BY <1>2, RowFacts DEF Pairs
    <2>2. \A p \in Pairs : GetsJoined(p) /\ p[1] = lpos => p[2] # Candidate
      BY <1>1 DEF GetsJoined
    <2>3. Returned' = Returned
      BY <1>1 DEF Returned
    <2> QED BY <1>1, <1>2, <1>3, <1>8, <2>1, <2>2, <2>3, SameJoin DEF ResultSoFar
  <1> QED BY <1>2, <1>3, <1>4, <1>5, <1>6, <1>7, <1>8, SameJoin, <1>1 DEF IInv, Exactly

\* One more element at the end of a sequence.
LEMMA Appended ==
  ASSUME NEW S, NEW s \in Seq(S), NEW e \in S
  PROVE  /\ Append(s, e) \in Seq(S) /\ Len(s) \in Nat
         /\ DOMAIN Append(s, e) = DOMAIN s \cup {Len(s) + 1}
         /\ Append(s, e)[Len(s) + 1] = e
         /\ \A n \in DOMAIN s : Append(s, e)[n] = s[n] /\ n \in Nat /\ n < Len(s) + 1
  OBVIOUS

\* The candidate that passes the filter is a pair of the join.
LEMMA CandidateIsJoined ==
  ASSUME IInv, pc = "probe", Plain, IsInHashmap(map, JoinValue),
         Matches(left[lpos], right[Candidate])
  PROVE  GetsJoined(<<lpos, Candidate>>)
  <1>1. /\ lpos \in 1 .. Len(left) /\ JoinValue # Empty
        /\ ProbeIndex \in DOMAIN map[ProbeBucket] /\ ProbeNode.key = JoinValue
        /\ ProbeNode.cursor < Len(ProbeNode.values)
        /\ ProbeNode.cursor + 1 \in DOMAIN ProbeNode.values
        /\ ProbeNode.cursor \in Nat /\ right[Candidate].key = JoinValue
    BY CandidateFacts
  <1>2. /\ ProbeBucket \in Buckets /\ JoinValue = Current
        /\ ChainOK(map[ProbeBucket], ProbeBucket, Nat)
    BY JoinValueFacts
  <1>3. left[lpos].key = JoinValue
    BY <1>1, <1>2 DEF Current
  <1>4. TypeOK /\ IndexOK /\ rcount = Len(right) /\ Cursors
    BY DEF IInv, Places, Exactly
  <1>5. ProbeNode.values # <<>>
    BY <1>1
  <1>6. Chained(JoinValue) <=> ProbeIndex # 1
    BY <1>1, <1>2, <1>4, <1>5, ChainedIs DEF ProbeNode
  <1>7. ~ (ProbeIndex # 1 /\ Seen(JoinValue))
    BY <1>1, <1>2, <1>4 DEF Cursors, ProbeNode
  <1> QED BY <1>1, <1>3, <1>6, <1>7 DEF GetsJoined, Seen

\* The rows returned before for this left row come before the candidate.
LEMMA PassedBefore ==
  ASSUME IInv, pc = "probe", Plain, IsInHashmap(map, JoinValue),
         NEW j \in 1 .. Len(right), Passed(j), right[j].key = JoinValue
  PROVE  j < Candidate
  <1> DEFINE c == map[ProbeBucket]
             i == ProbeIndex
             q == ProbeNode.cursor + 1
  <1>1. /\ JoinValue # Empty /\ i \in DOMAIN c /\ c[i].key = JoinValue
        /\ c[i].cursor \in Nat /\ q \in DOMAIN c[i].values /\ q = c[i].cursor + 1
        /\ Candidate \in 1 .. Len(right) /\ c[i].values[q] = Candidate - 1
    BY CandidateFacts DEF ProbeNode
  <1>2. /\ TypeOK /\ IndexOK /\ rcount = Len(right)
        /\ ProbeBucket \in Buckets /\ ChainOK(c, ProbeBucket, Nat)
    BY JoinValueFacts DEF IInv, Places
  <1>3. PICK h \in DOMAIN c : /\ c[h].key = JoinValue
                              /\ \E p \in DOMAIN c[h].values : c[h].values[p] = j - 1
    BY <1>1, <1>2, RowPlace DEF InNode, ProbeBucket
  <1>4. h = i
    BY <1>1, <1>2, <1>3 DEF ChainOK
  <1>5. PICK p \in DOMAIN c[i].values : c[i].values[p] = j - 1
    BY <1>3, <1>4
  <1>6. p <= c[i].cursor
    BY <1>1, <1>2, <1>5, PassedAt
  <1>7. p < q
    <2>1. DOMAIN c[i].values = 1 .. Len(c[i].values) /\ Len(c[i].values) \in Nat
      BY <1>1, <1>2, NodeFacts
    <2> QED BY <1>1, <1>5, <1>6, <2>1
  <1>8. c[i].values[p] < c[i].values[q]
    BY <1>1, <1>2, <1>5, <1>7 DEF IndexOK, Holds, Ascending
  <1>9. Len(right) \in Nat
    BY <1>2, RowFacts
  <1> HIDE DEF c, i, q
  <1> QED BY <1>1, <1>5, <1>8, <1>9

LEMMA ReturnTupleKeeps == ASSUME IInv, ReturnTuple PROVE IInv'
  <1> DEFINE e == <<lpos, Candidate>>
             last == Len(out) + 1
  <1>1. /\ pc = "probe" /\ pc' = "returned" /\ IsInHashmap(map, JoinValue)
        /\ Matches(left[lpos], right[Candidate]) /\ out' = Append(out, e)
        /\ map' = AfterGet(map, JoinValue) /\ casted' = TRUE
        /\ left' = left /\ right' = right /\ rcount' = rcount /\ lpos' = lpos
    BY DEF ReturnTuple
  <1>2. /\ TypeOK /\ Places /\ ReturnedPassed /\ NoPairTwice /\ InOrder
        /\ Plain => Cursors /\ ResultSoFar
    BY <1>1 DEF IInv, Exactly
  <1>3. /\ IndexOK'
        /\ \A j \in Nat : Passed(j)' <=> Passed(j) \/ j = Candidate
        /\ Plain /\ Cursors => Cursors'
    BY <1>1, TakeCandidate
  <1>4. /\ lpos \in 1 .. Len(left) /\ Candidate \in 1 .. Len(right) /\ ~ Passed(Candidate)
        /\ right[Candidate].key = JoinValue /\ e \in Pairs
    BY <1>1, CandidateFacts DEF Pairs
  <1>5. /\ Len(left) \in Nat /\ Len(right) \in Nat /\ Candidate \in Nat /\ lpos \in Nat
        /\ e[1] = lpos /\ e[2] = Candidate
    BY <1>2, <1>4, RowFacts
  <1>6. out \in Seq(Pairs)
    BY <1>2 DEF TypeOK, Pairs
  <1> HIDE DEF e
  <1>7. /\ out' \in Seq(Pairs) /\ DOMAIN out' = DOMAIN out \cup {last} /\ out'[last] = e
        /\ \A n \in DOMAIN out : out'[n] = out[n] /\ n \in Nat /\ n < last
        /\ last \in Nat
    <2>1. Len(out) \in Nat
      BY <1>6
    <2> QED BY <1>1, <1>4, <1>6, <2>1, Appended
  <1>8. \A n \in DOMAIN out : out[n] \in Pairs /\ out[n][1] \in Nat /\ out[n][2] \in Nat
                              /\ out[n][2] \in 1 .. Len(right)
    <2>1. \A n \in DOMAIN out : out[n] \in Pairs
      BY <1>6
    <2> QED BY <1>5, <2>1 DEF Pairs
  <1> HIDE DEF last
  <1>9. TypeOK'
    BY <1>1, <1>2, <1>7 DEF TypeOK, Pairs
  <1>10. Places'
    BY <1>1, <1>2 DEF Places
  <1>11. ReturnedPassed'
    BY <1>1, <1>2, <1>3, <1>5, <1>7, <1>8 DEF ReturnedPassed
  <1>12. NoPairTwice'
    <2>1. ASSUME NEW n \in DOMAIN out
          PROVE  out[n] # e /\ out[n][1] <= e[1]
      BY <1>2, <1>4, <1>5 DEF ReturnedPassed
    <2>2. ASSUME NEW m \in DOMAIN out', NEW n \in DOMAIN out', m < n
          PROVE  out'[m] # out'[n] /\ out'[m][1] <= out'[n][1]
      <3>1. m \in DOMAIN out
        BY <1>7, <2>2
      <3>2. CASE n \in DOMAIN out
        BY <1>2, <1>7, <2>2, <3>1, <3>2 DEF NoPairTwice
      <3>3. CASE n = last
        BY <1>7, <2>1, <3>1, <3>3
      <3> QED BY <1>7, <3>2, <3>3
    <2> QED BY <2>2 DEF NoPairTwice
  <1>13. Returned' = Returned \cup {e}
    BY <1>7 DEF Returned
  <1>14. ASSUME Plain PROVE InOrder'
    <2>1. ASSUME NEW n \in DOMAIN out PROVE Before(out[n], e)
      <3>1. GetsJoined(out[n]) /\ (out[n][1] < lpos \/ (out[n][1] = lpos /\ Passed(out[n][2])))
        BY <1>2, <1>14 DEF ResultSoFar, Returned
      <3>2. CASE out[n][1] = lpos
        <4>1. right[out[n][2]].key = JoinValue
          <5>1. JoinValue = left[lpos].key
            BY <1>1, <1>4, <1>5, <1>14, JoinValueFacts DEF Current
          <5> QED BY <3>1, <3>2, <5>1 DEF GetsJoined
        <4>2. out[n][2] < Candidate
          BY <1>1, <1>4, <1>5, <1>8, <1>14, <3>1, <3>2, <4>1, PassedBefore
        <4> QED BY <1>5, <3>2, <4>2 DEF Before
      <3> QED BY <1>5, <3>1, <3>2 DEF Before
    <2>2. ASSUME NEW m \in DOMAIN out', NEW n \in DOMAIN out', m < n
          PROVE  Before(out'[m], out'[n])
      <3>1. m \in DOMAIN out
        BY <1>7, <2>2
      <3>2. CASE n \in DOMAIN out
        BY <1>2, <1>7, <1>14, <2>2, <3>1, <3>2 DEF InOrder
      <3>3. CASE n = last
        BY <1>7, <2>1, <3>1, <3>3
      <3> QED BY <1>7, <3>2, <3>3
    <2> QED BY <2>2 DEF InOrder, Before
  <1>15. ASSUME Plain PROVE ResultSoFar'
    <2>1. GetsJoined(e)
      BY <1>1, <1>15, CandidateIsJoined DEF e
    <2>2. \A p \in Pairs : p[2] \in Nat /\ (p[1] = lpos /\ p[2] = Candidate <=> p = e)
      BY <1>5 DEF Pairs, e
    <2> QED BY <1>1, <1>2, <1>3, <1>4, <1>5, <1>13, <1>15, <2>1, <2>2, SameJoin DEF ResultSoFar
  <1>16. InOrder'
    BY <1>1, <1>14, SameJoin DEF InOrder
  <1> QED BY <1>1, <1>2, <1>3, <1>9, <1>10, <1>11, <1>12, <1>15, <1>16, SameJoin DEF IInv, Exactly

\* When the map has nothing more under the join value, the rows of the
\* current left row's key have all been passed.
LEMMA UsedUp ==
  ASSUME IInv, pc = "probe", Plain, ~ IsInHashmap(map, JoinValue)
  PROVE  /\ \A b \in Buckets : \A i \in DOMAIN map[b] :
               map[b][i].values # <<>> /\ map[b][i].key = Current =>
                  lpos # 0 /\ map[b][i].cursor = Len(map[b][i].values)
         /\ \A p \in Pairs : GetsJoined(p) /\ p[1] = lpos => Passed(p[2])
  <1>1. /\ TypeOK /\ IndexOK /\ rcount = Len(right) /\ lpos \in 0 .. Len(left)
        /\ JoinValue = Current /\ (lpos = 0 => JoinValue = Empty)
    BY JoinValueFacts DEF IInv, Places
  <1>2. ASSUME NEW b \in Buckets, NEW i \in DOMAIN map[b],
               map[b][i].values # <<>>, map[b][i].key = Current
        PROVE  lpos # 0 /\ map[b][i].cursor = Len(map[b][i].values)
    <2>1. ChainOK(map[b], b, Nat)
      BY <1>1 DEF IndexOK, MapOK
    <2>2. Current # Empty /\ Bucket(Current) = b
      BY <1>2, <2>1 DEF ChainOK
    <2>3. Has(map[b], Current) /\ Find(map[b], Current) = i
      BY <1>2, <2>1, FindFinds
    <2>4. Len(map[b][i].values) \in Nat /\ Len(map[b][i].values) # 0
      BY <1>2, <2>1, NodeFacts
    <2>5. Len(map[b][i].values) > 0
      BY <2>4
    <2>6. map[b][i].cursor = Len(map[b][i].values)
      BY <1>1, <2>2, <2>3, <2>5 DEF IsInHashmap
    <2> QED BY <1>1, <2>2, <2>6
  <1>3. ASSUME NEW p \in Pairs, GetsJoined(p), p[1] = lpos
        PROVE  Passed(p[2])
    <2>1. p[1] \in 1 .. Len(left) /\ p[2] \in 1 .. Len(right)
      BY DEF Pairs
    <2>2. right[p[2]].key = Current /\ Current # Empty
      <3>1. Current = left[p[1]].key
        BY <1>1, <1>3, <2>1 DEF Current
      <3> QED BY <1>3, <3>1 DEF GetsJoined
    <2>3. InNode(Current, p[2]) /\ Bucket(Current) \in Buckets
      BY <1>1, <2>1, <2>2, RowPlace DEF InNode
    <2> DEFINE c == map[Bucket(Current)]
    <2>4. PICK i \in DOMAIN c :
              c[i].key = Current /\ \E q \in DOMAIN c[i].values : c[i].values[q] = p[2] - 1
      BY <2>3 DEF InNode
    <2>5. PICK q \in DOMAIN c[i].values : c[i].values[q] = p[2] - 1
      BY <2>4
    <2>6. ChainOK(c, Bucket(Current), Nat)
      BY <1>1, <2>3 DEF IndexOK, MapOK
    <2>7. DOMAIN c[i].values = 1 .. Len(c[i].values)
      BY <2>6, NodeFacts
    <2>8. c[i].values # <<>>
      BY <2>5
    <2>9. q <= c[i].cursor
      BY <1>2, <2>3, <2>4, <2>5, <2>7, <2>8
    <2> QED BY <1>1, <2>3, <2>5, <2>9, PassedAt
  <1> QED BY <1>2, <1>3

LEMMA NextLeftKeeps == ASSUME IInv, NextLeft PROVE IInv'
  <1>1. /\ pc = "probe" /\ ~ IsInHashmap(map, JoinValue)
        /\ map' = ResetCursor(map, JoinValue) /\ lpos' = lpos + 1 /\ casted' = FALSE
        /\ pc' = IF lpos = Len(left) THEN "finish" ELSE "probe"
        /\ left' = left /\ right' = right /\ rcount' = rcount /\ out' = out
    BY DEF NextLeft
  <1>2. /\ TypeOK /\ Places /\ ReturnedPassed /\ NoPairTwice /\ InOrder /\ IndexOK
        /\ Plain => Cursors /\ ResultSoFar
        /\ rcount = Len(right)
    BY <1>1 DEF IInv, Exactly, Places
  <1>3. /\ lpos \in 0 .. Len(left) /\ lpos \in Nat /\ Len(left) \in Nat /\ Len(right) \in Nat
        /\ JoinValue \in Keys /\ ProbeBucket \in Buckets /\ MapOK(map, Nat)
        /\ Plain => JoinValue = Current
    <2>1. lpos \in 0 .. Len(left) /\ JoinValue \in Keys /\ ProbeBucket \in Buckets
          /\ (Plain => JoinValue = Current)
      BY <1>1, JoinValueFacts
    <2>2. Len(left) \in Nat /\ Len(right) \in Nat
      BY <1>2, RowFacts
    <2> QED BY <1>2, <2>1, <2>2 DEF IndexOK
  <1>4. MapOK(map', Nat) /\ Moved(map, map', ProbeBucket, 1, 0)
    BY <1>1, <1>3, ResetMap DEF ProbeBucket
  <1>5. IndexOK'
    BY <1>1, <1>2, <1>3, <1>4, MovedIndex
  <1>6. TypeOK'
    <2>1. lpos + 1 \in 0 .. (Len(left) + 1)
      BY <1>3
    <2> QED BY <1>1, <1>2, <2>1 DEF TypeOK
  <1>7. Places'
    BY <1>1, <1>2, <1>3 DEF Places
  <1>8. NoPairTwice' /\ InOrder'
    BY <1>1, <1>2, SameJoin DEF NoPairTwice, InOrder, Before
  <1>9. ReturnedPassed'
    <2>1. \A n \in DOMAIN out : out[n][1] \in Nat
      BY <1>3, <1>2 DEF TypeOK
    <2>2. \A n \in DOMAIN out : out[n][1] <= lpos + 1 /\ out[n][1] # lpos + 1
      BY <1>2, <1>3, <2>1 DEF ReturnedPassed
    <2> QED BY <1>1, <2>2 DEF ReturnedPassed
  <1>10. \A a \in Buckets :
           /\ DOMAIN map'[a] = DOMAIN map[a]
           /\ \A i \in DOMAIN map[a] :
                 /\ map'[a][i].key = map[a][i].key
                 /\ map'[a][i].values = map[a][i].values
                 /\ map'[a][i].cursor = IF a = ProbeBucket /\ i = 1 THEN 0 ELSE map[a][i].cursor
    BY <1>4 DEF Moved
  <1>11. \A k : Seen(k)' <=> Seen(k) \/ (lpos # 0 /\ left[lpos].key = k)
    <2>1. lpos' - 1 = lpos /\ \A h \in 1 .. lpos : h \in 1 .. (lpos - 1) \/ (h = lpos /\ lpos # 0)
      BY <1>1, <1>3
    <2>2. (lpos # 0 => lpos \in 1 .. lpos) /\ \A h \in 1 .. (lpos - 1) : h \in 1 .. lpos
      BY <1>3
    <2> QED BY <1>1, <2>1, <2>2 DEF Seen
  \* After the rewind the heads are at their first value, and of the other
  \* nodes those are used up whose keys left rows have had.
  <1>12. ASSUME Plain, NEW a \in Buckets, NEW i \in DOMAIN map[a],
                NEW k, k = map[a][i].key
         PROVE  map'[a][i].cursor =
                   IF i # 1 /\ Seen(k)' THEN Len(map[a][i].values) ELSE 0
    <2>1. ChainOK(map[a], a, Nat)
      BY <1>3 DEF MapOK
    <2>2. map[a][i].values = <<>> => i = 1 /\ map[a][i].cursor = 0
      <3>1. map[a] = <<FreshNode>> => DOMAIN map[a] = {1}
        OBVIOUS
      <3>2. map[a][i].values = <<>> => map[a] = <<FreshNode>>
        BY <2>1 DEF ChainOK
      <3>3. /\ map[a][i].cursor \in Nat /\ map[a][i].cursor <= Len(map[a][i].values)
            /\ map[a][i].values = <<>> <=> Len(map[a][i].values) = 0
        BY <2>1, NodeFacts
      <3> QED BY <3>1, <3>2, <3>3
    <2>3. map[a][i].values # <<>> => k # Empty /\ Bucket(k) = a
      BY <1>12, <2>1 DEF ChainOK
    <2>4. map[a][i].values # <<>> /\ k = Current =>
             lpos # 0 /\ map[a][i].cursor = Len(map[a][i].values)
      BY <1>1, <1>12, UsedUp
    <2>5. Cursors /\ JoinValue = Current /\ (lpos # 0 => left[lpos].key = Current)
      BY <1>2, <1>3, <1>12 DEF Current
    <2>6. k # Current =>
             map[a][i].cursor = IF i # 1 /\ Seen(k) THEN Len(map[a][i].values) ELSE 0
      BY <1>12, <2>5 DEF Cursors
    <2>7. CASE i = 1
      <3>1. a # ProbeBucket => map[a][i].cursor = 0
        <4>1. CASE map[a][i].values = <<>>
          BY <2>2, <4>1
        <4>2. CASE map[a][i].values # <<>>
          BY <2>3, <2>5, <2>6, <2>7, <4>2 DEF ProbeBucket
        <4> QED BY <4>1, <4>2
      <3> QED BY <1>10, <2>7, <3>1
    <2>8. CASE i # 1
      <3>1. map[a][i].values # <<>> /\ map'[a][i].cursor = map[a][i].cursor
        BY <1>10, <2>2, <2>8
      <3>2. CASE k = Current
        BY <1>11, <2>4, <2>5, <2>8, <3>1, <3>2
      <3>3. CASE k # Current
        <4>1. Seen(k)' <=> Seen(k)
          BY <1>11, <2>5, <3>3
        <4> QED BY <2>6, <2>8, <3>1, <3>3, <4>1
      <3> QED BY <3>2, <3>3
    <2> QED BY <2>7, <2>8
  <1>13. ASSUME Plain PROVE Cursors'
    BY <1>10, <1>12, <1>13 DEF Cursors
  <1>14. ASSUME Plain, NEW p \in Pairs, GetsJoined(p), p[1] = lpos + 1
         PROVE  ~ Passed(p[2])'
    <2>1. p[1] \in 1 .. Len(left) /\ p[2] \in 1 .. Len(right)
      BY DEF Pairs
    <2>0. PICK k : k = left[p[1]].key
      OBVIOUS
    <2>2. k = right[p[2]].key /\ k # Empty
          /\ (Chained(k) => \A h \in 1 .. lpos : left[h].key # k)
      <3>1. p[1] - 1 = lpos
        BY <1>3, <1>14
      <3> QED BY <1>14, <2>0, <3>1 DEF GetsJoined
    <2>3. InNode(k, p[2])
      BY <1>2, <2>1, <2>2, RowPlace
    <2> DEFINE b == Bucket(k)
    <2> b \in Buckets
      BY <2>3 DEF InNode
    <2>4. PICK i \in DOMAIN map[b] :
              map[b][i].key = k /\ \E q \in DOMAIN map[b][i].values : map[b][i].values[q] = p[2] - 1
      BY <2>3 DEF InNode
    <2>5. PICK q \in DOMAIN map[b][i].values : map[b][i].values[q] = p[2] - 1
      BY <2>4
    <2>6. map'[b][i].cursor = 0
      <3>1. map[b][i].values # <<>>
        BY <2>5
      <3>2. Chained(k) <=> i # 1
        BY <1>2, <2>3, <2>4, <3>1, ChainedIs
      <3>3. i # 1 => ~ Seen(k)'
        <4>1. lpos' - 1 = lpos
          BY <1>1, <1>3
        <4> QED BY <1>1, <2>2, <3>2, <4>1 DEF Seen
      <3> QED BY <1>12, <1>14, <2>3, <2>4, <3>3
    <2>7. ASSUME Passed(p[2])' PROVE FALSE
      <3>1. PICK a \in Buckets : \E h \in DOMAIN map'[a] :
               \E r \in 1 .. map'[a][h].cursor : map'[a][h].values[r] = p[2] - 1
        BY <2>7 DEF Passed
      <3>2. PICK h \in DOMAIN map'[a] :
               \E r \in 1 .. map'[a][h].cursor : map'[a][h].values[r] = p[2] - 1
        BY <3>1
      <3>3. PICK r \in 1 .. map'[a][h].cursor : map'[a][h].values[r] = p[2] - 1
        BY <3>2
      <3>4. r \in DOMAIN map'[a][h].values
        <4>1. ChainOK(map'[a], a, Nat)
          BY <1>4 DEF MapOK
        <4>2. DOMAIN map'[a][h].values = 1 .. Len(map'[a][h].values)
              /\ map'[a][h].cursor \in Nat /\ Len(map'[a][h].values) \in Nat
              /\ map'[a][h].cursor <= Len(map'[a][h].values)
          BY <4>1, NodeFacts
        <4> QED BY <4>2
      <3>5. h \in DOMAIN map[a] /\ r \in DOMAIN map[a][h].values
            /\ map[a][h].values[r] = map[b][i].values[q]
        BY <1>10, <2>5, <3>3, <3>4
      <3>6. a = b /\ h = i
        BY <1>2, <2>3, <2>4, <2>5, <3>5, OnePlace
      <3> QED BY <2>6, <3>3, <3>6
    <2> QED BY <2>7
  <1>15. ASSUME Plain PROVE ResultSoFar'
    <2>1. \A p \in Pairs : GetsJoined(p) =>
             (p[1] < lpos' \/ (p[1] = lpos' /\ Passed(p[2])')
                <=> p[1] < lpos \/ (p[1] = lpos /\ Passed(p[2])))
      <3>1. ASSUME NEW p \in Pairs, GetsJoined(p)
            PROVE  p[1] < lpos' \/ (p[1] = lpos' /\ Passed(p[2])')
                      <=> p[1] < lpos \/ (p[1] = lpos /\ Passed(p[2]))
        <4>1. p[1] \in Nat
          BY <1>3 DEF Pairs
        <4>2. p[1] = lpos => Passed(p[2])
          BY <1>1, <1>15, <3>1, UsedUp
        <4>3. p[1] = lpos + 1 => ~ Passed(p[2])'
          BY <1>14, <1>15, <3>1
        <4> QED BY <1>1, <1>3, <4>1, <4>2, <4>3
      <3> QED BY <3>1
    <2>2. Returned' = Returned
      BY <1>1 DEF Returned
    <2> QED BY <1>1, <1>2, <1>15, <2>1, <2>2, SameJoin DEF ResultSoFar
  <1> QED BY <1>1, <1>5, <1>6, <1>7, <1>8, <1>9, <1>13, <1>15, SameJoin DEF IInv, Exactly

\* Returning to the parent and being called again changes only the place.
LEMMA PlaceKeeps ==
  ASSUME IInv, CallAgain \/ Finish \/ UNCHANGED vars
  PROVE  IInv'
  <1>1. /\ left' = left /\ right' = right /\ map' = map /\ rcount' = rcount
        /\ lpos' = lpos /\ casted' = casted /\ out' = out
        /\ \/ pc = "returned" /\ pc' = "probe"
           \/ pc = "finish" /\ pc' = "done"
           \/ pc' = pc
    BY DEF CallAgain, Finish, vars
  <1>2. TypeOK' /\ Places'
    BY <1>1 DEF IInv, TypeOK, Places
  <1>3. IndexOK'
    BY <1>1, SameIndex DEF IInv
  <1>4. \A j : Passed(j)' <=> Passed(j)
    BY <1>1 DEF Passed
  <1>5. ReturnedPassed' /\ NoPairTwice'
    BY <1>1, <1>4 DEF IInv, ReturnedPassed, NoPairTwice
  <1>6. InOrder'
    BY <1>1, SameJoin DEF IInv, InOrder, Before
  <1>7. Exactly'
    <2>1. ResultSoFar => ResultSoFar'
      BY <1>1, <1>4, SameJoin DEF ResultSoFar, Returned
    <2>2. Cursors => Cursors'
      BY <1>1 DEF Cursors, Current, Seen
    <2> QED BY <1>1, <2>1, <2>2, SameJoin DEF IInv, Exactly
  <1> QED BY <1>2, <1>3, <1>5, <1>6, <1>7 DEF IInv

LEMMA NextInv == IInv /\ [Next]_vars => IInv'
  <1> SUFFICES ASSUME IInv, [Next]_vars PROVE IInv'
    OBVIOUS
  <1>1. CASE CollectRight
    BY <1>1, CollectRightKeeps
  <1>2. CASE CollectTooMany
    BY <1>2, CollectTooManyKeeps
  <1>3. CASE Collected
    BY <1>3, CollectedKeeps
  <1>4. CASE NextLeft
    BY <1>4, NextLeftKeeps
  <1>5. CASE Reject
    BY <1>5, RejectKeeps
  <1>6. CASE ReturnTuple
    BY <1>6, ReturnTupleKeeps
  <1>7. CASE CallAgain \/ Finish \/ UNCHANGED vars
    BY <1>7, PlaceKeeps
  <1> QED BY <1>1, <1>2, <1>3, <1>4, <1>5, <1>6, <1>7 DEF Next, Work, Stopped

LEMMA Invariant == Spec => []IInv
  BY InitInv, NextInv, PTL DEF Spec
----------------------------------------------------------------------------
(***************************************************************************)
(* The theorems.                                                           *)
(***************************************************************************)
\* The operator's positions stay within the tables (hashjoin.c: the row
\* numbers taken from the map, leftTuple, rightTupleCount).
THEOREM TypeCorrect == Spec => []TypeOK
  <1>1. IInv => TypeOK
    BY DEF IInv
  <1> QED BY <1>1, Invariant, PTL

\* The result of the whole join, with the pairs that a chained key loses and
\* with no other pair missing or added (the do loop of hashjoinGetTuple).
THEOREM ReturnsTheJoin == Spec => []ReturnsExactly
  <1>1. IInv => ReturnsExactly
    <2> SUFFICES ASSUME IInv, pc = "done", Plain
                 PROVE  Returned = {p \in Pairs : GetsJoined(p)}
      BY DEF ReturnsExactly
    <2>1. TypeOK /\ ResultSoFar /\ lpos = Len(left) + 1
      BY DEF IInv, Exactly, Places
    <2>2. \A p \in Pairs : p[1] < lpos
      BY <2>1, RowFacts DEF Pairs
    <2> QED BY <2>1, <2>2 DEF ResultSoFar
  <1> QED BY <1>1, Invariant, PTL

\* Left row by left row, and within one in the order of the right table.
THEOREM ResultInOrder == Spec => []InOrder
  <1>1. IInv => InOrder
    BY DEF IInv
  <1> QED BY <1>1, Invariant, PTL

\* No pair twice and no left row again, also when converting the join column
\* sends the operator to another key in the middle of a row.
THEOREM NoPairReturnedTwice == Spec => []NoPairTwice
  <1>1. IInv => NoPairTwice
    BY DEF IInv
  <1> QED BY <1>1, Invariant, PTL
============================================================================
