-------------------------- MODULE StatementsProofs --------------------------
(***************************************************************************)
(* Proofs about Statements, for any number of processes, whatever they are *)
(* asked to do, and every table: what is in the file after statements one  *)
(* after another, flushed in pieces of any size and killed at any point.   *)
(***************************************************************************)
EXTENDS Statements, SequenceTheorems, WellFoundedInduction, TLAPS

----------------------------------------------------------------------------
(***************************************************************************)
(* First what the operators of TableFile compute, for every definition and *)
(* every content: the sizes of records, the units one after another.       *)
(***************************************************************************)
\* Induction: a set that has 0 and with a number its successor has them all.
LEMMA NatInSet ==
  ASSUME NEW S, 0 \in S, \A n \in Nat : n \in S => n + 1 \in S
  PROVE  Nat \subseteq S
  <1> DEFINE T == Nat \ S
  <1>1. ASSUME T # {} PROVE FALSE
    <2>1. PICK x \in T : \A y \in T : ~ (<<y, x>> \in OpToRel(<, Nat))
      <3> HIDE DEF T
      <3>1. T \subseteq Nat
        BY DEF T
      <3> QED BY <1>1, <3>1, NatLessThanWellFounded, WFMin
    <2>2. x # 0 /\ x - 1 \in Nat
      OBVIOUS
    <2>3. x - 1 \notin T
      <3>1. x - 1 \in T => <<x - 1, x>> \in OpToRel(<, Nat)
        BY <2>2 DEF OpToRel
      <3> QED BY <2>1, <3>1
    <2>4. x - 1 \in S /\ (x - 1) + 1 = x
      BY <2>2, <2>3
    <2> QED BY <2>2, <2>4
  <1> QED BY <1>1
----------------------------------------------------------------------------
(***************************************************************************)
(* FlattenSeq: the recursive function it is made of has a value, and one   *)
(* sequence more adds its units at the end.                                *)
(***************************************************************************)
IsFlat(f, s, n) == f = [i \in 1 .. n |-> IF i = 1 THEN s[i] ELSE f[i - 1] \o s[i]]

LEMMA FlatAt ==
  ASSUME NEW f, NEW s, NEW n \in Nat, IsFlat(f, s, n), NEW i \in 1 .. n
  PROVE  f[i] = IF i = 1 THEN s[i] ELSE f[i - 1] \o s[i]
  BY DEF IsFlat

LEMMA FlatExists ==
  ASSUME NEW s
  PROVE  \A n \in Nat : \E f : IsFlat(f, s, n)
  <1> DEFINE S == {n \in Nat : \E f : IsFlat(f, s, n)}
  <1>1. 0 \in S
    <2>1. IsFlat([i \in 1 .. 0 |-> s[i]], s, 0)
      BY DEF IsFlat
    <2> QED BY <2>1
  <1>2. ASSUME NEW n \in Nat, n \in S PROVE n + 1 \in S
    <2>1. PICK f : IsFlat(f, s, n)
      BY <1>2
    <2> DEFINE end == IF n + 1 = 1 THEN s[n + 1] ELSE f[n] \o s[n + 1]
               g == [i \in 1 .. (n + 1) |-> IF i = n + 1 THEN end ELSE f[i]]
    <2>2. \A i \in 1 .. n : g[i] = f[i]
      OBVIOUS
    <2>3. g[n + 1] = end
      OBVIOUS
    <2>4. ASSUME NEW i \in 1 .. (n + 1)
          PROVE  g[i] = IF i = 1 THEN s[i] ELSE g[i - 1] \o s[i]
      <3>1. CASE i = n + 1
        <4>1. i # 1 => g[i - 1] = f[n]
          <5>1. i # 1 => i - 1 = n /\ n \in 1 .. n
            BY <3>1
          <5> HIDE DEF g
          <5> QED BY <2>2, <5>1
        <4> HIDE DEF g
        <4> QED BY <2>3, <3>1, <4>1
      <3>2. CASE i \in 1 .. n
        <4>1. f[i] = IF i = 1 THEN s[i] ELSE f[i - 1] \o s[i]
          BY <2>1, <3>2 DEF IsFlat
        <4>2. i # 1 => i - 1 \in 1 .. n
          BY <3>2
        <4> HIDE DEF g
        <4> QED BY <2>2, <3>2, <4>1, <4>2
      <3> QED BY <3>1, <3>2
    <2>5. g = [i \in 1 .. (n + 1) |-> g[i]]
      OBVIOUS
    <2> HIDE DEF g
    <2>6. IsFlat(g, s, n + 1)
      BY <2>4, <2>5 DEF IsFlat
    <2> QED BY <2>6
  <1> HIDE DEF S
  <1>3. Nat \subseteq S
    BY <1>1, <1>2, NatInSet
  <1> QED BY <1>3 DEF S

Agree(s, t, n) == \A i \in 1 .. n : s[i] = t[i]

\* The value at k depends on the first k sequences only.
LEMMA FlatSame ==
  ASSUME NEW s, NEW t, NEW n \in Nat, NEW m \in Nat,
         NEW f, IsFlat(f, s, n), NEW g, IsFlat(g, t, m),
         n <= m, Agree(s, t, n)
  PROVE  Agree(f, g, n)
  <1> DEFINE S == {k \in Nat : k \in 1 .. n => f[k] = g[k]}
  <1>1. 0 \in S
    OBVIOUS
  <1>2. ASSUME NEW k \in Nat, k \in S PROVE k + 1 \in S
    <2> SUFFICES ASSUME k + 1 \in 1 .. n PROVE f[k + 1] = g[k + 1]
      OBVIOUS
    <2>1. /\ f[k + 1] = IF k + 1 = 1 THEN s[k + 1] ELSE f[k + 1 - 1] \o s[k + 1]
          /\ g[k + 1] = IF k + 1 = 1 THEN t[k + 1] ELSE g[k + 1 - 1] \o t[k + 1]
      <3>1. k + 1 \in 1 .. m
        OBVIOUS
      <3> QED BY <3>1, FlatAt
    <2>2. s[k + 1] = t[k + 1]
      BY DEF Agree
    <2>3. k # 0 => k \in 1 .. n /\ k + 1 - 1 = k /\ k + 1 # 1
      OBVIOUS
    <2>4. k # 0 => f[k] = g[k]
      BY <1>2, <2>3
    <2> QED BY <2>1, <2>2, <2>3, <2>4
  <1> HIDE DEF S
  <1>3. Nat \subseteq S
    BY <1>1, <1>2, NatInSet
  <1>4. ASSUME NEW k \in 1 .. n PROVE k \in S
    BY <1>3
  <1> QED BY <1>4 DEF S, Agree

\* The values are sequences of what the sequences are of.
LEMMA FlatInSeq ==
  ASSUME NEW U, NEW s, NEW n \in Nat, NEW f, IsFlat(f, s, n),
         \A i \in 1 .. n : s[i] \in Seq(U)
  PROVE  \A k \in 1 .. n : f[k] \in Seq(U)
  <1> DEFINE S == {k \in Nat : k \in 1 .. n => f[k] \in Seq(U)}
  <1>1. 0 \in S
    OBVIOUS
  <1>2. ASSUME NEW k \in Nat, k \in S PROVE k + 1 \in S
    <2> SUFFICES ASSUME k + 1 \in 1 .. n PROVE f[k + 1] \in Seq(U)
      OBVIOUS
    <2>1. f[k + 1] = IF k + 1 = 1 THEN s[k + 1] ELSE f[k + 1 - 1] \o s[k + 1]
      BY FlatAt
    <2>2. s[k + 1] \in Seq(U)
      OBVIOUS
    <2>3. k # 0 => k \in 1 .. n /\ k + 1 - 1 = k /\ k + 1 # 1
      OBVIOUS
    <2>4. k # 0 => f[k] \in Seq(U)
      BY <1>2, <2>3
    <2>5. k # 0 => f[k] \o s[k + 1] \in Seq(U)
      BY <2>2, <2>4, ConcatProperties
    <2> QED BY <2>1, <2>2, <2>3, <2>5
  <1> HIDE DEF S
  <1>3. Nat \subseteq S
    BY <1>1, <1>2, NatInSet
  <1>4. ASSUME NEW k \in 1 .. n PROVE k \in S
    BY <1>3
  <1> QED BY <1>4 DEF S

LEMMA FlattenIs ==
  ASSUME NEW s, NEW n \in Nat \ {0}, Len(s) = n
  PROVE  \E f : IsFlat(f, s, n) /\ FlattenSeq(s) = f[n]
  <1>1. FlattenSeq(s) = (CHOOSE f : IsFlat(f, s, n))[n]
    BY DEF FlattenSeq, IsFlat
  <1>2. \E f : IsFlat(f, s, n)
    BY FlatExists
  <1> QED BY <1>1, <1>2

\* What FlattenSeq makes of sequences over U is one of them.
LEMMA FlattenInSeq ==
  ASSUME NEW U, NEW s \in Seq(Seq(U))
  PROVE  FlattenSeq(s) \in Seq(U) /\ (s = <<>> => FlattenSeq(s) = <<>>)
  <1>1. CASE s = <<>>
    BY <1>1 DEF FlattenSeq
  <1>2. CASE s # <<>>
    <2> DEFINE n == Len(s)
    <2>1. n \in Nat \ {0} /\ \A i \in 1 .. n : s[i] \in Seq(U)
      BY <1>2
    <2>2. PICK f : IsFlat(f, s, n) /\ FlattenSeq(s) = f[n]
      BY <2>1, FlattenIs
    <2> HIDE DEF n
    <2>3. n \in 1 .. n /\ n <= n
      BY <2>1
    <2>4. f[n] \in Seq(U)
      BY <2>1, <2>2, <2>3, FlatInSeq
    <2> QED BY <1>2, <2>2, <2>4
  <1> QED BY <1>1, <1>2

\* One sequence more: its units follow the others.
LEMMA FlattenOneMore ==
  ASSUME NEW U, NEW s \in Seq(Seq(U)), NEW t \in Seq(Seq(U)),
         Len(t) = Len(s) + 1, \A i \in 1 .. Len(s) : t[i] = s[i]
  PROVE  FlattenSeq(t) = FlattenSeq(s) \o t[Len(t)]
  <1> DEFINE n == Len(s)
  <1>1. /\ n \in Nat /\ Len(t) = n + 1 /\ t[n + 1] \in Seq(U)
        /\ \A i \in 1 .. n : s[i] = t[i] /\ s[i] \in Seq(U)
    <2>1. n \in Nat /\ \A i \in 1 .. n : s[i] = t[i] /\ s[i] \in Seq(U)
      BY LenProperties, ElementOfSeq
    <2>2. n + 1 \in 1 .. Len(t)
      BY <2>1
    <2>3. t[n + 1] \in Seq(U)
      BY <2>2, ElementOfSeq
    <2> QED BY <2>1, <2>3
  <1>2. PICK g : IsFlat(g, t, n + 1) /\ FlattenSeq(t) = g[n + 1]
    BY <1>1, FlattenIs
  <1>3. g[n + 1] = IF n + 1 = 1 THEN t[n + 1] ELSE g[n + 1 - 1] \o t[n + 1]
    <2>1. n + 1 \in 1 .. (n + 1) /\ n + 1 \in Nat
      BY <1>1
    <2> QED BY <1>2, <2>1, FlatAt
  <1>4. CASE n = 0
    <2>1. s = <<>>
      BY <1>4
    <2>2. FlattenSeq(s) = <<>>
      BY <2>1, FlattenInSeq
    <2>3. <<>> \o t[n + 1] = t[n + 1]
      BY <1>1, ConcatEmptySeq
    <2> QED BY <1>1, <1>2, <1>3, <1>4, <2>2, <2>3
  <1>5. CASE n # 0
    <2>1. PICK f : IsFlat(f, s, n) /\ FlattenSeq(s) = f[n]
      BY <1>1, <1>5, FlattenIs
    <2> HIDE DEF n
    <2>2. n \in 1 .. n /\ n <= n + 1 /\ n + 1 \in Nat /\ n + 1 # 1 /\ n + 1 - 1 = n
      BY <1>1, <1>5
    <2>3. f[n] = g[n]
      <3>1. IsFlat(g, t, n + 1) /\ \A i \in 1 .. n : s[i] = t[i] /\ s[i] \in Seq(U)
        BY <1>1, <1>2
      <3>2. n \in Nat /\ n + 1 \in Nat /\ n <= n + 1 /\ IsFlat(f, s, n)
        BY <1>1, <2>1, <2>2
      <3>3. Agree(s, t, n)
        BY <3>1 DEF Agree
      <3>4. Agree(f, g, n)
        BY <3>1, <3>2, <3>3, FlatSame
      <3> QED BY <2>2, <3>4 DEF Agree
    <2> QED BY <1>1, <1>2, <1>3, <2>1, <2>2, <2>3
  <1> QED BY <1>4, <1>5
----------------------------------------------------------------------------
(***************************************************************************)
(* Sums: the size of a record and that of the header.                      *)
(***************************************************************************)
IsSum(f, d, n) == f = [i \in 0 .. n |-> IF i = 0 THEN 0 ELSE f[i - 1] + d[i]]

LEMMA SumAt ==
  ASSUME NEW f, NEW d, NEW n \in Nat, IsSum(f, d, n), NEW i \in 0 .. n
  PROVE  f[i] = IF i = 0 THEN 0 ELSE f[i - 1] + d[i]
  BY DEF IsSum

LEMMA SumExists ==
  ASSUME NEW d
  PROVE  \A n \in Nat : \E f : IsSum(f, d, n)
  <1> DEFINE S == {n \in Nat : \E f : IsSum(f, d, n)}
  <1>1. 0 \in S
    <2>1. IsSum([i \in 0 .. 0 |-> 0], d, 0)
      BY DEF IsSum
    <2> QED BY <2>1
  <1>2. ASSUME NEW n \in Nat, n \in S PROVE n + 1 \in S
    <2>1. PICK f : IsSum(f, d, n)
      BY <1>2
    <2> DEFINE g == [i \in 0 .. (n + 1) |-> IF i = n + 1 THEN f[n] + d[n + 1] ELSE f[i]]
    <2>2. g[n + 1] = f[n] + d[n + 1] /\ \A i \in 0 .. n : g[i] = f[i]
      OBVIOUS
    <2>3. g = [i \in 0 .. (n + 1) |-> g[i]]
      OBVIOUS
    <2> HIDE DEF g
    <2>4. ASSUME NEW i \in 0 .. (n + 1)
          PROVE  g[i] = IF i = 0 THEN 0 ELSE g[i - 1] + d[i]
      <3>1. CASE i = n + 1
        <4>1. i # 0 /\ i - 1 = n /\ n \in 0 .. n
          BY <3>1
        <4> QED BY <2>2, <3>1, <4>1
      <3>2. CASE i \in 0 .. n
        <4>1. f[i] = IF i = 0 THEN 0 ELSE f[i - 1] + d[i]
          BY <2>1, <3>2, SumAt
        <4>2. i # 0 => i - 1 \in 0 .. n
          BY <3>2
        <4> QED BY <2>2, <3>2, <4>1, <4>2
      <3> QED BY <3>1, <3>2
    <2>5. IsSum(g, d, n + 1)
      BY <2>3, <2>4 DEF IsSum
    <2> QED BY <2>5
  <1> HIDE DEF S
  <1>3. Nat \subseteq S
    BY <1>1, <1>2, NatInSet
  <1> QED BY <1>3 DEF S

\* One number more is added at the end.
LEMMA SumAdds ==
  ASSUME NEW lens, Len(lens) \in Nat
  PROVE  /\ SumFirst(lens, 0) = 0
         /\ \A i \in 1 .. Len(lens) : SumFirst(lens, i) = SumFirst(lens, i - 1) + lens[i]
  <1> DEFINE n == Len(lens)
             f == CHOOSE f : IsSum(f, lens, n)
  <1>1. IsSum(f, lens, n)
    BY SumExists
  <1>2. \A i : SumFirst(lens, i) = f[i]
    BY DEF SumFirst, IsSum
  <1> HIDE DEF f, n
  <1>3. n \in Nat
    BY DEF n
  <1>4. f[0] = 0
    BY <1>1, <1>3, SumAt
  <1>5. ASSUME NEW i \in 1 .. n PROVE f[i] = f[i - 1] + lens[i]
    BY <1>1, <1>3, SumAt
  <1> QED BY <1>2, <1>4, <1>5 DEF n

\* Sums of integers are integers, and those of natural numbers are natural.
LEMMA SumsAre ==
  ASSUME NEW lens \in Seq(Int)
  PROVE  \A i \in 0 .. Len(lens) :
           /\ SumFirst(lens, i) \in Int
           /\ (\A j \in 1 .. Len(lens) : lens[j] >= 0) => SumFirst(lens, i) \in Nat
  <1> DEFINE n == Len(lens)
             Good(i) == /\ SumFirst(lens, i) \in Int
                        /\ (\A j \in 1 .. n : lens[j] >= 0) => SumFirst(lens, i) \in Nat
             S == {i \in Nat : i \in 0 .. n => Good(i)}
  <1>1. n \in Nat /\ \A i \in 1 .. n : lens[i] \in Int
    BY LenProperties, ElementOfSeq
  <1>2. 0 \in S
    BY <1>1, SumAdds
  <1>3. ASSUME NEW i \in Nat, i \in S PROVE i + 1 \in S
    <2> SUFFICES ASSUME i + 1 \in 0 .. n PROVE Good(i + 1)
      OBVIOUS
    <2>1. i + 1 \in 1 .. n /\ i \in 0 .. n /\ (i + 1) - 1 = i
      BY <1>1
    <2>2. SumFirst(lens, i + 1) = SumFirst(lens, i) + lens[i + 1]
      BY <1>1, <2>1, SumAdds
    <2>3. Good(i)
      BY <1>3, <2>1
    <2>4. lens[i + 1] \in Int
      BY <1>1, <2>1
    <2> HIDE DEF n
    <2>5. SumFirst(lens, i + 1) \in Int
      BY <2>2, <2>3, <2>4
    <2>6. ASSUME \A j \in 1 .. n : lens[j] >= 0 PROVE SumFirst(lens, i + 1) \in Nat
      <3>1. SumFirst(lens, i) \in Nat /\ lens[i + 1] >= 0
        BY <2>1, <2>3, <2>6
      <3> QED BY <2>2, <2>4, <3>1
    <2> QED BY <2>5, <2>6
  <1> HIDE DEF S
  <1>4. Nat \subseteq S
    BY <1>2, <1>3, NatInSet
  <1>5. ASSUME NEW i \in 0 .. n PROVE Good(i)
    <2>1. i \in S
      BY <1>1, <1>4
    <2> QED BY <2>1 DEF S
  <1> QED BY <1>5

\* No column has a negative length.
Sized(d) == \A c \in DOMAIN d : d[c].len >= 0

LengthsOf(d) == [c \in DOMAIN d |-> d[c].len]

LEMMA LengthsInSeq ==
  ASSUME NEW d \in Seq(Column)
  PROVE  /\ LengthsOf(d) \in Seq(Int) /\ Len(LengthsOf(d)) = Len(d) /\ Len(d) \in Nat
         /\ DOMAIN d = 1 .. Len(d)
         /\ \A c \in 1 .. Len(d) : LengthsOf(d)[c] = d[c].len /\ d[c].len \in Int
         /\ \A c : LengthsBefore(d, c) = SumFirst(LengthsOf(d), c - 1)
  <1>1. /\ Len(d) \in Nat /\ DOMAIN d = 1 .. Len(d)
        /\ \A c \in 1 .. Len(d) : d[c] \in Column
    BY LenProperties, ElementOfSeq
  <1>2. \A c \in 1 .. Len(d) : d[c].len \in Int
    BY <1>1 DEF Column
  <1>3. LengthsOf(d) \in Seq(Int) /\ Len(LengthsOf(d)) = Len(d)
    BY <1>1, <1>2 DEF LengthsOf
  <1> QED BY <1>1, <1>2, <1>3 DEF LengthsOf, LengthsBefore

\* Lengths add up column by column.
LEMMA LengthsAdd ==
  ASSUME NEW d \in Seq(Column)
  PROVE  /\ LengthsBefore(d, 1) = 0
         /\ \A c \in 1 .. Len(d) : LengthsBefore(d, c + 1) = LengthsBefore(d, c) + d[c].len
  <1>1. 1 - 1 = 0 /\ \A c \in 1 .. Len(d) : (c + 1) - 1 = c
    BY LenProperties
  <1> QED BY <1>1, LengthsInSeq, SumAdds

\* The columns before one take a number of units, a natural number if no
\* length is negative.
LEMMA LengthsAreInt ==
  ASSUME NEW d \in Seq(Column)
  PROVE  /\ \A c \in 1 .. (Len(d) + 1) : LengthsBefore(d, c) \in Int
         /\ RecordSize(d) \in Int
         /\ Sized(d) => /\ \A c \in 1 .. (Len(d) + 1) : LengthsBefore(d, c) \in Nat
                        /\ RecordSize(d) \in Nat
  <1> DEFINE n == Len(d)
  <1>1. n \in Nat /\ n + 1 \in 1 .. (n + 1)
    BY LenProperties
  <1>2. ASSUME NEW c \in 1 .. (n + 1)
        PROVE  LengthsBefore(d, c) \in Int /\ (Sized(d) => LengthsBefore(d, c) \in Nat)
    <2>1. c - 1 \in 0 .. n
      BY <1>1
    <2>2. Sized(d) => \A j \in 1 .. Len(LengthsOf(d)) : LengthsOf(d)[j] >= 0
      BY LengthsInSeq DEF Sized
    <2> QED BY <2>1, <2>2, LengthsInSeq, SumsAre
  <1> QED BY <1>1, <1>2 DEF RecordSize

LEMMA LengthsAreNat ==
  ASSUME NEW d \in Seq(Column), Sized(d)
  PROVE  /\ \A c \in 1 .. (Len(d) + 1) : LengthsBefore(d, c) \in Nat
         /\ RecordSize(d) \in Nat
  BY LengthsAreInt

\* A header has at least the number of columns, and more for each of them.
LEMMA HeaderSize ==
  ASSUME NEW d \in Seq(Column)
  PROVE  /\ NamesSize(d) \in Nat /\ Len(d) \in Nat /\ MetadataSize(d) \in Nat \ {0}
         /\ MetadataSize(d) = 1 + Len(d) + NamesSize(d)
         /\ d = <<>> => MetadataSize(d) = 1
  <1> DEFINE names == [c \in DOMAIN d |-> d[c].name]
  <1>1. /\ Len(d) \in Nat /\ DOMAIN d = 1 .. Len(d)
        /\ \A c \in 1 .. Len(d) : d[c] \in Column
    BY LenProperties, ElementOfSeq
  <1>2. \A c \in 1 .. Len(d) : d[c].name \in Nat
    BY <1>1 DEF Column
  <1>3. /\ names \in Seq(Int) /\ Len(names) = Len(d)
        /\ \A c \in 1 .. Len(names) : names[c] >= 0
    BY <1>1, <1>2
  <1>4. SumFirst(names, 0) = 0
    BY <1>1, <1>3, SumAdds
  <1>5. NamesSize(d) = SumFirst(names, Len(d))
    BY DEF NamesSize
  <1> HIDE DEF names
  <1>6. NamesSize(d) \in Nat
    BY <1>1, <1>3, <1>5, SumsAre
  <1>7. d = <<>> => Len(d) = 0
    OBVIOUS
  <1> QED BY <1>1, <1>4, <1>5, <1>6, <1>7 DEF MetadataSize
----------------------------------------------------------------------------
(***************************************************************************)
(* Sequences of units.                                                     *)
(***************************************************************************)
\* What is written first is a prefix of all that is written.
LEMMA PrefixOfMore ==
  ASSUME NEW U, NEW s \in Seq(U), NEW u \in Seq(U)
  PROVE  IsPrefix(s, s \o u)
  <1>1. Len(s) \in Nat /\ Len(u) \in Nat /\ Len(s \o u) = Len(s) + Len(u) /\ s \o u \in Seq(U)
        /\ \A i \in 1 .. Len(s) : (s \o u)[i] = s[i]
    BY LenProperties, ConcatProperties
  <1>2. Len(s) <= Len(s \o u)
    BY <1>1
  <1>3. SubSeq(s, 1, Len(s)) = s
    BY SubSeqFull
  <1>4. SubSeq(s \o u, 1, Len(s)) = s
    <2>1. \A i \in 1 .. Len(s) : s[i] \in U
      BY ElementOfSeq
    <2>2. /\ SubSeq(s \o u, 1, Len(s)) \in Seq(U)
          /\ Len(SubSeq(s \o u, 1, Len(s))) = Len(s)
          /\ \A i \in 1 .. Len(s) : SubSeq(s \o u, 1, Len(s))[i] = s[i]
      <3>1. 1 \in Int /\ Len(s) \in Int /\ \A i \in 1 .. Len(s) : (s \o u)[i] \in U
        BY <1>1, <2>1
      <3>2. /\ SubSeq(s \o u, 1, Len(s)) \in Seq(U)
            /\ Len(SubSeq(s \o u, 1, Len(s))) = IF 1 <= Len(s) THEN Len(s) - 1 + 1 ELSE 0
            /\ \A i \in 1 .. (Len(s) - 1 + 1) : SubSeq(s \o u, 1, Len(s))[i] = (s \o u)[1 + i - 1]
        BY <3>1, SubSeqProperties
      <3> QED BY <1>1, <3>2
    <2> QED BY <2>2, SeqEqual
  <1> QED BY <1>2, <1>3, <1>4 DEF IsPrefix

\* A record is made of the units of the tuple it is written for.
LEMMA RecordInSeq ==
  ASSUME NEW U, NEW types \in Seq(Types), NEW tuple,
         \A c \in 1 .. Len(types) : \A n \in 1 .. StrUnits : tuple[c][n] \in U
  PROVE  RecordWritten(types, tuple) \in Seq(U)
  <1> DEFINE fields == [c \in DOMAIN types |-> Field(types, tuple, c)]
  <1>1. DOMAIN types = 1 .. Len(types) /\ Len(types) \in Nat
    BY LenProperties
  <1>2. ASSUME NEW c \in 1 .. Len(types) PROVE Field(types, tuple, c) \in Seq(U)
    <2>1. UnitsWritten(types[c]) \in 1 .. StrUnits
      BY StrUnitsAssumption DEF UnitsWritten
    <2>2. \A i \in 1 .. UnitsWritten(types[c]) : tuple[c][i] \in U
      BY <2>1, StrUnitsAssumption
    <2>3. 1 \in Int /\ UnitsWritten(types[c]) \in Int
      BY <2>1, StrUnitsAssumption
    <2> QED BY <2>2, <2>3, SubSeqProperties DEF Field
  <1>3. fields \in Seq(Seq(U))
    BY <1>1, <1>2
  <1> QED BY <1>3, FlattenInSeq DEF RecordWritten

\* A piece of a sequence within its bounds.
LEMMA PieceInSeq ==
  ASSUME NEW U, NEW s \in Seq(U), NEW m \in Nat \ {0}, NEW n \in Int, n <= Len(s)
  PROVE  /\ SubSeq(s, m, n) \in Seq(U)
         /\ Len(SubSeq(s, m, n)) = IF m <= n THEN n - m + 1 ELSE 0
         /\ n < m => SubSeq(s, m, n) = <<>>
  <1>1. Len(s) \in Nat /\ \A i \in 1 .. Len(s) : s[i] \in U
    BY LenProperties, ElementOfSeq
  <1>2. \A i \in m .. n : s[i] \in U
    <2>1. \A i \in m .. n : i \in 1 .. Len(s)
      BY <1>1
    <2> QED BY <1>1, <2>1
  <1>3. m \in Int
    OBVIOUS
  <1> QED BY <1>2, <1>3, SubSeqProperties, SubSeqEmpty

\* The data area is what follows the header.
LEMMA DataInSeq ==
  ASSUME NEW U, NEW content \in Seq(U), NEW d \in Seq(Column)
  PROVE  /\ Data(content, d) \in Seq(U)
         /\ Len(content) <= MetadataSize(d) => Data(content, d) = <<>>
  <1>1. Len(content) \in Nat /\ MetadataSize(d) \in Nat
    BY LenProperties, HeaderSize
  <1>2. MetadataSize(d) + 1 \in Nat \ {0} /\ Len(content) \in Int /\ Len(content) <= Len(content)
    BY <1>1
  <1>3. Len(content) <= MetadataSize(d) => Len(content) < MetadataSize(d) + 1
    BY <1>1
  <1> QED BY <1>2, <1>3, PieceInSeq DEF Data

LEMMA Quotient ==
  ASSUME NEW x \in Nat, NEW d \in Nat \ {0}
  PROVE  x \div d \in Nat /\ (x \div d) * d <= x /\ (x = 0 => x \div d = 0)
  BY SMTT(20)

\* The records of a piece are whole and within it.
LEMMA RecordsInSeq ==
  ASSUME NEW U, NEW data \in Seq(U), NEW d \in Seq(Column), RecordSize(d) > 0
  PROVE  /\ Records(data, d) \in Seq(Seq(U))
         /\ data = <<>> => Records(data, d) = <<>>
  <1> DEFINE size == RecordSize(d)
             k == Len(data) \div size
             rec(i) == SubSeq(data, (i - 1) * size + 1, i * size)
  <1>1. size \in Nat \ {0} /\ Len(data) \in Nat
    BY LengthsAreInt, LenProperties
  <1> HIDE DEF size
  <1>2. k \in Nat /\ k * size <= Len(data) /\ (Len(data) = 0 => k = 0)
    BY <1>1, Quotient
  <1> HIDE DEF k
  <1>3. ASSUME NEW i \in 1 .. k PROVE rec(i) \in Seq(U)
    <2>1. i * size <= k * size /\ (i - 1) * size + 1 \in Nat \ {0} /\ i * size \in Int
      <3>1. i - 1 \in Nat /\ k - i \in Nat /\ i \in Nat
        BY <1>2
      <3>2. (i - 1) * size \in Nat /\ (k - i) * size \in Nat /\ k * size = i * size + (k - i) * size
        BY <1>1, <1>2, <3>1
      <3> QED BY <1>1, <1>2, <3>1, <3>2
    <2>2. i * size <= Len(data)
      <3>1. k * size \in Int
        BY <1>1, <1>2
      <3> QED BY <1>1, <1>2, <2>1, <3>1
    <2> QED BY <2>1, <2>2, PieceInSeq
  <1>4. Records(data, d) = [i \in 1 .. k |-> rec(i)]
    BY DEF Records, size, k
  <1> HIDE DEF rec
  <1>5. Records(data, d) \in Seq(Seq(U))
    BY <1>2, <1>3, <1>4
  <1>6. ASSUME data = <<>> PROVE Records(data, d) = <<>>
    <2>1. k = 0
      BY <1>2, <1>6, EmptySeq
    <2> QED BY <1>4, <2>1
  <1> QED BY <1>5, <1>6

\* What CREATE TABLE writes is a definition.
LEMMA ConstructedInSeq ==
  ASSUME NEW columns \in Seq([name : Nat, type : Types, size : Nat])
  PROVE  ConstructTDB(columns) \in Seq(Column)
  <1> DEFINE len(c) == IF columns[c].type = "long" THEN 1 ELSE SignedByte(columns[c].size)
  <1>1. /\ DOMAIN columns = 1 .. Len(columns) /\ Len(columns) \in Nat
        /\ \A c \in 1 .. Len(columns) : columns[c] \in [name : Nat, type : Types, size : Nat]
    BY LenProperties, ElementOfSeq
  <1>2. ASSUME NEW n \in Nat PROVE SignedByte(n) \in Int
    <2>1. n % ByteRange \in Int /\ ByteRange \in Int
      BY ByteRangeAssumption
    <2> QED BY <2>1 DEF SignedByte
  <1>3. \A c \in 1 .. Len(columns) : len(c) \in Int
    BY <1>1, <1>2
  <1> HIDE DEF len
  <1>4. \A c \in 1 .. Len(columns) :
          [name |-> columns[c].name, type |-> columns[c].type, len |-> len(c)] \in Column
    BY <1>1, <1>3 DEF Column
  <1> QED BY <1>1, <1>4 DEF ConstructTDB, len
----------------------------------------------------------------------------
(***************************************************************************)
(* Records of one size: rows written one after another, and a piece of the *)
(* file cut where they begin.                                              *)
(***************************************************************************)
Piece(data, size, i) == SubSeq(data, (i - 1) * size + 1, i * size)

LEMMA Products ==
  ASSUME NEW size \in Nat, NEW i \in Nat, NEW k \in Nat
  PROVE  /\ i * size \in Nat /\ (i + 1) * size = i * size + size
         /\ (i + k) * size = i * size + k * size
         /\ i <= k => i * size <= k * size
         /\ i < k => i * size + size <= k * size
  <1>1. i * size \in Nat /\ (i + 1) * size = i * size + size
        /\ (i + k) * size = i * size + k * size
    OBVIOUS
  <1>2. \A m \in Nat : (i + m) * size = i * size + m * size /\ m * size \in Nat
    OBVIOUS
  <1>3. ASSUME i <= k PROVE i * size <= k * size
    <2>1. k - i \in Nat /\ i + (k - i) = k
      BY <1>3
    <2>2. k * size = i * size + (k - i) * size /\ (k - i) * size \in Nat
      BY <1>2, <2>1
    <2> QED BY <1>1, <2>2
  <1>4. ASSUME i < k PROVE i * size + size <= k * size
    <2>1. k - (i + 1) \in Nat /\ (i + 1) + (k - (i + 1)) = k /\ i + 1 \in Nat
      BY <1>4
    <2>2. \A n, m \in Nat : (n + m) * size = n * size + m * size /\ m * size \in Nat
                            /\ n * size \in Nat
      OBVIOUS
    <2>3. k * size = (i + 1) * size + (k - (i + 1)) * size /\ (k - (i + 1)) * size \in Nat
      BY <2>1, <2>2
    <2> QED BY <1>1, <2>3
  <1> QED BY <1>1, <1>3, <1>4

\* Whole records in front of a rest.
LEMMA Quotients ==
  ASSUME NEW size \in Nat \ {0}, NEW m \in Nat, NEW y \in Nat
  PROVE  /\ (m * size) \div size = m
         /\ (m * size + y) \div size = m + (y \div size)
         /\ y < size => (m * size + y) \div size = m
         /\ y \div size \in Nat /\ (y \div size) * size <= y /\ y < (y \div size) * size + size
         /\ m * size <= y => m <= y \div size
  <1>1. \A x \in Nat, q \in Nat : q * size <= x /\ x < q * size + size => x \div size = q
    <2> SUFFICES ASSUME NEW x \in Nat, NEW q \in Nat, q * size <= x, x < q * size + size
                 PROVE  x \div size = q
      OBVIOUS
    <2>1. x \div size \in Nat /\ (x \div size) * size <= x /\ x < (x \div size) * size + size
      BY SMTT(30)
    <2> DEFINE d == x \div size
    <2>2. d \in Nat /\ d * size <= x /\ x < d * size + size
      BY <2>1
    <2> HIDE DEF d
    <2>3. ~ (d < q)
      <3>1. d < q => d * size + size <= q * size
        BY <2>2, Products
      <3>2. d * size \in Nat /\ q * size \in Nat
        BY <2>2, Products
      <3> QED BY <2>2, <3>1, <3>2
    <2>4. ~ (q < d)
      <3>1. q < d => q * size + size <= d * size
        BY <2>2, Products
      <3>2. d * size \in Nat /\ q * size \in Nat
        BY <2>2, Products
      <3> QED BY <2>2, <3>1, <3>2
    <2> QED BY <2>2, <2>3, <2>4 DEF d
  <1>2. y \div size \in Nat /\ (y \div size) * size <= y /\ y < (y \div size) * size + size
    BY SMTT(30)
  <1>3. m * size \in Nat
    BY Products
  <1>4. (m * size) \div size = m
    BY <1>1, <1>3
  <1>5. (m * size + y) \div size = m + (y \div size)
    <2> DEFINE d == y \div size
    <2>1. d \in Nat /\ d * size <= y /\ y < d * size + size
      BY <1>2
    <2> HIDE DEF d
    <2>2. (m + d) * size = m * size + d * size /\ d * size \in Nat /\ m + d \in Nat
      BY <2>1, Products
    <2>3. (m + d) * size <= m * size + y /\ m * size + y < (m + d) * size + size
      BY <1>3, <2>1, <2>2
    <2>4. m * size + y \in Nat
      BY <1>3
    <2>5. (m * size + y) \div size = m + d
      BY <1>1, <2>2, <2>3, <2>4
    <2> QED BY <2>5 DEF d
  <1>6. y < size => (m * size + y) \div size = m
    <2>1. m * size + y \in Nat /\ m * size <= m * size + y
      BY <1>3
    <2> QED BY <1>1, <1>3, <2>1
  <1>7. m * size <= y => m <= y \div size
    <2> DEFINE d == y \div size
    <2>1. d \in Nat /\ y < d * size + size
      BY <1>2
    <2> HIDE DEF d
    <2>2. d < m => d * size + size <= m * size
      BY <2>1, Products
    <2>3. d * size \in Nat
      BY <2>1, Products
    <2> QED BY <1>3, <2>1, <2>2, <2>3 DEF d
  <1> QED BY <1>2, <1>4, <1>5, <1>6, <1>7

\* A piece within a sequence.
LEMMA PieceIs ==
  ASSUME NEW U, NEW s \in Seq(U), NEW m \in Nat \ {0}, NEW n \in Nat, n <= Len(s)
  PROVE  \A i \in 1 .. (n - m + 1) : SubSeq(s, m, n)[i] = s[m + i - 1]
  <1>1. Len(s) \in Nat /\ \A i \in 1 .. Len(s) : s[i] \in U
    BY LenProperties, ElementOfSeq
  <1>2. \A i \in m .. n : s[i] \in U
    <2>1. \A i \in m .. n : i \in 1 .. Len(s)
      BY <1>1
    <2> QED BY <1>1, <2>1
  <1>3. m \in Int /\ n \in Int
    OBVIOUS
  <1> QED BY <1>2, <1>3, SubSeqProperties

\* Fields of the lengths of a definition make a record of its size.
LEMMA FlattenLength ==
  ASSUME NEW U, NEW s \in Seq(Seq(U)), NEW d \in Seq(Column), Len(s) = Len(d),
         \A c \in 1 .. Len(d) : Len(s[c]) = d[c].len
  PROVE  Len(FlattenSeq(s)) = RecordSize(d)
  <1> DEFINE n == Len(d)
  <1>1. n \in Nat /\ \A c \in 1 .. n : s[c] \in Seq(U)
    BY LenProperties, ElementOfSeq
  <1>2. /\ LengthsBefore(d, 1) = 0
        /\ \A c \in 1 .. n : LengthsBefore(d, c + 1) = LengthsBefore(d, c) + d[c].len
    BY <1>1, LengthsAdd
  <1>3. CASE n = 0
    <2>1. s = <<>>
      BY <1>3, EmptySeq
    <2>2. FlattenSeq(s) = <<>>
      BY <2>1, FlattenInSeq
    <2>3. RecordSize(d) = LengthsBefore(d, 1)
      <3>1. Len(d) + 1 = 1
        BY <1>3
      <3> QED BY <3>1 DEF RecordSize
    <2> QED BY <1>2, <2>2, <2>3
  <1>4. CASE n # 0
    <2>1. PICK f : IsFlat(f, s, n) /\ FlattenSeq(s) = f[n]
      BY <1>1, <1>4, FlattenIs
    <2> HIDE DEF n
    <2>2. \A k \in 1 .. n : f[k] \in Seq(U)
      BY <1>1, <2>1, FlatInSeq
    <2> DEFINE S == {k \in Nat : k \in 1 .. n => Len(f[k]) = LengthsBefore(d, k + 1)}
    <2>3. 0 \in S
      OBVIOUS
    <2>4. ASSUME NEW k \in Nat, k \in S PROVE k + 1 \in S
      <3> SUFFICES ASSUME k + 1 \in 1 .. n
                   PROVE  Len(f[k + 1]) = LengthsBefore(d, k + 1 + 1)
        OBVIOUS
      <3>1. f[k + 1] = IF k + 1 = 1 THEN s[k + 1] ELSE f[k + 1 - 1] \o s[k + 1]
        BY <1>1, <2>1, FlatAt
      <3>2. LengthsBefore(d, k + 1 + 1) = LengthsBefore(d, k + 1) + d[k + 1].len
            /\ Len(s[k + 1]) = d[k + 1].len
        BY <1>2 DEF n
      <3>3. s[k + 1] \in Seq(U)
        BY <1>1
      <3>4. CASE k = 0
        <4>1. Len(s[k + 1]) \in Nat
          BY <3>3, LenProperties
        <4> QED BY <1>2, <3>1, <3>2, <3>4, <4>1
      <3>5. CASE k # 0
        <4>1. k \in 1 .. n /\ k + 1 - 1 = k /\ k + 1 # 1
          BY <1>1, <3>5
        <4>2. f[k] \in Seq(U) /\ Len(f[k]) = LengthsBefore(d, k + 1)
          BY <2>2, <2>4, <4>1
        <4>3. Len(f[k] \o s[k + 1]) = Len(f[k]) + Len(s[k + 1])
          BY <3>3, <4>2, ConcatProperties
        <4> QED BY <3>1, <3>2, <4>1, <4>2, <4>3
      <3> QED BY <3>4, <3>5
    <2> HIDE DEF S
    <2>5. n \in S
      BY <1>1, <2>3, <2>4, NatInSet
    <2>6. n \in 1 .. n
      BY <1>1, <1>4
    <2> QED BY <2>1, <2>5, <2>6 DEF S, RecordSize, n
  <1> QED BY <1>3, <1>4

LEMMA PieceFacts ==
  ASSUME NEW U, NEW s \in Seq(U), NEW size \in Nat, NEW i \in Nat \ {0}, i * size <= Len(s)
  PROVE  /\ Piece(s, size, i) \in Seq(U) /\ Len(Piece(s, size, i)) = size
         /\ \A j \in 1 .. size : /\ Piece(s, size, i)[j] = s[(i - 1) * size + j]
                                 /\ (i - 1) * size + j \in 1 .. i * size
  <1> DEFINE a == (i - 1) * size
             n == a + size
  <1>1. a \in Nat /\ n \in Nat /\ i * size = n /\ n <= Len(s) /\ n - (a + 1) + 1 = size
    <2>1. i - 1 \in Nat /\ (i - 1) + 1 = i
      OBVIOUS
    <2>2. a \in Nat /\ i * size = a + size
      BY <2>1, Products
    <2> HIDE DEF a
    <2> QED BY <2>2
  <1>2. Piece(s, size, i) = SubSeq(s, a + 1, n)
    BY <1>1 DEF Piece
  <1> HIDE DEF a, n
  <1>3. a + 1 \in Nat \ {0}
    BY <1>1
  <1>4. /\ SubSeq(s, a + 1, n) \in Seq(U)
        /\ Len(SubSeq(s, a + 1, n)) = IF a + 1 <= n THEN n - (a + 1) + 1 ELSE 0
    BY <1>1, <1>3, PieceInSeq
  <1>5. \A j \in 1 .. (n - (a + 1) + 1) : SubSeq(s, a + 1, n)[j] = s[a + 1 + j - 1]
    BY <1>1, <1>3, PieceIs
  <1>6. Len(SubSeq(s, a + 1, n)) = size
    BY <1>1, <1>4
  <1>7. \A j \in 1 .. size : a + 1 + j - 1 = a + j /\ a + j \in 1 .. n
    BY <1>1
  <1>8. \A j \in 1 .. size : SubSeq(s, a + 1, n)[j] = s[a + j]
    BY <1>1, <1>5, <1>7
  <1> QED BY <1>1, <1>2, <1>4, <1>6, <1>7, <1>8 DEF a

\* What is appended changes no piece in front of it.
LEMMA PieceStays ==
  ASSUME NEW U, NEW s \in Seq(U), NEW u \in Seq(U), NEW size \in Nat,
         NEW i \in Nat \ {0}, i * size <= Len(s)
  PROVE  Piece(s \o u, size, i) = Piece(s, size, i)
  <1> DEFINE t == s \o u
  <1>1. /\ t \in Seq(U) /\ Len(t) = Len(s) + Len(u) /\ Len(s) \in Nat /\ Len(u) \in Nat
        /\ \A j \in 1 .. Len(s) : t[j] = s[j]
    BY ConcatProperties, LenProperties
  <1> HIDE DEF t
  <1>2. i * size \in Nat /\ i * size <= Len(t)
    BY <1>1, Products
  <1>3. /\ Piece(t, size, i) \in Seq(U) /\ Len(Piece(t, size, i)) = size
        /\ \A j \in 1 .. size : /\ Piece(t, size, i)[j] = t[(i - 1) * size + j]
                                /\ (i - 1) * size + j \in 1 .. i * size
    <2>1. t \in Seq(U) /\ i * size <= Len(t)
      BY <1>1, <1>2
    <2> QED BY ONLY size \in Nat, i \in Nat \ {0}, <2>1, PieceFacts
  <1>4. /\ Piece(s, size, i) \in Seq(U) /\ Len(Piece(s, size, i)) = size
        /\ \A j \in 1 .. size : Piece(s, size, i)[j] = s[(i - 1) * size + j]
    BY ONLY s \in Seq(U), size \in Nat, i \in Nat \ {0}, i * size <= Len(s), PieceFacts
  <1>5. ASSUME NEW j \in 1 .. size PROVE Piece(t, size, i)[j] = Piece(s, size, i)[j]
    <2> DEFINE x == (i - 1) * size + j
    <2>1. /\ Piece(t, size, i)[j] = t[x] /\ x \in 1 .. i * size
          /\ Piece(s, size, i)[j] = s[x]
      BY <1>3, <1>4
    <2> HIDE DEF x
    <2>2. x \in 1 .. Len(s)
      BY <1>1, <1>2, <2>1
    <2> QED BY <1>1, <2>1, <2>2
  <1> QED BY <1>3, <1>4, <1>5, SeqEqual DEF t

\* What is appended where a piece begins is a piece.
LEMMA PieceAppended ==
  ASSUME NEW U, NEW s \in Seq(U), NEW u \in Seq(U), NEW size \in Nat,
         NEW k \in Nat, Len(s) = k * size, Len(u) = size
  PROVE  Piece(s \o u, size, k + 1) = u
  <1> DEFINE t == s \o u
  <1>1. /\ t \in Seq(U) /\ Len(t) = k * size + size /\ k * size \in Nat
        /\ \A j \in 1 .. (k * size + size) :
              t[j] = IF j <= k * size THEN s[j] ELSE u[j - k * size]
    <2>1. PICK x : x = k * size
      OBVIOUS
    <2>2. x \in Nat
      BY <2>1, Products
    <2>3. /\ t \in Seq(U) /\ Len(t) = x + size
          /\ \A j \in 1 .. (x + size) : t[j] = IF j <= x THEN s[j] ELSE u[j - x]
      <3>1. Len(s) = x /\ Len(u) = size
        BY <2>1
      <3>2. /\ t \in Seq(U) /\ Len(t) = Len(s) + Len(u)
            /\ \A j \in 1 .. (Len(s) + Len(u)) :
                  t[j] = IF j <= Len(s) THEN s[j] ELSE u[j - Len(s)]
        BY ConcatProperties
      <3> HIDE DEF t
      <3> QED BY <3>1, <3>2
    <2> HIDE DEF t
    <2> QED BY <2>1, <2>2, <2>3
  <1> HIDE DEF t
  <1>2. (k + 1) * size = k * size + size /\ k + 1 \in Nat \ {0} /\ k + 1 - 1 = k
    BY Products
  <1>3. /\ Piece(t, size, k + 1) \in Seq(U) /\ Len(Piece(t, size, k + 1)) = size
        /\ \A j \in 1 .. size : Piece(t, size, k + 1)[j] = t[k * size + j]
    <2>1. /\ Piece(t, size, k + 1) \in Seq(U) /\ Len(Piece(t, size, k + 1)) = size
          /\ \A j \in 1 .. size : Piece(t, size, k + 1)[j] = t[(k + 1 - 1) * size + j]
      <3>1. (k + 1) * size <= Len(t)
        BY <1>1, <1>2
      <3> QED BY <1>1, <1>2, <3>1, PieceFacts
    <2> QED BY <1>2, <2>1
  <1>4. ASSUME NEW j \in 1 .. size PROVE t[k * size + j] = u[j]
    <2>1. PICK x : x = k * size
      OBVIOUS
    <2>2. x + j \in 1 .. (x + size) /\ ~ (x + j <= x) /\ (x + j) - x = j
      BY <1>1, <2>1
    <2> QED BY <1>1, <2>1, <2>2
  <1> QED BY <1>3, <1>4, SeqEqual DEF t

\* The first k of a sequence.
FirstOf(s, k) == [i \in 1 .. k |-> s[i]]

\* Rows of one size stand at multiples of it.
LEMMA RowsAreLaid ==
  ASSUME NEW U, NEW size \in Nat, NEW s \in Seq(Seq(U)),
         \A i \in 1 .. Len(s) : Len(s[i]) = size
  PROVE  /\ FlattenSeq(s) \in Seq(U) /\ Len(FlattenSeq(s)) = Len(s) * size
         /\ \A i \in 1 .. Len(s) : Piece(FlattenSeq(s), size, i) = s[i]
  <1> DEFINE n == Len(s)
             Laid(f, k) == /\ f \in Seq(U) /\ Len(f) = k * size
                           /\ \A i \in 1 .. k : Piece(f, size, i) = s[i]
             S == {k \in Nat : k <= n => Laid(FlattenSeq(FirstOf(s, k)), k)}
  <1>1. n \in Nat /\ \A i \in 1 .. n : s[i] \in Seq(U) /\ Len(s[i]) = size
    BY LenProperties, ElementOfSeq
  <1>2. \A k \in Nat : k <= n => FirstOf(s, k) \in Seq(Seq(U)) /\ Len(FirstOf(s, k)) = k
    BY <1>1 DEF FirstOf
  <1>3. 0 \in S
    <2>1. FirstOf(s, 0) = <<>>
      BY DEF FirstOf
    <2>2. FlattenSeq(FirstOf(s, 0)) = <<>>
      <3>1. FirstOf(s, 0) \in Seq(Seq(U))
        BY <2>1, EmptySeq
      <3> QED BY <2>1, <3>1, FlattenInSeq
    <2>3. PICK e : e = FlattenSeq(FirstOf(s, 0))
      OBVIOUS
    <2>4. e \in Seq(U) /\ Len(e) = 0 * size
      <3>1. e = <<>> /\ 0 * size = 0
        BY <2>2, <2>3
      <3> QED BY <3>1, EmptySeq
    <2> QED BY <2>3, <2>4
  <1>4. ASSUME NEW k \in Nat, k \in S PROVE k + 1 \in S
    <2> SUFFICES ASSUME k + 1 <= n PROVE Laid(FlattenSeq(FirstOf(s, k + 1)), k + 1)
      OBVIOUS
    <2>1. k <= n /\ k + 1 \in Nat /\ k + 1 \in 1 .. n
      BY <1>1
    <2>2. PICK f : f = FlattenSeq(FirstOf(s, k))
      OBVIOUS
    <2>3. PICK g : g = FlattenSeq(FirstOf(s, k + 1))
      OBVIOUS
    <2>4. /\ f \in Seq(U) /\ Len(f) = k * size
          /\ \A i \in 1 .. k : Piece(f, size, i) = s[i]
      BY <1>4, <2>1, <2>2
    <2> HIDE DEF S, n
    <2>5. g = f \o s[k + 1]
      <3>1. /\ FirstOf(s, k) \in Seq(Seq(U)) /\ Len(FirstOf(s, k)) = k
            /\ FirstOf(s, k + 1) \in Seq(Seq(U)) /\ Len(FirstOf(s, k + 1)) = k + 1
        BY <1>2, <2>1
      <3>2. /\ \A i \in 1 .. k : FirstOf(s, k + 1)[i] = FirstOf(s, k)[i]
            /\ FirstOf(s, k + 1)[k + 1] = s[k + 1]
        BY DEF FirstOf
      <3> QED BY <2>2, <2>3, <3>1, <3>2, FlattenOneMore
    <2>6. s[k + 1] \in Seq(U) /\ Len(s[k + 1]) = size
      BY <1>1, <2>1
    <2>7. PICK w : w = s[k + 1]
      OBVIOUS
    <2>8. g \in Seq(U) /\ Len(g) = (k + 1) * size
      <3>1. f \o w \in Seq(U) /\ Len(f \o w) = Len(f) + Len(w)
        BY <2>4, <2>6, <2>7, ConcatProperties
      <3> QED BY <2>4, <2>5, <2>6, <2>7, <3>1, Products
    <2>9. Piece(g, size, k + 1) = s[k + 1]
      BY <2>4, <2>5, <2>6, <2>7, PieceAppended
    <2>10. ASSUME NEW i \in 1 .. k PROVE Piece(g, size, i) = s[i]
      <3>1. i \in Nat \ {0} /\ i * size <= k * size
        BY Products
      <3>2. i * size <= Len(f)
        BY <2>4, <3>1
      <3>3. w \in Seq(U) /\ f \in Seq(U)
        BY <2>4, <2>6, <2>7
      <3>4. Piece(f \o w, size, i) = Piece(f, size, i)
        BY <3>1, <3>2, <3>3, PieceStays
      <3> QED BY <2>4, <2>5, <2>7, <3>4
    <2>11. \A i \in 1 .. (k + 1) : i = k + 1 \/ i \in 1 .. k
      OBVIOUS
    <2> QED BY <2>3, <2>8, <2>9, <2>10, <2>11
  <1> HIDE DEF S
  <1>5. n \in S
    BY <1>1, <1>3, <1>4, NatInSet
  <1>6. Laid(FlattenSeq(FirstOf(s, n)), n)
    BY <1>1, <1>5 DEF S
  <1>7. FirstOf(s, n) = s
    <2>1. \A i \in 1 .. n : FirstOf(s, n)[i] = s[i]
      BY DEF FirstOf
    <2>2. FirstOf(s, n) \in Seq(Seq(U)) /\ Len(FirstOf(s, n)) = n
      BY <1>1, <1>2
    <2> QED BY <2>1, <2>2, SeqEqual
  <1> QED BY <1>6, <1>7

\* A part of a sequence.
LEMMA PartIs ==
  ASSUME NEW U, NEW data \in Seq(U), NEW a \in Nat, NEW to \in Nat, a <= to, to <= Len(data)
  PROVE  /\ SubSeq(data, a + 1, to) \in Seq(U) /\ Len(SubSeq(data, a + 1, to)) = to - a
         /\ \A i \in 1 .. (to - a) : SubSeq(data, a + 1, to)[i] = data[a + i]
  <1>1. a + 1 \in Nat \ {0} /\ to \in Int /\ to - (a + 1) + 1 = to - a
        /\ \A i \in 1 .. (to - a) : a + 1 + i - 1 = a + i
    OBVIOUS
  <1>2. /\ SubSeq(data, a + 1, to) \in Seq(U)
        /\ Len(SubSeq(data, a + 1, to)) = IF a + 1 <= to THEN to - (a + 1) + 1 ELSE 0
    BY <1>1, PieceInSeq
  <1>3. Len(SubSeq(data, a + 1, to)) = to - a
    BY <1>2
  <1>4. \A i \in 1 .. (to - (a + 1) + 1) : SubSeq(data, a + 1, to)[i] = data[a + 1 + i - 1]
    BY <1>1, PieceIs
  <1> QED BY <1>1, <1>2, <1>3, <1>4

\* The data area from the beginning of record m + 1 to a place.
Part(data, m, size, to) == SubSeq(data, m * size + 1, to)

LEMMA PiecesOfPart ==
  ASSUME NEW U, NEW data \in Seq(U), NEW size \in Nat, NEW m \in Nat, NEW to \in Nat,
         m * size <= to, to <= Len(data), NEW j \in Nat \ {0}, j * size <= to - m * size
  PROVE  /\ Piece(Part(data, m, size, to), size, j) = Piece(data, size, m + j)
         /\ (m + j) * size <= to
  <1>1. PICK a : a = m * size
    OBVIOUS
  <1>2. PICK rest : rest = Part(data, m, size, to)
    OBVIOUS
  <1>3. a \in Nat /\ a <= to
    BY <1>1, Products
  <1>4. /\ rest \in Seq(U) /\ Len(rest) = to - a /\ Len(data) \in Nat
        /\ \A i \in 1 .. Len(rest) : rest[i] = data[a + i]
    <2>1. /\ SubSeq(data, a + 1, to) \in Seq(U) /\ Len(SubSeq(data, a + 1, to)) = to - a
          /\ \A i \in 1 .. (to - a) : SubSeq(data, a + 1, to)[i] = data[a + i]
      BY ONLY data \in Seq(U), to \in Nat, to <= Len(data), <1>3, PartIs
    <2> QED BY <1>1, <1>2, <2>1, LenProperties DEF Part
  <1>5. PICK x : x = j * size
    OBVIOUS
  <1>6. PICK y : y = (m + j) * size
    OBVIOUS
  <1>7. PICK z : z = (j - 1) * size
    OBVIOUS
  <1>8. /\ x \in Nat /\ z \in Nat /\ x = z + size /\ y = a + x
        /\ m + j \in Nat \ {0} /\ (m + j - 1) * size = a + z
        /\ Len(rest) \in Nat /\ Len(data) \in Nat
    <2>1. j - 1 \in Nat /\ (j - 1) + 1 = j /\ m + j - 1 = m + (j - 1) /\ m + j \in Nat \ {0}
      OBVIOUS
    <2>2. x \in Nat /\ y = a + x
      <3>1. m \in Nat /\ j \in Nat /\ size \in Nat
        BY <2>1
      <3> QED BY ONLY <1>1, <1>5, <1>6, <3>1, Products
    <2>3. z \in Nat /\ x = z + size
      BY <1>5, <1>7, <2>1, Products
    <2>4. (m + (j - 1)) * size = a + z
      BY <1>1, <1>3, <1>7, <2>1, Products
    <2> QED BY <1>4, <2>1, <2>2, <2>3, <2>4, LenProperties
  <1>9. x <= Len(rest) /\ y <= Len(data) /\ y <= a + Len(rest)
    <2>1. x <= to - a
      BY <1>1, <1>5
    <2> QED BY <1>3, <1>4, <1>8, <2>1
  <1>10. /\ Piece(rest, size, j) \in Seq(U) /\ Len(Piece(rest, size, j)) = size
        /\ \A i \in 1 .. size : Piece(rest, size, j)[i] = rest[z + i]
    <2>1. /\ Piece(rest, size, j) \in Seq(U) /\ Len(Piece(rest, size, j)) = size
          /\ \A i \in 1 .. size : Piece(rest, size, j)[i] = rest[(j - 1) * size + i]
      <3>1. rest \in Seq(U) /\ j * size <= Len(rest)
        BY <1>4, <1>5, <1>9
      <3> QED BY ONLY size \in Nat, j \in Nat \ {0}, <3>1, PieceFacts
    <2> QED BY <1>7, <2>1
  <1>11. /\ Piece(data, size, m + j) \in Seq(U) /\ Len(Piece(data, size, m + j)) = size
        /\ \A i \in 1 .. size : Piece(data, size, m + j)[i] = data[a + z + i]
    <2>1. PICK n : n = m + j
      OBVIOUS
    <2>2. n \in Nat \ {0} /\ n * size <= Len(data) /\ (n - 1) * size = a + z
      BY <1>6, <1>8, <1>9, <2>1
    <2>3. /\ Piece(data, size, n) \in Seq(U) /\ Len(Piece(data, size, n)) = size
          /\ \A i \in 1 .. size : Piece(data, size, n)[i] = data[(n - 1) * size + i]
      BY ONLY data \in Seq(U), size \in Nat, <2>2, PieceFacts
    <2> QED BY <2>1, <2>2, <2>3
  <1>12. ASSUME NEW i \in 1 .. size PROVE rest[z + i] = data[a + z + i]
    <2>1. PICK n : n = Len(rest)
      OBVIOUS
    <2>2. n \in Nat /\ z \in Nat /\ z + size <= n
      BY <1>8, <1>9, <2>1
    <2>3. z + i \in 1 .. n
      BY <2>2
    <2>4. a + (z + i) = a + z + i
      BY <1>3, <1>8
    <2> QED BY <1>4, <2>1, <2>3, <2>4
  <1>13. Piece(rest, size, j) = Piece(data, size, m + j)
    BY <1>10, <1>11, <1>12, SeqEqual
  <1>14. y <= to
    BY <1>3, <1>4, <1>8, <1>9
  <1> QED BY <1>1, <1>2, <1>6, <1>13, <1>14

LEMMA RecordsOfPart ==
  ASSUME NEW U, NEW data \in Seq(U), NEW d \in Seq(Column), RecordSize(d) > 0,
         NEW m \in Nat, NEW to \in Nat, m * RecordSize(d) <= to, to <= Len(data)
  PROVE  LET size == RecordSize(d)
             part == Part(data, m, size, to)
             recs == Records(part, d)
         IN  /\ Len(part) = to - m * size
             /\ recs \in Seq(Seq(U)) /\ Len(recs) = (to - m * size) \div size
             /\ \A j \in 1 .. Len(recs) : /\ recs[j] = Piece(data, size, m + j)
                                         /\ (m + j) * size <= to
  <1>1. PICK block : block = Part(data, m, RecordSize(d), to)
    OBVIOUS
  <1>2. PICK size : size = RecordSize(d)
    OBVIOUS
  <1>3. PICK a : a = m * size
    OBVIOUS
  <1>4. a \in Nat /\ a <= to
    BY <1>2, <1>3, LengthsAreInt, Products
  <1>5. size \in Nat \ {0} /\ a = m * size
    BY <1>2, <1>3, LengthsAreInt
  <1>6. /\ block \in Seq(U) /\ Len(block) = to - a
        /\ \A i \in 1 .. Len(block) : block[i] = data[a + i]
    <2>1. /\ SubSeq(data, a + 1, to) \in Seq(U) /\ Len(SubSeq(data, a + 1, to)) = to - a
          /\ \A i \in 1 .. (to - a) : SubSeq(data, a + 1, to)[i] = data[a + i]
      BY <1>4, PartIs
    <2> QED BY <1>1, <1>2, <1>3, <2>1 DEF Part
  <1>7. PICK b : b = (to - a) \div size
    OBVIOUS
  <1>8. b \in Nat /\ b * size <= to - a
    <2>1. to - a \in Nat
      BY <1>4
    <2> QED BY <1>4, <1>5, <1>7, <2>1, Quotients
  <1>9. Records(block, d) = [i \in 1 .. b |-> Piece(block, size, i)]
    BY <1>2, <1>6, <1>7 DEF Records, Piece
  <1>10. ASSUME NEW j \in 1 .. b
        PROVE  /\ Piece(block, size, j) = Piece(data, size, m + j)
               /\ (m + j) * size <= to
    <2>1. j \in Nat \ {0} /\ j * size <= b * size /\ j * size \in Nat /\ b * size \in Nat
      BY <1>5, <1>8, Products
    <2>2. j * size <= to - m * size /\ m * size <= to /\ size \in Nat
      <3>1. PICK x : x = j * size
        OBVIOUS
      <3>2. PICK y : y = b * size
        OBVIOUS
      <3>3. a \in Nat /\ x \in Nat /\ y \in Nat /\ x <= y /\ y <= to - a
        BY <1>4, <1>8, <2>1, <3>1, <3>2
      <3>4. x <= to - a
        BY ONLY to \in Nat, <3>3
      <3> QED BY <1>3, <1>4, <1>5, <3>1, <3>4
    <2>3. /\ Piece(Part(data, m, size, to), size, j) = Piece(data, size, m + j)
          /\ (m + j) * size <= to
      BY ONLY data \in Seq(U), m \in Nat, to \in Nat, to <= Len(data), <2>1, <2>2, PiecesOfPart
    <2> QED BY <1>1, <1>2, <2>3
  <1>11. Len(Records(block, d)) = b /\ \A j \in 1 .. b : Records(block, d)[j] = Piece(data, size, m + j)
    BY <1>8, <1>9, <1>10
  <1>12. Records(block, d) \in Seq(Seq(U))
    BY <1>6, RecordsInSeq
  <1> QED BY ONLY <1>1, <1>2, <1>3, <1>6, <1>7, <1>10, <1>11, <1>12

\* What a step of the scan returns, from the last record to the first.
LEMMA ReversedIs ==
  ASSUME NEW U, NEW s \in Seq(U)
  PROVE  /\ Reverse(s) \in Seq(U) /\ Len(Reverse(s)) = Len(s)
         /\ \A n \in 1 .. Len(s) : /\ Reverse(s)[n] = s[Len(s) - n + 1]
                                   /\ Len(s) - n + 1 \in 1 .. Len(s)
  <1>1. Len(s) \in Nat /\ \A i \in 1 .. Len(s) : s[i] \in U
    BY LenProperties, ElementOfSeq
  <1>2. \A n \in 1 .. Len(s) : (Len(s) - n) + 1 \in 1 .. Len(s)
    BY <1>1
  <1>3. Reverse(s) = [n \in 1 .. Len(s) |-> s[(Len(s) - n) + 1]]
    BY DEF Reverse
  <1> QED BY <1>1, <1>2, <1>3
----------------------------------------------------------------------------
(***************************************************************************)
(* The statements: what is in the file.                                    *)
(***************************************************************************)
\* The variables hold what their comments say.
Typed ==
    /\ exists \in BOOLEAN /\ overlapped \in BOOLEAN
    /\ table \in Seq(Unit)
    /\ stmt \in Requests
    /\ pc \in [Procs -> Places]
    /\ def \in [Procs -> Seq(Column)] /\ target \in [Procs -> Seq(Column)]
    /\ buf \in [Procs -> Seq(Unit)]
    /\ pos \in [Procs -> Nat] /\ read \in [Procs -> Nat]
    /\ last \in Procs \cup {0}
    /\ stable \in [Procs -> BOOLEAN]

\* A process is at the places of its statement; nothing is written, nor read
\* of a text file, before the target is open.
PlacesOK(p) ==
    /\ pc[p] \in {"check", "write"} => stmt[p].op = "insert"
    /\ pc[p] = "scan" => stmt[p].op = "select"
    /\ pc[p] \in {"open", "close"} => stmt[p].op # "select"
    /\ Writing(p) \/ buf[p] = <<>>
    /\ Writing(p) => exists
    /\ pc[p] \in {"plan", "check", "open"} => pos[p] = 0 /\ read[p] = 0
    /\ TextInsert(p) => read[p] <= stmt[p].rows

RowsUpTo(p, k) == FlattenSeq([r \in 1 .. k |-> RowWritten(p, r)])

\* The rows that process p has handed to the C library.
Progress(p) == IF pc[p] = "write" /\ TextInsert(p) THEN read[p] ELSE RowsOf(p)

WrittenSoFar(p) == Header(target[p]) \o RowsUpTo(p, Progress(p))

\* File and buffer of process p are what it has written so far.
WrittenBy(p) ==
    /\ Writing(p) => pos[p] = Len(table) /\ table \o buf[p] = WrittenSoFar(p)
    /\ pc[p] = "done" => table = Whole(p)
    /\ pc[p] = "killed" => IsPrefix(table, Whole(p))

\* Unless statements overlapped, only the last one that opened the file is
\* writing, and the file is its work if it does not copy its own header.
Content ==
    ~ overlapped =>
        /\ \A q \in Procs : Writing(q) => q = last
        /\ last # 0 => /\ pc[last] \in {"write", "close", "done", "killed"}
                       /\ HeaderKept(last) => WrittenBy(last)

IInv ==
    /\ Typed
    /\ exists \/ table = <<>>
    /\ \A p \in Procs : PlacesOK(p)
    /\ Content
----------------------------------------------------------------------------
(***************************************************************************)
(* Units and what is made of them.                                         *)
(***************************************************************************)
LEMMA UnitFacts ==
  /\ Zero \in Unit /\ <<"name">> \in Unit
  /\ \A n \in Nat : <<"columns", n>> \in Unit
  /\ \A c \in Column : <<"column", c.name, c.type, c.len>> \in Unit
  /\ \A p \in Procs, r \in Nat, c \in Nat, n \in Nat : <<"row", p, r, c, n>> \in Unit
  /\ \A u \in Unit : u # Zero /\ u[1] = "columns" => u[2] \in Nat
  /\ \A u \in Unit : u[1] = "column" => u[2] \in Nat /\ u[3] \in Types /\ u[4] \in Int
  <1>1. \A c \in Column : c.name \in Nat /\ c.type \in Types /\ c.len \in Int
    BY DEF Column
  <1>2. /\ Zero[1] = "zero" /\ <<"name">>[1] = "name"
        /\ \A u \in {"columns"} \X Nat : u[1] = "columns" /\ u[2] \in Nat
        /\ \A u \in {"column"} \X Nat \X Types \X Int :
              u[1] = "column" /\ u[2] \in Nat /\ u[3] \in Types /\ u[4] \in Int
        /\ \A u \in {"row"} \X (Procs \cup {0}) \X Nat \X Nat \X Nat : u[1] = "row"
    BY DEF Zero
  <1> QED BY <1>1, <1>2 DEF Unit

\* The parts of a header: the number of columns, their descriptors, the rest
\* of their names.
LEMMA HeaderFacts ==
  ASSUME NEW d \in Seq(Column)
  PROVE  /\ Header(d) \in Seq(Unit) /\ Len(Header(d)) = MetadataSize(d) /\ Len(d) \in Nat
         /\ Header(d)[1] = <<"columns", Len(d)>>
         /\ \A c \in 1 .. Len(d) :
              Header(d)[c + 1] = <<"column", d[c].name, d[c].type, d[c].len>>
  <1>1. Len(d) \in Nat /\ DOMAIN d = 1 .. Len(d) /\ \A c \in 1 .. Len(d) : d[c] \in Column
    BY LenProperties, ElementOfSeq
  <1> DEFINE h == <<<<"columns", Len(d)>>>>
             t == [c \in DOMAIN d |-> <<"column", d[c].name, d[c].type, d[c].len>>]
             r == [n \in 1 .. NamesSize(d) |-> <<"name">>]
  <1>2. h \in Seq(Unit) /\ Len(h) = 1 /\ h[1] = <<"columns", Len(d)>>
    <2>1. <<"columns", Len(d)>> \in Unit
      BY <1>1, UnitFacts
    <2> QED BY <2>1
  <1>3. /\ t \in Seq(Unit) /\ Len(t) = Len(d)
        /\ \A c \in 1 .. Len(d) : t[c] = <<"column", d[c].name, d[c].type, d[c].len>>
    <2>1. \A c \in 1 .. Len(d) : <<"column", d[c].name, d[c].type, d[c].len>> \in Unit
      BY <1>1, UnitFacts
    <2> QED BY <1>1, <2>1
  <1>4. r \in Seq(Unit) /\ Len(r) = NamesSize(d) /\ NamesSize(d) \in Nat
    <2>1. NamesSize(d) \in Nat /\ <<"name">> \in Unit
      BY HeaderSize, UnitFacts
    <2> QED BY <2>1
  <1>5. Header(d) = h \o t \o r
    BY DEF Header
  <1> HIDE DEF h, t, r
  <1>6. /\ h \o t \in Seq(Unit) /\ Len(h \o t) = 1 + Len(d)
        /\ \A i \in 1 .. (1 + Len(d)) : (h \o t)[i] = IF i <= 1 THEN h[i] ELSE t[i - 1]
    <2>1. /\ h \o t \in Seq(Unit) /\ Len(h \o t) = Len(h) + Len(t)
          /\ \A i \in 1 .. (Len(h) + Len(t)) :
                (h \o t)[i] = IF i <= Len(h) THEN h[i] ELSE t[i - Len(h)]
      <3>1. h \in Seq(Unit) /\ t \in Seq(Unit)
        BY <1>2, <1>3
      <3> QED BY ONLY <3>1, ConcatProperties
    <2>2. Len(h) = 1 /\ Len(t) = Len(d)
      BY <1>2, <1>3
    <2> QED BY <2>1, <2>2
  <1>7. /\ Header(d) \in Seq(Unit) /\ Len(Header(d)) = 1 + Len(d) + NamesSize(d)
        /\ \A i \in 1 .. (1 + Len(d)) : Header(d)[i] = (h \o t)[i]
    <2>1. /\ h \o t \o r \in Seq(Unit) /\ Len(h \o t \o r) = Len(h \o t) + Len(r)
          /\ \A i \in 1 .. (Len(h \o t) + Len(r)) :
                (h \o t \o r)[i] = IF i <= Len(h \o t) THEN (h \o t)[i] ELSE r[i - Len(h \o t)]
      BY <1>4, <1>6, ConcatProperties
    <2>2. \A i \in 1 .. (1 + Len(d)) : i \in 1 .. (1 + Len(d) + NamesSize(d)) /\ i <= 1 + Len(d)
      BY <1>1, <1>4
    <2> QED BY <1>4, <1>5, <1>6, <2>1, <2>2
  <1>8. ASSUME NEW i \in 1 .. (1 + Len(d))
        PROVE  Header(d)[i] = IF i <= 1 THEN h[i] ELSE t[i - 1]
    <2>1. \A j \in 1 .. (1 + Len(d)) : (h \o t)[j] = IF j <= 1 THEN h[j] ELSE t[j - 1]
      BY <1>6
    <2>2. (h \o t)[i] = IF i <= 1 THEN h[i] ELSE t[i - 1]
      BY <2>1, Zenon
    <2>3. \A j \in 1 .. (1 + Len(d)) : Header(d)[j] = (h \o t)[j]
      BY <1>7
    <2>4. Header(d)[i] = (h \o t)[i]
      BY <2>3, Zenon
    <2> QED BY <2>2, <2>4, Zenon
  <1>9. Header(d)[1] = <<"columns", Len(d)>>
    <2>1. 1 \in 1 .. (1 + Len(d)) /\ 1 <= 1
      BY <1>1
    <2> QED BY <1>2, <1>8, <2>1
  <1>10. ASSUME NEW c \in 1 .. Len(d) PROVE Header(d)[c + 1] = t[c]
    <2>1. c + 1 \in 1 .. (1 + Len(d)) /\ ~ (c + 1 <= 1) /\ (c + 1) - 1 = c
      BY <1>1
    <2> QED BY <1>8, <2>1
  <1>11. Len(Header(d)) = MetadataSize(d)
    BY <1>7, HeaderSize
  <1> QED BY <1>1, <1>3, <1>7, <1>9, <1>10, <1>11

\* A header that can be read is a definition, whatever else is in the file.
LEMMA MetadataIsDefinition ==
  ASSUME NEW content \in Seq(Unit), NEW d \in MetadataRead(content, AnyDef)
  PROVE  d \in Seq(Column)
  <1>1. CASE ~ HasMetadata(content)
    BY <1>1, StatementsAssumption DEF MetadataRead
  <1>2. CASE HasMetadata(content)
    <2>1. d = Metadata(content)
      BY <1>2 DEF MetadataRead
    <2>2. DOMAIN content = 1 .. Len(content) /\ \A i \in DOMAIN content : content[i] \in Unit
      BY LenProperties, ElementOfSeq
    <2>3. CASE content[1] = Zero
      BY <2>1, <2>3 DEF Metadata
    <2>4. CASE content[1] # Zero
      <3>1. 1 \in DOMAIN content
        BY <1>2, <2>2 DEF HasMetadata
      <3> DEFINE n == content[1][2]
      <3>2. n \in Nat /\ \A c \in 1 .. n : /\ content[c + 1][2] \in Nat
                                           /\ content[c + 1][3] \in Types
                                           /\ content[c + 1][4] \in Int
        BY <1>2, <2>2, <2>4, <3>1, UnitFacts DEF HasMetadata
      <3> DEFINE column(c) == [name |-> content[c + 1][2], type |-> content[c + 1][3],
                               len  |-> content[c + 1][4]]
      <3>3. d = [c \in 1 .. n |-> column(c)]
        BY <2>1, <2>4 DEF Metadata
      <3>4. \A c \in 1 .. n : column(c) \in Column
        BY <3>2 DEF Column
      <3> HIDE DEF n, column
      <3> QED BY <3>2, <3>3, <3>4
    <2> QED BY <2>3, <2>4
  <1> QED BY <1>1, <1>2

LEMMA StatementFacts ==
  ASSUME stmt \in Requests
  PROVE  \A p \in Procs : /\ stmt[p].op \in {"create", "insert", "select"}
                          /\ stmt[p].from \in {"text", "table"}
                          /\ stmt[p].types \in Seq(Types)
                          /\ stmt[p].rows \in Nat /\ RowsOf(p) \in Nat
                          /\ ConstructTDB(stmt[p].columns) \in Seq(Column)
  <1>1. \A p \in Procs : stmt[p] \in Statement
    BY StatementsAssumption
  <1>2. \A s \in Statement : /\ s.op \in {"create", "insert", "select"}
                             /\ s.from \in {"text", "table"}
                             /\ s.types \in Seq(Types) /\ s.rows \in Nat
                             /\ s.columns \in Seq([name : Nat, type : Types, size : Nat])
    BY DEF Statement
  <1>3. \A s \in Statement : ConstructTDB(s.columns) \in Seq(Column)
    BY <1>2, ConstructedInSeq
  <1> QED BY <1>1, <1>2, <1>3 DEF RowsOf

\* Rows of a text file are written as units of the file.
LEMMA RowIsUnits ==
  ASSUME stmt \in Requests, NEW p \in Procs, NEW r \in Nat
  PROVE  RowWritten(p, r) \in Seq(Unit)
  <1> DEFINE types == stmt[p].types
             tuple == TextTuple(types, p, r)
  <1>1. types \in Seq(Types) /\ DOMAIN types = 1 .. Len(types)
    BY StatementFacts, LenProperties
  <1>2. ASSUME NEW c \in 1 .. Len(types), NEW n \in 1 .. StrUnits
        PROVE  tuple[c][n] \in Unit
    <2>1. tuple[c][n] = <<"row", p, r, c, n>> /\ c \in Nat /\ n \in Nat
      BY <1>1 DEF TextTuple
    <2> QED BY <2>1, UnitFacts
  <1> HIDE DEF tuple, types
  <1>3. RecordWritten(types, tuple) \in Seq(Unit)
    BY <1>1, <1>2, RecordInSeq
  <1> QED BY <1>3 DEF RowWritten, tuple, types

\* The rows one after another.
LEMMA RowsOneMore ==
  ASSUME stmt \in Requests, NEW p \in Procs, NEW k \in Nat
  PROVE  /\ RowsUpTo(p, k) \in Seq(Unit)
         /\ RowsUpTo(p, 0) = <<>>
         /\ RowsUpTo(p, k + 1) = RowsUpTo(p, k) \o RowWritten(p, k + 1)
  <1> DEFINE Rows(n) == [r \in 1 .. n |-> RowWritten(p, r)]
  <1>1. ASSUME NEW n \in Nat PROVE Rows(n) \in Seq(Seq(Unit)) /\ Len(Rows(n)) = n
    <2>1. \A r \in 1 .. n : RowWritten(p, r) \in Seq(Unit)
      BY RowIsUnits
    <2> QED BY <2>1
  <1>2. Rows(0) = <<>>
    OBVIOUS
  <1>3. \A i \in 1 .. k : Rows(k + 1)[i] = Rows(k)[i]
    OBVIOUS
  <1>4. Rows(k + 1)[k + 1] = RowWritten(p, k + 1)
    OBVIOUS
  <1>5. k + 1 \in Nat /\ 0 \in Nat
    OBVIOUS
  <1> HIDE DEF Rows
  <1>6. FlattenSeq(Rows(k + 1)) = FlattenSeq(Rows(k)) \o Rows(k + 1)[Len(Rows(k + 1))]
    <2>1. /\ Rows(k) \in Seq(Seq(Unit)) /\ Rows(k + 1) \in Seq(Seq(Unit))
          /\ Len(Rows(k)) = k /\ Len(Rows(k + 1)) = k + 1
      BY <1>1, <1>5
    <2>2. \A i \in 1 .. Len(Rows(k)) : Rows(k + 1)[i] = Rows(k)[i]
      BY <1>3, <2>1
    <2>3. Len(Rows(k + 1)) = Len(Rows(k)) + 1
      BY <2>1
    <2> QED BY <2>1, <2>2, <2>3, FlattenOneMore
  <1>7. FlattenSeq(Rows(k)) \in Seq(Unit) /\ FlattenSeq(Rows(0)) = <<>>
    BY <1>1, <1>2, <1>5, FlattenInSeq
  <1>8. FlattenSeq(Rows(k + 1)) = FlattenSeq(Rows(k)) \o RowWritten(p, k + 1)
    BY <1>1, <1>4, <1>5, <1>6
  <1> QED BY <1>7, <1>8 DEF RowsUpTo, Rows

\* What has been written is a prefix of what will have been.
LEMMA RowsContinue ==
  ASSUME stmt \in Requests, NEW p \in Procs, NEW k \in Nat, NEW m \in Nat
  PROVE  \E u \in Seq(Unit) : RowsUpTo(p, k + m) = RowsUpTo(p, k) \o u
  <1> DEFINE S == {n \in Nat : \E u \in Seq(Unit) : RowsUpTo(p, k + n) = RowsUpTo(p, k) \o u}
  <1>0. \A n \in Nat : RowsUpTo(p, n) \in Seq(Unit)
    BY RowsOneMore
  <1>1. 0 \in S
    <2>1. RowsUpTo(p, k) \o <<>> = RowsUpTo(p, k) /\ <<>> \in Seq(Unit) /\ k + 0 = k
      BY <1>0, ConcatEmptySeq, EmptySeq
    <2> QED BY <2>1
  <1>2. ASSUME NEW n \in Nat, n \in S PROVE n + 1 \in S
    <2>1. PICK u \in Seq(Unit) : RowsUpTo(p, k + n) = RowsUpTo(p, k) \o u
      BY <1>2
    <2> DEFINE w == RowWritten(p, k + n + 1)
    <2>2. k + n \in Nat /\ k + (n + 1) = k + n + 1 /\ k + n + 1 \in Nat
      OBVIOUS
    <2>3. RowsUpTo(p, k + (n + 1)) = RowsUpTo(p, k + n) \o w
      BY <2>2, RowsOneMore
    <2>4. w \in Seq(Unit)
      BY <2>2, RowIsUnits
    <2> HIDE DEF w
    <2>5. u \o w \in Seq(Unit)
      BY <2>4, ConcatProperties
    <2>6. \A s \in Seq(Unit) : (s \o u) \o w = s \o (u \o w)
      <3> SUFFICES ASSUME NEW s \in Seq(Unit) PROVE (s \o u) \o w = s \o (u \o w)
        OBVIOUS
      <3> QED BY <2>4, ConcatAssociative
    <2>7. RowsUpTo(p, k + (n + 1)) = RowsUpTo(p, k) \o (u \o w)
      BY <1>0, <2>1, <2>3, <2>6
    <2>8. \E v \in Seq(Unit) : RowsUpTo(p, k + (n + 1)) = RowsUpTo(p, k) \o v
      BY <2>5, <2>7
    <2> QED BY <2>8
  <1> HIDE DEF S
  <1>3. m \in S
    BY <1>1, <1>2, NatInSet
  <1> QED BY <1>3 DEF S

Begins(s, t) == \E u \in Seq(Unit) : t = s \o u

\* And so is all of it that the file and the buffer hold.
LEMMA WrittenIsPrefix ==
  ASSUME Typed, NEW p \in Procs, PlacesOK(p)
  PROVE  /\ WrittenSoFar(p) \in Seq(Unit)
         /\ Begins(WrittenSoFar(p), Whole(p))
         /\ pc[p] # "write" \/ ~ TextInsert(p) => WrittenSoFar(p) = Whole(p)
  <1> DEFINE h == Header(target[p])
             k == Progress(p)
             n == RowsOf(p)
  <1>1. h \in Seq(Unit) /\ stmt \in Requests
    BY HeaderFacts DEF Typed
  <1>2. n \in Nat /\ k \in Nat /\ k <= n
    BY StatementFacts DEF Typed, PlacesOK, Progress, RowsOf
  <1>3. Whole(p) = h \o RowsUpTo(p, n) /\ WrittenSoFar(p) = h \o RowsUpTo(p, k)
    BY DEF Whole, WrittenSoFar, RowsUpTo
  <1>4. pc[p] # "write" \/ ~ TextInsert(p) => k = n
    BY DEF Progress
  <1> HIDE DEF h, k, n
  <1>5. RowsUpTo(p, k) \in Seq(Unit)
    BY <1>1, <1>2, RowsOneMore
  <1>6. PICK u \in Seq(Unit) : RowsUpTo(p, n) = RowsUpTo(p, k) \o u
    <2>1. PICK m \in Nat : k + m = n
      <3>1. n - k \in Nat /\ k + (n - k) = n
        BY <1>2
      <3> QED BY <3>1
    <2> QED BY <1>1, <1>2, <2>1, RowsContinue
  <1>7. h \o RowsUpTo(p, k) \in Seq(Unit)
    BY <1>1, <1>5, ConcatProperties
  <1>8. h \o RowsUpTo(p, n) = (h \o RowsUpTo(p, k)) \o u
    <2>1. \A s, t \in Seq(Unit) : (s \o t) \o u = s \o (t \o u)
      BY ConcatAssociative
    <2> QED BY <1>1, <1>5, <1>6, <2>1
  <1>9. \E v \in Seq(Unit) : h \o RowsUpTo(p, n) = (h \o RowsUpTo(p, k)) \o v
    BY <1>6, <1>8
  <1>10. k = n => WrittenSoFar(p) = Whole(p)
    BY <1>3
  <1>11. WrittenSoFar(p) \in Seq(Unit)
    BY <1>3, <1>7
  <1>12. Begins(WrittenSoFar(p), Whole(p))
    BY <1>3, <1>9 DEF Begins
  <1> QED BY <1>4, <1>10, <1>11, <1>12

\* Writing at the end of the file appends; anywhere else leaves units.
LEMMA PatchedFacts ==
  ASSUME NEW content \in Seq(Unit), NEW at \in Nat, NEW units \in Seq(Unit)
  PROVE  /\ Patched(content, at, units) \in Seq(Unit)
         /\ at = Len(content) => Patched(content, at, units) = content \o units
         /\ units # <<>> => Patched(content, at, units) # <<>>
  <1> DEFINE end == at + Len(units)
             m == IF Len(content) > end THEN Len(content) ELSE end
             t == [i \in 1 .. m |-> IF i \in (at + 1) .. end THEN units[i - at]
                                    ELSE IF i \in DOMAIN content THEN content[i] ELSE Zero]
  <1>1. /\ Len(units) \in Nat /\ Len(content) \in Nat
        /\ DOMAIN content = 1 .. Len(content) /\ \A i \in 1 .. Len(content) : content[i] \in Unit
        /\ \A i \in 1 .. Len(units) : units[i] \in Unit
    BY LenProperties, ElementOfSeq
  <1>2. Patched(content, at, units) = t
    BY DEF Patched
  <1>3. m \in Nat /\ end \in Nat /\ end <= m
    BY <1>1
  <1>4. \A i \in 1 .. m : t[i] \in Unit
    <2>1. \A i \in (at + 1) .. end : i - at \in 1 .. Len(units)
      BY <1>1
    <2> HIDE DEF m, end
    <2> QED BY <1>1, <2>1, UnitFacts
  <1>5. t \in Seq(Unit) /\ Len(t) = m
    <2> HIDE DEF m, end
    <2>1. t \in [1 .. m -> Unit] /\ Len(t) = m
      BY <1>3, <1>4
    <2> HIDE DEF t
    <2> QED BY <1>3, <2>1
  <1>6. ASSUME at = Len(content) PROVE t = content \o units
    <2>1. content \o units \in Seq(Unit) /\ Len(content \o units) = Len(content) + Len(units)
          /\ \A i \in 1 .. (Len(content) + Len(units)) :
                (content \o units)[i] = IF i <= Len(content) THEN content[i]
                                        ELSE units[i - Len(content)]
      BY ConcatProperties
    <2>2. m = Len(content) + Len(units)
      BY <1>1, <1>6
    <2>3. \A i \in 1 .. m : t[i] = (content \o units)[i]
      <3> SUFFICES ASSUME NEW i \in 1 .. m PROVE t[i] = (content \o units)[i]
        OBVIOUS
      <3>1. CASE i <= Len(content)
        <4>1. i \notin (at + 1) .. end /\ i \in 1 .. Len(content)
          BY <1>1, <1>3, <1>6, <3>1
        <4> HIDE DEF m, end
        <4> QED BY <1>1, <2>1, <2>2, <3>1, <4>1
      <3>2. CASE ~ (i <= Len(content))
        <4>1. i \in (at + 1) .. end
          BY <1>1, <1>3, <1>6, <2>2, <3>2
        <4> HIDE DEF m, end
        <4> QED BY <1>1, <1>6, <2>1, <2>2, <3>2, <4>1
      <3> QED BY <3>1, <3>2
    <2> HIDE DEF t, m
    <2> QED BY <1>5, <2>1, <2>2, <2>3, SeqEqual
  <1>7. units # <<>> => m # 0
    <2>1. units # <<>> => Len(units) # 0
      BY EmptySeq
    <2> QED BY <1>1, <2>1
  <1> HIDE DEF t, m
  <1>8. m # 0 => t # <<>>
    BY <1>5, EmptySeq
  <1> QED BY <1>2, <1>5, <1>6, <1>7, <1>8
----------------------------------------------------------------------------
(***************************************************************************)
(* What a scan of the table reads, and an INSERT writes of it.             *)
(***************************************************************************)
LEMMA BlockFacts ==
  ASSUME Typed, NEW p \in Procs, RecordSize(def[p]) > 0
  PROVE  /\ Block(p) \in Seq(Unit) /\ Len(Block(p)) \in Nat /\ BufferSize(p) \in Nat
         /\ Len(table) <= MetadataSize(def[p]) => Block(p) = <<>>
         /\ BufferSize(p) # 0
  <1> DEFINE data == Data(table, def[p])
             end == read[p] + BufferSize(p)
             to == IF end > Len(data) THEN Len(data) ELSE end
  <1>1. table \in Seq(Unit) /\ def[p] \in Seq(Column) /\ read[p] \in Nat
    BY DEF Typed
  <1>2. data \in Seq(Unit) /\ Len(data) \in Nat
        /\ (Len(table) <= MetadataSize(def[p]) => data = <<>>)
    BY <1>1, DataInSeq, LenProperties
  <1>3. BufferSize(p) \in Nat /\ BufferSize(p) # 0
    <2>1. RecordSize(def[p]) \in Nat \ {0}
      BY <1>1, LengthsAreInt
    <2> QED BY <2>1, StatementsAssumption DEF BufferSize
  <1>4. Block(p) = SubSeq(data, read[p] + 1, to)
    BY DEF Block
  <1> HIDE DEF data
  <1>5. to \in Int /\ to <= Len(data) /\ read[p] + 1 \in Nat \ {0}
    BY <1>1, <1>2, <1>3
  <1>6. data = <<>> => to < read[p] + 1
    <2>1. data = <<>> => Len(data) = 0
      BY EmptySeq
    <2> QED BY <1>1, <1>3, <2>1
  <1> HIDE DEF to
  <1>7. /\ SubSeq(data, read[p] + 1, to) \in Seq(Unit)
        /\ to < read[p] + 1 => SubSeq(data, read[p] + 1, to) = <<>>
    BY <1>2, <1>5, PieceInSeq
  <1> QED BY <1>2, <1>3, <1>4, <1>6, <1>7, LenProperties

ReadRecords(p) == Reverse(Records(Block(p), def[p]))

CopiedUnits(p) ==
    FlattenSeq([i \in DOMAIN ReadRecords(p) |-> Rewritten(p, ReadRecords(p)[i])])

\* Records are taken apart and written as units; of nothing read comes nothing.
LEMMA CopyFacts ==
  ASSUME Typed, NEW p \in Procs, RecordSize(def[p]) > 0, stmt[p].from = "table"
  PROVE  /\ CopiedUnits(p) \in Seq(Unit)
         /\ Block(p) = <<>> => CopiedUnits(p) = <<>>
  <1> DEFINE recs == Records(Block(p), def[p])
             rev == ReadRecords(p)
             copies == [i \in DOMAIN rev |-> Rewritten(p, rev[i])]
  <1>1. def[p] \in Seq(Column) /\ DOMAIN def[p] = 1 .. Len(def[p])
        /\ \A c \in 1 .. Len(def[p]) : def[p][c].type \in Types
    <2>1. def[p] \in Seq(Column)
      BY DEF Typed
    <2>2. DOMAIN def[p] = 1 .. Len(def[p]) /\ \A c \in 1 .. Len(def[p]) : def[p][c] \in Column
      BY <2>1, LenProperties, ElementOfSeq
    <2> QED BY <2>1, <2>2 DEF Column
  <1>2. recs \in Seq(Seq(Unit)) /\ (Block(p) = <<>> => recs = <<>>)
    BY <1>1, BlockFacts, RecordsInSeq
  <1>3. rev = [i \in 1 .. Len(recs) |-> recs[(Len(recs) - i) + 1]]
    BY DEF ReadRecords, Reverse
  <1> HIDE DEF recs, rev
  <1>4. /\ DOMAIN rev = 1 .. Len(recs) /\ Len(recs) \in Nat
        /\ \A i \in 1 .. Len(recs) : rev[i] \in Seq(Unit)
    <2>1. Len(recs) \in Nat /\ \A i \in 1 .. Len(recs) : recs[i] \in Seq(Unit)
      BY <1>2, LenProperties, ElementOfSeq
    <2>2. \A i \in 1 .. Len(recs) : (Len(recs) - i) + 1 \in 1 .. Len(recs)
      BY <2>1
    <2> QED BY <1>3, <2>1, <2>2
  <1>5. QueryTypes(p) \in Seq(Types) /\ Len(QueryTypes(p)) = Len(def[p])
    <2>1. Len(def[p]) \in Nat
      BY <1>1, LenProperties
    <2> QED BY <1>1, <2>1 DEF QueryTypes
  <1>6. ASSUME NEW rec \in Seq(Unit) PROVE Rewritten(p, rec) \in Seq(Unit)
    <2> DEFINE tuple == TableTuple(def[p], rec)
    <2>1. \A i \in DOMAIN rec : rec[i] \in Unit
      BY LenProperties, ElementOfSeq
    <2>2. \A c \in 1 .. Len(QueryTypes(p)) : \A n \in 1 .. StrUnits : tuple[c][n] \in Unit
      BY <1>1, <1>5, <2>1, UnitFacts DEF TableTuple
    <2> HIDE DEF tuple
    <2>3. RecordWritten(QueryTypes(p), tuple) \in Seq(Unit)
      BY <1>5, <2>2, RecordInSeq
    <2> QED BY <2>3 DEF Rewritten, tuple
  <1>7. copies \in Seq(Seq(Unit)) /\ (recs = <<>> => copies = <<>>)
    <2>1. \A i \in 1 .. Len(recs) : Rewritten(p, rev[i]) \in Seq(Unit)
      BY <1>4, <1>6
    <2>2. copies \in Seq(Seq(Unit))
      BY <1>4, <2>1
    <2>3. recs = <<>> => DOMAIN rev = {}
      BY <1>4, EmptySeq
    <2> QED BY <2>2, <2>3
  <1> HIDE DEF copies
  <1>8. FlattenSeq(copies) \in Seq(Unit) /\ (copies = <<>> => FlattenSeq(copies) = <<>>)
    BY <1>7, FlattenInSeq
  <1>9. CopiedUnits(p) = FlattenSeq(copies)
    BY DEF CopiedUnits, copies, rev
  <1> QED BY <1>2, <1>7, <1>8, <1>9
----------------------------------------------------------------------------
(***************************************************************************)
(* What a step leaves alone.                                               *)
(***************************************************************************)
\* What process q has of its own.
Own(q) == <<pc[q], def[q], target[q], buf[q], pos[q], read[q]>>

LEMMA TextStays ==
  ASSUME stmt' = stmt, NEW p
  PROVE  /\ RowsOf(p)' = RowsOf(p) /\ TextInsert(p)' = TextInsert(p)
         /\ InsertsItself(p)' = InsertsItself(p)
         /\ \A r : RowWritten(p, r)' = RowWritten(p, r)
         /\ \A k : RowsUpTo(p, k)' = RowsUpTo(p, k)
  <1>1. RowsOf(p)' = RowsOf(p) /\ TextInsert(p)' = TextInsert(p)
        /\ InsertsItself(p)' = InsertsItself(p)
    BY DEF RowsOf, TextInsert, InsertsItself
  <1>2. ASSUME NEW r PROVE RowWritten(p, r)' = RowWritten(p, r)
    BY DEF RowWritten
  <1>3. ASSUME NEW k PROVE RowsUpTo(p, k)' = RowsUpTo(p, k)
    <2>1. [r \in 1 .. k |-> RowWritten(p, r)'] = [r \in 1 .. k |-> RowWritten(p, r)]
      BY <1>2
    <2>2. RowsUpTo(p, k)' = FlattenSeq([r \in 1 .. k |-> RowWritten(p, r)'])
      BY DEF RowsUpTo
    <2> QED BY <2>1, <2>2 DEF RowsUpTo
  <1> QED BY <1>1, <1>2, <1>3

LEMMA PlacesKept ==
  ASSUME NEW q, PlacesOK(q), stmt' = stmt, Own(q)' = Own(q), exists => exists'
  PROVE  PlacesOK(q)'
  BY DEF PlacesOK, Own, Writing, TextInsert, InsertsItself

LEMMA ProcKept ==
  ASSUME NEW q, stmt' = stmt, Own(q)' = Own(q)
  PROVE  /\ Whole(q)' = Whole(q) /\ WrittenSoFar(q)' = WrittenSoFar(q)
         /\ Writing(q)' = Writing(q)
         /\ pc'[q] = pc[q] /\ buf'[q] = buf[q] /\ pos'[q] = pos[q] /\ target'[q] = target[q]
         /\ HeaderKept(q)' = HeaderKept(q)
  <1>1. /\ pc'[q] = pc[q] /\ target'[q] = target[q] /\ buf'[q] = buf[q]
        /\ pos'[q] = pos[q] /\ read'[q] = read[q] /\ def'[q] = def[q]
    BY DEF Own
  <1>2. Writing(q)' = Writing(q)
    BY <1>1 DEF Writing
  <1>3. /\ RowsUpTo(q, Progress(q))' = RowsUpTo(q, Progress(q))
        /\ RowsUpTo(q, RowsOf(q))' = RowsUpTo(q, RowsOf(q))
    <2>1. Progress(q)' = Progress(q)
      BY <1>1, TextStays DEF Progress
    <2>2. PICK k : k = Progress(q)
      OBVIOUS
    <2>3. PICK n : n = RowsOf(q)
      OBVIOUS
    <2>4. RowsUpTo(q, k)' = RowsUpTo(q, k) /\ RowsUpTo(q, n)' = RowsUpTo(q, n)
      BY TextStays
    <2>5. n = RowsOf(q)'
      BY <2>3, TextStays
    <2> QED BY <2>1, <2>2, <2>3, <2>4, <2>5 DEF RowsUpTo
  <1>4. WrittenSoFar(q)' = WrittenSoFar(q)
    BY <1>1, <1>3 DEF WrittenSoFar
  <1>5. Whole(q) = Header(target[q]) \o RowsUpTo(q, RowsOf(q))
    BY DEF Whole, RowsUpTo
  <1>6. Whole(q)' = (Header(target[q]) \o RowsUpTo(q, RowsOf(q)))'
    BY DEF Whole, RowsUpTo
  <1>7. HeaderKept(q)' = HeaderKept(q)
    BY <1>1 DEF HeaderKept, InsertsItself
  <1> QED BY <1>1, <1>2, <1>3, <1>4, <1>5, <1>6, <1>7

\* A step of a process that is not writing and does not begin to.
LEMMA ContentKept ==
  ASSUME NEW p, Content, stmt' = stmt, UNCHANGED <<table, history>>,
         \A q : q # p => Own(q)' = Own(q),
         pc[p] \notin {"write", "close", "done", "killed"}, ~ Writing(p)'
  PROVE  Content'
  <1>1. last' = last /\ overlapped' = overlapped /\ table' = table
    BY DEF history
  <1> SUFFICES ASSUME ~ overlapped PROVE Content'
    BY <1>1 DEF Content
  <1>2. ASSUME NEW q \in Procs, Writing(q)' PROVE q = last'
    BY <1>1, <1>2, ProcKept DEF Content
  <1>3. ASSUME last # 0
        PROVE  /\ pc'[last'] \in {"write", "close", "done", "killed"}
               /\ HeaderKept(last)' => WrittenBy(last)'
    <2>1. PICK l : l = last
      OBVIOUS
    <2>2. /\ pc[l] \in {"write", "close", "done", "killed"}
          /\ HeaderKept(l) => WrittenBy(l)
      BY <1>3, <2>1 DEF Content
    <2>3. l # p
      BY <2>2
    <2>4. /\ Whole(l)' = Whole(l) /\ WrittenSoFar(l)' = WrittenSoFar(l)
          /\ Writing(l)' = Writing(l) /\ HeaderKept(l)' = HeaderKept(l)
          /\ pc'[l] = pc[l] /\ buf'[l] = buf[l] /\ pos'[l] = pos[l]
      BY <2>3, ProcKept
    <2>5. HeaderKept(l)' => WrittenBy(l)'
      BY <1>1, <2>2, <2>4 DEF WrittenBy
    <2> QED BY <1>1, <2>1, <2>2, <2>4, <2>5 DEF HeaderKept, InsertsItself
  <1> QED BY <1>1, <1>2, <1>3 DEF Content

\* A step of a process that is writing.
LEMMA WriterContent ==
  ASSUME NEW p \in Procs, Content, Writing(p), stmt' = stmt, UNCHANGED history,
         \A q : q # p => Own(q)' = Own(q),
         def'[p] = def[p], target'[p] = target[p],
         pc'[p] \in {"write", "close", "done", "killed"},
         HeaderKept(p) /\ WrittenBy(p) => WrittenBy(p)'
  PROVE  Content'
  <1>1. last' = last /\ overlapped' = overlapped
    BY DEF history
  <1> SUFFICES ASSUME ~ overlapped PROVE Content'
    BY <1>1 DEF Content
  <1>2. p = last /\ last # 0
    BY StatementsAssumption DEF Content
  <1>3. HeaderKept(p)' = HeaderKept(p)
    BY DEF HeaderKept, InsertsItself
  <1>4. HeaderKept(p)' => WrittenBy(p)'
    BY <1>2, <1>3 DEF Content
  <1>5. ASSUME NEW q \in Procs, Writing(q)' PROVE q = last'
    BY <1>1, <1>2, <1>5, ProcKept DEF Content
  <1> QED BY <1>1, <1>2, <1>4, <1>5 DEF Content

----------------------------------------------------------------------------
(***************************************************************************)
(* The invariant holds at first, and every step of a process keeps it.     *)
(***************************************************************************)
LEMMA InitInv == Init => IInv
  <1> SUFFICES ASSUME Init PROVE IInv
    OBVIOUS
  <1>1. PICK t \in InitialTables : exists = t.exists /\ table = t.content
    BY DEF Init
  <1>2. t.exists \in BOOLEAN /\ t.content \in Seq(Unit) /\ (t.exists \/ t.content = <<>>)
    <2>1. t \in [exists : BOOLEAN, content : Seq(Unit)]
      BY StatementsAssumption
    <2> QED BY <2>1, StatementsAssumption
  <1>3. <<>> \in Seq(Column) /\ <<>> \in Seq(Unit)
    BY EmptySeq
  <1>4. Typed
    BY <1>1, <1>2, <1>3 DEF Init, Typed, Places
  <1>5. ASSUME NEW p \in Procs PROVE PlacesOK(p)
    <2>1. pc[p] = "plan" /\ buf[p] = <<>> /\ pos[p] = 0 /\ read[p] = 0
      BY DEF Init
    <2>2. TextInsert(p) => stmt[p].rows \in Nat
      BY <1>4, StatementFacts DEF Typed
    <2>3. TextInsert(p) => 0 <= stmt[p].rows
      BY <2>2
    <2> QED BY <2>1, <2>3 DEF PlacesOK, Writing
  <1>6. Content
    <2>1. last = 0 /\ \A q \in Procs : pc[q] = "plan"
      BY DEF Init
    <2> QED BY <2>1 DEF Content, Writing
  <1> QED BY <1>1, <1>2, <1>4, <1>5, <1>6 DEF IInv

LEMMA PlanInv ==
  ASSUME IInv, NEW p \in Procs, Plan(p)
  PROVE  IInv'
  <1>1. Typed /\ PlacesOK(p) /\ pc[p] = "plan" /\ (\A q \in Procs : PlacesOK(q))
    BY DEF IInv, Plan
  <1>2. PICK d : /\ d \in IF Scans(p) THEN MetadataRead(table, AnyDef) ELSE {<<>>}
                 /\ def' = [def EXCEPT ![p] = d]
    BY DEF Plan
  <1>3. d \in Seq(Column)
    BY <1>1, <1>2, MetadataIsDefinition, EmptySeq DEF Typed
  <1>4. PICK place : /\ pc' = [pc EXCEPT ![p] = place]
                     /\ place \in {"open", "check", "scan", "failed"}
                     /\ place = "check" => stmt[p].op = "insert"
                     /\ place = "scan" => stmt[p].op = "select"
                     /\ place = "open" => stmt[p].op = "create"
    <2> DEFINE to == IF RecordSize(def'[p]) < 0 THEN "failed"
                     ELSE IF stmt[p].op = "create" THEN "open"
                     ELSE IF stmt[p].op = "insert" THEN "check" ELSE "scan"
    <2>1. stmt[p].op \in {"create", "insert", "select"}
      BY <1>1, StatementFacts DEF Typed
    <2>2. pc' = [pc EXCEPT ![p] = to]
      BY <2>1 DEF Plan, Goto
    <2>3. /\ to \in {"open", "check", "scan", "failed"}
          /\ to = "check" => stmt[p].op = "insert"
          /\ to = "scan" => stmt[p].op = "select"
          /\ to = "open" => stmt[p].op = "create"
      BY <2>1
    <2> HIDE DEF to
    <2> QED BY <2>2, <2>3
  <1>5. /\ stable' = [stable EXCEPT ![p] = TRUE]
        /\ UNCHANGED <<exists, table, stmt, target, buf, pos, read, out, history>>
    BY DEF Plan, file
  <1>6. Typed'
    BY <1>1, <1>2, <1>3, <1>4, <1>5 DEF Typed, Places, history
  <1>7. /\ pc'[p] = place /\ ~ Writing(p)'
        /\ \A q \in Procs : q # p => Own(q)' = Own(q)
        /\ \A q : q # p => pc'[q] = pc[q] /\ def'[q] = def[q]
    <2>1. pc'[p] = place
      BY <1>1, <1>4 DEF Typed
    <2> QED BY <1>2, <1>4, <1>5, <2>1 DEF Writing, Own, Typed
  <1>8. ASSUME NEW q \in Procs PROVE PlacesOK(q)'
    <2>1. CASE q # p
      BY <1>1, <1>5, <1>7, <2>1, PlacesKept
    <2>2. CASE q = p
      BY <1>1, <1>4, <1>5, <1>7, <2>2 DEF PlacesOK, Writing, TextInsert, InsertsItself
    <2> QED BY <2>1, <2>2
  <1>9. Content'
    <2>1. \A q : q # p => Own(q)' = Own(q)
      BY <1>5, <1>7 DEF Own
    <2> QED BY <1>1, <1>5, <1>7, <2>1, ContentKept DEF IInv
  <1> QED BY <1>5, <1>6, <1>8, <1>9 DEF IInv

LEMMA CheckInv ==
  ASSUME IInv, NEW p \in Procs, Check(p)
  PROVE  IInv'
  <1>1. Typed /\ PlacesOK(p) /\ pc[p] = "check" /\ (\A q \in Procs : PlacesOK(q))
    BY DEF IInv, Check
  <1>2. PICK d \in MetadataRead(table, AnyDef) :
               /\ target' = [target EXCEPT ![p] = d]
               /\ Goto(p, IF Accepted(QueryTypes(p), QuerySelect(p), d)
                          THEN "open" ELSE "failed")
    BY DEF Check
  <1>3. d \in Seq(Column)
    BY <1>1, MetadataIsDefinition DEF Typed
  <1>4. PICK place : /\ pc' = [pc EXCEPT ![p] = place]
                     /\ place \in {"open", "failed"}
    <2>1. CASE Accepted(QueryTypes(p), QuerySelect(p), d)
      <3>1. pc' = [pc EXCEPT ![p] = "open"]
        BY <1>2, <2>1 DEF Goto
      <3> QED BY <3>1
    <2>2. CASE ~ Accepted(QueryTypes(p), QuerySelect(p), d)
      <3>1. pc' = [pc EXCEPT ![p] = "failed"]
        BY <1>2, <2>2 DEF Goto
      <3> QED BY <3>1
    <2> QED BY <2>1, <2>2
  <1>5. UNCHANGED <<exists, table, stmt, def, buf, pos, read, out, history, stable>>
    BY DEF Check, file
  <1>6. Typed'
    BY <1>1, <1>2, <1>3, <1>4, <1>5 DEF Typed, Places, history
  <1>7. pc'[p] = place /\ target'[p] = d /\ ~ Writing(p)'
        /\ \A q : q # p => Own(q)' = Own(q)
    <2>1. pc'[p] = place /\ target'[p] = d
      BY <1>1, <1>2, <1>4 DEF Typed
    <2> QED BY <1>2, <1>4, <1>5, <2>1 DEF Writing, Own
  <1>8. ASSUME NEW q \in Procs PROVE PlacesOK(q)'
    <2>1. CASE q # p
      BY <1>1, <1>5, <1>7, <2>1, PlacesKept
    <2>2. CASE q = p
      BY <1>1, <1>4, <1>5, <1>7, <2>2 DEF PlacesOK, Writing, TextInsert, InsertsItself
    <2> QED BY <2>1, <2>2
  <1>9. Content'
    BY <1>1, <1>5, <1>7, ContentKept DEF IInv
  <1> QED BY <1>5, <1>6, <1>8, <1>9 DEF IInv

LEMMA FailInv ==
  ASSUME IInv, NEW p \in Procs, Fail(p)
  PROVE  IInv'
  <1>1. Typed /\ PlacesOK(p) /\ pc[p] \in {"plan", "check", "scan"}
        /\ (\A q \in Procs : PlacesOK(q))
    BY DEF IInv, Fail
  <1>2. /\ pc' = [pc EXCEPT ![p] = "failed"]
        /\ UNCHANGED <<exists, table, stmt, def, target, buf, pos, read, out, history, stable>>
    BY DEF Fail, Goto, file
  <1>3. Typed'
    BY <1>1, <1>2 DEF Typed, Places, history
  <1>4. pc'[p] = "failed" /\ ~ Writing(p)' /\ \A q : q # p => Own(q)' = Own(q)
    <2>1. pc'[p] = "failed"
      BY <1>1, <1>2 DEF Typed
    <2> QED BY <1>2, <2>1 DEF Writing, Own
  <1>5. ASSUME NEW q \in Procs PROVE PlacesOK(q)'
    <2>1. CASE q # p
      BY <1>1, <1>2, <1>4, <2>1, PlacesKept
    <2>2. CASE q = p
      BY <1>1, <1>2, <1>4, <2>2 DEF PlacesOK, Writing, TextInsert, InsertsItself
    <2> QED BY <2>1, <2>2
  <1>6. Content'
    BY <1>1, <1>2, <1>4, ContentKept DEF IInv
  <1> QED BY <1>2, <1>3, <1>5, <1>6 DEF IInv

\* Opening the target empties it: nothing of the former table is left, and
\* from here on this process is the one the file belongs to.
LEMMA OpensFileInv ==
  ASSUME IInv, NEW p \in Procs, pc[p] = "open", table' = <<>>,
         NEW d \in Seq(Column), target' = [target EXCEPT ![p] = d],
         NEW place, OpensFile(p, place),
         \/ place = "close" /\ stmt[p].op = "create"
         \/ place = "write" /\ stmt[p].op = "insert"
  PROVE  IInv'
  <1>1. Typed /\ PlacesOK(p) /\ (\A q \in Procs : PlacesOK(q))
    BY DEF IInv
  <1>2. /\ exists' = TRUE
        /\ buf' = [buf EXCEPT ![p] = Header(target'[p])]
        /\ pc' = [pc EXCEPT ![p] = place]
        /\ last' = p
        /\ overlapped' = (overlapped \/ \E q \in Procs : Writing(q))
        /\ stable' = [q \in Procs |-> FALSE]
        /\ UNCHANGED <<stmt, def, pos, read, out>>
    BY DEF OpensFile, Goto
  <1>3. target'[p] = d /\ Header(d) \in Seq(Unit)
    BY <1>1, HeaderFacts DEF Typed
  <1>4. buf' = [buf EXCEPT ![p] = Header(d)]
    BY <1>2, <1>3
  <1>5. Typed'
    <2>1. <<>> \in Seq(Unit) /\ place \in Places /\ p \in Procs \cup {0}
      BY EmptySeq DEF Places
    <2>2. overlapped' \in BOOLEAN
      <3>1. overlapped \in BOOLEAN
        BY <1>1 DEF Typed
      <3>2. (\E q \in Procs : Writing(q)) \in BOOLEAN
        OBVIOUS
      <3> QED BY <1>2, <3>1, <3>2
    <2> QED BY <1>1, <1>2, <1>3, <1>4, <2>1, <2>2 DEF Typed
  <1>6. pc'[p] = place /\ buf'[p] = Header(d) /\ \A q : q # p => Own(q)' = Own(q)
    <2>1. pc'[p] = place /\ buf'[p] = Header(d)
      BY <1>1, <1>2, <1>4 DEF Typed
    <2> QED BY <1>2, <1>4, <2>1 DEF Own
  <1>7. ASSUME NEW q \in Procs PROVE PlacesOK(q)'
    <2>1. CASE q # p
      BY <1>1, <1>2, <1>6, <2>1, PlacesKept
    <2>2. CASE q = p
      BY <1>1, <1>2, <1>3, <1>6, <2>2 DEF PlacesOK, Writing, TextInsert, InsertsItself
    <2> QED BY <2>1, <2>2
  <1>8. Content'
    <2>1. Progress(p)' = 0
      <3>1. read'[p] = 0
        BY <1>1, <1>2 DEF PlacesOK
      <3> QED BY <1>2, <1>6, <3>1 DEF Progress, RowsOf, TextInsert
    <2>2. WrittenSoFar(p)' = Header(d)
      <3>1. RowsUpTo(p, 0)' = <<>>
        <4>1. RowsUpTo(p, 0) = <<>>
          BY <1>1, RowsOneMore DEF Typed
        <4> QED BY <1>2, <4>1, TextStays
      <3>2. RowsUpTo(p, Progress(p))' = <<>>
        BY <2>1, <3>1 DEF RowsUpTo
      <3>3. Header(d) \o <<>> = Header(d)
        BY <1>3, ConcatEmptySeq
      <3> QED BY <1>3, <3>2, <3>3 DEF WrittenSoFar
    <2>3. table' \o buf'[p] = WrittenSoFar(p)'
      BY <1>3, <1>6, <2>2, ConcatEmptySeq
    <2>4. pos'[p] = Len(table')
      BY <1>1, <1>2, EmptySeq DEF PlacesOK
    <2>5. ASSUME ~ overlapped', NEW q \in Procs, Writing(q)' PROVE q = p
      <3>1. ~ Writing(q)
        BY <1>2, <2>5
      <3>2. CASE q # p
        BY <1>2, <1>6, <2>5, <3>1, <3>2, ProcKept
      <3> QED BY <3>2
    <2>6. pc'[p] \in {"write", "close"}
      BY <1>6
    <2>7. last' = p
      BY <1>2
    <2> QED BY <2>3, <2>4, <2>5, <2>6, <2>7 DEF Content, WrittenBy
  <1> QED BY <1>2, <1>5, <1>7, <1>8 DEF IInv

LEMMA CreateTableInv ==
  ASSUME IInv, NEW p \in Procs, CreateTable(p)
  PROVE  IInv'
  <1> DEFINE d == ConstructTDB(stmt[p].columns)
  <1>1. d \in Seq(Column)
    BY StatementFacts DEF IInv, Typed
  <1>2. /\ pc[p] = "open" /\ stmt[p].op = "create" /\ table' = <<>>
        /\ target' = [target EXCEPT ![p] = d] /\ OpensFile(p, "close")
    BY DEF CreateTable
  <1> HIDE DEF d
  <1> QED BY <1>1, <1>2, OpensFileInv

LEMMA OpenInv ==
  ASSUME IInv, NEW p \in Procs, Open(p)
  PROVE  IInv'
  <1>1. /\ pc[p] = "open" /\ stmt[p].op = "insert" /\ table' = <<>>
        /\ target' = target /\ OpensFile(p, "write")
    BY DEF Open
  <1>2. target[p] \in Seq(Column) /\ target' = [target EXCEPT ![p] = target[p]]
    BY <1>1 DEF IInv, Typed
  <1> QED BY <1>1, <1>2, OpensFileInv

\* A row goes to the end of what has been written, so that it stays rows from
\* the first on.
LEMMA WriteRowInv ==
  ASSUME IInv, NEW p \in Procs, WriteRow(p)
  PROVE  IInv'
  <1>1. Typed /\ PlacesOK(p) /\ pc[p] = "write" /\ (\A q \in Procs : PlacesOK(q))
        /\ TextInsert(p) /\ read[p] \in Nat /\ read[p] < stmt[p].rows /\ stmt[p].rows \in Nat
    <2>1. Typed /\ PlacesOK(p) /\ pc[p] = "write" /\ (\A q \in Procs : PlacesOK(q))
          /\ read[p] < stmt[p].rows /\ TextInsert(p)
      BY DEF IInv, WriteRow
    <2> QED BY <2>1, StatementFacts DEF Typed
  <1>2. PICK k \in Nat : k = read[p]
    BY <1>1
  <1> DEFINE row == RowWritten(p, k + 1)
  <1>3. row \in Seq(Unit)
    <2>1. k + 1 \in Nat
      OBVIOUS
    <2> QED BY <1>1, <2>1, RowIsUnits DEF Typed
  <1>4. /\ buf' = [buf EXCEPT ![p] = buf[p] \o row]
        /\ read' = [read EXCEPT ![p] = k + 1]
        /\ UNCHANGED <<exists, table, stmt, pc, def, target, pos, out, history, stable>>
    BY <1>2 DEF WriteRow, file
  <1> HIDE DEF row
  <1>5. buf[p] \in Seq(Unit) /\ buf[p] \o row \in Seq(Unit)
    BY <1>1, <1>3, ConcatProperties DEF Typed
  <1>6. Typed'
    <2>1. k + 1 \in Nat
      OBVIOUS
    <2> QED BY <1>1, <1>4, <1>5, <2>1 DEF Typed, history
  <1>7. read'[p] = k + 1 /\ buf'[p] = buf[p] \o row /\ \A q : q # p => Own(q)' = Own(q)
    <2>1. read'[p] = k + 1 /\ buf'[p] = buf[p] \o row
      BY <1>1, <1>4 DEF Typed
    <2> QED BY <1>4, <2>1 DEF Own
  <1>8. ASSUME NEW q \in Procs PROVE PlacesOK(q)'
    <2>1. CASE q # p
      BY <1>1, <1>4, <1>7, <2>1, PlacesKept
    <2>2. CASE q = p
      <3>1. k + 1 <= stmt[p].rows
        BY <1>1, <1>2
      <3> QED BY <1>1, <1>4, <1>7, <2>2, <3>1 DEF PlacesOK, Writing, TextInsert, InsertsItself
    <2> QED BY <2>1, <2>2
  <1>9. ASSUME WrittenBy(p) PROVE WrittenBy(p)'
    <2> DEFINE h == Header(target[p])
    <2>1. /\ table \in Seq(Unit) /\ h \in Seq(Unit) /\ RowsUpTo(p, k) \in Seq(Unit)
          /\ RowsUpTo(p, k + 1) = RowsUpTo(p, k) \o row
      BY <1>1, HeaderFacts, RowsOneMore DEF Typed, row
    <2>2. pos[p] = Len(table) /\ table \o buf[p] = h \o RowsUpTo(p, k)
      <3>1. Progress(p) = k
        BY <1>1, <1>2 DEF Progress
      <3>2. table \o buf[p] = WrittenSoFar(p) /\ pos[p] = Len(table)
        BY <1>1, <1>9 DEF WrittenBy, Writing
      <3> QED BY <3>1, <3>2 DEF WrittenSoFar
    <2>3. WrittenSoFar(p)' = h \o RowsUpTo(p, k + 1)
      <3>1. Progress(p)' = k + 1
        BY <1>1, <1>4, <1>7 DEF Progress, TextInsert
      <3>2. PICK m : m = k + 1
        OBVIOUS
      <3>3. RowsUpTo(p, m)' = RowsUpTo(p, m)
        BY <1>4, TextStays
      <3>4. RowsUpTo(p, Progress(p))' = RowsUpTo(p, m)
        BY <3>1, <3>2, <3>3 DEF RowsUpTo
      <3> QED BY <1>4, <3>2, <3>4 DEF WrittenSoFar
    <2> HIDE DEF h
    <2>4. (table \o buf[p]) \o row = table \o (buf[p] \o row)
      <3>1. table \in Seq(Unit) /\ buf[p] \in Seq(Unit)
        BY <1>5, <2>1
      <3>2. \A s, t \in Seq(Unit) : (s \o t) \o row = s \o (t \o row)
        BY <1>3, ConcatAssociative
      <3> QED BY <3>1, <3>2
    <2>5. (h \o RowsUpTo(p, k)) \o row = h \o (RowsUpTo(p, k) \o row)
      <3>1. h \in Seq(Unit) /\ RowsUpTo(p, k) \in Seq(Unit)
        BY <2>1
      <3>2. \A s, t \in Seq(Unit) : (s \o t) \o row = s \o (t \o row)
        BY <1>3, ConcatAssociative
      <3> QED BY <3>1, <3>2
    <2>6. table' \o buf'[p] = WrittenSoFar(p)'
      BY <1>4, <1>7, <2>1, <2>2, <2>3, <2>4, <2>5
    <2> QED BY <1>1, <1>4, <2>2, <2>6 DEF WrittenBy
  <1>10. Content'
    BY <1>1, <1>4, <1>7, <1>9, WriterContent DEF IInv, Writing
  <1> QED BY <1>1, <1>4, <1>6, <1>8, <1>10 DEF IInv

\* The statement has nothing more to write: all that it should write is in
\* the file or in the buffer.
LEMMA ToCloseInv ==
  ASSUME IInv, NEW p \in Procs, pc[p] = "write", pc' = [pc EXCEPT ![p] = "close"],
         TextInsert(p) => read[p] = stmt[p].rows,
         UNCHANGED <<exists, table, stmt, def, target, buf, pos, out, history, stable>>,
         NEW m \in Nat, read' = [read EXCEPT ![p] = m], TextInsert(p) => m = read[p]
  PROVE  IInv'
  <1>1. Typed /\ PlacesOK(p) /\ (\A q \in Procs : PlacesOK(q))
    BY DEF IInv
  <1>2. Typed'
    BY <1>1 DEF Typed, Places, history
  <1>3. pc'[p] = "close" /\ read'[p] = m /\ \A q : q # p => Own(q)' = Own(q)
    <2>1. pc'[p] = "close" /\ read'[p] = m
      BY <1>1 DEF Typed
    <2> QED BY <2>1 DEF Own
  <1>4. ASSUME NEW q \in Procs PROVE PlacesOK(q)'
    <2>1. CASE q # p
      BY <1>1, <1>3, <2>1, PlacesKept
    <2>2. CASE q = p
      BY <1>1, <1>3, <2>2 DEF PlacesOK, Writing, TextInsert, InsertsItself
    <2> QED BY <2>1, <2>2
  <1>5. ASSUME WrittenBy(p) PROVE WrittenBy(p)'
    <2>1. Progress(p) = RowsOf(p)
      BY DEF Progress, RowsOf
    <2>2. Progress(p)' = RowsOf(p)
      BY <1>3, TextStays DEF Progress
    <2>3. WrittenSoFar(p)' = WrittenSoFar(p)
      <3>1. PICK n : n = RowsOf(p)
        OBVIOUS
      <3>2. RowsUpTo(p, n)' = RowsUpTo(p, n)
        BY TextStays
      <3>3. RowsUpTo(p, Progress(p))' = RowsUpTo(p, Progress(p))
        BY <2>1, <2>2, <3>1, <3>2 DEF RowsUpTo
      <3> QED BY <3>3 DEF WrittenSoFar
    <2> QED BY <1>3, <1>5, <2>3 DEF WrittenBy, Writing
  <1>6. Content'
    <2>1. pc'[p] \in {"write", "close", "done", "killed"} /\ Writing(p)
      BY <1>3 DEF Writing
    <2> QED BY <1>3, <1>5, <2>1, WriterContent DEF IInv
  <1> QED BY <1>2, <1>4, <1>6 DEF IInv

LEMMA LastRowInv ==
  ASSUME IInv, NEW p \in Procs, LastRow(p)
  PROVE  IInv'
  <1>1. read[p] \in Nat /\ read' = [read EXCEPT ![p] = read[p]]
    BY DEF LastRow, IInv, Typed
  <1>2. /\ pc[p] = "write" /\ read[p] = stmt[p].rows
        /\ pc' = [pc EXCEPT ![p] = "close"]
        /\ UNCHANGED <<exists, table, stmt, def, target, buf, pos, out, history, stable>>
    BY DEF LastRow, Goto, file
  <1> QED BY <1>1, <1>2, ToCloseInv

LEMMA NoColumnsInv ==
  ASSUME IInv, NEW p \in Procs, NoColumns(p)
  PROVE  IInv'
  <1>1. read[p] \in Nat /\ read' = [read EXCEPT ![p] = read[p]]
    BY DEF NoColumns, IInv, Typed
  <1>2. /\ pc[p] = "write" /\ ~ TextInsert(p)
        /\ pc' = [pc EXCEPT ![p] = "close"]
        /\ UNCHANGED <<exists, table, stmt, def, target, buf, pos, out, history, stable>>
    BY DEF NoColumns, Goto, file, TextInsert, QuerySelect
  <1> QED BY <1>1, <1>2, ToCloseInv

LEMMA ReadBlockIs ==
  ASSUME NEW p, ReadBlock(p)
  PROVE  /\ pc[p] = "scan" \/ (pc[p] = "write" /\ stmt[p].from = "table")
         /\ RecordSize(def[p]) > 0
         /\ read' = [read EXCEPT ![p] = @ + Len(Block(p))]
         /\ stmt[p].op = "select" => buf' = buf
         /\ stmt[p].op # "select" => buf' = [buf EXCEPT ![p] = @ \o CopiedUnits(p)]
         /\ pc' = [pc EXCEPT ![p] = IF Len(Block(p)) = BufferSize(p) THEN pc[p]
                                    ELSE IF stmt[p].op = "select" THEN "done" ELSE "close"]
         /\ UNCHANGED <<exists, table, stmt, def, target, pos, history, stable>>
  BY DEF ReadBlock, Scanning, CopiedUnits, ReadRecords, Goto, file

LEMMA SelectsInv ==
  ASSUME IInv, NEW p \in Procs, ReadBlock(p), pc[p] = "scan"
  PROVE  IInv'
  <1>1. Typed /\ PlacesOK(p) /\ (\A q \in Procs : PlacesOK(q)) /\ stmt[p].op = "select"
    BY DEF IInv, PlacesOK
  <1>2. PICK m \in Nat : read' = [read EXCEPT ![p] = m]
    <2>1. Len(Block(p)) \in Nat /\ read[p] \in Nat
      BY <1>1, ReadBlockIs, BlockFacts DEF Typed
    <2>2. read[p] + Len(Block(p)) \in Nat
      BY <2>1
    <2> QED BY <2>2, ReadBlockIs
  <1>3. PICK place \in {"scan", "done"} : pc' = [pc EXCEPT ![p] = place]
    <2>1. CASE Len(Block(p)) = BufferSize(p)
      <3>1. pc' = [pc EXCEPT ![p] = "scan"]
        BY <2>1, ReadBlockIs
      <3> QED BY <3>1
    <2>2. CASE Len(Block(p)) # BufferSize(p)
      <3>1. pc' = [pc EXCEPT ![p] = "done"]
        BY <1>1, <2>2, ReadBlockIs
      <3> QED BY <3>1
    <2> QED BY <2>1, <2>2
  <1>4. UNCHANGED <<exists, table, stmt, def, target, buf, pos, history, stable>>
    BY <1>1, ReadBlockIs
  <1>5. Typed'
    BY <1>1, <1>2, <1>3, <1>4 DEF Typed, Places, history
  <1>6. pc'[p] = place /\ \A q : q # p => Own(q)' = Own(q)
    <2>1. pc'[p] = place
      BY <1>1, <1>3 DEF Typed
    <2> QED BY <1>2, <1>3, <1>4, <2>1 DEF Own
  <1>7. ASSUME NEW q \in Procs PROVE PlacesOK(q)'
    <2>1. CASE q # p
      BY <1>1, <1>4, <1>6, <2>1, PlacesKept
    <2>2. CASE q = p
      BY <1>1, <1>3, <1>4, <1>6, <2>2 DEF PlacesOK, Writing, TextInsert, InsertsItself
    <2> QED BY <2>1, <2>2
  <1>8. ~ Writing(p)'
    BY <1>3, <1>6 DEF Writing
  <1>9. Content'
    BY <1>4, <1>6, <1>8, ContentKept DEF IInv
  <1> QED BY <1>4, <1>5, <1>7, <1>9 DEF IInv

\* A statement that inserts the table into itself finds no record: the file
\* holds at most the header it writes, which is not longer than the one read.
LEMMA NothingToCopy ==
  ASSUME IInv, NEW p \in Procs, pc[p] = "write", InsertsItself(p), WrittenBy(p),
         HeaderKept(p), RecordSize(def[p]) > 0
  PROVE  Block(p) = <<>>
  <1>1. Typed /\ PlacesOK(p)
    BY DEF IInv
  <1>2. /\ table \in Seq(Unit) /\ buf[p] \in Seq(Unit) /\ target[p] \in Seq(Column)
        /\ def[p] \in Seq(Column) /\ MetadataSize(target[p]) <= MetadataSize(def[p])
    BY <1>1 DEF Typed, HeaderKept
  <1>3. table \o buf[p] = Header(target[p])
    <2>1. RowsUpTo(p, 0) = <<>>
      BY <1>1, RowsOneMore DEF Typed
    <2>2. Progress(p) = 0
      BY DEF Progress, RowsOf, TextInsert, InsertsItself
    <2>3. Header(target[p]) \o <<>> = Header(target[p])
      BY <1>2, HeaderFacts, ConcatEmptySeq
    <2> QED BY <2>1, <2>2, <2>3 DEF WrittenBy, Writing, WrittenSoFar
  <1>4. Len(table) + Len(buf[p]) = MetadataSize(target[p])
    BY <1>2, <1>3, HeaderFacts, ConcatProperties
  <1>5. Len(table) <= MetadataSize(def[p])
    <2>1. /\ Len(table) \in Nat /\ Len(buf[p]) \in Nat
          /\ MetadataSize(target[p]) \in Nat /\ MetadataSize(def[p]) \in Nat
      BY <1>2, LenProperties, HeaderSize
    <2> QED BY <1>2, <1>4, <2>1
  <1> QED BY <1>1, <1>5, BlockFacts

LEMMA CopiesInv ==
  ASSUME IInv, NEW p \in Procs, ReadBlock(p), pc[p] = "write"
  PROVE  IInv'
  <1>1. Typed /\ PlacesOK(p) /\ (\A q \in Procs : PlacesOK(q))
        /\ stmt[p].from = "table" /\ stmt[p].op = "insert" /\ RecordSize(def[p]) > 0
    BY ReadBlockIs DEF IInv, PlacesOK
  <1>2. PICK m \in Nat : read' = [read EXCEPT ![p] = m]
    <2>1. Len(Block(p)) \in Nat /\ read[p] \in Nat
      BY <1>1, ReadBlockIs, BlockFacts DEF Typed
    <2>2. read[p] + Len(Block(p)) \in Nat
      BY <2>1
    <2> QED BY <2>2, ReadBlockIs
  <1>3. PICK place \in {"write", "close"} :
              /\ pc' = [pc EXCEPT ![p] = place]
              /\ place = "write" => Len(Block(p)) = BufferSize(p)
    <2>1. CASE Len(Block(p)) = BufferSize(p)
      <3>1. pc' = [pc EXCEPT ![p] = "write"]
        BY <2>1, ReadBlockIs
      <3> QED BY <2>1, <3>1
    <2>2. CASE Len(Block(p)) # BufferSize(p)
      <3>1. pc' = [pc EXCEPT ![p] = "close"]
        BY <1>1, <2>2, ReadBlockIs
      <3>2. ~ ("close" = "write")
        OBVIOUS
      <3> QED BY <3>1, <3>2
    <2> QED BY <2>1, <2>2
  <1>4. /\ UNCHANGED <<exists, table, stmt, def, target, pos, history, stable>>
        /\ buf' = [buf EXCEPT ![p] = buf[p] \o CopiedUnits(p)]
    BY <1>1, ReadBlockIs
  <1>5. buf[p] \in Seq(Unit) /\ buf[p] \o CopiedUnits(p) \in Seq(Unit)
    BY <1>1, CopyFacts, ConcatProperties DEF Typed
  <1>6. Typed'
    <2> HIDE DEF CopiedUnits
    <2> QED BY <1>1, <1>2, <1>3, <1>4, <1>5 DEF Typed, Places, history
  <1>7. /\ pc'[p] = place /\ buf'[p] = buf[p] \o CopiedUnits(p)
        /\ \A q : q # p => Own(q)' = Own(q)
    <2>1. pc'[p] = place /\ buf'[p] = buf[p] \o CopiedUnits(p)
      BY <1>1, <1>3, <1>4 DEF Typed
    <2> QED BY <1>2, <1>3, <1>4, <2>1 DEF Own
  <1>8. ASSUME NEW q \in Procs PROVE PlacesOK(q)'
    <2>1. CASE q # p
      BY <1>1, <1>4, <1>7, <2>1, PlacesKept
    <2>2. CASE q = p
      BY <1>1, <1>3, <1>4, <1>7, <2>2 DEF PlacesOK, Writing, TextInsert, InsertsItself
    <2> QED BY <2>1, <2>2
  <1>9. ASSUME HeaderKept(p), WrittenBy(p) PROVE WrittenBy(p)'
    <2>1. Block(p) = <<>>
      BY <1>1, <1>9, NothingToCopy DEF InsertsItself
    <2>2. buf'[p] = buf[p]
      BY <1>1, <1>5, <1>7, <2>1, CopyFacts, ConcatEmptySeq
    <2>3. place = "close"
      <3>1. Len(Block(p)) = 0 /\ BufferSize(p) # 0
        BY <1>1, <2>1, BlockFacts, EmptySeq
      <3> QED BY <1>3, <3>1
    <2>4. WrittenSoFar(p)' = WrittenSoFar(p)
      <3>1. ~ TextInsert(p) /\ ~ TextInsert(p)'
        BY <1>1, <1>4 DEF TextInsert
      <3>2. Progress(p) = 0 /\ Progress(p)' = 0
        BY <3>1 DEF Progress, RowsOf
      <3>3. RowsUpTo(p, 0)' = RowsUpTo(p, 0)
        BY <1>4, TextStays
      <3>4. RowsUpTo(p, Progress(p))' = RowsUpTo(p, Progress(p))
        BY <3>2, <3>3 DEF RowsUpTo
      <3> QED BY <1>4, <3>4 DEF WrittenSoFar
    <2> QED BY <1>4, <1>7, <1>9, <2>2, <2>3, <2>4 DEF WrittenBy, Writing
  <1>10. Content'
    BY <1>4, <1>7, <1>9, WriterContent DEF IInv, Writing
  <1> QED BY <1>4, <1>6, <1>8, <1>10 DEF IInv

LEMMA ReadBlockInv ==
  ASSUME IInv, NEW p \in Procs, ReadBlock(p)
  PROVE  IInv'
  <1>1. pc[p] = "scan" \/ pc[p] = "write"
    BY ReadBlockIs
  <1> QED BY <1>1, SelectsInv, CopiesInv

\* What the C library writes out moves from the buffer to the end of the file.
LEMMA FlushInv ==
  ASSUME IInv, NEW p \in Procs, Flush(p)
  PROVE  IInv'
  <1>1. Typed /\ PlacesOK(p) /\ (\A q \in Procs : PlacesOK(q)) /\ Writing(p) /\ exists
    BY DEF IInv, Flush, PlacesOK
  <1>2. PICK n \in DOMAIN buf[p] :
          /\ table' = Patched(table, pos[p], SubSeq(buf[p], 1, n))
          /\ buf' = [buf EXCEPT ![p] = SubSeq(@, n + 1, Len(@))]
          /\ pos' = [pos EXCEPT ![p] = @ + n]
    BY DEF Flush
  <1>3. /\ stable' = [q \in Procs |-> FALSE]
        /\ UNCHANGED <<exists, stmt, pc, def, target, read, history>>
    BY DEF Flush
  <1>4. table \in Seq(Unit) /\ buf[p] \in Seq(Unit) /\ pos[p] \in Nat
    BY <1>1 DEF Typed
  <1>5. n \in Nat \ {0} /\ Len(buf[p]) \in Nat /\ n <= Len(buf[p])
    <2>1. Len(buf[p]) \in Nat /\ DOMAIN buf[p] = 1 .. Len(buf[p])
      BY <1>4, LenProperties
    <2> QED BY <2>1
  <1> DEFINE first == SubSeq(buf[p], 1, n)
             rest == SubSeq(buf[p], n + 1, Len(buf[p]))
  <1>6. /\ first \in Seq(Unit) /\ Len(first) = n /\ rest \in Seq(Unit)
        /\ buf[p] = first \o rest
    <2>1. first \in Seq(Unit) /\ Len(first) = n
      BY <1>4, <1>5, PieceInSeq
    <2>2. rest \in Seq(Unit)
      BY <1>4, <1>5, PieceInSeq
    <2>3. SubSeq(buf[p], 1, n) \o SubSeq(buf[p], n + 1, Len(buf[p])) = SubSeq(buf[p], 1, Len(buf[p]))
      <3>1. /\ 1 \in 1 .. Len(buf[p]) + 1 /\ n \in 1 - 1 .. Len(buf[p])
            /\ Len(buf[p]) \in n .. Len(buf[p])
        BY <1>5
      <3> QED BY <1>4, <3>1, ConcatAdjacentSubSeq
    <2>4. SubSeq(buf[p], 1, Len(buf[p])) = buf[p]
      BY <1>4, SubSeqFull
    <2> QED BY <2>1, <2>2, <2>3, <2>4
  <1>7. /\ table' = Patched(table, pos[p], first)
        /\ buf' = [buf EXCEPT ![p] = rest]
        /\ pos' = [pos EXCEPT ![p] = pos[p] + n]
    BY <1>2
  <1> HIDE DEF first, rest
  <1>8. /\ table' \in Seq(Unit)
        /\ pos[p] = Len(table) => table' = table \o first
    BY <1>4, <1>6, <1>7, PatchedFacts
  <1>9. Typed'
    <2>1. pos[p] + n \in Nat
      BY <1>4, <1>5
    <2> QED BY <1>1, <1>3, <1>6, <1>7, <1>8, <2>1 DEF Typed, history
  <1>10. buf'[p] = rest /\ pos'[p] = pos[p] + n /\ \A q : q # p => Own(q)' = Own(q)
    <2>1. buf'[p] = rest /\ pos'[p] = pos[p] + n
      BY <1>1, <1>7 DEF Typed
    <2> QED BY <1>3, <1>7, <2>1 DEF Own
  <1>11. ASSUME NEW q \in Procs PROVE PlacesOK(q)'
    <2>1. CASE q # p
      BY <1>1, <1>3, <1>10, <2>1, PlacesKept
    <2>2. CASE q = p
      BY <1>1, <1>3, <1>10, <2>2 DEF PlacesOK, Writing, TextInsert, InsertsItself
    <2> QED BY <2>1, <2>2
  <1>12. ASSUME WrittenBy(p) PROVE WrittenBy(p)'
    <2>1. pos[p] = Len(table) /\ table \o buf[p] = WrittenSoFar(p)
      BY <1>1, <1>12 DEF WrittenBy
    <2>2. table' = table \o first /\ Len(table') = Len(table) + n
      <3>1. table' = table \o first
        BY <1>8, <2>1
      <3> QED BY <1>4, <1>6, <3>1, ConcatProperties
    <2>3. (table \o first) \o rest = table \o (first \o rest)
      <3>1. rest \in Seq(Unit)
        BY <1>6
      <3>2. \A s, t \in Seq(Unit) : (s \o t) \o rest = s \o (t \o rest)
        BY <3>1, ConcatAssociative
      <3> QED BY <1>4, <1>6, <3>2
    <2>4. table' \o buf'[p] = WrittenSoFar(p)
      BY <1>6, <1>10, <2>1, <2>2, <2>3
    <2>5. WrittenSoFar(p)' = WrittenSoFar(p)
      <3>1. Progress(p)' = Progress(p)
        BY <1>3, TextStays DEF Progress
      <3>2. PICK k : k = Progress(p)
        OBVIOUS
      <3>3. RowsUpTo(p, k)' = RowsUpTo(p, k)
        BY <1>3, TextStays
      <3>4. RowsUpTo(p, Progress(p))' = RowsUpTo(p, Progress(p))
        BY <3>1, <3>2, <3>3 DEF RowsUpTo
      <3> QED BY <1>3, <3>4 DEF WrittenSoFar
    <2> QED BY <1>1, <1>3, <1>10, <2>1, <2>2, <2>4, <2>5 DEF WrittenBy, Writing
  <1>13. Content'
    <2>1. pc'[p] \in {"write", "close", "done", "killed"}
      BY <1>1, <1>3 DEF Writing
    <2> QED BY <1>1, <1>3, <1>10, <1>12, <2>1, WriterContent DEF IInv
  <1> QED BY <1>1, <1>3, <1>9, <1>11, <1>13 DEF IInv

LEMMA WholeStays ==
  ASSUME NEW p, stmt' = stmt, target'[p] = target[p]
  PROVE  Whole(p)' = Whole(p)
  <1>1. PICK n : n = RowsOf(p)
    OBVIOUS
  <1>2. RowsUpTo(p, n)' = RowsUpTo(p, n) /\ n = RowsOf(p)'
    BY <1>1, TextStays
  <1>3. Whole(p) = Header(target[p]) \o RowsUpTo(p, n)
    BY <1>1 DEF Whole, RowsUpTo
  <1>4. Whole(p)' = (Header(target[p]) \o RowsUpTo(p, n))'
    BY <1>2 DEF Whole, RowsUpTo
  <1> QED BY <1>2, <1>3, <1>4

\* The statement is over when the buffer is empty: then all is in the file.
LEMMA CloseInv ==
  ASSUME IInv, NEW p \in Procs, Close(p)
  PROVE  IInv'
  <1>1. Typed /\ PlacesOK(p) /\ pc[p] = "close" /\ buf[p] = <<>>
        /\ (\A q \in Procs : PlacesOK(q))
    BY DEF IInv, Close
  <1>2. /\ pc' = [pc EXCEPT ![p] = "done"]
        /\ UNCHANGED <<exists, table, stmt, def, target, buf, pos, read, out, history, stable>>
    BY DEF Close, Goto, file
  <1>3. Typed'
    BY <1>1, <1>2 DEF Typed, Places, history
  <1>4. pc'[p] = "done" /\ \A q : q # p => Own(q)' = Own(q)
    <2>1. pc'[p] = "done"
      BY <1>1, <1>2 DEF Typed
    <2> QED BY <1>2, <2>1 DEF Own
  <1>5. ASSUME NEW q \in Procs PROVE PlacesOK(q)'
    <2>1. CASE q # p
      BY <1>1, <1>2, <1>4, <2>1, PlacesKept
    <2>2. CASE q = p
      BY <1>1, <1>2, <1>4, <2>2 DEF PlacesOK, Writing, TextInsert, InsertsItself
    <2> QED BY <2>1, <2>2
  <1>6. ASSUME WrittenBy(p) PROVE WrittenBy(p)'
    <2>1. table \o buf[p] = Whole(p)
      BY <1>1, <1>6, WrittenIsPrefix DEF WrittenBy, Writing
    <2>2. table = Whole(p)
      BY <1>1, <2>1, ConcatEmptySeq DEF Typed
    <2> QED BY <1>2, <1>4, <2>2, WholeStays DEF WrittenBy, Writing
  <1>7. Content'
    BY <1>1, <1>2, <1>4, <1>6, WriterContent DEF IInv, Writing
  <1> QED BY <1>2, <1>3, <1>5, <1>7 DEF IInv

\* What was buffered is lost; what has reached the file is the first part.
LEMMA DiesInv ==
  ASSUME IInv, NEW p \in Procs, ~ Ended(p), Dies(p)
  PROVE  IInv'
  <1>1. Typed /\ PlacesOK(p) /\ ~ Ended(p) /\ (\A q \in Procs : PlacesOK(q))
    BY DEF IInv
  <1>2. /\ pc' = [pc EXCEPT ![p] = "killed"]
        /\ buf' = [buf EXCEPT ![p] = <<>>]
        /\ UNCHANGED <<exists, table, stmt, def, target, pos, read, out, history, stable>>
    BY DEF Dies, Goto, file
  <1>3. Typed'
    BY <1>1, <1>2, EmptySeq DEF Typed, Places, history
  <1>4. pc'[p] = "killed" /\ buf'[p] = <<>> /\ \A q : q # p => Own(q)' = Own(q)
    <2>1. pc'[p] = "killed" /\ buf'[p] = <<>>
      BY <1>1, <1>2 DEF Typed
    <2> QED BY <1>2, <2>1 DEF Own
  <1>5. ASSUME NEW q \in Procs PROVE PlacesOK(q)'
    <2>1. CASE q # p
      BY <1>1, <1>2, <1>4, <2>1, PlacesKept
    <2>2. CASE q = p
      BY <1>1, <1>2, <1>4, <2>2 DEF PlacesOK, Writing, TextInsert, InsertsItself
    <2> QED BY <2>1, <2>2
  <1>6. CASE Writing(p)
    <2>1. ASSUME WrittenBy(p) PROVE WrittenBy(p)'
      <3>1. table \in Seq(Unit) /\ buf[p] \in Seq(Unit) /\ table \o buf[p] = WrittenSoFar(p)
        BY <1>1, <1>6, <2>1 DEF Typed, WrittenBy
      <3>2. PICK u \in Seq(Unit) : Whole(p) = (table \o buf[p]) \o u
        <4>1. Begins(WrittenSoFar(p), Whole(p))
          BY <1>1, WrittenIsPrefix
        <4> QED BY <3>1, <4>1 DEF Begins
      <3>3. buf[p] \o u \in Seq(Unit) /\ (table \o buf[p]) \o u = table \o (buf[p] \o u)
        <4>1. \A s, t \in Seq(Unit) : t \o u \in Seq(Unit) /\ (s \o t) \o u = s \o (t \o u)
          <5>1. ASSUME NEW s \in Seq(Unit), NEW t \in Seq(Unit)
                PROVE  t \o u \in Seq(Unit) /\ (s \o t) \o u = s \o (t \o u)
            <6>1. t \o u \in Seq(Unit)
              BY <5>1, <3>2, ConcatProperties
            <6>2. (s \o t) \o u = s \o (t \o u)
              BY <5>1, <3>2, ConcatAssociative
            <6> QED BY <6>1, <6>2
          <5> QED BY <5>1
        <4>2. table \in Seq(Unit) /\ buf[p] \in Seq(Unit)
          BY <3>1
        <4> QED BY <4>1, <4>2
      <3>4. IsPrefix(table, Whole(p))
        BY <3>1, <3>2, <3>3, PrefixOfMore
      <3> QED BY <1>2, <1>4, <3>4, WholeStays DEF WrittenBy, Writing
    <2> QED BY <1>2, <1>3, <1>4, <1>5, <1>6, <2>1, WriterContent DEF IInv
  <1>7. CASE ~ Writing(p)
    <2>1. pc[p] \notin {"write", "close", "done", "killed"} /\ ~ Writing(p)'
      BY <1>1, <1>4, <1>7 DEF Writing, Ended
    <2>2. Content'
      BY <1>2, <1>4, <2>1, ContentKept DEF IInv
    <2> QED BY <1>2, <1>3, <1>5, <2>2 DEF IInv
  <1> QED BY <1>6, <1>7

LEMMA DivideByZeroInv ==
  ASSUME IInv, NEW p \in Procs, DivideByZero(p)
  PROVE  IInv'
  <1>1. ~ Ended(p) /\ Dies(p)
    BY DEF DivideByZero, Scanning, Ended
  <1> QED BY <1>1, DiesInv

LEMMA StutterInv ==
  ASSUME IInv, UNCHANGED vars
  PROVE  IInv'
  <1>1. /\ UNCHANGED <<exists, table, stmt, pc, def, target, buf, pos, read, history, stable>>
        /\ last' = last /\ overlapped' = overlapped
        /\ Typed /\ (\A q \in Procs : PlacesOK(q)) /\ Content
    BY DEF vars, file, history, IInv
  <1>2. Typed'
    BY <1>1 DEF Typed
  <1>3. \A q : Own(q)' = Own(q)
    BY <1>1 DEF Own
  <1>4. ASSUME NEW q \in Procs PROVE PlacesOK(q)'
    BY <1>1, <1>3, PlacesKept
  <1>5. Content'
    <2>1. PICK l : l = last
      OBVIOUS
    <2>2. /\ Whole(l)' = Whole(l) /\ WrittenSoFar(l)' = WrittenSoFar(l)
          /\ Writing(l)' = Writing(l) /\ HeaderKept(l)' = HeaderKept(l)
          /\ pc'[l] = pc[l] /\ buf'[l] = buf[l] /\ pos'[l] = pos[l]
      BY <1>1, <1>3, ProcKept
    <2>3. WrittenBy(l) => WrittenBy(l)'
      BY <1>1, <2>2 DEF WrittenBy
    <2>4. \A q : Writing(q)' = Writing(q)
      BY <1>1 DEF Writing
    <2>5. HeaderKept(last)' = HeaderKept(last) /\ pc'[last'] = pc[last]
      BY <1>1, <2>1, <2>2 DEF HeaderKept, InsertsItself
    <2> QED BY <1>1, <2>1, <2>3, <2>4, <2>5 DEF Content
  <1> QED BY <1>1, <1>2, <1>4, <1>5 DEF IInv

LEMMA NextInv == IInv /\ [Next]_vars => IInv'
  <1> SUFFICES ASSUME IInv, [Next]_vars PROVE IInv'
    OBVIOUS
  <1>1. ASSUME NEW p \in Procs, Step(p) PROVE IInv'
    <2>1. CASE Plan(p) BY <2>1, PlanInv
    <2>2. CASE Check(p) BY <2>2, CheckInv
    <2>3. CASE Fail(p) BY <2>3, FailInv
    <2>4. CASE CreateTable(p) BY <2>4, CreateTableInv
    <2>5. CASE Open(p) BY <2>5, OpenInv
    <2>6. CASE WriteRow(p) BY <2>6, WriteRowInv
    <2>7. CASE LastRow(p) BY <2>7, LastRowInv
    <2>8. CASE ReadBlock(p) BY <2>8, ReadBlockInv
    <2>9. CASE NoColumns(p) BY <2>9, NoColumnsInv
    <2>10. CASE Flush(p) BY <2>10, FlushInv
    <2>11. CASE Close(p) BY <2>11, CloseInv
    <2>12. CASE DivideByZero(p) BY <2>12, DivideByZeroInv
    <2> QED BY <1>1, <2>1, <2>2, <2>3, <2>4, <2>5, <2>6, <2>7, <2>8, <2>9, <2>10, <2>11, <2>12
            DEF Step
  <1>2. ASSUME NEW p \in Procs, Kill(p) PROVE IInv'
    BY <1>2, DiesInv DEF Kill
  <1>3. CASE UNCHANGED vars
    BY <1>3, StutterInv
  <1> QED BY <1>1, <1>2, <1>3 DEF Next, AllEnded

LEMMA Invariant == Spec => []IInv
  BY InitInv, NextInv, PTL DEF Spec
----------------------------------------------------------------------------
\* Whatever the processes are asked to do, each is at a place its statement
\* leads to and holds unwritten units only while it writes.
THEOREM TypeCorrect == Spec => []TypeOK
  <1>1. ASSUME IInv PROVE TypeOK
    <2>1. Typed /\ (exists \/ table = <<>>)
      BY <1>1 DEF IInv
    <2>2. \A p \in Procs : PlacesOK(p)
      BY <1>1 DEF IInv
    <2> QED BY <2>1, <2>2 DEF TypeOK, Typed, PlacesOK
  <1> QED BY <1>1, Invariant, PTL

\* Statements that do not write at the same time, in any number and order,
\* flushed in pieces of any size and killed anywhere, leave in the file a
\* header and first rows of the last of them, and all of it once it is done;
\* also when the table is inserted into itself, under a header that is not
\* longer than the one its scan was planned with.
THEOREM ContentOfLastStatement == Spec => []ContentOfLast
  <1>1. ASSUME IInv PROVE ContentOfLast
    <2> SUFFICES ASSUME last # 0, ~ overlapped, HeaderKept(last)
                 PROVE  /\ IsPrefix(table \o buf[last], Whole(last))
                        /\ pc[last] = "done" => table = Whole(last)
      BY DEF ContentOfLast
    <2>1. /\ last \in Procs /\ Typed /\ PlacesOK(last) /\ WrittenBy(last)
          /\ pc[last] \in {"write", "close", "done", "killed"}
      BY <1>1 DEF IInv, Typed, Content
    <2>2. table \in Seq(Unit) /\ buf[last] \in Seq(Unit) /\ WrittenSoFar(last) \in Seq(Unit)
          /\ Begins(WrittenSoFar(last), Whole(last))
      <3>1. table \in Seq(Unit) /\ buf[last] \in Seq(Unit)
        BY <2>1 DEF Typed
      <3> QED BY <2>1, <3>1, WrittenIsPrefix
    <2>3. CASE Writing(last)
      <3>1. IsPrefix(WrittenSoFar(last), Whole(last))
        BY <2>2, PrefixOfMore DEF Begins
      <3>2. table \o buf[last] = WrittenSoFar(last)
        BY <2>1, <2>3 DEF WrittenBy
      <3> QED BY <2>3, <3>1, <3>2 DEF Writing
    <2>4. CASE ~ Writing(last)
      <3>1. table \o buf[last] = table
        BY <2>1, <2>2, <2>4, ConcatEmptySeq DEF PlacesOK
      <3>2. IsPrefix(table, table)
        <4>1. table \o <<>> = table /\ <<>> \in Seq(Unit)
          BY <2>2, ConcatEmptySeq, EmptySeq
        <4>2. IsPrefix(table, table \o <<>>)
          BY <2>2, <4>1, PrefixOfMore
        <4> QED BY <4>1, <4>2
      <3> QED BY <2>1, <2>4, <3>1, <3>2 DEF WrittenBy, Writing
    <2> QED BY <2>3, <2>4
  <1> QED BY <1>1, Invariant, PTL
----------------------------------------------------------------------------
(***************************************************************************)
(* The rows come back: what a SELECT returns of the file.                  *)
(***************************************************************************)
\* The records that p has returned are the first m of the file.
HasRead(p, m) ==
    LET data == Data(table, def[p])
        size == RecordSize(def[p])
    IN  /\ m \in 0 .. (Len(data) \div size)
        /\ Len(out[p]) = m
        /\ {out[p][n] : n \in 1 .. m} = {Piece(data, size, i) : i \in 1 .. m}

\* The scan is at the beginning of a record.
Aligned(p) == \E m \in 0 .. read[p] : read[p] = m * RecordSize(def[p])

\* A SELECT of a table that has not changed has read it by its own header,
\* from the first record on.
Steady(p) ==
    LET size == RecordSize(def[p]) IN
    stmt[p].op = "select" /\ stable[p] /\ HasMetadata(table) =>
        /\ pc[p] \in {"scan", "done"} => def[p] = Metadata(table)
        /\ pc[p] = "scan" /\ size > 0 =>
              \A m \in 0 .. read[p] : read[p] = m * size => HasRead(p, m)
        /\ pc[p] = "done" =>
              size > 0 /\ HasRead(p, Len(Data(table, def[p])) \div size)

ScanOK(p) ==
    /\ pc[p] = "plan" \/ stmt[p].op # "select" => out[p] = <<>>
    /\ pc[p] = "scan" => Aligned(p)
    /\ Steady(p)

\* The definition of the target is set once.
TargetOK(p) ==
    /\ \/ pc[p] \in {"plan", "check"}
       \/ pc[p] = "open" /\ stmt[p].op = "create"
       => target[p] = <<>>
    /\ TextInsert(p) /\ (pc[p] = "open" \/ p = last) => target[p] # <<>>

\* Until somebody opens the file to write, it is what it was.
Untouched ==
    last = 0 =>
        /\ ~ overlapped
        /\ \A p \in Procs : stable[p] /\ ~ Writing(p)
        /\ \E t \in InitialTables : table = t.content

RInv ==
    /\ out \in [Procs -> Seq(Seq(Unit))]
    /\ \A p \in Procs : ScanOK(p) /\ TargetOK(p)
    /\ Untouched

RowNo(rec) == rec[1][3]

\* The records that p has returned are rows, with the numbers of the places
\* where they were in the file, so that no row can come twice.
Seen(p) ==
    Uniform(def[p]) /\ ~ overlapped =>
        /\ \A n \in DOMAIN out[p] :
              /\ IsRow(out[p][n], def[p])
              /\ RowNo(out[p][n]) \in Nat
              /\ RowNo(out[p][n]) * RecordSize(def[p]) <= read[p]
        /\ \A m, n \in DOMAIN out[p] : RowNo(out[p][m]) = RowNo(out[p][n]) => m = n

AllSeen == \A p \in Procs : Seen(p)
----------------------------------------------------------------------------
\* The units of row r of process q.
RowUnits(q, r) == {"row"} \X {q} \X {r} \X Nat \X Nat

LEMMA RowUnitFacts ==
  ASSUME NEW q, NEW r, NEW u \in RowUnits(q, r)
  PROVE  u[1] = "row" /\ u[2] = q /\ u[3] = r
         /\ (q \in Procs \cup {0} /\ r \in Nat => u \in Unit)
  <1>1. u[1] = "row" /\ u[2] = q /\ u[3] = r /\ u[4] \in Nat /\ u[5] \in Nat
        /\ u = <<"row", q, r, u[4], u[5]>>
    BY DEF RowUnits
  <1>2. ASSUME q \in Procs \cup {0}, r \in Nat PROVE u \in Unit
    <2>1. u \in {"row"} \X (Procs \cup {0}) \X Nat \X Nat \X Nat
      BY <1>1, <1>2
    <2> QED BY <2>1 DEF Unit
  <1> QED BY <1>1, <1>2

\* A row in a table is as long as a record, and each of its units says whose
\* row it is.
LEMMA RowOfTableFacts ==
  ASSUME NEW d \in Seq(Column), Sized(d), NEW q, NEW r
  PROVE  /\ RowOfTable(d, q, r) \in Seq(RowUnits(q, r))
         /\ Len(RowOfTable(d, q, r)) = RecordSize(d)
  <1> DEFINE s == [c \in DOMAIN d |-> [n \in 1 .. d[c].len |-> <<"row", q, r, c, n>>]]
  <1>1. DOMAIN d = 1 .. Len(d) /\ Len(d) \in Nat /\ \A c \in 1 .. Len(d) : d[c].len \in Nat
    <2>1. DOMAIN d = 1 .. Len(d) /\ Len(d) \in Nat /\ \A c \in 1 .. Len(d) : d[c].len \in Int
      BY LengthsInSeq
    <2> QED BY <2>1 DEF Sized
  <1>2. ASSUME NEW c \in 1 .. Len(d)
        PROVE  s[c] \in Seq(RowUnits(q, r)) /\ Len(s[c]) = d[c].len
    <2>1. s[c] = [n \in 1 .. d[c].len |-> <<"row", q, r, c, n>>]
      BY <1>1
    <2>2. \A n \in 1 .. d[c].len : <<"row", q, r, c, n>> \in RowUnits(q, r)
      BY <1>1 DEF RowUnits
    <2>3. d[c].len \in Nat
      BY <1>1
    <2>4. PICK k : k = d[c].len
      OBVIOUS
    <2>5. k \in Nat /\ \A n \in 1 .. k : <<"row", q, r, c, n>> \in RowUnits(q, r)
      BY <2>2, <2>3, <2>4
    <2>6. [n \in 1 .. k |-> <<"row", q, r, c, n>>] \in [1 .. k -> RowUnits(q, r)]
      BY ONLY <2>5
    <2>7. PICK row : row = [n \in 1 .. k |-> <<"row", q, r, c, n>>]
      OBVIOUS
    <2>8. row \in Seq(RowUnits(q, r)) /\ Len(row) = k
      BY ONLY <2>5, <2>6, <2>7
    <2> QED BY <2>1, <2>4, <2>7, <2>8
  <1>3. s \in Seq(Seq(RowUnits(q, r))) /\ Len(s) = Len(d)
    <2>1. DOMAIN s = 1 .. Len(d) /\ s = [c \in 1 .. Len(d) |-> s[c]]
      BY <1>1
    <2> HIDE DEF s
    <2> QED BY <1>1, <1>2, <2>1
  <1> HIDE DEF s
  <1>4. FlattenSeq(s) \in Seq(RowUnits(q, r))
    BY <1>3, FlattenInSeq
  <1>5. Len(FlattenSeq(s)) = RecordSize(d)
    BY <1>2, <1>3, FlattenLength
  <1> QED BY <1>4, <1>5 DEF RowOfTable, s

\* So a record that is a row says which.
LEMMA RowIsNumbered ==
  ASSUME NEW d \in Seq(Column), Sized(d), RecordSize(d) > 0, NEW q, NEW r
  PROVE  IsRow(RowOfTable(d, q, r), d) /\ RowNo(RowOfTable(d, q, r)) = r
  <1>1. PICK rec : rec = RowOfTable(d, q, r)
    OBVIOUS
  <1>2. rec \in Seq(RowUnits(q, r)) /\ Len(rec) = RecordSize(d) /\ RecordSize(d) \in Nat
    BY <1>1, RowOfTableFacts, LengthsAreInt
  <1>3. rec[1] \in RowUnits(q, r)
    <2>1. 1 \in 1 .. Len(rec)
      BY <1>2
    <2> QED BY <1>2, <2>1, ElementOfSeq
  <1>4. rec[1][1] = "row" /\ rec[1][2] = q /\ rec[1][3] = r
    BY <1>3, RowUnitFacts
  <1> QED BY <1>1, <1>4 DEF IsRow, RowNo

RowsOfTable(d, q, k) == FlattenSeq([r \in 1 .. k |-> RowOfTable(d, q, r)])

LEMMA RowsOfTableFacts ==
  ASSUME NEW d \in Seq(Column), Sized(d), NEW q \in Procs \cup {0}, NEW k \in Nat
  PROVE  /\ RowsOfTable(d, q, k) \in Seq(Unit)
         /\ Len(RowsOfTable(d, q, k)) = k * RecordSize(d)
         /\ \A r \in 1 .. k : /\ RowOfTable(d, q, r) \in Seq(Unit)
                              /\ Piece(RowsOfTable(d, q, k), RecordSize(d), r) = RowOfTable(d, q, r)
  <1> DEFINE s == [r \in 1 .. k |-> RowOfTable(d, q, r)]
  <1>1. ASSUME NEW r \in 1 .. k
        PROVE  RowOfTable(d, q, r) \in Seq(Unit) /\ Len(RowOfTable(d, q, r)) = RecordSize(d)
    <2>1. PICK row : row = RowOfTable(d, q, r)
      OBVIOUS
    <2>2. row \in Seq(RowUnits(q, r)) /\ Len(row) = RecordSize(d)
      BY <2>1, RowOfTableFacts
    <2>3. \A u \in RowUnits(q, r) : u \in Unit
      BY RowUnitFacts
    <2>4. row \in Seq(Unit)
      BY <2>2, <2>3
    <2> QED BY <2>1, <2>2, <2>4
  <1>2. s \in Seq(Seq(Unit)) /\ Len(s) = k /\ \A r \in 1 .. k : s[r] = RowOfTable(d, q, r)
    BY <1>1
  <1> HIDE DEF s
  <1>3. RecordSize(d) \in Nat /\ \A r \in 1 .. Len(s) : Len(s[r]) = RecordSize(d)
    BY <1>1, <1>2, LengthsAreInt
  <1>4. /\ FlattenSeq(s) \in Seq(Unit) /\ Len(FlattenSeq(s)) = Len(s) * RecordSize(d)
        /\ \A r \in 1 .. Len(s) : Piece(FlattenSeq(s), RecordSize(d), r) = s[r]
    BY <1>2, <1>3, RowsAreLaid
  <1>5. RowsOfTable(d, q, k) = FlattenSeq(s)
    BY DEF RowsOfTable, s
  <1> QED BY <1>1, <1>2, <1>4, <1>5

\* A file of rows that is cut off anywhere still has its records in place.
LEMMA RecordIsRow ==
  ASSUME NEW d \in Seq(Column), Sized(d), RecordSize(d) > 0,
         NEW q \in Procs \cup {0}, NEW k \in Nat,
         NEW data \in Seq(Unit), Begins(data, RowsOfTable(d, q, k)),
         NEW i \in Nat \ {0}, i * RecordSize(d) <= Len(data)
  PROVE  Piece(data, RecordSize(d), i) = RowOfTable(d, q, i)
  <1>1. PICK v \in Seq(Unit) : RowsOfTable(d, q, k) = data \o v
    BY DEF Begins
  <1>2. PICK size : size = RecordSize(d)
    OBVIOUS
  <1>3. size \in Nat \ {0} /\ i * size \in Nat /\ k * size \in Nat
        /\ (k < i => k * size + size <= i * size)
    <2>1. RecordSize(d) \in Nat
      BY LengthsAreNat
    <2>2. size \in Nat \ {0}
      BY <1>2, <2>1
    <2> QED BY ONLY <2>2, i \in Nat \ {0}, k \in Nat, Products
  <1>4. Len(data) <= k * size
    <2>1. Len(data \o v) = Len(data) + Len(v) /\ Len(data) \in Nat /\ Len(v) \in Nat
      BY ConcatProperties, LenProperties
    <2>2. Len(data \o v) = k * size
      BY <1>1, <1>2, RowsOfTableFacts
    <2> QED BY <2>1, <2>2
  <1>5. i \in 1 .. k
    <2>1. PICK x : x = i * size
      OBVIOUS
    <2>2. PICK y : y = k * size
      OBVIOUS
    <2>3. x <= Len(data) /\ Len(data) <= y /\ Len(data) \in Nat /\ x \in Nat /\ y \in Nat
          /\ (k < i => y + size <= x)
      <3>1. Len(data) \in Nat
        BY LenProperties
      <3>2. x \in Nat /\ y \in Nat /\ (k < i => y + size <= x)
        BY <1>3, <2>1, <2>2
      <3>3. x <= Len(data)
        BY <1>2, <2>1
      <3>4. Len(data) <= y
        BY <1>4, <2>2
      <3> QED BY <3>1, <3>2, <3>3, <3>4
    <2>4. ~ (k < i)
      BY <1>3, <2>3
    <2> QED BY <2>4
  <1>6. Piece(data \o v, size, i) = Piece(data, size, i)
    BY <1>2, <1>3, PieceStays
  <1>7. Piece(RowsOfTable(d, q, k), RecordSize(d), i) = RowOfTable(d, q, i)
    BY <1>5, RowsOfTableFacts
  <1> QED BY ONLY <1>1, <1>2, <1>6, <1>7

\* What an INSERT whose records have the layout of its table writes.
LEMMA WrittenInLayout ==
  ASSUME Typed, NEW p \in Procs, Fits(p)
  PROVE  /\ \A r : /\ RowWritten(p, r) = RowOfTable(target[p], p, r)
                   /\ RowSelected(p, r) = RowOfTable(target[p], p, r)
         /\ \A k : RowsUpTo(p, k) = RowsOfTable(target[p], p, k)
         /\ Sized(target[p])
  <1> DEFINE types == stmt[p].types
             d == target[p]
  <1>1. /\ types \in Seq(Types) /\ DOMAIN d = DOMAIN types
        /\ \A c \in DOMAIN types : d[c].len = UnitsWritten(types[c])
        /\ stmt[p].select = [c \in DOMAIN types |-> c]
    BY StatementFacts DEF Typed, Fits
  <1>2. ASSUME NEW r PROVE RowWritten(p, r) = RowOfTable(d, p, r)
                           /\ RowSelected(p, r) = RowOfTable(d, p, r)
    <2> DEFINE tuple == TextTuple(types, p, r)
               field(c) == [n \in 1 .. d[c].len |-> <<"row", p, r, c, n>>]
    <2>1. ASSUME NEW c \in DOMAIN types PROVE Field(types, tuple, c) = field(c)
      <3>1. tuple[c] = [n \in 1 .. StrUnits |-> <<"row", p, r, c, n>>]
        BY DEF TextTuple
      <3>2. UnitsWritten(types[c]) \in 1 .. StrUnits /\ StrUnits \in Nat
        BY StrUnitsAssumption DEF UnitsWritten
      <3>3. PICK n \in 1 .. StrUnits : n = UnitsWritten(types[c]) /\ n = d[c].len
        BY <1>1, <3>2
      <3>4. SubSeq(tuple[c], 1, n) = [i \in 1 .. n |-> tuple[c][i]]
        <4>1. PICK t : t = tuple[c]
          OBVIOUS
        <4>2. t \in Seq(RowUnits(p, r)) /\ Len(t) = StrUnits
          <5>1. c \in Nat
            BY <1>1
          <5>2. \A m \in 1 .. StrUnits : <<"row", p, r, c, m>> \in RowUnits(p, r)
            BY <3>2, <5>1 DEF RowUnits
          <5> QED BY <3>1, <3>2, <4>1, <5>2
        <4>3. /\ SubSeq(t, 1, n) \in Seq(RowUnits(p, r)) /\ Len(SubSeq(t, 1, n)) = n
              /\ \A i \in 1 .. n : SubSeq(t, 1, n)[i] = t[i]
          <5>1. 0 \in Nat /\ n \in Nat /\ 0 <= n /\ n <= Len(t) /\ 0 + 1 = 1 /\ n - 0 = n
                /\ \A i \in 1 .. n : 0 + i = i
            BY <3>2, <4>2
          <5>2. /\ SubSeq(t, 0 + 1, n) \in Seq(RowUnits(p, r)) /\ Len(SubSeq(t, 0 + 1, n)) = n - 0
                /\ \A i \in 1 .. (n - 0) : SubSeq(t, 0 + 1, n)[i] = t[0 + i]
            BY <4>2, <5>1, PartIs
          <5> QED BY <5>1, <5>2
        <4>4. SubSeq(t, 1, n) = [i \in 1 .. n |-> t[i]]
          BY <4>3
        <4> QED BY <4>1, <4>4
      <3>5. ASSUME NEW i \in 1 .. n PROVE tuple[c][i] = <<"row", p, r, c, i>>
        <4>1. i \in 1 .. StrUnits
          BY <3>2
        <4>2. PICK t : t = tuple[c]
          OBVIOUS
        <4>3. t = [m \in 1 .. StrUnits |-> <<"row", p, r, c, m>>]
          BY <3>1, <4>2
        <4>4. t[i] = <<"row", p, r, c, i>>
          BY <4>1, <4>3
        <4> QED BY <4>2, <4>4
      <3> HIDE DEF tuple
      <3>6. SubSeq(tuple[c], 1, n) = [i \in 1 .. n |-> <<"row", p, r, c, i>>]
        BY <3>4, <3>5
      <3> QED BY <3>3, <3>6 DEF Field
    <2> HIDE DEF field, tuple
    <2>2. [c \in DOMAIN types |-> Field(types, tuple, c)] = [c \in DOMAIN d |-> field(c)]
      BY <1>1, <2>1
    <2>3. RowWritten(p, r) = FlattenSeq([c \in DOMAIN types |-> Field(types, tuple, c)])
      BY DEF RowWritten, RecordWritten, tuple
    <2>4. RowOfTable(d, p, r) = FlattenSeq([c \in DOMAIN d |-> field(c)])
      BY DEF RowOfTable, field
    <2>5. RowSelected(p, r) =
            FlattenSeq([i \in DOMAIN stmt[p].select |-> Field(types, tuple, stmt[p].select[i])])
      BY DEF RowSelected, RecordSelected, tuple
    <2>6. [i \in DOMAIN stmt[p].select |-> Field(types, tuple, stmt[p].select[i])]
            = [c \in DOMAIN types |-> Field(types, tuple, c)]
      <3>1. PICK sel : sel = stmt[p].select
        OBVIOUS
      <3>2. DOMAIN sel = DOMAIN types /\ \A i \in DOMAIN types : sel[i] = i
        <4>1. sel = [c \in DOMAIN types |-> c]
          <5>1. stmt[p].select = [c \in DOMAIN types |-> c]
            BY Zenon DEF Fits
          <5> QED BY <3>1, <5>1, Zenon
        <4>2. PICK dom : dom = DOMAIN types
          OBVIOUS
        <4>3. sel = [c \in dom |-> c]
          BY <4>1, <4>2
        <4>4. DOMAIN sel = dom /\ \A i \in dom : sel[i] = i
          BY <4>3
        <4> QED BY <4>2, <4>4
      <3>3. [i \in DOMAIN sel |-> Field(types, tuple, sel[i])]
              = [c \in DOMAIN types |-> Field(types, tuple, c)]
        BY <3>2
      <3> QED BY <3>1, <3>3
    <2> QED BY <2>2, <2>3, <2>4, <2>5, <2>6
  <1>3. ASSUME NEW k PROVE RowsUpTo(p, k) = RowsOfTable(d, p, k)
    <2>1. [r \in 1 .. k |-> RowWritten(p, r)] = [r \in 1 .. k |-> RowOfTable(d, p, r)]
      BY <1>2
    <2> QED BY <2>1 DEF RowsUpTo, RowsOfTable
  <1>4. Sized(d)
    <2>1. \A c \in DOMAIN types : UnitsWritten(types[c]) >= 0
      BY StrUnitsAssumption DEF UnitsWritten
    <2> QED BY <1>1, <2>1 DEF Sized
  <1> QED BY <1>2, <1>3, <1>4

\* What is behind a header, of a file that may end anywhere.
LEMMA DataBehindHeader ==
  ASSUME NEW content \in Seq(Unit), NEW d \in Seq(Column), NEW rows \in Seq(Unit),
         Begins(content, Header(d) \o rows)
  PROVE  /\ Data(content, d) \in Seq(Unit) /\ Begins(Data(content, d), rows)
         /\ HasMetadata(content) => Metadata(content) = d /\ MetadataSize(d) <= Len(content)
  <1>1. PICK u \in Seq(Unit) : Header(d) \o rows = content \o u
    BY DEF Begins
  <1>2. PICK h : h = Header(d)
    OBVIOUS
  <1>3. PICK n : n = MetadataSize(d)
    OBVIOUS
  <1>4. h \in Seq(Unit) /\ Len(h) = n /\ n \in Nat \ {0}
    BY <1>2, <1>3, HeaderFacts, HeaderSize
  <1>5. PICK all : all = h \o rows /\ all = content \o u
    BY <1>1, <1>2
  <1>6. /\ all \in Seq(Unit) /\ Len(all) = n + Len(rows) /\ Len(all) = Len(content) + Len(u)
        /\ \A i \in 1 .. Len(all) : /\ i <= n => all[i] = h[i]
                                    /\ i > n => all[i] = rows[i - n]
        /\ \A i \in 1 .. Len(content) : all[i] = content[i]
        /\ Len(rows) \in Nat /\ Len(content) \in Nat /\ Len(u) \in Nat
    <2>1. /\ all \in Seq(Unit) /\ Len(all) = Len(h) + Len(rows)
          /\ \A i \in 1 .. (Len(h) + Len(rows)) :
                all[i] = IF i <= Len(h) THEN h[i] ELSE rows[i - Len(h)]
      <3>1. /\ h \o rows \in Seq(Unit) /\ Len(h \o rows) = Len(h) + Len(rows)
            /\ \A i \in 1 .. (Len(h) + Len(rows)) :
                  (h \o rows)[i] = IF i <= Len(h) THEN h[i] ELSE rows[i - Len(h)]
        BY ONLY <1>4, rows \in Seq(Unit), ConcatProperties
      <3> QED BY <1>5, <3>1
    <2>2. /\ Len(all) = Len(content) + Len(u)
          /\ \A i \in 1 .. (Len(content) + Len(u)) :
                all[i] = IF i <= Len(content) THEN content[i] ELSE u[i - Len(content)]
      BY <1>5, ConcatProperties
    <2>3. Len(rows) \in Nat /\ Len(content) \in Nat /\ Len(u) \in Nat
      BY LenProperties
    <2>4. Len(all) = n + Len(rows) /\ \A i \in 1 .. Len(all) : all[i] = IF i <= n THEN h[i] ELSE rows[i - n]
      BY <1>4, <2>1
    <2>5. ASSUME NEW i \in 1 .. Len(all)
          PROVE  (i <= n => all[i] = h[i]) /\ (i > n => all[i] = rows[i - n])
      <3>1. all[i] = IF i <= n THEN h[i] ELSE rows[i - n]
        BY <2>4
      <3>2. i > n => ~ (i <= n)
        BY <1>4, <2>4, <2>3
      <3> QED BY <3>1, <3>2
    <2>6. ASSUME NEW i \in 1 .. Len(content) PROVE all[i] = content[i]
      <3>1. i \in 1 .. (Len(content) + Len(u)) /\ i <= Len(content)
        BY <2>3
      <3> QED BY <2>2, <3>1
    <2> QED BY <2>1, <2>2, <2>3, <2>4, <2>5, <2>6
  <1>7. Data(content, d) = SubSeq(content, n + 1, Len(content))
    <2>1. MetadataSize(d) + 1 = n + 1
      BY <1>3
    <2> QED BY <2>1 DEF Data
  <1>8. ASSUME Len(content) <= n PROVE Begins(Data(content, d), rows)
    <2>1. Data(content, d) = <<>>
      BY <1>3, <1>8, DataInSeq
    <2>2. <<>> \o rows = rows /\ <<>> \in Seq(Unit)
      BY ConcatEmptySeq, EmptySeq
    <2> QED BY <2>1, <2>2 DEF Begins
  <1>9. ASSUME n <= Len(content) PROVE Begins(Data(content, d), rows)
    <2>1. PICK data : data = SubSeq(content, n + 1, Len(content))
      OBVIOUS
    <2>2. /\ data \in Seq(Unit) /\ Len(data) = Len(content) - n
          /\ \A i \in 1 .. (Len(content) - n) : data[i] = content[n + i]
      <3>1. n \in Nat /\ Len(content) \in Nat /\ Len(content) <= Len(content)
        BY <1>4, <1>6
      <3>2. /\ SubSeq(content, n + 1, Len(content)) \in Seq(Unit)
            /\ Len(SubSeq(content, n + 1, Len(content))) = Len(content) - n
            /\ \A i \in 1 .. (Len(content) - n) :
                  SubSeq(content, n + 1, Len(content))[i] = content[n + i]
        BY <1>9, <3>1, PartIs
      <3> QED BY <2>1, <3>2
    <2>3. data \o u \in Seq(Unit) /\ Len(data \o u) = Len(rows)
          /\ \A i \in 1 .. Len(rows) :
                (data \o u)[i] = IF i <= Len(data) THEN data[i] ELSE u[i - Len(data)]
      <3>1. data \o u \in Seq(Unit) /\ Len(data \o u) = Len(data) + Len(u)
            /\ \A i \in 1 .. (Len(data) + Len(u)) :
                  (data \o u)[i] = IF i <= Len(data) THEN data[i] ELSE u[i - Len(data)]
        BY <2>2, ConcatProperties
      <3>2. Len(data) + Len(u) = Len(rows)
        <4>1. PICK a : a = Len(content)
          OBVIOUS
        <4>2. PICK b : b = Len(u)
          OBVIOUS
        <4>3. PICK e : e = Len(rows)
          OBVIOUS
        <4>4. n + e = a + b /\ a \in Nat /\ b \in Nat /\ e \in Nat /\ n \in Nat /\ Len(data) = a - n
          BY <1>4, <1>6, <2>2, <4>1, <4>2, <4>3
        <4>5. (a - n) + b = e
          BY <4>4
        <4> QED BY <4>2, <4>3, <4>4, <4>5
      <3> QED BY <3>1, <3>2
    <2>4. ASSUME NEW i \in 1 .. Len(rows) PROVE (data \o u)[i] = rows[i]
      <3>1. n + i \in 1 .. Len(all) /\ n + i > n /\ (n + i) - n = i
        BY <1>4, <1>6
      <3>2. all[n + i] = rows[i]
        BY <1>6, <3>1
      <3>3. CASE i <= Len(data)
        <4>1. i \in 1 .. (Len(content) - n) /\ n + i \in 1 .. Len(content)
          BY <1>4, <1>6, <2>2, <3>3
        <4> QED BY <1>6, <2>2, <2>3, <3>2, <3>3, <4>1
      <3>4. CASE ~ (i <= Len(data))
        <4>1. /\ n + i \in 1 .. (Len(content) + Len(u)) /\ ~ (n + i <= Len(content))
              /\ (n + i) - Len(content) = i - Len(data)
          BY <1>4, <1>6, <2>2, <3>1, <3>4
        <4>2. all[n + i] = u[(n + i) - Len(content)]
          <5>1. \A j \in 1 .. (Len(content) + Len(u)) :
                   (content \o u)[j] = IF j <= Len(content) THEN content[j] ELSE u[j - Len(content)]
            BY ConcatProperties
          <5>2. PICK j : j = n + i
            OBVIOUS
          <5>3. j \in 1 .. (Len(content) + Len(u)) /\ ~ (j <= Len(content))
            BY <4>1, <5>2
          <5>4. (content \o u)[j] = u[j - Len(content)]
            BY <5>1, <5>3
          <5>5. all = content \o u
            BY <1>5
          <5>6. all[j] = u[j - Len(content)]
            BY ONLY <5>4, <5>5
          <5> QED BY ONLY <5>2, <5>6
        <4> QED BY <2>3, <3>2, <3>4, <4>1, <4>2
      <3> QED BY <3>3, <3>4
    <2>5. data \o u = rows
      BY <2>3, <2>4, SeqEqual
    <2> QED BY <1>7, <2>1, <2>2, <2>5 DEF Begins
  <1>10. ASSUME HasMetadata(content)
         PROVE  Metadata(content) = d /\ MetadataSize(d) <= Len(content)
    <2>1. DOMAIN content = 1 .. Len(content) /\ content # <<>> /\ Len(content) # 0
      BY <1>10, LenProperties, EmptySeq DEF HasMetadata
    <2>2. /\ Len(d) \in Nat /\ DOMAIN d = 1 .. Len(d)
          /\ \A c \in 1 .. Len(d) : d[c] \in Column
          /\ h[1] = <<"columns", Len(d)>>
          /\ \A c \in 1 .. Len(d) : h[c + 1] = <<"column", d[c].name, d[c].type, d[c].len>>
      BY <1>2, HeaderFacts, LenProperties, ElementOfSeq
    <2>3. 1 \in 1 .. Len(content) /\ content[1] = <<"columns", Len(d)>> /\ content[1] # Zero
      <3>1. 1 \in 1 .. Len(content) /\ 1 \in 1 .. Len(all) /\ 1 <= n
        BY <1>4, <1>6, <2>1
      <3>2. content[1] = <<"columns", Len(d)>>
        BY <1>6, <2>2, <3>1
      <3> QED BY <3>1, <3>2 DEF Zero
    <2>4. \A c \in 1 .. Len(d) : c + 1 \in 1 .. Len(content)
      BY <1>10, <2>1, <2>3 DEF HasMetadata
    <2>5. \A c \in 1 .. Len(d) : c + 1 <= n
      BY <1>3, HeaderSize
    <2>6. ASSUME NEW c \in 1 .. Len(d)
          PROVE  [name |-> content[c + 1][2], type |-> content[c + 1][3],
                  len  |-> content[c + 1][4]] = d[c]
      <3>1. c + 1 \in 1 .. Len(content) /\ c + 1 \in 1 .. Len(all) /\ c + 1 <= n
        BY <1>6, <2>2, <2>4, <2>5
      <3>2. content[c + 1] = <<"column", d[c].name, d[c].type, d[c].len>>
        BY <1>6, <2>2, <3>1
      <3>3. d[c] = [name |-> d[c].name, type |-> d[c].type, len |-> d[c].len]
        BY <2>2 DEF Column
      <3> QED BY <3>2, <3>3
    <2>7. Metadata(content) =
            [c \in 1 .. Len(d) |->
                [name |-> content[c + 1][2], type |-> content[c + 1][3],
                 len  |-> content[c + 1][4]]]
      BY <2>3 DEF Metadata
    <2>8. d = [c \in 1 .. Len(d) |-> d[c]]
      BY <2>2
    <2>9. Metadata(content) = d
      BY <2>6, <2>7, <2>8
    <2> QED BY <1>10, <2>3, <2>9 DEF HasMetadata
  <1> QED BY <1>4, <1>6, <1>8, <1>9, <1>10, DataInSeq
----------------------------------------------------------------------------
\* What is in the file when statements have not overlapped.
LEMMA PrefixIsBegin ==
  ASSUME NEW s \in Seq(Unit), NEW t \in Seq(Unit), IsPrefix(s, t)
  PROVE  Begins(s, t)
  <1>1. PICK n : n = Len(s)
    OBVIOUS
  <1>2. n \in Nat /\ Len(t) \in Nat
    BY <1>1, LenProperties
  <1>3. n <= Len(t) /\ SubSeq(s, 1, n) = SubSeq(t, 1, n)
    BY <1>1 DEF IsPrefix
  <1>4. SubSeq(s, 1, n) = s
    BY <1>1, SubSeqFull
  <1>5. SubSeq(t, 1, n) \o SubSeq(t, n + 1, Len(t)) = SubSeq(t, 1, Len(t))
    <2>1. 1 \in 1 .. Len(t) + 1 /\ n \in 1 - 1 .. Len(t) /\ Len(t) \in n .. Len(t)
      BY <1>2, <1>3
    <2> QED BY <2>1, ConcatAdjacentSubSeq
  <1>6. SubSeq(t, n + 1, Len(t)) \in Seq(Unit)
    <2>1. n <= Len(t) /\ Len(t) <= Len(t)
      BY <1>2, <1>3
    <2> QED BY <1>2, <2>1, PartIs
  <1>7. t = s \o SubSeq(t, n + 1, Len(t))
    BY <1>3, <1>4, <1>5, SubSeqFull
  <1> QED BY <1>6, <1>7 DEF Begins

LEMMA TableOfLast ==
  ASSUME IInv, last # 0, ~ overlapped, HeaderKept(last)
  PROVE  /\ last \in Procs /\ target[last] \in Seq(Column)
         /\ Begins(table, Header(target[last]) \o RowsUpTo(last, RowsOf(last)))
  <1>1. PICK p : p = last
    OBVIOUS
  <1>2. /\ p \in Procs /\ Typed /\ PlacesOK(p) /\ WrittenBy(p)
        /\ pc[p] \in {"write", "close", "done", "killed"}
    BY <1>1 DEF IInv, Typed, Content
  <1>3. /\ table \in Seq(Unit) /\ buf[p] \in Seq(Unit) /\ target[p] \in Seq(Column)
        /\ stmt \in Requests /\ RowsOf(p) \in Nat
    BY <1>2, StatementFacts DEF Typed
  <1>4. Whole(p) = Header(target[p]) \o RowsUpTo(p, RowsOf(p))
    BY DEF Whole, RowsUpTo
  <1>5. Whole(p) \in Seq(Unit)
    <2>1. Header(target[p]) \in Seq(Unit) /\ RowsUpTo(p, RowsOf(p)) \in Seq(Unit)
      BY <1>2, <1>3, HeaderFacts, RowsOneMore
    <2> QED BY <1>4, <2>1, ConcatProperties
  <1>6. CASE Writing(p)
    <2>1. PICK u \in Seq(Unit) : Whole(p) = (table \o buf[p]) \o u
      <3>1. Begins(WrittenSoFar(p), Whole(p)) /\ table \o buf[p] = WrittenSoFar(p)
        BY <1>2, <1>6, WrittenIsPrefix DEF WrittenBy
      <3>2. PICK u \in Seq(Unit) : Whole(p) = WrittenSoFar(p) \o u
        BY <3>1 DEF Begins
      <3> QED BY <3>1, <3>2
    <2>2. buf[p] \o u \in Seq(Unit) /\ (table \o buf[p]) \o u = table \o (buf[p] \o u)
      <3>1. PICK t \in Seq(Unit) : t = buf[p]
        BY <1>3
      <3>2. t \o u \in Seq(Unit)
        BY ONLY t \in Seq(Unit), u \in Seq(Unit), ConcatProperties
      <3>3. table \in Seq(Unit)
        BY <1>3
      <3>4. (table \o t) \o u = table \o (t \o u)
        BY ONLY <3>3, t \in Seq(Unit), u \in Seq(Unit), ConcatAssociative
      <3> QED BY <3>1, <3>2, <3>4
    <2>3. Begins(table, Whole(p))
      BY <2>1, <2>2 DEF Begins
    <2> QED BY <1>1, <1>2, <1>3, <1>4, <2>3
  <1>7. CASE ~ Writing(p)
    <2>1. CASE pc[p] = "done"
      <3>1. table = Whole(p)
        BY <1>2, <2>1 DEF WrittenBy
      <3>2. Whole(p) = table \o <<>> /\ <<>> \in Seq(Unit)
        BY <1>3, <3>1, ConcatEmptySeq, EmptySeq
      <3>3. Begins(table, Whole(p))
        BY <3>2 DEF Begins
      <3> QED BY <1>1, <1>2, <1>3, <1>4, <3>3
    <2>2. CASE pc[p] = "killed"
      <3>1. Begins(table, Whole(p))
        BY <1>2, <1>3, <1>5, <2>2, PrefixIsBegin DEF WrittenBy
      <3> QED BY <1>1, <1>2, <1>3, <1>4, <3>1
    <2> QED BY <1>2, <1>7, <2>1, <2>2 DEF WrittenBy, Writing
  <1> QED BY <1>6, <1>7
----------------------------------------------------------------------------
\* One block of the scan: its records are the next ones of the file, and a
\* short block ends with the last that is whole.
LEMMA BlockRead ==
  ASSUME Typed, NEW p \in Procs, RecordSize(def[p]) > 0,
         NEW m \in Nat, read[p] = m * RecordSize(def[p]),
         read[p] <= Len(Data(table, def[p]))
  PROVE  LET data == Data(table, def[p])
             size == RecordSize(def[p])
             b    == Len(ReadRecords(p))
         IN  /\ ReadRecords(p) \in Seq(Seq(Unit)) /\ b \in Nat
             /\ \A n \in 1 .. b : /\ b - n + 1 \in 1 .. b
                                  /\ ReadRecords(p)[n] = Piece(data, size, m + (b - n + 1))
                                  /\ (m + (b - n + 1)) * size <= Len(data)
                                  /\ (m + (b - n + 1)) * size <= read[p] + Len(Block(p))
             /\ m + b <= Len(data) \div size
             /\ Len(Block(p)) = BufferSize(p) =>
                   b = BlockSize /\ read[p] + Len(Block(p)) = (m + b) * size
             /\ Len(Block(p)) # BufferSize(p) => m + b = Len(data) \div size
  <1>1. PICK d : d = def[p]
    OBVIOUS
  <1>2. PICK size : size = RecordSize(d)
    OBVIOUS
  <1>3. PICK data : data = Data(table, d)
    OBVIOUS
  <1>4. PICK a : a = read[p]
    OBVIOUS
  <1>5. PICK len : len = Len(data)
    OBVIOUS
  <1>6. PICK full : full = BufferSize(p)
    OBVIOUS
  <1>7. /\ d \in Seq(Column) /\ size \in Nat \ {0} /\ data \in Seq(Unit) /\ a \in Nat
        /\ len \in Nat /\ a = m * size /\ a <= len
    <2>1. d \in Seq(Column) /\ a \in Nat /\ table \in Seq(Unit)
      BY <1>1, <1>4 DEF Typed
    <2>2. data \in Seq(Unit) /\ len \in Nat
      BY <1>3, <1>5, <2>1, DataInSeq, LenProperties
    <2> QED BY <1>1, <1>2, <1>3, <1>4, <1>5, <2>1, <2>2, LengthsAreInt
  <1>8. full = BlockSize * size /\ full \in Nat /\ BlockSize \in Nat
    <2>1. full = BlockSize * size
      BY <1>1, <1>2, <1>6 DEF BufferSize
    <2> QED BY <1>7, <2>1, StatementsAssumption
  <1>9. PICK to : to = IF a + full > len THEN len ELSE a + full
    OBVIOUS
  <1>10. to \in Nat /\ a <= to /\ to <= len /\ (to # len => to = a + full) /\ to <= a + full
    BY <1>7, <1>8, <1>9
  <1>11. Block(p) = SubSeq(data, a + 1, to)
    BY <1>1, <1>3, <1>4, <1>5, <1>6, <1>9 DEF Block
  <1>12. PICK recs : recs = Records(SubSeq(data, a + 1, to), d)
    OBVIOUS
  <1>13. PICK b : b = (to - a) \div size
    OBVIOUS
  <1>14. /\ Len(Block(p)) = to - a /\ recs \in Seq(Seq(Unit)) /\ Len(recs) = b
         /\ \A j \in 1 .. b : recs[j] = Piece(data, size, m + j) /\ (m + j) * size <= to
    <2>1. /\ data \in Seq(Unit) /\ d \in Seq(Column) /\ RecordSize(d) > 0
          /\ m \in Nat /\ to \in Nat /\ m * RecordSize(d) <= to /\ to <= Len(data)
      BY <1>2, <1>5, <1>7, <1>10
    <2>2. /\ Len(Part(data, m, RecordSize(d), to)) = to - m * RecordSize(d)
          /\ LET recd == Records(Part(data, m, RecordSize(d), to), d)
             IN  /\ recd \in Seq(Seq(Unit))
                 /\ Len(recd) = (to - m * RecordSize(d)) \div RecordSize(d)
                 /\ \A j \in 1 .. Len(recd) : /\ recd[j] = Piece(data, RecordSize(d), m + j)
                                              /\ (m + j) * RecordSize(d) <= to
      BY ONLY <2>1, RecordsOfPart
    <2>3. Part(data, m, RecordSize(d), to) = SubSeq(data, a + 1, to)
      BY <1>2, <1>7 DEF Part
    <2>4. /\ Len(SubSeq(data, a + 1, to)) = to - a
          /\ recs \in Seq(Seq(Unit)) /\ Len(recs) = (to - a) \div size
          /\ \A j \in 1 .. Len(recs) : /\ recs[j] = Piece(data, size, m + j)
                                      /\ (m + j) * size <= to
      BY ONLY <1>2, <1>7, <1>12, <2>2, <2>3
    <2>5. Len(recs) = b
      BY <1>13, <2>4
    <2>6. Len(Block(p)) = to - a
      BY <1>11, <2>4
    <2> QED BY ONLY <2>4, <2>5, <2>6
  <1>15. PICK y \in Nat : y = to - a /\ to = a + y
    BY <1>7, <1>10
  <1>16. b \in Nat /\ b * size <= y /\ (m * size + y) \div size = m + b
    <2>1. b = y \div size
      BY <1>13, <1>15
    <2> QED BY <1>7, <2>1, Quotients
  <1>17. PICK rev : rev = ReadRecords(p)
    OBVIOUS
  <1>18. /\ rev \in Seq(Seq(Unit)) /\ Len(rev) = b
         /\ \A n \in 1 .. b : rev[n] = recs[b - n + 1] /\ b - n + 1 \in 1 .. b
    <2>1. rev = Reverse(recs)
      BY <1>1, <1>11, <1>12, <1>17 DEF ReadRecords
    <2>2. /\ Reverse(recs) \in Seq(Seq(Unit)) /\ Len(Reverse(recs)) = Len(recs)
          /\ \A n \in 1 .. Len(recs) : /\ Reverse(recs)[n] = recs[Len(recs) - n + 1]
                                       /\ Len(recs) - n + 1 \in 1 .. Len(recs)
      BY <1>14, ReversedIs
    <2> QED BY <1>14, <2>1, <2>2
  <1>19. ASSUME NEW n \in 1 .. b
         PROVE  /\ b - n + 1 \in 1 .. b
                /\ rev[n] = Piece(data, size, m + (b - n + 1))
                /\ (m + (b - n + 1)) * size <= len
                /\ (m + (b - n + 1)) * size <= a + Len(Block(p))
    <2>1. PICK j : j = b - n + 1
      OBVIOUS
    <2>2. j \in 1 .. b /\ rev[n] = recs[j]
      BY <1>18, <2>1
    <2>3. rev[n] = Piece(data, size, m + j) /\ (m + j) * size <= to
      BY <1>14, <2>2
    <2>4. (m + j) * size \in Nat
      <3>1. m + j \in Nat
        BY <1>16, <2>2
      <3> QED BY <1>7, <3>1, Products
    <2>5. PICK x : x = (m + j) * size
      OBVIOUS
    <2>6. x <= len /\ x <= a + Len(Block(p))
      BY <1>7, <1>10, <1>14, <1>15, <2>3, <2>4, <2>5
    <2> QED BY <2>1, <2>2, <2>3, <2>5, <2>6
  <1>20. m + b <= len \div size
    <2>1. (m + b) * size = m * size + b * size /\ b * size \in Nat /\ m * size \in Nat
      BY <1>7, <1>16, Products
    <2>2. (m + b) * size <= len
      <3>1. PICK x : x = b * size
        OBVIOUS
      <3>2. x \in Nat /\ a + x <= len
        BY <1>7, <1>10, <1>15, <1>16, <2>1, <3>1
      <3> QED BY <1>7, <2>1, <3>1, <3>2
    <2>3. m + b \in Nat
      BY <1>16
    <2> QED BY <1>7, <2>2, <2>3, Quotients
  <1>21. ASSUME Len(Block(p)) = full PROVE b = BlockSize /\ a + Len(Block(p)) = (m + b) * size
    <2>1. to - a = BlockSize * size
      BY <1>8, <1>14, <1>21
    <2>2. b = BlockSize
      BY <1>7, <1>8, <1>13, <2>1, Quotients
    <2>3. (m + b) * size = m * size + b * size
      BY <1>7, <1>16, Products
    <2> QED BY <1>7, <1>8, <1>21, <2>2, <2>3
  <1>22. ASSUME Len(Block(p)) # full PROVE m + b = len \div size
    <2>1. to = len
      BY <1>7, <1>8, <1>10, <1>14, <1>22
    <2> QED BY <1>7, <1>15, <1>16, <2>1
  <1> QED BY <1>1, <1>2, <1>3, <1>4, <1>5, <1>6, <1>16, <1>17, <1>18, <1>19, <1>20, <1>21, <1>22
----------------------------------------------------------------------------
\* What the SELECTs have returned stays what was in the file while the others
\* leave the file alone.
LEMMA OtherScan ==
  ASSUME NEW q, ScanOK(q), stmt' = stmt, Own(q)' = Own(q), out'[q] = out[q],
         stable'[q] => stable[q] /\ table' = table
  PROVE  ScanOK(q)'
  <1>1. pc'[q] = pc[q] /\ def'[q] = def[q] /\ read'[q] = read[q]
    BY DEF Own
  <1>2. Aligned(q)' = Aligned(q)
    BY <1>1 DEF Aligned
  <1>3. Steady(q)'
    <2>1. CASE ~ stable'[q]
      BY <2>1 DEF Steady
    <2>2. CASE stable'[q]
      <3>1. stable[q] /\ table' = table
        BY <2>2
      <3>2. \A m : HasRead(q, m)' = HasRead(q, m)
        BY <1>1, <3>1 DEF HasRead
      <3>3. Steady(q)
        BY DEF ScanOK
      <3>4. HasMetadata(table)' = HasMetadata(table) /\ Metadata(table)' = Metadata(table)
        BY <3>1
      <3>5. RecordSize(def[q])' = RecordSize(def[q]) /\ Data(table, def[q])' = Data(table, def[q])
        BY <1>1, <3>1
      <3> HIDE DEF HasRead
      <3> QED BY <1>1, <3>1, <3>2, <3>3, <3>4, <3>5, SMTT(30) DEF Steady
    <2> QED BY <2>1, <2>2
  <1> QED BY <1>1, <1>2, <1>3 DEF ScanOK

LEMMA OtherTarget ==
  ASSUME NEW q, TargetOK(q), stmt' = stmt, Own(q)' = Own(q), q = last' => q = last
  PROVE  TargetOK(q)'
  BY DEF TargetOK, Own, TextInsert

LEMMA ReadKept ==
  ASSUME RInv, NEW p \in Procs, stmt' = stmt,
         \A q : q # p => Own(q)' = Own(q) /\ out'[q] = out[q],
         \A q \in Procs : q # p /\ stable'[q] => stable[q] /\ table' = table,
         last' \in {last, p},
         out' \in [Procs -> Seq(Seq(Unit))], ScanOK(p)', TargetOK(p)', Untouched'
  PROVE  RInv'
  <1>1. ASSUME NEW q \in Procs, q # p PROVE ScanOK(q)' /\ TargetOK(q)'
    <2>1. ScanOK(q) /\ TargetOK(q)
      BY DEF RInv
    <2>2. Own(q)' = Own(q) /\ out'[q] = out[q] /\ (stable'[q] => stable[q] /\ table' = table)
          /\ (q = last' => q = last)
      BY <1>1
    <2> QED BY <2>1, <2>2, OtherScan, OtherTarget
  <1> QED BY <1>1 DEF RInv

LEMMA UntouchedKept ==
  ASSUME RInv, NEW p \in Procs, stmt' = stmt, UNCHANGED <<table, history>>,
         \A q : q # p => Own(q)' = Own(q),
         \A q \in Procs : stable[q] => stable'[q], ~ Writing(p)'
  PROVE  Untouched'
  <1>1. last' = last /\ overlapped' = overlapped /\ table' = table
    BY DEF history
  <1> SUFFICES ASSUME last = 0 PROVE Untouched'
    BY <1>1 DEF Untouched
  <1>2. /\ ~ overlapped /\ (\A q \in Procs : stable[q] /\ ~ Writing(q))
        /\ \E t \in InitialTables : table = t.content
    BY DEF RInv, Untouched
  <1>3. ASSUME NEW q \in Procs PROVE ~ Writing(q)'
    BY <1>2, ProcKept
  <1> QED BY <1>1, <1>2, <1>3 DEF Untouched

\* Only a process that has opened the file writes.
LEMMA WriterOpened ==
  ASSUME RInv, NEW p \in Procs, Writing(p)
  PROVE  last # 0
  BY DEF RInv, Untouched

LEMMA InitRead == Init => RInv
  <1> SUFFICES ASSUME Init PROVE RInv
    OBVIOUS
  <1>1. out \in [Procs -> Seq(Seq(Unit))]
    BY EmptySeq DEF Init
  <1>2. ASSUME NEW p \in Procs PROVE ScanOK(p) /\ TargetOK(p)
    <2>1. pc[p] = "plan" /\ out[p] = <<>> /\ target[p] = <<>> /\ last = 0
      BY DEF Init
    <2>2. p # 0
      BY StatementsAssumption
    <2> QED BY <2>1, <2>2 DEF ScanOK, Steady, TargetOK
  <1>3. Untouched
    <2>1. \E t \in InitialTables : table = t.content
      BY DEF Init
    <2> QED BY <2>1 DEF Init, Untouched, Writing
  <1> QED BY <1>1, <1>2, <1>3 DEF RInv

LEMMA PlanRead ==
  ASSUME IInv, RInv, NEW p \in Procs, Plan(p)
  PROVE  RInv'
  <1>1. Typed /\ PlacesOK(p) /\ pc[p] = "plan" /\ ScanOK(p) /\ TargetOK(p)
    BY DEF IInv, RInv, Plan
  <1>2. PICK d : /\ d \in IF Scans(p) THEN MetadataRead(table, AnyDef) ELSE {<<>>}
                 /\ def' = [def EXCEPT ![p] = d]
    BY DEF Plan
  <1>3. d \in Seq(Column)
    BY <1>1, <1>2, MetadataIsDefinition, EmptySeq DEF Typed
  <1>4. PICK place : /\ pc' = [pc EXCEPT ![p] = place]
                     /\ place \in {"open", "check", "scan", "failed"}
                     /\ place = "open" => stmt[p].op = "create"
    <2> DEFINE to == IF RecordSize(def'[p]) < 0 THEN "failed"
                     ELSE IF stmt[p].op = "create" THEN "open"
                     ELSE IF stmt[p].op = "insert" THEN "check" ELSE "scan"
    <2>1. stmt[p].op \in {"create", "insert", "select"}
      BY <1>1, StatementFacts DEF Typed
    <2>2. pc' = [pc EXCEPT ![p] = to]
      BY <2>1 DEF Plan, Goto
    <2>3. /\ to \in {"open", "check", "scan", "failed"}
          /\ to = "open" => stmt[p].op = "create"
      BY <2>1
    <2> HIDE DEF to
    <2> QED BY <2>2, <2>3
  <1>5. /\ stable' = [stable EXCEPT ![p] = TRUE]
        /\ UNCHANGED <<exists, table, stmt, target, buf, pos, read, out, history>>
        /\ last' = last
    BY DEF Plan, file, history
  <1>6. pc'[p] = place /\ def'[p] = d /\ read'[p] = 0 /\ out'[p] = <<>>
    <2>1. pc'[p] = place /\ def'[p] = d
      BY <1>1, <1>2, <1>4 DEF Typed
    <2> QED BY <1>1, <1>5, <2>1 DEF PlacesOK, ScanOK
  <1>7. /\ \A q : q # p => Own(q)' = Own(q) /\ out'[q] = out[q]
        /\ \A q \in Procs : stable[q] => stable'[q]
        /\ \A q \in Procs : q # p /\ stable'[q] => stable[q] /\ table' = table
    BY <1>1, <1>2, <1>4, <1>5 DEF Own, Typed
  <1>8. RecordSize(d) \in Int /\ Data(table, d) \in Seq(Unit)
    BY <1>1, <1>3, LengthsAreInt, DataInSeq DEF Typed
  <1>9. Aligned(p)'
    <2>1. 0 \in 0 .. 0 /\ 0 = 0 * RecordSize(d)
      BY <1>8
    <2> QED BY <1>6, <2>1 DEF Aligned
  <1>10. Steady(p)'
    <2> SUFFICES ASSUME stmt[p].op = "select", HasMetadata(table)
                 PROVE  /\ d = Metadata(table)
                        /\ RecordSize(d) > 0 =>
                              \A m \in 0 .. 0 : 0 = m * RecordSize(d) => HasRead(p, m)'
                        /\ pc'[p] # "done"
      BY <1>4, <1>5, <1>6 DEF Steady
    <2>1. d = Metadata(table)
      BY <1>2 DEF Scans, MetadataRead
    <2>2. ASSUME RecordSize(d) > 0 PROVE HasRead(p, 0)'
      <3>1. Len(Data(table, d)) \div RecordSize(d) \in Nat
        <4>1. RecordSize(d) \in Nat \ {0}
          BY <1>8, <2>2
        <4> QED BY <1>8, <4>1, LenProperties, Quotient
      <3>2. 0 \in 0 .. (Len(Data(table, d)) \div RecordSize(d))
        BY <3>1
      <3>3. {out'[p][n] : n \in 1 .. 0} = {} /\ Len(out'[p]) = 0
            /\ {Piece(Data(table, d), RecordSize(d), i) : i \in 1 .. 0} = {}
        BY <1>6, EmptySeq
      <3> QED BY <1>5, <1>6, <3>2, <3>3 DEF HasRead
    <2>3. \A m \in 0 .. 0 : m = 0
      OBVIOUS
    <2> QED BY <1>4, <1>6, <2>1, <2>2, <2>3
  <1>11. ScanOK(p)'
    BY <1>6, <1>9, <1>10 DEF ScanOK
  <1>12. TargetOK(p)'
    BY <1>1, <1>4, <1>5, <1>6 DEF TargetOK, TextInsert
  <1>13. Untouched'
    BY <1>4, <1>5, <1>6, <1>7, UntouchedKept DEF Writing
  <1>14. out' \in [Procs -> Seq(Seq(Unit))]
    BY <1>5 DEF RInv
  <1> QED BY <1>5, <1>7, <1>11, <1>12, <1>13, <1>14, ReadKept

\* The check of an INSERT reads the definition that it will write.
LEMMA CheckRead ==
  ASSUME IInv, RInv, NEW p \in Procs, Check(p)
  PROVE  RInv'
  <1>1. Typed /\ PlacesOK(p) /\ pc[p] = "check" /\ ScanOK(p) /\ TargetOK(p)
        /\ stmt[p].op = "insert"
    BY DEF IInv, RInv, Check, PlacesOK
  <1>2. PICK d \in MetadataRead(table, AnyDef) :
               /\ target' = [target EXCEPT ![p] = d]
               /\ Goto(p, IF Accepted(QueryTypes(p), QuerySelect(p), d)
                          THEN "open" ELSE "failed")
    BY DEF Check
  <1>3. d \in Seq(Column)
    BY <1>1, MetadataIsDefinition DEF Typed
  <1>4. PICK place : /\ pc' = [pc EXCEPT ![p] = place]
                     /\ place \in {"open", "failed"}
                     /\ place = "open" => Len(QuerySelect(p)) = Len(d)
    <2>1. CASE Accepted(QueryTypes(p), QuerySelect(p), d)
      <3>1. pc' = [pc EXCEPT ![p] = "open"]
        BY <1>2, <2>1 DEF Goto
      <3>2. Len(QuerySelect(p)) = Len(d)
        BY <2>1 DEF Accepted
      <3> QED BY <3>1, <3>2
    <2>2. CASE ~ Accepted(QueryTypes(p), QuerySelect(p), d)
      <3>1. pc' = [pc EXCEPT ![p] = "failed"]
        BY <1>2, <2>2 DEF Goto
      <3>2. "failed" \in {"open", "failed"} /\ ~ ("failed" = "open")
        OBVIOUS
      <3> WITNESS "failed"
      <3> QED BY <3>1, <3>2
    <2> QED BY <2>1, <2>2
  <1>5. /\ UNCHANGED <<exists, table, stmt, def, buf, pos, read, out, history, stable>>
        /\ last' = last
    BY DEF Check, file, history
  <1>6. pc'[p] = place /\ target'[p] = d /\ \A q : q # p => Own(q)' = Own(q) /\ out'[q] = out[q]
    <2>1. pc'[p] = place /\ target'[p] = d
      BY <1>1, <1>2, <1>4 DEF Typed
    <2> QED BY <1>2, <1>4, <1>5, <2>1 DEF Own
  <1>7. ScanOK(p)'
    <2>1. stmt'[p].op # "select" /\ pc'[p] # "scan" /\ out'[p] = <<>>
      BY <1>1, <1>4, <1>5, <1>6 DEF ScanOK
    <2> QED BY <2>1 DEF ScanOK, Steady
  <1>8. ASSUME TextInsert(p), place = "open" PROVE d # <<>>
    <2>1. stmt[p].select \in Seq(Nat)
      <3>1. stmt[p] \in Statement
        BY <1>1, StatementsAssumption DEF Typed
      <3> QED BY <3>1 DEF Statement
    <2>2. Len(stmt[p].select) = Len(d)
      BY <1>4, <1>8 DEF TextInsert, QuerySelect
    <2>3. Len(stmt[p].select) # 0
      BY <1>8, <2>1, EmptySeq DEF TextInsert
    <2>4. d = <<>> => Len(d) = 0
      BY EmptySeq
    <2> QED BY <2>2, <2>3, <2>4
  <1>9. TargetOK(p)'
    <2>1. ~ (TextInsert(p) /\ p = last)
      BY <1>1 DEF TargetOK
    <2> QED BY <1>1, <1>4, <1>5, <1>6, <1>8, <2>1 DEF TargetOK, TextInsert
  <1>10. Untouched'
    BY <1>4, <1>5, <1>6, UntouchedKept DEF Writing
  <1>11. out' \in [Procs -> Seq(Seq(Unit))]
    BY <1>5 DEF RInv
  <1> QED BY <1>5, <1>6, <1>7, <1>9, <1>10, <1>11, ReadKept

\* A step to a place where nothing is read any more, nor will be.
LEMMA GivesUp ==
  ASSUME IInv, RInv, NEW p \in Procs,
         NEW place \in {"failed", "killed"}, pc' = [pc EXCEPT ![p] = place],
         \A q : q # p => buf'[q] = buf[q],
         UNCHANGED <<exists, table, stmt, def, target, pos, read, out, history, stable>>
  PROVE  RInv'
  <1>1. Typed /\ ScanOK(p) /\ TargetOK(p)
    BY DEF IInv, RInv
  <1>2. pc'[p] = place /\ last' = last /\ \A q : q # p => Own(q)' = Own(q) /\ out'[q] = out[q]
    <2>1. pc'[p] = place
      BY <1>1 DEF Typed
    <2> QED BY <2>1 DEF Own, history
  <1>3. ScanOK(p)'
    BY <1>1, <1>2 DEF ScanOK, Steady
  <1>4. TargetOK(p)'
    BY <1>1, <1>2 DEF TargetOK, TextInsert
  <1>5. Untouched'
    BY <1>2, UntouchedKept DEF Writing
  <1>6. out' \in [Procs -> Seq(Seq(Unit))]
    BY DEF RInv
  <1> QED BY <1>2, <1>3, <1>4, <1>5, <1>6, ReadKept

\* A file that is opened to write is not what a SELECT was planned with.
LEMMA OpensRead ==
  ASSUME IInv, RInv, NEW p \in Procs, pc[p] = "open",
         NEW d, target' = [target EXCEPT ![p] = d],
         NEW place \in {"write", "close"}, OpensFile(p, place),
         TextInsert(p) => d # <<>>
  PROVE  RInv'
  <1>1. Typed /\ PlacesOK(p) /\ ScanOK(p) /\ TargetOK(p) /\ stmt[p].op # "select"
    BY DEF IInv, RInv, PlacesOK
  <1>2. /\ buf' = [buf EXCEPT ![p] = Header(target'[p])]
        /\ pc' = [pc EXCEPT ![p] = place]
        /\ last' = p /\ stable' = [q \in Procs |-> FALSE]
        /\ UNCHANGED <<stmt, def, pos, read, out>>
    BY DEF OpensFile, Goto
  <1>3. pc'[p] = place /\ target'[p] = d
        /\ \A q : q # p => Own(q)' = Own(q) /\ out'[q] = out[q]
    <2>1. pc'[p] = place /\ target'[p] = d
      BY <1>1, <1>2 DEF Typed
    <2> QED BY <1>2, <2>1 DEF Own
  <1>4. ScanOK(p)'
    <2>1. stmt'[p].op # "select" /\ pc'[p] # "scan" /\ out'[p] = <<>>
      BY <1>1, <1>2, <1>3 DEF ScanOK
    <2> QED BY <2>1 DEF ScanOK, Steady
  <1>5. TargetOK(p)'
    BY <1>1, <1>2, <1>3 DEF TargetOK, TextInsert
  <1>6. Untouched'
    BY <1>2, StatementsAssumption DEF Untouched
  <1>7. out' \in [Procs -> Seq(Seq(Unit))]
    BY <1>2 DEF RInv
  <1> QED BY <1>2, <1>3, <1>4, <1>5, <1>6, <1>7, ReadKept

\* A step of a process that is writing: it is not a SELECT, and not the first
\* to have opened the file.
LEMMA WriterRead ==
  ASSUME IInv, RInv, NEW p \in Procs, Writing(p),
         NEW place \in {"write", "close", "done", "killed"}, pc' = [pc EXCEPT ![p] = place],
         \A q : q # p => Own(q)' = Own(q),
         \A q \in Procs : stable'[q] => stable[q] /\ table' = table,
         UNCHANGED <<stmt, target, out, history>>
  PROVE  RInv'
  <1>1. Typed /\ PlacesOK(p) /\ ScanOK(p) /\ TargetOK(p) /\ stmt[p].op # "select"
    BY DEF IInv, RInv, PlacesOK, Writing
  <1>2. pc'[p] = place /\ last' = last
    BY <1>1 DEF Typed, history
  <1>3. ScanOK(p)'
    <2>1. stmt'[p].op # "select" /\ pc'[p] # "scan" /\ out'[p] = <<>>
      BY <1>1, <1>2 DEF ScanOK
    <2> QED BY <2>1 DEF ScanOK, Steady
  <1>4. TargetOK(p)'
    BY <1>1, <1>2 DEF TargetOK, TextInsert
  <1>5. Untouched'
    BY <1>2, WriterOpened DEF Untouched
  <1>6. out' \in [Procs -> Seq(Seq(Unit))]
    BY DEF RInv
  <1> QED BY <1>2, <1>3, <1>4, <1>5, <1>6, ReadKept

\* These are the first m records of the data, and these the ones after them,
\* the last one first.
AreFirst(recs, data, size, m) ==
    Len(recs) = m /\ {recs[n] : n \in 1 .. m} = {Piece(data, size, i) : i \in 1 .. m}

AreNext(recs, data, size, m) ==
    \A n \in 1 .. Len(recs) : /\ Len(recs) - n + 1 \in 1 .. Len(recs)
                              /\ recs[n] = Piece(data, size, m + (Len(recs) - n + 1))

LEMMA BlockReturned ==
  ASSUME NEW old \in Seq(Seq(Unit)), NEW rev \in Seq(Seq(Unit)), NEW data, NEW size,
         NEW m \in Nat, AreFirst(old, data, size, m), AreNext(rev, data, size, m),
         NEW b \in Nat, Len(rev) = b
  PROVE  AreFirst(old \o rev, data, size, m + b)
  <1>0. /\ Len(old) = m
        /\ {old[n] : n \in 1 .. m} = {Piece(data, size, i) : i \in 1 .. m}
        /\ \A n \in 1 .. b : b - n + 1 \in 1 .. b /\ rev[n] = Piece(data, size, m + (b - n + 1))
    BY DEF AreFirst, AreNext
  <1>1. PICK all : all = old \o rev
    OBVIOUS
  <1>2. /\ all \in Seq(Seq(Unit)) /\ Len(all) = m + b
        /\ \A n \in 1 .. (m + b) : all[n] = IF n <= m THEN old[n] ELSE rev[n - m]
    <2>1. /\ old \o rev \in Seq(Seq(Unit)) /\ Len(old \o rev) = Len(old) + Len(rev)
          /\ \A n \in 1 .. (Len(old) + Len(rev)) :
                (old \o rev)[n] = IF n <= Len(old) THEN old[n] ELSE rev[n - Len(old)]
      <3>1. old \in Seq(Seq(Unit)) /\ rev \in Seq(Seq(Unit))
        OBVIOUS
      <3> QED BY ONLY <3>1, ConcatProperties
    <2> QED BY <1>0, <1>1, <2>1
  <1>3. ASSUME NEW n \in 1 .. (m + b)
        PROVE  \E i \in 1 .. (m + b) : all[n] = Piece(data, size, i)
    <2>1. CASE n <= m
      <3>1. n \in 1 .. m
        BY <2>1
      <3>2. all[n] \in {old[k] : k \in 1 .. m}
        BY <1>2, <2>1, <3>1
      <3>3. PICK i \in 1 .. m : all[n] = Piece(data, size, i)
        BY <1>0, <3>2
      <3>4. i \in 1 .. (m + b)
        OBVIOUS
      <3> QED BY <3>3, <3>4
    <2>2. CASE ~ (n <= m)
      <3>1. n - m \in 1 .. b
        BY <2>2
      <3>2. PICK k \in 1 .. b : k = n - m
        BY <3>1
      <3>3. PICK j : j = b - k + 1
        OBVIOUS
      <3>4. j \in 1 .. b /\ rev[k] = Piece(data, size, m + j)
        BY <1>0, <3>3
      <3>5. m + j \in 1 .. (m + b)
        BY <3>4
      <3>6. all[n] = rev[n - m]
        BY <1>2, <2>2
      <3>7. all[n] = rev[k]
        BY <3>2, <3>6
      <3> QED BY <3>4, <3>5, <3>7
    <2> QED BY <2>1, <2>2
  <1>4. ASSUME NEW i \in 1 .. (m + b)
        PROVE  \E n \in 1 .. (m + b) : all[n] = Piece(data, size, i)
    <2>1. CASE i <= m
      <3>1. i \in 1 .. m
        BY <2>1
      <3>2. Piece(data, size, i) \in {old[k] : k \in 1 .. m}
        BY <1>0, <3>1
      <3>3. PICK n \in 1 .. m : old[n] = Piece(data, size, i)
        BY <3>2
      <3>4. n \in 1 .. (m + b) /\ n <= m
        OBVIOUS
      <3> QED BY <1>2, <3>3, <3>4
    <2>2. CASE ~ (i <= m)
      <3>1. PICK k \in 1 .. b : k = b - (i - m) + 1
        <4>1. b - (i - m) + 1 \in 1 .. b
          BY <2>2
        <4> QED BY <4>1
      <3>2. PICK j : j = b - k + 1
        OBVIOUS
      <3>3. rev[k] = Piece(data, size, m + j)
        BY <1>0, <3>2
      <3>4. m + j = i
        BY <3>1, <3>2
      <3>5. m + k \in 1 .. (m + b) /\ ~ (m + k <= m) /\ (m + k) - m = k
        OBVIOUS
      <3>6. all[m + k] = rev[k]
        BY <1>2, <3>5
      <3> QED BY <3>3, <3>4, <3>5, <3>6
    <2> QED BY <2>1, <2>2
  <1>5. {all[n] : n \in 1 .. (m + b)} = {Piece(data, size, i) : i \in 1 .. (m + b)}
    <2>1. PICK k : k = m + b
      OBVIOUS
    <2>2. /\ \A n \in 1 .. k : \E i \in 1 .. k : all[n] = Piece(data, size, i)
          /\ \A i \in 1 .. k : \E n \in 1 .. k : all[n] = Piece(data, size, i)
      BY <1>3, <1>4, <2>1
    <2>3. {all[n] : n \in 1 .. k} = {Piece(data, size, i) : i \in 1 .. k}
      BY ONLY <2>2, Zenon
    <2> QED BY <2>1, <2>3
  <1> QED BY <1>1, <1>2, <1>5 DEF AreFirst

LEMMA SelectRead ==
  ASSUME IInv, RInv, NEW p \in Procs, ReadBlock(p), pc[p] = "scan"
  PROVE  RInv'
  <1>1. Typed /\ PlacesOK(p) /\ ScanOK(p) /\ TargetOK(p) /\ stmt[p].op = "select"
        /\ out \in [Procs -> Seq(Seq(Unit))]
    BY DEF IInv, RInv, PlacesOK
  <1>2. PICK d : d = def[p]
    OBVIOUS
  <1>3. PICK size : size = RecordSize(d)
    OBVIOUS
  <1>4. PICK rev : rev = ReadRecords(p)
    OBVIOUS
  <1>5. PICK len : len = Len(Block(p))
    OBVIOUS
  <1>6. /\ d \in Seq(Column) /\ size \in Nat \ {0} /\ Data(table, d) \in Seq(Unit)
        /\ len \in Nat /\ BufferSize(p) \in Nat \ {0} /\ Len(Data(table, d)) \in Nat
        /\ Block(p) \in Seq(Unit)
    <2>1. d \in Seq(Column) /\ size > 0 /\ size \in Nat
      BY <1>1, <1>2, <1>3, ReadBlockIs, LengthsAreInt DEF Typed
    <2>2. Data(table, d) \in Seq(Unit) /\ Len(Data(table, d)) \in Nat
      BY <1>1, <2>1, DataInSeq, LenProperties DEF Typed
    <2> QED BY <1>1, <1>2, <1>3, <1>5, <2>1, <2>2, BlockFacts
  <1>7. rev \in Seq(Seq(Unit))
    <2>1. RecordSize(d) > 0
      BY <1>3, <1>6
    <2>2. Records(Block(p), d) \in Seq(Seq(Unit))
      BY <1>6, <2>1, RecordsInSeq
    <2>3. Reverse(Records(Block(p), d)) \in Seq(Seq(Unit))
      BY <2>2, ReversedIs
    <2> QED BY <1>2, <1>4, <2>3 DEF ReadRecords
  <1>8. PICK place : /\ pc' = [pc EXCEPT ![p] = place]
                     /\ \/ len = BufferSize(p) /\ place = "scan"
                        \/ len # BufferSize(p) /\ place = "done"
    <2>1. CASE len = BufferSize(p)
      <3>1. pc' = [pc EXCEPT ![p] = "scan"]
        BY <1>5, <2>1, ReadBlockIs
      <3> QED BY <2>1, <3>1
    <2>2. CASE len # BufferSize(p)
      <3>1. pc' = [pc EXCEPT ![p] = "done"]
        BY <1>1, <1>5, <2>2, ReadBlockIs
      <3> QED BY <2>2, <3>1
    <2> QED BY <2>1, <2>2
  <1>9. /\ out' = [out EXCEPT ![p] = out[p] \o rev]
        /\ read' = [read EXCEPT ![p] = read[p] + len]
        /\ UNCHANGED <<exists, table, stmt, def, target, buf, pos, history, stable>>
        /\ last' = last
    <2>1. out' = [out EXCEPT ![p] = out[p] \o rev]
      BY <1>1, <1>4 DEF ReadBlock, ReadRecords
    <2> QED BY <1>1, <1>5, <2>1, ReadBlockIs DEF history
  <1>10. /\ pc'[p] = place /\ read'[p] = read[p] + len /\ out'[p] = out[p] \o rev
         /\ \A q : q # p => Own(q)' = Own(q) /\ out'[q] = out[q]
    <2>1. pc'[p] = place /\ read'[p] = read[p] + len /\ out'[p] = out[p] \o rev
      BY <1>1, <1>8, <1>9 DEF Typed
    <2> QED BY <1>8, <1>9, <2>1 DEF Own
  <1>11. PICK m \in Nat : m \in 0 .. read[p] /\ read[p] = m * size
    <2>1. \E k \in 0 .. read[p] : read[p] = k * size
      BY <1>1, <1>2, <1>3 DEF ScanOK, Aligned
    <2> QED BY <2>1
  <1>12. ASSUME place = "scan" PROVE Aligned(p)'
    <2>1. len = BlockSize * size /\ BlockSize \in Nat
      BY <1>2, <1>3, <1>8, <1>12, StatementsAssumption DEF BufferSize
    <2>2. PICK k \in Nat : k = m + BlockSize
      <3>1. m + BlockSize \in Nat
        BY <2>1
      <3> QED BY <3>1
    <2>3. k * size = m * size + BlockSize * size /\ k * size \in Nat
      BY <1>6, <2>1, <2>2, Products
    <2>4. read'[p] = k * size
      BY <1>10, <1>11, <2>1, <2>3
    <2>5. k <= k * size
      <3>1. 1 \in Nat /\ 1 <= size /\ k \in Nat /\ size \in Nat
        BY <1>6
      <3>2. 1 * k <= size * k
        BY <3>1, Products
      <3>3. size * k = k * size /\ 1 * k = k
        BY <3>1
      <3> QED BY <3>2, <3>3
    <2>6. k \in 0 .. read'[p]
      BY <2>3, <2>4, <2>5
    <2>7. RecordSize(def'[p]) = size
      BY <1>2, <1>3, <1>9
    <2> QED BY <2>4, <2>6, <2>7 DEF Aligned
  <1>13. Steady(p)'
    <2> SUFFICES ASSUME stable[p], HasMetadata(table) PROVE Steady(p)'
      BY <1>9 DEF Steady
    <2>1. PICK data : data = Data(table, d)
      OBVIOUS
    <2>2. d = Metadata(table) /\ HasRead(p, m)
      BY <1>1, <1>2, <1>3, <1>6, <1>11 DEF ScanOK, Steady
    <2>3. /\ m \in 0 .. (Len(data) \div size) /\ Len(out[p]) = m
          /\ {out[p][n] : n \in 1 .. m} = {Piece(data, size, i) : i \in 1 .. m}
      BY <1>2, <1>3, <2>1, <2>2 DEF HasRead
    <2>4. read[p] <= Len(data)
      <3>1. PICK k : k = Len(data) \div size
        OBVIOUS
      <3>2. k \in Nat /\ k * size <= Len(data) /\ m <= k
        BY <1>6, <2>1, <2>3, <3>1, Quotients
      <3>3. m * size <= k * size /\ m * size \in Nat /\ k * size \in Nat
        BY <1>6, <3>2, Products
      <3>4. PICK x : x = m * size
        OBVIOUS
      <3>5. PICK y : y = k * size
        OBVIOUS
      <3>6. x <= y /\ y <= Len(data) /\ x \in Nat /\ y \in Nat /\ Len(data) \in Nat
        BY <1>6, <2>1, <3>2, <3>3, <3>4, <3>5
      <3>7. x <= Len(data)
        BY ONLY <3>6
      <3> QED BY <1>11, <3>4, <3>7
    <2>5. PICK b : b = Len(rev)
      OBVIOUS
    <2>6. /\ b \in Nat /\ m + b <= Len(data) \div size
          /\ \A n \in 1 .. b : b - n + 1 \in 1 .. b /\ rev[n] = Piece(data, size, m + (b - n + 1))
          /\ len = BufferSize(p) => read[p] + len = (m + b) * size
          /\ len # BufferSize(p) => m + b = Len(data) \div size
      <3>1. /\ RecordSize(def[p]) > 0 /\ read[p] = m * RecordSize(def[p])
            /\ read[p] <= Len(Data(table, def[p]))
        BY <1>2, <1>3, <1>6, <1>11, <2>1, <2>4
      <3> HIDE DEF ReadRecords, Block, BufferSize
      <3> QED BY <1>1, <1>2, <1>3, <1>4, <1>5, <2>1, <2>5, <3>1, BlockRead
    <2>7. HasRead(p, m + b)'
      <3>1. out[p] \in Seq(Seq(Unit))
        BY <1>1
      <3>2. /\ Len(out[p] \o rev) = m + b
            /\ {(out[p] \o rev)[n] : n \in 1 .. (m + b)}
                  = {Piece(data, size, i) : i \in 1 .. (m + b)}
        <4>1. AreFirst(out[p], data, size, m)
          BY <2>3 DEF AreFirst
        <4>2. AreNext(rev, data, size, m)
          BY <2>5, <2>6 DEF AreNext
        <4>3. AreFirst(out[p] \o rev, data, size, m + b)
          BY <1>7, <2>5, <2>6, <3>1, <4>1, <4>2, BlockReturned
        <4> QED BY <4>3 DEF AreFirst
      <3>3. m + b \in 0 .. (Len(data) \div size)
        <4>1. Len(data) \div size \in Nat
          BY <1>6, <2>1, Quotients
        <4> QED BY <2>6, <4>1
      <3>4. Data(table', def'[p]) = data /\ RecordSize(def'[p]) = size
        BY <1>2, <1>3, <1>9, <2>1
      <3> QED BY <1>10, <3>2, <3>3, <3>4 DEF HasRead
    <2>8. CASE place = "scan"
      <3>1. read'[p] = (m + b) * size
        BY <1>8, <1>10, <2>6, <2>8
      <3>2. ASSUME NEW k \in 0 .. read'[p], read'[p] = k * size PROVE k = m + b
        <4>1. m + b \in Nat /\ k \in Nat
          <5>1. read'[p] \in Nat
            <6>1. read[p] \in Nat
              BY <1>1 DEF Typed
            <6> QED BY <1>6, <1>10, <6>1
          <5> QED BY <2>6, <5>1
        <4>2. (k * size) \div size = k /\ ((m + b) * size) \div size = m + b
          BY <1>6, <4>1, Quotients
        <4> QED BY <3>1, <3>2, <4>2
      <3>3. d = Metadata(table') /\ def'[p] = d /\ RecordSize(d) = size
        BY <1>2, <1>3, <1>9, <2>2
      <3>4. \A k \in 0 .. read'[p] : read'[p] = k * size => HasRead(p, k)'
        <4> SUFFICES ASSUME NEW k \in 0 .. read'[p], read'[p] = k * size PROVE HasRead(p, k)'
          OBVIOUS
        <4> QED BY <2>7, <3>2 DEF HasRead
      <3> QED BY <1>10, <2>8, <3>3, <3>4 DEF Steady, HasRead
    <2>9. CASE place = "done"
      <3>1. m + b = Len(data) \div size
        BY <1>8, <2>6, <2>9
      <3>2. /\ d = Metadata(table') /\ def'[p] = d /\ RecordSize(d) = size
            /\ Data(table', def'[p]) = data
        BY <1>2, <1>3, <1>9, <2>1, <2>2
      <3>3. m + b = Len(Data(table', def'[p])) \div RecordSize(def'[p])
        BY <3>1, <3>2
      <3>4. HasRead(p, Len(Data(table, def[p])) \div RecordSize(def[p]))'
        BY <2>7, <3>3 DEF HasRead
      <3>5. pc'[p] = "done" /\ def'[p] = Metadata(table') /\ RecordSize(def'[p]) > 0
        BY <1>6, <1>10, <2>9, <3>2
      <3> QED BY ONLY <3>4, <3>5 DEF Steady, HasRead
    <2> QED BY <1>8, <2>8, <2>9
  <1>14. ScanOK(p)'
    BY <1>1, <1>8, <1>9, <1>10, <1>12, <1>13 DEF ScanOK
  <1>15. TargetOK(p)'
    BY <1>1, <1>8, <1>9, <1>10 DEF TargetOK, TextInsert
  <1>16. Untouched'
    BY <1>8, <1>9, <1>10, UntouchedKept DEF Writing
  <1>17. out' \in [Procs -> Seq(Seq(Unit))]
    <2>1. out[p] \o rev \in Seq(Seq(Unit))
      BY <1>1, <1>7, ConcatProperties
    <2> QED BY <1>1, <1>9, <2>1
  <1> QED BY <1>9, <1>10, <1>14, <1>15, <1>16, <1>17, ReadKept

LEMMA ReadStays ==
  ASSUME IInv, RInv, UNCHANGED vars
  PROVE  RInv'
  <1>1. /\ UNCHANGED <<exists, table, stmt, pc, def, target, buf, pos, read, out, history, stable>>
        /\ last' = last /\ overlapped' = overlapped
    BY DEF vars, file, history
  <1>2. \A q : Own(q)' = Own(q) /\ out'[q] = out[q]
    BY <1>1 DEF Own
  <1>3. ASSUME NEW q \in Procs PROVE ScanOK(q)' /\ TargetOK(q)'
    <2>1. ScanOK(q) /\ TargetOK(q)
      BY DEF RInv
    <2> QED BY <1>1, <1>2, <2>1, OtherScan, OtherTarget
  <1>4. Untouched'
    <2>1. \A q : Writing(q)' = Writing(q)
      BY <1>1 DEF Writing
    <2> QED BY <1>1, <2>1 DEF RInv, Untouched
  <1> QED BY <1>1, <1>3, <1>4 DEF RInv

LEMMA DiesRead ==
  ASSUME IInv, RInv, NEW p \in Procs, Dies(p)
  PROVE  RInv'
  <1>1. /\ pc' = [pc EXCEPT ![p] = "killed"]
        /\ \A q : q # p => buf'[q] = buf[q]
        /\ UNCHANGED <<exists, table, stmt, def, target, pos, read, out, history, stable>>
    BY DEF Dies, Goto, file
  <1>2. "killed" \in {"failed", "killed"}
    OBVIOUS
  <1> QED BY <1>1, <1>2, GivesUp

LEMMA NextRead == IInv /\ RInv /\ [Next]_vars => RInv'
  <1> SUFFICES ASSUME IInv, RInv, [Next]_vars PROVE RInv'
    OBVIOUS
  <1>1. ASSUME NEW p \in Procs, Step(p) PROVE RInv'
    <2>1. CASE Plan(p)
      BY <2>1, PlanRead
    <2>2. CASE Check(p)
      BY <2>2, CheckRead
    <2>3. CASE Fail(p)
      BY <2>3, GivesUp DEF Fail, Goto, file
    <2>4. CASE CreateTable(p)
      <3>1. ~ TextInsert(p)
        BY <2>4 DEF CreateTable, TextInsert
      <3> QED BY <2>4, <3>1, OpensRead DEF CreateTable
    <2>5. CASE Open(p)
      <3>1. target[p] # <<>> \/ ~ TextInsert(p)
        BY <2>5 DEF Open, RInv, TargetOK
      <3>2. target' = [target EXCEPT ![p] = target[p]]
        BY <2>5 DEF Open, IInv, Typed
      <3>3. pc[p] = "open" /\ OpensFile(p, "write")
        BY <2>5 DEF Open
      <3> QED BY <3>1, <3>2, <3>3, OpensRead
    <2>6. CASE WriteRow(p)
      <3>1. /\ Writing(p) /\ pc' = [pc EXCEPT ![p] = "write"] /\ (\A q : q # p => Own(q)' = Own(q))
            /\ UNCHANGED <<table, stmt, target, out, history, stable>>
        BY <2>6 DEF WriteRow, Writing, Own, file, IInv, Typed
      <3> QED BY <3>1, WriterRead
    <2>7. CASE LastRow(p)
      <3>1. /\ Writing(p) /\ pc' = [pc EXCEPT ![p] = "close"] /\ (\A q : q # p => Own(q)' = Own(q))
            /\ UNCHANGED <<table, stmt, target, out, history, stable>>
        BY <2>7 DEF LastRow, Goto, Writing, Own, file
      <3> QED BY <3>1, WriterRead
    <2>8. CASE ReadBlock(p) /\ pc[p] = "scan"
      BY <2>8, SelectRead
    <2>9. CASE ReadBlock(p) /\ pc[p] # "scan"
      <3>1. pc[p] = "write" /\ stmt[p].op = "insert" /\ Writing(p)
        BY <2>9, ReadBlockIs DEF IInv, PlacesOK, Writing
      <3>2. PICK place \in {"write", "close"} : pc' = [pc EXCEPT ![p] = place]
        <4>1. CASE Len(Block(p)) = BufferSize(p)
          <5>1. pc' = [pc EXCEPT ![p] = "write"]
            BY <2>9, <3>1, <4>1, ReadBlockIs
          <5> QED BY <5>1
        <4>2. CASE Len(Block(p)) # BufferSize(p)
          <5>1. pc' = [pc EXCEPT ![p] = "close"]
            BY <2>9, <3>1, <4>2, ReadBlockIs
          <5> QED BY <5>1
        <4> QED BY <4>1, <4>2
      <3>3. out' = out
        BY <2>9, <3>1 DEF ReadBlock
      <3>4. /\ UNCHANGED <<table, stmt, target, out, history, stable>>
            /\ \A q : q # p => Own(q)' = Own(q)
        <4>1. UNCHANGED <<table, stmt, def, target, pos, history, stable>>
          BY <2>9, ReadBlockIs
        <4>2. PICK m : read' = [read EXCEPT ![p] = m]
          BY <2>9, ReadBlockIs
        <4>3. PICK t : buf' = [buf EXCEPT ![p] = t]
          <5>1. buf' = [buf EXCEPT ![p] = @ \o CopiedUnits(p)]
            BY <2>9, <3>1, ReadBlockIs
          <5> HIDE DEF CopiedUnits
          <5>2. buf' = [buf EXCEPT ![p] = buf[p] \o CopiedUnits(p)]
            BY <5>1
          <5> QED BY <5>2
        <4> QED BY <3>2, <3>3, <4>1, <4>2, <4>3 DEF Own
      <3> QED BY <3>1, <3>2, <3>4, WriterRead
    <2>10. CASE NoColumns(p)
      <3>1. /\ Writing(p) /\ pc' = [pc EXCEPT ![p] = "close"] /\ (\A q : q # p => Own(q)' = Own(q))
            /\ UNCHANGED <<table, stmt, target, out, history, stable>>
        BY <2>10 DEF NoColumns, Goto, Writing, Own, file
      <3> QED BY <3>1, WriterRead
    <2>11. CASE Flush(p)
      <3>1. PICK n \in DOMAIN buf[p] :
              /\ buf' = [buf EXCEPT ![p] = SubSeq(@, n + 1, Len(@))]
              /\ pos' = [pos EXCEPT ![p] = @ + n]
        BY <2>11 DEF Flush
      <3>2. /\ Writing(p) /\ stable' = [q \in Procs |-> FALSE]
            /\ UNCHANGED <<exists, stmt, pc, def, target, read, out, history>>
        BY <2>11 DEF Flush
      <3>3. pc[p] \in {"write", "close"} /\ pc' = [pc EXCEPT ![p] = pc[p]]
        BY <3>2 DEF Writing, IInv, Typed
      <3>4. \A q : q # p => Own(q)' = Own(q)
        BY <3>1, <3>2 DEF Own
      <3> QED BY <3>2, <3>3, <3>4, WriterRead
    <2>12. CASE Close(p)
      <3>1. /\ Writing(p) /\ pc' = [pc EXCEPT ![p] = "done"] /\ (\A q : q # p => Own(q)' = Own(q))
            /\ UNCHANGED <<table, stmt, target, out, history, stable>>
        BY <2>12 DEF Close, Goto, Writing, Own, file
      <3> QED BY <3>1, WriterRead
    <2>13. CASE DivideByZero(p)
      BY <2>13, DiesRead DEF DivideByZero
    <2> QED BY <1>1, <2>1, <2>2, <2>3, <2>4, <2>5, <2>6, <2>7, <2>8, <2>9, <2>10, <2>11, <2>12,
            <2>13 DEF Step
  <1>2. ASSUME NEW p \in Procs, Kill(p) PROVE RInv'
    BY <1>2, DiesRead DEF Kill
  <1>3. CASE UNCHANGED vars
    BY <1>3, ReadStays
  <1> QED BY <1>1, <1>2, <1>3 DEF Next, AllEnded

LEMMA ReadInvariant == Spec => [](IInv /\ RInv)
  <1>1. Init => IInv /\ RInv
    BY InitInv, InitRead
  <1>2. IInv /\ RInv /\ [Next]_vars => (IInv /\ RInv)'
    BY NextInv, NextRead
  <1> QED BY <1>1, <1>2, PTL DEF Spec
----------------------------------------------------------------------------
\* Rows from a text file have nothing to do with the header they are put behind.
LEMMA TextIsKept ==
  ASSUME NEW p, Fits(p)
  PROVE  HeaderKept(p)
  BY DEF Fits, TextInsert, HeaderKept, InsertsItself

\* With a header in the file, the file of an INSERT whose records fit it has
\* its rows as records, from the first on.
LEMMA RecordsOfLast ==
  ASSUME IInv, last # 0, ~ overlapped, Fits(last), HasMetadata(table),
         NEW d, d = target[last], NEW size, size = RecordSize(d), size > 0,
         NEW data, data = Data(table, d), NEW i \in Nat \ {0}, i * size <= Len(data)
  PROVE  Metadata(table) = d /\ Piece(data, size, i) = RowSelected(last, i)
  <1>1. PICK l : l = last
    OBVIOUS
  <1>2. PICK n : n = RowsOf(l)
    OBVIOUS
  <1>3. /\ l \in Procs /\ d \in Seq(Column) /\ n \in Nat /\ table \in Seq(Unit) /\ Typed
        /\ Begins(table, Header(d) \o RowsUpTo(l, n)) /\ Fits(l)
    <2>1. HeaderKept(last)
      BY TextIsKept
    <2>2. /\ last \in Procs /\ target[last] \in Seq(Column)
          /\ Begins(table, Header(target[last]) \o RowsUpTo(last, RowsOf(last)))
      BY <2>1, TableOfLast
    <2> QED BY <1>1, <1>2, <2>2, StatementFacts DEF IInv, Typed
  <1>4. /\ RowsUpTo(l, n) = RowsOfTable(d, l, n)
        /\ RowSelected(l, i) = RowOfTable(d, l, i) /\ Sized(d)
    <2>1. d = target[l]
      BY <1>1
    <2> QED BY <1>3, <2>1, WrittenInLayout
  <1>5. RowsOfTable(d, l, n) \in Seq(Unit)
    BY <1>3, <1>4, RowsOfTableFacts
  <1>6. /\ Data(table, d) \in Seq(Unit) /\ Begins(Data(table, d), RowsOfTable(d, l, n))
        /\ Metadata(table) = d
    BY <1>3, <1>4, <1>5, DataBehindHeader
  <1>7. Piece(Data(table, d), RecordSize(d), i) = RowOfTable(d, l, i)
    <2>1. /\ RecordSize(d) > 0 /\ i * RecordSize(d) <= Len(Data(table, d))
          /\ l \in Procs \cup {0}
      BY <1>3
    <2> QED BY <1>3, <1>4, <1>5, <1>6, <2>1, RecordIsRow
  <1> QED BY <1>1, <1>4, <1>6, <1>7

\* The rows of an INSERT come back from the file, each whole and once and no
\* others, whatever their number, the types of the columns and the size of
\* the blocks, and wherever between two writes the INSERT was killed.
THEOREM InsertedRowsAreRead == Spec => []InsertedIsRead
  <1>1. ASSUME IInv, RInv PROVE InsertedIsRead
    <2> SUFFICES ASSUME NEW p \in Procs, ReadsInsert(p), Fits(last) PROVE ReadsBack(p)
      BY DEF InsertedIsRead
    <2>1. /\ stmt[p].op = "select" /\ pc[p] = "done" /\ stable[p] /\ HasMetadata(table)
          /\ last # 0 /\ ~ overlapped /\ HeaderKept(last)
      BY TextIsKept DEF ReadsInsert
    <2>2. PICK d : d = target[last]
      OBVIOUS
    <2>3. PICK size : size = RecordSize(d)
      OBVIOUS
    <2>4. PICK data : data = Data(table, d)
      OBVIOUS
    <2>5. /\ last \in Procs /\ d \in Seq(Column) /\ table \in Seq(Unit)
          /\ size \in Nat /\ Len(data) \in Nat /\ Sized(d)
      <3>1. last \in Procs /\ d \in Seq(Column) /\ table \in Seq(Unit)
        BY <1>1, <2>1, <2>2, TableOfLast DEF IInv, Typed
      <3>2. data \in Seq(Unit)
        BY <2>4, <3>1, DataInSeq
      <3>3. Sized(d)
        BY <1>1, <2>2, <3>1, WrittenInLayout DEF IInv
      <3> QED BY <2>3, <3>1, <3>2, <3>3, LengthsAreNat, LenProperties
    <2>6. Metadata(table) = d
      <3>1. PICK l : l = last
        OBVIOUS
      <3>2. PICK n : n = RowsOf(l)
        OBVIOUS
      <3>3. /\ l \in Procs /\ n \in Nat /\ stmt \in Requests
            /\ Begins(table, Header(d) \o RowsUpTo(l, n))
        <4>1. Begins(table, Header(target[last]) \o RowsUpTo(last, RowsOf(last)))
          BY <1>1, <2>1, TableOfLast
        <4> QED BY <1>1, <2>2, <2>5, <3>1, <3>2, <4>1, StatementFacts DEF IInv, Typed
      <3>4. RowsUpTo(l, n) \in Seq(Unit)
        BY <3>3, RowsOneMore
      <3> QED BY <2>1, <2>5, <3>3, <3>4, DataBehindHeader
    <2>7. PICK k : k = Len(data) \div size
      OBVIOUS
    <2>8. /\ def[p] = d /\ size > 0 /\ Len(out[p]) = k
          /\ {out[p][n] : n \in 1 .. k} = {Piece(data, size, i) : i \in 1 .. k}
      <3>1. Steady(p)
        BY <1>1 DEF RInv, ScanOK
      <3>2. /\ def[p] = d /\ RecordSize(def[p]) > 0
            /\ HasRead(p, Len(Data(table, def[p])) \div RecordSize(def[p]))
        BY <2>1, <2>6, <3>1 DEF Steady
      <3>3. HasRead(p, k)
        BY <2>3, <2>4, <2>7, <3>2
      <3> QED BY <2>3, <2>4, <3>2, <3>3 DEF HasRead
    <2>9. k \in Nat /\ k * size <= Len(data) /\ k * size \in Nat
      BY <2>5, <2>7, <2>8, Quotients, Products
    <2>10. ASSUME NEW i \in 1 .. k PROVE Piece(data, size, i) = RowSelected(last, i)
      <3>1. i \in Nat \ {0} /\ i * size <= k * size /\ i * size \in Nat
        BY <2>5, <2>9, Products
      <3>2. i * size <= Len(data)
        <4>1. PICK x : x = i * size
          OBVIOUS
        <4>2. PICK y : y = k * size
          OBVIOUS
        <4>3. x <= Len(data)
          BY <2>5, <2>9, <3>1, <4>1, <4>2
        <4> QED BY <4>1, <4>3
      <3> QED BY <1>1, <2>1, <2>2, <2>3, <2>4, <2>8, <3>1, <3>2, RecordsOfLast
    <2>11. DOMAIN out[p] = 1 .. k
      <3>1. out[p] \in Seq(Seq(Unit))
        BY <1>1 DEF RInv
      <3> QED BY <2>8, <3>1, LenProperties
    <2>12. {Piece(data, size, i) : i \in 1 .. k} = {RowSelected(last, i) : i \in 1 .. k}
      BY <2>10, Zenon
    <2>13. /\ Len(out[p]) = k
           /\ {out[p][n] : n \in DOMAIN out[p]} = {RowSelected(last, i) : i \in 1 .. k}
      BY <2>8, <2>11, <2>12
    <2> QED BY <2>3, <2>4, <2>7, <2>8, <2>13 DEF ReadsBack
  <1> QED BY <1>1, ReadInvariant, PTL
----------------------------------------------------------------------------
\* When all statements have the layout with which a SELECT reads, the records
\* in the file are rows of one statement, each at the place of its number,
\* also when the file was emptied and written again under the SELECT.
LEMMA TableIsRows ==
  ASSUME OldTablesFit, IInv, RInv, NEW p \in Procs, pc[p] = "scan", stmt[p].op = "select",
         Uniform(def[p]), ~ overlapped, def[p] # <<>>,
         NEW d, d = def[p], NEW size, size = RecordSize(d), size > 0,
         NEW data, data = Data(table, d)
  PROVE  \E q \in Procs \cup {0} : \A i \in Nat \ {0} :
            i * size <= Len(data) => Piece(data, size, i) = RowOfTable(d, q, i)
  <1>1. /\ d \in Seq(Column) /\ table \in Seq(Unit) /\ size \in Nat \ {0}
        /\ data \in Seq(Unit) /\ Typed /\ stmt \in Requests /\ Sized(d)
    <2>1. d \in Seq(Column) /\ table \in Seq(Unit) /\ Typed /\ stmt \in Requests
      BY DEF IInv, Typed
    <2>2. Sized(d)
      BY DEF Uniform, Sized
    <2> QED BY <2>1, <2>2, LengthsAreNat, DataInSeq
  <1>2. ASSUME data = <<>>, NEW i \in Nat \ {0}, i * size <= Len(data) PROVE FALSE
    <2>1. Len(data) = 0
      BY <1>2, EmptySeq
    <2>2. 1 \in Nat /\ i \in Nat /\ 1 <= i /\ size \in Nat
      BY <1>1
    <2>3. 1 * size <= i * size /\ 1 * size = size /\ i * size \in Nat
      BY <2>2, Products
    <2>4. PICK x : x = i * size
      OBVIOUS
    <2> QED BY <1>1, <1>2, <2>1, <2>3, <2>4
  <1>3. ASSUME NEW q \in Procs \cup {0}, NEW k \in Nat,
               Begins(table, Header(d) \o RowsOfTable(d, q, k)),
               NEW i \in Nat \ {0}, i * size <= Len(data)
        PROVE  Piece(data, size, i) = RowOfTable(d, q, i)
    <2>1. RowsOfTable(d, q, k) \in Seq(Unit)
      BY <1>1, RowsOfTableFacts
    <2>2. Begins(Data(table, d), RowsOfTable(d, q, k))
      BY <1>1, <1>3, <2>1, DataBehindHeader
    <2>3. /\ RecordSize(d) > 0 /\ Begins(data, RowsOfTable(d, q, k)) /\ i * RecordSize(d) <= Len(data)
          /\ d \in Seq(Column) /\ q \in Procs \cup {0} /\ k \in Nat /\ data \in Seq(Unit)
          /\ i \in Nat \ {0} /\ Sized(d)
      BY <1>1, <1>3, <2>2
    <2>4. Piece(data, RecordSize(d), i) = RowOfTable(d, q, i)
      BY ONLY <2>3, RecordIsRow
    <2> QED BY <2>4
  <1>4. CASE last # 0
    <2>1. PICK l : l = last
      OBVIOUS
    <2>2. PICK n : n = RowsOf(l)
      OBVIOUS
    <2>3. /\ l \in Procs /\ n \in Nat /\ target[l] \in Seq(Column)
          /\ Begins(table, Header(target[l]) \o RowsUpTo(l, n))
          /\ (TextInsert(l) => target[l] # <<>>)
      <3>1. /\ last \in Procs /\ target[last] \in Seq(Column)
            /\ Begins(table, Header(target[last]) \o RowsUpTo(last, RowsOf(last)))
        <4>1. last \in Procs
          BY <1>4 DEF IInv, Typed
        <4>2. HeaderKept(last)
          BY <4>1 DEF Uniform
        <4> QED BY <1>4, <4>2, TableOfLast
      <3>2. TargetOK(l)
        BY <2>1, <3>1 DEF RInv
      <3> QED BY <1>1, <2>1, <2>2, <3>1, <3>2, StatementFacts DEF TargetOK
    <2>4. target[l] \in {<<>>, d} /\ (TextInsert(l) => target[l] = <<>> \/ Fits(l))
      BY <2>3 DEF Uniform
    <2>5. CASE TextInsert(l)
      <3>1. target[l] = d /\ Fits(l)
        BY <2>3, <2>4, <2>5
      <3>2. RowsUpTo(l, n) = RowsOfTable(d, l, n)
        BY <1>1, <2>3, <3>1, WrittenInLayout
      <3>3. Begins(table, Header(d) \o RowsOfTable(d, l, n))
        BY <2>3, <3>1, <3>2
      <3> QED BY <1>3, <2>3, <3>3
    <2>6. CASE ~ TextInsert(l)
      <3>1. n = 0 /\ RowsUpTo(l, n) = <<>>
        BY <1>1, <2>2, <2>3, <2>6, RowsOneMore DEF RowsOf
      <3>2. CASE target[l] = d
        <4>1. RowsOfTable(d, l, 0) = <<>>
          <5>1. RowsOfTable(d, l, 0) \in Seq(Unit) /\ Len(RowsOfTable(d, l, 0)) = 0 * RecordSize(d)
            BY <1>1, <2>3, RowsOfTableFacts
          <5>2. 0 * RecordSize(d) = 0
            BY <1>1
          <5> QED BY <5>1, <5>2, EmptySeq
        <4>2. Begins(table, Header(d) \o RowsOfTable(d, l, 0))
          BY <2>3, <3>1, <3>2, <4>1
        <4> QED BY <1>3, <2>3, <4>2
      <3>3. CASE target[l] = <<>>
        <4>1. PICK h : h = Header(target[l])
          OBVIOUS
        <4>2. h \in Seq(Unit) /\ Len(h) = 1
          <5>1. MetadataSize(target[l]) = 1
            BY <2>3, <3>3, HeaderSize
          <5>2. Header(target[l]) \in Seq(Unit) /\ Len(Header(target[l])) = MetadataSize(target[l])
            BY <2>3, HeaderFacts
          <5> QED BY <4>1, <5>1, <5>2
        <4>3. Begins(table, h)
          <5>1. h \o <<>> = h
            BY <4>2, ConcatEmptySeq
          <5> QED BY <2>3, <3>1, <4>1, <5>1
        <4>4. PICK u \in Seq(Unit) : h = table \o u
          BY <4>3 DEF Begins
        <4>5. Len(table) <= MetadataSize(d)
          <5>1. Len(table \o u) = Len(table) + Len(u)
            BY <1>1, ConcatProperties
          <5>2. Len(table) \in Nat /\ Len(u) \in Nat /\ MetadataSize(d) \in Nat \ {0}
            BY <1>1, LenProperties, HeaderSize
          <5> QED BY <4>2, <4>4, <5>1, <5>2
        <4>6. data = <<>>
          BY <1>1, <4>5, DataInSeq
        <4> QED BY <1>2, <4>6
      <3> QED BY <2>4, <3>2, <3>3
    <2> QED BY <2>5, <2>6
  <1>5. CASE last = 0
    <2>1. PICK t \in InitialTables : table = t.content /\ stable[p]
      BY <1>5 DEF RInv, Untouched
    <2>2. LeftByInsert(table)
      BY <2>1 DEF OldTablesFit
    <2>3. CASE table = <<>>
      <3>1. Len(table) = 0 /\ MetadataSize(d) \in Nat \ {0}
        BY <1>1, <2>3, EmptySeq, HeaderSize
      <3>2. data = <<>>
        <4>1. Len(table) <= MetadataSize(d)
          BY <3>1
        <4> QED BY <1>1, <4>1, DataInSeq
      <3> QED BY <1>2, <3>2
    <2>4. CASE table # <<>>
      <3>1. HasMetadata(table)
        BY <2>2, <2>4 DEF LeftByInsert
      <3>2. d = Metadata(table)
        BY <2>1, <3>1 DEF RInv, ScanOK, Steady
      <3>3. PICK k \in 0 .. Len(table) : IsPrefix(table, Header(d) \o RowsOfTable(d, 0, k))
        BY <2>2, <2>4, <3>2 DEF LeftByInsert, RowsOfTable
      <3>4. k \in Nat /\ 0 \in Procs \cup {0}
        BY <1>1, LenProperties
      <3>5. Header(d) \o RowsOfTable(d, 0, k) \in Seq(Unit)
        <4>1. Header(d) \in Seq(Unit) /\ RowsOfTable(d, 0, k) \in Seq(Unit)
          BY <1>1, <3>4, HeaderFacts, RowsOfTableFacts
        <4> QED BY <4>1, ConcatProperties
      <3>6. Begins(table, Header(d) \o RowsOfTable(d, 0, k))
        BY <1>1, <3>3, <3>5, PrefixIsBegin
      <3> QED BY <1>3, <3>4, <3>6
    <2> QED BY <2>3, <2>4
  <1> QED BY <1>4, <1>5
----------------------------------------------------------------------------
\* A target is set when it was not, so a step never makes layouts alike, and
\* a scan of the table is planned before the target is set.
LEMMA UniformBack ==
  ASSUME Typed, NEW d, stmt' = stmt,
         \A q \in Procs : target[q] = <<>> \/ (target'[q] = target[q] /\ def'[q] = def[q]),
         \A c \in DOMAIN d : d[c].len >= 0,
         \A q \in Procs : /\ target'[q] \in {<<>>, d}
                          /\ TextInsert(q)' => target'[q] = <<>> \/ Fits(q)'
                          /\ HeaderKept(q)'
  PROVE  Uniform(d)
  <1> SUFFICES ASSUME NEW q \in Procs
               PROVE  /\ target[q] \in {<<>>, d}
                      /\ TextInsert(q) => target[q] = <<>> \/ Fits(q)
                      /\ HeaderKept(q)
    BY DEF Uniform
  <1>1. CASE target'[q] = target[q] /\ def'[q] = def[q]
    <2>1. TextInsert(q)' = TextInsert(q) /\ Fits(q)' = Fits(q) /\ HeaderKept(q)' = HeaderKept(q)
      BY <1>1 DEF TextInsert, Fits, HeaderKept, InsertsItself
    <2> QED BY <1>1, <2>1
  <1>2. CASE target[q] = <<>>
    <2>1. target[q] \in Seq(Column) /\ def[q] \in Seq(Column)
      BY DEF Typed
    <2>2. MetadataSize(target[q]) = 1 /\ MetadataSize(def[q]) \in Nat \ {0}
      BY <1>2, <2>1, HeaderSize
    <2>3. MetadataSize(target[q]) <= MetadataSize(def[q])
      BY <2>2
    <2> QED BY <1>2, <2>3 DEF HeaderKept
  <1> QED BY <1>1, <1>2

LEMMA SeenKept ==
  ASSUME Typed, NEW q, Seen(q), stmt' = stmt, overlapped => overlapped',
         \A o \in Procs : target[o] = <<>> \/ (target'[o] = target[o] /\ def'[o] = def[o]),
         \/ out'[q] = <<>>
         \/ def'[q] = def[q] /\ read'[q] = read[q] /\ out'[q] = out[q]
  PROVE  Seen(q)'
  <1>1. CASE out'[q] = <<>>
    <2>1. DOMAIN out'[q] = {}
      BY <1>1
    <2> QED BY <2>1 DEF Seen
  <1>2. CASE def'[q] = def[q] /\ read'[q] = read[q] /\ out'[q] = out[q]
    <2>1. Uniform(def[q])' /\ ~ overlapped' => Uniform(def[q]) /\ ~ overlapped
      <3>1. PICK d : d = def[q]
        OBVIOUS
      <3>2. ASSUME Uniform(def[q])' PROVE Uniform(d)
        <4>1. /\ \A c \in DOMAIN d : d[c].len >= 0
              /\ \A o \in Procs : /\ target'[o] \in {<<>>, d}
                                  /\ TextInsert(o)' => target'[o] = <<>> \/ Fits(o)'
                                  /\ HeaderKept(o)'
          BY <1>2, <3>1, <3>2 DEF Uniform
        <4> QED BY <4>1, UniformBack
      <3> QED BY <3>1, <3>2
    <2> QED BY <1>2, <2>1 DEF Seen
  <1> QED BY <1>1, <1>2

\* Records with different numbers, and more of them with greater ones.
LEMMA NumbersDiffer ==
  ASSUME NEW old \in Seq(Seq(Unit)), NEW rev \in Seq(Seq(Unit)), NEW m \in Nat,
         \A n \in 1 .. Len(old) : RowNo(old[n]) \in Nat /\ RowNo(old[n]) <= m,
         \A k, n \in 1 .. Len(old) : RowNo(old[k]) = RowNo(old[n]) => k = n,
         \A n \in 1 .. Len(rev) : RowNo(rev[n]) = m + (Len(rev) - n + 1),
         NEW k \in 1 .. (Len(old) + Len(rev)), NEW n \in 1 .. (Len(old) + Len(rev)),
         RowNo((old \o rev)[k]) = RowNo((old \o rev)[n])
  PROVE  k = n
  <1>1. PICK a \in Nat : a = Len(old)
    BY LenProperties
  <1>2. PICK b \in Nat : b = Len(rev)
    BY LenProperties
  <1>3. \A i \in 1 .. (a + b) : (old \o rev)[i] = IF i <= a THEN old[i] ELSE rev[i - a]
    <2>1. old \in Seq(Seq(Unit)) /\ rev \in Seq(Seq(Unit))
      OBVIOUS
    <2> QED BY ONLY <1>1, <1>2, <2>1, ConcatProperties
  <1> DEFINE no(i) == RowNo((old \o rev)[i])
  <1>4. ASSUME NEW i \in 1 .. (a + b)
        PROVE  /\ i <= a => no(i) = RowNo(old[i]) /\ i \in 1 .. a /\ no(i) \in Nat /\ no(i) <= m
               /\ ~ (i <= a) => no(i) = m + (b - (i - a) + 1)
    <2>1. CASE i <= a
      <3>1. i \in 1 .. a
        BY ONLY <2>1
      <3>2. (old \o rev)[i] = old[i]
        BY ONLY <1>3, <2>1
      <3> QED BY <1>1, <2>1, <3>1, <3>2
    <2>2. CASE ~ (i <= a)
      <3>1. i - a \in 1 .. b
        BY ONLY <2>2
      <3>2. (old \o rev)[i] = rev[i - a]
        BY ONLY <1>3, <2>2
      <3> QED BY <1>2, <2>2, <3>1, <3>2
    <2> QED BY <2>1, <2>2
  <1>5. k \in 1 .. (a + b) /\ n \in 1 .. (a + b) /\ no(k) = no(n)
    BY <1>1, <1>2
  <1> HIDE DEF no
  <1>6. CASE k <= a /\ n <= a
    BY <1>1, <1>4, <1>5, <1>6
  <1>7. CASE ~ (k <= a) /\ ~ (n <= a)
    BY <1>4, <1>5, <1>7
  <1>8. CASE (k <= a) # (n <= a)
    <2>1. ASSUME NEW i \in 1 .. (a + b), NEW j \in 1 .. (a + b), i <= a, ~ (j <= a)
          PROVE  no(i) # no(j)
      <3>1. no(i) \in Nat /\ no(i) <= m
        BY <1>4, <2>1
      <3>2. no(j) = m + (b - (j - a) + 1)
        BY <1>4, <2>1
      <3> QED BY <2>1, <3>1, <3>2
    <2> QED BY <1>5, <1>8, <2>1
  <1> QED BY <1>6, <1>7, <1>8

LEMMA SelectSeen ==
  ASSUME OldTablesFit, IInv, RInv, AllSeen, NEW p \in Procs, ReadBlock(p), pc[p] = "scan"
  PROVE  Seen(p)'
  <1>1. Typed /\ PlacesOK(p) /\ ScanOK(p) /\ Seen(p) /\ stmt[p].op = "select"
        /\ out \in [Procs -> Seq(Seq(Unit))] /\ def[p] # <<>>
    BY DEF IInv, RInv, PlacesOK, AllSeen, ReadBlock, Scanning
  <1>2. PICK d : d = def[p]
    OBVIOUS
  <1>3. PICK size : size = RecordSize(d)
    OBVIOUS
  <1>4. PICK data : data = Data(table, d)
    OBVIOUS
  <1>5. PICK rev : rev = ReadRecords(p)
    OBVIOUS
  <1>6. PICK len : len = Len(Block(p))
    OBVIOUS
  <1>7. PICK old : old = out[p]
    OBVIOUS
  <1>8. /\ d \in Seq(Column) /\ size \in Nat \ {0} /\ data \in Seq(Unit) /\ Len(data) \in Nat
        /\ len \in Nat /\ Block(p) \in Seq(Unit) /\ old \in Seq(Seq(Unit)) /\ read[p] \in Nat
    <2>1. d \in Seq(Column) /\ size > 0 /\ size \in Nat
      BY <1>1, <1>2, <1>3, ReadBlockIs, LengthsAreInt DEF Typed
    <2>2. data \in Seq(Unit) /\ Len(data) \in Nat
      BY <1>1, <1>4, <2>1, DataInSeq, LenProperties DEF Typed
    <2>3. old \in Seq(Seq(Unit)) /\ read[p] \in Nat
      BY <1>1, <1>7 DEF Typed
    <2>4. RecordSize(def[p]) > 0
      BY <1>2, <1>3, <2>1
    <2>5. len \in Nat /\ Block(p) \in Seq(Unit)
      BY <1>1, <1>6, <2>4, BlockFacts
    <2> QED BY <2>1, <2>2, <2>3, <2>5
  <1>9. /\ out'[p] = old \o rev /\ read'[p] = read[p] + len /\ def'[p] = d
        /\ UNCHANGED <<stmt, def, target, overlapped>>
    <2>1. out' = [out EXCEPT ![p] = out[p] \o rev]
      BY <1>1, <1>5 DEF ReadBlock, ReadRecords
    <2>2. read' = [read EXCEPT ![p] = read[p] + len] /\ def' = def /\ stmt' = stmt
          /\ target' = target /\ overlapped' = overlapped
      BY <1>6, ReadBlockIs DEF history
    <2> QED BY <1>1, <1>2, <1>7, <2>1, <2>2 DEF Typed
  <1> SUFFICES ASSUME Uniform(def[p])', ~ overlapped' PROVE Seen(p)'
    BY DEF Seen
  <1>10. Uniform(d) /\ ~ overlapped /\ Sized(d)
    <2>1. /\ \A c \in DOMAIN d : d[c].len >= 0
          /\ \A o \in Procs : /\ target'[o] \in {<<>>, d}
                              /\ TextInsert(o)' => target'[o] = <<>> \/ Fits(o)'
                              /\ HeaderKept(o)'
      BY <1>9 DEF Uniform
    <2>2. \A o \in Procs : target'[o] = target[o] /\ def'[o] = def[o]
      BY <1>9
    <2> QED BY <1>1, <1>9, <2>1, <2>2, UniformBack DEF Sized
  <1>11. PICK m \in Nat : read[p] = m * size
    <2>1. \E k \in 0 .. read[p] : read[p] = k * size
      BY <1>1, <1>2, <1>3 DEF ScanOK, Aligned
    <2> QED BY <2>1
  <1>12. /\ \A n \in 1 .. Len(old) : /\ IsRow(old[n], d) /\ RowNo(old[n]) \in Nat
                                     /\ RowNo(old[n]) * size <= read[p]
         /\ \A k, n \in 1 .. Len(old) : RowNo(old[k]) = RowNo(old[n]) => k = n
    <2>1. DOMAIN old = 1 .. Len(old)
      BY <1>8, LenProperties
    <2> QED BY <1>1, <1>2, <1>3, <1>7, <1>10, <2>1 DEF Seen
  <1>13. /\ rev \in Seq(Seq(Unit))
         /\ \A n \in 1 .. Len(rev) :
               /\ IsRow(rev[n], d)
               /\ RowNo(rev[n]) = m + (Len(rev) - n + 1) /\ RowNo(rev[n]) \in Nat
               /\ RowNo(rev[n]) * size <= read[p] + len
    <2>1. CASE read[p] <= Len(data)
      <3>1. PICK b : b = Len(rev)
        OBVIOUS
      <3>2. /\ rev \in Seq(Seq(Unit)) /\ b \in Nat
            /\ \A n \in 1 .. b : /\ b - n + 1 \in 1 .. b
                                 /\ rev[n] = Piece(data, size, m + (b - n + 1))
                                 /\ (m + (b - n + 1)) * size <= Len(data)
                                 /\ (m + (b - n + 1)) * size <= read[p] + len
        <4>1. /\ RecordSize(def[p]) > 0 /\ read[p] = m * RecordSize(def[p])
              /\ read[p] <= Len(Data(table, def[p]))
          BY <1>2, <1>3, <1>4, <1>8, <1>11, <2>1
        <4> HIDE DEF ReadRecords, Block, BufferSize
        <4> QED BY <1>1, <1>2, <1>3, <1>4, <1>5, <1>6, <3>1, <4>1, BlockRead
      <3>3. PICK q \in Procs \cup {0} : \A i \in Nat \ {0} :
               i * size <= Len(data) => Piece(data, size, i) = RowOfTable(d, q, i)
        <4>1. /\ OldTablesFit /\ IInv /\ RInv /\ pc[p] = "scan" /\ stmt[p].op = "select"
              /\ Uniform(def[p]) /\ ~ overlapped /\ def[p] # <<>> /\ d = def[p]
              /\ size = RecordSize(d) /\ size > 0 /\ data = Data(table, d)
          BY <1>1, <1>2, <1>3, <1>4, <1>8, <1>10
        <4> QED BY ONLY <4>1, p \in Procs, TableIsRows
      <3>4. ASSUME NEW n \in 1 .. b
            PROVE  /\ IsRow(rev[n], d)
                   /\ RowNo(rev[n]) = m + (b - n + 1) /\ RowNo(rev[n]) \in Nat
                   /\ RowNo(rev[n]) * size <= read[p] + len
        <4>1. PICK i : i = m + (b - n + 1)
          OBVIOUS
        <4>2. i \in Nat \ {0}
          BY <3>2, <4>1
        <4>3. rev[n] = Piece(data, size, i) /\ i * size <= Len(data) /\ i * size <= read[p] + len
          BY <3>2, <4>1
        <4>4. rev[n] = RowOfTable(d, q, i)
          BY <3>3, <4>2, <4>3
        <4>5. RecordSize(d) > 0
          BY <1>3, <1>8
        <4>6. IsRow(rev[n], d) /\ RowNo(rev[n]) = i
          BY <1>8, <1>10, <4>4, <4>5, RowIsNumbered
        <4> QED BY <4>1, <4>2, <4>3, <4>6
      <3> QED BY <3>1, <3>2, <3>4
    <2>2. CASE ~ (read[p] <= Len(data))
      <3>1. Block(p) = <<>>
        <4>1. PICK to : to = IF read[p] + BufferSize(p) > Len(data) THEN Len(data)
                             ELSE read[p] + BufferSize(p)
          OBVIOUS
        <4>2. Block(p) = SubSeq(data, read[p] + 1, to)
          BY <1>2, <1>4, <4>1 DEF Block
        <4>3. BufferSize(p) \in Nat
          <5>1. RecordSize(def[p]) > 0
            BY <1>2, <1>3, <1>8
          <5> QED BY <1>1, <5>1, BlockFacts
        <4>4. to \in Nat /\ to <= Len(data) /\ to < read[p] + 1 /\ read[p] + 1 \in Nat \ {0}
          BY <1>8, <2>2, <4>1, <4>3
        <4> QED BY <1>8, <4>2, <4>4, PieceInSeq
      <3>2. Records(Block(p), d) = <<>> /\ <<>> \in Seq(Seq(Unit))
        <4>1. RecordSize(d) > 0
          BY <1>3, <1>8
        <4> QED BY <1>8, <3>1, <4>1, RecordsInSeq, EmptySeq
      <3>3. rev = Reverse(<<>>)
        BY <1>2, <1>5, <3>2 DEF ReadRecords
      <3>4. rev \in Seq(Seq(Unit)) /\ Len(rev) = 0
        BY <3>2, <3>3, ReversedIs, EmptySeq
      <3> QED BY <3>4
    <2> QED BY <2>1, <2>2
  <1>14. ASSUME NEW n \in 1 .. Len(old) PROVE RowNo(old[n]) <= m
    <2>1. PICK i \in Nat : i = RowNo(old[n]) /\ i * size <= m * size
      BY <1>11, <1>12
    <2>2. m \in Nat /\ i \in Nat /\ size \in Nat \ {0}
      BY <1>8
    <2>3. m < i => m * size + size <= i * size
      BY <2>2, Products
    <2>4. ~ (m < i)
      <3>1. PICK x : x = m * size
        OBVIOUS
      <3>2. PICK y : y = i * size
        OBVIOUS
      <3>3. x \in Nat /\ y \in Nat
        BY <2>2, <3>1, <3>2, Products
      <3> QED BY <2>1, <2>2, <2>3, <3>1, <3>2, <3>3
    <2> QED BY <2>1, <2>2, <2>4
  <1>15. /\ old \o rev \in Seq(Seq(Unit)) /\ DOMAIN (old \o rev) = 1 .. (Len(old) + Len(rev))
         /\ Len(old) \in Nat /\ Len(rev) \in Nat
         /\ \A n \in 1 .. (Len(old) + Len(rev)) :
               (old \o rev)[n] = IF n <= Len(old) THEN old[n] ELSE rev[n - Len(old)]
    BY <1>8, <1>13, ConcatProperties, LenProperties
  <1>16. ASSUME NEW n \in 1 .. (Len(old) + Len(rev)), NEW rec, rec = (old \o rev)[n]
         PROVE  IsRow(rec, d) /\ RowNo(rec) \in Nat /\ RowNo(rec) * size <= read[p] + len
    <2>1. CASE n <= Len(old)
      <3>1. n \in 1 .. Len(old) /\ rec = old[n]
        BY <1>15, <1>16, <2>1
      <3>2. IsRow(rec, d) /\ RowNo(rec) \in Nat /\ RowNo(rec) * size <= read[p]
        BY <1>12, <3>1
      <3>3. RowNo(rec) * size \in Nat
        BY <1>8, <3>2, Products
      <3>4. PICK x : x = RowNo(rec) * size
        OBVIOUS
      <3> QED BY <1>8, <3>2, <3>3, <3>4
    <2>2. CASE ~ (n <= Len(old))
      <3>1. n - Len(old) \in 1 .. Len(rev) /\ rec = rev[n - Len(old)]
        BY <1>15, <1>16, <2>2
      <3> QED BY <1>13, <3>1
    <2> QED BY <2>1, <2>2
  <1>17. \A k, n \in 1 .. (Len(old) + Len(rev)) :
            RowNo((old \o rev)[k]) = RowNo((old \o rev)[n]) => k = n
    BY <1>8, <1>12, <1>13, <1>14, NumbersDiffer
  <1>18. RecordSize(def'[p]) = size
    BY <1>3, <1>9
  <1> QED BY <1>9, <1>15, <1>16, <1>17, <1>18 DEF Seen

\* The other processes keep what they have returned.
LEMMA OthersSeen ==
  ASSUME Typed, AllSeen, NEW p \in Procs, stmt' = stmt, overlapped => overlapped',
         \A q : q # p => Own(q)' = Own(q) /\ out'[q] = out[q],
         \A q \in Procs : target[q] = <<>> \/ (target'[q] = target[q] /\ def'[q] = def[q])
  PROVE  \A q \in Procs : q # p => Seen(q)'
  <1> SUFFICES ASSUME NEW q \in Procs, q # p PROVE Seen(q)'
    OBVIOUS
  <1>1. def'[q] = def[q] /\ read'[q] = read[q] /\ out'[q] = out[q] /\ Seen(q)
    BY DEF Own, AllSeen
  <1> QED BY <1>1, SeenKept

\* A process that is no SELECT, or is not planned yet, has returned nothing.
LEMMA NothingReturned ==
  ASSUME AllSeen, NEW p \in Procs, stmt' = stmt, ScanOK(p)', stmt[p].op # "select"
  PROVE  Seen(p)'
  <1>1. out'[p] = <<>>
    BY DEF ScanOK
  <1>2. DOMAIN out'[p] = {}
    BY <1>1
  <1> QED BY <1>2 DEF Seen

LEMMA GivesUpSeen ==
  ASSUME Typed, AllSeen, NEW p \in Procs,
         UNCHANGED <<stmt, def, target, read, out, history>>,
         \A q : q # p => Own(q)' = Own(q)
  PROVE  AllSeen'
  <1>1. overlapped' = overlapped
    BY DEF history
  <1>2. Seen(p)'
    BY <1>1, SeenKept DEF AllSeen
  <1> QED BY <1>1, <1>2, OthersSeen DEF AllSeen

\* What a step of p changes beside what p has of its own.
LEMMA OpensOwn ==
  ASSUME NEW p, NEW place, OpensFile(p, place), \A q : q # p => target'[q] = target[q]
  PROVE  /\ stmt' = stmt /\ def' = def /\ (overlapped => overlapped')
         /\ \A q : q # p => Own(q)' = Own(q) /\ out'[q] = out[q]
  <1>1. /\ buf' = [buf EXCEPT ![p] = Header(target'[p])] /\ pc' = [pc EXCEPT ![p] = place]
        /\ UNCHANGED <<stmt, def, pos, read, out>>
    BY DEF OpensFile, Goto
  <1>2. overlapped => overlapped'
    BY DEF OpensFile
  <1> QED BY <1>1, <1>2 DEF Own

LEMMA StepIsOwn ==
  ASSUME IInv, RInv, NEW p \in Procs, Step(p)
  PROVE  /\ stmt' = stmt /\ (overlapped => overlapped')
         /\ \A q : q # p => Own(q)' = Own(q) /\ out'[q] = out[q]
         /\ \A q \in Procs : target[q] = <<>> \/ (target'[q] = target[q] /\ def'[q] = def[q])
  <1>1. TargetOK(p) /\ Typed
    BY DEF RInv, IInv
  <1>2. CASE Plan(p)
    <2>1. target[p] = <<>>
      BY <1>1, <1>2 DEF Plan, TargetOK
    <2>2. PICK d, place : def' = [def EXCEPT ![p] = d] /\ pc' = [pc EXCEPT ![p] = place]
      BY <1>2 DEF Plan, Goto
    <2>3. UNCHANGED <<stmt, target, buf, pos, read, out, history>>
      BY <1>2 DEF Plan
    <2> QED BY <2>1, <2>2, <2>3 DEF Own, history
  <1>3. CASE Check(p)
    <2>1. target[p] = <<>>
      BY <1>1, <1>3 DEF Check, TargetOK
    <2> QED BY <1>3, <2>1 DEF Check, Goto, Own, history
  <1>4. CASE CreateTable(p)
    <2>1. target[p] = <<>>
      BY <1>1, <1>4 DEF CreateTable, TargetOK
    <2>2. target' = [target EXCEPT ![p] = ConstructTDB(stmt[p].columns)] /\ OpensFile(p, "close")
      BY <1>4 DEF CreateTable
    <2>3. \A q : q # p => target'[q] = target[q]
      BY <2>2
    <2> QED BY <2>1, <2>2, <2>3, OpensOwn
  <1>5. CASE Open(p)
    <2>1. target' = target /\ OpensFile(p, "write")
      BY <1>5 DEF Open
    <2> QED BY <2>1, OpensOwn
  <1>6. CASE WriteRow(p)
    BY <1>6 DEF WriteRow, Own, history
  <1>7. CASE Fail(p) \/ LastRow(p) \/ NoColumns(p) \/ Close(p)
    <2>1. /\ \A q : q # p => pc'[q] = pc[q]
          /\ UNCHANGED <<stmt, def, target, buf, pos, read, out, last, overlapped>>
      <3>1. CASE Fail(p) BY <3>1 DEF Fail, Goto, history
      <3>2. CASE LastRow(p) BY <3>2 DEF LastRow, Goto, history
      <3>3. CASE NoColumns(p) BY <3>3 DEF NoColumns, Goto, history
      <3>4. CASE Close(p) BY <3>4 DEF Close, Goto, history
      <3> QED BY <1>7, <3>1, <3>2, <3>3, <3>4
    <2> QED BY <2>1 DEF Own
  <1>8. CASE DivideByZero(p)
    BY <1>8 DEF DivideByZero, Dies, Goto, Own, history
  <1>9. CASE Flush(p)
    BY <1>9 DEF Flush, Own, history
  <1>10. CASE ReadBlock(p)
    <2>1. UNCHANGED <<stmt, def, target, pos, last, overlapped>>
      BY <1>10, ReadBlockIs DEF history
    <2>2. \A q : q # p => read'[q] = read[q] /\ pc'[q] = pc[q]
      <3>1. PICK n : read' = [read EXCEPT ![p] = n]
        BY <1>10, ReadBlockIs
      <3>2. PICK place : pc' = [pc EXCEPT ![p] = place]
        BY <1>10, ReadBlockIs
      <3> QED BY <3>1, <3>2
    <2>3. \A q : q # p => out'[q] = out[q] /\ buf'[q] = buf[q]
      <3>1. PICK r, c : \/ out' = [out EXCEPT ![p] = @ \o r] /\ buf' = buf
                        \/ buf' = [buf EXCEPT ![p] = @ \o c] /\ out' = out
        BY <1>10 DEF ReadBlock
      <3>2. CASE out' = [out EXCEPT ![p] = @ \o r] /\ buf' = buf
        BY <3>2
      <3>3. CASE buf' = [buf EXCEPT ![p] = @ \o c] /\ out' = out
        BY <3>3
      <3> QED BY <3>1, <3>2, <3>3
    <2> QED BY <2>1, <2>2, <2>3 DEF Own
  <1> QED BY <1>2, <1>3, <1>4, <1>5, <1>6, <1>7, <1>8, <1>9, <1>10 DEF Step

LEMMA NextSeen == OldTablesFit /\ IInv /\ RInv /\ AllSeen /\ [Next]_vars => AllSeen'
  <1> SUFFICES ASSUME OldTablesFit, IInv, RInv, AllSeen, [Next]_vars PROVE AllSeen'
    OBVIOUS
  <1>1. ASSUME NEW p \in Procs, Step(p) PROVE AllSeen'
    <2>1. /\ stmt' = stmt /\ (overlapped => overlapped')
          /\ \A q \in Procs : target[q] = <<>> \/ (target'[q] = target[q] /\ def'[q] = def[q])
          /\ \A q \in Procs : q # p => Seen(q)'
          /\ Typed
      BY <1>1, StepIsOwn, OthersSeen DEF IInv
    <2>2. RInv'
      BY <1>1, NextRead DEF Next
    <2>3. CASE stmt[p].op # "select"
      <3>1. Seen(p)'
        BY <2>1, <2>2, <2>3, NothingReturned DEF RInv
      <3> QED BY <2>1, <3>1 DEF AllSeen
    <2>4. CASE stmt[p].op = "select"
      <3>1. PlacesOK(p) /\ ScanOK(p) /\ Seen(p)
        BY DEF IInv, RInv, AllSeen
      <3>2. CASE Plan(p)
        <4>1. out'[p] = <<>>
          BY <3>1, <3>2 DEF Plan, ScanOK
        <4>2. Seen(p)'
          BY <2>1, <3>1, <4>1, SeenKept
        <4> QED BY <2>1, <4>2 DEF AllSeen
      <3>3. CASE Fail(p) \/ DivideByZero(p)
        <4>1. def'[p] = def[p] /\ read'[p] = read[p] /\ out'[p] = out[p]
          BY <3>3 DEF Fail, DivideByZero, Dies
        <4>2. Seen(p)'
          BY <2>1, <3>1, <4>1, SeenKept
        <4> QED BY <2>1, <4>2 DEF AllSeen
      <3>4. CASE ReadBlock(p)
        <4>1. pc[p] = "scan"
          BY <2>4, <3>1, <3>4, ReadBlockIs DEF PlacesOK
        <4>2. Seen(p)'
          BY <3>4, <4>1, SelectSeen
        <4> QED BY <2>1, <4>2 DEF AllSeen
      <3>5. ~ (Check(p) \/ CreateTable(p) \/ Open(p) \/ WriteRow(p) \/ LastRow(p)
                 \/ NoColumns(p) \/ Flush(p) \/ Close(p))
        BY <2>4, <3>1 DEF Check, CreateTable, Open, WriteRow, LastRow, NoColumns, Flush, Close,
                          PlacesOK, Writing
      <3> QED BY <1>1, <3>2, <3>3, <3>4, <3>5 DEF Step
    <2> QED BY <2>3, <2>4
  <1>2. ASSUME NEW p \in Procs, Kill(p) PROVE AllSeen'
    <2>1. /\ UNCHANGED <<stmt, def, target, read, out, history>>
          /\ \A q : q # p => Own(q)' = Own(q)
      BY <1>2 DEF Kill, Dies, Goto, Own
    <2> QED BY <2>1, GivesUpSeen DEF IInv
  <1>3. CASE UNCHANGED vars
    <2>1. /\ stmt' = stmt /\ overlapped' = overlapped /\ target' = target
          /\ def' = def /\ read' = read /\ out' = out
      BY <1>3 DEF vars, history
    <2>2. Typed
      BY DEF IInv
    <2> QED BY <2>1, <2>2, SeenKept DEF AllSeen
  <1> QED BY <1>1, <1>2, <1>3 DEF Next, AllEnded

\* A SELECT that runs while statements rewrite the table in its own layout and
\* with names as long as before, one at a time, returns whole rows only and
\* none twice, whatever the file held before, if that was a table an INSERT
\* has left: complete, or cut off behind its header.
THEOREM NoRecordIsTorn ==
  ASSUME OldTablesFit
  PROVE  Spec => []NoTornRecord
  <1>1. Init => AllSeen
    <2> SUFFICES ASSUME Init, NEW p \in Procs PROVE Seen(p)
      BY DEF AllSeen
    <2>1. DOMAIN out[p] = {}
      BY DEF Init
    <2> QED BY <2>1 DEF Seen
  <1>2. IInv /\ RInv /\ AllSeen /\ [Next]_vars => AllSeen'
    BY NextSeen
  <1>3. ASSUME AllSeen PROVE NoTornRecord
    <2> SUFFICES ASSUME NEW p \in Procs, Uniform(def[p]), ~ overlapped
                 PROVE  /\ \A n \in DOMAIN out[p] : IsRow(out[p][n], def[p])
                        /\ IsInjective(out[p])
      BY DEF NoTornRecord
    <2>1. Seen(p)
      BY <1>3 DEF AllSeen
    <2> QED BY <2>1 DEF Seen, IsInjective
  <1> QED BY <1>1, <1>2, <1>3, ReadInvariant, PTL DEF Spec
==============================================================================
