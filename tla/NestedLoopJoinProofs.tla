------------------------ MODULE NestedLoopJoinProofs ------------------------
(***************************************************************************)
(* Proofs about NestedLoopJoin, for tables of any size and any join        *)
(* condition: the result is right at every return, and the operator is a   *)
(* join iterator (its safety part; that it ends is checked by TLC).        *)
(***************************************************************************)
EXTENDS NestedLoopJoin, TLAPS

\* Where the positions can be at each place of the function.
Positions ==
    /\ pc = "collect" => lpos = 0 /\ ridx = 0
    /\ pc # "collect" => lpos >= 1 /\ rcount = nright
    /\ pc \in {"loop", "returned"} => lpos <= nleft
    /\ pc \in {"finish", "done"} => lpos = nleft + 1 /\ ridx = 0

IInv == TypeOK /\ Positions /\ ReturnedSoFar

\* Appending a pair adds it to the returned set.
LEMMA AppendReturned ==
  ASSUME NEW S, NEW s \in Seq(S), NEW p \in S, NEW t, t = Append(s, p)
  PROVE  /\ t \in Seq(S)
         /\ {t[n] : n \in DOMAIN t} = {s[n] : n \in DOMAIN s} \cup {p}
  <1>1. t \in Seq(S) /\ DOMAIN t = 1 .. (Len(s) + 1) /\ DOMAIN s = 1 .. Len(s)
        /\ Len(s) \in Nat /\ t[Len(s) + 1] = p /\ \A n \in DOMAIN s : t[n] = s[n]
    OBVIOUS
  <1>2. DOMAIN t = DOMAIN s \cup {Len(s) + 1}
    BY <1>1
  <1> QED BY <1>1, <1>2

LEMMA InitInv == Init => IInv
  <1> SUFFICES ASSUME Init PROVE IInv
    OBVIOUS
  <1>1. nleft \in Nat /\ nright \in Nat
    BY SizesAssumption DEF Init
  <1>2. TypeOK /\ Positions
    BY <1>1 DEF Init, TypeOK, Positions
  <1>3. Returned = {}
    BY DEF Init, Returned
  <1>4. \A p \in Pairs : ~ Tried(p)
    BY <1>1 DEF Init, Pairs, Tried
  <1>5. ReturnedSoFar
    BY <1>3, <1>4 DEF Init, ReturnedSoFar
  <1> QED BY <1>2, <1>5 DEF IInv

\* The pair the loop looks at when a right row is left.
LEMMA NextPair ==
  ASSUME IInv, pc = "loop", ridx < rcount
  PROVE  /\ <<lpos, ridx + 1>> \in Pairs
         /\ ridx + 1 \in 0 .. rcount
         /\ ~ Tried(<<lpos, ridx + 1>>)
  BY DEF IInv, TypeOK, Positions, Pairs, Tried

LEMMA NextInv == IInv /\ [Next]_vars => IInv'
  <1> SUFFICES ASSUME IInv, [Next]_vars PROVE IInv'
    OBVIOUS
  <1> USE DEF IInv
  <1>1. CASE CollectRight
    <2>1. TypeOK' /\ Positions'
      BY <1>1 DEF CollectRight, TypeOK, Positions, tables, Pairs
    <2>2. ReturnedSoFar'
      BY <1>1 DEF CollectRight, ReturnedSoFar, Returned, Tried, tables
    <2> QED BY <2>1, <2>2
  <1>2. CASE FirstLeft
    <2>1. TypeOK' /\ Positions'
      BY <1>2 DEF FirstLeft, TypeOK, Positions, tables, Pairs
    <2>2. \A p \in Pairs : Tried(p)' <=> Tried(p)
      BY <1>2 DEF FirstLeft, TypeOK, Positions, Tried, Pairs, tables
    <2>3. ReturnedSoFar'
      BY <1>2, <2>2 DEF FirstLeft, ReturnedSoFar, Returned, TypeOK, tables
    <2> QED BY <2>1, <2>3
  <1>3. CASE Enter
    <2>1. TypeOK' /\ Positions'
      BY <1>3 DEF Enter, LeftIsEmpty, TypeOK, Positions, tables, Pairs
    <2>2. ReturnedSoFar'
      BY <1>3 DEF Enter, ReturnedSoFar, Returned, Tried, tables
    <2> QED BY <2>1, <2>2
  <1>4. CASE NextLeft
    <2>1. TypeOK' /\ Positions'
      BY <1>4 DEF NextLeft, TypeOK, Positions, tables, Pairs
    <2>2. \A p \in Pairs : Tried(p)' <=> Tried(p)
      BY <1>4 DEF NextLeft, TypeOK, Positions, Tried, Pairs, tables
    <2>3. ReturnedSoFar'
      BY <1>4, <2>2 DEF NextLeft, ReturnedSoFar, Returned, TypeOK, tables
    <2> QED BY <2>1, <2>3
  <1>5. CASE Reject
    <2>1. TypeOK' /\ Positions'
      BY <1>5 DEF Reject, TypeOK, Positions, tables, Pairs
    <2>2. \A p \in Pairs : Tried(p)' <=> (Tried(p) \/ p = <<lpos, ridx + 1>>)
      BY <1>5 DEF Reject, TypeOK, Positions, Tried, Pairs, tables
    <2>3. ReturnedSoFar'
      BY <1>5, <2>2 DEF Reject, ReturnedSoFar, Returned, TypeOK, tables
    <2> QED BY <2>1, <2>3
  <1>6. CASE ReturnTuple
    <2> DEFINE q == <<lpos, ridx + 1>>
    <2>1. q \in Pairs /\ ridx' \in 0 .. rcount
      BY <1>6, NextPair DEF ReturnTuple
    <2>2. out' \in Seq(Pairs) /\ Returned' = Returned \cup {q}
      <3>1. out \in Seq(Pairs) /\ out' = Append(out, q)
        BY <1>6 DEF ReturnTuple, TypeOK
      <3> HIDE DEF q
      <3>2. /\ out' \in Seq(Pairs)
            /\ {out'[n] : n \in DOMAIN out'} = {out[n] : n \in DOMAIN out} \cup {q}
        BY <2>1, <3>1, AppendReturned
      <3> QED BY <3>2 DEF Returned
    <2>3. TypeOK' /\ Positions'
      <3>1. /\ pc = "loop" /\ pc' = "returned" /\ lpos' = lpos /\ rcount' = rcount
            /\ nleft' = nleft /\ nright' = nright /\ matching' = matching
            /\ Pairs' = Pairs
        BY <1>6 DEF ReturnTuple, tables, Pairs
      <3> QED BY <2>1, <2>2, <3>1 DEF TypeOK, Positions
    <2>4. \A p \in Pairs : Tried(p)' <=> (Tried(p) \/ p = q)
      BY <1>6 DEF ReturnTuple, TypeOK, Positions, Tried, Pairs, tables
    <2>5. q \in matching /\ matching' = matching /\ matching \subseteq Pairs
      BY <1>6 DEF ReturnTuple, TypeOK, tables
    <2> HIDE DEF q
    <2>6. ReturnedSoFar'
      BY <2>2, <2>4, <2>5 DEF ReturnedSoFar
    <2> QED BY <2>3, <2>6
  <1>7. CASE CallAgain
    <2>1. TypeOK' /\ Positions'
      BY <1>7 DEF CallAgain, TypeOK, Positions, tables, Pairs
    <2>2. ReturnedSoFar'
      BY <1>7 DEF CallAgain, ReturnedSoFar, Returned, Tried, tables
    <2> QED BY <2>1, <2>2
  <1>8. CASE Finish
    <2>1. TypeOK' /\ Positions'
      BY <1>8 DEF Finish, TypeOK, Positions, tables, Pairs
    <2>2. ReturnedSoFar'
      BY <1>8 DEF Finish, ReturnedSoFar, Returned, Tried, tables
    <2> QED BY <2>1, <2>2
  <1>9. CASE UNCHANGED vars
    BY <1>9 DEF vars, tables, TypeOK, Positions, Pairs, ReturnedSoFar, Returned, Tried
  <1> QED BY <1>1, <1>2, <1>3, <1>4, <1>5, <1>6, <1>7, <1>8, <1>9
          DEF Next, Work, Stopped

\* The positions of the double loop stay within the tables and the buffer.
THEOREM TypeCorrect == Spec => []TypeOK
  <1>1. IInv => TypeOK
    BY DEF IInv
  <1> QED BY <1>1, InitInv, NextInv, PTL DEF Spec

\* At every return of joinGetTuple the matching pairs passed so far, and no
\* others, have been returned (join.c:65-84), whatever the join condition.
THEOREM ReturnsWhatItPassed == Spec => []ReturnedSoFar
  <1>1. IInv => ReturnedSoFar
    BY DEF IInv
  <1> QED BY <1>1, InitInv, NextInv, PTL DEF Spec
----------------------------------------------------------------------------
\* Each step of the operator is a step of the join iterator or invisible.
LEMMA StepSimulation == IInv /\ [Next]_vars => [JI!JINext]_(JI!jiVars)
  <1> SUFFICES ASSUME IInv, [Next]_vars PROVE [JI!JINext]_(JI!jiVars)
    OBVIOUS
  <1> USE DEF JI!jiVars, tables
  <1>1. CASE ReturnTuple
    <2> DEFINE q == <<lpos, ridx + 1>>
    <2>1. q \in matching /\ matching \subseteq Pairs /\ q \notin Returned
      BY <1>1, NextPair DEF ReturnTuple, IInv, ReturnedSoFar, TypeOK
    <2>2. JI!Waiting = matching \ Returned
      BY DEF JI!Waiting, Returned
    <2>3. ASSUME NEW p \in JI!Waiting \ {q} PROVE JI!Before(q, p)
      <3>1. p \in Pairs /\ ~ Tried(p) /\ p # q
        BY <2>1, <2>2, <2>3 DEF IInv, ReturnedSoFar
      <3> QED BY <3>1 DEF IInv, TypeOK, Tried, Pairs, JI!Before
    <2>4. pc # "done" /\ pc' # "done" /\ matching' = matching /\ out' = Append(out, q)
      BY <1>1 DEF ReturnTuple
    <2> HIDE DEF q
    <2>5. JI!ReturnPair
      BY <2>1, <2>2, <2>3, <2>4 DEF JI!ReturnPair
    <2> QED BY <2>5 DEF JI!JINext
  <1>2. CASE Finish
    <2>1. \A p \in matching : Tried(p)
      BY <1>2 DEF Finish, IInv, TypeOK, Positions, Pairs, Tried
    <2>2. JI!Waiting = {}
      BY <2>1 DEF IInv, ReturnedSoFar, JI!Waiting, Returned
    <2> QED BY <1>2, <2>2 DEF Finish, JI!JINext, JI!ReturnEmpty
  <1>3. CASE CollectRight \/ FirstLeft \/ CallAgain
    BY <1>3 DEF CollectRight, FirstLeft, CallAgain
  <1>4. CASE Enter \/ NextLeft \/ Reject
    BY <1>4 DEF Enter, NextLeft, Reject
  <1>5. CASE UNCHANGED vars
    BY <1>5 DEF vars
  <1> QED BY <1>1, <1>2, <1>3, <1>4, <1>5 DEF Next, Work, Stopped

\* joinGetTuple returns the pairs of the join, each once, in the order of the
\* double loop, and the empty tuple only when none is left: for every size of
\* the tables and every join condition.
THEOREM ImplementsJoinIterator == Spec => JI!JISafety
  <1>1. Init => JI!JIInit
    BY DEF Init, JI!JIInit
  <1> QED BY <1>1, InitInv, NextInv, StepSimulation, PTL DEF Spec, JI!JISafety
============================================================================
