----------------------- MODULE StatementHandlesProofs -----------------------
(***************************************************************************)
(* Proofs about StatementHandles, for any number of handles and of FILEs   *)
(* and every sequence of calls.                                            *)
(***************************************************************************)
EXTENDS StatementHandles, TLAPS

----------------------------------------------------------------------------
TypeOK ==
    /\ running \in BOOLEAN /\ overrun \in BOOLEAN /\ abandoned \in BOOLEAN
    /\ state \in [Handles -> {"none", "empty", "query"}]
    /\ file \in [Handles -> Files \cup {NoFile}]
    /\ drained \in [Handles -> BOOLEAN]
    /\ open \subseteq Files
    /\ ended \in [Handles -> BOOLEAN]

IInv == TypeOK /\ FilesAreClosed /\ OwnFile

\* What a call on h leaves alone of the others.
Others(h) == \A g \in Handles \ {h} :
    state'[g] = state[g] /\ file'[g] = file[g]
    /\ drained'[g] = drained[g] /\ ended'[g] = ended[g]

LEMMA OthersStay ==
  ASSUME NEW h \in Handles, Others(h)
  PROVE  \A g \in Handles \ {h} : (Busy(g)' <=> Busy(g)) /\ file'[g] = file[g]
  BY DEF Others, Busy
----------------------------------------------------------------------------
\* A statement of which the driver knows no FILE any more takes none along,
\* if it had read its own to the end or the host has given up on it.
LEMMA DropKeeps ==
  ASSUME IInv, NEW h \in Handles, Drops(h), TypeOK', Others(h), state[h] # "none"
  PROVE  FilesAreClosed' /\ OwnFile'
  <1>1. ~ Busy(h)'
    BY DEF Busy, Drops, IInv, TypeOK
  <1>2. open' = open /\ running' = running /\ overrun' = overrun
    BY DEF Drops
  <1>3. FilesAreClosed'
    <2> SUFFICES ASSUME ~ abandoned', NEW f \in open
                 PROVE  \E g \in Handles : Busy(g)' /\ file'[g] = f
      BY <1>2 DEF FilesAreClosed
    <2>1. ~ abandoned /\ ~ (state[h] = "query" /\ ~ ended[h])
      BY DEF Drops
    <2>2. PICK g \in Handles : Busy(g) /\ file[g] = f
      BY <2>1 DEF IInv, FilesAreClosed
    <2>3. g # h
      BY <2>1, <2>2 DEF Busy
    <2> QED BY <2>2, <2>3, OthersStay
  <1>4. OwnFile'
    BY <1>1, <1>2, OthersStay DEF IInv, OwnFile
  <1> QED BY <1>3, <1>4

\* A fetch that makes the scan of h read f.  Whatever it does to f, the other
\* statements do not read it, unless h was at its end before.
LEMMA FetchKeeps ==
  ASSUME IInv, NoFile \notin Files, NEW h \in Handles, NEW f \in Files, Reads(h, f),
         TypeOK', Others(h), abandoned' = abandoned,
         \/ open' = open \cup {f} /\ drained' = drained /\ ended' = ended
         \/ open' = open \ {f} /\ ~ Busy(h)',
         ~ overrun' => ~ overrun /\ ~ ended[h]
  PROVE  FilesAreClosed' /\ OwnFile'
  <1>1. /\ running' = running /\ running /\ state'[h] = "query" /\ state[h] = "query"
        /\ file'[h] = f /\ f # NoFile /\ ~ drained[h]
    BY DEF Reads, IInv, TypeOK
  <1>2. FilesAreClosed'
    <2> SUFFICES ASSUME ~ abandoned, NEW x \in open'
                 PROVE  \E g \in Handles : Busy(g)' /\ file'[g] = x
      BY DEF FilesAreClosed
    <2>1. CASE x \in open /\ (x # f \/ open' = open \cup {f})
      <3>1. PICK g \in Handles : Busy(g) /\ file[g] = x
        BY <2>1 DEF IInv, FilesAreClosed
      <3>2. CASE g # h
        BY <3>1, <3>2, OthersStay
      <3>3. CASE g = h
        <4>1. x = f
          BY <3>1, <3>3 DEF Reads, Busy
        <4>2. drained' = drained /\ ended' = ended
          BY <2>1, <4>1
        <4> QED BY <1>1, <3>1, <3>3, <4>1, <4>2 DEF Busy
      <3> QED BY <3>2, <3>3
    <2>2. CASE x = f /\ open' = open \cup {f} /\ f \notin open
      <3>1. ~ ended[h] /\ drained' = drained /\ ended' = ended
        BY <2>2 DEF Reads
      <3> QED BY <1>1, <2>2, <3>1 DEF Busy
    <2> QED BY <2>1, <2>2
  <1>3. OwnFile'
    <2> SUFFICES ASSUME ~ overrun',
                        NEW g \in Handles, Busy(g)'
                 PROVE  /\ file'[g] \in open'
                        /\ \A k \in Handles \ {g} : Busy(k)' => file'[k] # file'[g]
      BY DEF OwnFile
    <2>1. ~ overrun /\ ~ ended[h]
      OBVIOUS
    <2>2. \A k \in Handles \ {h} : Busy(k)' =>
             Busy(k) /\ file'[k] = file[k] /\ file[k] \in open /\ file[k] # f
      <3> SUFFICES ASSUME NEW k \in Handles \ {h}, Busy(k)'
                   PROVE  Busy(k) /\ file'[k] = file[k] /\ file[k] \in open /\ file[k] # f
        OBVIOUS
      <3>1. Busy(k) /\ file'[k] = file[k]
        BY OthersStay
      <3>2. file[k] \in open
        BY <1>1, <2>1, <3>1 DEF IInv, OwnFile
      <3>3. file[h] # NoFile => Busy(h)
        BY <1>1, <2>1 DEF Busy
      <3>4. file[k] # f
        <4>1. CASE file[h] = NoFile /\ f \in Files \ open
          BY <3>2, <4>1
        <4>2. CASE file[h] = f
          BY <1>1, <2>1, <3>1, <3>3, <4>2 DEF IInv, OwnFile
        <4> QED BY <4>1, <4>2 DEF Reads
      <3> QED BY <3>1, <3>2, <3>4
    <2>3. CASE g = h
      <3>1. open' = open \cup {f}
        BY <2>3
      <3> QED BY <1>1, <2>2, <2>3, <3>1
    <2>4. CASE g # h
      <3>1. Busy(g) /\ file'[g] = file[g] /\ file[g] \in open /\ file[g] # f
        BY <2>2, <2>4
      <3>2. file'[g] \in open'
        BY <3>1
      <3>3. ASSUME NEW k \in Handles \ {g}, Busy(k)' PROVE file'[k] # file'[g]
        <4>1. CASE k = h
          BY <1>1, <3>1, <4>1
        <4>2. CASE k # h
          <5>1. Busy(k) /\ file'[k] = file[k]
            BY <2>2, <3>3, <4>2
          <5> QED BY <1>1, <2>1, <3>1, <5>1 DEF IInv, OwnFile
        <4> QED BY <4>1, <4>2
      <3> QED BY <3>2, <3>3
    <2> QED BY <2>3, <2>4
  <1> QED BY <1>2, <1>3
----------------------------------------------------------------------------
LEMMA InitHolds == Init => IInv
  BY DEF Init, IInv, TypeOK, FilesAreClosed, OwnFile, Busy

LEMMA StepKeeps ==
  ASSUME NoFile \notin Files, IInv, [Next]_vars
  PROVE  IInv'
  <1>1. ASSUME NEW h \in Handles, SQLAllocHandle(h)
        PROVE  IInv'
    <2>1. TypeOK'
      BY <1>1 DEF SQLAllocHandle, IInv, TypeOK
    <2>2. \A g \in Handles : Busy(g)' <=> Busy(g)
      BY <1>1 DEF SQLAllocHandle, IInv, TypeOK, Busy
    <2> QED BY <1>1, <2>1, <2>2 DEF SQLAllocHandle, IInv, FilesAreClosed, OwnFile
  <1>2. ASSUME NEW h \in Handles, SQLFreeHandle(h) \/ SQLPrepare(h)
        PROVE  IInv'
    <2>1. TypeOK' /\ Others(h) /\ Drops(h) /\ state[h] # "none"
      BY <1>2 DEF SQLFreeHandle, SQLPrepare, Drops, Others, IInv, TypeOK
    <2> QED BY <2>1, DropKeeps DEF IInv
  <1>3. ASSUME NEW h \in Handles, FetchRow(h)
        PROVE  IInv'
    <2>1. PICK f \in Files :
            /\ Reads(h, f) /\ open' = open \cup {f} /\ overrun' = (overrun \/ ended[h])
            /\ drained' = drained /\ ended' = ended /\ abandoned' = abandoned
      BY <1>3 DEF FetchRow
    <2>2. TypeOK' /\ Others(h)
      BY <2>1 DEF Reads, Others, IInv, TypeOK
    <2> QED BY <2>1, <2>2, FetchKeeps DEF IInv
  <1>4. ASSUME NEW h \in Handles, FetchResult(h)
        PROVE  IInv'
    <2>1. PICK f \in Files :
            /\ Reads(h, f) /\ open' = open \ {f} /\ overrun' = (overrun \/ ended[h])
            /\ drained' = [drained EXCEPT ![h] = TRUE]
            /\ ended' = ended /\ abandoned' = abandoned
      BY <1>4 DEF FetchResult
    <2>2. TypeOK' /\ Others(h) /\ ~ Busy(h)'
      BY <2>1 DEF Reads, Others, IInv, TypeOK, Busy
    <2> QED BY <2>1, <2>2, FetchKeeps DEF IInv
  <1>5. ASSUME NEW h \in Handles, FetchNoData(h)
        PROVE  IInv'
    <2>1. PICK f \in Files :
            /\ Reads(h, f) /\ open' = open \ {f}
            /\ drained' \in {drained, [drained EXCEPT ![h] = TRUE]}
            /\ ended' = [ended EXCEPT ![h] = TRUE]
            /\ overrun' = (overrun \/ (ended[h] /\ open' # open)) /\ abandoned' = abandoned
      BY <1>5 DEF FetchNoData
    <2>2. TypeOK' /\ Others(h) /\ ~ Busy(h)'
      BY <2>1 DEF Reads, Others, IInv, TypeOK, Busy
    <2>3. ~ overrun' => ~ overrun /\ ~ ended[h]
      BY <2>1 DEF Reads
    <2> QED BY <2>1, <2>2, <2>3, FetchKeeps DEF IInv
  <1>6. ASSUME NEW h \in Handles, FetchAgain(h) \/ FetchJoined(h)
        PROVE  IInv'
    <2>1. TypeOK' /\ Others(h)
      BY <1>6 DEF FetchAgain, FetchJoined, Others, IInv, TypeOK
    <2>2. ~ Busy(h) /\ ~ Busy(h)' /\ open' = open /\ running' = running /\ abandoned' = abandoned
          /\ (overrun => overrun')
      BY <1>6 DEF FetchAgain, FetchJoined, Busy, IInv, TypeOK
    <2>3. \A g \in Handles : (Busy(g)' <=> Busy(g)) /\ (Busy(g) => file'[g] = file[g])
      BY <2>1, <2>2, OthersStay
    <2> QED BY <2>1, <2>2, <2>3 DEF IInv, FilesAreClosed, OwnFile
  <1>7. ASSUME NEW h \in Handles, HostEnds(h)
        PROVE  IInv'
    <2>1. TypeOK'
      BY <1>7 DEF HostEnds, IInv, TypeOK
    <2> QED BY <1>7, <2>1 DEF HostEnds, IInv, FilesAreClosed, OwnFile
  <1>8. ASSUME UNCHANGED vars
        PROVE  IInv'
    BY <1>8 DEF vars, IInv, TypeOK, FilesAreClosed, OwnFile, Busy
  <1> QED BY <1>1, <1>2, <1>3, <1>4, <1>5, <1>6, <1>7, <1>8 DEF Next, Fetch

\* Whatever the statements and however many handles: what the host fetches to
\* its end before it drops or prepares anew leaves no FILE open behind it.
THEOREM NoFileLeftOpen ==
  ASSUME NoFile \notin Files
  PROVE  Spec => []FilesAreClosed
  <1>1. IInv => FilesAreClosed
    BY DEF IInv
  <1> QED BY <1>1, InitHolds, StepKeeps, PTL DEF Spec

\* However the calls on the handles are mixed, until somebody fetches past an
\* end each statement reads an open FILE that is its own.
THEOREM FilesAreNotShared ==
  ASSUME NoFile \notin Files
  PROVE  Spec => []OwnFile
  <1>1. IInv => OwnFile
    BY DEF IInv
  <1> QED BY <1>1, InitHolds, StepKeeps, PTL DEF Spec
=============================================================================
