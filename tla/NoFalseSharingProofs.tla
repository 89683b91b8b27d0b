------------------------- MODULE NoFalseSharingProofs -------------------------
(***************************************************************************)
(* Proofs about NoFalseSharing, for any number of threads and elements.    *)
(*                                                                         *)
(* An update of the counter may be lost, but it never errs to the other    *)
(* side: on the way up the counter, and what a thread has read of it, is   *)
(* at most the number of threads that have counted themselves in; on the   *)
(* way down it is at least the number of those that are not out yet.  So   *)
(* NumThreads means that all are in, and 0, once it has been NumThreads,   *)
(* that all are out.                                                       *)
(***************************************************************************)
EXTENDS NoFalseSharing, FiniteSetTheorems, TLAPS

NumIn  == Cardinality(CountedIn)
NumOut == Cardinality(CountedOut)

\* On the way up.
AtMostIn ==
    /\ thread_counts <= NumIn
    /\ \A t \in Threads : thread[t].at = "store" => thread[t].eax <= NumIn

\* On the way down.
AtLeastNotOut ==
    /\ Through # {} => thread_counts >= NumThreads - NumOut
    /\ \A t \in Threads :
          thread[t].at = "storeAgain" => thread[t].eax >= NumThreads - NumOut

\* Who has counted itself in, or is about to, has its line in the trace.
Written == {t \in Threads : \E n \in DOMAIN trace : trace[n] = <<"W", "thread_counts", t>>}
InIsWritten ==
    \A t \in Threads :
        t \in CountedIn \/ (thread[t].at = "store" /\ thread[t].recorded) => t \in Written

IndexInRange ==
    \A t \in Threads : thread[t].at \notin {"loadAgain", "storeAgain", "finished"} =>
        thread[t].i < NumElements

BarrierInv ==
    /\ TypeOK /\ AtMostIn /\ AtLeastNotOut /\ AllArrived
    /\ IndexInRange /\ InIsWritten /\ BarrierInTrace

-----------------------------------------------------------------------------
LEMMA SizeOfThreads == IsFiniteSet(Threads) /\ Cardinality(Threads) = NumThreads
BY FS_Interval, NumbersAssumption, SMT DEF Threads

LEMMA SizesOfSets ==
    ASSUME NEW S \in SUBSET Threads
    PROVE  /\ IsFiniteSet(S) /\ Cardinality(S) \in 0 .. NumThreads
           /\ Cardinality(S) = NumThreads => S = Threads
<1>2. IsFiniteSet(S) /\ Cardinality(S) <= NumThreads
  BY SizeOfThreads, FS_Subset
<1>3. Cardinality(S) = NumThreads => S = Threads
  BY SizeOfThreads, FS_Subset
<1>4. Cardinality(S) \in Nat
  BY <1>2, FS_CardinalityType
<1> QED  BY <1>2, <1>3, <1>4, NumbersAssumption

LEMMA SetsOfThreads ==
    /\ CountedIn \in SUBSET Threads /\ CountedOut \in SUBSET Threads
    /\ NumIn \in 0 .. NumThreads /\ NumOut \in 0 .. NumThreads
    /\ NumIn = NumThreads => CountedIn = Threads
    /\ NumOut = NumThreads => CountedOut = Threads
<1>1. CountedIn \in SUBSET Threads /\ CountedOut \in SUBSET Threads
  BY DEF CountedIn, CountedOut
<1> QED  BY <1>1, SizesOfSets DEF NumIn, NumOut

\* An access moves its own thread only.
Moves(t, at, p) ==
    /\ thread[t].at = at /\ thread[t].recorded
    /\ thread'[t].at = p /\ ~thread'[t].recorded
    /\ thread'[t].eax = IF at \in {"load", "loadAgain"} THEN thread_counts ELSE thread[t].eax
    /\ thread'[t].i = IF at = "element" THEN thread[t].i + 1 ELSE thread[t].i
    /\ \A u \in Threads \ {t} : thread'[u] = thread[u]
    /\ main' = main /\ trace' = trace

LEMMA AccessMoves ==
    ASSUME TypeOK, NEW t \in Threads, NEW at \in Accesses, NEW p \in Place, Access(t, at, p)
    PROVE  Moves(t, at, p)
BY DEF Access, TypeOK, Moves

\* The three sets after an access.
Regroups(t, at, p) ==
    /\ CountedIn' = IF p \in {"none", "load", "store"} THEN CountedIn \ {t}
                    ELSE CountedIn \cup {t}
    /\ Through' = IF p \in {"element", "loadAgain", "storeAgain", "finished"}
                  THEN Through \cup {t} ELSE Through \ {t}
    /\ CountedOut' = IF p = "finished" THEN CountedOut \cup {t} ELSE CountedOut \ {t}
    /\ t \in CountedIn <=> at \notin {"load", "store"}
    /\ t \in Through <=> at \in {"element", "loadAgain", "storeAgain"}
    /\ t \notin CountedOut

LEMMA SetsAfterAccess ==
    ASSUME TypeOK, NEW t \in Threads, NEW at \in Accesses, NEW p \in Place, Access(t, at, p)
    PROVE  Regroups(t, at, p)
<1>m. Moves(t, at, p)
  BY AccessMoves
<1>1. CountedIn' = IF p \in {"none", "load", "store"} THEN CountedIn \ {t}
                  ELSE CountedIn \cup {t}
  BY <1>m DEF Moves, CountedIn, Accesses, Place
<1>2. Through' = IF p \in {"element", "loadAgain", "storeAgain", "finished"}
                THEN Through \cup {t} ELSE Through \ {t}
  BY <1>m DEF Moves, Through, Accesses, Place
<1>3. CountedOut' = IF p = "finished" THEN CountedOut \cup {t} ELSE CountedOut \ {t}
  BY <1>m DEF Moves, CountedOut, Accesses, Place
<1>4. /\ t \in CountedIn <=> at \notin {"load", "store"}
      /\ t \in Through <=> at \in {"element", "loadAgain", "storeAgain"}
      /\ t \notin CountedOut
  BY <1>m DEF Moves, CountedIn, Through, CountedOut, Accesses
<1> QED  BY <1>1, <1>2, <1>3, <1>4 DEF Regroups

\* What the trace promises outlasts an access, which writes no line, if nobody has
\* come to be counted in whose line was not written.
LEMMA TraceAfterAccess ==
    ASSUME BarrierInv, NEW t \in Threads, NEW at \in Accesses, NEW p \in Place,
           Access(t, at, p), p \in {"none", "load", "store"} \/ at # "load"
    PROVE  InIsWritten' /\ BarrierInTrace'
<1>m. Moves(t, at, p) /\ Regroups(t, at, p)
  BY AccessMoves, SetsAfterAccess DEF BarrierInv
<1>1. Written' = Written /\ trace' = trace
  BY <1>m DEF Moves, Written
<1>2. BarrierInTrace'
  BY <1>1 DEF BarrierInTrace, BarrierInv
<1>3. ASSUME NEW u \in Threads,
             u \in CountedIn' \/ (thread'[u].at = "store" /\ thread'[u].recorded)
      PROVE  u \in Written
  <2>1. CASE u # t
    BY <1>3, <1>m, <2>1 DEF InIsWritten, BarrierInv, Moves, Regroups
  <2>2. CASE u = t
    BY <1>3, <1>m, <2>2 DEF InIsWritten, BarrierInv, Moves, Regroups, Accesses
  <2> QED  BY <2>1, <2>2
<1> QED  BY <1>1, <1>2, <1>3 DEF InIsWritten

\* An access keeps the types, and the indices in range, if it keeps the counter's.
LEMMA TypesAfterAccess ==
    ASSUME BarrierInv, NEW t \in Threads, NEW at \in Accesses, NEW p \in Place,
           Access(t, at, p), thread_counts' \in 0 .. NumThreads,
           p = "element" => at = "test" \/ thread[t].i + 1 < NumElements
    PROVE  TypeOK'
<1>m. Moves(t, at, p)
  BY AccessMoves DEF BarrierInv
<1> DEFINE ThreadRecord == [at : Place, recorded : BOOLEAN, eax : 0 .. NumThreads,
                            i : 0 .. NumElements]
<1>1. thread \in [Threads -> ThreadRecord] /\ thread_counts \in 0 .. NumThreads
  BY DEF BarrierInv, TypeOK
<1>2. thread[t].i \in 0 .. NumElements /\ thread[t].eax \in 0 .. NumThreads
  BY <1>1
<1>3. at = "element" => thread[t].i < NumElements
  BY <1>m DEF BarrierInv, IndexInRange, Moves
<1> DEFINE eax == IF at \in {"load", "loadAgain"} THEN thread_counts ELSE thread[t].eax
           i == IF at = "element" THEN thread[t].i + 1 ELSE thread[t].i
<1>4. i \in 0 .. NumElements /\ eax \in 0 .. NumThreads
  BY <1>1, <1>2, <1>3, NumbersAssumption
<1>5. thread'[t] \in ThreadRecord
  <2>1. thread'[t] = [at |-> p, recorded |-> FALSE, eax |-> eax, i |-> i]
    BY <1>1 DEF Access
  <2> HIDE DEF eax, i
  <2> QED  BY <2>1, <1>4
<1>6. thread' \in [Threads -> ThreadRecord]
  <2>1. thread' = [u \in Threads |-> thread'[u]]
    BY <1>1 DEF Access
  <2> QED  BY <2>1, <1>1, <1>5, <1>m DEF Moves
<1> QED  BY <1>6 DEF BarrierInv, TypeOK, Access

-----------------------------------------------------------------------------
(***************************************************************************)
(* The accesses, one by one.                                               *)
(***************************************************************************)
LEMMA LoadKeeps ==
    ASSUME BarrierInv, NEW t \in Threads, Load(t)
    PROVE  BarrierInv'
<1> USE DEF BarrierInv, Load
<1>1. "load" \in Accesses /\ "store" \in Place
  BY DEF Accesses, Place
<1>m. Moves(t, "load", "store") /\ Regroups(t, "load", "store")
  BY <1>1, AccessMoves, SetsAfterAccess
<1>2. TypeOK' /\ InIsWritten' /\ BarrierInTrace'
  BY <1>1, TypesAfterAccess, TraceAfterAccess DEF TypeOK
<1>3. CountedIn' = CountedIn /\ Through' = Through /\ CountedOut' = CountedOut
  BY <1>m DEF Regroups
<1>4. AtMostIn'
  BY <1>m, <1>3 DEF AtMostIn, Moves, NumIn
<1>5. AtLeastNotOut' /\ AllArrived' /\ IndexInRange'
  BY <1>m, <1>3 DEF AtLeastNotOut, AllArrived, IndexInRange, Moves, NumOut
<1> QED  BY <1>2, <1>4, <1>5

\* The one who counts itself in is not among those counted yet.
LEMMA StoreKeeps ==
    ASSUME BarrierInv, NEW t \in Threads, Store(t)
    PROVE  BarrierInv'
<1> USE DEF BarrierInv, Store
<1>1. "store" \in Accesses /\ "test" \in Place
  BY DEF Accesses, Place
<1>m. Moves(t, "store", "test") /\ Regroups(t, "store", "test")
  BY <1>1, AccessMoves, SetsAfterAccess
<1>3. /\ CountedIn' = CountedIn \cup {t} /\ t \notin CountedIn
      /\ Through' = Through /\ CountedOut' = CountedOut
  BY <1>m DEF Regroups
<1>4. /\ NumIn' = NumIn + 1 /\ NumOut' = NumOut
      /\ NumIn \in Nat /\ NumIn + 1 <= NumThreads
  <2>1. NumIn' = NumIn + 1
    BY <1>3, SetsOfThreads, SizesOfSets, FS_AddElement DEF NumIn
  <2>2. CountedIn \cup {t} \in SUBSET Threads
    BY SetsOfThreads
  <2>3. NumIn' \in 0 .. NumThreads
    BY <1>3, <2>2, SizesOfSets DEF NumIn
  <2> QED  BY <2>1, <2>3, <1>3, SetsOfThreads DEF NumOut
<1>5. thread_counts' = thread[t].eax + 1 /\ thread[t].eax \in 0 .. NumIn
  BY <1>m, <1>4 DEF AtMostIn, Moves, TypeOK
<1>6. TypeOK'
  BY <1>1, <1>4, <1>5, TypesAfterAccess, NumbersAssumption
<1>7. InIsWritten' /\ BarrierInTrace'
  BY <1>1, TraceAfterAccess
<1>8. AtMostIn'
  <2>1. ASSUME NEW u \in Threads, thread'[u].at = "store"  PROVE thread'[u].eax <= NumIn
    BY <1>m, <2>1 DEF AtMostIn, Moves
  <2>2. \A u \in Threads : thread'[u].eax \in Int
    BY <1>6 DEF TypeOK
  <2> QED  BY <1>4, <1>5, <2>1, <2>2 DEF AtMostIn
<1>9. Through = {}
  BY <1>3 DEF AllArrived
<1>10. AtLeastNotOut' /\ AllArrived' /\ IndexInRange'
  BY <1>m, <1>3, <1>4, <1>9 DEF AtLeastNotOut, AllArrived, IndexInRange, Moves
<1> QED  BY <1>6, <1>7, <1>8, <1>10

\* Who sees NumThreads knows that all are in, and that nobody is out.
LEMMA TestKeeps ==
    ASSUME BarrierInv, NEW t \in Threads, Test(t)
    PROVE  BarrierInv'
<1> USE DEF BarrierInv
<1>0. PICK p \in {"test", "element"} :
         /\ Access(t, "test", p) /\ thread_counts' = thread_counts
         /\ p = "element" => thread_counts = NumThreads
  BY DEF Test, allCounted
<1>1. "test" \in Accesses /\ p \in Place
  BY DEF Accesses, Place
<1>m. Moves(t, "test", p) /\ Regroups(t, "test", p)
  BY <1>0, <1>1, AccessMoves, SetsAfterAccess
<1>2. TypeOK' /\ InIsWritten' /\ BarrierInTrace'
  BY <1>0, <1>1, TypesAfterAccess, TraceAfterAccess DEF TypeOK
<1>3. CountedIn' = CountedIn /\ CountedOut' = CountedOut
  BY <1>m DEF Regroups
<1>4. AtMostIn'
  BY <1>0, <1>m, <1>3 DEF AtMostIn, Moves, NumIn
<1>5. p = "element" => CountedIn = Threads
  BY <1>0, SetsOfThreads, NumbersAssumption DEF AtMostIn
<1>6. AllArrived'
  BY <1>m, <1>3, <1>5 DEF AllArrived, Regroups
<1>7. AtLeastNotOut'
  <2>1. Through' # {} => thread_counts >= NumThreads - NumOut
    BY <1>0, <1>m, SetsOfThreads, NumbersAssumption DEF AtLeastNotOut, Regroups
  <2> QED  BY <2>1, <1>0, <1>m, <1>3 DEF AtLeastNotOut, Moves, NumOut
<1>8. IndexInRange'
  BY <1>0, <1>m DEF IndexInRange, Moves
<1> QED  BY <1>2, <1>4, <1>6, <1>7, <1>8

LEMMA ElementKeeps ==
    ASSUME BarrierInv, NEW t \in Threads, Element(t)
    PROVE  BarrierInv'
<1> USE DEF BarrierInv
<1>0. PICK p \in {"element", "loadAgain"} :
         /\ Access(t, "element", p) /\ thread_counts' = thread_counts
         /\ p = "element" => thread[t].i + 1 < NumElements
  BY DEF Element
<1>1. "element" \in Accesses /\ p \in Place
  BY DEF Accesses, Place
<1>m. Moves(t, "element", p) /\ Regroups(t, "element", p)
  BY <1>0, <1>1, AccessMoves, SetsAfterAccess
<1>2. TypeOK' /\ InIsWritten' /\ BarrierInTrace'
  BY <1>0, <1>1, TypesAfterAccess, TraceAfterAccess DEF TypeOK
<1>3. CountedIn' = CountedIn /\ Through' = Through /\ CountedOut' = CountedOut
  BY <1>m DEF Regroups
<1>4. AtMostIn'
  BY <1>0, <1>m, <1>3 DEF AtMostIn, Moves, NumIn
<1>5. AtLeastNotOut' /\ AllArrived'
  BY <1>0, <1>m, <1>3 DEF AtLeastNotOut, AllArrived, Moves, NumOut
<1>6. IndexInRange'
  BY <1>0, <1>m DEF IndexInRange, Moves
<1> QED  BY <1>2, <1>4, <1>5, <1>6

LEMMA LoadAgainKeeps ==
    ASSUME BarrierInv, NEW t \in Threads, LoadAgain(t)
    PROVE  BarrierInv'
<1> USE DEF BarrierInv, LoadAgain
<1>1. "loadAgain" \in Accesses /\ "storeAgain" \in Place
  BY DEF Accesses, Place
<1>m. Moves(t, "loadAgain", "storeAgain") /\ Regroups(t, "loadAgain", "storeAgain")
  BY <1>1, AccessMoves, SetsAfterAccess
<1>2. TypeOK' /\ InIsWritten' /\ BarrierInTrace'
  BY <1>1, TypesAfterAccess, TraceAfterAccess DEF TypeOK
<1>3. CountedIn' = CountedIn /\ Through' = Through /\ CountedOut' = CountedOut
  BY <1>m DEF Regroups
<1>4. AtMostIn'
  BY <1>m, <1>3 DEF AtMostIn, Moves, NumIn
<1>5. Through # {}
  BY <1>m DEF Regroups
<1>6. AtLeastNotOut' /\ AllArrived' /\ IndexInRange'
  BY <1>m, <1>3, <1>5 DEF AtLeastNotOut, AllArrived, IndexInRange, Moves, NumOut
<1> QED  BY <1>2, <1>4, <1>6

\* The one who counts itself out is not out yet, and what it stores is at least the
\* number of those who are not.
LEMMA StoreAgainKeeps ==
    ASSUME BarrierInv, NEW t \in Threads, StoreAgain(t)
    PROVE  BarrierInv'
<1> USE DEF BarrierInv, StoreAgain
<1>1. "storeAgain" \in Accesses /\ "finished" \in Place
  BY DEF Accesses, Place
<1>m. Moves(t, "storeAgain", "finished") /\ Regroups(t, "storeAgain", "finished")
  BY <1>1, AccessMoves, SetsAfterAccess
<1>3. /\ CountedOut' = CountedOut \cup {t} /\ t \notin CountedOut
      /\ CountedIn' = CountedIn /\ Through' = Through /\ t \in Through
  BY <1>m DEF Regroups
<1>4. /\ NumOut' = NumOut + 1 /\ NumIn' = NumIn /\ NumIn = NumThreads
      /\ NumOut \in Nat /\ NumOut + 1 <= NumThreads
  <2>1. NumOut' = NumOut + 1
    BY <1>3, SetsOfThreads, SizesOfSets, FS_AddElement DEF NumOut
  <2>2. CountedOut \cup {t} \in SUBSET Threads
    BY SetsOfThreads
  <2>3. NumOut' \in 0 .. NumThreads
    BY <1>3, <2>2, SizesOfSets DEF NumOut
  <2>4. NumIn = NumThreads
    BY <1>3, SizeOfThreads DEF AllArrived, NumIn
  <2> QED  BY <2>1, <2>3, <2>4, <1>3, SetsOfThreads DEF NumIn
<1>5. /\ thread_counts' = thread[t].eax - 1
      /\ thread[t].eax \in NumThreads - NumOut .. NumThreads
  BY <1>m, <1>4, NumbersAssumption DEF AtLeastNotOut, Moves, TypeOK
<1>6. TypeOK'
  BY <1>1, <1>4, <1>5, TypesAfterAccess, NumbersAssumption
<1>7. InIsWritten' /\ BarrierInTrace'
  BY <1>1, TraceAfterAccess
<1>8. AtMostIn'
  <2>1. thread_counts' <= NumIn
    BY <1>4, <1>5, NumbersAssumption
  <2>2. ASSUME NEW u \in Threads, thread'[u].at = "store"  PROVE thread'[u].eax <= NumIn
    BY <1>m, <2>2 DEF AtMostIn, Moves
  <2> QED  BY <2>1, <2>2, <1>4 DEF AtMostIn
<1>9. AtLeastNotOut'
  <2>1. thread_counts' >= NumThreads - NumOut'
    BY <1>4, <1>5, NumbersAssumption
  <2>2. ASSUME NEW u \in Threads, thread'[u].at = "storeAgain"
        PROVE  thread'[u].eax >= NumThreads - NumOut
    BY <1>m, <2>2 DEF AtLeastNotOut, Moves
  <2>3. \A u \in Threads : thread'[u].eax \in Int
    BY <1>6 DEF TypeOK
  <2> QED  BY <1>4, <2>1, <2>2, <2>3, NumbersAssumption DEF AtLeastNotOut
<1>10. AllArrived' /\ IndexInRange'
  BY <1>m, <1>3 DEF AllArrived, IndexInRange, Moves
<1> QED  BY <1>6, <1>7, <1>8, <1>9, <1>10

-----------------------------------------------------------------------------
(***************************************************************************)
(* Records of accesses, and main.                                          *)
(***************************************************************************)
\* What a record adds to the trace: one line, or none.
LEMMA LineAdded ==
    ASSUME BarrierInv, NEW t \in Threads, Record(t)
    PROVE  \/ /\ trace' = trace
              /\ thread[t].at \notin {"load", "store", "element"}
           \/ /\ thread[t].at = "load"
              /\ trace' = Append(trace, <<"R", "thread_counts", t>>)
           \/ /\ thread[t].at = "store"
              /\ trace' = Append(trace, <<"W", "thread_counts", t>>)
           \/ /\ thread[t].at = "element"
              /\ trace' = Append(trace, <<"W", "array", t>>)
BY DEF Record, Instrument, RecordMemRead, RecordMemWrite

LEMMA RecordKeeps ==
    ASSUME BarrierInv, NEW t \in Threads, Record(t)
    PROVE  BarrierInv'
<1> DEFINE TraceLine == {"R", "W"} \X {"thread_counts", "array"} \X Threads
<1>0. trace \in Seq(TraceLine)
  BY DEF BarrierInv, TypeOK
<1>1. \/ trace' = trace /\ thread[t].at # "store"
      \/ \E l \in TraceLine :
            /\ trace' = Append(trace, l)
            /\ l[2] = "array" => t \in Through
            /\ thread[t].at = "store" => l = <<"W", "thread_counts", t>>
  <2>1. thread[t].at = "element" => t \in Through
    BY DEF Through
  <2> QED  BY <2>1, LineAdded
<1>2. \A u \in Threads : /\ thread'[u].at = thread[u].at /\ thread'[u].eax = thread[u].eax
                         /\ thread'[u].i = thread[u].i
                         /\ u # t => thread'[u] = thread[u]
  BY DEF Record, BarrierInv, TypeOK
<1>3. CountedIn' = CountedIn /\ Through' = Through /\ CountedOut' = CountedOut
  BY <1>2 DEF CountedIn, Through, CountedOut
<1>4. TypeOK'
  <2>1. trace' \in Seq(TraceLine)
    BY <1>0, <1>1
  <2>2. thread' \in [Threads -> [at : Place, recorded : BOOLEAN, eax : 0 .. NumThreads,
                                i : 0 .. NumElements]]
    BY DEF Record, BarrierInv, TypeOK
  <2> QED  BY <2>1, <2>2 DEF Record, BarrierInv, TypeOK
<1>5. AtMostIn' /\ AtLeastNotOut' /\ AllArrived' /\ IndexInRange'
  BY <1>2, <1>3
  DEF Record, BarrierInv, AtMostIn, AtLeastNotOut, AllArrived, IndexInRange, NumIn, NumOut
<1>6. \A n \in DOMAIN trace : n \in DOMAIN trace' /\ trace'[n] = trace[n]
  BY <1>0, <1>1
<1>7. InIsWritten'
  <2>1. Written \subseteq Written'
    BY <1>6 DEF Written
  <2>2. thread[t].at = "store" => t \in Written'
    <3>1. CASE trace' = Append(trace, <<"W", "thread_counts", t>>)
      <4>1. Len(trace) + 1 \in DOMAIN trace'
        BY <1>0, <3>1
      <4>2. trace'[Len(trace) + 1] = <<"W", "thread_counts", t>>
        BY <1>0, <3>1
      <4> QED  BY <4>1, <4>2 DEF Written
    <3> QED  BY <1>1, <3>1
  <2> QED  BY <1>2, <1>3, <2>1, <2>2 DEF BarrierInv, InIsWritten
<1>8. BarrierInTrace'
  <2> SUFFICES ASSUME NEW m \in DOMAIN trace', trace'[m][2] = "array", NEW u \in Threads
               PROVE  \E n \in 1 .. m - 1 : trace'[n] = <<"W", "thread_counts", u>>
    BY DEF BarrierInTrace
  <2>1. CASE m \in DOMAIN trace
    <3>1. PICK n \in 1 .. m - 1 : trace[n] = <<"W", "thread_counts", u>>
      BY <1>6, <2>1 DEF BarrierInv, BarrierInTrace
    <3>2. n \in DOMAIN trace
      BY <1>0, <2>1
    <3> QED  BY <1>6, <3>1, <3>2
  <2>2. CASE m \notin DOMAIN trace
    <3>1. m = Len(trace) + 1 /\ t \in Through
      BY <1>0, <1>1, <2>2
    <3>2. u \in Written
      BY <3>1 DEF BarrierInv, AllArrived, InIsWritten
    <3>3. PICK n \in DOMAIN trace : trace[n] = <<"W", "thread_counts", u>>
      BY <3>2 DEF Written
    <3>4. n \in 1 .. m - 1
      BY <1>0, <3>1
    <3> QED  BY <1>6, <3>3, <3>4
  <2> QED  BY <2>1, <2>2
<1> QED  BY <1>4, <1>5, <1>7, <1>8 DEF BarrierInv

LEMMA CreateKeeps ==
    ASSUME BarrierInv, NEW t \in Threads, Create(t)
    PROVE  BarrierInv'
<1>1. /\ thread[t].at = "none" /\ thread'[t].at = "load"
      /\ thread'[t].i = thread[t].i
      /\ \A u \in Threads \ {t} : thread'[u] = thread[u]
      /\ thread_counts' = thread_counts /\ trace' = trace
  BY DEF Create, BarrierInv, TypeOK
<1>2. CountedIn' = CountedIn /\ Through' = Through /\ CountedOut' = CountedOut
  BY <1>1 DEF CountedIn, Through, CountedOut
<1>3. TypeOK'
  BY DEF BarrierInv, TypeOK, Create, Place, Accesses
<1>4. AtMostIn' /\ AtLeastNotOut' /\ AllArrived' /\ IndexInRange'
  BY <1>1, <1>2
  DEF BarrierInv, AtMostIn, AtLeastNotOut, AllArrived, IndexInRange, NumIn, NumOut
<1>5. InIsWritten' /\ BarrierInTrace'
  BY <1>1, <1>2 DEF BarrierInv, InIsWritten, Written, BarrierInTrace
<1> QED  BY <1>3, <1>4, <1>5 DEF BarrierInv

\* CreateFails, Return and stuttering change main only.
LEMMA ThreadsUnchangedKeeps ==
    ASSUME BarrierInv, UNCHANGED <<thread_counts, thread, trace>>,
           main' \in {main, "exited", "returned"}
    PROVE  BarrierInv'
<1>1. CountedIn' = CountedIn /\ Through' = Through /\ CountedOut' = CountedOut
  BY DEF CountedIn, Through, CountedOut
<1>2. TypeOK'
  BY DEF BarrierInv, TypeOK
<1>3. AtMostIn' /\ AtLeastNotOut' /\ AllArrived' /\ IndexInRange'
  BY <1>1 DEF BarrierInv, AtMostIn, AtLeastNotOut, AllArrived, IndexInRange, NumIn, NumOut
<1>4. InIsWritten' /\ BarrierInTrace'
  BY <1>1 DEF BarrierInv, InIsWritten, Written, BarrierInTrace
<1> QED  BY <1>2, <1>3, <1>4 DEF BarrierInv

-----------------------------------------------------------------------------
LEMMA InitEstablishes == Init => BarrierInv
<1> SUFFICES ASSUME Init  PROVE BarrierInv
  OBVIOUS
<1>1. CountedIn = {} /\ Through = {} /\ CountedOut = {}
  BY DEF Init, CountedIn, Through, CountedOut
<1>2. TypeOK
  BY NumbersAssumption DEF Init, TypeOK, TraceInit, Place
<1>3. AtMostIn
  BY <1>1, SetsOfThreads DEF Init, AtMostIn
<1>4. AtLeastNotOut /\ AllArrived /\ IndexInRange
  BY <1>1, NumbersAssumption DEF Init, AtLeastNotOut, AllArrived, IndexInRange
<1>5. InIsWritten /\ BarrierInTrace
  BY <1>1 DEF Init, TraceInit, InIsWritten, BarrierInTrace
<1> QED  BY <1>2, <1>3, <1>4, <1>5 DEF BarrierInv

LEMMA NextPreserves == BarrierInv /\ [Next]_vars => BarrierInv'
<1> SUFFICES ASSUME BarrierInv, [Next]_vars  PROVE BarrierInv'
  OBVIOUS
<1>1. CASE CreateFails
  BY <1>1, ThreadsUnchangedKeeps DEF CreateFails
<1>2. CASE Return
  BY <1>2, ThreadsUnchangedKeeps DEF Return
<1>3. CASE UNCHANGED vars
  BY <1>3, ThreadsUnchangedKeeps DEF vars
<1>4. CASE \E t \in Threads : Create(t)
  BY <1>4, CreateKeeps
<1>5. CASE \E t \in Threads : Step(t)
  <2>1. PICK t \in Threads : Step(t)
    BY <1>5
  <2> QED  BY <2>1, RecordKeeps, LoadKeeps, StoreKeeps, TestKeeps, ElementKeeps,
              LoadAgainKeeps, StoreAgainKeeps DEF Step
<1> QED  BY <1>1, <1>2, <1>3, <1>4, <1>5 DEF Next, Main

\* The inductive invariant: lost updates of thread_counts err to one side only.
THEOREM BarrierInvHolds == Spec => []BarrierInv
<1> QED  BY InitEstablishes, NextPreserves, PTL DEF Spec

\* The counter stays between 0 and the number of threads, whatever is lost.
THEOREM CounterInRange == Spec => []TypeOK
<1>1. BarrierInv => TypeOK
  BY DEF BarrierInv
<1> QED  BY <1>1, BarrierInvHolds, PTL

\* No thread passes the waiting loop of access_array before all have counted
\* themselves in.
THEOREM CounterIsBarrier == Spec => []AllArrived
<1>1. BarrierInv => AllArrived
  BY DEF BarrierInv
<1> QED  BY <1>1, BarrierInvHolds, PTL

\* The trace shows the barrier, although a line is written before its access.
THEOREM TraceShowsBarrier == Spec => []BarrierInTrace
<1>1. BarrierInv => BarrierInTrace
  BY DEF BarrierInv
<1> QED  BY <1>1, BarrierInvHolds, PTL

\* main does not return in the middle of the threads' work.
THEOREM ReturnIsBeforeOrAfter == Spec => ReturnsBeforeOrAfter
<1>1. BarrierInv /\ [Next]_vars => [Return => Through = {} \/ CountedOut = Threads]_vars
  <2> SUFFICES ASSUME BarrierInv, Return, Through # {}  PROVE CountedOut = Threads
    OBVIOUS
  <2>1. NumThreads - NumOut <= 0
    BY SetsOfThreads, NumbersAssumption DEF BarrierInv, AtLeastNotOut, Return
  <2> QED  BY <2>1, SetsOfThreads, NumbersAssumption
<1> QED  BY <1>1, BarrierInvHolds, PTL DEF Spec, ReturnsBeforeOrAfter
===============================================================================
