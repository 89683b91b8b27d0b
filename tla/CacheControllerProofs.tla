------------------------ MODULE CacheControllerProofs ------------------------
(***************************************************************************)
(* Proofs about the whole simulator, for any number of processors, sets,   *)
(* ways, blocks and costs, any trace and each of the protocols.            *)
(***************************************************************************)
EXTENDS CacheController, AtomicBusManagerProofs

HasPending(i) == cache[i].pendingJobs # <<>>

\* The bus is in use when a cache is served, and serves that one.
BusServes ==
    /\ bus.inUse => bus.currentCache \in Caches
                    /\ cache[bus.currentCache].busRequestBeingServiced
    /\ \A i \in Caches : cache[i].busRequestBeingServiced =>
          bus.inUse /\ bus.currentCache = i

\* A job is picked up by its cache's turn, and a request by the bus's turn, of the
\* cycle in which they have come.
PickedUp ==
    \A i \in Caches : LET k == cache[i] IN
        /\ HasPending(i) => phase = "caches" /\ turn <= i
        /\ k.haveBusRequest /\ ~k.busRequestBeingServiced =>
              phase = "bus" \/ (phase = "caches" /\ i < turn)

ControlInv ==
    /\ OneJobAtATime
    /\ \A i \in Caches : Flags(cache[i])
    /\ BusServes
    /\ PickedUp

\* The inductive invariant.
Inv == TypeOK /\ AllWellFormed(cache) /\ ControlInv

LEMMA InitInv == Init => Inv
<1> SUFFICES ASSUME Init  PROVE Inv
  OBVIOUS
<1>1. \A set \in Sets : NewCache.localCache[set] = <<>>
  BY DEF NewCache
<1>2. NewCache \in CacheRecord
  BY DEF NewCache, CacheRecord, NULL
<1>3. WellFormed(NewCache)
  BY <1>1, <1>2, SizesAssumption DEF WellFormed, Sound
<1>4. AllWellFormed(cache)
  BY <1>2, <1>3 DEF Init, AllWellFormed
<1>5. \A i \in Caches : cache[i] = NewCache
  BY DEF Init
<1>6. ControlInv
  <2>1. OneJobAtATime
    BY <1>5 DEF OneJobAtATime, NewCache
  <2>2. \A i \in Caches : Flags(cache[i])
    BY <1>5 DEF Flags, NewCache
  <2>3. BusServes
    BY <1>5 DEF BusServes, NewCache, Init, NewBus
  <2>4. PickedUp
    BY <1>5 DEF PickedUp, HasPending, NewCache
  <2> QED  BY <2>1, <2>2, <2>3, <2>4 DEF ControlInv
<1>7. TypeOK
  <2>1. ReaderTypeOK
    BY AddressZeroAssumption DEF Init, ReaderInit, ReaderTypeOK, Op
  <2>2. 0 \in Caches
    BY SizesAssumption DEF Caches
  <2>3. stats \in [Counters -> Nat]
    BY DEF Init, CacheStats
  <2>4. bus \in [inUse : BOOLEAN, currentCache : Caches \cup {-1}, startCycle : Nat,
                 endCycle : Int, isShared : BOOLEAN]
    BY <2>2 DEF Init, NewBus
  <2> QED  BY <1>4, <2>1, <2>2, <2>3, <2>4, TraceAssumption
           DEF Init, TypeOK, AllWellFormed
<1> QED  BY <1>4, <1>6, <1>7 DEF Inv

-----------------------------------------------------------------------------
(***************************************************************************)
(* The loop.                                                               *)
(***************************************************************************)
\* When a cycle is over, nobody has a job pending or a request not served.
LEMMA LoopIsQuiet ==
    ASSUME Inv, phase = "loop"
    PROVE  \A i \in Caches : /\ cache[i].pendingJobs = <<>>
                             /\ cache[i].haveBusRequest => cache[i].busRequestBeingServiced
BY DEF Inv, ControlInv, PickedUp, HasPending

\* A step that only moves on to another part of the cycle.
LEMMA PhaseMoves ==
    ASSUME Inv, phase = "loop", UNCHANGED <<cache, bus>>
    PROVE  AllWellFormed(cache') /\ ControlInv'
<1>1. AllWellFormed(cache')
  BY DEF Inv
<1>2. OneJobAtATime' /\ BusServes' /\ \A i \in Caches : Flags(cache[i])'
  BY DEF Inv, ControlInv, OneJobAtATime, BusServes
<1>3. PickedUp'
  BY LoopIsQuiet DEF PickedUp, HasPending
<1> QED  BY <1>1, <1>2, <1>3 DEF ControlInv

LEMMA FinishInv == Inv /\ Finish => Inv'
<1> SUFFICES ASSUME Inv, Finish  PROVE Inv'
  OBVIOUS
<1>1. AllWellFormed(cache') /\ ControlInv'
  BY PhaseMoves DEF Finish
<1>2. TypeOK'
  BY DEF Inv, TypeOK, Finish, ReaderTypeOK, readerVars
<1> QED  BY <1>1, <1>2 DEF Inv

LEMMA NextCycleInv == Inv /\ NextCycle => Inv'
<1> SUFFICES ASSUME Inv, NextCycle  PROVE Inv'
  OBVIOUS
<1>1. AllWellFormed(cache') /\ ControlInv'
  BY PhaseMoves DEF NextCycle
<1>2. TypeOK'
  <2>1. 0 \in Caches
    BY SizesAssumption DEF Caches
  <2> QED  BY <2>1 DEF Inv, TypeOK, NextCycle, tick, ReaderTypeOK, readerVars
<1> QED  BY <1>1, <1>2 DEF Inv

\* What a line of the trace is made of is an operation, a block and a thread.
LEMMA ScannedType ==
    ASSUME ReaderTypeOK, NEW l \in TraceLines
    PROVE  /\ scanned(l).readWrite \in Op /\ scanned(l).address \in Blocks
           /\ scanned(l).threadId \in Nat
<1> USE DEF ReaderTypeOK, scanned
<1>1. CASE l = <<>>
  BY <1>1
<1>2. CASE \E op \in Op : l = <<op>>
  BY <1>2
<1>3. CASE \E op \in Op, b \in Blocks : l = <<op, b>>
  BY <1>3
<1>4. CASE l \in Fields
  <2>1. Len(l) = 3 /\ l[1] \in Op /\ l[2] \in Blocks /\ l[3] \in Nat
    BY <1>4 DEF Fields
  <2> QED  BY <2>1
<1> QED  BY <1>1, <1>2, <1>3, <1>4, TraceLinesAssumption

LEMMA NextJobInv == Inv /\ (\E l \in TraceLines : NextJob(l)) => Inv'
<1> SUFFICES ASSUME Inv, NEW l \in TraceLines, NextJob(l)  PROVE Inv'
  OBVIOUS
<1> DEFINE p == accessProcessorId(l)
           job == jobOf(l)
           k == cache[p]
           r == [k EXCEPT !.pendingJobs = Append(@, job)]
<1>1. ReaderTypeOK /\ ReaderTypeOK'
  BY ScannedType DEF Inv, TypeOK, ReaderTypeOK, NextJob, HandOut, sscanf
<1>2. p \in Caches /\ job \in CacheJob
  <2>1. scanned(l).threadId % NumProcessors \in 0 .. NumProcessors - 1
    BY <1>1, ScannedType, SizesAssumption
  <2> QED  BY <1>1, <2>1, ScannedType
           DEF accessProcessorId, Caches, jobOf, CacheJob
<1>3. cache' = [cache EXCEPT ![p] = r]
  BY DEF NextJob, HandOut
<1>4. /\ \A i \in Caches : ~cache[i].busy /\ ~cache[i].haveBusRequest
      /\ \A i \in Caches : cache[i].pendingJobs = <<>> /\ Flags(cache[i])
  BY LoopIsQuiet DEF NextJob, HandOut, noJobs, Inv, ControlInv, Flags
<1>5. cache \in [Caches -> CacheRecord] /\ \A i \in Caches : WellFormed(cache[i])
  BY DEF Inv, AllWellFormed
<1> HIDE DEF p, job
<1>6. /\ WellFormed(r) /\ r.pendingJobs = Append(<<>>, job)
      /\ Flags(r) /\ ~r.busy /\ ~r.haveBusRequest
      /\ r.busRequestBeingServiced = k.busRequestBeingServiced
  <2>1. Append(<<>>, job) \in Seq(CacheJob) /\ k.pendingJobs = <<>>
    BY <1>2, <1>4
  <2>2. k \in CacheRecord /\ WellFormed(k) /\ ~k.busy /\ ~k.haveBusRequest /\ Flags(k)
    BY <1>2, <1>4, <1>5
  <2> DEFINE jobs == Append(<<>>, job)
  <2>3. r = [k EXCEPT !.pendingJobs = jobs]
    BY <2>1
  <2> HIDE DEF k, jobs, r
  <2>4. jobs \in Seq(CacheJob)
    BY <2>1 DEF jobs
  <2> QED  BY <2>2, <2>3, <2>4 DEF WellFormed, CacheRecord, Flags, jobs
<1>7. AllWellFormed(cache')
  BY <1>2, <1>3, <1>5, <1>6 DEF AllWellFormed, WellFormed
<1> HIDE DEF r
<1>8. \A i \in Caches : cache'[i] = IF i = p THEN r ELSE cache[i]
  BY <1>2, <1>3, <1>5
<1>9. \A i \in Caches : /\ ~cache'[i].busy /\ Len(cache'[i].pendingJobs) <= 1
                        /\ i # p => cache'[i].pendingJobs = <<>>
  <2>1. Len(<<>>) <= 1 /\ Len(Append(<<>>, job)) <= 1
    OBVIOUS
  <2> QED  BY <1>4, <1>6, <1>8, <2>1
<1> HIDE DEF k
<1>10. OneJobAtATime'
  BY <1>2, <1>9 DEF OneJobAtATime
<1>11. (\A i \in Caches : Flags(cache[i]))'
  BY <1>4, <1>6, <1>8
<1>12. BusServes'
  BY <1>2, <1>6, <1>8 DEF BusServes, Inv, ControlInv, NextJob, HandOut
<1>13. PickedUp'
  <2>1. phase' = "caches" /\ turn' = 0
    BY DEF NextJob, HandOut
  <2>2. \A i \in Caches : 0 <= i /\ ~cache'[i].haveBusRequest
    BY <1>4, <1>6, <1>8 DEF Caches
  <2> QED  BY <2>1, <2>2 DEF PickedUp, HasPending
<1>14. TypeOK'
  <2>1. 0 \in Caches
    BY SizesAssumption DEF Caches
  <2>2. outstandingRequests' \in 0 .. TraceLength
    BY TraceAssumption DEF NextJob, HandOut, Inv, TypeOK
  <2> QED  BY <1>1, <1>7, <2>1, <2>2
           DEF Inv, TypeOK, AllWellFormed, NextJob, HandOut, tick
<1> QED  BY <1>7, <1>10, <1>11, <1>12, <1>13, <1>14 DEF Inv, ControlInv
-----------------------------------------------------------------------------
(***************************************************************************)
(* A cache's turn.                                                         *)
(***************************************************************************)
LEMMA CacheTickStep ==
    ASSUME NEW i \in Caches, cache \in [Caches -> CacheRecord],
           stats \in [Counters -> Nat], CacheTick(i)
    PROVE  /\ cache' = IF cache[i].busRequestBeingServiced THEN cache
                       ELSE [cache EXCEPT ![i] = Ticked(cache[i])]
           /\ stats' \in [Counters -> Nat]
<1>1. CASE cache[i].busRequestBeingServiced
  BY <1>1 DEF CacheTick
<1>2. CASE ~cache[i].busRequestBeingServiced
  BY <1>2, CountKeeps DEF CacheTick, Ticked
<1> QED  BY <1>1, <1>2

LEMMA CacheTurnInv == Inv /\ CacheTurn => Inv'
<1> SUFFICES ASSUME Inv, CacheTurn  PROVE Inv'
  OBVIOUS
<1> DEFINE c == cache[turn]
           r == IF c.busRequestBeingServiced THEN c ELSE Ticked(c)
<1>1. /\ phase = "caches" /\ turn \in Caches /\ CacheTick(turn)
      /\ cache \in [Caches -> CacheRecord] /\ stats \in [Counters -> Nat]
      /\ cycles \in Nat /\ \A i \in Caches : WellFormed(cache[i])
  BY DEF Inv, TypeOK, CacheTurn, AllWellFormed
<1>2. cache' = [cache EXCEPT ![turn] = r] /\ stats' \in [Counters -> Nat]
  BY <1>1, CacheTickStep
<1>3. /\ WellFormed(c) /\ Flags(c) /\ Len(c.pendingJobs) <= 1
      /\ c.busy => c.pendingJobs = <<>>
      /\ c.haveBusRequest => c.busRequestBeingServiced
      /\ c.busRequestBeingServiced => c.busy
  <2>1. ~(turn < turn)
    BY <1>1 DEF Caches
  <2> QED  BY <1>1, <2>1 DEF Inv, ControlInv, OneJobAtATime, Flags, PickedUp
<1> HIDE DEF c
<1>4. /\ WellFormed(r) /\ Flags(r) /\ r.pendingJobs = <<>>
      /\ r.busRequestBeingServiced = c.busRequestBeingServiced
      /\ r.busy => c.busy \/ c.pendingJobs # <<>>
  <2>1. CASE c.busRequestBeingServiced
    BY <1>3, <2>1
  <2>2. CASE ~c.busRequestBeingServiced
    <3>1. /\ WellFormed(Ticked(c)) /\ Flags(Ticked(c))
          /\ Ticked(c).pendingJobs = <<>> /\ ~Ticked(c).busRequestBeingServiced
          /\ Ticked(c).busy => c.busy \/ c.pendingJobs # <<>>
      BY <1>1, <1>3, <2>2, TickedKeeps
    <3>2. c.busRequestBeingServiced \in BOOLEAN /\ Ticked(c).busRequestBeingServiced \in BOOLEAN
      BY <1>3, <3>1 DEF WellFormed, CacheRecord
    <3> QED  BY <2>2, <3>1, <3>2
  <2> QED  BY <2>1, <2>2
<1> HIDE DEF r
<1>5. \A i \in Caches : cache'[i] = IF i = turn THEN r ELSE cache[i]
  BY <1>1, <1>2
<1>6. AllWellFormed(cache')
  BY <1>1, <1>2, <1>4 DEF AllWellFormed, WellFormed
<1>7. OneJobAtATime'
  <2>1. \A i \in Caches : /\ Len(cache'[i].pendingJobs) <= 1
                          /\ cache'[i].busy => cache'[i].pendingJobs = <<>>
    BY <1>4, <1>5 DEF Inv, ControlInv, OneJobAtATime
  <2>2. \A i \in Caches : cache'[i].busy \/ cache'[i].pendingJobs # <<>>
                             => cache[i].busy \/ cache[i].pendingJobs # <<>>
    BY <1>4, <1>5 DEF c
  <2>3. ASSUME NEW i \in Caches, cache'[i].busy \/ cache'[i].pendingJobs # <<>>,
               NEW j \in Caches \ {i}
        PROVE  ~cache'[j].busy /\ cache'[j].pendingJobs = <<>>
    <3>1. ~cache[j].busy /\ cache[j].pendingJobs = <<>>
      BY <2>2, <2>3 DEF Inv, ControlInv, OneJobAtATime
    <3> QED  BY <2>2, <3>1
  <2> QED  BY <2>1, <2>3 DEF OneJobAtATime
<1>8. (\A i \in Caches : Flags(cache[i]))'
  BY <1>4, <1>5 DEF Inv, ControlInv
<1>9. BusServes'
  BY <1>4, <1>5 DEF BusServes, Inv, ControlInv, CacheTurn, c
<1>10. PickedUp'
  <2>1. ASSUME NEW i \in Caches  PROVE HasPending(i)' => phase' = "caches" /\ turn' <= i
    <3> SUFFICES ASSUME HasPending(i)'  PROVE phase' = "caches" /\ turn' <= i
      OBVIOUS
    <3>1. i # turn /\ HasPending(i)
      BY <1>4, <1>5 DEF HasPending
    <3>2. turn <= i
      BY <3>1 DEF Inv, ControlInv, PickedUp
    <3>3. turn + 1 <= i /\ turn + 1 \in Caches
      BY <1>1, <3>1, <3>2, SizesAssumption DEF Caches
    <3> QED  BY <1>1, <3>3 DEF CacheTurn
  <2>2. ASSUME NEW i \in Caches, cache'[i].haveBusRequest,
               ~cache'[i].busRequestBeingServiced
        PROVE  phase' = "bus" \/ (phase' = "caches" /\ i < turn')
    <3>1. i = turn \/ i < turn
      BY <1>1, <1>5, <2>2 DEF Inv, ControlInv, PickedUp
    <3> QED  BY <1>1, <3>1 DEF CacheTurn, Caches
  <2> QED  BY <2>1, <2>2 DEF PickedUp
<1>11. TypeOK'
  BY <1>1, <1>2, <1>6 DEF Inv, TypeOK, CacheTurn, AllWellFormed, ReaderTypeOK, readerVars
<1> QED  BY <1>6, <1>7, <1>8, <1>9, <1>10, <1>11 DEF Inv, ControlInv

-----------------------------------------------------------------------------
(***************************************************************************)
(* The bus's turn.                                                         *)
(***************************************************************************)
\* The caches when the bus looks for work: nobody is served, nothing is pending,
\* and one cache is busy at most.
Waiting(cs) ==
    /\ AllWellFormed(cs)
    /\ \A i \in Caches : /\ Flags(cs[i]) /\ cs[i].pendingJobs = <<>>
                         /\ ~cs[i].busRequestBeingServiced
                         /\ cs[i].busy => \A j \in Caches \ {i} : ~cs[j].busy

LEMMA BusTurnStep ==
    ASSUME Inv, BusTurn
    PROVE  \/ UNCHANGED <<cache, bus, stats>>
              /\ \A i \in Caches :
                    cache[i].haveBusRequest => cache[i].busRequestBeingServiced
           \/ /\ Waiting(cache') /\ \A i \in Caches : ~cache'[i].haveBusRequest
              /\ stats' \in [Counters -> Nat]
              /\ bus' = [bus EXCEPT !.inUse = FALSE, !.isShared = FALSE,
                                    !.currentCache = bus'.currentCache]
              /\ bus'.currentCache \in {bus.currentCache, -1}
           \/ \E cs : \E next \in Caches, st \in [Counters -> Nat], end \in Int,
                    shared \in BOOLEAN :
                 /\ Waiting(cs) /\ cs[next].haveBusRequest
                 /\ cache' = granted(cs, next)
                 /\ stats' = broadcastCounts(cs, next, st)
                 /\ bus' = [inUse |-> TRUE, currentCache |-> next, startCycle |-> cycles,
                            endCycle |-> end, isShared |-> shared]
<1> DEFINE i == bus.currentCache
           done == bus.inUse /\ bus.endCycle <= cycles
           cs == IF done THEN [cache EXCEPT ![i] = busJobDone(@, bus.isShared)] ELSE cache
           st == IF done THEN Count(stats, busJobDoneCounts(cache[i], bus.isShared))
                 ELSE stats
           waiting == {j \in Caches : cs[j].haveBusRequest}
           next == Min(waiting)
<1>1. /\ AllWellFormed(cache) /\ stats \in [Counters -> Nat] /\ cycles \in Nat
      /\ bus \in [inUse : BOOLEAN, currentCache : Caches \cup {-1}, startCycle : Nat,
                  endCycle : Int, isShared : BOOLEAN]
      /\ ControlInv /\ phase = "bus" /\ BusTick
  BY DEF Inv, TypeOK, BusTurn
<1>2. \A j \in Caches : /\ cache[j].pendingJobs = <<>> /\ Flags(cache[j])
                        /\ cache[j].busy => \A m \in Caches \ {j} : ~cache[m].busy
  BY <1>1 DEF ControlInv, PickedUp, HasPending, OneJobAtATime
<1>3. st \in [Counters -> Nat]
  BY <1>1, CountKeeps
<1>4. CASE bus.inUse /\ ~done
  <2>1. UNCHANGED <<cache, bus, stats>>
    BY <1>1, <1>4 DEF BusTick
  <2>2. ASSUME NEW j \in Caches, cache[j].haveBusRequest
        PROVE  cache[j].busRequestBeingServiced
    <3>1. bus.currentCache \in Caches /\ cache[bus.currentCache].busRequestBeingServiced
      BY <1>1, <1>4 DEF ControlInv, BusServes
    <3>2. cache[bus.currentCache].busy /\ cache[j].busy
      BY <1>2, <2>2, <3>1 DEF Flags
    <3> QED  BY <1>2, <3>1, <3>2
  <2> QED  BY <2>1, <2>2
<1>5. ASSUME done \/ ~bus.inUse  PROVE Waiting(cs)
  <2>1. CASE done
    <3>1. i \in Caches /\ cache[i].busRequestBeingServiced
      BY <1>1, <2>1 DEF ControlInv, BusServes
    <3>2. /\ WellFormed(cache[i]) /\ cache[i].currentJob # NULL /\ cache[i].busy
          /\ cache[i].currentJob.op \in {"R", "W"} /\ bus.isShared \in BOOLEAN
      BY <1>1, <1>2, <3>1 DEF AllWellFormed, Flags
    <3> DEFINE r == busJobDone(cache[i], bus.isShared)
    <3>3. /\ WellFormed(r) /\ r.pendingJobs = <<>>
          /\ ~r.haveBusRequest /\ ~r.busy /\ ~r.busRequestBeingServiced
      BY <1>1, <1>2, <3>1, <3>2, BusJobDoneKeeps
    <3>4. cs = [cache EXCEPT ![i] = r]
      BY <2>1
    <3> HIDE DEF r, cs
    <3>5. cs \in [Caches -> CacheRecord]
      BY <1>1, <3>1, <3>3, <3>4 DEF AllWellFormed, WellFormed
    <3>6. \A j \in Caches : cs[j] = IF j = i THEN r ELSE cache[j]
      BY <1>1, <3>1, <3>4 DEF AllWellFormed
    <3>7. \A j \in Caches : j # i => ~cache[j].busRequestBeingServiced
      BY <1>1, <3>1 DEF ControlInv, BusServes
    <3>8. Flags(r)
      BY <3>3 DEF Flags
    <3> QED  BY <1>1, <1>2, <3>3, <3>5, <3>6, <3>7, <3>8 DEF Waiting, AllWellFormed
  <2>2. CASE ~bus.inUse
    <3>1. cs = cache
      BY <2>2
    <3>2. \A j \in Caches : ~cache[j].busRequestBeingServiced
      BY <1>1, <2>2 DEF ControlInv, BusServes
    <3> QED  BY <1>1, <1>2, <3>1, <3>2 DEF Waiting
  <2> QED  BY <1>5, <2>1, <2>2
<1>6. CASE (done \/ ~bus.inUse) /\ waiting = {}
  <2>1. /\ cache' = cs /\ stats' = st
        /\ bus' = [bus EXCEPT !.inUse = FALSE, !.isShared = FALSE,
                              !.currentCache = IF done THEN -1 ELSE @]
    BY <1>1, <1>6 DEF BusTick
  <2>2. \A j \in Caches : ~cs[j].haveBusRequest
    BY <1>6
  <2> HIDE DEF cs, st, done
  <2>3. bus'.currentCache = IF done THEN -1 ELSE bus.currentCache
    BY <1>1, <2>1
  <2> QED  BY <1>3, <1>5, <1>6, <2>1, <2>2, <2>3
<1>7. CASE (done \/ ~bus.inUse) /\ waiting # {}
  <2> DEFINE end == cycles + cs[next].busRequest.cycleCost + extraCycles(cs, next)
             shared == repliers(cs, next, SharedReplies) # {}
  <2>1. /\ cache' = granted(cs, next) /\ stats' = broadcastCounts(cs, next, st)
        /\ bus' = [inUse |-> TRUE, currentCache |-> next, startCycle |-> cycles,
                   endCycle |-> end, isShared |-> shared]
    BY <1>1, <1>7 DEF BusTick
  <2> HIDE DEF cs, st, done
  <2>2. next \in Caches /\ cs[next].haveBusRequest
    <3>1. next \in waiting
      BY <1>7, FirstCache
    <3> QED  BY <3>1
  <2> HIDE DEF next
  <2>3. Waiting(cs)
    BY <1>5, <1>7
  <2>4. cs[next].busRequest.cycleCost \in Nat
    <3>1. cs[next].busRequest \in BusRequest
      BY <2>2, <2>3 DEF Waiting, AllWellFormed, CacheRecord, Flags
    <3> QED  BY <3>1 DEF BusRequest
  <2>5. end \in Int /\ shared \in BOOLEAN
    BY <1>1, <2>4, ExtraCycles
  <2> HIDE DEF end, shared
  <2> QED  BY <1>3, <2>1, <2>2, <2>3, <2>5
<1> QED  BY <1>4, <1>6, <1>7

LEMMA BusTurnInv == Inv /\ BusTurn => Inv'
<1> SUFFICES ASSUME Inv, BusTurn  PROVE Inv'
  OBVIOUS
<1> DEFINE BusType == [inUse : BOOLEAN, currentCache : Caches \cup {-1},
                       startCycle : Nat, endCycle : Int, isShared : BOOLEAN]
<1>1. /\ bus \in BusType /\ stats \in [Counters -> Nat] /\ cycles \in Nat
      /\ phase = "bus" /\ phase' = "loop"
  BY DEF Inv, TypeOK, BusTurn
\* What the three cases have in common.
<1>2. ASSUME AllWellFormed(cache'), bus' \in BusType, stats' \in [Counters -> Nat]
      PROVE  TypeOK'
  BY <1>2 DEF Inv, TypeOK, BusTurn, AllWellFormed, ReaderTypeOK, readerVars
<1>3. CASE /\ UNCHANGED <<cache, bus, stats>>
           /\ \A i \in Caches : cache[i].haveBusRequest => cache[i].busRequestBeingServiced
  <2>1. AllWellFormed(cache') /\ OneJobAtATime' /\ BusServes' /\ (\A i \in Caches : Flags(cache[i]))'
    BY <1>3 DEF Inv, ControlInv, OneJobAtATime, BusServes
  <2>2. PickedUp'
    BY <1>1, <1>3 DEF Inv, ControlInv, PickedUp, HasPending
  <2>3. TypeOK'
    BY <1>1, <1>2, <1>3, <2>1
  <2> QED  BY <2>1, <2>2, <2>3 DEF Inv, ControlInv
<1>4. CASE /\ Waiting(cache') /\ \A i \in Caches : ~cache'[i].haveBusRequest
           /\ stats' \in [Counters -> Nat]
           /\ bus' = [bus EXCEPT !.inUse = FALSE, !.isShared = FALSE,
                                 !.currentCache = bus'.currentCache]
           /\ bus'.currentCache \in {bus.currentCache, -1}
  <2>1. bus' \in BusType /\ ~bus'.inUse
    BY <1>1, <1>4
  <2>2. OneJobAtATime'
    <3>1. Len(<<>>) <= 1
      OBVIOUS
    <3> QED  BY <1>4, <3>1 DEF Waiting, OneJobAtATime
  <2>3. BusServes' /\ PickedUp' /\ (\A i \in Caches : Flags(cache[i]))'
    BY <1>4, <2>1 DEF Waiting, BusServes, PickedUp, HasPending
  <2>4. AllWellFormed(cache')
    BY <1>4 DEF Waiting
  <2> QED  BY <1>2, <1>4, <2>1, <2>2, <2>3, <2>4 DEF Inv, ControlInv
<1>5. ASSUME NEW cs, NEW next \in Caches, NEW st \in [Counters -> Nat],
             NEW end \in Int, NEW shared \in BOOLEAN,
             Waiting(cs), cs[next].haveBusRequest, cache' = granted(cs, next),
             stats' = broadcastCounts(cs, next, st),
             bus' = [inUse |-> TRUE, currentCache |-> next, startCycle |-> cycles,
                     endCycle |-> end, isShared |-> shared]
      PROVE  Inv'
  <2>1. /\ AllWellFormed(cache')
        /\ \A j \in Caches : Granted(cs[j], cache'[j], j = next)
    BY <1>1, <1>5, GrantedKeeps DEF Waiting
  <2>2. bus' \in BusType /\ bus'.inUse /\ bus'.currentCache = next
    BY <1>1, <1>5
  <2>3. stats' \in [Counters -> Nat]
    BY <1>5, BroadcastCounts
  <2>4. cs[next].busy /\ \A j \in Caches \ {next} : ~cs[j].busy /\ ~cs[j].haveBusRequest
    BY <1>5 DEF Waiting, Flags
  <2>5. \A j \in Caches : /\ cache'[j].pendingJobs = <<>>
                          /\ cache'[j].busRequestBeingServiced <=> j = next
                          /\ cache'[j].busy => j = next
                          /\ cache'[j].haveBusRequest => j = next
    BY <1>5, <2>1, <2>4 DEF Waiting, Granted
  <2>6. OneJobAtATime'
    <3>1. Len(<<>>) <= 1
      OBVIOUS
    <3> QED  BY <2>5, <3>1 DEF OneJobAtATime
  <2>7. (\A i \in Caches : Flags(cache[i]))'
    <3>1. ASSUME NEW j \in Caches  PROVE Flags(cache'[j])
      BY <1>5, <2>1, <2>5 DEF Waiting, Granted, Flags
    <3> QED  BY <3>1
  <2>8. BusServes' /\ PickedUp'
    BY <2>2, <2>5 DEF BusServes, PickedUp, HasPending
  <2> QED  BY <1>2, <2>1, <2>2, <2>3, <2>6, <2>7, <2>8 DEF Inv, ControlInv
<1> QED  BY <1>3, <1>4, <1>5, BusTurnStep

-----------------------------------------------------------------------------
(***************************************************************************)
(* The theorems.                                                           *)
(***************************************************************************)
LEMMA InvStep == Inv /\ [Next]_vars => Inv'
<1>1. Inv /\ UNCHANGED vars => Inv'
  BY DEF Inv, vars, TypeOK, ReaderTypeOK, readerVars, AllWellFormed, ControlInv,
         OneJobAtATime, BusServes, PickedUp, HasPending
<1> QED  BY <1>1, FinishInv, NextCycleInv, NextJobInv, CacheTurnInv, BusTurnInv DEF Next

\* The flags by which the loop, the caches and the bus of CacheController.cpp, Cache.cpp
\* and AtomicBusManager.cpp find out whose turn it is agree with each other, in every
\* state of every simulation.
THEOREM ControlHolds == Spec => []Inv
BY InitInv, InvStep, PTL DEF Spec

\* The clock, the caches, the bus, the counters and the variables of the trace reader
\* hold what their declarations say, whatever the trace and the configuration.
THEOREM TypeCorrect == Spec => []TypeOK
<1>1. Inv => TypeOK
  BY DEF Inv
<1> QED  BY <1>1, ControlHolds, PTL

\* The one-job-at-a-time loop of CacheController.cpp: what is waiting, being served or
\* on the bus is one job, of one cache.
THEOREM OneJob == Spec => []OneJobAtATime
<1>1. Inv => OneJobAtATime
  BY DEF Inv, ControlInv
<1> QED  BY <1>1, ControlHolds, PTL

\* No cache is left with a request that the bus is not serving when a cycle is over: the
\* timeout of Cache.cpp's tick never takes a request that has not been served for done.
THEOREM NoRequestWaits == Spec => []NoRequestLeftWaiting
<1>1. Inv => NoRequestLeftWaiting
  BY LoopIsQuiet DEF Inv, ControlInv, BusServes, Flags, NoRequestLeftWaiting
<1> QED  BY <1>1, ControlHolds, PTL

\* No set ever has a tag twice or more lines than ways, so that hasLine, getLine and the
\* eviction of CacheSet.cpp all mean the same line.
THEOREM SetsSound == Spec => []SetsAreSound
<1>1. Inv => SetsAreSound
  BY DEF Inv, AllWellFormed, WellFormed, Sound, SetsAreSound
<1> QED  BY <1>1, ControlHolds, PTL

-----------------------------------------------------------------------------
(***************************************************************************)
(* The counters add up.  A job is counted as a hit or as a miss when its   *)
(* cache picks it up, and a request when the bus grants it; in between, a  *)
(* job that is pending and a request that is not served yet make up the    *)
(* difference.                                                             *)
(***************************************************************************)
Pending  == {i \in Caches : HasPending(i)}
Unserved == {i \in Caches : /\ cache[i].haveBusRequest
                            /\ ~cache[i].busRequestBeingServiced}

CountsInv ==
    /\ \A i \in Pending : Head(cache[i].pendingJobs).op \in {"R", "W"}
    /\ stats["numHit"] + stats["numMiss"] + Bool(Pending # {})
          = TraceLength - outstandingRequests
    /\ stats["numBusRequests"] + Bool(Unserved # {}) >= stats["numMiss"]
    /\ stats["numBusRequests"] + Bool(Unserved # {})
          <= stats["numMiss"] + (IF Protocol = "MOESI" THEN stats["numHit"] ELSE 0)

LEMMA OnlyMOESIUpgrades ==
    ASSUME NEW op, NEW held, handleRequestOutcome(op, held) = "ownedUpgrade"
    PROVE  Protocol = "MOESI"
BY ProtocolAssumption DEF handleRequestOutcome, readOutcome, writeOutcome

LEMMA Counted ==
    ASSUME NEW st \in [Counters -> Nat], NEW ns, NEW n \in Counters
    PROVE  Count(st, ns)[n] = st[n] + Bool(n \in ns)
BY DEF Count

\* A read or write is counted once, and asks for the bus if it is a miss or an
\* upgrade.
LEMMA HandleRequestCounted ==
    ASSUME NEW k, WellFormed(k), k.currentJob # NULL, k.currentJob.op \in {"R", "W"},
           cycles \in Nat, ~k.haveBusRequest
    PROVE  LET ns == handleRequestCounts(k)
               r == handleRequest(k)
           IN  /\ "numHit" \in ns <=> "numMiss" \notin ns
               /\ "numBusRequests" \notin ns
               /\ "numMiss" \in ns => r.haveBusRequest
               /\ r.haveBusRequest => "numMiss" \in ns \/ Protocol = "MOESI"
<1> DEFINE t == TagOfJob(k)
           u == lookedUp(k, t)
           o == outcomeOf(k)
           ns == handleRequestCounts(k)
           r == handleRequest(k)
<1>1. WellFormed(u) /\ u.currentJob # NULL
  BY LookedUpKeeps DEF SameButLines
<1>2. o \in {"hit", "exclusiveHit", "ownedUpgrade", "miss"}
      /\ (o = "ownedUpgrade" => Protocol = "MOESI")
  BY Outcomes, OnlyMOESIUpgrades DEF outcomeOf
<1> HIDE DEF u, o
<1>3. CASE o = "hit"
  <2>1. r = served(u) /\ ~served(u).haveBusRequest
    BY <1>1, <1>3 DEF handleRequest, u, o, served, WellFormed, CacheRecord
  <2>2. ns = {"numHit"}
    BY <1>3 DEF handleRequestCounts, o
  <2> QED  BY <2>1, <2>2
<1>4. CASE o = "exclusiveHit"
  <2>1. r = setLineState(served(u), t, "modified")
    BY <1>4 DEF handleRequest, u, o
  <2>2. WellFormed(served(u)) /\ ~served(u).haveBusRequest
    BY <1>1, ServedKeeps DEF served, WellFormed, CacheRecord
  <2>3. ns = {"numHit", "numExclusiveToModifiedTransitions"}
    BY <1>4 DEF handleRequestCounts, o
  <2>4. ~r.haveBusRequest
    BY <2>1, <2>2, SetLineStateKeeps DEF SameButLines, State
  <2> QED  BY <2>3, <2>4
<1>5. CASE o = "ownedUpgrade"
  <2>1. ns = {"numHit"}
    BY <1>5 DEF handleRequestCounts, o
  <2> QED  BY <1>2, <1>5, <2>1
<1>6. CASE o = "miss"
  <2>1. "numMiss" \in ns /\ "numHit" \notin ns /\ "numBusRequests" \notin ns
    BY <1>6 DEF handleRequestCounts, o
  <2>2. \E command, cost : r = asked(u, command, cost)
    BY <1>6 DEF handleRequest, u, o
  <2>3. r.haveBusRequest
    BY <1>1, <2>2 DEF asked, WellFormed, CacheRecord
  <2> QED  BY <2>1, <2>3
<1> QED  BY <1>2, <1>3, <1>4, <1>5, <1>6

LEMMA NextJobCounts ==
    ASSUME Inv, CountsInv, TraceLines \subseteq CompleteLines,
           \E l \in TraceLines : NextJob(l)
    PROVE  CountsInv'
<1> PICK l \in TraceLines : NextJob(l)
  OBVIOUS
<1> DEFINE p == accessProcessorId(l)
           job == jobOf(l)
<1>1. \A i \in Caches : cache[i].pendingJobs = <<>> /\ ~cache[i].haveBusRequest
  BY LoopIsQuiet DEF NextJob, HandOut, noJobs, Inv, ControlInv, Flags
<1>2. p \in Caches /\ job.op \in {"R", "W"}
  <2>1. l \in {"R", "W"} \X Blocks \X Nat
    BY DEF CompleteLines
  <2>2. Len(l) = 3 /\ l[1] \in {"R", "W"} /\ l[3] \in Nat
    BY <2>1
  <2>3. l[3] % NumProcessors \in 0 .. NumProcessors - 1
    BY <2>2, SizesAssumption
  <2> QED  BY <2>2, <2>3 DEF accessProcessorId, scanned, jobOf, Caches
<1>3. /\ cache' = [cache EXCEPT ![p].pendingJobs = Append(@, job)]
      /\ stats' = stats /\ outstandingRequests' = outstandingRequests - 1
  BY DEF NextJob, HandOut
<1> HIDE DEF p, job
<1>4. /\ cache \in [Caches -> CacheRecord] /\ outstandingRequests \in Nat
      /\ stats \in [Counters -> Nat]
  BY TraceAssumption DEF Inv, TypeOK
<1>5. /\ cache'[p].pendingJobs = Append(<<>>, job) /\ ~cache'[p].haveBusRequest
      /\ \A i \in Caches \ {p} : cache'[i] = cache[i]
  <2> DEFINE jobs == Append(cache[p].pendingJobs, job)
             r == [cache[p] EXCEPT !.pendingJobs = jobs]
  <2>1. cache' = [cache EXCEPT ![p] = r]
    BY <1>3
  <2>2. jobs = Append(<<>>, job)
    BY <1>1, <1>2
  <2>3. r.pendingJobs = jobs /\ r.haveBusRequest = cache[p].haveBusRequest
    <3> HIDE DEF jobs
    <3> QED  BY <1>2, <1>4 DEF CacheRecord
  <2> HIDE DEF r, jobs
  <2> QED  BY <1>1, <1>2, <1>4, <2>1, <2>2, <2>3
<1>6. Append(<<>>, job) # <<>> /\ Head(Append(<<>>, job)) = job
  OBVIOUS
<1>7. Pending = {} /\ Unserved = {}
  BY <1>1 DEF Pending, HasPending, Unserved
<1>8. Pending' = {p} /\ Unserved' = {}
  BY <1>1, <1>2, <1>5, <1>6 DEF Pending, HasPending, Unserved
<1>9. Bool(Pending' # {}) = 1 /\ Bool(Pending # {}) = 0
      /\ Bool(Unserved' # {}) = 0 /\ Bool(Unserved # {}) = 0
  BY <1>7, <1>8 DEF Bool
<1>10. stats["numHit"] \in Nat /\ stats["numMiss"] \in Nat /\ stats["numBusRequests"] \in Nat
  BY <1>4 DEF Counters
<1>11. \A i \in Pending' : Head(cache'[i].pendingJobs).op \in {"R", "W"}
  BY <1>2, <1>5, <1>6, <1>8
<1>12. stats'["numHit"] + stats'["numMiss"] + Bool(Pending' # {})
          = TraceLength - outstandingRequests'
  BY <1>3, <1>4, <1>9, <1>10, TraceAssumption DEF CountsInv
<1> QED  BY <1>3, <1>9, <1>11, <1>12 DEF CountsInv

\* The cache whose turn it is, when it has nothing to pick up.
LEMMA IdleTurnCounts ==
    ASSUME Inv, CountsInv, NEW r, ~HasPending(turn), r.pendingJobs = <<>>,
           ~cache[turn].haveBusRequest \/ cache[turn].busRequestBeingServiced,
           ~r.haveBusRequest \/ r.busRequestBeingServiced,
           cache' = [cache EXCEPT ![turn] = r], UNCHANGED <<stats, outstandingRequests>>
    PROVE  CountsInv'
<1>1. turn \in Caches /\ cache \in [Caches -> CacheRecord]
  BY DEF Inv, TypeOK
<1>2. \A i \in Caches : cache'[i] = IF i = turn THEN r ELSE cache[i]
  BY <1>1
<1>3. Pending' = Pending /\ Unserved' = Unserved /\ turn \notin Pending
  BY <1>1, <1>2 DEF Pending, Unserved, HasPending
<1>4. \A i \in Pending : cache'[i] = cache[i]
  BY <1>2, <1>3 DEF Pending
<1> QED  BY <1>3, <1>4 DEF CountsInv

\* The cache whose turn it is, when it picks up a job.
LEMMA StartCounts ==
    ASSUME Inv, CountsInv, NEW n, WellFormed(n), n.currentJob # NULL, ~n.haveBusRequest,
           HasPending(turn), n.currentJob = Head(cache[turn].pendingJobs),
           handleRequest(n).pendingJobs = <<>>, ~handleRequest(n).busRequestBeingServiced,
           cache' = [cache EXCEPT ![turn] = handleRequest(n)],
           stats' = Count(stats, handleRequestCounts(n)), UNCHANGED outstandingRequests
    PROVE  CountsInv'
<1> DEFINE r == handleRequest(n)
           ns == handleRequestCounts(n)
<1>1. /\ turn \in Caches /\ cache \in [Caches -> CacheRecord] /\ cycles \in Nat
      /\ stats \in [Counters -> Nat] /\ outstandingRequests \in Nat
  BY TraceAssumption DEF Inv, TypeOK
<1>2. turn \in Pending
  BY <1>1 DEF Pending
<1>3. /\ "numHit" \in ns <=> "numMiss" \notin ns
      /\ "numBusRequests" \notin ns
      /\ "numMiss" \in ns => r.haveBusRequest
      /\ r.haveBusRequest => "numMiss" \in ns \/ Protocol = "MOESI"
  BY <1>1, <1>2, HandleRequestCounted DEF CountsInv
<1>4. /\ stats'["numHit"] = stats["numHit"] + Bool("numHit" \in ns)
      /\ stats'["numMiss"] = stats["numMiss"] + Bool("numMiss" \in ns)
      /\ stats'["numBusRequests"] = stats["numBusRequests"] + Bool("numBusRequests" \in ns)
  BY <1>1, Counted DEF Counters
<1> HIDE DEF r, ns
<1>5. \A i \in Caches : cache'[i] = IF i = turn THEN r ELSE cache[i]
  BY <1>1 DEF r
<1>6. \A i \in Caches \ {turn} : cache[i].pendingJobs = <<>> /\ ~cache[i].haveBusRequest
  BY <1>1 DEF Inv, ControlInv, OneJobAtATime, Flags, HasPending
<1>7. ~cache[turn].haveBusRequest
  BY <1>1 DEF Inv, ControlInv, OneJobAtATime, Flags, HasPending
<1>8. Pending' = {} /\ Unserved = {} /\ Unserved' = IF r.haveBusRequest THEN {turn} ELSE {}
  BY <1>1, <1>5, <1>6, <1>7 DEF Pending, Unserved, HasPending, r
<1>9. /\ Bool(Pending' # {}) = 0 /\ Bool(Pending # {}) = 1 /\ Bool(Unserved # {}) = 0
      /\ Bool(Unserved' # {}) = Bool(r.haveBusRequest)
  BY <1>2, <1>8 DEF Bool
<1>10. stats["numHit"] \in Nat /\ stats["numMiss"] \in Nat /\ stats["numBusRequests"] \in Nat
  BY <1>1 DEF Counters
<1>11. Bool("numHit" \in ns) + Bool("numMiss" \in ns) = 1 /\ Bool("numBusRequests" \in ns) = 0
  BY <1>3 DEF Bool
<1>12. Bool("numMiss" \in ns) \in {0, 1} /\ Bool(r.haveBusRequest) \in {0, 1}
       /\ Bool("numHit" \in ns) \in {0, 1}
  BY DEF Bool
<1>13. Bool("numMiss" \in ns) <= Bool(r.haveBusRequest)
  BY <1>3 DEF Bool
<1>14. Protocol # "MOESI" => Bool(r.haveBusRequest) = Bool("numMiss" \in ns)
  BY <1>3 DEF Bool
<1>15. Bool(r.haveBusRequest) <= Bool("numMiss" \in ns) + Bool("numHit" \in ns)
  BY <1>11, <1>12
<1>16. stats'["numHit"] + stats'["numMiss"] + Bool(Pending' # {})
          = TraceLength - outstandingRequests'
  BY <1>1, <1>4, <1>9, <1>10, <1>11, <1>12, TraceAssumption DEF CountsInv
<1>17. stats'["numBusRequests"] + Bool(Unserved' # {}) >= stats'["numMiss"]
  BY <1>4, <1>9, <1>10, <1>11, <1>12, <1>13 DEF CountsInv
<1>18. stats'["numBusRequests"] + Bool(Unserved' # {})
          <= stats'["numMiss"] + (IF Protocol = "MOESI" THEN stats'["numHit"] ELSE 0)
  <2>1. CASE Protocol = "MOESI"
    BY <1>4, <1>9, <1>10, <1>11, <1>12, <1>15, <2>1 DEF CountsInv
  <2>2. CASE Protocol # "MOESI"
    BY <1>4, <1>9, <1>10, <1>11, <1>12, <1>14, <2>2 DEF CountsInv
  <2> QED  BY <2>1, <2>2
<1> QED  BY <1>8, <1>16, <1>17, <1>18 DEF CountsInv

LEMMA CacheTurnCounts == Inv /\ CountsInv /\ CacheTurn => CountsInv'
<1> SUFFICES ASSUME Inv, CountsInv, CacheTurn  PROVE CountsInv'
  OBVIOUS
<1> DEFINE c == cache[turn]
           k == finished(c)
           n == nextJob(k)
<1>1. /\ phase = "caches" /\ turn \in Caches /\ CacheTick(turn)
      /\ cache \in [Caches -> CacheRecord] /\ cycles \in Nat
      /\ \A i \in Caches : WellFormed(cache[i])
      /\ UNCHANGED outstandingRequests
  BY DEF Inv, TypeOK, CacheTurn, AllWellFormed
<1>2. /\ WellFormed(c) /\ Flags(c) /\ Len(c.pendingJobs) <= 1
      /\ c.busy => c.pendingJobs = <<>>
      /\ c.haveBusRequest => c.busRequestBeingServiced
      /\ c.busRequestBeingServiced => c.busy
  <2>1. ~(turn < turn)
    BY <1>1 DEF Caches
  <2> QED  BY <1>1, <2>1 DEF Inv, ControlInv, OneJobAtATime, Flags, PickedUp
<1>3. CASE c.busRequestBeingServiced
  <2>1. cache' = [cache EXCEPT ![turn] = c] /\ stats' = stats /\ ~HasPending(turn)
    BY <1>1, <1>2, <1>3 DEF CacheTick, HasPending
  <2>2. c.pendingJobs = <<>>
    BY <1>2, <1>3
  <2> QED  BY <1>1, <1>2, <1>3, <2>1, <2>2, IdleTurnCounts
<1>4. CASE ~c.busRequestBeingServiced
  <2>1. /\ WellFormed(k) /\ (k.busy => c.busy) /\ k.pendingJobs = c.pendingJobs
        /\ ~k.haveBusRequest /\ ~k.busRequestBeingServiced
    <3>1. k \in CacheRecord
      BY <1>1, <1>2, FinishedKeeps DEF WellFormed
    <3>2. SameButLines(c, [k EXCEPT !.busy = c.busy]) /\ (k.busy => c.busy) /\ WellFormed(k)
      BY <1>1, <1>2, FinishedKeeps
    <3> HIDE DEF k, c
    <3>3. /\ [k EXCEPT !.busy = c.busy].pendingJobs = k.pendingJobs
          /\ [k EXCEPT !.busy = c.busy].haveBusRequest = k.haveBusRequest
          /\ [k EXCEPT !.busy = c.busy].busRequestBeingServiced = k.busRequestBeingServiced
      BY <3>1 DEF CacheRecord
    <3>4. ~c.haveBusRequest
      BY <1>2, <1>4
    <3> QED  BY <1>4, <3>2, <3>3, <3>4 DEF SameButLines
  <2>2. CASE HasPending(turn)
    <3>1. k.pendingJobs # <<>> /\ ~k.busy
      BY <1>2, <2>1, <2>2 DEF HasPending
    <3>2. /\ cache' = [cache EXCEPT ![turn] = handleRequest(n)]
          /\ stats' = Count(stats, handleRequestCounts(n))
      BY <1>1, <1>4, <3>1 DEF CacheTick
    <3>3. WellFormed(n) /\ n.currentJob # NULL /\ ~n.haveBusRequest
      BY <2>1, <3>1, NextJobKeeps
    <3>4. n.currentJob = Head(cache[turn].pendingJobs)
      <4> HIDE DEF k
      <4>1. n.currentJob = Head(k.pendingJobs)
        BY <2>1 DEF nextJob, WellFormed, CacheRecord
      <4> QED  BY <2>1, <4>1
    <3>5. Ticked(c).pendingJobs = <<>> /\ ~Ticked(c).busRequestBeingServiced
      BY <1>1, <1>2, <1>4, TickedKeeps
    <3>6. Ticked(c) = handleRequest(n)
      BY <3>1 DEF Ticked
    <3> HIDE DEF n
    <3> QED  BY <1>1, <2>2, <3>2, <3>3, <3>4, <3>5, <3>6, StartCounts
  <2>3. CASE ~HasPending(turn)
    <3>1. k.pendingJobs = <<>>
      BY <2>1, <2>3 DEF HasPending
    <3>2. cache' = [cache EXCEPT ![turn] = k] /\ stats' = stats
      BY <1>1, <1>4, <3>1 DEF CacheTick
    <3> HIDE DEF k
    <3> QED  BY <1>1, <1>2, <2>1, <2>3, <3>1, <3>2, IdleTurnCounts
  <2> QED  BY <2>2, <2>3
<1> QED  BY <1>3, <1>4

\* The bus's turn: either nobody waits for the bus, or the one request that does is
\* granted and counted.
LEMMA BusTurnCounted ==
    ASSUME Inv, BusTurn
    PROVE  /\ Unserved' = {} /\ Pending = {} /\ Pending' = {}
           /\ stats'["numHit"] = stats["numHit"] /\ stats'["numMiss"] = stats["numMiss"]
           /\ stats'["numBusRequests"] = stats["numBusRequests"] + Bool(Unserved # {})
<1> DEFINE i == bus.currentCache
           done == bus.inUse /\ bus.endCycle <= cycles
           cs == IF done THEN [cache EXCEPT ![i] = busJobDone(@, bus.isShared)] ELSE cache
           st == IF done THEN Count(stats, busJobDoneCounts(cache[i], bus.isShared))
                 ELSE stats
           waiting == {j \in Caches : cs[j].haveBusRequest}
           next == Min(waiting)
<1>1. /\ AllWellFormed(cache) /\ stats \in [Counters -> Nat] /\ cycles \in Nat
      /\ bus \in [inUse : BOOLEAN, currentCache : Caches \cup {-1}, startCycle : Nat,
                  endCycle : Int, isShared : BOOLEAN]
      /\ BusServes /\ phase = "bus" /\ phase' = "loop" /\ BusTick
  BY DEF Inv, TypeOK, BusTurn, ControlInv
<1>2. /\ \A j \in Caches : Flags(cache[j])
      /\ \A j, m \in Caches : cache[j].busy /\ cache[m].busy => j = m
  BY DEF Inv, ControlInv, OneJobAtATime
<1>3. Pending = {} /\ Pending' = {} /\ Unserved' = {}
  <2>1. Inv'
    BY BusTurnInv
  <2> QED  BY <1>1, <2>1 DEF Inv, ControlInv, PickedUp, Pending, Unserved
\* Whoever is served by the bus is the only busy cache.
<1>4. ASSUME bus.inUse  PROVE Unserved = {} /\ i \in Caches
  <2>1. i \in Caches /\ cache[i].busRequestBeingServiced
    BY <1>1, <1>4 DEF BusServes
  <2> QED  BY <1>2, <2>1 DEF Flags, Unserved
<1>5. CASE bus.inUse /\ ~done
  <2>1. stats' = stats
    BY <1>1, <1>5 DEF BusTick
  <2> QED  BY <1>1, <1>3, <1>4, <1>5, <2>1 DEF Bool, Counters
<1>6. CASE done
  <2>1. i \in Caches /\ cache[i].busRequestBeingServiced /\ Unserved = {}
    BY <1>1, <1>4, <1>6 DEF BusServes
  <2> DEFINE r == busJobDone(cache[i], bus.isShared)
             ns == busJobDoneCounts(cache[i], bus.isShared)
  <2>2. ~r.haveBusRequest
    <3>1. WellFormed(cache[i]) /\ bus.isShared \in BOOLEAN
      BY <1>1, <2>1 DEF AllWellFormed
    <3> QED  BY <1>1, <1>2, <2>1, <3>1, BusJobDoneKeeps DEF Flags
  <2>3. cs = [cache EXCEPT ![i] = r] /\ st = Count(stats, ns)
    BY <1>6
  <2> HIDE DEF r
  <2>4. waiting = {}
    <3> HIDE DEF cs
    <3>1. \A j \in Caches : cs[j] = IF j = i THEN r ELSE cache[j]
      BY <1>1, <2>1, <2>3 DEF AllWellFormed
    <3>2. \A j \in Caches : j # i => ~cache[j].haveBusRequest
      BY <1>2, <2>1 DEF Flags
    <3> QED  BY <2>2, <3>1, <3>2
  <2>5. stats' = st
    <3>1. bus.inUse /\ bus.endCycle <= cycles
      BY <1>6
    <3> QED  BY <1>1, <2>4, <3>1 DEF BusTick
  <2>6. "numHit" \notin ns /\ "numMiss" \notin ns /\ "numBusRequests" \notin ns
    BY ProtocolAssumption DEF busJobDoneCounts
  <2> HIDE DEF ns, st, cs
  <2>7. /\ stats'["numHit"] = stats["numHit"] + 0
        /\ stats'["numMiss"] = stats["numMiss"] + 0
        /\ stats'["numBusRequests"] = stats["numBusRequests"] + 0
    BY <1>1, <2>3, <2>5, <2>6, Counted DEF Bool, Counters
  <2> QED  BY <1>1, <1>3, <2>1, <2>7 DEF Bool, Counters
<1>7. CASE ~bus.inUse
  <2>1. cs = cache /\ st = stats /\ ~done
    BY <1>7
  <2>2. Unserved = waiting
    BY <1>1, <1>7, <2>1 DEF BusServes, Unserved
  <2>3. CASE waiting = {}
    <3>1. stats' = st
      BY <1>1, <1>7, <2>3 DEF BusTick
    <3> QED  BY <1>1, <1>3, <2>1, <2>2, <2>3, <3>1 DEF Bool, Counters
  <2>4. CASE waiting # {}
    <3>1. stats' = broadcastCounts(cs, next, st)
      BY <1>1, <1>7, <2>4 DEF BusTick
    <3> HIDE DEF cs, next, st
    <3>2. /\ stats'["numHit"] = stats["numHit"] + 0
          /\ stats'["numMiss"] = stats["numMiss"] + 0
          /\ stats'["numBusRequests"] = stats["numBusRequests"] + 1
      <4> DEFINE counted == Count(stats, {"numBusRequests"})
      <4>1. counted \in [Counters -> Nat]
        BY <1>1, CountKeeps
      <4>2. /\ counted["numHit"] = stats["numHit"] + 0
            /\ counted["numMiss"] = stats["numMiss"] + 0
            /\ counted["numBusRequests"] = stats["numBusRequests"] + 1
        BY <1>1, Counted DEF Counters, Bool
      <4> HIDE DEF counted
      <4>3. \A n \in {"numHit", "numMiss", "numBusRequests"} : stats'[n] = counted[n]
        BY <2>1, <3>1, <4>1 DEF broadcastCounts, Counters, counted
      <4> QED  BY <4>2, <4>3
    <3>3. Bool(Unserved # {}) = 1
      BY <2>2, <2>4 DEF Bool
    <3> QED  BY <1>1, <1>3, <3>2, <3>3 DEF Counters
  <2> QED  BY <2>3, <2>4
<1> QED  BY <1>1, <1>5, <1>6, <1>7

LEMMA CountsStep ==
    TraceLines \subseteq CompleteLines /\ Inv /\ CountsInv /\ [Next]_vars => CountsInv'
<1> SUFFICES ASSUME TraceLines \subseteq CompleteLines, Inv, CountsInv, [Next]_vars
             PROVE  CountsInv'
  OBVIOUS
<1>1. CASE UNCHANGED <<cache, stats, outstandingRequests>>
  <2>1. Pending' = Pending /\ Unserved' = Unserved
    BY <1>1 DEF Pending, Unserved, HasPending
  <2> QED  BY <1>1, <2>1 DEF CountsInv
<1>2. CASE Finish \/ NextCycle \/ UNCHANGED vars
  BY <1>1, <1>2 DEF Finish, NextCycle, vars
<1>3. CASE BusTurn
  <2>1. stats["numHit"] \in Nat /\ stats["numMiss"] \in Nat /\ stats["numBusRequests"] \in Nat
        /\ outstandingRequests' = outstandingRequests
    BY <1>3 DEF Inv, TypeOK, Counters, BusTurn
  <2>2. Bool(Unserved' # {}) = 0 /\ Bool(Pending # {}) = 0 /\ Bool(Pending' # {}) = 0
    BY <1>3, BusTurnCounted DEF Bool
  <2>3. Bool(Unserved # {}) \in Nat
    BY DEF Bool
  <2> QED  BY <1>3, <2>1, <2>2, <2>3, BusTurnCounted DEF CountsInv
<1> QED  BY <1>2, <1>3, NextJobCounts, CacheTurnCounts DEF Next

\* The counters of CacheStats.cpp: when a cycle is over, every read and write of the
\* trace that has been handed out is in numHit or numMiss, once, and every miss (and
\* every upgrade of MOESI) has been granted the bus, once.
THEOREM CountersAddUp == Spec => []StatsAddUp
<1>1. CASE ~(TraceLines \subseteq CompleteLines)
  <2>1. StatsAddUp
    BY <1>1 DEF StatsAddUp
  <2> QED  BY <2>1, PTL
<1>2. CASE TraceLines \subseteq CompleteLines
  <2>1. Init => CountsInv
    <3> SUFFICES ASSUME Init  PROVE CountsInv
      OBVIOUS
    <3>1. Pending = {} /\ Unserved = {}
      BY DEF Init, NewCache, Pending, Unserved, HasPending
    <3>2. \A n \in Counters : stats[n] = 0
      BY DEF Init, CacheStats
    <3>3. stats["numHit"] = 0 /\ stats["numMiss"] = 0 /\ stats["numBusRequests"] = 0
          /\ outstandingRequests = TraceLength
      BY <3>2 DEF Counters, Init
    <3>4. Bool(Pending # {}) = 0 /\ Bool(Unserved # {}) = 0
      BY <3>1 DEF Bool
    <3> QED  BY <3>1, <3>3, <3>4, TraceAssumption DEF CountsInv
  <2>2. Inv /\ CountsInv /\ [Next]_vars => CountsInv'
    BY <1>2, CountsStep
  <2>3. Inv /\ CountsInv => StatsAddUp
    <3> SUFFICES ASSUME Inv, CountsInv, phase = "loop"  PROVE StatsAddUp
      BY DEF StatsAddUp
    <3>1. Pending = {} /\ Unserved = {}
      BY LoopIsQuiet DEF Pending, Unserved, HasPending
    <3>2. Bool(Pending # {}) = 0 /\ Bool(Unserved # {}) = 0
      BY <3>1 DEF Bool
    <3>3. stats["numHit"] \in Nat /\ stats["numMiss"] \in Nat /\ stats["numBusRequests"] \in Nat
      BY DEF Inv, TypeOK, Counters
    <3>4. stats["numHit"] + stats["numMiss"] = TraceLength - outstandingRequests
      BY <3>2, <3>3 DEF CountsInv
    <3> QED  BY <3>2, <3>3, <3>4 DEF CountsInv, StatsAddUp
  <2> QED  BY <2>1, <2>2, <2>3, ControlHolds, PTL DEF Spec
<1> QED  BY <1>1, <1>2
==============================================================================
