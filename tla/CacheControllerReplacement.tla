----------------------- MODULE CacheControllerReplacement -----------------------
(***************************************************************************)
(* The order of replacement: which line of a set goes when another needs   *)
(* its place, and what was charged for it.                                 *)
(***************************************************************************)
EXTENDS CacheControllerRefinement

-----------------------------------------------------------------------------
(***************************************************************************)
(* The order of replacement.  Every cycle a cache uses the line of its job *)
(* if that is over, and the line of the request it snoops: two lines in    *)
(* one cycle.  They are told apart by the job, which stays the cache's     *)
(* current one: that its other lines were last used in cycles of their own *)
(* is what lasts.  It takes that a cache that begins a job, and so uses    *)
(* two lines at once, has nothing to snoop in that cycle, and that a job   *)
(* of the bus is over, for its cache's timeout, when the bus says so.      *)
(***************************************************************************)
\* Room is made for the line of a job, and a dirty line has to go.
MakesRoom(k) == ~hasLine(SetOfJob(k), TagOfJob(k)) /\ isFull(SetOfJob(k))

\* What a cache has asked for: the cost is the job's, and more than memory takes only
\* if a dirty line has to go.
AskedFits(k) ==
    k.haveBusRequest =>
        /\ k.jobCycleCost = k.busRequest.cycleCost
        /\ k.busRequest.cycleCost > MemoryResponseCycleCost =>
              \/ MakesRoom(k)
              \/ Protocol = "MOESI" /\ k.busRequest.cycleCost = CacheHitCycleCost

LEMMA AskedIs ==
    ASSUME NEW u, WellFormed(u), NEW command, NEW cost,
           cost > MemoryResponseCycleCost =>
              MakesRoom(u) \/ (Protocol = "MOESI" /\ cost = CacheHitCycleCost)
    PROVE  AskedFits(asked(u, command, cost))
<1> DEFINE request == [command |-> command, block |-> u.currentJob.block,
                       cycleCost |-> cost]
           r == asked(u, command, cost)
<1>1. r = [u EXCEPT !.busy = TRUE, !.haveBusRequest = TRUE, !.jobCycleCost = cost,
                    !.busRequest = request]
  BY DEF asked
<1>2. request.cycleCost = cost
  OBVIOUS
<1> HIDE DEF request, r
<1>3. /\ r.busRequest = request /\ r.jobCycleCost = cost
      /\ r.localCache = u.localCache /\ r.currentJob = u.currentJob
  BY <1>1 DEF WellFormed, CacheRecord
<1>4. MakesRoom(r) <=> MakesRoom(u)
  BY <1>3 DEF MakesRoom, SetOfJob, TagOfJob
<1> QED  BY <1>2, <1>3, <1>4 DEF AskedFits, r

LEMMA HandleRequestAsks ==
    ASSUME NEW k, WellFormed(k), k.currentJob # NULL, cycles \in Nat, ~k.haveBusRequest
    PROVE  AskedFits(handleRequest(k))
<1> DEFINE t == TagOfJob(k)
           u == lookedUp(k, t)
           o == outcomeOf(k)
<1>1. WellFormed(u) /\ u.currentJob # NULL
  BY LookedUpKeeps DEF SameButLines
<1>2. o \in {"hit", "exclusiveHit", "ownedUpgrade", "miss", "ignored"}
      /\ (o = "ignored" <=> k.currentJob.op \notin {"R", "W"})
      /\ (o = "ownedUpgrade" => Protocol = "MOESI")
  BY Outcomes, OnlyMOESIUpgrades DEF outcomeOf
<1> HIDE DEF u, o
<1>3. CASE o = "hit"
  <2>1. handleRequest(k) = served(u) /\ ~served(u).haveBusRequest
    BY <1>1, <1>3 DEF handleRequest, u, o, served, WellFormed, CacheRecord
  <2> QED  BY <2>1 DEF AskedFits
<1>4. CASE o = "exclusiveHit"
  <2>1. handleRequest(k) = setLineState(served(u), t, "modified")
    BY <1>4 DEF handleRequest, u, o
  <2>2. WellFormed(served(u)) /\ ~served(u).haveBusRequest
    BY <1>1, ServedKeeps DEF served, WellFormed, CacheRecord
  <2> QED  BY <2>1, <2>2, SetLineStateKeeps DEF AskedFits, SameButLines, State
<1>5. CASE o = "ownedUpgrade"
  <2> DEFINE a == asked(u, "BusRdX", CacheHitCycleCost)
             r == setLineState(a, t, "modified")
             request == [command |-> "BusRdX", block |-> u.currentJob.block,
                         cycleCost |-> CacheHitCycleCost]
  <2>1. handleRequest(k) = r
    BY <1>5 DEF handleRequest, u, o
  <2>2. WellFormed(a)
    BY <1>1, AskedKeeps, CostsAssumption DEF Command
  <2>3. a = [u EXCEPT !.busy = TRUE, !.haveBusRequest = TRUE,
                      !.jobCycleCost = CacheHitCycleCost, !.busRequest = request]
    BY DEF asked
  <2>4. request.cycleCost = CacheHitCycleCost
    OBVIOUS
  <2> HIDE DEF a, request
  <2>5. a.jobCycleCost = CacheHitCycleCost /\ a.busRequest = request
    BY <1>1, <2>3 DEF WellFormed, CacheRecord
  <2>6. SameButLines(a, r)
    BY <2>2, SetLineStateKeeps DEF State
  <2> HIDE DEF r
  <2>7. r.jobCycleCost = CacheHitCycleCost /\ r.busRequest.cycleCost = CacheHitCycleCost
    BY <2>4, <2>5, <2>6 DEF SameButLines
  <2> QED  BY <1>2, <1>5, <2>1, <2>7 DEF AskedFits
<1>6. CASE o = "miss"
  <2>1. CASE k.currentJob.op = "W"
    <3>1. handleRequest(k) = asked(u, "BusRdX", getTotalMemoryCost(u))
      BY <1>6, <2>1 DEF handleRequest, u, o
    <3>2. getTotalMemoryCost(u) > MemoryResponseCycleCost => MakesRoom(u)
      BY CostsAssumption DEF getTotalMemoryCost, flushesVictim, MakesRoom
    <3> QED  BY <1>1, <3>1, <3>2, AskedIs
  <2>2. CASE k.currentJob.op = "R"
    <3>1. handleRequest(k) = asked(u, "BusRd", MemoryResponseCycleCost)
      BY <1>6, <2>2 DEF handleRequest, u, o
    <3>2. ~(MemoryResponseCycleCost > MemoryResponseCycleCost)
      BY CostsAssumption
    <3> QED  BY <1>1, <3>1, <3>2, AskedIs
  <2> QED  BY <1>2, <1>6, <2>1, <2>2
<1>7. CASE o = "ignored"
  BY <1>7 DEF handleRequest, o, AskedFits
<1> QED  BY <1>2, <1>3, <1>4, <1>5, <1>6, <1>7

LEMMA TickedAsks ==
    ASSUME NEW c, WellFormed(c), Flags(c), cycles \in Nat, ~c.haveBusRequest
    PROVE  AskedFits(Ticked(c))
<1> DEFINE k == finished(c)
<1>1. WellFormed(k) /\ ~k.haveBusRequest
  <2>1. k \in CacheRecord
    BY FinishedKeeps DEF WellFormed
  <2> HIDE DEF k
  <2>2. [k EXCEPT !.busy = c.busy].haveBusRequest = k.haveBusRequest
    BY <2>1 DEF CacheRecord
  <2> QED  BY <2>2, FinishedKeeps DEF SameButLines, k
<1> HIDE DEF k
<1>2. CASE ~k.busy /\ k.pendingJobs # <<>>
  <2>1. Ticked(c) = handleRequest(nextJob(k))
    BY <1>2 DEF Ticked, k
  <2>2. /\ WellFormed(nextJob(k)) /\ nextJob(k).currentJob # NULL
        /\ ~nextJob(k).haveBusRequest
    BY <1>1, <1>2, NextJobKeeps
  <2> QED  BY <2>1, <2>2, HandleRequestAsks
<1>3. CASE ~(~k.busy /\ k.pendingJobs # <<>>)
  BY <1>1, <1>3 DEF Ticked, k, AskedFits
<1> QED  BY <1>2, <1>3

LEMMA FinitelyManyReply == \A cs, i, results : IsFiniteSet(repliers(cs, i, results))
<1>1. IsFiniteSet(Caches)
  BY FS_Interval, SizesAssumption DEF Caches
<1>2. \A cs, i, results : repliers(cs, i, results) \in SUBSET Caches
  BY DEF repliers
<1> QED  BY <1>1, <1>2, FS_Subset

\* What the requester is told of the time that its request takes is no more than what
\* the bus takes.
LEMMA RequesterInTime ==
    ASSUME NEW i \in Caches, CostFits(cache[i]), cache[i].haveBusRequest,
           cache[i].jobCycleCost = cache[i].busRequest.cycleCost,
           cache[i].busRequest.cycleCost \in Nat, cache[i].busRequest.block \in Blocks,
           Protocol = "MOESI" => Coh!OneOwner
    PROVE  requesterCost(cache, i) <= cache[i].busRequest.cycleCost + extraCycles(cache, i)
<1> DEFINE cost == cache[i].busRequest.cycleCost
           who == repliers(cache, i, Flushes)
           flushers == Cardinality(who)
           suppliers == Cardinality(repliers(cache, i, Supplies))
           sharers == repliers(cache, i, {"SHARED"})
           late == Cardinality({j \in who : j > Min(sharers)})
<1>1. /\ cost >= MemoryResponseCycleCost \/ (Protocol = "MOESI" /\ cost = CacheHitCycleCost)
      /\ cost \in Nat /\ flushers \in Nat
  BY HowManyReply DEF CostFits
<1>2. /\ Protocol = "MOESI" => suppliers \in {0, 1}
      /\ repliers(cache, i, Supplies) # {} => suppliers # 0
      /\ repliers(cache, i, Supplies) = {} => suppliers = 0
  <2>1. IsFiniteSet(repliers(cache, i, Supplies))
    BY FinitelyManyReply
  <2> QED  BY <2>1, FS_EmptySet, OneSupplier
<1>3. late \in Nat /\ late <= flushers
  <2>1. IsFiniteSet(who) /\ {j \in who : j > Min(sharers)} \in SUBSET who
    BY FinitelyManyReply
  <2>2. {j \in who : j > Min(sharers)} \in SUBSET Caches
    BY DEF repliers
  <2> QED  BY <2>1, <2>2, SomeCaches, FS_Subset
<1>4. /\ MemoryResponseCycleCost \in Nat \ {0} /\ CacheHitCycleCost \in Nat \ {0}
      /\ CacheResponseCycleCost \in Nat \ {0}
      /\ saved \in Nat /\ MemoryResponseCycleCost - saved = CacheResponseCycleCost
  BY CostsAssumption DEF saved
<1>5. /\ extraCycles(cache, i) =
           CASE Protocol = "MSI"   -> flushers * MemoryResponseCycleCost
             [] Protocol = "MESI"  -> flushers * CacheResponseCycleCost
                                      - (IF sharers # {} THEN saved ELSE 0)
             [] Protocol = "MOESI" -> IF cost = CacheHitCycleCost THEN 0
                                      ELSE -suppliers * saved
      /\ requesterCost(cache, i) =
           CASE Protocol = "MSI"  -> cost + MemoryResponseCycleCost * flushers
             [] Protocol = "MESI" ->
                   IF sharers = {} THEN cost + CacheResponseCycleCost * flushers
                   ELSE CacheResponseCycleCost * (1 + late)
             [] Protocol = "MOESI" ->
                   IF cost = CacheHitCycleCost \/ repliers(cache, i, Supplies) = {}
                   THEN cost ELSE CacheResponseCycleCost
  BY DEF extraCycles, requesterCost
<1> DEFINE extra == extraCycles(cache, i)
           told == requesterCost(cache, i)
           none == repliers(cache, i, Supplies) = {}
<1> HIDE DEF cost, flushers, suppliers, sharers, late, who, extra, told
<1> HIDE DEF saved
<1>6. CASE Protocol = "MSI"
  <2>1. extra = flushers * MemoryResponseCycleCost
        /\ told = cost + MemoryResponseCycleCost * flushers
    BY <1>5, <1>6 DEF extra, told
  <2>2. \A m, n \in Nat : m * n = n * m /\ m * n \in Nat
    OBVIOUS
  <2>3. flushers * MemoryResponseCycleCost = MemoryResponseCycleCost * flushers
        /\ MemoryResponseCycleCost * flushers \in Nat
    BY <1>1, <1>4, <2>2
  <2>4. told = cost + extra /\ told \in Nat
    BY <1>1, <2>1, <2>3
  <2> QED  BY <2>4 DEF extra, told, cost
<1>7. CASE Protocol = "MESI"
  <2> DEFINE m == CacheResponseCycleCost * flushers
             n == CacheResponseCycleCost * late
  <2>1. /\ m \in Nat /\ n \in Nat /\ flushers * CacheResponseCycleCost = m
        /\ CacheResponseCycleCost * (1 + late) = CacheResponseCycleCost + n
    BY <1>1, <1>3, <1>4
  <2>2. n <= m
    <3>1. flushers - late \in Nat /\ late + (flushers - late) = flushers
      BY <1>1, <1>3
    <3>2. \A a, b, c \in Nat : a * (b + c) = a * b + a * c /\ a * c \in Nat /\ a * b \in Nat
      OBVIOUS
    <3> DEFINE rest == CacheResponseCycleCost * (flushers - late)
    <3>3. m = n + rest /\ rest \in Nat
      BY <1>3, <1>4, <3>1, <3>2
    <3> QED  BY <2>1, <3>3
  <2>3. /\ extra = m - (IF sharers # {} THEN saved ELSE 0)
        /\ told = IF sharers = {} THEN cost + m ELSE CacheResponseCycleCost + n
    BY <1>5, <1>7, <2>1 DEF extra, told
  <2> HIDE DEF m, n
  <2>4. told <= cost + extra
    BY <1>1, <1>4, <1>7, <2>1, <2>2, <2>3
  <2> QED  BY <2>4 DEF extra, told, cost
<1>8. CASE Protocol = "MOESI"
  <2>1. told <= cost + extra
    <3>1. CASE cost = CacheHitCycleCost
      <4>1. extra = 0 /\ told = cost
        BY <1>5, <1>8, <3>1 DEF extra, told
      <4> QED  BY <1>1, <4>1
    <3>2. CASE cost # CacheHitCycleCost /\ none
      <4>1. extra = -suppliers * saved /\ told = cost /\ suppliers = 0
        BY <1>2, <1>5, <1>8, <3>2 DEF extra, told
      <4> QED  BY <1>1, <1>4, <4>1
    <3>3. CASE cost # CacheHitCycleCost /\ ~none
      <4>1. extra = -suppliers * saved /\ told = CacheResponseCycleCost /\ suppliers = 1
        BY <1>2, <1>5, <1>8, <3>3 DEF extra, told
      <4>2. extra = -saved
        BY <1>4, <4>1
      <4> QED  BY <1>1, <1>4, <3>3, <4>1, <4>2
    <3> QED  BY <3>1, <3>2, <3>3
  <2> QED  BY <2>1 DEF extra, told, cost
<1> QED  BY <1>6, <1>7, <1>8, ProtocolAssumption

\* In cycle now, a cache knows the order in which it has used its lines.
Ordered(k, now, hadTurn) ==
    /\ Distinct(k) /\ IdleIsOver(k, now)
    /\ hadTurn => UsedBy(k, now) /\ JobIsRecent(k, now)
    /\ ~hadTurn => UsedBefore(k, now)

\* No other cache is about to ask, or asks, for the bus.
Alone(cs, i) ==
    \A j \in Caches \ {i} : cs[j].pendingJobs = <<>> /\ ~cs[j].haveBusRequest

\* The cost of a request that waits for the bus is that of the job.
CostIsJobs(k) ==
    k.haveBusRequest /\ ~k.busRequestBeingServiced =>
        k.jobCycleCost = k.busRequest.cycleCost

OrderInv ==
    /\ \A i \in Caches :
          /\ Ordered(cache[i], cycles, HadTurn(i) \/ phase = "finished")
          /\ CostIsJobs(cache[i])
          /\ HadTurn(i) /\ phase # "loop" =>
                OthersBefore(cache[i], cycles) \/ Alone(cache, i)
    /\ bus.inUse => LET k == cache[bus.currentCache]
                    IN  k.startServiceCycle + k.jobCycleCost <= bus.endCycle

\* With the clock, all that was used up to now has been used before.
LEMMA ClockOrder ==
    ASSUME NEW k, WellFormed(k), NEW now \in Nat, Ordered(k, now, TRUE),
           NEW r, r.localCache = k.localCache, r.currentJob = k.currentJob,
           r.busy = k.busy, r.startServiceCycle = k.startServiceCycle,
           r.jobCycleCost = k.jobCycleCost
    PROVE  Ordered(r, now + 1, FALSE)
<1>1. \A set \in Sets : UsesOf(r, set) = UsesOf(k, set)
  BY DEF UsesOf
<1>2. UsedBefore(r, now + 1)
  BY <1>1, UseTimes DEF Ordered, UsedBy, UsedBefore
<1>3. Distinct(r)
  BY <1>1 DEF Ordered, Distinct, Other, TagOfJob
<1>4. IdleIsOver(r, now + 1)
  BY DEF Ordered, IdleIsOver, WellFormed, CacheRecord
<1> QED  BY <1>2, <1>3, <1>4 DEF Ordered

LEMMA LoopOrder ==
    ASSUME RefInv, OrderInv, Finish \/ NextCycle \/ \E l \in TraceLines : NextJob(l)
    PROVE  OrderInv'
<1>1. /\ phase = "loop" /\ cycles \in Nat
      /\ \A i \in Caches : /\ WellFormed(cache[i])
                           /\ cache[i].haveBusRequest => cache[i].busRequestBeingServiced
      /\ BusServes /\ cache \in [Caches -> CacheRecord]
  <2>1. phase = "loop" /\ Inv
    BY DEF Finish, NextCycle, NextJob, HandOut, RefInv
  <2> QED  BY <2>1, LoopIsQuiet DEF Inv, TypeOK, ControlInv, AllWellFormed
<1>2. \A i \in Caches : Ordered(cache[i], cycles, TRUE)
  BY <1>1 DEF OrderInv, Ordered, HadTurn
<1>3. CASE Finish
  <2>1. UNCHANGED <<cycles, cache, bus>> /\ phase' = "finished"
    BY <1>3 DEF Finish
  <2>2. \A i \in Caches : ~HadTurn(i)'
    BY <2>1 DEF HadTurn
  <2> QED  BY <1>1, <1>2, <2>1, <2>2 DEF OrderInv, Ordered, CostIsJobs
<1>4. ASSUME cycles' = cycles + 1, phase' = "caches", turn' = 0, UNCHANGED bus,
             \A i \in Caches : /\ cache'[i].localCache = cache[i].localCache
                               /\ cache'[i].currentJob = cache[i].currentJob
                               /\ cache'[i].busy = cache[i].busy
                               /\ cache'[i].startServiceCycle = cache[i].startServiceCycle
                               /\ cache'[i].jobCycleCost = cache[i].jobCycleCost
                               /\ cache'[i].haveBusRequest = cache[i].haveBusRequest
                               /\ cache'[i].busRequestBeingServiced
                                     = cache[i].busRequestBeingServiced
      PROVE  OrderInv'
  <2>1. \A i \in Caches : ~HadTurn(i)'
    BY <1>4 DEF HadTurn, Caches
  <2>2. \A i \in Caches : Ordered(cache'[i], cycles', FALSE)
    BY <1>1, <1>2, <1>4, ClockOrder
  <2>3. \A i \in Caches : CostIsJobs(cache'[i])
    BY <1>1, <1>4 DEF CostIsJobs
  <2>4. bus'.inUse => LET k == cache'[bus'.currentCache]
                      IN  k.startServiceCycle + k.jobCycleCost <= bus'.endCycle
    BY <1>1, <1>4 DEF OrderInv, BusServes
  <2>5. \A i \in Caches : Ordered(cache[i], cycles, HadTurn(i) \/ phase = "finished")'
    BY <1>4, <2>1, <2>2 DEF Ordered
  <2> QED  BY <2>1, <2>3, <2>4, <2>5 DEF OrderInv
<1>5. CASE NextCycle
  BY <1>4, <1>5 DEF NextCycle, tick
<1>6. ASSUME NEW l \in TraceLines, NextJob(l)  PROVE OrderInv'
  <2> DEFINE p == accessProcessorId(l)
             jobs == Append(cache[p].pendingJobs, jobOf(l))
             r == [cache[p] EXCEPT !.pendingJobs = jobs]
  <2>1. /\ cycles' = cycles + 1 /\ UNCHANGED bus /\ phase' = "caches" /\ turn' = 0
        /\ cache' = [cache EXCEPT ![p] = r]
    BY <1>6 DEF NextJob, HandOut, tick
  <2> HIDE DEF p, jobs
  <2>2. p \in Caches => /\ r.localCache = cache[p].localCache
                        /\ r.currentJob = cache[p].currentJob /\ r.busy = cache[p].busy
                        /\ r.startServiceCycle = cache[p].startServiceCycle
                        /\ r.jobCycleCost = cache[p].jobCycleCost
                        /\ r.haveBusRequest = cache[p].haveBusRequest
                        /\ r.busRequestBeingServiced = cache[p].busRequestBeingServiced
    BY <1>1 DEF CacheRecord
  <2> HIDE DEF r
  <2>3. \A i \in Caches : cache'[i] = IF i = p THEN r ELSE cache[i]
    BY <1>1, <2>1
  <2> QED  BY <1>4, <2>1, <2>2, <2>3
<1> QED  BY <1>3, <1>5, <1>6

LEMMA CacheTurnOrder ==
    ASSUME RefInv, OrderInv, CacheTurn
    PROVE  OrderInv'
<1> DEFINE c == cache[turn]
           r == IF c.busRequestBeingServiced THEN c ELSE Ticked(c)
<1>1. /\ turn \in Caches /\ CacheTick(turn) /\ phase = "caches" /\ phase' \in {"caches", "bus"}
      /\ UNCHANGED <<bus, cycles>>
      /\ cycles \in Nat /\ stats \in [Counters -> Nat] /\ cache \in [Caches -> CacheRecord]
      /\ WellFormed(c) /\ Flags(c) /\ Len(c.pendingJobs) <= 1
      /\ c.busy => c.pendingJobs = <<>>
      /\ BusServes
  BY DEF CacheTurn, RefInv, Inv, TypeOK, AllWellFormed, ControlInv, OneJobAtATime
<1>2. cache' = [cache EXCEPT ![turn] = r]
  BY <1>1, CacheTickStep
<1>3. Ordered(c, cycles, FALSE)
  <2>1. ~HadTurn(turn)
    BY <1>1 DEF HadTurn, Caches
  <2> QED  BY <1>1, <2>1 DEF OrderInv, Ordered
<1>4. ~c.busRequestBeingServiced => ~c.haveBusRequest
  BY <1>1 DEF RefInv, Inv, ControlInv, PickedUp, Caches
<1>5. /\ Ordered(r, cycles, TRUE) /\ CostIsJobs(r)
      /\ c.pendingJobs = <<>> => OthersBefore(r, cycles)
      /\ c.pendingJobs = <<>> /\ ~c.haveBusRequest => ~r.haveBusRequest
  <2>1. CASE c.busRequestBeingServiced
    <3>1. UsedBy(c, cycles) /\ OthersBefore(c, cycles)
      BY <1>1, <1>3, UseTimes DEF Ordered, UsedBy, UsedBefore, OthersBefore
    <3> QED  BY <1>1, <1>3, <2>1, <3>1 DEF Ordered, JobIsRecent, Flags, CostIsJobs
  <2>2. CASE ~c.busRequestBeingServiced
    <3>1. /\ Distinct(Ticked(c)) /\ UsedBy(Ticked(c), cycles)
          /\ JobIsRecent(Ticked(c), cycles) /\ IdleIsOver(Ticked(c), cycles)
          /\ c.pendingJobs = <<>> => OthersBefore(Ticked(c), cycles) /\ ~Ticked(c).haveBusRequest
      BY <1>1, <1>3, <1>4, <2>2, TickedUses DEF Ordered
    <3>2. AskedFits(Ticked(c))
      BY <1>1, <1>4, <2>2, TickedAsks
    <3> QED  BY <2>2, <3>1, <3>2 DEF Ordered, CostIsJobs, AskedFits
  <2> QED  BY <2>1, <2>2
<1>6. r.pendingJobs = <<>> \/ c.pendingJobs # <<>>
  BY <1>1, <1>4, TickedKeeps
<1>7. c.pendingJobs # <<>> => Alone(cache, turn)
  BY <1>1 DEF RefInv, Inv, ControlInv, OneJobAtATime, Flags, Alone
<1> HIDE DEF r
<1>8. \A i \in Caches : cache'[i] = IF i = turn THEN r ELSE cache[i]
  BY <1>1, <1>2
<1>9. \A i \in Caches : i # turn => (HadTurn(i)' <=> HadTurn(i))
  <2> SUFFICES ASSUME NEW i \in Caches, i # turn  PROVE HadTurn(i)' <=> HadTurn(i)
    OBVIOUS
  <2>1. CASE turn + 1 \in Caches
    <3>1. phase' = "caches" /\ turn' = turn + 1
      BY <2>1 DEF CacheTurn
    <3>2. i < turn + 1 <=> i < turn
      BY <1>1, SizesAssumption DEF Caches
    <3> QED  BY <1>1, <3>1, <3>2 DEF HadTurn
  <2>2. CASE turn + 1 \notin Caches
    <3>1. phase' = "bus"
      BY <2>2 DEF CacheTurn
    <3>2. i < turn
      BY <1>1, <2>2, SizesAssumption DEF Caches
    <3> QED  BY <1>1, <3>1, <3>2 DEF HadTurn
  <2> QED  BY <2>1, <2>2
<1>10. \A i \in Caches : i = turn => HadTurn(i)'
  <2> SUFFICES ASSUME NEW i \in Caches, i = turn  PROVE HadTurn(i)'
    OBVIOUS
  <2>1. CASE turn + 1 \in Caches
    <3>1. phase' = "caches" /\ turn' = turn + 1 /\ i < turn + 1
      BY <1>1, <2>1 DEF CacheTurn, Caches
    <3> QED  BY <3>1 DEF HadTurn
  <2>2. CASE turn + 1 \notin Caches
    BY <2>2 DEF CacheTurn, HadTurn
  <2> QED  BY <2>1, <2>2
<1>11. ASSUME NEW i \in Caches
       PROVE  /\ Ordered(cache[i], cycles, HadTurn(i) \/ phase = "finished")'
              /\ CostIsJobs(cache'[i])
              /\ HadTurn(i)' => OthersBefore(cache'[i], cycles') \/ Alone(cache', i)
  <2>1. CASE i = turn
    <3>1. c.pendingJobs # <<>> => Alone(cache', turn)
      BY <1>7, <1>8 DEF Alone
    <3>2. cache'[i] = r /\ HadTurn(i)' /\ cycles' = cycles
      BY <1>1, <1>8, <1>10, <2>1
    <3> QED  BY <1>5, <2>1, <3>1, <3>2 DEF Ordered
  <2>2. CASE i # turn
    <3>1. Alone(cache, i) => Alone(cache', i)
      <4> SUFFICES ASSUME Alone(cache, i), NEW j \in Caches \ {i}
                   PROVE  cache'[j].pendingJobs = <<>> /\ ~cache'[j].haveBusRequest
        BY DEF Alone
      <4>1. CASE j = turn
        <5>1. c.pendingJobs = <<>> /\ ~c.haveBusRequest
          BY <4>1 DEF Alone
        <5> QED  BY <1>5, <1>6, <1>8, <4>1, <5>1
      <4>2. CASE j # turn
        BY <1>8, <4>2 DEF Alone
      <4> QED  BY <4>1, <4>2
    <3>2. cache'[i] = cache[i] /\ (HadTurn(i)' <=> HadTurn(i)) /\ cycles' = cycles
      BY <1>1, <1>8, <1>9, <2>2
    <3>3. HadTurn(i) \in BOOLEAN /\ HadTurn(i)' \in BOOLEAN
      BY DEF HadTurn
    <3> QED  BY <1>1, <3>1, <3>2, <3>3 DEF OrderInv, Ordered
  <2> QED  BY <2>1, <2>2
<1>12. bus'.inUse => LET k == cache'[bus'.currentCache]
                     IN  k.startServiceCycle + k.jobCycleCost <= bus'.endCycle
  <2> SUFFICES ASSUME bus.inUse
               PROVE  LET k == cache'[bus.currentCache]
                      IN  k.startServiceCycle + k.jobCycleCost <= bus.endCycle
    BY <1>1
  <2>1. bus.currentCache \in Caches /\ cache[bus.currentCache].busRequestBeingServiced
    BY <1>1 DEF BusServes
  <2>2. cache'[bus.currentCache] = cache[bus.currentCache]
    BY <1>8, <2>1 DEF r
  <2> QED  BY <2>2 DEF OrderInv
<1> QED  BY <1>11, <1>12 DEF OrderInv

LEMMA BusTurnOrder ==
    ASSUME RefInv, TimeInv, Protocol = "MOESI" => Coh!OneOwner, OrderInv, BusTurn
    PROVE  OrderInv'
<1>1. /\ phase = "bus" /\ phase' = "loop" /\ UNCHANGED cycles
      /\ cycles \in Nat /\ cache \in [Caches -> CacheRecord] /\ AllWellFormed(cache)
      /\ \A i \in Caches : /\ WellFormed(cache[i]) /\ Flags(cache[i])
                           /\ HadTurn(i) /\ HadTurn(i)'
                           /\ cache[i].haveBusRequest /\ cache[i].busRequestBeingServiced
                                 => bus.inUse /\ bus.currentCache = i
      /\ bus \in [inUse : BOOLEAN, currentCache : Caches \cup {-1}, startCycle : Nat,
                  endCycle : Int, isShared : BOOLEAN]
  BY DEF BusTurn, RefInv, Inv, TypeOK, AllWellFormed, ControlInv, HadTurn, BusServes
<1>2. \A i \in Caches : /\ Ordered(cache[i], cycles, TRUE) /\ CostIsJobs(cache[i])
                        /\ OthersBefore(cache[i], cycles) \/ Alone(cache, i)
  BY <1>1 DEF OrderInv, Ordered
<1>3. ASSUME \A i \in Caches : Ordered(cache'[i], cycles, TRUE) /\ CostIsJobs(cache'[i]),
             bus'.inUse => LET k == cache'[bus'.currentCache]
                           IN  k.startServiceCycle + k.jobCycleCost <= bus'.endCycle
      PROVE  OrderInv'
  <2>1. \A i \in Caches : Ordered(cache[i], cycles, HadTurn(i) \/ phase = "finished")'
    BY <1>1, <1>3 DEF Ordered
  <2> QED  BY <1>1, <1>3, <2>1 DEF OrderInv
<1>4. CASE UNCHANGED cache /\ (UNCHANGED bus \/ ~bus'.inUse)
  <2>1. bus'.inUse => LET k == cache'[bus'.currentCache]
                      IN  k.startServiceCycle + k.jobCycleCost <= bus'.endCycle
    BY <1>4 DEF OrderInv
  <2> QED  BY <1>2, <1>3, <1>4, <2>1
<1>5. ASSUME NEW i \in Caches, ~bus'.inUse, cache[i].haveBusRequest,
             cache[i].busRequestBeingServiced, bus.endCycle <= cycles,
             cache' = [cache EXCEPT ![i] = busJobDone(cache[i], bus.isShared)]
      PROVE  OrderInv'
  <2> DEFINE k == cache[i]
             r == busJobDone(k, bus.isShared)
  <2>1. k.currentJob # NULL /\ k.currentJob.op \in {"R", "W"} /\ bus.isShared \in BOOLEAN
    BY <1>1, <1>5 DEF Flags
  <2>2. k.startServiceCycle + k.jobCycleCost <= cycles
    <3>1. k.startServiceCycle + k.jobCycleCost <= bus.endCycle
      BY <1>1, <1>5 DEF OrderInv
    <3>2. k.startServiceCycle \in Nat /\ k.jobCycleCost \in Nat /\ bus.endCycle \in Int
      BY <1>1, <1>5 DEF CacheRecord
    <3> QED  BY <1>1, <1>5, <3>1, <3>2
  <2>3. /\ Distinct(r) /\ UsedBy(r, cycles) /\ JobIsRecent(r, cycles) /\ IdleIsOver(r, cycles)
        /\ ~r.haveBusRequest
    BY <1>1, <1>2, <2>1, <2>2, BusJobDoneUses, BusJobDoneKeeps DEF Ordered
  <2>4. cache' = [cache EXCEPT ![i] = r]
    BY <1>5
  <2> HIDE DEF r, k
  <2>5. \A j \in Caches : Ordered(cache'[j], cycles, TRUE) /\ CostIsJobs(cache'[j])
    BY <1>1, <1>2, <2>3, <2>4 DEF Ordered, CostIsJobs
  <2> QED  BY <1>3, <1>5, <2>5
<1>6. ASSUME NEW i \in Caches, OnlyBusy(cache, i), cache[i].haveBusRequest,
             ~cache[i].busRequestBeingServiced, cache' = granted(cache, i),
             bus'.endCycle = cycles + cache[i].busRequest.cycleCost + extraCycles(cache, i)
      PROVE  OrderInv'
  <2>1. cache[i].busRequest \in BusRequest
    BY <1>1, <1>6 DEF CacheRecord, Flags
  <2>2. cache[i].busRequest.cycleCost \in Nat /\ cache[i].busRequest.block \in Blocks
    BY <2>1 DEF BusRequest
  <2>3. \A j \in Caches : Granted(cache[j], cache'[j], j = i)
    BY <1>1, <1>6, GrantedKeeps
  <2>4. /\ Ordered(cache'[i], cycles, TRUE)
        /\ cache'[i].startServiceCycle = cycles
        /\ cache'[i].jobCycleCost = requesterCost(cache, i)
    BY <1>1, <1>2, <1>6, RequesterOrder DEF Ordered, OnlyBusy
  <2>5. ASSUME NEW j \in Caches, j # i  PROVE Ordered(cache'[j], cycles, TRUE)
    <3>1. OthersBefore(cache[j], cycles)
      BY <1>2, <1>6, <2>5 DEF Alone
    <3>2. cache'[j] = snooped(cache, i, j)
      BY <1>6, <2>5 DEF granted
    <3>3. WellFormed(cache[j]) /\ Ordered(cache[j], cycles, TRUE)
      BY <1>1, <1>2
    <3> QED  BY <1>1, <2>2, <3>1, <3>2, <3>3, SnoopedOrder DEF Ordered
  <2>6. \A j \in Caches : CostIsJobs(cache'[j])
    <3>1. \A j \in Caches : cache'[j].haveBusRequest => j = i
      BY <1>1, <1>6, <2>3 DEF Granted, OnlyBusy, Flags
    <3> QED  BY <2>3, <3>1 DEF CostIsJobs, Granted
  <2>7. bus'.inUse => LET k == cache'[bus'.currentCache]
                      IN  k.startServiceCycle + k.jobCycleCost <= bus'.endCycle
    <3>1. bus'.inUse => bus'.currentCache = i
      <4>1. BusServes'
        <5>1. Inv'
          BY InvStep DEF RefInv, Next
        <5> QED  BY <5>1 DEF Inv, ControlInv
      <4>2. cache'[i].busRequestBeingServiced
        BY <2>3 DEF Granted
      <4> QED  BY <4>1, <4>2 DEF BusServes
    <3>2. requesterCost(cache, i) <= cache[i].busRequest.cycleCost + extraCycles(cache, i)
      <4>1. CostFits(cache[i]) /\ cache[i].jobCycleCost = cache[i].busRequest.cycleCost
        BY <1>2, <1>6 DEF TimeInv, CostIsJobs
      <4> QED  BY <1>6, <2>2, <4>1, RequesterInTime
    <3>3. cycles + requesterCost(cache, i) <= bus'.endCycle
      <4>1. requesterCost(cache, i) \in Nat /\ extraCycles(cache, i) \in Int
        BY <1>1, RequesterCost, ExtraCycles DEF CacheRecord
      <4> QED  BY <1>1, <1>6, <2>2, <3>2, <4>1
    <3> QED  BY <2>4, <3>1, <3>3
  <2> QED  BY <1>3, <2>4, <2>5, <2>6, <2>7
<1> QED  BY <1>4, <1>5, <1>6, BusTurnCases

LEMMA OrderStep ==
    ASSUME RefInv, TimeInv, Protocol = "MOESI" => Coh!OneOwner, OrderInv, [Next]_vars
    PROVE  OrderInv'
<1>1. CASE UNCHANGED vars
  <2>1. UNCHANGED <<cycles, cache, bus, phase, turn>>
    BY <1>1 DEF vars
  <2>2. \A i \in Caches : HadTurn(i)' = HadTurn(i)
    BY <2>1 DEF HadTurn
  <2> QED  BY <2>1, <2>2 DEF OrderInv
<1> QED  BY <1>1, LoopOrder, CacheTurnOrder, BusTurnOrder DEF Next

LEMMA InitOrder == Init => OrderInv
<1> SUFFICES ASSUME Init  PROVE OrderInv
  OBVIOUS
<1>1. /\ phase = "loop" /\ cycles = 0 /\ bus.inUse = FALSE
      /\ cache = [i \in Caches |-> NewCache]
  BY DEF Init, NewBus
<1>2. \A i \in Caches : /\ cache[i].currentJob = NULL /\ ~cache[i].haveBusRequest
                        /\ cache[i].startServiceCycle = 0 /\ cache[i].jobCycleCost = 0
                        /\ \A set \in Sets : cache[i].localCache[set] = <<>>
  BY <1>1 DEF NewCache
<1>3. \A i \in Caches, set \in Sets : UsesOf(cache[i], set) = {}
  BY <1>2 DEF UsesOf, Uses
<1>4. \A i \in Caches : Ordered(cache[i], cycles, TRUE)
  BY <1>1, <1>2, <1>3 DEF Ordered, Distinct, UsedBy, IdleIsOver, JobIsRecent
<1> QED  BY <1>1, <1>2, <1>4 DEF OrderInv, CostIsJobs, HadTurn

\* From the invariant, what the properties say.
LEMMA OrderIsSeen ==
    RefInv /\ OrderInv => VictimIsDetermined /\ LastJobIsMostRecent
<1> SUFFICES ASSUME RefInv, OrderInv  PROVE VictimIsDetermined /\ LastJobIsMostRecent
  OBVIOUS
<1>1. \A i \in Caches : /\ WellFormed(cache[i]) /\ Flags(cache[i])
                        /\ Distinct(cache[i])
  BY DEF RefInv, Inv, AllWellFormed, ControlInv, OrderInv, Ordered
<1>2. VictimIsDetermined
  <2> SUFFICES ASSUME NEW i \in Caches, cache[i].busRequestBeingServiced,
                      ~hasLine(SetOfJob(cache[i]), TagOfJob(cache[i])),
                      NEW m \in DOMAIN SetOfJob(cache[i]),
                      NEW n \in DOMAIN SetOfJob(cache[i]),
                      SetOfJob(cache[i])[m].lastUsedCycle
                         = SetOfJob(cache[i])[n].lastUsedCycle
               PROVE  m = n
    BY DEF VictimIsDetermined
  <2> DEFINE k == cache[i]
             set == SetOf(k.currentJob.block)
             s == k.localCache[set]
             p == <<s[m].tag, s[m].lastUsedCycle>>
             q == <<s[n].tag, s[n].lastUsedCycle>>
  <2>1. k.currentJob # NULL /\ set \in Sets /\ s = SetOfJob(k) /\ s \in Seq(Line) /\ Sound(s)
    <3>1. k.currentJob # NULL
      BY <1>1 DEF Flags
    <3> QED  BY <1>1, <3>1, JobParts DEF SetOfJob
  <2>2. s[m].tag # TagOfJob(k) /\ s[n].tag # TagOfJob(k)
    BY <2>1, IndexOf
  <2>3. p \in UsesOf(k, set) /\ q \in UsesOf(k, set)
    BY <2>1 DEF UsesOf, Uses
  <2>4. s[m].tag = s[n].tag
    <3>1. Other(k, p) /\ Other(k, q) /\ p[2] = q[2]
      BY <2>1, <2>2 DEF Other
    <3>2. p[1] = q[1]
      BY <1>1, <2>1, <2>3, <3>1 DEF Distinct
    <3> QED  BY <3>2
  <2> QED  BY <2>1, <2>4 DEF Sound
<1>3. LastJobIsMostRecent
  <2> SUFFICES ASSUME phase = "loop", NEW i \in Caches, ~cache[i].busy,
                      cache[i].currentJob # NULL, cache[i].currentJob.op \in {"R", "W"},
                      hasLine(SetOfJob(cache[i]), TagOfJob(cache[i])),
                      NEW m \in DOMAIN SetOfJob(cache[i])
               PROVE  SetOfJob(cache[i])[m].lastUsedCycle
                         <= getLine(SetOfJob(cache[i]), TagOfJob(cache[i])).lastUsedCycle
    BY DEF LastJobIsMostRecent
  <2> DEFINE k == cache[i]
             s == SetOfJob(k)
             n == indexOf(s, TagOfJob(k))
  <2>1. UsedBy(k, cycles) /\ JobIsRecent(k, cycles)
    BY DEF OrderInv, Ordered, HadTurn
  <2>2. s \in Seq(Line) /\ SetOf(k.currentJob.block) \in Sets
    BY <1>1, JobParts
  <2>3. n \in DOMAIN s /\ s[n].tag = TagOfJob(k)
    BY <2>2, IndexOf
  <2>4. s[n].lastUsedCycle = cycles
    <3>1. <<s[n].tag, s[n].lastUsedCycle>> \in Uses(s)
      BY <2>3 DEF Uses
    <3> QED  BY <2>1, <2>3, <3>1 DEF JobIsRecent
  <2>5. s[m].lastUsedCycle <= cycles
    <3>1. <<s[m].tag, s[m].lastUsedCycle>> \in UsesOf(k, SetOf(k.currentJob.block))
      BY DEF Uses, UsesOf, SetOfJob
    <3> QED  BY <2>1, <2>2, <3>1 DEF UsedBy
  <2> QED  BY <2>4, <2>5 DEF getLine
<1> QED  BY <1>2, <1>3

LEMMA OrderAlways == Spec => [](RefInv /\ OrderInv)
<1>1. Init => TimeInv
  BY DEF Init, NewBus, NewCache, TimeInv, RequestTakesTime, CostFits
<1>2. Init => RefInv
  BY InitRefines
<1>3. RefInv /\ [Next]_vars => RefInv'
  BY StepRefines
<1>4. CASE Protocol = "MOESI"
  <2>1. Spec => []Coh!OneOwner
    BY <1>4, SingleOwnerHolds DEF Coh!TagsAreSafe
  <2>2. RefInv /\ TimeInv /\ Coh!OneOwner /\ [Next]_vars => TimeInv'
    BY TimeStep
  <2>3. RefInv /\ TimeInv /\ Coh!OneOwner /\ OrderInv /\ [Next]_vars => OrderInv'
    BY OrderStep
  <2> QED  BY <1>1, <1>2, <1>3, <2>1, <2>2, <2>3, InitOrder, PTL DEF Spec
<1>5. CASE Protocol # "MOESI"
  <2>1. RefInv /\ TimeInv /\ [Next]_vars => TimeInv'
    BY <1>5, TimeStep
  <2>2. RefInv /\ TimeInv /\ OrderInv /\ [Next]_vars => OrderInv'
    BY <1>5, OrderStep
  <2> QED  BY <1>1, <1>2, <1>3, <2>1, <2>2, InitOrder, PTL DEF Spec
<1> QED  BY <1>4, <1>5

LEMMA OrderHolds == Spec => [](VictimIsDetermined /\ LastJobIsMostRecent)
BY OrderAlways, OrderIsSeen, PTL

\* Of the lines in a set of Cache.cpp that waits for another, addLine evicts the one whose
\* last use is the oldest, not the first of several: whatever the caches have snooped and
\* however long they have been idle, no two of those lines were last used in one cycle.
THEOREM VictimsDetermined == Spec => []VictimIsDetermined
BY OrderHolds, PTL

\* Between two cycles the line of the read or write that a cache has finished last is as
\* recent as any line of its set, whatever it has snooped since.
THEOREM LastJobsMostRecent == Spec => []LastJobIsMostRecent
BY OrderHolds, PTL

-----------------------------------------------------------------------------
(***************************************************************************)
(* The write-back that is paid for.  A request that costs more than memory *)
(* takes comes from a cache that has to make room, for a set full of       *)
(* modified lines and none of the job's; and so it stays until the bus is  *)
(* done with it, since a cache that asks snoops nothing.                   *)
(***************************************************************************)
FlushInv == \A i \in Caches :
    cache[i].haveBusRequest /\ PaysForFlush(i) => MakesRoom(cache[i])

LEMMA SameRequestFits ==
    ASSUME FlushInv, NEW i \in Caches,
           cache'[i].haveBusRequest => cache[i].haveBusRequest,
           cache'[i].busRequest = cache[i].busRequest,
           cache'[i].currentJob = cache[i].currentJob,
           cache'[i].localCache = cache[i].localCache
    PROVE  cache'[i].haveBusRequest /\ PaysForFlush(i)' => MakesRoom(cache'[i])
<1>1. MakesRoom(cache'[i]) <=> MakesRoom(cache[i])
  BY DEF MakesRoom, SetOfJob, TagOfJob
<1>2. PaysForFlush(i)' <=> PaysForFlush(i)
  BY DEF PaysForFlush
<1> QED  BY <1>1, <1>2 DEF FlushInv

LEMMA LoopFlush ==
    ASSUME RefInv, FlushInv, Finish \/ NextCycle \/ \E l \in TraceLines : NextJob(l)
    PROVE  /\ FlushInv'
           /\ \A i \in Caches : ~FinishesRequest(i)
<1>1. cache \in [Caches -> CacheRecord]
  BY DEF RefInv, Inv, TypeOK
<1>2. ASSUME \A i \in Caches : /\ cache'[i].haveBusRequest = cache[i].haveBusRequest
                               /\ cache'[i].busRequest = cache[i].busRequest
                               /\ cache'[i].currentJob = cache[i].currentJob
                               /\ cache'[i].localCache = cache[i].localCache
                               /\ cache'[i].busRequestBeingServiced
                                     = cache[i].busRequestBeingServiced
      PROVE  FlushInv' /\ \A i \in Caches : ~FinishesRequest(i)
  <2>1. \A i \in Caches : ~FinishesRequest(i)
    BY <1>2 DEF FinishesRequest
  <2>2. \A i \in Caches : cache'[i].haveBusRequest /\ PaysForFlush(i)'
                             => MakesRoom(cache'[i])
    BY <1>2, SameRequestFits
  <2> QED  BY <2>1, <2>2 DEF FlushInv
<1>3. CASE UNCHANGED cache
  BY <1>2, <1>3
<1>4. ASSUME NEW l \in TraceLines, NextJob(l)
      PROVE  FlushInv' /\ \A i \in Caches : ~FinishesRequest(i)
  <2> DEFINE p == accessProcessorId(l)
             jobs == Append(cache[p].pendingJobs, jobOf(l))
             r == [cache[p] EXCEPT !.pendingJobs = jobs]
  <2>1. cache' = [cache EXCEPT ![p] = r]
    BY <1>4 DEF NextJob, HandOut
  <2> HIDE DEF p, jobs
  <2>2. p \in Caches => /\ r.haveBusRequest = cache[p].haveBusRequest
                        /\ r.busRequest = cache[p].busRequest
                        /\ r.currentJob = cache[p].currentJob
                        /\ r.localCache = cache[p].localCache
                        /\ r.busRequestBeingServiced = cache[p].busRequestBeingServiced
    BY <1>1 DEF CacheRecord
  <2> HIDE DEF r
  <2>3. \A i \in Caches : cache'[i] = IF i = p THEN r ELSE cache[i]
    BY <1>1, <2>1
  <2> QED  BY <1>2, <2>2, <2>3
<1> QED  BY <1>3, <1>4 DEF Finish, NextCycle

LEMMA CacheTurnFlush ==
    ASSUME CacheHitCycleCost <= MemoryResponseCycleCost, RefInv, FlushInv, CacheTurn
    PROVE  /\ FlushInv'
           /\ \A i \in Caches : ~FinishesRequest(i)
<1> DEFINE c == cache[turn]
           r == IF c.busRequestBeingServiced THEN c ELSE Ticked(c)
<1>1. /\ turn \in Caches /\ CacheTick(turn) /\ phase = "caches"
      /\ cycles \in Nat /\ stats \in [Counters -> Nat] /\ cache \in [Caches -> CacheRecord]
      /\ WellFormed(c) /\ Flags(c)
  BY DEF CacheTurn, RefInv, Inv, TypeOK, AllWellFormed, ControlInv
<1>2. cache' = [cache EXCEPT ![turn] = r]
  BY <1>1, CacheTickStep
<1>3. ~c.busRequestBeingServiced => ~c.haveBusRequest
  BY <1>1 DEF RefInv, Inv, ControlInv, PickedUp, Caches
<1>4. c.busRequestBeingServiced => r = c
  OBVIOUS
<1>5. ~c.busRequestBeingServiced => AskedFits(r)
  BY <1>1, <1>3, TickedAsks
<1>6. r.haveBusRequest /\ r.busRequest.cycleCost > MemoryResponseCycleCost => MakesRoom(r)
  <2>1. CASE c.busRequestBeingServiced
    BY <1>1, <1>4, <2>1 DEF FlushInv, PaysForFlush
  <2>2. CASE ~c.busRequestBeingServiced
    <3>1. CacheHitCycleCost \in Nat /\ MemoryResponseCycleCost \in Nat
      BY CostsAssumption
    <3>2. ~(CacheHitCycleCost > MemoryResponseCycleCost)
      BY <3>1
    <3> HIDE DEF r
    <3> QED  BY <1>5, <2>2, <3>2 DEF AskedFits
  <2> QED  BY <2>1, <2>2
<1> HIDE DEF r
<1>7. \A i \in Caches : cache'[i] = IF i = turn THEN r ELSE cache[i]
  BY <1>1, <1>2
<1>8. FlushInv'
  <2> SUFFICES ASSUME NEW i \in Caches
               PROVE  cache'[i].haveBusRequest /\ PaysForFlush(i)' => MakesRoom(cache'[i])
    BY DEF FlushInv
  <2>1. CASE i = turn
    BY <1>6, <1>7, <2>1 DEF PaysForFlush
  <2>2. CASE i # turn
    BY <1>7, <2>2, SameRequestFits
  <2> QED  BY <2>1, <2>2
<1>9. \A i \in Caches : ~FinishesRequest(i)
  BY <1>4, <1>7 DEF FinishesRequest
<1> QED  BY <1>8, <1>9

\* Room is made by a modified line: none else is in the set, and the line that is stored
\* is not the one that went.
LEMMA RoomIsMade ==
    ASSUME NEW k, WellFormed(k), k.currentJob # NULL, k.currentJob.op \in {"R", "W"},
           MakesRoom(k), NEW isShared \in BOOLEAN, cycles \in Nat
    PROVE  \E t \in Tags : /\ hasLine(SetOfJob(k), t)
                           /\ getLine(SetOfJob(k), t).state = "modified"
                           /\ ~hasLine(storedIn(k, isShared), t)
<1> DEFINE s == SetOfJob(k)
           t == TagOfJob(k)
           room == evictLRULine(s)
           with == addLine(room, CacheLine(t))
           used == touched(with, t, cycles)
           stored == setState(used, t, installedState(k.currentJob.op, isShared))
<1>1. /\ s \in Seq(Line) /\ Sound(s) /\ t \in Tags /\ ~hasLine(s, t)
      /\ Len(s) >= NumLinesInSet /\ \A n \in DOMAIN s : s[n].state = "modified"
  BY JobParts DEF MakesRoom, isFull
<1>2. s # <<>> /\ Len(s) = NumLinesInSet
  BY <1>1, SizesAssumption DEF Sound
<1> HIDE DEF s
<1>3. /\ room \in Seq(Line) /\ Sound(room) /\ Len(room) < NumLinesInSet
      /\ Len(room) # NumLinesInSet /\ ~hasLine(room, t)
  <2>1. Len(room) = NumLinesInSet - 1
    BY <1>1, <1>2, EvictKeeps
  <2> QED  BY <1>1, <1>2, <2>1, EvictKeeps, SizesAssumption
<1>4. storedIn(k, isShared) = stored
  BY <1>1, <1>3 DEF storedIn, MakesRoom, s
<1>5. PICK gone : /\ View(s, gone) # "absent"
                  /\ \A u : View(room, u) = IF u = gone THEN "absent" ELSE View(s, u)
  BY <1>1, <1>2, ViewEvict
<1>6. hasLine(s, gone) /\ ~hasLine(room, gone)
  BY <1>1, <1>3, <1>5, ViewIs
<1>7. gone # t /\ gone \in Tags /\ getLine(s, gone).state = "modified"
  <2>1. indexOf(s, gone) \in DOMAIN s /\ s[indexOf(s, gone)].tag = gone
    BY <1>1, <1>6, IndexOf
  <2>2. s[indexOf(s, gone)] \in Line
    BY <1>1, <2>1
  <2> QED  BY <1>1, <1>6, <2>1, <2>2 DEF Line, getLine
<1> HIDE DEF room
<1>8. with \in Seq(Line) /\ Sound(with) /\ ~hasLine(with, gone)
  <2>1. CacheLine(t) \in Line /\ CacheLine(t).tag = t
    BY <1>1, NewLine
  <2>2. with = Append(room, CacheLine(t))
    BY <1>3 DEF addLine
  <2>3. View(room, gone) = "absent"
    BY <1>6 DEF View
  <2>4. View(Append(room, CacheLine(t)), gone) = "absent"
    BY <1>3, <1>7, <2>1, <2>3, ViewAppend
  <2>5. Append(room, CacheLine(t)) \in Seq(Line) /\ Sound(Append(room, CacheLine(t)))
    BY <1>3, <2>1, ViewAppend
  <2> HIDE DEF with
  <2> QED  BY <2>2, <2>4, <2>5, ViewIs
<1> HIDE DEF with
<1>9. used \in Seq(Line) /\ Sound(used) /\ ~hasLine(used, gone)
  BY <1>8, TouchedKeeps, SameTagsSound
<1> HIDE DEF used
<1>10. ~hasLine(stored, gone)
  <2>1. installedState(k.currentJob.op, isShared) \in State
    BY InstalledState
  <2> HIDE DEF stored
  <2>2. stored \in Seq(Line) /\ SameTags(used, stored)
    BY <1>9, <2>1, SetStateKeeps DEF stored
  <2> QED  BY <1>9, <2>2, SameTagsSound
<1> QED  BY <1>4, <1>6, <1>7, <1>10 DEF s

LEMMA BusTurnFlush ==
    ASSUME RefInv, FlushInv, BusTurn
    PROVE  /\ FlushInv'
           /\ \A i \in Caches : FinishesRequest(i) /\ PaysForFlush(i) => EvictsModified(i)
<1>1. /\ cycles \in Nat /\ cache \in [Caches -> CacheRecord] /\ AllWellFormed(cache)
      /\ bus.isShared \in BOOLEAN
      /\ \A i \in Caches : WellFormed(cache[i]) /\ Flags(cache[i])
  BY DEF RefInv, Inv, TypeOK, AllWellFormed, ControlInv
<1>2. CASE UNCHANGED cache
  <2>1. \A i \in Caches : ~FinishesRequest(i)
    BY <1>2 DEF FinishesRequest
  <2>2. \A i \in Caches : cache'[i].haveBusRequest /\ PaysForFlush(i)'
                             => MakesRoom(cache'[i])
    BY <1>2, SameRequestFits
  <2> QED  BY <2>1, <2>2 DEF FlushInv
<1>3. ASSUME NEW i \in Caches, cache[i].haveBusRequest, cache[i].busRequestBeingServiced,
             cache' = [cache EXCEPT ![i] = busJobDone(cache[i], bus.isShared)]
      PROVE  /\ FlushInv'
             /\ \A j \in Caches : FinishesRequest(j) /\ PaysForFlush(j) => EvictsModified(j)
  <2> DEFINE k == cache[i]
             r == busJobDone(k, bus.isShared)
             set == SetOf(k.currentJob.block)
             stored == storedIn(k, bus.isShared)
  <2>1. k.currentJob # NULL /\ k.currentJob.op \in {"R", "W"} /\ set \in Sets
    <3>1. k.currentJob # NULL /\ k.currentJob.op \in {"R", "W"}
      BY <1>1, <1>3 DEF Flags
    <3> QED  BY <1>1, <3>1, JobParts
  <2>2. ~r.haveBusRequest /\ r.localCache[set] = stored
    <3>1. ~r.haveBusRequest
      BY <1>1, <2>1, BusJobDoneKeeps
    <3>2. r = [k EXCEPT !.haveBusRequest = FALSE, !.busy = FALSE,
                        !.busRequestBeingServiced = FALSE, !.localCache[set] = stored]
      BY DEF busJobDone
    <3>3. k \in CacheRecord /\ k.localCache \in [Sets -> Seq(Line)]
      BY <1>1 DEF WellFormed, CacheRecord
    <3> HIDE DEF k, r, set, stored
    <3>4. r.localCache[set] = stored
      BY <2>1, <3>2, <3>3 DEF CacheRecord
    <3> QED  BY <3>1, <3>4
  <2>3. \A j \in Caches : cache'[j] = IF j = i THEN r ELSE cache[j]
    BY <1>1, <1>3
  <2>4. FlushInv'
    <3> SUFFICES ASSUME NEW j \in Caches
                 PROVE  cache'[j].haveBusRequest /\ PaysForFlush(j)'
                           => MakesRoom(cache'[j])
      BY DEF FlushInv
    <3>1. CASE j = i
      BY <2>2, <2>3, <3>1
    <3>2. CASE j # i
      BY <2>3, <3>2, SameRequestFits
    <3> QED  BY <3>1, <3>2
  <2>5. \A j \in Caches : FinishesRequest(j) => j = i
    BY <2>3 DEF FinishesRequest
  <2>6. PaysForFlush(i) => EvictsModified(i)
    <3> SUFFICES ASSUME PaysForFlush(i)  PROVE EvictsModified(i)
      OBVIOUS
    <3>1. MakesRoom(k)
      BY <1>3 DEF FlushInv
    <3>2. PICK t \in Tags : /\ hasLine(SetOfJob(k), t)
                            /\ getLine(SetOfJob(k), t).state = "modified"
                            /\ ~hasLine(stored, t)
      BY <1>1, <2>1, <3>1, RoomIsMade
    <3>3. SetOfJob(k) = cache[i].localCache[set] /\ cache'[i].localCache[set] = stored
      BY <2>2, <2>3 DEF SetOfJob
    <3> HIDE DEF stored, set, k
    <3> QED  BY <2>1, <3>2, <3>3 DEF EvictsModified, Evicts
  <2> QED  BY <2>4, <2>5, <2>6
<1>4. ASSUME NEW i \in Caches, OnlyBusy(cache, i), cache[i].haveBusRequest,
             cache' = granted(cache, i)
      PROVE  /\ FlushInv'
             /\ \A j \in Caches : ~FinishesRequest(j)
  <2>1. \A j \in Caches : Granted(cache[j], cache'[j], j = i)
    BY <1>1, <1>4, GrantedKeeps
  <2>2. \A j \in Caches : cache'[j].haveBusRequest => j = i
    BY <1>1, <1>4, <2>1 DEF Granted, OnlyBusy, Flags
  <2>3. cache'[i].localCache = cache[i].localCache
    <3> DEFINE k == cache[i]
               cost == requesterCost(cache, i)
               r == [k EXCEPT !.startServiceCycle = cycles,
                              !.busRequestBeingServiced = TRUE, !.jobCycleCost = cost]
    <3>1. cache'[i] = r
      BY <1>1, <1>4 DEF granted, getBusRequest, CacheRecord
    <3> HIDE DEF k, cost
    <3>2. k \in CacheRecord
      BY <1>1 DEF k
    <3>3. r.localCache = k.localCache
      BY <3>2 DEF CacheRecord
    <3> QED  BY <3>1, <3>3 DEF k
  <2>4. cache'[i].haveBusRequest /\ PaysForFlush(i)' => MakesRoom(cache'[i])
    BY <1>4, <2>1, <2>3, SameRequestFits DEF Granted
  <2>5. \A j \in Caches : ~FinishesRequest(j)
    BY <2>1 DEF Granted, FinishesRequest
  <2> QED  BY <2>2, <2>4, <2>5 DEF FlushInv
<1> QED  BY <1>2, <1>3, <1>4, BusTurnCases

\* A cache whose request costs more than an answer of memory has been charged for writing
\* a dirty line back; when the bus is done, that cache has written one back: a line that
\* was modified is gone.  (Were a hit dearer than memory, an upgrade in MOESI would look
\* like such a request.)
THEOREM PaidFlushesAreDone ==
    CacheHitCycleCost <= MemoryResponseCycleCost => (Spec => FlushPaidIsFlushDone)
<1> SUFFICES ASSUME CacheHitCycleCost <= MemoryResponseCycleCost
             PROVE  Spec => FlushPaidIsFlushDone
  OBVIOUS
<1> DEFINE A == \A i \in Caches :
                   FinishesRequest(i) /\ PaysForFlush(i) => EvictsModified(i)
<1>1. Init => FlushInv
  BY DEF Init, NewCache, FlushInv
<1>2. RefInv /\ FlushInv /\ [Next]_vars => FlushInv' /\ [A]_vars
  <2> SUFFICES ASSUME RefInv, FlushInv, [Next]_vars  PROVE FlushInv' /\ [A]_vars
    OBVIOUS
  <2>1. CASE UNCHANGED vars
    <3>1. UNCHANGED cache
      BY <2>1 DEF vars
    <3>2. \A i \in Caches : cache'[i].haveBusRequest /\ PaysForFlush(i)'
                               => MakesRoom(cache'[i])
      BY <3>1, SameRequestFits
    <3> QED  BY <2>1, <3>2 DEF FlushInv
  <2>2. CASE Next
    BY <2>2, LoopFlush, CacheTurnFlush, BusTurnFlush DEF Next
  <2> QED  BY <2>1, <2>2
<1>3. Init => RefInv
  BY InitRefines
<1>4. RefInv /\ [Next]_vars => RefInv'
  BY StepRefines
<1> HIDE DEF A
<1>5. Spec => [][A]_vars
  BY <1>1, <1>2, <1>3, <1>4, PTL DEF Spec
<1> QED  BY <1>5 DEF FlushPaidIsFlushDone, A

-----------------------------------------------------------------------------
(***************************************************************************)
(* The least recently used line.  In an order of use the tags of J, that   *)
(* of the cache's last job, come first, and the times tell the others.  To *)
(* use a line, for LRU, is to move it to the front: here it is to give it  *)
(* the present cycle, and no other line but the job's has had it before.   *)
(***************************************************************************)
Order(f, J) == {z \in (DOMAIN f) \X (DOMAIN f) :
                   z[2] \in J \/ (z[1] \notin J /\ f[z[1]] <= f[z[2]])}

LEMMA OrderTags ==
    ASSUME NEW T, NEW f \in [T -> Nat], NEW J
    PROVE  Order(f, J) \in SUBSET (T \X T) /\ Lru!held(Order(f, J)) = T
<1> DEFINE R == Order(f, J)
<1>1. R \in SUBSET (T \X T)
  BY DEF Order
<1>2. \A t \in T : <<t, t>> \in R
  BY DEF Order
<1> HIDE DEF R
<1>3. Lru!held(R) \subseteq T
  BY <1>1 DEF Lru!held
<1>4. ASSUME NEW t \in T  PROVE t \in Lru!held(R)
  <2>1. <<t, t>> \in R /\ t = <<t, t>>[1]
    BY <1>2
  <2> QED  BY <2>1 DEF Lru!held
<1> QED  BY <1>1, <1>3, <1>4 DEF R

LEMMA Fronts ==
    ASSUME NEW T, NEW R \in SUBSET (T \X T), Lru!held(R) = T, NEW K
    PROVE  /\ Lru!toFront(R, K) =
                 {z \in T \X T : z[2] \in K \/ (z[1] \notin K /\ z \in R)}
           /\ Lru!held(Lru!toFront(R, K)) = T
<1> DEFINE F == {z \in T \X T : z[2] \in K \/ (z[1] \notin K /\ z \in R)}
<1>1. Lru!toFront(R, K) = {p \in R : p[1] \notin K \cap T} \cup (T \X (K \cap T))
  BY DEF Lru!toFront
<1>2. Lru!toFront(R, K) = F
  BY <1>1
<1>3. \A t \in T : \E u \in T : <<t, u>> \in R
  <2>1. \A t \in T : \E p \in R : t = p[1]
    BY DEF Lru!held
  <2> QED  BY <2>1
<1>4. \A t \in T : \E u \in T : <<t, u>> \in F
  BY <1>3
<1>5. F \in SUBSET (T \X T)
  OBVIOUS
<1> HIDE DEF F
<1>6. Lru!held(F) = T
  BY <1>4, <1>5 DEF Lru!held
<1> QED  BY <1>2, <1>6 DEF F

\* In cycle now, g is f but for the lines of J, used now, and that of t.
UsedFrom(T, f, g, J, t, now) ==
    /\ f \in [T -> Nat] /\ g \in [T -> Nat] /\ now \in Nat
    /\ \A u \in T : f[u] < now
    /\ \A u \in T \ {t} : u \in J => g[u] = now
    /\ \A u \in T \ {t} : u \notin J => g[u] = f[u]

\* A job begins: t comes first, and the line of the job before it second.
LEMMA UseOrder ==
    ASSUME NEW T, NEW f, NEW g, NEW J, NEW t, NEW now, UsedFrom(T, f, g, J, t, now)
    PROVE  Order(g, {t}) = Lru!toFront(Order(f, J), {t})
<1> USE DEF UsedFrom
<1> DEFINE R == Order(f, J)
<1>1. Lru!toFront(R, {t}) = {z \in T \X T : z[2] \in {t} \/ (z[1] \notin {t} /\ z \in R)}
  BY OrderTags, Fronts
<1>2. \A z \in T \X T : z[1] # t /\ z[2] # t => (z \in R <=> g[z[1]] <= g[z[2]])
  BY DEF Order
<1> HIDE DEF R
<1>3. Order(g, {t}) = {z \in T \X T : z[2] \in {t} \/ (z[1] \notin {t} /\ g[z[1]] <= g[z[2]])}
  BY DEF Order
<1>4. Order(g, {t}) = Lru!toFront(R, {t})
  BY <1>1, <1>2, <1>3
<1> QED  BY <1>4 DEF R

\* In cycle now, no line but that of J has been used.
SnoopedIn(T, f, J, now) ==
    f \in [T -> Nat] /\ now \in Nat /\ \A u \in T \ J : f[u] < now

\* A request is snooped: t comes first, but for the line of the last job.
LEMMA SnoopOrder ==
    ASSUME NEW T, NEW f, NEW J, NEW t, NEW now, SnoopedIn(T, f, J, now)
    PROVE  Order(UsedAt(f, t, now), J) = Lru!toFront(Lru!toFront(Order(f, J), {t}), J)
<1> USE DEF SnoopedIn
<1> DEFINE R == Order(f, J)
           F == Lru!toFront(R, {t})
           g == UsedAt(f, t, now)
<1>1. F = {z \in T \X T : z[2] \in {t} \/ (z[1] \notin {t} /\ z \in R)} /\ Lru!held(F) = T
  BY OrderTags, Fronts
<1>2. F \in SUBSET (T \X T) /\ Lru!held(F) = T
  BY <1>1
<1> HIDE DEF F
<1>3. Lru!toFront(F, J) = {z \in T \X T : z[2] \in J \/ (z[1] \notin J /\ z \in F)}
  BY <1>2, Fronts
<1>4. \A z \in T \X T : z \in R <=> z[2] \in J \/ (z[1] \notin J /\ f[z[1]] <= f[z[2]])
  BY DEF Order
<1> HIDE DEF R
<1>5. g \in [T -> Nat] /\ \A u \in T : g[u] = IF u = t THEN now ELSE f[u]
  BY DEF UsedAt
<1> HIDE DEF g
<1>6. Order(g, J) = {z \in T \X T : z[2] \in J \/ (z[1] \notin J /\ g[z[1]] <= g[z[2]])}
  BY <1>5 DEF Order
<1>7. ASSUME NEW z \in T \X T, z[1] \notin J, z[2] \notin J
      PROVE  z \in F <=> g[z[1]] <= g[z[2]]
  <2>1. z[1] \in T /\ z[2] \in T /\ f[z[1]] \in Nat /\ f[z[2]] \in Nat
    OBVIOUS
  <2>2. f[z[1]] < now /\ f[z[2]] < now
    BY <1>7
  <2>3. z \in F <=> z[2] = t \/ (z[1] # t /\ f[z[1]] <= f[z[2]])
    BY <1>1, <1>4, <1>7
  <2>4. g[z[1]] = (IF z[1] = t THEN now ELSE f[z[1]])
        /\ g[z[2]] = (IF z[2] = t THEN now ELSE f[z[2]])
    BY <1>5
  <2> QED  BY <2>1, <2>2, <2>3, <2>4
<1>8. Order(g, J) = Lru!toFront(F, J)
  BY <1>3, <1>6, <1>7
<1> QED  BY <1>8 DEF F, R, g

\* In cycle now, g is f with a new use of t.
StoredFrom(T, f, g, t, now) ==
    /\ f \in [T -> Nat] /\ now \in Nat
    /\ g = [u \in T \cup {t} |-> IF u = t THEN now ELSE f[u]]

\* A line is stored where there is room for it, and comes first.
LEMMA StoreOrder ==
    ASSUME NEW T, NEW f, NEW g, NEW t, NEW now, StoredFrom(T, f, g, t, now)
    PROVE  Order(g, {t}) = Lru!toFront(Order(f, {t}) \cup {<<t, t>>}, {t})
<1> DEFINE U == T \cup {t}
           R == Order(f, {t}) \cup {<<t, t>>}
<1>0. f \in [T -> Nat] /\ now \in Nat /\ g = [u \in U |-> IF u = t THEN now ELSE f[u]]
  BY DEF StoredFrom
<1>1. Order(f, {t}) \in SUBSET (T \X T) /\ Lru!held(Order(f, {t})) = T
  BY <1>0, OrderTags
<1>2. R \in SUBSET (U \X U)
  BY <1>1
<1>3. Lru!held(R) = U
  <2>1. Lru!held(R) = Lru!held(Order(f, {t})) \cup {<<t, t>>[1]}
    BY DEF Lru!held
  <2> QED  BY <1>1, <2>1
<1>4. \A z \in U \X U : z[1] # t /\ z[2] # t => (z \in R <=> f[z[1]] <= f[z[2]])
  BY <1>0 DEF Order
<1> HIDE DEF R
<1>5. Lru!toFront(R, {t}) = {z \in U \X U : z[2] \in {t} \/ (z[1] \notin {t} /\ z \in R)}
  BY <1>2, <1>3, Fronts
<1>6. Order(g, {t}) = {z \in U \X U : z[2] \in {t} \/ (z[1] \notin {t} /\ g[z[1]] <= g[z[2]])}
  BY <1>0 DEF Order
<1>7. \A u \in U : u # t => g[u] = f[u]
  BY <1>0
<1>8. Order(g, {t}) = Lru!toFront(R, {t})
  BY <1>4, <1>5, <1>6, <1>7
<1> QED  BY <1>8 DEF R

\* f has no use of t, and none that is older than that of g; h is f without g.
RoomFrom(T, f, g, h, t) ==
    /\ f \in [T -> Nat] /\ t \notin T /\ g \in T
    /\ \A u \in T : f[g] <= f[u]
    /\ h = [u \in T \ {g} |-> f[u]]

\* The line whose last use is the oldest is a victim; without it the others keep their order.
LEMMA VictimOrder ==
    ASSUME NEW T, NEW f, NEW g, NEW h, NEW t, RoomFrom(T, f, g, h, t)
    PROVE  /\ g \in Lru!leastRecent(Order(f, {t}))
           /\ Lru!without(Order(f, {t}), {g}) = Order(h, {t})
<1> DEFINE R == Order(f, {t})
<1>0. /\ f \in [T -> Nat] /\ t \notin T /\ g \in T
      /\ \A u \in T : f[g] <= f[u]
      /\ h = [u \in T \ {g} |-> f[u]]
  BY DEF RoomFrom
<1>1. R = {z \in T \X T : f[z[1]] <= f[z[2]]}
  BY <1>0 DEF Order
<1>2. Lru!held(R) = T
  BY <1>0, OrderTags
<1>3. Order(h, {t}) = {z \in (T \ {g}) \X (T \ {g}) : f[z[1]] <= f[z[2]]}
  BY <1>0 DEF Order
<1> HIDE DEF R
<1>4. g \in Lru!leastRecent(R)
  BY <1>0, <1>1, <1>2 DEF Lru!leastRecent
<1>5. Lru!without(R, {g}) = Order(h, {t})
  BY <1>1, <1>3 DEF Lru!without
<1> QED  BY <1>4, <1>5 DEF R

\* What LRU sees of a cache.
LastTags(k) == IF k.currentJob = NULL THEN {} ELSE {TagOfJob(k)}
OrderOf(k) == [set \in Sets |-> Order(LastUseOf(k, set), LastTags(k))]
BlockOf(k) == IF k.currentJob = NULL THEN <<>> ELSE k.currentJob.block

LEMMA OrderSeen ==
    ASSUME NEW k, WellFormed(k), NEW set \in Sets
    PROVE  LET lines == Range(k.localCache[set])
           IN  {<<p[1].tag, p[2].tag>> :
                   p \in {q \in lines \X lines : usedSince(k, q[1], q[2])}} = OrderOf(k)[set]
<1> DEFINE s == k.localCache[set]
           lines == Range(s)
           f == LastUse(s)
           T == TagsIn(s)
           J == LastTags(k)
           seen == {<<p[1].tag, p[2].tag>> :
                       p \in {q \in lines \X lines : usedSince(k, q[1], q[2])}}
<1>1. s \in Seq(Line) /\ Sound(s)
  BY DEF WellFormed, CacheRecord
<1>2. /\ \A l \in lines : l.tag \in T /\ f[l.tag] = l.lastUsedCycle
      /\ \A t \in T : \E l \in lines : l.tag = t
      /\ f \in [T -> Nat]
  <2>1. lines = {s[i] : i \in DOMAIN s}
    BY DEF Range
  <2> QED  BY <1>1, <2>1, LastUseIs DEF TagsIn
<1>3. \A l : isLast(k, l) <=> l.tag \in J
  BY DEF isLast, LastTags
<1> HIDE DEF lines, f, T, J
<1>4. \A l, m \in lines : usedSince(k, l, m) <=> <<l.tag, m.tag>> \in Order(f, J)
  BY <1>2, <1>3 DEF usedSince, Order
<1>5. Order(f, J) \in SUBSET (T \X T)
  BY <1>2, OrderTags
<1>6. seen = Order(f, J)
  <2>1. ASSUME NEW p \in lines \X lines, usedSince(k, p[1], p[2])
        PROVE  <<p[1].tag, p[2].tag>> \in Order(f, J)
    BY <1>4, <2>1
  <2>2. ASSUME NEW z \in Order(f, J)  PROVE z \in seen
    <3>1. z[1] \in T /\ z[2] \in T /\ z = <<z[1], z[2]>>
      BY <1>5
    <3>2. PICK l \in lines, m \in lines : l.tag = z[1] /\ m.tag = z[2]
      BY <1>2, <3>1
    <3>3. usedSince(k, l, m)
      BY <1>4, <3>1, <3>2
    <3>4. <<l, m>> \in {q \in lines \X lines : usedSince(k, q[1], q[2])}
      BY <3>3
    <3> QED  BY <3>1, <3>2, <3>4
  <2> QED  BY <2>1, <2>2
<1> QED  BY <1>6 DEF OrderOf, LastUseOf, seen, lines, f, J, s

LEMMA OrderMapped ==
    /\ AllWellFormed(cache) => lruOrder = [i \in Caches |-> OrderOf(cache[i])]
    /\ AllWellFormed(cache') => lruOrder' = [i \in Caches |-> OrderOf(cache'[i])]
    /\ lastBlock = [i \in Caches |-> BlockOf(cache[i])]
    /\ lastBlock' = [i \in Caches |-> BlockOf(cache'[i])]
<1>1. AllWellFormed(cache) => lruOrder = [i \in Caches |-> OrderOf(cache[i])]
  BY OrderSeen DEF lruOrder, AllWellFormed, OrderOf
<1>2. AllWellFormed(cache') => lruOrder' = [i \in Caches |-> OrderOf(cache'[i])]
  BY OrderSeen DEF lruOrder, AllWellFormed, OrderOf
<1> QED  BY <1>1, <1>2 DEF lastBlock, BlockOf

\* The last job of a cache, for LRU.
LEMMA LastSeen ==
    ASSUME NEW k, WellFormed(k)
    PROVE  /\ k.currentJob # NULL => BlockOf(k) # <<>> /\ BlockOf(k) \in Blocks
           /\ {Lru!TagOf(b) : b \in {BlockOf(k)} \ {<<>>}} = LastTags(k)
<1>1. CASE k.currentJob = NULL
  BY <1>1 DEF BlockOf, LastTags
<1>2. CASE k.currentJob # NULL
  <2>1. k.currentJob.block \in Blocks
    BY <1>2, JobParts DEF CacheJob
  <2>2. k.currentJob.block # <<>>
    <3>1. k.currentJob.block \in Sets \X Nat
      BY <2>1, BlocksAssumption
    <3> QED  BY <3>1
  <2> QED  BY <1>2, <2>1, <2>2 DEF BlockOf, LastTags, Lru!TagOf, TagOf, TagOfJob
<1> QED  BY <1>1, <1>2

\* A step of the loop, or one in which a cache uses the line of its last job, is none.
LEMMA SameSeen ==
    ASSUME NEW k, WellFormed(k), NEW r, r.currentJob = k.currentJob,
           UsesOwn(k, r) \/ UsesNothing(k, r)
    PROVE  OrderOf(r) = OrderOf(k) /\ BlockOf(r) = BlockOf(k)
<1>1. LastTags(r) = LastTags(k) /\ BlockOf(r) = BlockOf(k)
  BY DEF LastTags, TagOfJob, BlockOf
<1>2. ASSUME NEW set \in Sets
      PROVE  Order(LastUseOf(r, set), LastTags(k)) = Order(LastUseOf(k, set), LastTags(k))
  <2> DEFINE f == LastUseOf(k, set)
             T == TagsIn(k.localCache[set])
  <2>1. f \in [T -> Nat]
    BY LastUseIs DEF LastUseOf, WellFormed, CacheRecord
  <2> HIDE DEF f
  <2>2. CASE LastUseOf(r, set) = f
    BY <2>2 DEF f
  <2>3. CASE k.currentJob # NULL /\ LastUseOf(r, set) = UsedAt(f, TagOfJob(k), cycles)
    <3> DEFINE g == [u \in T |-> IF u = TagOfJob(k) THEN cycles ELSE f[u]]
    <3>1. \A z \in T \X T : z[2] \in LastTags(k) \/ (z[1] \notin LastTags(k) /\ g[z[1]] <= g[z[2]])
             <=> z[2] \in LastTags(k) \/ (z[1] \notin LastTags(k) /\ f[z[1]] <= f[z[2]])
      BY <2>3 DEF LastTags
    <3>2. UsedAt(f, TagOfJob(k), cycles) = g
      BY <2>1 DEF UsedAt
    <3>3. DOMAIN g = T /\ DOMAIN f = T
      BY <2>1
    <3> HIDE DEF g
    <3>4. Order(g, LastTags(k)) = Order(f, LastTags(k))
      BY <3>1, <3>3 DEF Order
    <3> QED  BY <2>3, <3>2, <3>4 DEF f
  <2> QED  BY <2>2, <2>3 DEF UsesOwn, UsesTag, UsesNothing, f
<1> QED  BY <1>1, <1>2 DEF OrderOf

LEMMA SameLru ==
    ASSUME AllWellFormed(cache), AllWellFormed(cache'),
           \A i \in Caches :
              /\ OrderOf(cache'[i]) = OrderOf(cache[i]) /\ BlockOf(cache'[i]) = BlockOf(cache[i])
              /\ cache'[i].busRequestBeingServiced = cache[i].busRequestBeingServiced
    PROVE  UNCHANGED Lru!vars
<1>1. lruOrder' = lruOrder /\ lastBlock' = lastBlock
  BY OrderMapped
<1>2. OnBus' = OnBus
  BY DEF OnBus
<1> QED  BY <1>1, <1>2 DEF Lru!vars

LEMMA LoopLru ==
    ASSUME RefInv, RefInv', Finish \/ NextCycle \/ \E l \in TraceLines : NextJob(l)
    PROVE  UNCHANGED Lru!vars
<1>1. cache \in [Caches -> CacheRecord] /\ AllWellFormed(cache) /\ AllWellFormed(cache')
  BY DEF RefInv, Inv, TypeOK
<1>2. ASSUME \A i \in Caches : /\ cache'[i].currentJob = cache[i].currentJob
                               /\ cache'[i].localCache = cache[i].localCache
                               /\ cache'[i].busRequestBeingServiced
                                     = cache[i].busRequestBeingServiced
      PROVE  UNCHANGED Lru!vars
  <2>1. \A i \in Caches : UsesNothing(cache[i], cache'[i]) /\ WellFormed(cache[i])
    BY <1>1, <1>2 DEF UsesNothing, LastUseOf, AllWellFormed
  <2>2. \A i \in Caches : /\ OrderOf(cache'[i]) = OrderOf(cache[i])
                          /\ BlockOf(cache'[i]) = BlockOf(cache[i])
    BY <1>2, <2>1, SameSeen
  <2> QED  BY <1>1, <1>2, <2>2, SameLru
<1>3. CASE UNCHANGED cache
  BY <1>2, <1>3
<1>4. ASSUME NEW l \in TraceLines, NextJob(l)  PROVE UNCHANGED Lru!vars
  <2> DEFINE p == accessProcessorId(l)
             jobs == Append(cache[p].pendingJobs, jobOf(l))
             r == [cache[p] EXCEPT !.pendingJobs = jobs]
  <2>1. cache' = [cache EXCEPT ![p] = r]
    BY <1>4 DEF NextJob, HandOut
  <2> HIDE DEF p, jobs
  <2>2. p \in Caches => /\ r.currentJob = cache[p].currentJob
                        /\ r.localCache = cache[p].localCache
                        /\ r.busRequestBeingServiced = cache[p].busRequestBeingServiced
    BY <1>1 DEF CacheRecord
  <2> HIDE DEF r
  <2>3. \A i \in Caches : cache'[i] = IF i = p THEN r ELSE cache[i]
    BY <1>1, <2>1
  <2> QED  BY <1>2, <2>2, <2>3
<1> QED  BY <1>3, <1>4 DEF Finish, NextCycle

\* A job that begins is a Use.
LEMMA UseSeen ==
    ASSUME NEW c, WellFormed(c), NEW k, NEW r, UsesOwn(c, k), r.currentJob # NULL,
           UsesTag(k, r, TagOfJob(r)) \/ UsesNothing(k, r),
           UsedBefore(c, cycles), cycles \in Nat
    PROVE  \A set \in Sets :
              OrderOf(r)[set] = Lru!toFront(OrderOf(c)[set], {TagOfJob(r)})
<1> SUFFICES ASSUME NEW set \in Sets
             PROVE  Order(LastUseOf(r, set), {TagOfJob(r)})
                       = Lru!toFront(Order(LastUseOf(c, set), LastTags(c)), {TagOfJob(r)})
  BY DEF OrderOf, LastTags
<1> DEFINE s == c.localCache[set]
           T == TagsIn(s)
           f == LastUseOf(c, set)
           h == LastUseOf(k, set)
           g == LastUseOf(r, set)
           J == LastTags(c)
           t == TagOfJob(r)
<1>1. /\ f \in [T -> Nat]
      /\ \A u \in T : <<u, f[u]>> \in UsesOf(c, set)
  BY LastUseIs DEF WellFormed, CacheRecord, LastUseOf, UsesOf
<1>2. \A u \in T : f[u] < cycles
  BY <1>1 DEF UsedBefore
<1>3. h \in [T -> Nat] /\ \A u \in T : h[u] = IF u \in J THEN cycles ELSE f[u]
  <2>1. CASE c.currentJob = NULL
    BY <1>1, <2>1 DEF UsesOwn, UsesNothing, LastTags
  <2>2. CASE c.currentJob # NULL
    <3>1. h = UsedAt(f, TagOfJob(c), cycles) /\ J = {TagOfJob(c)}
      BY <2>2 DEF UsesOwn, UsesTag, LastTags
    <3> HIDE DEF h, f, J
    <3> QED  BY <1>1, <3>1 DEF UsedAt
  <2> QED  BY <2>1, <2>2
<1>4. g = UsedAt(h, t, cycles) \/ g = h
  BY DEF UsesTag, UsesNothing
<1> HIDE DEF f, g, h, T, J, t
<1>5. /\ g \in [T -> Nat]
      /\ \A u \in T \ {t} : u \in J => g[u] = cycles
      /\ \A u \in T \ {t} : u \notin J => g[u] = f[u]
  BY <1>3, <1>4 DEF UsedAt
<1>6. UsedFrom(T, f, g, J, t, cycles)
  BY <1>1, <1>2, <1>5 DEF UsedFrom
<1>7. Order(g, {t}) = Lru!toFront(Order(f, J), {t})
  BY <1>6, UseOrder
<1> QED  BY <1>7 DEF f, g, J, t

LEMMA CacheTurnLru ==
    ASSUME RefInv, RefInv', OrderInv, CacheTurn
    PROVE  [Lru!Next]_(Lru!vars)
<1> DEFINE c == cache[turn]
           r == IF c.busRequestBeingServiced THEN c ELSE Ticked(c)
<1>1. /\ turn \in Caches /\ CacheTick(turn) /\ phase = "caches"
      /\ cycles \in Nat /\ stats \in [Counters -> Nat] /\ cache \in [Caches -> CacheRecord]
      /\ WellFormed(c) /\ Flags(c) /\ Len(c.pendingJobs) <= 1
      /\ c.busy => c.pendingJobs = <<>>
      /\ AllWellFormed(cache) /\ AllWellFormed(cache')
  BY DEF CacheTurn, RefInv, Inv, TypeOK, AllWellFormed, ControlInv, OneJobAtATime
<1>2. cache' = [cache EXCEPT ![turn] = r]
  BY <1>1, CacheTickStep
<1>3. UsedBefore(c, cycles) /\ IdleIsOver(c, cycles)
  <2>1. ~HadTurn(turn)
    BY <1>1 DEF HadTurn, Caches
  <2> QED  BY <1>1, <2>1 DEF OrderInv, Ordered
<1>4. ~c.busRequestBeingServiced => ~c.haveBusRequest
  BY <1>1 DEF RefInv, Inv, ControlInv, PickedUp, Caches
<1>5. r.busRequestBeingServiced = c.busRequestBeingServiced
  <2>1. c.busRequestBeingServiced \in BOOLEAN
    BY <1>1 DEF WellFormed, CacheRecord
  <2>2. ~c.busRequestBeingServiced => /\ ~Ticked(c).busRequestBeingServiced
                                      /\ WellFormed(Ticked(c))
    BY <1>1, <1>4, TickedKeeps
  <2>3. WellFormed(Ticked(c)) => Ticked(c).busRequestBeingServiced \in BOOLEAN
    BY DEF WellFormed, CacheRecord
  <2> QED  BY <2>1, <2>2, <2>3
<1>6. \/ /\ r.currentJob = c.currentJob
         /\ UsesOwn(c, r) \/ UsesNothing(c, r)
      \/ /\ ~c.busRequestBeingServiced /\ r.currentJob # NULL
         /\ \E k : UsesOwn(c, k) /\ (UsesTag(k, r, TagOfJob(r)) \/ UsesNothing(k, r))
  <2>1. CASE c.busRequestBeingServiced
    BY <2>1 DEF UsesNothing
  <2>2. CASE ~c.busRequestBeingServiced
    BY <1>1, <1>3, <1>4, <2>2, TickedLastUse
  <2> QED  BY <2>1, <2>2
<1> HIDE DEF r
<1>7. \A i \in Caches : cache'[i] = IF i = turn THEN r ELSE cache[i]
  BY <1>1, <1>2
<1>8. CASE r.currentJob = c.currentJob /\ (UsesOwn(c, r) \/ UsesNothing(c, r))
  <2>1. OrderOf(r) = OrderOf(c) /\ BlockOf(r) = BlockOf(c)
    BY <1>1, <1>8, SameSeen
  <2>2. \A i \in Caches :
           /\ OrderOf(cache'[i]) = OrderOf(cache[i]) /\ BlockOf(cache'[i]) = BlockOf(cache[i])
           /\ cache'[i].busRequestBeingServiced = cache[i].busRequestBeingServiced
    BY <1>5, <1>7, <2>1
  <2> QED  BY <1>1, <2>2, SameLru
<1>9. ASSUME ~c.busRequestBeingServiced, r.currentJob # NULL,
             NEW k, UsesOwn(c, k), UsesTag(k, r, TagOfJob(r)) \/ UsesNothing(k, r)
      PROVE  Lru!Next
  <2> DEFINE b == BlockOf(r)
             front == [set \in Sets |-> Lru!toFront(lruOrder[turn][set], {Lru!TagOf(b)})]
  <2>1. b \in Blocks /\ Lru!TagOf(b) = TagOfJob(r)
    <3>1. WellFormed(r)
      BY <1>1, <1>7 DEF AllWellFormed
    <3> QED  BY <1>9, <3>1, LastSeen DEF BlockOf, Lru!TagOf, TagOf, TagOfJob
  <2>2. lruOrder = [i \in Caches |-> OrderOf(cache[i])]
        /\ lruOrder' = [i \in Caches |-> OrderOf(cache'[i])]
        /\ lastBlock = [i \in Caches |-> BlockOf(cache[i])]
        /\ lastBlock' = [i \in Caches |-> BlockOf(cache'[i])]
    BY <1>1, OrderMapped
  <2>3. OrderOf(r) = front
    <3>1. \A set \in Sets : OrderOf(r)[set] = Lru!toFront(OrderOf(c)[set], {TagOfJob(r)})
      <4> HIDE DEF c
      <4> QED  BY <1>1, <1>3, <1>9, UseSeen
    <3>2. lruOrder[turn] = OrderOf(c)
      BY <1>1, <2>2
    <3>3. OrderOf(r) = [set \in Sets |-> OrderOf(r)[set]]
      BY DEF OrderOf
    <3> QED  BY <2>1, <3>1, <3>2, <3>3
  <2> HIDE DEF front, b
  <2>4. lruOrder' = [lruOrder EXCEPT ![turn] = front]
    BY <1>1, <1>7, <2>2, <2>3
  <2>5. lastBlock' = [lastBlock EXCEPT ![turn] = b]
    BY <1>1, <1>7, <2>2 DEF b
  <2>6. OnBus' = OnBus /\ turn \notin OnBus
    BY <1>5, <1>7, <1>9 DEF OnBus
  <2>7. Lru!Use(turn, b)
    BY <2>4, <2>5, <2>6 DEF Lru!Use, front
  <2> QED  BY <1>1, <2>1, <2>7 DEF Lru!Next
<1> QED  BY <1>6, <1>8, <1>9

LEMMA SameCardinality == \A S : Lru!Cardinality(S) = Cardinality(S)
BY DEF Lru!Cardinality, Cardinality

\* The bus is done: what goes is a victim, and the line of the job comes first.
LEMMA StoredSeen ==
    ASSUME NEW k, WellFormed(k), k.currentJob # NULL, k.currentJob.op \in {"R", "W"},
           NEW isShared \in BOOLEAN, cycles \in Nat
    PROVE  LET s == SetOfJob(k)
               t == TagOfJob(k)
               R == Order(LastUse(s), {t})
           IN  \E gone \in Lru!victims(R, t) :
                  Order(LastUse(storedIn(k, isShared)), {t})
                     = Lru!toFront(Lru!without(R, gone) \cup {<<t, t>>}, {t})
<1> DEFINE s == SetOfJob(k)
           t == TagOfJob(k)
           f == LastUse(s)
           T == TagsIn(s)
           R == Order(f, {t})
           stored == LastUse(storedIn(k, isShared))
           Goal == \E gone \in Lru!victims(R, t) :
                      Order(stored, {t})
                         = Lru!toFront(Lru!without(R, gone) \cup {<<t, t>>}, {t})
<1>1. s \in Seq(Line) /\ Sound(s)
  BY JobParts
<1>2. f \in [T -> Nat] /\ Cardinality(T) = Len(s)
  BY <1>1, LastUseIs, HowManyTags
<1>3. \/ /\ t \in T \/ Len(s) # NumLinesInSet
         /\ stored = [u \in T \cup {t} |-> IF u = t THEN cycles ELSE f[u]]
      \/ /\ t \notin T /\ Len(s) = NumLinesInSet
         /\ \E g \in T : /\ \A u \in T : f[g] <= f[u]
                         /\ stored = [u \in (T \ {g}) \cup {t} |->
                                         IF u = t THEN cycles ELSE f[u]]
  BY StoredInLastUse
<1> HIDE DEF f, T, stored, s, t
<1>4. Lru!held(R) = T
  BY <1>2, OrderTags
<1>5. ASSUME t \in T \/ Len(s) # NumLinesInSet,
             stored = [u \in T \cup {t} |-> IF u = t THEN cycles ELSE f[u]]
      PROVE  Goal
  <2>1. StoredFrom(T, f, stored, t, cycles)
    BY <1>2, <1>5 DEF StoredFrom
  <2>2. Order(stored, {t}) = Lru!toFront(R \cup {<<t, t>>}, {t})
    BY <2>1, StoreOrder
  <2> HIDE DEF R
  <2>3. Lru!without(R, {}) = R
    BY DEF Lru!without
  <2>4. {} \in Lru!victims(R, t)
    <3>1. t \in Lru!held(R) \/ Lru!Cardinality(Lru!held(R)) # NumLinesInSet
      BY <1>2, <1>4, <1>5, SameCardinality
    <3>2. Lru!victims(R, t) = {{}}
      BY <3>1 DEF Lru!victims
    <3> QED  BY <3>2
  <2> QED  BY <2>2, <2>3, <2>4
<1>6. ASSUME t \notin T, Len(s) = NumLinesInSet, NEW g \in T, \A u \in T : f[g] <= f[u],
             stored = [u \in (T \ {g}) \cup {t} |-> IF u = t THEN cycles ELSE f[u]]
      PROVE  Goal
  <2> DEFINE h == [u \in T \ {g} |-> f[u]]
  <2>1. RoomFrom(T, f, g, h, t)
    BY <1>2, <1>6 DEF RoomFrom
  <2>2. StoredFrom(T \ {g}, h, stored, t, cycles)
    <3>1. h \in [T \ {g} -> Nat]
      BY <1>2
    <3>2. stored = [u \in (T \ {g}) \cup {t} |-> IF u = t THEN cycles ELSE h[u]]
      BY <1>6
    <3> HIDE DEF h
    <3> QED  BY <3>1, <3>2 DEF StoredFrom
  <2> HIDE DEF h
  <2>3. g \in Lru!leastRecent(R) /\ Lru!without(R, {g}) = Order(h, {t})
    BY <2>1, VictimOrder
  <2>4. Order(stored, {t}) = Lru!toFront(Order(h, {t}) \cup {<<t, t>>}, {t})
    BY <2>2, StoreOrder
  <2> HIDE DEF R
  <2>5. {g} \in Lru!victims(R, t)
    <3>1. ~(t \in Lru!held(R) \/ Lru!Cardinality(Lru!held(R)) # NumLinesInSet)
      BY <1>2, <1>4, <1>6, SameCardinality
    <3>2. Lru!victims(R, t) = {{u} : u \in Lru!leastRecent(R)}
      BY <3>1 DEF Lru!victims
    <3> QED  BY <2>3, <3>2
  <2> QED  BY <2>3, <2>4, <2>5
<1>7. Goal
  <2> HIDE DEF Goal
  <2>1. CASE t \in T \/ Len(s) # NumLinesInSet
    BY <1>3, <1>5, <2>1
  <2>2. CASE t \notin T /\ Len(s) = NumLinesInSet
    <3>1. PICK g \in T : /\ \A u \in T : f[g] <= f[u]
                         /\ stored = [u \in (T \ {g}) \cup {t} |->
                                         IF u = t THEN cycles ELSE f[u]]
      BY <1>3, <2>2
    <3> QED  BY <1>6, <2>2, <3>1
  <2> QED  BY <2>1, <2>2
<1> QED  BY <1>7 DEF s, t, f, stored

\* r is c after the snoop of a request for b.
Snoops(c, r, b) ==
    /\ r.currentJob = c.currentJob
    /\ \A set \in Sets :
          LastUseOf(r, set) =
              IF set = SetOf(b) THEN UsedAt(LastUseOf(c, set), TagOf(b), cycles)
              ELSE LastUseOf(c, set)

\* What that is for LRU.
SnoopMapped(c, r, b) ==
    \A set \in Sets :
        /\ set # SetOf(b) => OrderOf(r)[set] = OrderOf(c)[set]
        /\ set = SetOf(b) =>
              OrderOf(r)[set] = Lru!toFront(Lru!toFront(OrderOf(c)[set], {TagOf(b)}),
                                            LastTags(c))

\* Another cache's request is snooped.
LEMMA SnoopSeen ==
    ASSUME NEW c, NEW r, NEW b, WellFormed(c), OthersBefore(c, cycles), cycles \in Nat,
           Snoops(c, r, b)
    PROVE  SnoopMapped(c, r, b)
<1> SUFFICES ASSUME NEW set \in Sets
             PROVE  LET orderOfC == Order(LastUseOf(c, set), LastTags(c))
                        orderOfR == Order(LastUseOf(r, set), LastTags(c))
                    IN  /\ set # SetOf(b) => orderOfR = orderOfC
                        /\ set = SetOf(b) =>
                              orderOfR = Lru!toFront(Lru!toFront(orderOfC, {TagOf(b)}),
                                                     LastTags(c))
  BY DEF OrderOf, LastTags, TagOfJob, Snoops, SnoopMapped
<1> DEFINE T == TagsIn(c.localCache[set])
           f == LastUseOf(c, set)
           J == LastTags(c)
           t == TagOf(b)
<1>1. f \in [T -> Nat] /\ \A u \in T : <<u, f[u]>> \in UsesOf(c, set)
  BY LastUseIs DEF WellFormed, CacheRecord, LastUseOf, UsesOf
<1>2. \A u \in T \ J : f[u] < cycles
  <2> SUFFICES ASSUME NEW u \in T, u \notin J  PROVE f[u] < cycles
    OBVIOUS
  <2> DEFINE p == <<u, f[u]>>
  <2> HIDE DEF f
  <2>1. p \in UsesOf(c, set) /\ p[1] = u /\ p[2] = f[u]
    BY <1>1
  <2>2. Other(c, p)
    BY <2>1 DEF Other, LastTags
  <2> QED  BY <2>1, <2>2 DEF OthersBefore
<1>3. CASE set # SetOf(b)
  BY <1>3 DEF Snoops
<1>4. CASE set = SetOf(b)
  <2>1. LastUseOf(r, set) = UsedAt(f, t, cycles)
    BY <1>4 DEF Snoops
  <2> HIDE DEF f, J, t, T
  <2>2. SnoopedIn(T, f, J, cycles)
    BY <1>1, <1>2 DEF SnoopedIn
  <2>3. Order(UsedAt(f, t, cycles), J) = Lru!toFront(Lru!toFront(Order(f, J), {t}), J)
    BY <2>2, SnoopOrder
  <2> QED  BY <1>4, <2>1, <2>3 DEF f, J, t
<1> QED  BY <1>3, <1>4

\* The end of a request is a Store.
LEMMA DoneLru ==
    ASSUME RefInv, RefInv', NEW i \in Caches, OnlyBusy(cache, i), cache[i].haveBusRequest,
           cache[i].busRequestBeingServiced,
           cache' = [cache EXCEPT ![i] = busJobDone(cache[i], bus.isShared)]
    PROVE  Lru!Store(i)
<1> DEFINE k == cache[i]
           r == busJobDone(k, bus.isShared)
           b == k.currentJob.block
           set == SetOf(b)
           t == TagOfJob(k)
           stored == storedIn(k, bus.isShared)
           R == lruOrder[i][set]
           After(gone) == Lru!toFront(Lru!without(R, gone) \cup {<<t, t>>}, {t})
<1>1. /\ cycles \in Nat /\ cache \in [Caches -> CacheRecord] /\ bus.isShared \in BOOLEAN
      /\ AllWellFormed(cache) /\ AllWellFormed(cache')
      /\ \A j \in Caches : WellFormed(cache[j]) /\ Flags(cache[j])
  BY DEF RefInv, Inv, TypeOK, AllWellFormed, ControlInv
<1>2. WellFormed(k) /\ k.currentJob # NULL /\ k.currentJob.op \in {"R", "W"} /\ set \in Sets
  <2>1. k.currentJob # NULL /\ k.currentJob.op \in {"R", "W"}
    BY <1>1 DEF Flags
  <2> QED  BY <1>1, <2>1, JobParts
<1>3. /\ ~r.busRequestBeingServiced /\ r.currentJob = k.currentJob
      /\ r.localCache = [k.localCache EXCEPT ![set] = stored]
      /\ k.localCache \in [Sets -> Seq(Line)]
  <2>1. r = [k EXCEPT !.haveBusRequest = FALSE, !.busy = FALSE,
                      !.busRequestBeingServiced = FALSE, !.localCache[set] = stored]
    BY DEF busJobDone
  <2>2. k \in CacheRecord /\ k.localCache \in [Sets -> Seq(Line)]
    BY <1>2 DEF WellFormed, CacheRecord
  <2> HIDE DEF k, r, set, stored
  <2> QED  BY <2>1, <2>2 DEF CacheRecord
<1>4. \A j \in Caches : cache'[j] = IF j = i THEN r ELSE cache[j]
  BY <1>1
<1>5. lruOrder = [j \in Caches |-> OrderOf(cache[j])]
      /\ lruOrder' = [j \in Caches |-> OrderOf(cache'[j])]
      /\ lastBlock = [j \in Caches |-> BlockOf(cache[j])]
      /\ lastBlock' = [j \in Caches |-> BlockOf(cache'[j])]
  BY <1>1, OrderMapped
<1>6. LastTags(k) = {t} /\ LastTags(r) = {t} /\ BlockOf(k) = b /\ BlockOf(r) = b
  BY <1>2, <1>3 DEF LastTags, BlockOf, TagOfJob
<1>7. R = Order(LastUse(SetOfJob(k)), {t})
  BY <1>2, <1>5, <1>6 DEF OrderOf, LastUseOf, SetOfJob
<1>8. \E gone \in Lru!victims(R, t) : Order(LastUse(stored), {t}) = After(gone)
  <2> HIDE DEF k, stored, t
  <2> QED  BY <1>1, <1>2, <1>7, StoredSeen DEF stored, t
<1>9. \A other \in Sets : OrderOf(r)[other] = IF other = set THEN Order(LastUse(stored), {t})
                                             ELSE lruOrder[i][other]
  BY <1>2, <1>3, <1>5, <1>6 DEF OrderOf, LastUseOf
<1>10. /\ lastBlock[i] = b /\ UNCHANGED lastBlock
       /\ Lru!SetOf(lastBlock[i]) = set /\ Lru!TagOf(lastBlock[i]) = t
  <2>1. lastBlock[i] = b /\ lastBlock' = lastBlock
    BY <1>4, <1>5, <1>6
  <2> QED  BY <2>1 DEF Lru!SetOf, Lru!TagOf, SetOf, TagOf, TagOfJob
<1>11. OnBus = {i} /\ OnBus' = {}
  <2>1. \A j \in Caches : cache[j].busRequestBeingServiced => j = i
    BY <1>1 DEF OnlyBusy, Flags
  <2>2. \A j \in Caches : ~cache'[j].busRequestBeingServiced
    BY <1>3, <1>4, <2>1
  <2> QED  BY <2>1, <2>2 DEF OnBus
<1>12. PICK gone \in Lru!victims(R, t) : Order(LastUse(stored), {t}) = After(gone)
  BY <1>8
<1>13. lruOrder' = [lruOrder EXCEPT ![i][set] = After(gone)]
  <2> DEFINE new == After(gone)
  <2>1. \A other \in Sets : OrderOf(r)[other] = IF other = set THEN new ELSE lruOrder[i][other]
    BY <1>9, <1>12
  <2>2. OrderOf(r) = [other \in Sets |-> OrderOf(r)[other]]
        /\ lruOrder[i] = [other \in Sets |-> lruOrder[i][other]]
    BY <1>5 DEF OrderOf
  <2>3. \A j \in Caches : lruOrder'[j] = IF j = i THEN OrderOf(r) ELSE lruOrder[j]
    BY <1>4, <1>5
  <2>4. DOMAIN lruOrder = Caches /\ lruOrder' = [j \in Caches |-> lruOrder'[j]]
        /\ lruOrder = [j \in Caches |-> lruOrder[j]]
    BY <1>5
  <2> HIDE DEF new, set, r, k
  <2>5. OrderOf(r) = [lruOrder[i] EXCEPT ![set] = new]
    BY <1>2, <2>1, <2>2
  <2> QED  BY <2>3, <2>4, <2>5 DEF new
<1> HIDE DEF k, r, b, set, t, stored
<1> QED  BY <1>10, <1>11, <1>12, <1>13 DEF Lru!Store

\* The grant of the bus is a Snoop.
LEMMA GrantLru ==
    ASSUME RefInv, RefInv', OrderInv, phase = "bus", NEW i \in Caches, OnlyBusy(cache, i),
           cache[i].haveBusRequest, ~cache[i].busRequestBeingServiced,
           cache' = granted(cache, i)
    PROVE  Lru!Snoop(i)
<1> DEFINE b == cache[i].busRequest.block
<1>1. /\ cycles \in Nat /\ cache \in [Caches -> CacheRecord]
      /\ AllWellFormed(cache) /\ AllWellFormed(cache')
      /\ \A j \in Caches : WellFormed(cache[j]) /\ Flags(cache[j])
  BY DEF RefInv, Inv, TypeOK, AllWellFormed, ControlInv
<1>2. /\ cache[i].currentJob # NULL /\ b = cache[i].currentJob.block /\ b \in Blocks
  <2>1. cache[i].busRequest \in BusRequest
    BY <1>1 DEF CacheRecord, Flags
  <2> QED  BY <1>1, <2>1 DEF Flags, BusRequest
<1>3. \A j \in Caches : Granted(cache[j], cache'[j], j = i)
  BY <1>1, GrantedKeeps
<1>4. lruOrder = [j \in Caches |-> OrderOf(cache[j])]
      /\ lruOrder' = [j \in Caches |-> OrderOf(cache'[j])]
      /\ lastBlock = [j \in Caches |-> BlockOf(cache[j])]
      /\ lastBlock' = [j \in Caches |-> BlockOf(cache'[j])]
  BY <1>1, OrderMapped
<1>5. OnBus = {} /\ OnBus' = {i}
  <2>1. \A j \in Caches : ~cache[j].busRequestBeingServiced
    BY <1>1 DEF OnlyBusy, Flags
  <2>2. \A j \in Caches : cache'[j].busRequestBeingServiced <=> j = i
    BY <1>3, <2>1 DEF Granted
  <2> QED  BY <2>1, <2>2 DEF OnBus
<1>6. UNCHANGED lastBlock /\ lastBlock[i] = b /\ lastBlock[i] # <<>>
  <2>1. \A j \in Caches : BlockOf(cache'[j]) = BlockOf(cache[j])
    BY <1>3 DEF Granted, BlockOf
  <2>2. BlockOf(cache[i]) = b /\ BlockOf(cache[i]) # <<>>
    BY <1>1, <1>2, LastSeen DEF BlockOf
  <2> QED  BY <1>4, <2>1, <2>2
<1>7. OrderOf(cache'[i]) = OrderOf(cache[i])
  <2> DEFINE k == cache[i]
             cost == requesterCost(cache, i)
             r == [k EXCEPT !.startServiceCycle = cycles,
                            !.busRequestBeingServiced = TRUE, !.jobCycleCost = cost]
  <2>1. cache'[i] = r
    BY <1>1 DEF granted, getBusRequest, CacheRecord
  <2> HIDE DEF k, cost
  <2>2. k \in CacheRecord
    BY <1>1 DEF k
  <2>3. r.localCache = k.localCache /\ r.currentJob = k.currentJob
    BY <2>2 DEF CacheRecord
  <2> HIDE DEF r
  <2>4. OrderOf(r) = OrderOf(k)
    BY <2>3 DEF OrderOf, LastUseOf, LastTags, TagOfJob
  <2> QED  BY <2>1, <2>4 DEF k
<1>8. ASSUME NEW d \in Caches, d # i
      PROVE  lruOrder'[d] = [lruOrder[d] EXCEPT ![SetOf(b)] =
                Lru!toFront(Lru!toFront(@, {TagOf(b)}), Lru!lastTag(d))]
  <2> DEFINE c == cache[d]
             r == snooped(cache, i, d)
             tags == Lru!lastTag(d)
  <2>1. OthersBefore(c, cycles)
    <3>1. HadTurn(d)
      BY DEF HadTurn
    <3> QED  BY <1>8, <3>1 DEF OrderInv, Alone
  <2>2. cache'[d] = r
    BY <1>8 DEF granted
  <2>3. r.currentJob = c.currentJob
    BY <1>3, <2>2 DEF Granted
  <2>4. WellFormed(c)
    BY <1>1
  <2>5. Snoops(c, r, b)
    BY <1>1, <1>2, <2>3, <2>4, SnoopedLastUse DEF Snoops
  <2>6. tags = LastTags(c)
    <3>1. lastBlock[d] = BlockOf(c)
      BY <1>4
    <3>2. {Lru!TagOf(x) : x \in {BlockOf(c)} \ {<<>>}} = LastTags(c)
      BY <2>4, LastSeen
    <3> QED  BY <3>1, <3>2 DEF Lru!lastTag
  <2> HIDE DEF c, r, tags, b
  <2>7. SnoopMapped(c, r, b)
    BY <1>1, <2>1, <2>4, <2>5, SnoopSeen
  <2>8. lruOrder[d] = OrderOf(c) /\ lruOrder'[d] = OrderOf(r)
    BY <1>4, <2>2 DEF c
  <2>9. OrderOf(r) = [set \in Sets |-> OrderOf(r)[set]]
        /\ OrderOf(c) = [set \in Sets |-> OrderOf(c)[set]]
    BY DEF OrderOf
  <2> QED  BY <2>6, <2>7, <2>8, <2>9 DEF tags, SnoopMapped
<1> DEFINE new == [d \in Caches |->
               IF d = i THEN lruOrder[d]
               ELSE [lruOrder[d] EXCEPT ![SetOf(b)] =
                       Lru!toFront(Lru!toFront(@, {TagOf(b)}), Lru!lastTag(d))]]
<1>9. lruOrder' = new
  <2>1. \A d \in Caches : lruOrder'[d] = new[d]
    <3>1. lruOrder'[i] = lruOrder[i]
      BY <1>4, <1>7
    <3> QED  BY <1>8, <3>1
  <2>2. lruOrder' = [d \in Caches |-> lruOrder'[d]]
    BY <1>4
  <2>3. new = [d \in Caches |-> new[d]]
    OBVIOUS
  <2> HIDE DEF new
  <2> QED  BY <2>1, <2>2, <2>3
<1>10. Lru!SetOf(lastBlock[i]) = SetOf(b) /\ Lru!TagOf(lastBlock[i]) = TagOf(b)
  BY <1>6 DEF Lru!SetOf, Lru!TagOf, SetOf, TagOf
<1> HIDE DEF b
<1> QED  BY <1>5, <1>6, <1>9, <1>10 DEF Lru!Snoop

LEMMA BusTurnLru ==
    ASSUME RefInv, RefInv', OrderInv, BusTurn
    PROVE  [Lru!Next]_(Lru!vars)
<1>1. CASE UNCHANGED cache
  <2>1. \A i \in Caches :
           /\ OrderOf(cache'[i]) = OrderOf(cache[i]) /\ BlockOf(cache'[i]) = BlockOf(cache[i])
           /\ cache'[i].busRequestBeingServiced = cache[i].busRequestBeingServiced
    BY <1>1
  <2>2. AllWellFormed(cache) /\ AllWellFormed(cache')
    BY DEF RefInv, Inv
  <2> QED  BY <2>1, <2>2, SameLru
<1>2. phase = "bus"
  BY DEF BusTurn
<1>3. ASSUME NEW i \in Caches, Lru!Store(i) \/ Lru!Snoop(i)  PROVE Lru!Next
  BY <1>3 DEF Lru!Next
<1> QED  BY <1>1, <1>2, <1>3, BusTurnCases, DoneLru, GrantLru

LEMMA InitLru == Init => Lru!Init
<1> SUFFICES ASSUME Init  PROVE Lru!Init
  OBVIOUS
<1>1. RefInv
  BY InitRefines
<1>2. \A i \in Caches : /\ cache[i].currentJob = NULL /\ ~cache[i].busRequestBeingServiced
                        /\ \A set \in Sets : cache[i].localCache[set] = <<>>
  BY DEF Init, NewCache
<1>3. LastUse(<<>>) = [t \in {} |-> 0]
  BY DEF LastUse, TagsIn
<1>4. \A i \in Caches, set \in Sets : OrderOf(cache[i])[set] = {}
  <2> SUFFICES ASSUME NEW i \in Caches, NEW set \in Sets
               PROVE  Order(LastUse(<<>>), {}) = {}
    BY <1>2 DEF OrderOf, LastUseOf, LastTags
  <2> QED  BY <1>3 DEF Order
<1>5. lruOrder = [i \in Caches |-> OrderOf(cache[i])]
      /\ lastBlock = [i \in Caches |-> BlockOf(cache[i])]
  BY <1>1, OrderMapped DEF RefInv, Inv
<1>6. lruOrder = [i \in Caches |-> [set \in Sets |-> {}]]
  <2>1. \A i \in Caches : OrderOf(cache[i]) = [set \in Sets |-> {}]
    BY <1>4 DEF OrderOf
  <2> QED  BY <1>5, <2>1
<1>7. lastBlock = [i \in Caches |-> <<>>] /\ OnBus = {}
  BY <1>2, <1>5 DEF BlockOf, OnBus
<1> QED  BY <1>6, <1>7 DEF Lru!Init

\* What addLine evicts is the least recently used line of its set, in the order in which
\* jobs and snoops use the lines: every step of the simulator is, for the sets of its caches,
\* a use, a snoop or the storing of a line, or none; the times by which getLine, the touches
\* of idle cycles and evictLRULine keep that order never say anything else.
THEOREM ReplacementIsLRU == Spec => ImplementsLRU
<1>1. RefInv /\ RefInv' /\ OrderInv /\ [Next]_vars => [Lru!Next]_(Lru!vars)
  <2> SUFFICES ASSUME RefInv, RefInv', OrderInv, [Next]_vars  PROVE [Lru!Next]_(Lru!vars)
    OBVIOUS
  <2>1. CASE UNCHANGED vars
    <3>1. UNCHANGED cache
      BY <2>1 DEF vars
    <3> QED  BY <3>1 DEF Lru!vars, lruOrder, lastBlock, OnBus, usedSince, isLast
  <2> QED  BY <2>1, LoopLru, CacheTurnLru, BusTurnLru DEF Next
<1> QED  BY <1>1, InitLru, OrderAlways, PTL DEF Spec, ImplementsLRU
================================================================================
