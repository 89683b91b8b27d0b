------------------------ MODULE AtomicBusManagerProofs ------------------------
(***************************************************************************)
(* What a broadcast does to the caches and to the counters: it keeps their *)
(* types and the soundness of the sets, and moves no flag but that of the  *)
(* cache that is granted the bus.                                          *)
(***************************************************************************)
EXTENDS AtomicBusManager, CacheProofs

AllWellFormed(cs) == cs \in [Caches -> CacheRecord] /\ \A i \in Caches : WellFormed(cs[i])

LEMMA SomeCaches ==
    ASSUME NEW T \in SUBSET Caches
    PROVE  Cardinality(T) \in Nat
<1>1. IsFiniteSet(Caches)
  BY FS_Interval, SizesAssumption DEF Caches
<1>2. IsFiniteSet(T)
  BY <1>1, FS_Subset
<1> QED  BY <1>2, FS_CardinalityType

LEMMA HowManyReply ==
    \A cs, i, results : Cardinality(repliers(cs, i, results)) \in Nat
BY SomeCaches DEF repliers

LEMMA FirstCache ==
    ASSUME NEW T \in SUBSET Caches, T # {}
    PROVE  Min(T) \in T
<1>1. T \in SUBSET Nat
  BY DEF Caches
<1>2. \E x \in T : \A y \in T : x <= y
  BY <1>1, LeastElement
<1> QED  BY <1>2 DEF Min

-----------------------------------------------------------------------------
(***************************************************************************)
(* Snooping.                                                               *)
(***************************************************************************)
LEMMA SnoopedState ==
    ASSUME NEW command, NEW s \in State
    PROVE  snoopBusRequest(command, s).state \in State
<1>1. handleBusRdMSI(s).state \in State /\ handleBusRdXMSI(s).state \in State
  BY DEF handleBusRdMSI, handleBusRdXMSI, Reply, State
<1>2. handleBusRdMESI(s).state \in State /\ handleBusRdXMESI(s).state \in State
  BY DEF handleBusRdMESI, handleBusRdXMESI, Reply, State
<1>3. handleBusRdMOESI(s).state \in State /\ handleBusRdXMOESI(s).state \in State
  BY DEF handleBusRdMOESI, handleBusRdXMOESI, Reply, State
<1> QED  BY <1>1, <1>2, <1>3, ProtocolAssumption DEF snoopBusRequest

LEMMA ReplyState ==
    ASSUME NEW cs, NEW i, NEW j, WellFormed(cs[j]), cs[i].busRequest.block \in Blocks
    PROVE  reply(cs, i, j).state \in State
<1> DEFINE b == cs[i].busRequest.block
           s == cs[j].localCache[SetOf(b)]
           t == TagOf(b)
<1>1. s \in Seq(Line)
  BY BlockParts DEF WellFormed, CacheRecord
<1>2. CASE hasLine(s, t)
  <2>1. indexOf(s, t) \in DOMAIN s
    BY <1>1, <1>2, IndexOf
  <2>2. getLine(s, t) \in Line
    BY <1>1, <2>1 DEF getLine
  <2>3. getLine(s, t).state \in State
    BY <2>2 DEF Line
  <2>4. reply(cs, i, j) = snoopBusRequest(cs[i].busRequest.command, getLine(s, t).state)
    BY <1>2 DEF reply
  <2> QED  BY <2>3, <2>4, SnoopedState
<1>3. CASE ~hasLine(s, t)
  BY <1>3 DEF reply, Reply, State
<1> QED  BY <1>2, <1>3

LEMMA SnoopedKeeps ==
    ASSUME NEW cs, NEW i, NEW j, WellFormed(cs[j]), cs[i].busRequest.block \in Blocks,
           cycles \in Nat
    PROVE  WellFormed(snooped(cs, i, j)) /\ SameButLines(cs[j], snooped(cs, i, j))
<1> DEFINE k == cs[j]
           b == cs[i].busRequest.block
           set == SetOf(b)
           state == reply(cs, i, j).state
           used == touched(k.localCache[set], TagOf(b), cycles)
           left == setState(used, TagOf(b), state)
           lines == [k.localCache EXCEPT ![set] = left]
<1>1. /\ k.localCache \in [Sets -> Seq(Line)] /\ set \in Sets /\ state \in State
      /\ \A m \in Sets : k.localCache[m] \in Seq(Line) /\ Sound(k.localCache[m])
  BY ReplyState, BlockParts DEF WellFormed, CacheRecord
<1>2. used \in Seq(Line) /\ Sound(used)
  BY <1>1, TouchedKeeps, SameTagsSound
<1>3. left \in Seq(Line) /\ Sound(left)
  <2> HIDE DEF used, state
  <2> QED  BY <1>1, <1>2, SetStateKeeps, SameTagsSound
<1>4. snooped(cs, i, j) = [k EXCEPT !.localCache = lines]
  BY DEF snooped
<1> HIDE DEF left, set
<1>5. lines \in [Sets -> Seq(Line)] /\ \A m \in Sets : Sound(lines[m])
  BY <1>1, <1>3
<1> HIDE DEF lines
<1> QED  BY <1>4, <1>5, LinesReplaced

-----------------------------------------------------------------------------
(***************************************************************************)
(* The grant.                                                              *)
(***************************************************************************)
LEMMA RequesterCost ==
    ASSUME NEW cs, NEW i, cs[i].jobCycleCost \in Nat
    PROVE  requesterCost(cs, i) \in Nat
<1> DEFINE flushers == repliers(cs, i, Flushes)
           late == {j \in flushers : j > Min(repliers(cs, i, {"SHARED"}))}
<1>1. Cardinality(flushers) \in Nat
  BY HowManyReply
<1>2. Cardinality(late) \in Nat
  BY SomeCaches DEF repliers
<1> HIDE DEF flushers, late
<1>3. \A m, n \in Nat : m * n \in Nat /\ m + n \in Nat
  OBVIOUS
<1>4. MemoryResponseCycleCost \in Nat /\ CacheResponseCycleCost \in Nat
  BY CostsAssumption
<1>5. /\ cs[i].jobCycleCost + MemoryResponseCycleCost * Cardinality(flushers) \in Nat
      /\ cs[i].jobCycleCost + CacheResponseCycleCost * Cardinality(flushers) \in Nat
      /\ CacheResponseCycleCost * (1 + Cardinality(late)) \in Nat
  BY <1>1, <1>2, <1>3, <1>4
<1> QED  BY <1>4, <1>5, ProtocolAssumption DEF requesterCost, flushers, late

LEMMA ExtraCycles == \A cs, i : extraCycles(cs, i) \in Int
<1> SUFFICES ASSUME NEW cs, NEW i  PROVE extraCycles(cs, i) \in Int
  OBVIOUS
<1> DEFINE flushers == Cardinality(repliers(cs, i, Flushes))
           suppliers == Cardinality(repliers(cs, i, Supplies))
<1>1. flushers \in Int /\ suppliers \in Int
  BY HowManyReply
<1> HIDE DEF flushers, suppliers
<1>2. \A m, n \in Int : m * n \in Int /\ m - n \in Int /\ -m \in Int
  OBVIOUS
<1>3. MemoryResponseCycleCost \in Int /\ CacheResponseCycleCost \in Int /\ saved \in Int
  BY CostsAssumption DEF saved
<1>4. /\ flushers * MemoryResponseCycleCost \in Int
      /\ flushers * CacheResponseCycleCost \in Int
      /\ flushers * CacheResponseCycleCost - saved \in Int
      /\ flushers * CacheResponseCycleCost - 0 \in Int
      /\ -suppliers * saved \in Int
  BY <1>1, <1>2, <1>3
<1> QED  BY <1>4, ProtocolAssumption DEF extraCycles, flushers, suppliers

\* What a grant leaves of a cache: the flag of being served is set for the one
\* that is granted the bus, and nothing else that the bus looks at is touched.
Granted(k, r, isRequester) ==
    /\ WellFormed(r)
    /\ r.pendingJobs = k.pendingJobs /\ r.currentJob = k.currentJob
    /\ r.busRequest = k.busRequest /\ r.haveBusRequest = k.haveBusRequest
    /\ r.busy = k.busy
    /\ r.busRequestBeingServiced = (isRequester \/ k.busRequestBeingServiced)

LEMMA GrantedKeeps ==
    ASSUME NEW cs, AllWellFormed(cs), NEW i \in Caches, Flags(cs[i]),
           cs[i].haveBusRequest, cycles \in Nat
    PROVE  /\ AllWellFormed(granted(cs, i))
           /\ \A j \in Caches : Granted(cs[j], granted(cs, i)[j], j = i)
<1>1. cs[i] \in CacheRecord /\ cs[i].busRequest \in BusRequest
  BY DEF AllWellFormed, CacheRecord, Flags
<1>2. cs[i].busRequest.block \in Blocks
  BY <1>1 DEF BusRequest
<1>3. ASSUME NEW j \in Caches  PROVE Granted(cs[j], granted(cs, i)[j], j = i)
  <2>1. CASE j = i
    <3> DEFINE k == cs[i]
               cost == requesterCost(cs, i)
    <3>1. cost \in Nat
      BY <1>1, RequesterCost DEF CacheRecord
    <3>2. granted(cs, i)[j] =
            [k EXCEPT !.startServiceCycle = cycles, !.busRequestBeingServiced = TRUE,
                      !.jobCycleCost = cost]
      BY <2>1 DEF granted, getBusRequest
    <3>3. WellFormed(k)
      BY DEF AllWellFormed
    <3> HIDE DEF k, cost
    <3> QED  BY <2>1, <3>1, <3>2, <3>3 DEF Granted, WellFormed, CacheRecord, k
  <2>2. CASE j # i
    <3>1. granted(cs, i)[j] = snooped(cs, i, j)
      BY <2>2 DEF granted
    <3>2. WellFormed(cs[j]) /\ cs[j].busRequestBeingServiced \in BOOLEAN
      BY DEF AllWellFormed, CacheRecord
    <3>3. WellFormed(snooped(cs, i, j)) /\ SameButLines(cs[j], snooped(cs, i, j))
      BY <1>2, <3>2, SnoopedKeeps
    <3> QED  BY <2>2, <3>1, <3>2, <3>3 DEF Granted, SameButLines
  <2> QED  BY <2>1, <2>2
<1>4. granted(cs, i) \in [Caches -> CacheRecord]
  <2>1. \A j \in Caches : granted(cs, i)[j] \in CacheRecord
    BY <1>3 DEF Granted, WellFormed
  <2>2. granted(cs, i) = [j \in Caches |-> granted(cs, i)[j]]
    BY DEF granted
  <2> QED  BY <2>1, <2>2
<1> QED  BY <1>3, <1>4 DEF AllWellFormed, Granted

LEMMA BroadcastCounts ==
    ASSUME NEW cs, NEW i, NEW st \in [Counters -> Nat]
    PROVE  broadcastCounts(cs, i, st) \in [Counters -> Nat]
<1> DEFINE flushers == Cardinality(repliers(cs, i, Flushes))
           suppliers == Cardinality(repliers(cs, i, Supplies))
           memory == Bool(Protocol = "MESI" /\ repliers(cs, i, {"SHARED"}) = {})
           counted == Count(st, {"numBusRequests"})
<1>1. flushers \in Nat /\ suppliers \in Nat /\ memory \in Nat
  BY HowManyReply DEF Bool
<1>2. counted \in [Counters -> Nat]
  BY CountKeeps
<1>3. broadcastCounts(cs, i, st) =
        [counted EXCEPT !["numFlush"] = @ + flushers,
                        !["numMainMemoryUses"] = @ + flushers + memory,
                        !["numCacheShare"] = @ + suppliers]
  BY DEF broadcastCounts
<1> HIDE DEF flushers, suppliers, memory, counted
<1>4. /\ counted["numFlush"] + flushers \in Nat
      /\ counted["numMainMemoryUses"] + flushers + memory \in Nat
      /\ counted["numCacheShare"] + suppliers \in Nat
  BY <1>1, <1>2 DEF Counters
<1> QED  BY <1>2, <1>3, <1>4

-----------------------------------------------------------------------------
(***************************************************************************)
(* The order of replacement: to snoop a line is to use it.                 *)
(***************************************************************************)
LEMMA SnoopedUses ==
    ASSUME NEW cs, NEW i, NEW j, WellFormed(cs[j]), cs[i].busRequest.block \in Blocks,
           cycles \in Nat
    PROVE  LET b == cs[i].busRequest.block
           IN  \A set \in Sets : \A p \in UsesOf(snooped(cs, i, j), set) :
                  p = <<TagOf(b), cycles>> \/ p \in UsesOf(cs[j], set)
<1> DEFINE k == cs[j]
           b == cs[i].busRequest.block
           set == SetOf(b)
           state == reply(cs, i, j).state
           used == touched(k.localCache[set], TagOf(b), cycles)
           left == setState(used, TagOf(b), state)
           lines == [k.localCache EXCEPT ![set] = left]
<1>1. /\ k.localCache \in [Sets -> Seq(Line)] /\ set \in Sets /\ k \in CacheRecord
      /\ k.localCache[set] \in Seq(Line) /\ Sound(k.localCache[set])
  BY BlockParts DEF WellFormed, CacheRecord
<1>2. used \in Seq(Line)
  BY <1>1, TouchedKeeps
<1>3. \A p \in Uses(used) :
         p = <<TagOf(b), cycles>> \/ (p \in Uses(k.localCache[set]) /\ p[1] # TagOf(b))
  BY <1>1, UsesTouched
<1> HIDE DEF used, state
<1>4. Uses(left) = Uses(used)
  BY <1>2, UsesSetState
<1>5. snooped(cs, i, j) = [k EXCEPT !.localCache = lines]
  BY DEF snooped, used, state
<1> HIDE DEF left, set
<1>6. \A m \in Sets : lines[m] = IF m = set THEN left ELSE k.localCache[m]
  BY <1>1
<1> HIDE DEF lines
<1>7. snooped(cs, i, j).localCache = lines
  BY <1>1, <1>5 DEF CacheRecord
<1>8. \A m \in Sets : \A p \in UsesOf(snooped(cs, i, j), m) :
         p = <<TagOf(b), cycles>> \/ p \in UsesOf(k, m)
  BY <1>3, <1>4, <1>6, <1>7 DEF UsesOf
<1> QED  BY <1>8

\* What a broadcast is to a cache that has used its other lines in earlier cycles.
LEMMA SnoopedOrder ==
    ASSUME NEW cs, NEW i, NEW j, WellFormed(cs[j]), cs[i].busRequest.block \in Blocks,
           cycles \in Nat, Distinct(cs[j]), UsedBy(cs[j], cycles),
           OthersBefore(cs[j], cycles), JobIsRecent(cs[j], cycles),
           IdleIsOver(cs[j], cycles)
    PROVE  LET r == snooped(cs, i, j) IN
           /\ Distinct(r) /\ UsedBy(r, cycles)
           /\ JobIsRecent(r, cycles) /\ IdleIsOver(r, cycles)
<1> DEFINE k == cs[j]
           t == TagOf(cs[i].busRequest.block)
           r == snooped(cs, i, j)
<1>1. WellFormed(r) /\ SameButLines(k, r)
  BY SnoopedKeeps
<1>2. \A set \in Sets : \A p \in UsesOf(r, set) : p = <<t, cycles>> \/ p \in UsesOf(k, set)
  BY SnoopedUses
<1> HIDE DEF r, t
<1>3. TagOfJob(r) = TagOfJob(k) /\ \A p : Other(r, p) <=> Other(k, p)
  BY <1>1 DEF SameButLines, TagOfJob, Other
<1>4. Distinct(r)
  <2> SUFFICES ASSUME NEW set \in Sets, NEW p \in UsesOf(r, set), NEW q \in UsesOf(r, set),
                      Other(r, p), Other(r, q), p[2] = q[2]
               PROVE  p[1] = q[1]
    BY DEF Distinct
  <2>1. \A o \in UsesOf(k, set) : Other(k, o) => o[2] # cycles
    BY UseTimes DEF OthersBefore
  <2>2. CASE p = <<t, cycles>>
    <3>1. q[2] = cycles /\ Other(k, q)
      BY <1>3, <2>2
    <3> QED  BY <1>2, <2>1, <2>2, <3>1
  <2>3. CASE p \in UsesOf(k, set)
    <3>1. p[2] # cycles /\ Other(k, p) /\ Other(k, q)
      BY <1>3, <2>1, <2>3
    <3>2. q # <<t, cycles>>
      BY <3>1
    <3> QED  BY <1>2, <2>3, <3>1, <3>2 DEF Distinct
  <2> QED  BY <1>2, <2>2, <2>3
<1>5. UsedBy(r, cycles)
  BY <1>2 DEF UsedBy
<1>6. JobIsRecent(r, cycles)
  <2> SUFFICES ASSUME ~r.busy, r.currentJob # NULL, r.currentJob.op \in {"R", "W"},
                      NEW p \in Uses(SetOfJob(r)), p[1] = TagOfJob(r)
               PROVE  p[2] = cycles
    BY DEF JobIsRecent
  <2>1. SetOf(r.currentJob.block) \in Sets /\ r.currentJob = k.currentJob /\ ~k.busy
    BY <1>1, JobParts DEF SameButLines
  <2>2. p \in UsesOf(r, SetOf(r.currentJob.block))
    BY DEF UsesOf, SetOfJob
  <2>3. p = <<t, cycles>> \/ p \in Uses(SetOfJob(k))
    BY <1>2, <2>1, <2>2 DEF UsesOf, SetOfJob
  <2> QED  BY <1>3, <2>1, <2>3 DEF JobIsRecent
<1>7. IdleIsOver(r, cycles)
  BY <1>1 DEF IdleIsOver, SameButLines
<1> QED  BY <1>4, <1>5, <1>6, <1>7 DEF r

\* And to the cache whose request it is.
LEMMA RequesterOrder ==
    ASSUME NEW cs, NEW i \in Caches, WellFormed(cs[i]), cs[i].busy, cycles \in Nat,
           Distinct(cs[i]), UsedBy(cs[i], cycles)
    PROVE  LET r == granted(cs, i)[i] IN
           /\ Distinct(r) /\ UsedBy(r, cycles)
           /\ JobIsRecent(r, cycles) /\ IdleIsOver(r, cycles)
           /\ r.startServiceCycle = cycles /\ r.jobCycleCost = requesterCost(cs, i)
<1> DEFINE k == cs[i]
           r == granted(cs, i)[i]
           cost == requesterCost(cs, i)
<1>1. r = [k EXCEPT !.startServiceCycle = cycles, !.busRequestBeingServiced = TRUE,
                    !.jobCycleCost = cost]
  BY DEF granted, getBusRequest
<1> HIDE DEF r, cost
<1>2. /\ r.localCache = k.localCache /\ r.currentJob = k.currentJob /\ r.busy = k.busy
      /\ r.startServiceCycle = cycles /\ r.jobCycleCost = cost
  BY <1>1 DEF WellFormed, CacheRecord
<1>3. Distinct(r) /\ UsedBy(r, cycles)
  BY <1>2 DEF Distinct, UsedBy, UsesOf, Other, TagOfJob
<1>4. JobIsRecent(r, cycles) /\ IdleIsOver(r, cycles)
  BY <1>2 DEF JobIsRecent, IdleIsOver
<1> QED  BY <1>2, <1>3, <1>4 DEF r, cost

\* A broadcast uses the line of the request, and no other.
LEMMA SnoopedLastUse ==
    ASSUME NEW cs, NEW i, NEW j, WellFormed(cs[j]), cs[i].busRequest.block \in Blocks,
           cycles \in Nat
    PROVE  LET b == cs[i].busRequest.block
           IN  \A set \in Sets :
                  LastUseOf(snooped(cs, i, j), set) =
                     IF set = SetOf(b) THEN UsedAt(LastUseOf(cs[j], set), TagOf(b), cycles)
                     ELSE LastUseOf(cs[j], set)
<1> DEFINE k == cs[j]
           b == cs[i].busRequest.block
           set == SetOf(b)
           state == reply(cs, i, j).state
           used == touched(k.localCache[set], TagOf(b), cycles)
           left == setState(used, TagOf(b), state)
           lines == [k.localCache EXCEPT ![set] = left]
<1>1. /\ k.localCache \in [Sets -> Seq(Line)] /\ set \in Sets /\ k \in CacheRecord
      /\ k.localCache[set] \in Seq(Line) /\ Sound(k.localCache[set]) /\ state \in State
  BY BlockParts, ReplyState DEF WellFormed, CacheRecord
<1>2. /\ used \in Seq(Line) /\ Sound(used)
      /\ LastUse(used) = UsedAt(LastUse(k.localCache[set]), TagOf(b), cycles)
  BY <1>1, TouchedKeeps, SameTagsSound, LastUseTouched
<1> HIDE DEF used, state
<1>3. LastUse(left) = LastUse(used)
  BY <1>1, <1>2, LastUseSetState
<1>4. snooped(cs, i, j) = [k EXCEPT !.localCache = lines]
  BY DEF snooped, used, state
<1> HIDE DEF left, set
<1>5. \A m \in Sets : lines[m] = IF m = set THEN left ELSE k.localCache[m]
  BY <1>1
<1> HIDE DEF lines
<1>6. snooped(cs, i, j).localCache = lines
  BY <1>1, <1>4 DEF CacheRecord
<1>7. \A m \in Sets : LastUseOf(snooped(cs, i, j), m) =
         IF m = set THEN UsedAt(LastUseOf(k, m), TagOf(b), cycles) ELSE LastUseOf(k, m)
  BY <1>2, <1>3, <1>5, <1>6 DEF LastUseOf
<1> QED  BY <1>7 DEF set
===============================================================================
