--------------------------------- MODULE Cache ---------------------------------
(***************************************************************************)
(* The caches (Cache.cpp), one record each, and the statistics they share. *)
(* A handler takes the record k of the cache as it finds it and gives the  *)
(* record as it leaves it; tick, the only thing a cache does of its own    *)
(* accord, is an action.                                                   *)
(*                                                                         *)
(* A job is [op, block]: "R", "W", or "-" for what the trace reader made   *)
(* of any other line of the trace; block is what decode_address gives.     *)
(***************************************************************************)
EXTENDS CacheSet, FiniteSetsExt

VARIABLES cache,    \* cache[i]: the record of cache i
          stats     \* CacheStats

Op == {"R", "W", "-"}
CacheJob == [op : Op, block : Blocks]
BusRequest == [command : Command, block : Blocks, cycleCost : Nat]
NULL == [op |-> "NULL"]                           \* no job, no request

CacheRecord ==
    [localCache : [Sets -> Seq(Line)],
     pendingJobs : Seq(CacheJob), currentJob : CacheJob \cup {NULL},
     busRequest : BusRequest \cup {NULL},
     haveBusRequest : BOOLEAN, busy : BOOLEAN, busRequestBeingServiced : BOOLEAN,
     startServiceCycle : Nat, jobCycleCost : Nat]

NewCache ==
    [localCache |-> [set \in Sets |-> <<>>],
     pendingJobs |-> <<>>, currentJob |-> NULL, busRequest |-> NULL,
     haveBusRequest |-> FALSE, busy |-> FALSE, busRequestBeingServiced |-> FALSE,
     startServiceCycle |-> 0, jobCycleCost |-> 0]

Counters == {"numHit", "numMiss", "numFlush", "numEvict", "numCacheShare",
             "numMainMemoryUses", "numExclusiveToModifiedTransitions", "numBusRequests"}
CacheStats == [n \in Counters |-> 0]

Bool(p) == IF p THEN 1 ELSE 0
\* st with one more of each counter in ns.
Count(st, ns) == [n \in Counters |-> st[n] + Bool(n \in ns)]

-----------------------------------------------------------------------------
(***************************************************************************)
(* Lookups.  Both search every set for the tag of the current job, and     *)
(* every line they come by counts as used.  (A search that succeeds stops  *)
(* there, so a hit may leave the same tag in a later set unmarked for as   *)
(* long as it is served; then updateCurrentJobLineCycle marks them all.)   *)
(***************************************************************************)
Held(k, t) == {getLine(k.localCache[i], t).state :
                  i \in {j \in Sets : hasLine(k.localCache[j], t)}}

lookedUp(k, t) ==
    [k EXCEPT !.localCache = [i \in Sets |-> touched(@[i], t, cycles)]]

setLineStateOnce(k, t, s) ==                 \* faulty: stops at the first set
    LET found == {i \in Sets : hasLine(k.localCache[i], t)}
    IN IF found = {} THEN k
       ELSE [k EXCEPT !.localCache[Min(found)] = setState(@, t, s)]

setLineState(k, t, s) ==
    [k EXCEPT !.localCache = [i \in Sets |-> setState(@[i], t, s)]]

SetOfJob(k) == k.localCache[SetOf(k.currentJob.block)]
TagOfJob(k) == TagOf(k.currentJob.block)

flushesAnyVictim(k) ==                       \* faulty: of every set at its limit
    ~ hasLine(SetOfJob(k), TagOfJob(k)) /\ Len(SetOfJob(k)) >= NumLinesInSet

\* A dirty line that has to make room is written back first.  Reads do not ask.
flushesVictim(k) ==
    /\ ~ hasLine(SetOfJob(k), TagOfJob(k))
    /\ isFull(SetOfJob(k)) /\ evictLineModified(SetOfJob(k))

getTotalMemoryCost(k) ==
    MemoryResponseCycleCost * (IF flushesVictim(k) THEN 2 ELSE 1)

-----------------------------------------------------------------------------
(***************************************************************************)
(* handleRequest: the current job is served, or it asks for the bus.       *)
(***************************************************************************)
served(k) ==
    [k EXCEPT !.busy = TRUE, !.haveBusRequest = FALSE,
              !.startServiceCycle = cycles, !.jobCycleCost = CacheHitCycleCost]

asked(k, command, cost) ==
    [k EXCEPT !.busy = TRUE, !.haveBusRequest = TRUE, !.jobCycleCost = cost,
              !.busRequest = [command |-> command, block |-> k.currentJob.block,
                              cycleCost |-> cost]]

\* The job at the head of the queue becomes the current job.
nextJob(k) == [k EXCEPT !.currentJob = Head(k.pendingJobs), !.pendingJobs = Tail(@)]

outcomeOf(k) == handleRequestOutcome(k.currentJob.op, Held(k, TagOfJob(k)))

\* The record of a cache after handleRequest, k being the record with the new
\* job in place.
handleRequest(k) ==
    LET t == TagOfJob(k)
        u == lookedUp(k, t)
    IN CASE outcomeOf(k) = "hit" -> served(u)
         [] outcomeOf(k) = "exclusiveHit" -> setLineState(served(u), t, "modified")
         [] outcomeOf(k) = "ownedUpgrade" ->
               setLineState(asked(u, "BusRdX", CacheHitCycleCost), t, "modified")
         [] outcomeOf(k) = "miss" /\ k.currentJob.op = "W" ->
               asked(u, "BusRdX", getTotalMemoryCost(u))
         [] outcomeOf(k) = "miss" /\ k.currentJob.op = "R" ->
               asked(u, "BusRd", MemoryResponseCycleCost)
         [] outcomeOf(k) = "ignored" -> k

handleRequestCountsNoUpgrade(k) ==           \* faulty: an upgrade is no hit
    CASE outcomeOf(k) \in {"hit", "exclusiveHit"} -> {"numHit"}
      [] outcomeOf(k) = "miss" -> {"numMiss"}
      [] outcomeOf(k) \in {"ownedUpgrade", "ignored"} -> {}

handleRequestCounts(k) ==
    CASE outcomeOf(k) = "hit" -> {"numHit"}
      [] outcomeOf(k) = "exclusiveHit" ->
            {"numHit", "numExclusiveToModifiedTransitions"}
      [] outcomeOf(k) = "ownedUpgrade" -> {"numHit"}
      [] outcomeOf(k) = "miss" ->
            {"numMiss"} \cup (IF /\ k.currentJob.op = "W"
                                 /\ flushesVictim(lookedUp(k, TagOfJob(k)))
                              THEN {"numFlush"} ELSE {})
      [] outcomeOf(k) = "ignored" -> {}

\* A job that is through by now: its line has just been used.  A cache without
\* work goes on saying so of its last job in every cycle.
updateNoLineCycle(k) == k                    \* faulty: done is not used
updateCurrentJobLineCycle(k) ==
    IF k.currentJob = NULL THEN k ELSE lookedUp(k, TagOfJob(k))

finishedStillBusy(k) ==                      \* faulty: busy is not reset
    IF k.startServiceCycle + k.jobCycleCost <= cycles
    THEN updateCurrentJobLineCycle(k) ELSE k

finished(k) ==
    IF k.startServiceCycle + k.jobCycleCost <= cycles
    THEN [updateCurrentJobLineCycle(k) EXCEPT !.busy = FALSE] ELSE k

\* Cache i's turn in a cycle.  While the bus serves it, it waits to be told.
CacheTick(i) ==
    LET k == finished(cache[i])
        starts == ~k.busy /\ k.pendingJobs # <<>>
    IN IF cache[i].busRequestBeingServiced
       THEN UNCHANGED <<cache, stats>>
       ELSE /\ cache' = [cache EXCEPT ![i] = IF starts THEN handleRequest(nextJob(k)) ELSE k]
            /\ stats' = IF starts THEN Count(stats, handleRequestCounts(nextJob(k)))
                        ELSE stats

-----------------------------------------------------------------------------
(***************************************************************************)
(* What the bus does with a cache.                                         *)
(***************************************************************************)
getBusRequest(k) ==
    [k EXCEPT !.startServiceCycle = cycles, !.busRequestBeingServiced = TRUE]

\* The requested line is stored, in place of another if the set is at its limit.
\* isFull decides only whether the eviction is counted: addLine evicts as well.
storedUnshared(k, isShared) ==               \* faulty: isShared was reset too early
    LET s == SetOfJob(k)
        t == TagOfJob(k)
        with == IF hasLine(s, t) THEN s ELSE addLine(s, CacheLine(t))
    IN setState(touched(with, t, cycles), t, installedState(k.currentJob.op, FALSE))

storedIn(k, isShared) ==
    LET s == SetOfJob(k)
        t == TagOfJob(k)
        room == IF isFull(s) /\ ~hasLine(s, t) THEN evictLRULine(s) ELSE s
        with == IF hasLine(room, t) THEN room ELSE addLine(room, CacheLine(t))
    IN setState(touched(with, t, cycles), t,
                installedState(k.currentJob.op, isShared))

busJobDoneKeepsRequest(k, isShared) ==       \* faulty: the request is not withdrawn
    [k EXCEPT !.busy = FALSE, !.busRequestBeingServiced = FALSE,
              !.localCache[SetOf(k.currentJob.block)] = storedIn(k, isShared)]

busJobDone(k, isShared) ==
    [k EXCEPT !.haveBusRequest = FALSE, !.busy = FALSE,
              !.busRequestBeingServiced = FALSE,
              !.localCache[SetOf(k.currentJob.block)] = storedIn(k, isShared)]

busJobDoneCountsReads(k, isShared) ==        \* faulty: writes use no memory
    IF k.currentJob.op = "R" /\ ~isShared THEN {"numMainMemoryUses"} ELSE {}

busJobDoneCounts(k, isShared) ==
    LET s == SetOfJob(k)
        t == TagOfJob(k)
        op == k.currentJob.op
        stillOwned == hasLine(s, t) /\ getLine(s, t).state = "owned"
    IN  (IF isFull(s) /\ ~hasLine(s, t) THEN {"numEvict"} ELSE {})
        \cup CASE Protocol = "MSI" -> {"numMainMemoryUses"}
               [] Protocol = "MESI" /\ isShared -> {"numCacheShare"}
               [] Protocol = "MESI" /\ ~isShared ->
                     IF op = "R" THEN {"numMainMemoryUses"} ELSE {}
               [] Protocol = "MOESI" ->
                     IF isShared \/ (op = "W" /\ stillOwned) THEN {}
                     ELSE {"numMainMemoryUses"}
===============================================================================
