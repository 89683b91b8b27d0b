--------------------------- MODULE AtomicBusManager ---------------------------
(***************************************************************************)
(* The atomic bus (AtomicBusManager.cpp): one request at a time, broadcast *)
(* to all the other caches in the cycle in which it is granted, and done   *)
(* when its cycles are over.                                               *)
(***************************************************************************)
EXTENDS Cache, Integers

VARIABLE bus

NewBus == [inUse |-> FALSE, currentCache |-> 0, startCycle |-> 0, endCycle |-> 0,
           isShared |-> FALSE]

\* The outcome of the broadcast of cache i's request in the caches cs.
reply(cs, i, j) ==
    LET b == cs[i].busRequest.block
        s == cs[j].localCache[SetOf(b)]
    IN IF hasLine(s, TagOf(b))
       THEN snoopBusRequest(cs[i].busRequest.command, getLine(s, TagOf(b)).state)
       ELSE Reply("NONE", "invalid")

repliers(cs, i, results) == {j \in Caches \ {i} : reply(cs, i, j).result \in results}

\* To snoop a line is to use it.
snoopedInVain(cs, i, j) ==                   \* faulty: the reply, but no setState
    LET b == cs[i].busRequest.block
    IN [cs[j] EXCEPT !.localCache[SetOf(b)] = touched(@, TagOf(b), cycles)]

snoopedUnused(cs, i, j) ==                   \* faulty: the snoop is no use
    LET b == cs[i].busRequest.block
    IN [cs[j] EXCEPT !.localCache[SetOf(b)] =
           setState(@, TagOf(b), reply(cs, i, j).state)]

snooped(cs, i, j) ==
    LET b == cs[i].busRequest.block
    IN [cs[j] EXCEPT !.localCache[SetOf(b)] =
           setState(touched(@, TagOf(b), cycles), TagOf(b), reply(cs, i, j).state)]

Flushes == {"FLUSH_MODIFIED_TO_SHARED", "FLUSH_MODIFIED_TO_INVALID"}
Supplies == {"MODIFIED", "EXCLUSIVE", "OWNED"}

(***************************************************************************)
(* What the replies add to the time that the request takes.  The bus adds  *)
(* to its end cycle; the requester is told to add as well, or to start     *)
(* from the cost of an answer by a cache, which forgets what came before.  *)
(***************************************************************************)
saved == MemoryResponseCycleCost - CacheResponseCycleCost

extraCycles(cs, i) ==
    LET flushers == Cardinality(repliers(cs, i, Flushes))
        suppliers == Cardinality(repliers(cs, i, Supplies))
        sharers == repliers(cs, i, {"SHARED"})
        upgrade == cs[i].busRequest.cycleCost = CacheHitCycleCost
    IN CASE Protocol = "MSI"   -> flushers * MemoryResponseCycleCost
         [] Protocol = "MESI"  -> flushers * CacheResponseCycleCost
                                  - (IF sharers # {} THEN saved ELSE 0)
         [] Protocol = "MOESI" -> IF upgrade THEN 0 ELSE -suppliers * saved

requesterCost(cs, i) ==
    LET flushers == repliers(cs, i, Flushes)
        sharers == repliers(cs, i, {"SHARED"})
        upgrade == cs[i].busRequest.cycleCost = CacheHitCycleCost
        cost == cs[i].jobCycleCost
    IN CASE Protocol = "MSI"  -> cost + MemoryResponseCycleCost * Cardinality(flushers)
         [] Protocol = "MESI" ->
               IF sharers = {} THEN cost + CacheResponseCycleCost * Cardinality(flushers)
               ELSE CacheResponseCycleCost
                    * (1 + Cardinality({j \in flushers : j > Min(sharers)}))
         [] Protocol = "MOESI" ->
               IF upgrade \/ repliers(cs, i, Supplies) = {} THEN cost
               ELSE CacheResponseCycleCost

\* One use of memory for a flush, and in MESI one for a request without sharers
\* (which busJobDone counts once more if it is a read).
broadcastCounts(cs, i, st) ==
    LET flushers == Cardinality(repliers(cs, i, Flushes))
        suppliers == Cardinality(repliers(cs, i, Supplies))
        memory == Bool(Protocol = "MESI" /\ repliers(cs, i, {"SHARED"}) = {})
    IN [Count(st, {"numBusRequests"}) EXCEPT
          !["numFlush"] = @ + flushers,
          !["numMainMemoryUses"] = @ + flushers + memory,
          !["numCacheShare"] = @ + suppliers]

\* The bus is granted to cache i of the caches cs, whose request is broadcast.
granted(cs, i) ==
    [j \in Caches |->
        IF j = i THEN [getBusRequest(cs[i]) EXCEPT !.jobCycleCost = requesterCost(cs, i)]
        ELSE snooped(cs, i, j)]

-----------------------------------------------------------------------------
\* The bus's turn in a cycle, after all caches: finish, then look for work.  The
\* lowest cache number goes first (the round robin is a TODO in the code).
BusTick ==
    LET i == bus.currentCache
        done == bus.inUse /\ bus.endCycle <= cycles
        cs == IF done THEN [cache EXCEPT ![i] = busJobDone(@, bus.isShared)] ELSE cache
        st == IF done THEN Count(stats, busJobDoneCounts(cache[i], bus.isShared))
              ELSE stats
        waiting == {j \in Caches : cs[j].haveBusRequest}
        next == Min(waiting)
    IN CASE bus.inUse /\ ~done -> UNCHANGED <<cache, bus, stats>>
         [] (done \/ ~bus.inUse) /\ waiting = {} ->
               /\ cache' = cs
               /\ stats' = st
               /\ bus' = [bus EXCEPT !.inUse = FALSE, !.isShared = FALSE,
                                     !.currentCache = IF done THEN -1 ELSE @]
         [] (done \/ ~bus.inUse) /\ waiting # {} ->
               /\ cache' = granted(cs, next)
               /\ stats' = broadcastCounts(cs, next, st)
               /\ bus' = [inUse |-> TRUE, currentCache |-> next,
                          startCycle |-> cycles,
                          endCycle |-> cycles + cs[next].busRequest.cycleCost
                                       + extraCycles(cs, next),
                          isShared |-> repliers(cs, next, SharedReplies) # {}]
===============================================================================
