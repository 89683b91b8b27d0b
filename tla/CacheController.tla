---------------------------- MODULE CacheController ----------------------------
(***************************************************************************)
(* The whole simulator: the loop of main (CacheController.cpp), which      *)
(* advances the clock, hands out the next job of the trace when no cache   *)
(* is busy, and gives each cache and then the bus its turn.                *)
(*                                                                         *)
(* The trace is read before the loop starts, and nothing else looks at     *)
(* what the reader keeps.  Here a line is chosen and scanned as its job is *)
(* handed out, so every trace of TraceLength lines is covered.             *)
(***************************************************************************)
EXTENDS AtomicBusManager, TraceReader

CONSTANT TraceLength      \* lines in the trace

ASSUME TraceAssumption == TraceLength \in Nat

VARIABLES outstandingRequests,   \* how many jobs of the trace are left
          phase,                 \* "loop", "caches", "bus" or "finished"
          turn                   \* the cache whose turn it is, in "caches"

vars == <<cycles, cache, stats, bus, outstandingRequests, phase, turn, readerVars>>

\* The code's endCycle is unsigned; RequestTakesTime is about that.
TypeOK ==
    /\ cycles \in Nat
    /\ cache \in [Caches -> CacheRecord]
    /\ stats \in [Counters -> Nat]
    /\ bus \in [inUse : BOOLEAN, currentCache : Caches \cup {-1}, startCycle : Nat,
                endCycle : Int, isShared : BOOLEAN]
    /\ outstandingRequests \in 0 .. TraceLength
    /\ phase \in {"loop", "caches", "bus", "finished"}
    /\ turn \in Caches
    /\ ReaderTypeOK

Init ==
    /\ cycles = 0
    /\ cache = [i \in Caches |-> NewCache]
    /\ stats = CacheStats
    /\ bus = NewBus
    /\ outstandingRequests = TraceLength
    /\ phase = "loop"
    /\ turn = 0
    /\ ReaderInit

noJobs == \A i \in Caches : ~cache[i].busy

\* The loop's condition fails: every job is done.
FinishWhenQueued ==                          \* faulty: queuesEmpty, the wrong way round
    /\ phase = "loop"
    /\ noJobs /\ outstandingRequests = 0
    /\ \E i \in Caches : cache[i].pendingJobs # <<>>
    /\ phase' = "finished"
    /\ UNCHANGED <<cycles, cache, stats, bus, outstandingRequests, turn, readerVars>>

Finish ==
    /\ phase = "loop"
    /\ noJobs /\ outstandingRequests = 0
    /\ phase' = "finished"
    /\ UNCHANGED <<cycles, cache, stats, bus, outstandingRequests, turn, readerVars>>

\* A cycle begins without a job to hand out.
NextCycle ==
    /\ phase = "loop"
    /\ ~noJobs
    /\ tick
    /\ phase' = "caches" /\ turn' = 0
    /\ UNCHANGED <<cache, stats, bus, outstandingRequests, readerVars>>

\* A cycle begins with a job, the one that line l is made.
HandOut(l) ==
    /\ phase = "loop"
    /\ tick
    /\ sscanf(l)
    /\ cache' = [cache EXCEPT ![accessProcessorId(l)].pendingJobs = Append(@, jobOf(l))]
    /\ outstandingRequests' = outstandingRequests - 1
    /\ phase' = "caches" /\ turn' = 0
    /\ UNCHANGED <<stats, bus>>

\* Faulty: noJobs is not asked; the queue is popped even if it is empty.
NextJobAnytime(l)   == outstandingRequests > 0 /\ HandOut(l)
NextJobFromEmpty(l) == noJobs /\ HandOut(l)

\* The next job of the trace is handed out, when no cache is busy.
NextJob(l) == noJobs /\ outstandingRequests > 0 /\ HandOut(l)

CacheTurn ==
    /\ phase = "caches"
    /\ CacheTick(turn)
    /\ IF turn + 1 \in Caches THEN turn' = turn + 1 /\ UNCHANGED phase
                              ELSE phase' = "bus" /\ UNCHANGED turn
    /\ UNCHANGED <<cycles, bus, outstandingRequests, readerVars>>

BusTurn ==
    /\ phase = "bus"
    /\ BusTick
    /\ phase' = "loop"
    /\ UNCHANGED <<cycles, outstandingRequests, turn, readerVars>>

Next ==
    \/ Finish
    \/ NextCycle
    \/ \E l \in TraceLines : NextJob(l)
    \/ CacheTurn
    \/ BusTurn

\* One thread runs the loop, and nothing in it blocks.
Spec == Init /\ [][Next]_vars /\ WF_vars(Next)

-----------------------------------------------------------------------------
(***************************************************************************)
(* The protocol machine that the caches and the bus implement, clock,      *)
(* statistics and replacement order hidden.                                *)
(***************************************************************************)
lineView == [i \in Caches |-> [b \in Blocks |->
    LET s == cache[i].localCache[SetOf(b)]
    IN IF hasLine(s, TagOf(b)) THEN getLine(s, TagOf(b)).state ELSE "absent"]]

Busy == {i \in Caches : cache[i].busy}

jobView ==
    IF Busy = {} THEN [phase |-> "idle"]
    ELSE LET i == Min(Busy)
             k == cache[i]
         IN [phase |-> IF ~k.haveBusRequest THEN "hit"
                       ELSE IF ~k.busRequestBeingServiced THEN "requested" ELSE "granted",
             proc |-> i, op |-> k.currentJob.op, block |-> k.currentJob.block,
             shared |-> bus.isShared]

Coh == INSTANCE Coherence WITH Procs <- Caches, line <- lineView, job <- jobView

(***************************************************************************)
(* The order of replacement that the times of last use stand for.  The     *)
(* line of a cache's last job comes first: as long as the cache is idle it *)
(* is used in every cycle, and when a job begins or ends as well.          *)
(***************************************************************************)
isLast(k, l) == k.currentJob # NULL /\ l.tag = TagOfJob(k)

\* m was not used before l was.
usedSince(k, l, m) ==
    isLast(k, m) \/ (~isLast(k, l) /\ l.lastUsedCycle <= m.lastUsedCycle)

lruOrder == [i \in Caches |-> [set \in Sets |->
    LET lines == Range(cache[i].localCache[set])
    IN {<<p[1].tag, p[2].tag>> :
           p \in {q \in lines \X lines : usedSince(cache[i], q[1], q[2])}}]]

lastBlock == [i \in Caches |->
    IF cache[i].currentJob = NULL THEN <<>> ELSE cache[i].currentJob.block]

OnBus == {i \in Caches : cache[i].busRequestBeingServiced}

Lru == INSTANCE LRU WITH order <- lruOrder, last <- lastBlock, onBus <- OnBus,
                         None <- <<>>

-----------------------------------------------------------------------------
(***************************************************************************)
(* Properties.                                                             *)
(***************************************************************************)

\* Every run of the simulator is a run of the protocol: no lookup, snoop, LRU
\* choice or early return of the timed code does to a line what the protocol
\* does not.
ImplementsCoherence == Coh!Init /\ [][Coh!Next]_(Coh!vars)

\* What goes to make room is the least recently used line of its set, in the order in
\* which jobs and snoops use them; the clock by which the code finds it, with the uses of
\* idle cycles and two uses in one cycle, makes no other choice.
ImplementsLRU == Lru!Init /\ [][Lru!Next]_(Lru!vars)

\* The simulator comes to the end of every trace.
Termination == <>(phase = "finished")

\* More than that: no job takes longer than a write that has to wait for a dirty
\* line to make room, for the other caches' flushes and for memory.  More than one other
\* cache can flush only under MESI, when a tag is used in two sets.
OtherFlushes == IF Coh!TagsAreSafe THEN 1 ELSE NumProcessors - 1
FlushTime == OtherFlushes * MemoryResponseCycleCost
LongestJob == 2 * MemoryResponseCycleCost + FlushTime + CacheHitCycleCost
JobsTakeBoundedTime ==
    cycles <= (TraceLength - outstandingRequests) * (LongestJob + 1)

\* Between two cycles a request for the bus is the one that the bus is serving.
\* The timeout in tick (startServiceCycle of an earlier job) would take any other
\* for done, and its cache would take on a new job and lose the request.
NoRequestLeftWaiting ==
    phase = "loop" =>
        \A i \in Caches : cache[i].haveBusRequest =>
            /\ cache[i].busy /\ cache[i].busRequestBeingServiced
            /\ bus.inUse /\ bus.currentCache = i

\* One job at a time: what is waiting, being served or on the bus is one job.
OneJobAtATime ==
    \A i \in Caches : LET k == cache[i] IN
        /\ Len(k.pendingJobs) <= 1
        /\ k.busy => k.pendingJobs = <<>>
        /\ k.busy \/ k.pendingJobs # <<>> =>
              \A j \in Caches \ {i} : ~cache[j].busy /\ cache[j].pendingJobs = <<>>

\* The reductions of endCycle for answers by caches never take back the whole
\* request (endCycle is unsigned, so that would stop the simulation).
RequestTakesTime == bus.inUse => bus.endCycle > bus.startCycle

\* A set has no tag twice and no more lines than its ways.
SetsAreSound ==
    \A i \in Caches, set \in Sets : LET s == cache[i].localCache[set] IN
        /\ Len(s) <= NumLinesInSet
        /\ \A m, n \in DOMAIN s : s[m].tag = s[n].tag => m = n

\* While a cache waits for a line it does not have, the line that will make room
\* for it is not in doubt: no two lines of the set were last used in one cycle,
\* for all the touches by jobs, by snoops and by idle cycles.
VictimIsDetermined ==
    \A i \in Caches : LET k == cache[i] IN
        k.busRequestBeingServiced /\ ~hasLine(SetOfJob(k), TagOfJob(k)) =>
            LET s == SetOfJob(k) IN
            \A m, n \in DOMAIN s : s[m].lastUsedCycle = s[n].lastUsedCycle => m = n

\* Between jobs, the line of the read or write that a cache has done last is as
\* recent as any of its set.
LastJobIsMostRecent ==
    phase = "loop" =>
        \A i \in Caches : LET k == cache[i] IN
            /\ ~k.busy /\ k.currentJob # NULL /\ k.currentJob.op \in {"R", "W"}
            /\ hasLine(SetOfJob(k), TagOfJob(k))
            => \A m \in DOMAIN SetOfJob(k) :
                    SetOfJob(k)[m].lastUsedCycle
                        <= getLine(SetOfJob(k), TagOfJob(k)).lastUsedCycle

\* Between two cycles every read and write handed out has been counted as a hit
\* or as a miss, once, and every miss has had the bus, once (MOESI's upgrades have
\* the bus and count as hits).
StatsAddUp ==
    phase = "loop" /\ TraceLines \subseteq CompleteLines =>
        /\ stats["numHit"] + stats["numMiss"] = TraceLength - outstandingRequests
        /\ stats["numBusRequests"] \in stats["numMiss"] ..
              (IF Protocol = "MOESI" THEN stats["numMiss"] + stats["numHit"]
                                     ELSE stats["numMiss"])

\* Between two jobs every miss has had its data from one place.  In MOESI that is a
\* cache or memory, as long as no tag is used in two sets (a write that misses and
\* finds the tag owned in another set is counted for neither); no request is counted
\* for more than one.  In MSI it is memory, after at most one flush to it.
OneSourcePerMiss ==
    phase = "loop" /\ noJobs =>
        /\ Protocol = "MOESI" =>
              /\ stats["numCacheShare"] <= stats["numMiss"]
              /\ stats["numCacheShare"] + stats["numMainMemoryUses"]
                    \in stats["numMiss"] .. stats["numBusRequests"]
        /\ Protocol = "MSI" =>
              stats["numMainMemoryUses"] - stats["numBusRequests"] \in 0 .. stats["numFlush"]

\* "its a hit": a MOESI request that is counted as a hit uses no memory, so memory is
\* used for no more than the misses that no cache has answered.
HitsUseNoMemory ==
    Protocol = "MOESI" =>
        stats["numMainMemoryUses"] <= stats["numMiss"] - stats["numCacheShare"]

\* "so if we never did get a shared, had to get from main memoryu": a request
\* uses main memory once, and a flush uses it once.
MemoryUsedOnce ==
    stats["numMainMemoryUses"] <= stats["numBusRequests"] + stats["numFlush"]

\* A line without an R or a W of its own: a comment, whatever of it parses, or an
\* empty line.
NoAccess(l) == l = <<>> \/ (Len(l) >= 1 /\ l[1] = "-")

\* A step in which a cache takes on the job that it has been handed.
TakesJob == \E i \in Caches : cache[i].pendingJobs # <<>> /\ cache'[i].pendingJobs = <<>>

\* What the reader makes of a line without an access, from what it has left of earlier
\* lines, changes the state of no line and no counter, with one exception: an empty
\* line repeats the last job, and if that was an access it is one more hit.
LineWithoutAccess ==
    [][NoAccess(traceLine') =>
          /\ lineView' = lineView
          /\ stats' = Count(stats,
                IF traceLine' = <<>> /\ readWrite \in {"R", "W"} /\ TakesJob
                THEN {"numHit"} ELSE {})]_vars

\* A step in which cache i loses the line with tag t of a set.
Evicts(i, set, t) ==
    /\ hasLine(cache[i].localCache[set], t)
    /\ ~hasLine(cache'[i].localCache[set], t)

\* "Need to tell if we need to evict a line from the set": a line that leaves a
\* cache has been evicted, and numEvict says so.
EvictionsCounted ==
    [][\A i \in Caches, set \in Sets, t \in Tags :
          Evicts(i, set, t) => stats'["numEvict"] > stats["numEvict"]]_vars

\* A step in which cache i loses a modified line.
EvictsModified(i) == \E set \in Sets, t \in Tags :
    /\ Evicts(i, set, t)
    /\ getLine(cache[i].localCache[set], t).state = "modified"

FinishesRequest(i) ==
    cache[i].busRequestBeingServiced /\ ~cache'[i].busRequestBeingServiced

PaysForFlush(i) == cache[i].busRequest.cycleCost > MemoryResponseCycleCost

\* What getTotalMemoryCost charged for a write-back when the job began is a
\* write-back when the job ends, however many cycles later: a modified line goes.
FlushPaidIsFlushDone ==
    [][\A i \in Caches :
          FinishesRequest(i) /\ PaysForFlush(i) => EvictsModified(i)]_vars
===============================================================================
