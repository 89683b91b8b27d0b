# Verification of the cache coherence simulator

TLA+ models, TLC runs and TLAPS proofs for the trace-driven simulator in
`src/418Cache/418Cache`: eight caches (`Cache.cpp`) on an atomic bus
(`AtomicBusManager.cpp`) execute the reads and writes of a trace, one at a time
(`CacheController.cpp`), under MSI, MESI or MOESI, and count cycles, hits, misses,
flushes, evictions and memory accesses. Paths below are relative to that directory.

## 1. The system

### Components

| Component | Source | State | Operations |
|---|---|---|---|
| Controller | `CacheController.cpp` | queue `outstandingRequests`, the vector of caches, the bus | read the trace; per cycle: tick the clock, hand out the next job if no cache is busy, tick each cache in order, tick the bus; stop when no cache is busy and the queue is empty |
| Cache | `Cache.cpp`, `Cache.h` | `localCache` (sets), `pendingJobs`, `currentJob`, `busRequest`, flags `haveBusRequest`, `busy`, `busRequestBeingServiced`, `startServiceCycle`, `jobCycleCost` | `tick`, `handleRequest` and the handlers it calls, `getBusRequest`, `snoopBusRequest` (one table per protocol and command), `busJobDone`, `updateEndCycleTime`, `newEndCycleTime` |
| Set and line | `CacheSet.cpp`, `CacheLine.cpp` | a vector of lines: tag, state, cycle of last use | `hasLine`, `getLine` (which marks the line as used), `isFull`, `evictLineModified`, `evictLRULine`, `addLine` |
| Bus | `AtomicBusManager.cpp`, `BusRequest.cpp` | `inUse`, `currentCache`, `startCycle`, `endCycle`, `isShared` | `tick`: finish the current request, grant the bus, broadcast |
| Configuration, clock | `CacheConstants.cpp` | globals: costs, sizes, protocol, `cycles` | `tick`, getters |
| Statistics | `CacheStats.cpp` | eight counters | incremented by caches and bus |
| Jobs, trace reader | `CacheJob.cpp`, `CacheController.cpp:73-84` | `readWrite`, `address`, `threadId`, which outlive a line | scan a line and make it a job for a cache, whatever of it has parsed |
| Address decoding | `Cache.cpp:43-55` | none | address to (set, tag) |
| Trace recorder | `pin/source/tools/ManualExamples/pinatrace.cpp` | output file, lock | one line before each memory access of a traced function |
| Workloads | `programs/*.cpp` | threads, shared arrays; `no_false_sharing` a counter | programs whose accesses are traced |
| Other | `CacheManager.cpp` (an earlier `main`, no state), `scripts/`, `traces/`, `pin/` (vendored kit) | | |

### How they interact

Everything runs in one thread. In each cycle the controller calls the caches in
order of number and then the bus. A cache that starts a job which it cannot serve
sets `haveBusRequest`; the bus, when free, polls the caches from number 0 and takes
the first request, then calls `snoopBusRequest` on every other cache *in that same
call*. While replies arrive, the bus adjusts its own `endCycle` and calls back into
the requester to adjust `jobCycleCost`. When `endCycle` is reached it calls
`busJobDone(isShared)` on the requester, which stores the line. Clock and
configuration are globals; the statistics are one shared object.

Before that, and in another process, a workload's threads run under the recorder: each
access of a traced function is preceded by a call that takes the recorder's lock, writes
a line and releases the lock; the access follows by itself. The trace is the only
connection between the two: a file of lines, read to its end before the loop starts.

In the simulator the interleaving that matters is therefore that of *jobs over time*: a request is
spread over issue, broadcast and completion, many cycles apart, and each part takes
for granted what an earlier one found (a state looked up when the job began, the
`isShared` that the broadcast computed, a cost that stands for a kind of request).

### What is hard, and what would make each part correct

* **The protocols.** Each handler changes one line; whether the tables fit together
  shows only after several requests of several caches. Correct: a single writer or
  many readers; one owner; what the broadcast established still true at
  `busJobDone`; dirty data never forgotten.
* **Lookups over all sets.** `lineInState` and `setLineState` search the tag in
  every set. Correct: a hit is a hit on the job's own address.
* **Timing.** `tick` decides that a job is over from `startServiceCycle +
  jobCycleCost`; a cache that waits for the bus still has the start of its previous
  job. Correct: no request is dropped, the bus's cycles are never negative
  (`endCycle` is unsigned), every job ends, and the loop with it.
* **Replacement.** Use times are refreshed by jobs, by snoops and, every cycle, by
  idle caches; evictions happen in two places behind two different tests. Correct:
  no set exceeds its ways or holds a tag twice; the victim is determined.
* **Statistics.** Counters are kept in two components and per protocol. Correct: each
  job counted once, each miss served from one place and a hit from none.
* **Decoding and parsing.** `1 << 36` on an `int`; `sscanf` on lines that are no jobs
  leaves its variables as they were, and a job is made of them all the same. Correct:
  an address finds its own memory's line; a line without an access is not counted as one.
* **The workload.** `thread_counts++` on a shared `int` by all threads at once, two loops
  that wait for exact values of it, and lines recorded ahead of the accesses. Correct:
  no thread is through the barrier too early, in memory and in the trace; the ways to
  hang and to return early are known.

`PROJECT.json` lists each hazard at its line with the properties that cover it.

## 2. The modules

```
CoherenceProtocol            decision tables of the three protocols (pure)
  |-- Coherence              protocol machine: lines and one job, no clock
  |     |-- CoherenceProofs  theorems
  |     '-- MCCoherence      instances for TLC
  '-- CacheConstants         costs, sizes, clock
        '-- CacheSet         lines and LRU order of a set
              '-- Cache      the caches and the statistics  (CacheProofs, CacheSet's too)
                    |-- TraceReader          lines of the trace to jobs
                    '-- AtomicBusManager     the bus        (AtomicBusManagerProofs)
CacheController              the whole simulator: TraceReader, AtomicBusManager, the loop
  |     Coh == INSTANCE Coherence WITH line <- lineView, job <- jobView
  |     Lru == INSTANCE LRU WITH order <- lruOrder, last <- lastBlock, onBus <- OnBus
  |-- CacheControllerProofs        inductive invariant, theorems
  |     '-- CacheControllerRefinement   that it implements Coherence, and what follows
  |           '-- CacheControllerReplacement   that it implements LRU, and what rests on the order
  '-- MCCacheController            instances for TLC

AddressDecode                address to set and tag, at scaled-down widths
  |-- AddressDecodeProofs    theorems
  '-- MCAddressDecode        instances for TLC

PinTrace                     the recorder: what is written before an access
  '-- NoFalseSharing         the workload with the counting barrier
        '-- NoFalseSharingProofs   theorems
```

**CoherenceProtocol** has one operator per handler: `snoopBusRequest` (the reply and
the next state of the line), `handleRequestOutcome` (hit, hit on an exclusive line,
upgrade of an owned line, miss), `SharedReplies` (the replies that set `isShared`) and
`installedState` (what `busJobDone` stores). It is used by both machines below.

**Coherence** is the abstract specification: what the caches do to lines while one job
at a time goes through *idle - hit - idle* or *idle - requested - granted - idle*.
Its actions are the job's start (`Hit`, `Miss`, `handleWriteExclusive`,
`handleWriteOwned`), the end of a hit (`HitDone`), the bus's `Broadcast` and
`busJobDone`. Which line of the set makes room is left open.

**LRU** is the abstract specification of replacement: for each set an order of its
tags, and no time. `Use` is a cache taking on a job, whose tag comes first in every set that
has it; `Snoop` is a broadcast, which each of the other caches notes in the set of the request's
block and after which its own last job comes first again (an idle cache marks that
job's line in every cycle); `Store` puts a line in, and if the set is full the least
recent one goes. The simulator finds that line by comparing cycle numbers; `ImplementsLRU`
says that it makes no other choice.

**CacheController** and the modules that it extends are the program with its cycles: one
record per cache with the fields of class `Cache`, the bus's fields, the clock, the
counters, each set as a sequence of lines with the cycle of last use. Its actions are
the statements of the loop: `NextJob` and `NextCycle` (the start of a cycle, with or
without a new job), `CacheTurn` (one cache's `tick`), `BusTurn` (the bus's `tick`,
completion, arbitration, broadcast and all), `Finish`.

**TraceReader** scans a line. A line is the tuple of its fields that parse, so that an
empty line is `<<>>` and a comment `<<"-">>`; what does not parse keeps the value in
`readWrite`, `address` or `threadId`, and the line becomes a job of the cache
`threadId % NumProcessors`. The program scans all lines before the loop; the model chooses
and scans each line when its job is handed out. What a line becomes depends on earlier
lines only, so the jobs are the same, and one run covers every trace of the given length.

**AddressDecode** is `decode_address` on its own: shift, mask and the lines that a cache
stores and finds under the result. What a build makes of `(1 << numTagBits) - 1`
when an `int` has no such bit (distance modulo the width, as x86 does, or a mask of all
ones) is chosen once, in `Init`.

**PinTrace** is the call that `pinatrace` inserts before an access: one line, in one
step, under the lock. **NoFalseSharing** is `programs/no_false_sharing.cpp` traced by it. A thread
is at one access of `access_array` after the other; each access is two steps, `Record`
(the line) and the access itself, and `thread_counts++` and `thread_counts--` are a load and a
store, as in the binary kept beside the source, which also reads the counter from memory
in each turn of the waiting loops. `main` creates the threads one by one, may fail to
create one, and waits for the counter to be zero. Left out of the trace are the
lines of the reads in the waiting loop, of which there is no end, and of the
counting out, about which nothing is stated; a line that is left out changes nothing in
the order of the others.

Correspondence worth knowing:

* A block is the pair (set, tag) that an address decodes to. Data are not in the
  program, and not in the model.
* A failed lookup and a successful one differ in which lines they mark as used:
  `lineInState` returns at the first match. The model marks the tag in every set; the
  two agree again when the job ends (`updateCurrentJobLineCycle` goes through all
  sets), and only a set that holds the same tag as the one that was hit can differ in
  between.
* `endCycle` is an integer in the model. `RequestTakesTime` keeps it above `startCycle`,
  so the unsigned arithmetic of the code does not wrap; this is proved for every
  configuration. It rests on there being one supplier at most (`OneOwner`): the time
  is reduced once for each.
* MOESI's upgrade is told from a miss by its cost (`AtomicBusManager.cpp:97`), as in
  the code; `CostsAssumption` states that the two costs differ.

## 3. The runs

Protocol machine (`MCCoherence`; three caches):

| Run | Instance | Shows |
|---|---|---|
| `mesi` | three blocks in two sets, no tag shared | `SWMR`, `HitIsHeld`, `BroadcastHolds`, `DirtyKeptUnlessFlushed` |
| `moesi` | two blocks of one set and one of another with the same tag; caches symmetric | `OneOwner`, the inductive invariant `CoherenceInv`, `DirtyKeptUnlessFlushed` |
| `moesi_exclusive` | two blocks of one set, MOESI | violated: `ExclusiveIsAlone` (finding 1) |
| `shared_tag` | one tag in two sets, MESI | violated: `HitIsHeld` (finding 2) |

Whole simulator (`MCCacheController`; hit 1 cycle, answer by a cache 2, memory 3):

| Run | Instance | Shows |
|---|---|---|
| `controller_mesi` | 2 caches, sets of two lines, three tags in one set and one of them in another, 4 jobs | sets stay sound, the victim is determined, the last job's line is the most recent, the counters add up, a write-back that was charged happens (`FlushPaidIsFlushDone`), the line that goes is the least recently used one (`ImplementsLRU`), and the simulator implements `Coherence`, false hits included |
| `controller_msi` | 3 caches, one line each, two tags, 3 jobs, from lines that parse in full, in part or not at all, with thread numbers above the caches' | no request is left waiting, one job at a time, bounded time per job, one source per miss (`OneSourcePerMiss`), what a line without an access may change (`LineWithoutAccess`), implements `Coherence`, termination |
| `controller_moesi` | 3 caches, one line each, two tags, 4 jobs, memory 4 cycles | counters, one source per miss, the bus's time is never taken back, implements `Coherence` |
| `eviction_count` | a small instance, MESI | violated: `EvictionsCounted` (finding 3) |
| `upgrade_count` | 2 caches, one line each, two tags, MOESI | violated: `HitsUseNoMemory` (finding 5) |

Decoding (`MCAddressDecode`; lines of two bytes, two sets, five tag bits and an `int` of
four, which is one too few, as in the code):

| Run | Instance | Shows |
|---|---|---|
| `decode_alias` | eight addresses that share lines, sets and tags with each other, some 8 and 64 bytes apart | an address finds the lines that the build cannot tell from its own, and no others (`FoundLineIsAlias`); no memory is in two lines |
| `decode_wide` | the addresses of `decode_alias` | violated: `FoundLineIsOwn` (finding 4) |

Workload (`NoFalseSharing`):

| Run | Instance | Shows |
|---|---|---|
| `no_false_sharing` | 3 threads, 1 element each | the counter stays in range although updates get lost (`TypeOK`), the barrier holds in memory (`AllArrived`) and in the trace (`BarrierInTrace`), every way to hang is a lost update or a thread that missed the full count (`Ends`), `main` never returns between the barrier and the last access (`ReturnsBeforeOrAfter`) |

**Bounds.** Three caches are a requester, an owner and a sharer; the handlers never
tell more of them apart (the bus treats all repliers alike), and the theorems cover
any number. Two blocks in one set force eviction; a third block, in another set, shows
that sets are independent or, with the same tag, where they are not; three in one set make
LRU choose. The costs are the
smallest that keep the code's order hit < cache < memory and differ
pairwise; the code only adds, compares and subtracts them. `controller_moesi` has memory
at twice the cost of a cache, so that a second supplier would take back the
whole of a request. The decoding is scaled down from 36 tag bits and an `int` of 32 to 5
and 4: a shift modulo the width leaves one bit of the tag (in the code four), a mask of all
ones leaves four (32), and the theorems cover all widths. Four
jobs are enough for dirty line, sharer, upgrade and the read that comes after; the
counters' properties are sums over single jobs. The machine without clock has no bound
on the number of jobs at all. Three threads are enough for one that loses an update,
one that overwrites it and one that waits for both; an element more repeats a step that
touches nothing the others see. Each cfg of the timed model and of the workload says
`CHECK_DEADLOCK FALSE`, because both programs stop: at the end of the trace, and
when the threads have finished and `main` has returned.

`StatsAddUp` is about traces in which every line is complete (a job that is neither a
read nor a write is counted as nothing), so it is checked in the two instances
with such traces.

**Fairness.** `CacheController` assumes `WF_vars(Next)`: one thread runs the loop, no call
in it blocks, so it goes on as long as there is a next statement. `Termination` alone
would let a job take ever longer, so `JobsTakeBoundedTime` bounds the clock by the
number of jobs: at most `LongestJob`, plus the cycle in which the next is handed out.
That is twice the time of memory (a dirty victim and the line itself), a hit, and a flush by
another cache; under MESI with a tag in two sets, where there may be several modified copies, a
flush by each of the others.

`NoFalseSharing` assumes `WF_vars(Main)` and `WF_vars(Step(t))` for each thread: the
operating system schedules every thread again and again, and the recorder's lock is held
for one line only. A thread in a waiting loop takes steps forever, and so could keep
running without the others if fairness were for `Next` alone.

`Coherence` needs no fairness: it is used for safety only.

## 4. Findings

1. **MOESI installs exclusive next to sharers** (`moesi_exclusive`). The bus sets
   `isShared` for MODIFIED, EXCLUSIVE and OWNED but not for SHARED, so a read for
   which only sharers answer becomes exclusive. A later write is then a hit without a
   broadcast. `SWMR` therefore holds for MSI and MESI only, and is stated so;
   `OneOwner` holds for all three. Under MSI and MESI an exclusive line is alone (theorem
   `ExclusiveAlone`).
2. **Hits on other addresses' lines** (`shared_tag`). The tag is what is above bit 12,
   so any two lines of one 4 KiB page have one tag in two sets, and a job may hit on the
   line of the other set. Under MESI this also breaks `SWMR`: a write that finds the tag
   exclusive in another set needs no broadcast, and `setLineState` makes the shared line
   of its own address modified as well. MSI has no exclusive lines, and MOESI tests for
   invalid and shared lines first.
3. **Evictions are not counted** (`eviction_count`) unless every line of the set is
   modified. Nor is the write-back of a dirty victim charged otherwise; what is charged
   does happen (`FlushPaidIsFlushDone`).
4. **The tag's mask is undefined** (`decode_wide`): `1 << 36` on an `int`. With a
   distance modulo 32, four bits of the tag are left, and addresses 64 KiB apart are one
   line to the simulator. Which addresses are one line is exactly known
   (`FoundLinesAreAliases`); a trace that stays within 64 KiB is not affected
   (`LookupsFindOwnLines`).
5. **MOESI counts an upgrade that nobody answers as a use of memory** (`upgrade_count`). The
   write to an owned line is a hit (`Cache.cpp:259`), counted and priced as one, and
   `busJobDone` has a test that would leave owned lines out (`Cache.cpp:553`); but the line
   has been modified since the job began (`Cache.cpp:264`), and the test does not see that it was owned.

Not findings, but worth knowing:

* MESI counts the memory access of an unshared read twice, at the broadcast
  (`AtomicBusManager.cpp:149`) and when it is done (`Cache.cpp:591`). In the other two
  protocols no request and no flush counts more than one (`MemoryUsedOnce`, theorem
  `MemoryIsUsedOnce`).
* `OneSourcePerMiss` holds in spite of finding 5, which makes the number of requests
  and not that of misses its upper bound. Under MOESI with a tag in two sets a write that
  misses and finds the tag owned in the other set is counted for neither cache nor memory,
  which is why the theorem excludes it. Of MESI the property says nothing.
* A line of the trace that does not parse is not skipped. A comment becomes a job without
  operation for the previous thread's cache, which costs cycles and counts nothing. After an
  empty line `sscanf`'s variables are as they were, so the last job is made once more; if it was an
  access, its line is still there and **the empty line is counted as a hit**, which no line without
  an access should be. `LineWithoutAccess` says that this is all it does: the states of the lines
  stay as they are, and so do the other counters.
* `no_false_sharing` hangs if an update of the counter is lost or a thread counts itself out
  before another has seen the full count, and its `main` may return before the
  threads have started. `Ends` and `ReturnsBeforeOrAfter` say that this is all.

The repository's README also announces a write-back buffer and a non-atomic bus;
the sources have neither.

## 5. The proofs

`CoherenceProofs` proves, for any set of caches, any blocks and each of the protocols:

| Theorem | Statement |
|---|---|
| `InvHolds` | `TagsAreSafe => (Spec => []CoherenceInv)` |
| `TypeCorrect` | `TagsAreSafe => (Spec => []TypeOK)`, a part of `CoherenceInv` |
| `SingleWriter` | under MSI and MESI, `TagsAreSafe => (Spec => []SWMR)` |
| `SingleOwner` | `TagsAreSafe => (Spec => []OneOwner)` |
| `BroadcastLasts` | `TagsAreSafe => (Spec => []BroadcastHolds)` |
| `HitsAreHeld` | `NoTagSharing => (Spec => []HitIsHeld)` |
| `DirtyDataIsKept` | `TagsAreSafe => (Spec => DirtyKeptUnlessFlushed)` |
| `WriterDoesNotOwn` | under MOESI, `NoTagSharing => (Spec => []WriterIsNotOwner)`: a cache whose write is on the bus does not own the block |

Assumptions: `ProtocolAssumption` (the enumeration of the code) and a hypothesis on the
trace. `NoTagSharing` says that no tag is in use in two sets; finding 2 is what
happens without it. `TagsAreSafe` asks for it under MESI only; finding 2 shows
why. MSI and MOESI keep their invariants even when hits are false.

The argument. `SWMR` is not inductive: `busJobDone` makes a line modified, and that this
is safe was settled when the request was broadcast. `BroadcastHolds` remembers it:
while a request is granted, no other cache holds the block in a state that contradicts
what will be installed. `ReaderHasNoCopy` says that what the requester overwrites is
not an owner's line, which `OneOwner` and `DirtyKeptUnlessFlushed` need.
`StatesOfProtocol` excludes states of the other protocols, so that the tables' default
cases are harmless. The conjunction is `CoherenceInv`; it is inductive, TLC checks it
in `moesi`, and the proof takes one lemma for each action.

`AddressDecodeProofs` proves, for all widths:

| Theorem | Statement |
|---|---|
| `FoundLinesAreAliases` | `Spec => []FoundLineIsAlias` |
| `LookupsFindOwnLines` | `TraceFitsTags => (Spec => []FoundLineIsOwn)` |
| `WideIntsFit` | `NumTagBits < IntBits => TraceFitsTags` |
| `MemoryHeldOnce` | `Spec => []MemoryIsHeldOnce` |
| `AddressesAreBlocks` | `Spec => []DecodesToBlocks`: set and tag are a block as `BlocksAssumption` has it, one for each class of aliases |

from `WidthsAssumption`, `AddressesAssumption` and the inductive invariant `DecodeInv`, whatever
the build makes of the shift. The step that matters is arithmetic: quotient and remainder
determine a number (`DivisionIsUnique`), and the parts that are kept of two addresses are equal
exactly if the addresses agree modulo their product (`SameParts`). `TraceFitsTags` is about
the trace: its addresses are less apart than what every possible build tells apart. The
last theorem is what allows the other modules to speak of blocks instead of addresses: it
needs no hypothesis, because two lines of memory that decode to one block are one block to
the simulator, too.

**The simulator.** `CacheControllerProofs` proves, for any number of processors, sets and
ways, any blocks, any costs that satisfy `CostsAssumption`, any trace, and each protocol:

| Theorem | Statement |
|---|---|
| `ControlHolds` | `Spec => []Inv`, the inductive invariant |
| `TypeCorrect` | `Spec => []TypeOK` |
| `OneJob` | `Spec => []OneJobAtATime` |
| `NoRequestWaits` | `Spec => []NoRequestLeftWaiting` |
| `SetsSound` | `Spec => []SetsAreSound` |
| `CountersAddUp` | `Spec => []StatsAddUp` |

The program tells whose turn it is from flags in three places: `busy`, `haveBusRequest` and
`busRequestBeingServiced` of each cache, and the bus's `inUse`. `Inv` says how they
agree. `Flags`: who is served has asked, who has asked is busy, and a busy cache has a job,
which is the one that it has asked for. `BusServes`: the bus is in use exactly when it
serves the cache that it names. `PickedUp`: a job is waiting only until its cache's turn,
and a request only until the bus's turn, of the cycle in which it has come. With
`OneJobAtATime` this makes `NoRequestLeftWaiting` a consequence: that property alone
is about the end of a cycle and says nothing of the turns in between. The soundness of
the sets is carried along (`WellFormed`). For the counters `CountsInv` adds what is on the
way: a job that waits in `pendingJobs` has been handed out but is neither hit nor miss, a
request not yet served is a miss that has not had the bus.

`CacheProofs` (sets and caches) and `AtomicBusManagerProofs` hold the lemmas about the
operations: what a method returns, that it keeps types and soundness, which flags it moves,
which lines it marks as used.

**The refinement.** `CacheControllerRefinement` proves, for the same parameters:

| Theorem | Statement |
|---|---|
| `Implements` | `Spec => ImplementsCoherence` |
| `SingleWriterHolds` | under MSI and MESI, `Coh!TagsAreSafe => (Spec => []Coh!SWMR)` |
| `SingleOwnerHolds` | `Coh!TagsAreSafe => (Spec => []Coh!OneOwner)` |
| `RequestsTakeTime` | `Spec => []RequestTakesTime` |
| `HitsHeld` | `Coh!NoTagSharing => (Spec => []Coh!HitIsHeld)` |
| `ExclusiveAlone` | under MSI and MESI, `Coh!TagsAreSafe => (Spec => []Coh!ExclusiveIsAlone)` |
| `DirtyDataKept` | `Coh!TagsAreSafe => (Spec => Coh!DirtyKeptUnlessFlushed)` |
| `JobsEndInTime` | `Spec => []JobsTakeBoundedTime` |
| `EveryMissHasOneSource` | `Spec => []OneSourcePerMiss`, under MOESI if `Coh!NoTagSharing` |
| `MemoryIsUsedOnce` | under MSI, and under MOESI if `Coh!NoTagSharing`, `Spec => []MemoryUsedOnce` |
| `NoAccessIsAtMostAHit` | `Spec => LineWithoutAccess`, under MOESI if `Coh!NoTagSharing` |

All that the protocol sees of a set is `View`, the state of the line with a given tag, or
absent. The lemmas tell every operation of a cache by what it does to the views of its
sets: a lookup nothing, `setLineState` one tag in all sets, storing a line one tag of
one set, and another tag, whichever LRU picks, may go. `RefInv` is `Inv` with what the
mapping needs: `isShared` is false while the bus is free, the request's command is the one
that the protocol sends, and a cache holds blocks of the trace only. Each step of the
loop is then a step of `Coherence` or leaves lines and job alone; the code lets the
bus complete a request and grant another in one turn, but by `OneJobAtATime` it never does. False hits are in both machines alike, so the
refinement holds with tags in two sets as well.

The other theorems use the protocol's theorems for the timed program. `TimeInv` has to know that
at most one cache answers with data; that is `OneOwner`, an invariant of the
other machine. `BoundInv` gives every job a date, `Due`, computed from the number of jobs,
and shows that a hit, the bus's `endCycle` and the clock keep to it; `endCycle` is raised once
for each cache that flushes, which is one (`OneFlusher`) unless the trace uses a tag in two sets
under MESI, and then the others at most. `SourceInv` counts
the request that is on the bus: one for which a cache has answered is already in
`numCacheShare`, the others get their use of memory at the end. `MissInv` compares both with the
misses: the answers by caches are at most the misses without the one that is still asking
(`Asking`), and the misses at most the requests with the one that is still to be granted. That a
cache answers misses only, and not an upgrade, takes the single owner again: who upgrades is the
owner, and none of the others can reply.

`RepeatInv` is about a line without an access. The reader's variables still hold the last
job, and the line becomes that job again, for the same cache. The invariant says that the
last job, asked for again, would be a hit (`HitsAgain`), unless it is still waiting or on the bus
(which is why an empty line can count a hit and nothing else), and that there is no
operation to repeat after a comment:
`busJobDone` leaves the line in a state that serves it, and until the next access nobody sends a
request that could take it away. Under MOESI the lookup finds a shared line of another set
first, so the repeated write may miss again; TLC shows that, and the theorem asks for
`NoTagSharing` there.

**Replacement.** `CacheControllerReplacement` proves, for the same parameters:

| Theorem | Statement |
|---|---|
| `ReplacementIsLRU` | `Spec => ImplementsLRU` |
| `VictimsDetermined` | `Spec => []VictimIsDetermined` |
| `LastJobsMostRecent` | `Spec => []LastJobIsMostRecent` |
| `PaidFlushesAreDone` | `Spec => FlushPaidIsFlushDone`, if a hit costs no more than memory |

`OrderInv` is about the order of replacement. In one cycle a cache can use two lines, its
job's and the one it snoops, so use times alone do not tell the lines apart; the job does.
The invariant is `Distinct`: no two lines of a set *other than that of the current job*
have the same time. Three facts carry it: at most one cache has a job, so a cache that
begins one (and with it makes its old line one of the others) has nothing to snoop in that
cycle; a cache without work marks its job's line in every cycle, so that line
is the most recent when the next job comes; and a job that the bus ends is over for the
cache's own timeout as well (`RequesterInTime`), or the cache would skip such a mark. The
last compares `endCycle`, which the bus adds up, with the cost the requester is told, which is
added up differently, and in MOESI needs the single owner again.

The refinement of `LRU` rests on it. A set's times are a function from its tags (`LastUse`);
the abstract order is `Order(f, J)`, which compares the times but puts the tag of the
current job, `J`, before all of them. That is the order that matters, because the job's
line is marked again before another line can go. To give a line the present cycle is to
move it to the front (`UseOrder`), provided that no other line but the job's has that cycle, which is
what `OrderInv` supplies; a snoop moves two tags (`SnoopOrder`), the stored line is the most
recent (`StoreOrder`), and the line with the smallest time is the least element of the order
(`VictimOrder`). Turns that only refresh the last job's line leave the order alone.

For `PaidFlushesAreDone`, `FlushInv` says that a request dearer than memory belongs to a
cache that still has to make room in a set full of modified lines; the line that goes is then
one of these, and is not the one just stored.

**The workload.** `NoFalseSharingProofs` proves, for any number of threads and elements:

| Theorem | Statement |
|---|---|
| `CounterInRange` | `Spec => []TypeOK` |
| `CounterIsBarrier` | `Spec => []AllArrived` |
| `TraceShowsBarrier` | `Spec => []BarrierInTrace` |
| `ReturnIsBeforeOrAfter` | `Spec => ReturnsBeforeOrAfter` |

`BarrierInv` is inductive: on the way up the counter, and what any thread has
read of it, is at most the number of threads that have counted themselves in, because
updates get lost but are never made up; on the way down it is at least the number of those
that are not out. So the full count means that all are in, and zero, after it,
that all are out.

**Only model-checked.** `Termination` and `Ends`: liveness under fairness is outside the
prover. Every other property of a passing run is a theorem for all values of the constants, with the
hypotheses given above.

## 6. What is not modelled

* `CacheManager.cpp`: opens a file and returns.
* Which routines and operands `pinatrace` instruments. Pin, an external system, decides
  it before the program runs: by the names in `userfuncs.in`, without accesses to the stack.
* `programs/quicksort.cpp`: third-party code, as its header says; its threads only create
  and join others, and share nothing but the array they divide.
* `programs/random.cpp`, `programs/testing.cpp`: no synchronisation and no decision; what
  they do is their trace, and the simulator's models cover every trace.
* `programs/bfs/bfs.cpp` and `programs/false_sharing.cpp` do not compile as they stand.
* The Pin kit under `pin/`: vendored third-party code. All of the repository's
  JavaScript is there, in the generated HTML documentation of the kit (search indices
  and navigation trees); nothing of it is part of the simulator.
* Project files, scripts and traces: data and one shell command.
* printf output; the pointer to a dead parameter that each `CacheSet` keeps
  (`Cache.cpp:21`): no method reads a member through it.

## 7. Plan

What would come next:

1. Permissions (who may read, who may write) as an abstract specification, refined by
   `Coherence` under MSI and MESI.
2. The commented traces (`traces/*comments.trace`) as expected transitions.
