------------------------------- MODULE Coherence -------------------------------
(***************************************************************************)
(* The coherence protocol of the simulator without its clock: which cache  *)
(* holds which line in which state while one job at a time is handled      *)
(* (CacheController.cpp hands out a job only when no cache is busy).  The  *)
(* replacement policy is left open, any line of the set may be the victim. *)
(* CacheController.tla, with the cycles and the LRU order, implements this *)
(* module.                                                                 *)
(*                                                                         *)
(* A block is the <<set, tag>> an address decodes to.                      *)
(***************************************************************************)
EXTENDS CoherenceProtocol

CONSTANTS Procs,    \* the processors, each with a cache of its own
          Blocks    \* the <<set, tag>> pairs that the trace touches

VARIABLES line,     \* line[c][b]: state of block b in cache c, or "absent"
          job       \* the job being handled, with the phase it is in

vars == <<line, job>>

LineState == State \cup {"absent"}
SetOf(b) == b[1]
TagOf(b) == b[2]
SameTag(b) == {d \in Blocks : TagOf(d) = TagOf(b)}

Idle == [phase |-> "idle"]
Job == [phase : {"hit", "requested", "granted"}, proc : Procs, op : {"R", "W"},
        block : Blocks, shared : BOOLEAN]

\* "hit": busy for the hit cost.  "requested": haveBusRequest, the bus has not
\* broadcast it.  "granted": broadcast, the bus is in use until busJobDone.
Begin(phase, c, op, b) ==
    [phase |-> phase, proc |-> c, op |-> op, block |-> b, shared |-> FALSE]

TypeOK ==
    /\ line \in [Procs -> [Blocks -> LineState]]
    /\ job \in Job \cup {Idle}

Init ==
    /\ line = [c \in Procs |-> [b \in Blocks |-> "absent"]]
    /\ job = Idle

-----------------------------------------------------------------------------
(***************************************************************************)
(* lineInState and setLineState look the tag of the job up in every set of *)
(* the cache, not only in the set of the job's address.                    *)
(***************************************************************************)
Held(c, b) == {line[c][d] : d \in SameTag(b)} \ {"absent"}

setLineState(c, b, s) ==
    [line EXCEPT ![c] = [d \in Blocks |->
        IF d \in SameTag(b) /\ line[c][d] # "absent" THEN s ELSE line[c][d]]]

Outcome(c, op, b) == handleRequestOutcome(op, Held(c, b))

\* A job that the cache serves by itself.
Hit(c, op, b) ==
    /\ job = Idle
    /\ Outcome(c, op, b) = "hit"
    /\ job' = Begin("hit", c, op, b)
    /\ UNCHANGED line

\* A write to an exclusive line: served by the cache, and now modified.
handleWriteExclusive(c, b) ==
    /\ job = Idle
    /\ Outcome(c, "W", b) = "exclusiveHit"
    /\ job' = Begin("hit", c, "W", b)
    /\ line' = setLineState(c, b, "modified")

\* MOESI's write to an owned line: modified at once, before the bus has told
\* the sharers.
handleWriteOwned(c, b) ==
    /\ job = Idle
    /\ Outcome(c, "W", b) = "ownedUpgrade"
    /\ job' = Begin("requested", c, "W", b)
    /\ line' = setLineState(c, b, "modified")

\* handleReadMiss and handleWriteSharedInvalid.
Miss(c, op, b) ==
    /\ job = Idle
    /\ Outcome(c, op, b) = "miss"
    /\ job' = Begin("requested", c, op, b)
    /\ UNCHANGED line

\* A hit has been served: the cache is no longer busy.
HitDone ==
    /\ job.phase = "hit"
    /\ job' = Idle
    /\ UNCHANGED line

-----------------------------------------------------------------------------
SnoopReply(o) == snoopBusRequest(commandOf(job.op), line[o][job.block])

\* Faulty: a single cache is told.
BroadcastToOne ==
    /\ job.phase = "requested"
    /\ \E told \in Procs \ {job.proc} :
          line' = [line EXCEPT ![told][job.block] = SnoopReply(told).state]
    /\ job' = [job EXCEPT !.phase = "granted",
                  !.shared = \E o \in Procs \ {job.proc} :
                                SnoopReply(o).result \in SharedReplies]

\* The bus broadcasts the request to every other cache, which snoops it.
Broadcast ==
    /\ job.phase = "requested"
    /\ line' = [o \in Procs |-> IF o = job.proc THEN line[o]
                   ELSE [line[o] EXCEPT ![job.block] = SnoopReply(o).state]]
    /\ job' = [job EXCEPT !.phase = "granted",
                  !.shared = \E o \in Procs \ {job.proc} :
                                SnoopReply(o).result \in SharedReplies]

\* The lines that may make room for the job's line: none when it is present.
Victims ==
    IF line[job.proc][job.block] # "absent" THEN {}
    ELSE {d \in Blocks \ {job.block} : SetOf(d) = SetOf(job.block)}

\* The bus is done with the request: the requester stores the line, in place
\* of at most one other line of the set.
busJobDone ==
    /\ job.phase = "granted"
    /\ \E evicted \in {{}} \cup {{d} : d \in Victims} :
          line' = [line EXCEPT ![job.proc] = [d \in Blocks |->
                      IF d = job.block THEN installedState(job.op, job.shared)
                      ELSE IF d \in evicted THEN "absent"
                      ELSE line[job.proc][d]]]
    /\ job' = Idle

Next ==
    \/ \E c \in Procs, b \in Blocks :
          \/ \E op \in {"R", "W"} : Hit(c, op, b) \/ Miss(c, op, b)
          \/ handleWriteExclusive(c, b)
          \/ handleWriteOwned(c, b)
    \/ HitDone
    \/ Broadcast
    \/ busJobDone

Spec == Init /\ [][Next]_vars

-----------------------------------------------------------------------------
(***************************************************************************)
(* Properties.                                                             *)
(***************************************************************************)

\* No tag is in use in two sets.  Only then does a search of every set for a
\* tag (lineInState) find the line that was meant.
NoTagSharing == \A a, b \in Blocks : TagOf(a) = TagOf(b) => a = b

\* Single writer or many readers: while a cache may write a block without the
\* bus (modified or exclusive), no other cache has a readable copy of it.
SWMR == \A c, d \in Procs, b \in Blocks :
           c # d /\ line[c][b] \in {"modified", "exclusive"}
              => line[d][b] \notin Readable

\* At most one cache answers for the data of a block (modified, exclusive or
\* owned), so the bus never hears of two suppliers for one request.
OneOwner == \A c, d \in Procs, b \in Blocks :
               c # d /\ line[c][b] \in Owning => line[d][b] \notin Owning

\* A hit is a hit on the line of the job's own address: a job served without
\* the bus finds that line readable in its own cache.
HitIsHeld == job.phase = "hit" => line[job.proc][job.block] \in Readable

\* What busJobDone takes for granted when it installs a line ("so we exclusive,
\* and had to get from main memory"): nobody else can read an exclusive line.
ExclusiveIsAlone == \A c, d \in Procs, b \in Blocks :
    c # d /\ line[c][b] = "exclusive" => line[d][b] \notin Readable

\* The broadcast has done its work by the time the bus is in use, and nothing
\* undoes it before busJobDone installs the line: for a write no other cache has
\* a readable copy; for a read none is left that could be written without the
\* bus, unless it is MOESI's owner, which then has answered.
BroadcastHolds ==
    job.phase = "granted" =>
        \A o \in Procs \ {job.proc} : LET s == line[o][job.block] IN
           /\ job.op = "W" => s \notin Readable
           /\ Protocol # "MOESI" => s \notin Owning
           /\ Protocol = "MESI" /\ ~job.shared => s \notin Readable
           /\ ~job.shared => s \notin Owning

\* A read goes to the bus only for a block that its cache cannot read: what
\* busJobDone overwrites is never newer than what it installs.
ReaderHasNoCopy ==
    job.phase \in {"requested", "granted"} /\ job.op = "R" =>
        line[job.proc][job.block] \notin Readable

\* Each protocol uses its own states only.
StatesOfProtocol == \A c \in Procs, b \in Blocks :
    /\ Protocol = "MSI" => line[c][b] \notin {"exclusive", "owned"}
    /\ Protocol = "MESI" => line[c][b] # "owned"

\* Tag sharing does no harm to the protocol itself in MSI, which never writes a
\* line without the bus unless it is modified, nor in MOESI, which looks for
\* invalid and shared lines before it looks for exclusive ones.  It does in MESI.
TagsAreSafe == Protocol = "MESI" => NoTagSharing

\* The inductive invariant behind the theorems of CoherenceProofs.tla: SWMR
\* follows from what the broadcast established, which the properties above do
\* not remember.
CoherenceInv ==
    /\ TypeOK
    /\ StatesOfProtocol
    /\ OneOwner
    /\ Protocol # "MOESI" => SWMR
    /\ NoTagSharing => HitIsHeld
    /\ ReaderHasNoCopy
    /\ BroadcastHolds

\* Data newer than memory has a place: in a dirty line, or with a request for
\* ownership that has been broadcast and will end in a modified line.
DirtyInCaches(b) ==
    \/ \E c \in Procs : line[c][b] \in Dirty
    \/ job.phase = "granted" /\ job.op = "W" /\ job.block = b

\* A dirty line leaves the caches only when it is evicted or when another cache
\* reads it under a protocol that flushes it (MSI and MESI; MOESI keeps an
\* owner: "we only flush when evicted").
DirtyKeptUnlessFlushed ==
    [][\A b \in Blocks : DirtyInCaches(b) /\ ~DirtyInCaches(b)' =>
          \/ \E c \in Procs : line[c][b] \in Dirty /\ line[c][b]' = "absent"
          \/ /\ Protocol # "MOESI"
             /\ job.phase = "requested" /\ job.op = "R" /\ job.block = b]_vars

=============================================================================
