----------------------- MODULE CacheControllerRefinement -----------------------
(***************************************************************************)
(* The proof that the simulator implements the protocol machine Coherence, *)
(* and what follows from it: what is proved of the machine without clock   *)
(* holds in the simulator.                                                 *)
(*                                                                         *)
(* The states of the lines are all that the protocol sees of a cache.      *)
(* View tells them for a set (CacheProofs); here every operation of a   *)
(* cache is told by what it does to the views of its sets.                 *)
(***************************************************************************)
EXTENDS CacheControllerProofs

ViewOf(k, set, t) == View(k.localCache[set], t)

\* k and r hold the same lines in the same states.
SameView(k, r) == \A set \in Sets : \A t : ViewOf(r, set, t) = ViewOf(k, set, t)

LEMMA Lines ==
    ASSUME NEW k, WellFormed(k)
    PROVE  \A set \in Sets : k.localCache[set] \in Seq(Line) /\ Sound(k.localCache[set])
BY DEF WellFormed, CacheRecord

\* What lineInState finds is what the views show.
LEMMA HeldIs ==
    ASSUME NEW k, WellFormed(k), NEW t
    PROVE  Held(k, t) = {ViewOf(k, set, t) : set \in Sets} \ {"absent"}
<1>1. \A i \in Sets : hasLine(k.localCache[i], t) <=> ViewOf(k, i, t) # "absent"
  BY Lines, ViewIs DEF ViewOf
<1>2. \A i \in Sets : hasLine(k.localCache[i], t) =>
         getLine(k.localCache[i], t).state = ViewOf(k, i, t)
  BY DEF ViewOf, View
<1> DEFINE S == {ViewOf(k, set, t) : set \in Sets} \ {"absent"}
<1>3. ASSUME NEW x \in Held(k, t)  PROVE x \in S
  <2>1. PICK i \in Sets : hasLine(k.localCache[i], t) /\ x = ViewOf(k, i, t)
    BY <1>2, <1>3 DEF Held
  <2>2. x # "absent"
    BY <1>1, <2>1
  <2> QED  BY <2>1, <2>2
<1>4. ASSUME NEW x \in S  PROVE x \in Held(k, t)
  <2>1. PICK i \in Sets : x = ViewOf(k, i, t) /\ x # "absent"
    BY <1>4
  <2>2. hasLine(k.localCache[i], t) /\ x = getLine(k.localCache[i], t).state
    BY <1>1, <1>2, <2>1
  <2> QED  BY <2>2 DEF Held
<1> QED  BY <1>3, <1>4

LEMMA LookedUpView ==
    ASSUME NEW k, WellFormed(k), NEW t, cycles \in Nat
    PROVE  SameView(k, lookedUp(k, t))
<1> DEFINE lines == [i \in Sets |-> touched(k.localCache[i], t, cycles)]
<1>1. lookedUp(k, t) = [k EXCEPT !.localCache = lines]
  BY DEF lookedUp
<1>2. \A i \in Sets : \A u : View(lines[i], u) = View(k.localCache[i], u)
  BY Lines, ViewTouched
<1> HIDE DEF lines
<1>3. lookedUp(k, t).localCache = lines
  BY <1>1 DEF WellFormed, CacheRecord
<1> QED  BY <1>2, <1>3 DEF SameView, ViewOf

LEMMA SetLineStateView ==
    ASSUME NEW k, WellFormed(k), NEW t, NEW x \in State
    PROVE  \A set \in Sets : \A u :
              ViewOf(setLineState(k, t, x), set, u) =
                 IF u = t /\ ViewOf(k, set, t) # "absent" THEN x ELSE ViewOf(k, set, u)
<1> DEFINE lines == [i \in Sets |-> setState(k.localCache[i], t, x)]
<1>1. setLineState(k, t, x) = [k EXCEPT !.localCache = lines]
  BY DEF setLineState
<1>2. \A i \in Sets : \A u : View(lines[i], u) =
         IF u = t /\ View(k.localCache[i], t) # "absent" THEN x ELSE View(k.localCache[i], u)
  BY Lines, ViewSetState
<1> HIDE DEF lines
<1>3. setLineState(k, t, x).localCache = lines
  BY <1>1 DEF WellFormed, CacheRecord
<1> QED  BY <1>2, <1>3 DEF ViewOf

LEMMA FinishedView ==
    ASSUME NEW k, WellFormed(k), cycles \in Nat
    PROVE  SameView(k, finished(k))
<1> DEFINE u == updateCurrentJobLineCycle(k)
<1>1. WellFormed(u) /\ SameView(k, u)
  BY LookedUpKeeps, LookedUpView DEF updateCurrentJobLineCycle, SameView
<1>2. finished(k) = [u EXCEPT !.busy = FALSE] \/ finished(k) = k
  BY DEF finished
<1> HIDE DEF u
<1>3. [u EXCEPT !.busy = FALSE].localCache = u.localCache
  BY <1>1 DEF WellFormed, CacheRecord
<1> QED  BY <1>1, <1>2, <1>3 DEF SameView, ViewOf

LEMMA NextJobView ==
    ASSUME NEW k, WellFormed(k)
    PROVE  SameView(k, nextJob(k))
BY DEF WellFormed, CacheRecord, nextJob, SameView, ViewOf

\* What busJobDone does to the set: the line is there in its new state, and one
\* other line at most, and only if there was no such line, has gone.
LEMMA StoredInView ==
    ASSUME NEW k, WellFormed(k), k.currentJob # NULL, k.currentJob.op \in {"R", "W"},
           NEW isShared \in BOOLEAN, cycles \in Nat
    PROVE  \E gone : /\ gone = {} \/ (/\ View(SetOfJob(k), TagOfJob(k)) = "absent"
                                      /\ \E g : gone = {g} /\ g # TagOfJob(k)
                                                /\ View(SetOfJob(k), g) # "absent")
                     /\ \A u : View(storedIn(k, isShared), u) =
                           IF u = TagOfJob(k) THEN installedState(k.currentJob.op, isShared)
                           ELSE IF u \in gone THEN "absent" ELSE View(SetOfJob(k), u)
<1> DEFINE s == SetOfJob(k)
           t == TagOfJob(k)
           room == IF isFull(s) /\ ~hasLine(s, t) THEN evictLRULine(s) ELSE s
           with == IF hasLine(room, t) THEN room ELSE addLine(room, CacheLine(t))
           state == installedState(k.currentJob.op, isShared)
<1>1. s \in Seq(Line) /\ Sound(s) /\ t \in Tags /\ state \in State
  BY JobParts, InstalledState
<1>2. storedIn(k, isShared) = setState(touched(with, t, cycles), t, state)
  BY DEF storedIn
<1> HIDE DEF s, t, state
\* What remains to be shown is about the set with the line, before its state is set.
<1>3. ASSUME NEW gone, with \in Seq(Line), Sound(with), View(with, t) # "absent",
             gone = {} \/ (View(s, t) = "absent" /\ \E g : gone = {g} /\ g # t
                                                           /\ View(s, g) # "absent"),
             \A u : u # t => View(with, u) = IF u \in gone THEN "absent" ELSE View(s, u)
      PROVE  \A u : View(storedIn(k, isShared), u) =
                IF u = t THEN state ELSE IF u \in gone THEN "absent" ELSE View(s, u)
  <2> HIDE DEF with
  <2>1. /\ touched(with, t, cycles) \in Seq(Line) /\ Sound(touched(with, t, cycles))
        /\ \A u : View(touched(with, t, cycles), u) = View(with, u)
    BY <1>3, TouchedKeeps, SameTagsSound, ViewTouched
  <2>2. \A u : View(storedIn(k, isShared), u) = IF u = t THEN state ELSE View(with, u)
    BY <1>1, <1>2, <1>3, <2>1, ViewSetState
  <2> QED  BY <1>3, <2>2
<1>4. CASE hasLine(s, t)
  <2>1. with = s
    BY <1>4
  <2>2. View(s, t) # "absent"
    BY <1>1, <1>4, ViewIs
  <2> DEFINE gone == {}
  <2>3. gone = {} /\ \A u : u \notin gone
    OBVIOUS
  <2> HIDE DEF gone
  <2>4. \A u : View(storedIn(k, isShared), u) =
          IF u = t THEN state ELSE IF u \in gone THEN "absent" ELSE View(s, u)
    BY <1>1, <1>3, <2>1, <2>2, <2>3
  <2> QED  BY <2>3, <2>4 DEF s, t, state
<1>5. CASE ~hasLine(s, t)
  <2> DEFINE e == IF Len(s) = NumLinesInSet THEN evictLRULine(s) ELSE s
             l == CacheLine(t)
  <2>1. View(s, t) = "absent" /\ Len(s) \in Nat /\ Len(s) <= NumLinesInSet
    BY <1>1, <1>5, ViewIs DEF Sound
  <2>2. Len(s) = NumLinesInSet => s # <<>>
    BY SizesAssumption
  <2>3. e \in Seq(Line) /\ Sound(e) /\ Len(e) < NumLinesInSet /\ ~hasLine(e, t)
    BY <1>1, <1>5, <2>1, <2>2, EvictKeeps, SizesAssumption
  <2>4. with = Append(e, l)
    <3>1. l.tag = t
      BY DEF CacheLine
    <3>2. CASE isFull(s)
      <4>1. Len(s) = NumLinesInSet
        BY <2>1, <3>2, SizesAssumption DEF isFull
      <4>2. room = e
        BY <1>5, <3>2, <4>1
      <4> HIDE DEF e, room
      <4>3. Len(e) # NumLinesInSet
        BY <2>3, SizesAssumption
      <4> QED  BY <2>3, <4>2, <4>3 DEF addLine
    <3>3. CASE ~isFull(s)
      <4>1. room = s
        BY <3>3
      <4> QED  BY <1>5, <4>1 DEF addLine
    <3> QED  BY <3>2, <3>3
  <2>5. l \in Line /\ l.tag = t /\ l.state = "invalid"
    BY <1>1, NewLine DEF CacheLine
  <2>6. PICK gone : /\ gone = {} \/ \E g : gone = {g} /\ g # t /\ View(s, g) # "absent"
                    /\ \A u : View(e, u) = IF u \in gone THEN "absent" ELSE View(s, u)
    <3>1. CASE Len(s) = NumLinesInSet
      <4>1. PICK g : /\ View(s, g) # "absent"
                     /\ \A u : View(evictLRULine(s), u) =
                                  IF u = g THEN "absent" ELSE View(s, u)
        BY <1>1, <2>2, <3>1, ViewEvict
      <4>2. e = evictLRULine(s)
        BY <3>1
      <4> HIDE DEF e
      <4>3. \A u : View(e, u) = IF u \in {g} THEN "absent" ELSE View(s, u)
        BY <4>1, <4>2
      <4>4. g # t
        BY <2>1, <4>1
      <4> QED  BY <4>1, <4>3, <4>4
    <3>2. CASE Len(s) # NumLinesInSet
      <4>1. \A u : View(e, u) = IF u \in {} THEN "absent" ELSE View(s, u)
        BY <3>2
      <4> QED  BY <4>1
    <3> QED  BY <3>1, <3>2
  <2> HIDE DEF e, l, with
  <2>7. /\ with \in Seq(Line) /\ Sound(with)
        /\ \A u : View(with, u) = IF u = t THEN "invalid" ELSE View(e, u)
    BY <2>3, <2>4, <2>5, ViewAppend
  <2>8. /\ View(with, t) # "absent"
        /\ \A u : u # t => View(with, u) = IF u \in gone THEN "absent" ELSE View(s, u)
    BY <2>6, <2>7
  <2>9. \A u : View(storedIn(k, isShared), u) =
          IF u = t THEN state ELSE IF u \in gone THEN "absent" ELSE View(s, u)
    BY <1>3, <2>1, <2>6, <2>7, <2>8
  <2> QED  BY <2>1, <2>6, <2>9 DEF s, t, state
<1> QED  BY <1>4, <1>5
-----------------------------------------------------------------------------
(***************************************************************************)
(* How a job starts.                                                       *)
(***************************************************************************)
\* r is k with every line of its job's tag made modified.
Modified(k, r) ==
    \A set \in Sets : \A u : ViewOf(r, set, u) =
        IF u = TagOfJob(k) /\ ViewOf(k, set, TagOfJob(k)) # "absent"
        THEN "modified" ELSE ViewOf(k, set, u)

CommandFits(k) == k.haveBusRequest => k.busRequest.command = commandOf(k.currentJob.op)

\* r is what the cache k makes of its new job, a read or a write.
Started(k, r) ==
    /\ r.busy /\ r.currentJob = k.currentJob /\ CommandFits(r)
    /\ r.busRequestBeingServiced = k.busRequestBeingServiced
    /\ \/ outcomeOf(k) = "hit" /\ SameView(k, r) /\ ~r.haveBusRequest
       \/ /\ outcomeOf(k) = "exclusiveHit" /\ k.currentJob.op = "W"
          /\ Modified(k, r) /\ ~r.haveBusRequest
       \/ /\ outcomeOf(k) = "ownedUpgrade" /\ k.currentJob.op = "W"
          /\ Modified(k, r) /\ r.haveBusRequest
       \/ outcomeOf(k) = "miss" /\ SameView(k, r) /\ r.haveBusRequest

LEMMA OnlyWritesUpgrade ==
    ASSUME NEW held, NEW op, handleRequestOutcome(op, held) \in {"exclusiveHit", "ownedUpgrade"}
    PROVE  op = "W"
BY ProtocolAssumption DEF handleRequestOutcome, readOutcome

\* To be served or to ask changes no line.
LEMMA TakenOnView ==
    ASSUME NEW k, NEW u, WellFormed(u), SameView(k, u), SameButLines(k, u), NEW command, NEW cost
    PROVE  /\ SameView(k, served(u)) /\ served(u).busy /\ ~served(u).haveBusRequest
           /\ served(u).currentJob = k.currentJob
           /\ served(u).busRequestBeingServiced = k.busRequestBeingServiced
           /\ SameView(k, asked(u, command, cost)) /\ asked(u, command, cost).busy
           /\ asked(u, command, cost).haveBusRequest
           /\ asked(u, command, cost).currentJob = k.currentJob
           /\ asked(u, command, cost).busRequest.command = command
           /\ asked(u, command, cost).busRequestBeingServiced = k.busRequestBeingServiced
<1>1. u \in CacheRecord
  BY DEF WellFormed
<1>2. /\ served(u).localCache = u.localCache /\ served(u).busy /\ ~served(u).haveBusRequest
      /\ served(u).currentJob = u.currentJob
      /\ served(u).busRequestBeingServiced = u.busRequestBeingServiced
  BY <1>1 DEF CacheRecord, served
<1> DEFINE request == [command |-> command, block |-> u.currentJob.block, cycleCost |-> cost]
<1>3. asked(u, command, cost) =
        [u EXCEPT !.busy = TRUE, !.haveBusRequest = TRUE, !.jobCycleCost = cost,
                  !.busRequest = request]
  BY DEF asked
<1>4. request.command = command
  OBVIOUS
<1> DEFINE r == asked(u, command, cost)
<1> HIDE DEF request
<1>5. /\ r.localCache = u.localCache /\ r.busy /\ r.haveBusRequest
      /\ r.currentJob = u.currentJob /\ r.busRequest = request
      /\ r.busRequestBeingServiced = u.busRequestBeingServiced
  BY <1>1, <1>3 DEF CacheRecord
<1> HIDE DEF r
<1>6. /\ SameView(k, served(u)) /\ SameView(k, r)
  BY <1>2, <1>5 DEF SameView, ViewOf
<1> QED  BY <1>2, <1>4, <1>5, <1>6 DEF SameButLines, r

LEMMA SetModified ==
    ASSUME NEW k, NEW a, WellFormed(a), SameView(k, a), NEW t, t = TagOfJob(k)
    PROVE  Modified(k, setLineState(a, t, "modified"))
<1>1. "modified" \in State
  BY DEF State
<1>2. \A set \in Sets : \A u :
         ViewOf(setLineState(a, t, "modified"), set, u) =
            IF u = t /\ ViewOf(a, set, t) # "absent" THEN "modified" ELSE ViewOf(a, set, u)
  BY <1>1, SetLineStateView
<1> QED  BY <1>2 DEF Modified, SameView

LEMMA HandleRequestStarts ==
    ASSUME NEW k, WellFormed(k), k.currentJob # NULL, cycles \in Nat,
           k.currentJob.op \in {"R", "W"}
    PROVE  Started(k, handleRequest(k))
<1> DEFINE t == TagOfJob(k)
           u == lookedUp(k, t)
           o == outcomeOf(k)
           r == handleRequest(k)
<1>1. WellFormed(u) /\ SameButLines(k, u) /\ SameView(k, u)
  BY LookedUpKeeps, LookedUpView
<1>2. u.currentJob # NULL
  BY <1>1 DEF SameButLines
<1>3. /\ o \in {"hit", "exclusiveHit", "ownedUpgrade", "miss"}
      /\ o \in {"exclusiveHit", "ownedUpgrade"} => k.currentJob.op = "W"
  BY Outcomes, OnlyWritesUpgrade DEF outcomeOf
<1> HIDE DEF u, o
<1>4. CASE o = "hit"
  <2>1. handleRequest(k) = served(u)
    BY <1>4 DEF handleRequest, u, o
  <2> QED  BY <1>1, <1>4, <2>1, TakenOnView DEF Started, CommandFits, o
<1>5. CASE o = "exclusiveHit"
  <2> DEFINE a == served(u)
  <2>1. handleRequest(k) = setLineState(a, t, "modified")
    BY <1>5 DEF handleRequest, u, o
  <2>2. WellFormed(a)
    BY <1>1, ServedKeeps
  <2>3. /\ SameView(k, a) /\ a.busy /\ ~a.haveBusRequest /\ a.currentJob = k.currentJob
        /\ a.busRequestBeingServiced = k.busRequestBeingServiced
    BY <1>1, TakenOnView
  <2> HIDE DEF a
  <2>4. SameButLines(a, r) /\ Modified(k, r)
    BY <2>1, <2>2, <2>3, SetLineStateKeeps, SetModified DEF State
  <2> QED  BY <1>3, <1>5, <2>3, <2>4 DEF Started, CommandFits, SameButLines, o
<1>6. CASE o = "ownedUpgrade"
  <2> DEFINE a == asked(u, "BusRdX", CacheHitCycleCost)
  <2>1. handleRequest(k) = setLineState(a, t, "modified")
    BY <1>6 DEF handleRequest, u, o
  <2>2. WellFormed(a)
    BY <1>1, <1>2, AskedKeeps, CostsAssumption DEF Command
  <2>3. /\ SameView(k, a) /\ a.busy /\ a.haveBusRequest /\ a.currentJob = k.currentJob
        /\ a.busRequest.command = "BusRdX"
        /\ a.busRequestBeingServiced = k.busRequestBeingServiced
    BY <1>1, TakenOnView
  <2> HIDE DEF a
  <2>4. SameButLines(a, r) /\ Modified(k, r)
    BY <2>1, <2>2, <2>3, SetLineStateKeeps, SetModified DEF State
  <2> QED  BY <1>3, <1>6, <2>3, <2>4 DEF Started, CommandFits, SameButLines, commandOf, o
<1>7. CASE o = "miss"
  <2>1. PICK command, cost : /\ handleRequest(k) = asked(u, command, cost)
                             /\ command = commandOf(k.currentJob.op)
    <3>1. CASE k.currentJob.op = "W"
      BY <1>7, <3>1 DEF handleRequest, u, o, commandOf
    <3>2. CASE k.currentJob.op = "R"
      BY <1>7, <3>2 DEF handleRequest, u, o, commandOf
    <3> QED  BY <3>1, <3>2
  <2> QED  BY <1>1, <1>7, <2>1, TakenOnView DEF Started, CommandFits, o
<1> QED  BY <1>3, <1>4, <1>5, <1>6, <1>7

\* What a cache makes of its turn: the job it may take on, as it is queued.
LEMMA TickedJob ==
    ASSUME NEW c, WellFormed(c), Flags(c), cycles \in Nat, ~c.haveBusRequest
    PROVE  LET k == finished(c)
               n == nextJob(k)
               starts == ~k.busy /\ k.pendingJobs # <<>>
           IN  /\ SameView(c, k) /\ k.pendingJobs = c.pendingJobs
               /\ k.currentJob = c.currentJob /\ ~k.haveBusRequest /\ (k.busy => c.busy)
               /\ Ticked(c) = IF starts THEN handleRequest(n) ELSE k
               /\ starts => /\ WellFormed(n) /\ SameView(c, n)
                            /\ n.currentJob = Head(c.pendingJobs) /\ n.currentJob # NULL
                            /\ ~n.busy /\ ~n.haveBusRequest
                            /\ ~n.busRequestBeingServiced
<1> DEFINE k == finished(c)
           n == nextJob(k)
<1>1. /\ WellFormed(k) /\ SameView(c, k) /\ (k.busy => c.busy)
      /\ k.pendingJobs = c.pendingJobs /\ k.currentJob = c.currentJob
      /\ ~k.haveBusRequest /\ ~k.busRequestBeingServiced
  <2>1. k \in CacheRecord
    BY FinishedKeeps DEF WellFormed
  <2> HIDE DEF k
  <2>2. /\ [k EXCEPT !.busy = c.busy].pendingJobs = k.pendingJobs
        /\ [k EXCEPT !.busy = c.busy].currentJob = k.currentJob
        /\ [k EXCEPT !.busy = c.busy].haveBusRequest = k.haveBusRequest
        /\ [k EXCEPT !.busy = c.busy].busRequestBeingServiced = k.busRequestBeingServiced
    BY <2>1 DEF CacheRecord
  <2> QED  BY <2>2, FinishedKeeps, FinishedView DEF SameButLines, Flags, k
<1>2. Ticked(c) = IF ~k.busy /\ k.pendingJobs # <<>> THEN handleRequest(n) ELSE k
  BY DEF Ticked
<1> HIDE DEF k
<1>3. ASSUME ~k.busy, k.pendingJobs # <<>>
      PROVE  /\ WellFormed(n) /\ SameView(c, n)
             /\ n.currentJob = Head(c.pendingJobs) /\ n.currentJob # NULL
             /\ ~n.busy /\ ~n.haveBusRequest /\ ~n.busRequestBeingServiced
  <2>1. SameView(c, n)
    BY <1>1, NextJobView DEF SameView
  <2>2. n.currentJob = Head(k.pendingJobs)
    BY <1>1 DEF nextJob, WellFormed, CacheRecord
  <2> QED  BY <1>1, <1>3, <2>1, <2>2, NextJobKeeps
<1> QED  BY <1>1, <1>2, <1>3 DEF k

\* A cache's turn: it starts a job, or its lines stay as they are and a hit may end.
LEMMA TickedSteps ==
    ASSUME NEW c, WellFormed(c), Flags(c), cycles \in Nat, ~c.haveBusRequest,
           Len(c.pendingJobs) <= 1, c.busy => c.pendingJobs = <<>>
    PROVE  \/ /\ SameView(c, Ticked(c)) /\ ~Ticked(c).haveBusRequest
              /\ Ticked(c).busy => c.busy /\ Ticked(c).currentJob = c.currentJob
           \/ /\ ~c.busy /\ c.pendingJobs # <<>>
              /\ \E n : /\ WellFormed(n) /\ SameView(c, n)
                        /\ n.currentJob # NULL /\ n.currentJob.op \in {"R", "W"}
                        /\ ~n.busRequestBeingServiced
                        /\ Started(n, Ticked(c))
<1> DEFINE k == finished(c)
           n == nextJob(k)
           starts == ~k.busy /\ k.pendingJobs # <<>>
<1>1. /\ SameView(c, k) /\ k.pendingJobs = c.pendingJobs
      /\ k.currentJob = c.currentJob /\ ~k.haveBusRequest /\ (k.busy => c.busy)
      /\ Ticked(c) = IF starts THEN handleRequest(n) ELSE k
      /\ starts => /\ WellFormed(n) /\ SameView(c, n) /\ n.currentJob # NULL
                   /\ ~n.busy /\ ~n.haveBusRequest /\ ~n.busRequestBeingServiced
  BY TickedJob
<1> HIDE DEF k, n
<1>2. CASE starts /\ n.currentJob.op \in {"R", "W"}
  BY <1>1, <1>2, HandleRequestStarts
<1>3. CASE starts /\ n.currentJob.op \notin {"R", "W"}
  <2>1. outcomeOf(n) = "ignored"
    BY <1>3, Outcomes DEF outcomeOf
  <2>2. handleRequest(n) = n
    BY <2>1 DEF handleRequest
  <2> QED  BY <1>1, <1>3, <2>2
<1>4. CASE ~starts
  BY <1>1, <1>4
<1> QED  BY <1>2, <1>3, <1>4

-----------------------------------------------------------------------------
(***************************************************************************)
(* The refinement mapping, as operators on the caches.                     *)
(***************************************************************************)
LineView(cs) == [i \in Caches |-> [b \in Blocks |-> ViewOf(cs[i], SetOf(b), TagOf(b))]]

BusyIn(cs) == {i \in Caches : cs[i].busy}

PhaseOf(k) == IF ~k.haveBusRequest THEN "hit"
              ELSE IF ~k.busRequestBeingServiced THEN "requested" ELSE "granted"

JobOf(k, i, shared) ==
    [phase |-> PhaseOf(k), proc |-> i, op |-> k.currentJob.op,
     block |-> k.currentJob.block, shared |-> shared]

JobView(cs, shared) ==
    IF BusyIn(cs) = {} THEN [phase |-> "idle"]
    ELSE JobOf(cs[Min(BusyIn(cs))], Min(BusyIn(cs)), shared)

LEMMA Mapped ==
    /\ lineView = LineView(cache) /\ lineView' = LineView(cache')
    /\ jobView = JobView(cache, bus.isShared) /\ jobView' = JobView(cache', bus'.isShared)
<1>1. lineView = LineView(cache) /\ lineView' = LineView(cache')
  BY DEF lineView, LineView, ViewOf, View
<1>2. jobView = JobView(cache, bus.isShared)
  BY DEF jobView, JobView, JobOf, PhaseOf, Busy, BusyIn
<1>3. jobView' = JobView(cache', bus'.isShared)
  BY DEF jobView, JobView, JobOf, PhaseOf, Busy, BusyIn
<1> QED  BY <1>1, <1>2, <1>3

LEMMA NoJobMapped ==
    ASSUME NEW cs, \A i \in Caches : ~cs[i].busy
    PROVE  \A shared : JobView(cs, shared) = Coh!Idle
BY DEF JobView, BusyIn, Coh!Idle

\* Cache i is the only one that is busy.
OnlyBusy(cs, i) == i \in Caches /\ cs[i].busy /\ \A j \in Caches : cs[j].busy => j = i

LEMMA JobMapped ==
    ASSUME NEW cs, NEW i, OnlyBusy(cs, i)
    PROVE  \A shared : JobView(cs, shared) = JobOf(cs[i], i, shared)
<1>1. BusyIn(cs) = {i} /\ BusyIn(cs) \in SUBSET Caches
  BY DEF BusyIn, OnlyBusy
<1>2. Min(BusyIn(cs)) = i
  BY <1>1, FirstCache
<1> QED  BY <1>1, <1>2 DEF JobView

LEMMA SameLineView ==
    ASSUME NEW cs, NEW ds, \A i \in Caches : SameView(cs[i], ds[i])
    PROVE  LineView(ds) = LineView(cs)
<1>1. \A b \in Blocks : SetOf(b) \in Sets
  BY BlockParts
<1> QED  BY <1>1 DEF LineView, SameView

\* Blocks are told apart by their set and tag.
LEMMA BlockIs == \A b \in Blocks : b = <<SetOf(b), TagOf(b)>>
BY BlocksAssumption DEF SetOf, TagOf

-----------------------------------------------------------------------------
(***************************************************************************)
(* The decision tables of Coherence are those of the caches and the bus.   *)
(***************************************************************************)
LEMMA SameOutcome == \A op, held :
    Coh!handleRequestOutcome(op, held) = handleRequestOutcome(op, held)
BY DEF Coh!handleRequestOutcome, handleRequestOutcome, Coh!readOutcome, readOutcome,
       Coh!writeOutcome, writeOutcome, Coh!Readable, Readable, Coh!State, State

LEMMA SameSnoop == \A command, x :
    Coh!snoopBusRequest(command, x) = snoopBusRequest(command, x)
<1> USE DEF Coh!Reply, Reply
<1> SUFFICES ASSUME NEW command, NEW x
             PROVE  Coh!snoopBusRequest(command, x) = snoopBusRequest(command, x)
  OBVIOUS
<1>1. /\ Coh!handleBusRdMSI(x) = handleBusRdMSI(x)
      /\ Coh!handleBusRdXMSI(x) = handleBusRdXMSI(x)
  BY DEF Coh!handleBusRdMSI, handleBusRdMSI, Coh!handleBusRdXMSI, handleBusRdXMSI
<1>2. /\ Coh!handleBusRdMESI(x) = handleBusRdMESI(x)
      /\ Coh!handleBusRdXMESI(x) = handleBusRdXMESI(x)
  BY DEF Coh!handleBusRdMESI, handleBusRdMESI, Coh!handleBusRdXMESI, handleBusRdXMESI
<1>3. /\ Coh!handleBusRdMOESI(x) = handleBusRdMOESI(x)
      /\ Coh!handleBusRdXMOESI(x) = handleBusRdXMOESI(x)
  BY DEF Coh!handleBusRdMOESI, handleBusRdMOESI, Coh!handleBusRdXMOESI, handleBusRdXMOESI
<1> QED  BY <1>1, <1>2, <1>3, ProtocolAssumption DEF Coh!snoopBusRequest, snoopBusRequest

LEMMA SameInstalled == \A isShared : \A op \in {"R", "W"} :
    Coh!installedState(op, isShared) = installedState(op, isShared)
BY DEF Coh!installedState, installedState

LEMMA SameShared ==
    /\ Coh!SharedReplies = SharedReplies
    /\ \A op : Coh!commandOf(op) = commandOf(op)
BY ProtocolAssumption DEF Coh!SharedReplies, SharedReplies, Coh!commandOf, commandOf

\* No protocol does anything to a line that is not there, nor answers for it.
LEMMA AbsentIsSilent ==
    ASSUME NEW command
    PROVE  snoopBusRequest(command, "absent") = Reply("NONE", "absent")
           /\ "NONE" \notin SharedReplies
<1>1. /\ handleBusRdMSI("absent") = Reply("NONE", "absent")
      /\ handleBusRdXMSI("absent") = Reply("NONE", "absent")
      /\ handleBusRdMESI("absent") = Reply("NONE", "absent")
      /\ handleBusRdXMESI("absent") = Reply("NONE", "absent")
      /\ handleBusRdMOESI("absent") = Reply("NONE", "absent")
      /\ handleBusRdXMOESI("absent") = Reply("NONE", "absent")
  BY DEF handleBusRdMSI, handleBusRdXMSI, handleBusRdMESI, handleBusRdXMESI,
         handleBusRdMOESI, handleBusRdXMOESI
<1> QED  BY <1>1, ProtocolAssumption DEF snoopBusRequest, SharedReplies

-----------------------------------------------------------------------------
(***************************************************************************)
(* What has to be known beyond Inv.                                        *)
(***************************************************************************)
\* A cache has lines of the blocks of the trace only, where they belong.
OnlyBlocks(k) == \A set \in Sets : \A t : ViewOf(k, set, t) # "absent" => <<set, t>> \in Blocks

RefInv ==
    /\ Inv
    /\ bus.isShared => bus.inUse
    /\ \A i \in Caches : CommandFits(cache[i]) /\ OnlyBlocks(cache[i])

LEMMA SameViewKeeps ==
    ASSUME NEW k, NEW r, OnlyBlocks(k), SameView(k, r) \/ Modified(k, r)
    PROVE  OnlyBlocks(r)
BY DEF OnlyBlocks, SameView, Modified

\* The states that lineInState finds, in the protocol machine's terms.
LEMMA SameHeld ==
    ASSUME NEW k, WellFormed(k), OnlyBlocks(k), NEW b \in Blocks,
           NEW line, line = [d \in Blocks |-> ViewOf(k, SetOf(d), TagOf(d))]
    PROVE  Held(k, TagOf(b)) = {line[d] : d \in Coh!SameTag(b)} \ {"absent"}
<1> DEFINE t == TagOf(b)
           S == {line[d] : d \in Coh!SameTag(b)} \ {"absent"}
<1>1. \A i \in Sets : hasLine(k.localCache[i], t) <=> ViewOf(k, i, t) # "absent"
  BY Lines, ViewIs DEF ViewOf
<1>2. \A i \in Sets : hasLine(k.localCache[i], t) =>
         getLine(k.localCache[i], t).state = ViewOf(k, i, t)
  BY DEF ViewOf, View
<1>3. \A d : d \in Coh!SameTag(b) <=> d \in Blocks /\ TagOf(d) = t
  BY DEF Coh!SameTag, Coh!TagOf, TagOf
<1>4. ASSUME NEW x \in Held(k, t)  PROVE x \in S
  <2>1. PICK i \in Sets : hasLine(k.localCache[i], t) /\ x = ViewOf(k, i, t)
    BY <1>2, <1>4 DEF Held
  <2>2. <<i, t>> \in Blocks /\ SetOf(<<i, t>>) = i /\ TagOf(<<i, t>>) = t /\ x # "absent"
    BY <1>1, <2>1 DEF OnlyBlocks, SetOf, TagOf
  <2>3. <<i, t>> \in Coh!SameTag(b) /\ line[<<i, t>>] = x
    BY <1>3, <2>1, <2>2
  <2> QED  BY <2>2, <2>3
<1>5. ASSUME NEW x \in S  PROVE x \in Held(k, t)
  <2>1. PICK d \in Blocks : TagOf(d) = t /\ x = ViewOf(k, SetOf(d), t) /\ x # "absent"
    BY <1>3, <1>5
  <2>2. SetOf(d) \in Sets
    BY BlockParts
  <2>3. hasLine(k.localCache[SetOf(d)], t)
        /\ x = getLine(k.localCache[SetOf(d)], t).state
    BY <1>1, <1>2, <2>1, <2>2
  <2> QED  BY <2>2, <2>3 DEF Held
<1> QED  BY <1>4, <1>5
-----------------------------------------------------------------------------
(***************************************************************************)
(* A cache's turn.                                                         *)
(***************************************************************************)
AllModified(line, i, b) ==
    [line EXCEPT ![i] = [d \in Blocks |->
        IF d \in Coh!SameTag(b) /\ line[i][d] # "absent" THEN "modified" ELSE line[i][d]]]

LEMMA ModifiedLineView ==
    ASSUME NEW cs, NEW i \in Caches, NEW n, NEW r, NEW b \in Blocks, TagOfJob(n) = TagOf(b),
           SameView(cs[i], n), Modified(n, r),
           NEW ds, \A j \in Caches : ds[j] = IF j = i THEN r ELSE cs[j]
    PROVE  LineView(ds) = AllModified(LineView(cs), i, b)
<1> DEFINE line == LineView(cs)
           new == [d \in Blocks |-> IF d \in Coh!SameTag(b) /\ line[i][d] # "absent"
                                    THEN "modified" ELSE line[i][d]]
<1>1. \A d : d \in Coh!SameTag(b) <=> d \in Blocks /\ TagOf(d) = TagOf(b)
  BY DEF Coh!SameTag, Coh!TagOf, TagOf
<1>2. \A d \in Blocks : line[i][d] = ViewOf(n, SetOf(d), TagOf(d))
  BY BlockParts DEF LineView, SameView
<1>3. \A d \in Blocks : ViewOf(r, SetOf(d), TagOf(d)) = new[d]
  <2> SUFFICES ASSUME NEW d \in Blocks  PROVE ViewOf(r, SetOf(d), TagOf(d)) = new[d]
    OBVIOUS
  <2>1. SetOf(d) \in Sets
    BY BlockParts
  <2>2. ViewOf(r, SetOf(d), TagOf(d)) =
          IF TagOf(d) = TagOf(b) /\ ViewOf(n, SetOf(d), TagOf(b)) # "absent"
          THEN "modified" ELSE ViewOf(n, SetOf(d), TagOf(d))
    BY <2>1 DEF Modified
  <2> HIDE DEF line
  <2>3. new[d] = IF TagOf(d) = TagOf(b) /\ line[i][d] # "absent"
                 THEN "modified" ELSE line[i][d]
    BY <1>1
  <2> QED  BY <1>2, <2>2, <2>3
<1>4. ds[i] = r /\ \A j \in Caches : j # i => ds[j] = cs[j]
  OBVIOUS
<1>5. LineView(ds)[i] = new
  BY <1>3, <1>4 DEF LineView
<1> HIDE DEF new
<1>6. LineView(ds) = [line EXCEPT ![i] = new]
  BY <1>4, <1>5 DEF LineView
<1> QED  BY <1>6 DEF new, AllModified

LEMMA CacheTurnRefines ==
    ASSUME RefInv, CacheTurn
    PROVE  /\ Coh!Next \/ UNCHANGED <<lineView, jobView>>
           /\ (\A i \in Caches : CommandFits(cache[i]) /\ OnlyBlocks(cache[i]))'
           /\ UNCHANGED bus
<1> DEFINE c == cache[turn]
           r == Ticked(c)
<1>1. /\ turn \in Caches /\ CacheTick(turn) /\ bus' = bus
      /\ cache \in [Caches -> CacheRecord] /\ stats \in [Counters -> Nat]
      /\ cycles \in Nat /\ \A i \in Caches : WellFormed(cache[i])
      /\ \A i \in Caches : Flags(cache[i]) /\ CommandFits(cache[i]) /\ OnlyBlocks(cache[i])
      /\ \A i \in Caches : cache[i].busy \/ cache[i].pendingJobs # <<>> =>
            \A j \in Caches \ {i} : ~cache[j].busy
      /\ BusServes /\ (bus.isShared => bus.inUse)
  BY DEF RefInv, Inv, TypeOK, CacheTurn, AllWellFormed, ControlInv, OneJobAtATime
<1>2. cache' = IF c.busRequestBeingServiced THEN cache ELSE [cache EXCEPT ![turn] = r]
  BY <1>1, CacheTickStep
<1>3. CASE c.busRequestBeingServiced
  <2>1. UNCHANGED <<cache, bus>>
    BY <1>1, <1>2, <1>3
  <2>2. UNCHANGED <<lineView, jobView>>
    BY <2>1, Mapped
  <2> QED  BY <1>1, <2>1, <2>2
<1>4. ASSUME ~c.busRequestBeingServiced
      PROVE  /\ ~c.haveBusRequest /\ Len(c.pendingJobs) <= 1
             /\ c.busy => c.pendingJobs = <<>>
  <2>1. ~(turn < turn) /\ phase = "caches"
    BY <1>1 DEF Caches, CacheTurn
  <2> QED  BY <1>1, <1>4, <2>1 DEF RefInv, Inv, ControlInv, OneJobAtATime, PickedUp
<1>5. ~c.busRequestBeingServiced => cache' = [cache EXCEPT ![turn] = r]
  BY <1>2
<1>6. ~c.busRequestBeingServiced =>
         \A i \in Caches : cache'[i] = IF i = turn THEN r ELSE cache[i]
  BY <1>1, <1>5
<1> HIDE DEF r
\* The lines stay as they are, and a hit may end.
<1>7. ASSUME ~c.busRequestBeingServiced, SameView(c, r), ~r.haveBusRequest,
             r.busy => c.busy /\ r.currentJob = c.currentJob
      PROVE  /\ Coh!Next \/ UNCHANGED <<lineView, jobView>>
             /\ (\A i \in Caches : CommandFits(cache[i]) /\ OnlyBlocks(cache[i]))'
  <2>1. \A i \in Caches : SameView(cache[i], cache'[i])
    BY <1>6, <1>7 DEF SameView
  <2>2. UNCHANGED lineView
    BY <2>1, Mapped, SameLineView
  <2>3. (\A i \in Caches : CommandFits(cache[i]) /\ OnlyBlocks(cache[i]))'
    <3>1. CommandFits(r)
      BY <1>7 DEF CommandFits
    <3>2. ASSUME NEW i \in Caches  PROVE CommandFits(cache'[i]) /\ OnlyBlocks(cache'[i])
      BY <1>1, <1>6, <1>7, <2>1, <3>1, SameViewKeeps
    <3> QED  BY <3>2
  <2>4. CASE r.busy
    <3> DEFINE old == cache
               new == cache'
    <3>1. OnlyBusy(old, turn) /\ OnlyBusy(new, turn)
      <4>1. turn \in Caches /\ old[turn].busy /\ new[turn] = r
        BY <1>1, <1>6, <1>7, <2>4
      <4>2. \A j \in Caches \ {turn} : ~old[j].busy /\ new[j] = old[j]
        BY <1>1, <1>6, <1>7, <4>1
      <4> HIDE DEF old, new
      <4> QED  BY <2>4, <4>1, <4>2 DEF OnlyBusy
    <3>2. JobOf(cache[turn], turn, bus.isShared) = JobOf(cache'[turn], turn, bus'.isShared)
      BY <1>1, <1>4, <1>6, <1>7, <2>4 DEF JobOf, PhaseOf
    <3> QED  BY <2>2, <2>3, <3>1, <3>2, Mapped, JobMapped
  <2>5. CASE ~r.busy /\ c.busy
    <3>1. OnlyBusy(cache, turn) /\ \A i \in Caches : ~cache'[i].busy
      BY <1>1, <1>6, <1>7, <2>5 DEF OnlyBusy
    <3>2. jobView = JobOf(c, turn, bus.isShared) /\ jobView' = Coh!Idle
      BY <3>1, Mapped, JobMapped, NoJobMapped
    <3>3. jobView.phase = "hit"
      BY <1>4, <1>7, <3>2 DEF JobOf, PhaseOf
    <3>4. Coh!HitDone
      BY <2>2, <3>2, <3>3 DEF Coh!HitDone
    <3> QED  BY <2>3, <3>4 DEF Coh!Next
  <2>6. CASE ~r.busy /\ ~c.busy
    <3>1. \A i \in Caches : i = turn \/ cache'[i] = cache[i]
      BY <1>6, <1>7
    <3>2. CASE \A i \in Caches : ~cache[i].busy
      <4>1. \A i \in Caches : ~cache'[i].busy
        BY <1>6, <1>7, <2>6, <3>1, <3>2
      <4> QED  BY <2>2, <2>3, <3>2, <4>1, Mapped, NoJobMapped
    <3>3. ASSUME NEW j \in Caches, cache[j].busy
          PROVE  UNCHANGED jobView
      <4> DEFINE old == cache
                 new == cache'
      <4>1. /\ j # turn /\ old[j] = new[j] /\ old[j].busy
            /\ \A i \in Caches : ~old[i].busy \/ i = j
            /\ \A i \in Caches : ~new[i].busy \/ i = j
        <5>1. j # turn
          BY <2>6, <3>3
        <5>2. \A i \in Caches : ~old[i].busy \/ i = j
          BY <1>1, <3>3
        <5>3. ASSUME NEW i \in Caches  PROVE ~new[i].busy \/ i = j
          BY <1>6, <1>7, <2>6, <3>1, <5>2
        <5> QED  BY <3>1, <3>3, <5>1, <5>2, <5>3
      <4>2. OnlyBusy(old, j) /\ OnlyBusy(new, j) /\ new[j] = old[j]
        <5> HIDE DEF old, new
        <5> QED  BY <4>1 DEF OnlyBusy
      <4> QED  BY <1>1, <4>2, Mapped, JobMapped
    <3> QED  BY <2>2, <2>3, <3>2, <3>3
  <2> QED  BY <2>4, <2>5, <2>6
\* A job starts.
<1>8. ASSUME ~c.busRequestBeingServiced, ~c.busy, c.pendingJobs # <<>>,
             NEW n, WellFormed(n), SameView(c, n),
             n.currentJob # NULL, n.currentJob.op \in {"R", "W"},
             ~n.busRequestBeingServiced, Started(n, r)
      PROVE  /\ Coh!Next
             /\ (\A i \in Caches : CommandFits(cache[i]) /\ OnlyBlocks(cache[i]))'
  <2> DEFINE b == n.currentJob.block
             op == n.currentJob.op
             o == outcomeOf(n)
  <2>1. b \in Blocks /\ TagOfJob(n) = TagOf(b) /\ r.currentJob = n.currentJob
    BY <1>8, JobParts DEF CacheJob, TagOfJob, Started
  <2>2. /\ \A i \in Caches : ~cache[i].busy
        /\ OnlyBusy(cache', turn) /\ cache'[turn] = r
    BY <1>1, <1>6, <1>8 DEF OnlyBusy, Started
  <2>3. ~bus.inUse /\ bus.isShared = FALSE
    <3>1. ~bus.inUse
      BY <1>1, <2>2 DEF BusServes, Flags
    <3>2. bus.isShared \in BOOLEAN
      BY DEF RefInv, Inv, TypeOK
    <3> QED  BY <1>1, <3>1, <3>2
  <2>4. jobView = Coh!Idle /\ jobView' = JobOf(r, turn, FALSE)
    BY <1>1, <2>2, <2>3, Mapped, JobMapped, NoJobMapped
  <2>5. /\ ~r.haveBusRequest => jobView' = Coh!Begin("hit", turn, op, b)
        /\ r.haveBusRequest => jobView' = Coh!Begin("requested", turn, op, b)
    <3>1. ~r.busRequestBeingServiced
      BY <1>8 DEF Started
    <3> QED  BY <2>1, <2>4, <3>1 DEF JobOf, PhaseOf, Coh!Begin
  <2>6. /\ OnlyBlocks(n)
        /\ SameView(n, r) \/ Modified(n, r)
        /\ CommandFits(r)
    BY <1>1, <1>8, SameViewKeeps DEF Started
  <2>7. (\A i \in Caches : CommandFits(cache[i]) /\ OnlyBlocks(cache[i]))'
    <3>1. OnlyBlocks(r)
      BY <2>6, SameViewKeeps
    <3>2. ASSUME NEW i \in Caches  PROVE CommandFits(cache'[i]) /\ OnlyBlocks(cache'[i])
      BY <1>1, <1>6, <1>8, <2>6, <3>1
    <3> QED  BY <3>2
  <2>8. Coh!Outcome(turn, op, b) = o
    <3> DEFINE line == lineView[turn]
    <3>1. line = [d \in Blocks |-> ViewOf(n, SetOf(d), TagOf(d))]
      BY <1>1, <1>8, Mapped, BlockParts DEF LineView, SameView
    <3> HIDE DEF line
    <3>2. Held(n, TagOf(b)) = {line[d] : d \in Coh!SameTag(b)} \ {"absent"}
      BY <1>8, <2>1, <2>6, <3>1, SameHeld
    <3>3. Coh!Held(turn, b) = Held(n, TagOf(b))
      BY <3>2 DEF Coh!Held, line
    <3> QED  BY <2>1, <3>3, SameOutcome DEF Coh!Outcome, outcomeOf
  <2>9. SameView(n, r) => UNCHANGED lineView
    <3> SUFFICES ASSUME SameView(n, r)  PROVE UNCHANGED lineView
      OBVIOUS
    <3>1. \A i \in Caches : SameView(cache[i], cache'[i])
      BY <1>6, <1>8 DEF SameView
    <3> QED  BY <3>1, Mapped, SameLineView
  <2>10. Modified(n, r) => lineView' = Coh!setLineState(turn, b, "modified")
    <3> SUFFICES ASSUME Modified(n, r)
                 PROVE  lineView' = Coh!setLineState(turn, b, "modified")
      OBVIOUS
    <3>1. LineView(cache') = AllModified(LineView(cache), turn, b)
      <4> HIDE DEF b
      <4>1. b \in Blocks /\ TagOfJob(n) = TagOf(b) /\ SameView(cache[turn], n)
            /\ turn \in Caches
        BY <1>1, <1>8, <2>1
      <4>2. \A i \in Caches : cache'[i] = IF i = turn THEN r ELSE cache[i]
        BY <1>6, <1>8
      <4> QED  BY <4>1, <4>2, ModifiedLineView
    <3>2. lineView' = AllModified(lineView, turn, b)
      BY <3>1, Mapped
    <3> HIDE DEF b
    <3> QED  BY <3>2 DEF Coh!setLineState, AllModified
  <2> HIDE DEF b, op, o
  <2>11. b \in Blocks /\ op \in {"R", "W"}
    BY <1>8, <2>1 DEF op
  <2>12. CASE o = "hit" /\ SameView(n, r) /\ ~r.haveBusRequest
    <3>1. Coh!Hit(turn, op, b)
      BY <2>4, <2>5, <2>8, <2>9, <2>12 DEF Coh!Hit
    <3> QED  BY <1>1, <2>7, <2>11, <3>1 DEF Coh!Next
  <2>13. CASE o = "exclusiveHit" /\ op = "W" /\ Modified(n, r) /\ ~r.haveBusRequest
    <3>1. Coh!handleWriteExclusive(turn, b)
      BY <2>4, <2>5, <2>8, <2>10, <2>13 DEF Coh!handleWriteExclusive
    <3> QED  BY <1>1, <2>7, <2>11, <3>1 DEF Coh!Next
  <2>14. CASE o = "ownedUpgrade" /\ op = "W" /\ Modified(n, r) /\ r.haveBusRequest
    <3>1. Coh!handleWriteOwned(turn, b)
      BY <2>4, <2>5, <2>8, <2>10, <2>14 DEF Coh!handleWriteOwned
    <3> QED  BY <1>1, <2>7, <2>11, <3>1 DEF Coh!Next
  <2>15. CASE o = "miss" /\ SameView(n, r) /\ r.haveBusRequest
    <3>1. Coh!Miss(turn, op, b)
      BY <2>4, <2>5, <2>8, <2>9, <2>15 DEF Coh!Miss
    <3> QED  BY <1>1, <2>7, <2>11, <3>1 DEF Coh!Next
  <2> QED  BY <1>8, <2>12, <2>13, <2>14, <2>15 DEF Started, o, op
<1>9. CASE ~c.busRequestBeingServiced
  <2>1. WellFormed(c) /\ Flags(c)
    BY <1>1
  <2> HIDE DEF c
  <2>2. \/ /\ SameView(c, r) /\ ~r.haveBusRequest
           /\ r.busy => c.busy /\ r.currentJob = c.currentJob
        \/ /\ ~c.busy /\ c.pendingJobs # <<>>
           /\ \E n : /\ WellFormed(n) /\ SameView(c, n)
                     /\ n.currentJob # NULL /\ n.currentJob.op \in {"R", "W"}
                     /\ ~n.busRequestBeingServiced
                     /\ Started(n, r)
    BY <1>1, <1>4, <1>9, <2>1, TickedSteps DEF r
  <2> QED  BY <1>1, <1>7, <1>8, <1>9, <2>2
<1> QED  BY <1>3, <1>9

-----------------------------------------------------------------------------
(***************************************************************************)
(* The bus's turn.                                                         *)
(***************************************************************************)
LEMMA DoneView ==
    ASSUME NEW k, WellFormed(k), k.currentJob # NULL, k.currentJob.op \in {"R", "W"},
           NEW isShared \in BOOLEAN, cycles \in Nat
    PROVE  LET b == k.currentJob.block IN \E gone :
              /\ gone = {} \/ (/\ ViewOf(k, SetOf(b), TagOf(b)) = "absent"
                               /\ \E g : gone = {g} /\ g # TagOf(b)
                                         /\ ViewOf(k, SetOf(b), g) # "absent")
              /\ \A set \in Sets : \A u : ViewOf(busJobDone(k, isShared), set, u) =
                    IF set = SetOf(b) /\ u = TagOf(b)
                    THEN installedState(k.currentJob.op, isShared)
                    ELSE IF set = SetOf(b) /\ u \in gone THEN "absent"
                    ELSE ViewOf(k, set, u)
<1> DEFINE b == k.currentJob.block
           stored == storedIn(k, isShared)
           lines == [k.localCache EXCEPT ![SetOf(b)] = stored]
           r == busJobDone(k, isShared)
<1>1. SetOf(b) \in Sets /\ k \in CacheRecord
  BY JobParts DEF WellFormed
<1>2. r = [k EXCEPT !.haveBusRequest = FALSE, !.busy = FALSE,
                    !.busRequestBeingServiced = FALSE, !.localCache = lines]
  BY DEF busJobDone
<1> HIDE DEF lines, r
<1>3. r.localCache = lines
  BY <1>1, <1>2 DEF CacheRecord
<1>4. k.localCache \in [Sets -> Seq(Line)]
  BY <1>1 DEF CacheRecord
<1> HIDE DEF stored, b
<1>5. \A set \in Sets : lines[set] = IF set = SetOf(b) THEN stored ELSE k.localCache[set]
  BY <1>1, <1>4 DEF lines
<1>6. PICK gone : /\ gone = {} \/ (/\ View(SetOfJob(k), TagOfJob(k)) = "absent"
                                   /\ \E g : gone = {g} /\ g # TagOfJob(k)
                                             /\ View(SetOfJob(k), g) # "absent")
                  /\ \A u : View(stored, u) =
                        IF u = TagOfJob(k) THEN installedState(k.currentJob.op, isShared)
                        ELSE IF u \in gone THEN "absent" ELSE View(SetOfJob(k), u)
  BY StoredInView DEF stored
<1>7. TagOfJob(k) = TagOf(b) /\ SetOfJob(k) = k.localCache[SetOf(b)]
  BY DEF TagOfJob, SetOfJob, b
<1>8. \A set \in Sets : \A u : ViewOf(r, set, u) =
         IF set = SetOf(b) /\ u = TagOf(b) THEN installedState(k.currentJob.op, isShared)
         ELSE IF set = SetOf(b) /\ u \in gone THEN "absent" ELSE ViewOf(k, set, u)
  BY <1>3, <1>5, <1>6, <1>7 DEF ViewOf
<1>9. gone = {} \/ (/\ ViewOf(k, SetOf(b), TagOf(b)) = "absent"
                    /\ \E g : gone = {g} /\ g # TagOf(b) /\ ViewOf(k, SetOf(b), g) # "absent")
  BY <1>6, <1>7 DEF ViewOf
<1> QED  BY <1>8, <1>9 DEF b, r

\* The bus waits, is done with the request of the one busy cache, or grants it.
LEMMA BusTurnCases ==
    ASSUME RefInv, BusTurn
    PROVE  /\ bus'.isShared => bus'.inUse
           /\ \/ UNCHANGED cache /\ bus'.isShared = bus.isShared
                 /\ \/ UNCHANGED bus /\ cycles < bus.endCycle
                    \/ ~bus'.inUse
              \/ \E i \in Caches :
                    /\ OnlyBusy(cache, i)
                    /\ cache[i].haveBusRequest /\ cache[i].busRequestBeingServiced
                    /\ cache' = [cache EXCEPT ![i] = busJobDone(cache[i], bus.isShared)]
                    /\ bus'.isShared = FALSE /\ ~bus'.inUse /\ bus.endCycle <= cycles
              \/ \E i \in Caches :
                    /\ OnlyBusy(cache, i)
                    /\ cache[i].haveBusRequest /\ ~cache[i].busRequestBeingServiced
                    /\ bus.isShared = FALSE
                    /\ cache' = granted(cache, i)
                    /\ bus'.isShared = (repliers(cache, i, SharedReplies) # {})
                    /\ bus'.startCycle = cycles
                    /\ bus'.endCycle = cycles + cache[i].busRequest.cycleCost
                                       + extraCycles(cache, i)
<1> DEFINE i == bus.currentCache
           done == bus.inUse /\ bus.endCycle <= cycles
           cs == IF done THEN [cache EXCEPT ![i] = busJobDone(@, bus.isShared)] ELSE cache
           waiting == {j \in Caches : cs[j].haveBusRequest}
           next == Min(waiting)
<1>1. /\ AllWellFormed(cache) /\ cycles \in Nat
      /\ bus \in [inUse : BOOLEAN, currentCache : Caches \cup {-1}, startCycle : Nat,
                  endCycle : Int, isShared : BOOLEAN]
      /\ BusServes /\ BusTick /\ (bus.isShared => bus.inUse)
  BY DEF RefInv, Inv, TypeOK, BusTurn, ControlInv
<1>2. \A j \in Caches : /\ Flags(cache[j])
                        /\ cache[j].busy => OnlyBusy(cache, j)
  BY DEF RefInv, Inv, ControlInv, OneJobAtATime, OnlyBusy
<1>3. CASE bus.inUse /\ ~done
  <2>1. UNCHANGED <<cache, bus>>
    BY <1>1, <1>3 DEF BusTick
  <2>2. cycles < bus.endCycle
    BY <1>1, <1>3
  <2> QED  BY <1>1, <2>1, <2>2
<1>4. CASE done
  <2>1. i \in Caches /\ cache[i].busRequestBeingServiced /\ cache[i].haveBusRequest
        /\ OnlyBusy(cache, i)
    BY <1>1, <1>2, <1>4 DEF BusServes, Flags
  <2>2. WellFormed(cache[i]) /\ bus.isShared \in BOOLEAN
    BY <1>1, <2>1 DEF AllWellFormed
  <2> DEFINE r == busJobDone(cache[i], bus.isShared)
  <2>3. ~r.haveBusRequest
    BY <1>1, <1>2, <2>1, <2>2, BusJobDoneKeeps DEF Flags
  <2>4. cs = [cache EXCEPT ![i] = r]
    BY <1>4
  <2> HIDE DEF r
  <2>5. waiting = {}
    <3> HIDE DEF cs
    <3>1. \A j \in Caches : cs[j] = IF j = i THEN r ELSE cache[j]
      BY <1>1, <2>1, <2>4 DEF AllWellFormed
    <3>2. \A j \in Caches : j # i => ~cache[j].haveBusRequest
      BY <1>2, <2>1 DEF OnlyBusy, Flags
    <3> QED  BY <2>3, <3>1, <3>2
  <2>6. cache' = cs /\ bus' = [bus EXCEPT !.inUse = FALSE, !.isShared = FALSE,
                                          !.currentCache = -1]
    <3>1. bus.inUse /\ bus.endCycle <= cycles
      BY <1>4
    <3> QED  BY <1>1, <2>5, <3>1 DEF BusTick
  <2> HIDE DEF cs
  <2>7. bus'.isShared = FALSE /\ ~bus'.inUse
    BY <1>1, <2>6
  <2>8. bus.endCycle <= cycles
    BY <1>4
  <2> QED  BY <2>1, <2>4, <2>6, <2>7, <2>8 DEF r
<1>5. CASE ~bus.inUse
  <2>1. cs = cache /\ ~done /\ bus.isShared = FALSE
    BY <1>1, <1>5
  <2>2. CASE waiting = {}
    <3>1. cache' = cs /\ bus' = [bus EXCEPT !.inUse = FALSE, !.isShared = FALSE,
                                   !.currentCache = IF done THEN -1 ELSE @]
      BY <1>1, <1>5, <2>2 DEF BusTick
    <3> HIDE DEF done, cs
    <3>2. bus'.isShared = FALSE /\ ~bus'.inUse
      BY <1>1, <3>1
    <3> QED  BY <2>1, <3>1, <3>2
  <2>3. CASE waiting # {}
    <3> DEFINE end == cycles + cs[next].busRequest.cycleCost + extraCycles(cs, next)
               shared == repliers(cs, next, SharedReplies) # {}
    <3>1. /\ cache' = granted(cs, next)
          /\ bus' = [inUse |-> TRUE, currentCache |-> next, startCycle |-> cycles,
                     endCycle |-> end, isShared |-> shared]
      BY <1>1, <1>5, <2>3 DEF BusTick
    <3> HIDE DEF end
    <3>2. next \in Caches /\ cs[next].haveBusRequest
      <4>1. next \in waiting
        BY <2>3, FirstCache
      <4> QED  BY <4>1
    <3> HIDE DEF next, cs
    <3>3. ~cache[next].busRequestBeingServiced /\ OnlyBusy(cache, next)
      BY <1>1, <1>2, <1>5, <2>1, <3>2 DEF BusServes, Flags
    <3>4. /\ bus'.inUse /\ bus'.isShared = shared
          /\ bus'.startCycle = cycles /\ bus'.endCycle = end
      BY <3>1
    <3> QED  BY <2>1, <3>1, <3>2, <3>3, <3>4 DEF end
  <2> QED  BY <2>2, <2>3
<1> QED  BY <1>3, <1>4, <1>5

LEMMA DoneRefines ==
    ASSUME RefInv, NEW i \in Caches, OnlyBusy(cache, i), bus'.isShared = FALSE,
           cache[i].haveBusRequest, cache[i].busRequestBeingServiced,
           cache' = [cache EXCEPT ![i] = busJobDone(cache[i], bus.isShared)]
    PROVE  /\ Coh!busJobDone
           /\ (\A j \in Caches : CommandFits(cache[j]) /\ OnlyBlocks(cache[j]))'
<1> DEFINE c == cache[i]
           b == c.currentJob.block
           op == c.currentJob.op
           shared == bus.isShared
           r == busJobDone(c, shared)
           new == installedState(op, shared)
<1>1. /\ WellFormed(c) /\ Flags(c) /\ cycles \in Nat /\ shared \in BOOLEAN
      /\ c.currentJob # NULL /\ op \in {"R", "W"}
      /\ cache \in [Caches -> CacheRecord]
      /\ \A j \in Caches : CommandFits(cache[j]) /\ OnlyBlocks(cache[j])
  BY DEF RefInv, Inv, TypeOK, AllWellFormed, ControlInv, Flags
<1>2. b \in Blocks
  BY <1>1, JobParts DEF CacheJob
<1>3. \A j \in Caches : cache'[j] = IF j = i THEN r ELSE cache[j]
  BY <1>1
<1>4. ~r.busy /\ ~r.haveBusRequest
  BY <1>1, BusJobDoneKeeps
<1>5. PICK gone :
         /\ gone = {} \/ (/\ ViewOf(c, SetOf(b), TagOf(b)) = "absent"
                          /\ \E g : gone = {g} /\ g # TagOf(b)
                                    /\ ViewOf(c, SetOf(b), g) # "absent")
         /\ \A set \in Sets : \A u : ViewOf(r, set, u) =
               IF set = SetOf(b) /\ u = TagOf(b) THEN new
               ELSE IF set = SetOf(b) /\ u \in gone THEN "absent" ELSE ViewOf(c, set, u)
  <2> HIDE DEF c, shared
  <2> QED  BY <1>1, DoneView
<1>6. jobView = JobOf(c, i, shared) /\ jobView' = Coh!Idle
  <2>1. \A j \in Caches : ~cache'[j].busy
    <3> HIDE DEF r
    <3> QED  BY <1>3, <1>4 DEF OnlyBusy
  <2> QED  BY <2>1, Mapped, JobMapped, NoJobMapped
<1>7. jobView.phase = "granted" /\ jobView.proc = i /\ jobView.op = op
      /\ jobView.block = b /\ jobView.shared = shared
  BY <1>6 DEF JobOf, PhaseOf
<1> HIDE DEF r, new, op, shared
<1>8. (\A j \in Caches : CommandFits(cache[j]) /\ OnlyBlocks(cache[j]))'
  <2>1. CommandFits(r)
    BY <1>4 DEF CommandFits
  <2>2. OnlyBlocks(r)
    <3>1. OnlyBlocks(c) /\ <<SetOf(b), TagOf(b)>> \in Blocks
      BY <1>1, <1>2, BlockIs
    <3> HIDE DEF b
    <3> QED  BY <1>5, <3>1 DEF OnlyBlocks
  <2>3. ASSUME NEW j \in Caches  PROVE CommandFits(cache'[j]) /\ OnlyBlocks(cache'[j])
    BY <1>1, <1>3, <2>1, <2>2
  <2> QED  BY <2>3
<1> DEFINE evicted == {d \in Blocks : SetOf(d) = SetOf(b) /\ TagOf(d) \in gone}
<1> HIDE DEF b
<1>9. lineView[i][b] = ViewOf(c, SetOf(b), TagOf(b))
      /\ lineView \in [Caches -> [Blocks -> {lineView[j][d] : j \in Caches, d \in Blocks}]]
  BY <1>2, Mapped DEF LineView
<1>10. evicted \in {{}} \cup {{d} : d \in Coh!Victims}
  <2>1. CASE gone = {}
    BY <2>1
  <2>2. CASE gone # {}
    <3>1. PICK g : gone = {g} /\ g # TagOf(b) /\ ViewOf(c, SetOf(b), g) # "absent"
                   /\ ViewOf(c, SetOf(b), TagOf(b)) = "absent"
      BY <1>5, <2>2
    <3> DEFINE d == <<SetOf(b), g>>
    <3>2. d \in Blocks /\ d # b /\ SetOf(d) = SetOf(b) /\ TagOf(d) = g
      BY <1>1, <1>2, <3>1, BlockParts DEF OnlyBlocks, SetOf, TagOf
    <3>3. ASSUME NEW e \in evicted  PROVE e = d
      BY <3>1, BlockIs
    <3>4. d \in evicted
      BY <3>1, <3>2
    <3> HIDE DEF d, evicted
    <3>5. evicted = {d}
      BY <3>3, <3>4
    <3>6. d \in Coh!Victims
      BY <1>7, <1>9, <3>1, <3>2 DEF Coh!Victims, Coh!SetOf, SetOf
    <3> QED  BY <3>5, <3>6
  <2> QED  BY <2>1, <2>2
<1>11. \A d \in Blocks : ViewOf(r, SetOf(d), TagOf(d)) =
          IF d = b THEN new ELSE IF d \in evicted THEN "absent" ELSE lineView[i][d]
  <2> SUFFICES ASSUME NEW d \in Blocks
               PROVE  ViewOf(r, SetOf(d), TagOf(d)) =
                         IF d = b THEN new
                         ELSE IF d \in evicted THEN "absent" ELSE lineView[i][d]
    OBVIOUS
  <2>1. SetOf(d) \in Sets /\ lineView[i][d] = ViewOf(c, SetOf(d), TagOf(d))
    BY BlockParts, Mapped DEF LineView
  <2>2. d = b <=> SetOf(d) = SetOf(b) /\ TagOf(d) = TagOf(b)
    BY <1>2, BlockIs
  <2> QED  BY <1>5, <2>1, <2>2
<1> HIDE DEF evicted, c
<1> DEFINE after == [d \in Blocks |-> IF d = b THEN new
                                      ELSE IF d \in evicted THEN "absent"
                                      ELSE lineView[i][d]]
<1>12. lineView' = [lineView EXCEPT ![i] = after]
  <2>1. lineView'[i] = after
    BY <1>3, <1>11, Mapped DEF LineView
  <2>2. \A j \in Caches : j # i => lineView'[j] = lineView[j]
    BY <1>3, Mapped DEF LineView, c
  <2> HIDE DEF after
  <2>3. lineView' \in [Caches -> {lineView'[j] : j \in Caches}]
    BY Mapped DEF LineView
  <2> QED  BY <1>9, <2>1, <2>2, <2>3
<1>13. Coh!installedState(op, shared) = new
  BY <1>1, SameInstalled DEF new
<1> QED  BY <1>6, <1>7, <1>8, <1>10, <1>12, <1>13 DEF Coh!busJobDone

\* What a snoop does to the lines, and what it answers.
LEMMA SnoopedView ==
    ASSUME NEW cs, NEW i, NEW j, WellFormed(cs[j]), cs[i].busRequest.block \in Blocks,
           cycles \in Nat
    PROVE  LET b == cs[i].busRequest.block
               command == cs[i].busRequest.command
               before == ViewOf(cs[j], SetOf(b), TagOf(b))
           IN  /\ \A set \in Sets : \A u : ViewOf(snooped(cs, i, j), set, u) =
                     IF set = SetOf(b) /\ u = TagOf(b)
                     THEN snoopBusRequest(command, before).state
                     ELSE ViewOf(cs[j], set, u)
               /\ reply(cs, i, j).result \in SharedReplies <=>
                     snoopBusRequest(command, before).result \in SharedReplies
<1> DEFINE k == cs[j]
           b == cs[i].busRequest.block
           command == cs[i].busRequest.command
           set == SetOf(b)
           t == TagOf(b)
           s == k.localCache[set]
           answer == reply(cs, i, j)
           told == snoopBusRequest(command, View(s, t))
           used == touched(s, t, cycles)
           left == setState(used, t, answer.state)
           lines == [k.localCache EXCEPT ![set] = left]
<1>1. /\ k.localCache \in [Sets -> Seq(Line)] /\ set \in Sets /\ answer.state \in State
      /\ s \in Seq(Line) /\ Sound(s) /\ k \in CacheRecord
  BY BlockParts, ReplyState DEF WellFormed, CacheRecord
<1>2. used \in Seq(Line) /\ Sound(used) /\ \A u : View(used, u) = View(s, u)
  BY <1>1, TouchedKeeps, SameTagsSound, ViewTouched
<1>3. /\ hasLine(s, t) => answer = told
      /\ ~hasLine(s, t) => answer = Reply("NONE", "invalid") /\ View(s, t) = "absent"
  BY DEF reply, View
<1>4. hasLine(s, t) <=> View(s, t) # "absent"
  BY <1>1, ViewIs
<1>5. ~hasLine(s, t) => told = Reply("NONE", "absent") /\ "NONE" \notin SharedReplies
  BY <1>3, AbsentIsSilent
<1>6. snooped(cs, i, j) = [k EXCEPT !.localCache = lines]
  BY DEF snooped
<1> HIDE DEF lines
<1>7. snooped(cs, i, j).localCache = lines
  BY <1>1, <1>6 DEF CacheRecord
<1> HIDE DEF left, answer, told, used
<1>8. \A u : View(left, u) = IF u = t THEN told.state ELSE View(s, u)
  <2>1. \A u : View(left, u) =
           IF u = t /\ View(used, t) # "absent" THEN answer.state ELSE View(used, u)
    BY <1>1, <1>2, ViewSetState DEF left
  <2>2. ~hasLine(s, t) => told.state = "absent"
    BY <1>5 DEF Reply
  <2> QED  BY <1>2, <1>3, <1>4, <2>1, <2>2
<1> HIDE DEF s
<1>9. \A m \in Sets : lines[m] = IF m = set THEN left ELSE k.localCache[m]
  <2> HIDE DEF k, set
  <2> QED  BY <1>1 DEF lines
<1>10. answer.result \in SharedReplies <=> told.result \in SharedReplies
  BY <1>3, <1>5 DEF Reply
<1>11. \A m \in Sets : \A u : ViewOf(snooped(cs, i, j), m, u) =
          IF m = set /\ u = t THEN told.state ELSE ViewOf(k, m, u)
  BY <1>7, <1>8, <1>9 DEF ViewOf, s
<1> QED  BY <1>10, <1>11 DEF ViewOf, told, answer, s

LEMMA GrantRefines ==
    ASSUME RefInv, NEW i \in Caches, OnlyBusy(cache, i), bus.isShared = FALSE,
           cache[i].haveBusRequest, ~cache[i].busRequestBeingServiced,
           cache' = granted(cache, i),
           bus'.isShared = (repliers(cache, i, SharedReplies) # {})
    PROVE  /\ Coh!Broadcast
           /\ (\A j \in Caches : CommandFits(cache[j]) /\ OnlyBlocks(cache[j]))'
<1> DEFINE c == cache[i]
           b == c.currentJob.block
           op == c.currentJob.op
           command == c.busRequest.command
           r == cache'[i]
           shared == bus'.isShared
           told(j) == snoopBusRequest(command, lineView[j][b])
<1>1. /\ AllWellFormed(cache) /\ WellFormed(c) /\ Flags(c) /\ cycles \in Nat
      /\ c.currentJob # NULL /\ op \in {"R", "W"} /\ c.busRequest.block = b
      /\ command = commandOf(op)
      /\ \A j \in Caches : /\ WellFormed(cache[j]) /\ Flags(cache[j])
                           /\ CommandFits(cache[j]) /\ OnlyBlocks(cache[j])
  BY DEF RefInv, Inv, TypeOK, AllWellFormed, ControlInv, Flags, CommandFits
<1>2. b \in Blocks
  BY <1>1, JobParts DEF CacheJob
<1>3. \A j \in Caches : Granted(cache[j], cache'[j], j = i)
  BY <1>1, GrantedKeeps
<1>4. /\ r.localCache = c.localCache /\ r.currentJob = c.currentJob
      /\ r.busRequestBeingServiced /\ r.haveBusRequest /\ r.busy
  <2>1. r = [getBusRequest(c) EXCEPT !.jobCycleCost = requesterCost(cache, i)]
    BY DEF granted
  <2>2. r.localCache = c.localCache
    BY <1>1, <2>1 DEF getBusRequest, WellFormed, CacheRecord
  <2>3. Granted(c, r, TRUE)
    BY <1>3
  <2> QED  BY <1>1, <2>2, <2>3 DEF Granted, Flags
<1>5. \A j \in Caches \ {i} : cache'[j] = snooped(cache, i, j) /\ ~cache'[j].busy
                              /\ ~cache'[j].haveBusRequest
  <2>1. ASSUME NEW j \in Caches \ {i}
        PROVE  cache'[j] = snooped(cache, i, j) /\ ~cache'[j].busy
               /\ ~cache'[j].haveBusRequest
    <3>1. cache'[j] = snooped(cache, i, j)
      BY DEF granted
    <3>2. ~cache[j].busy /\ ~cache[j].haveBusRequest
      BY <1>1 DEF OnlyBusy, Flags
    <3>3. Granted(cache[j], cache'[j], FALSE)
      BY <1>3
    <3> HIDE DEF r
    <3> QED  BY <3>1, <3>2, <3>3 DEF Granted
  <2> QED  BY <2>1
<1> HIDE DEF r
<1>6. jobView = JobOf(c, i, FALSE) /\ jobView' = JobOf(r, i, shared)
  <2>1. OnlyBusy(cache', i)
    BY <1>4, <1>5 DEF OnlyBusy, r
  <2> QED  BY <2>1, Mapped, JobMapped DEF r
<1>7. /\ jobView = [phase |-> "requested", proc |-> i, op |-> op, block |-> b,
                    shared |-> FALSE]
      /\ jobView' = [phase |-> "granted", proc |-> i, op |-> op, block |-> b,
                     shared |-> shared]
  BY <1>4, <1>6 DEF JobOf, PhaseOf
<1> HIDE DEF shared
<1>8. /\ jobView.phase = "requested" /\ jobView.proc = i /\ jobView.op = op
      /\ jobView.block = b
      /\ jobView' = [jobView EXCEPT !.phase = "granted", !.shared = shared]
  <2> HIDE DEF b, op
  <2> DEFINE D == {"phase", "proc", "op", "block", "shared"}
             before == jobView
             after == jobView'
  <2>1. before.phase = "requested" /\ before.proc = i /\ before.op = op /\ before.block = b
    BY <1>7
  <2>2. /\ before = [x \in D |-> before[x]] /\ after = [x \in D |-> after[x]]
        /\ \A x \in D : after[x] = IF x = "phase" THEN "granted"
                                   ELSE IF x = "shared" THEN shared ELSE before[x]
    BY <1>7
  <2> HIDE DEF D, before, after
  <2>3. [before EXCEPT !.phase = "granted", !.shared = shared] =
          [x \in D |-> IF x = "phase" THEN "granted"
                       ELSE IF x = "shared" THEN shared ELSE before[x]]
    BY <2>2
  <2>4. after = [before EXCEPT !.phase = "granted", !.shared = shared]
    BY <2>2, <2>3
  <2> QED  BY <2>1, <2>4 DEF before, after
<1>9. ASSUME NEW j \in Caches \ {i}
      PROVE  /\ \A set \in Sets : \A u : ViewOf(cache'[j], set, u) =
                   IF set = SetOf(b) /\ u = TagOf(b) THEN told(j).state
                   ELSE ViewOf(cache[j], set, u)
             /\ reply(cache, i, j).result \in SharedReplies <=>
                   told(j).result \in SharedReplies
  <2>1. lineView[j][b] = ViewOf(cache[j], SetOf(b), TagOf(b))
    BY <1>2, Mapped DEF LineView
  <2> QED  BY <1>1, <1>2, <1>5, <2>1, SnoopedView
<1> HIDE DEF told
<1>10. \A j \in Caches : Coh!SnoopReply(j) = told(j)
  BY <1>1, <1>8, SameSnoop, SameShared DEF Coh!SnoopReply, told
<1>11. shared = \E j \in Caches \ {i} : told(j).result \in SharedReplies
  BY <1>9 DEF repliers, shared
<1>12. \A j \in Caches \ {i} : lineView'[j] = [lineView[j] EXCEPT ![b] = told(j).state]
  <2> SUFFICES ASSUME NEW j \in Caches \ {i}
               PROVE  lineView'[j] = [lineView[j] EXCEPT ![b] = told(j).state]
    OBVIOUS
  <2>1. \A d \in Blocks : lineView'[j][d] = ViewOf(cache'[j], SetOf(d), TagOf(d))
                          /\ lineView[j][d] = ViewOf(cache[j], SetOf(d), TagOf(d))
    BY Mapped DEF LineView
  <2>2. \A d \in Blocks : d = b <=> SetOf(d) = SetOf(b) /\ TagOf(d) = TagOf(b)
    BY <1>2, BlockIs
  <2> HIDE DEF b
  <2>3. \A d \in Blocks : lineView'[j][d] = IF d = b THEN told(j).state ELSE lineView[j][d]
    BY <1>9, <2>1, <2>2, BlockParts
  <2>4. lineView'[j] = [d \in Blocks |-> lineView'[j][d]]
        /\ lineView[j] = [d \in Blocks |-> lineView[j][d]]
    BY Mapped DEF LineView
  <2> QED  BY <2>3, <2>4
<1>13. lineView'[i] = lineView[i]
  BY <1>4, Mapped DEF LineView, ViewOf, r
<1>14. lineView' = [j \in Caches |-> IF j = i THEN lineView[j]
                       ELSE [lineView[j] EXCEPT ![b] = told(j).state]]
  <2>1. lineView' = [j \in Caches |-> lineView'[j]]
    BY Mapped DEF LineView
  <2> HIDE DEF b
  <2> QED  BY <1>12, <1>13, <2>1
<1>15. (\A j \in Caches : CommandFits(cache[j]) /\ OnlyBlocks(cache[j]))'
  <2>1. ASSUME NEW j \in Caches  PROVE CommandFits(cache'[j]) /\ OnlyBlocks(cache'[j])
    <3>1. CASE j = i
      <4>1. CommandFits(c) /\ OnlyBlocks(c) /\ Granted(c, r, TRUE)
        BY <1>1, <1>3 DEF r
      <4> QED  BY <1>4, <3>1, <4>1 DEF CommandFits, OnlyBlocks, ViewOf, Granted, r
    <3>2. CASE j # i
      <4>1. CommandFits(cache'[j])
        BY <1>5, <3>2 DEF CommandFits
      <4>2. <<SetOf(b), TagOf(b)>> \in Blocks
        BY <1>2, BlockIs
      <4> HIDE DEF b
      <4>3. OnlyBlocks(cache'[j])
        BY <1>1, <1>9, <3>2, <4>2 DEF OnlyBlocks
      <4> QED  BY <4>1, <4>3
    <3> QED  BY <3>1, <3>2
  <2> QED  BY <2>1
<1> HIDE DEF b, op, c
<1>16. Coh!Broadcast
  <2>1. lineView' = [o \in Caches |-> IF o = jobView.proc THEN lineView[o]
                       ELSE [lineView[o] EXCEPT ![jobView.block] = Coh!SnoopReply(o).state]]
    BY <1>8, <1>10, <1>14
  <2>2. shared = \E o \in Caches \ {jobView.proc} :
                    Coh!SnoopReply(o).result \in Coh!SharedReplies
    BY <1>8, <1>10, <1>11, SameShared
  <2> QED  BY <1>8, <2>1, <2>2 DEF Coh!Broadcast
<1> QED  BY <1>15, <1>16

LEMMA BusTurnRefines ==
    ASSUME RefInv, BusTurn
    PROVE  /\ Coh!Next \/ UNCHANGED <<lineView, jobView>>
           /\ (\A i \in Caches : CommandFits(cache[i]) /\ OnlyBlocks(cache[i]))'
           /\ bus'.isShared => bus'.inUse
<1>1. bus'.isShared => bus'.inUse
  BY BusTurnCases
<1>2. CASE UNCHANGED cache /\ bus'.isShared = bus.isShared
  <2>1. UNCHANGED <<lineView, jobView>>
    BY <1>2, Mapped
  <2>2. (\A i \in Caches : CommandFits(cache[i]) /\ OnlyBlocks(cache[i]))'
    BY <1>2 DEF RefInv
  <2> QED  BY <1>1, <2>1, <2>2
<1>3. ASSUME NEW i \in Caches, OnlyBusy(cache, i), cache[i].haveBusRequest,
             cache[i].busRequestBeingServiced, bus'.isShared = FALSE,
             cache' = [cache EXCEPT ![i] = busJobDone(cache[i], bus.isShared)]
      PROVE  /\ Coh!Next
             /\ (\A j \in Caches : CommandFits(cache[j]) /\ OnlyBlocks(cache[j]))'
  BY <1>3, DoneRefines DEF Coh!Next
<1>4. ASSUME NEW i \in Caches, OnlyBusy(cache, i), cache[i].haveBusRequest,
             ~cache[i].busRequestBeingServiced, bus.isShared = FALSE,
             cache' = granted(cache, i),
             bus'.isShared = (repliers(cache, i, SharedReplies) # {})
      PROVE  /\ Coh!Next
             /\ (\A j \in Caches : CommandFits(cache[j]) /\ OnlyBlocks(cache[j]))'
  BY <1>4, GrantRefines DEF Coh!Next
<1> QED  BY <1>1, <1>2, <1>3, <1>4, BusTurnCases

-----------------------------------------------------------------------------
(***************************************************************************)
(* The loop: the protocol does not see it.                                 *)
(***************************************************************************)
LEMMA LoopRefines ==
    ASSUME RefInv, Finish \/ NextCycle \/ \E l \in TraceLines : NextJob(l)
    PROVE  /\ UNCHANGED <<lineView, jobView, bus>>
           /\ (\A i \in Caches : CommandFits(cache[i]) /\ OnlyBlocks(cache[i]))'
<1>1. CASE Finish \/ NextCycle
  <2>1. UNCHANGED <<cache, bus>>
    BY <1>1 DEF Finish, NextCycle
  <2>2. UNCHANGED <<lineView, jobView>>
    BY <2>1, Mapped
  <2> QED  BY <2>1, <2>2 DEF RefInv
<1>2. ASSUME NEW l \in TraceLines, NextJob(l)
      PROVE  /\ UNCHANGED <<lineView, jobView, bus>>
             /\ (\A i \in Caches : CommandFits(cache[i]) /\ OnlyBlocks(cache[i]))'
  <2> DEFINE p == accessProcessorId(l)
             jobs == Append(cache[p].pendingJobs, jobOf(l))
             r == [cache[p] EXCEPT !.pendingJobs = jobs]
  <2>1. cache' = [cache EXCEPT ![p] = r] /\ UNCHANGED bus
    BY <1>2 DEF NextJob, HandOut
  <2>2. cache \in [Caches -> CacheRecord]
    BY DEF RefInv, Inv, TypeOK
  <2>3. \A i \in Caches : ~cache[i].busy
    BY <1>2 DEF NextJob, noJobs
  <2> HIDE DEF p, jobs
  <2>4. p \in Caches => /\ r.localCache = cache[p].localCache /\ r.busy = cache[p].busy
                        /\ r.haveBusRequest = cache[p].haveBusRequest
                        /\ r.busRequest = cache[p].busRequest
                        /\ r.currentJob = cache[p].currentJob
    BY <2>2 DEF CacheRecord
  <2> HIDE DEF r
  <2>5. \A i \in Caches : cache'[i] = IF i = p THEN r ELSE cache[i]
    BY <2>1, <2>2
  <2>6. \A i \in Caches : /\ SameView(cache[i], cache'[i]) /\ ~cache'[i].busy
                          /\ CommandFits(cache[i]) => CommandFits(cache'[i])
    BY <2>3, <2>4, <2>5 DEF SameView, ViewOf, CommandFits
  <2>7. UNCHANGED lineView
    BY <2>6, Mapped, SameLineView
  <2>8. UNCHANGED jobView
    BY <2>3, <2>6, Mapped, NoJobMapped
  <2>9. ASSUME NEW i \in Caches  PROVE CommandFits(cache'[i]) /\ OnlyBlocks(cache'[i])
    <3>1. CommandFits(cache[i]) /\ OnlyBlocks(cache[i])
      BY DEF RefInv
    <3> QED  BY <2>6, <3>1, SameViewKeeps
  <2> QED  BY <2>1, <2>7, <2>8, <2>9
<1> QED  BY <1>1, <1>2

-----------------------------------------------------------------------------
(***************************************************************************)
(* The theorems.                                                           *)
(***************************************************************************)
LEMMA InitRefines == Init => RefInv /\ Coh!Init
<1> SUFFICES ASSUME Init  PROVE RefInv /\ Coh!Init
  OBVIOUS
<1>1. Inv
  BY InitInv
<1>2. ~bus.isShared
  BY DEF Init, NewBus
<1>3. \A i \in Caches : /\ ~cache[i].busy /\ ~cache[i].haveBusRequest
                        /\ \A set \in Sets : cache[i].localCache[set] = <<>>
  BY DEF Init, NewCache
<1>4. \A i \in Caches : \A set \in Sets : \A t : ViewOf(cache[i], set, t) = "absent"
  <2> DEFINE none == <<>>
  <2>1. none \in Seq(Line) /\ Sound(none) /\ DOMAIN none = {}
    BY SizesAssumption DEF Sound
  <2>2. \A i \in Caches : \A set \in Sets : cache[i].localCache[set] = none
    BY <1>3
  <2> HIDE DEF none
  <2>3. \A t : View(none, t) = "absent"
    BY <2>1, ViewIs
  <2> QED  BY <2>2, <2>3 DEF ViewOf
<1>5. \A i \in Caches : CommandFits(cache[i]) /\ OnlyBlocks(cache[i])
  BY <1>3, <1>4 DEF CommandFits, OnlyBlocks
<1>6. lineView = [i \in Caches |-> [b \in Blocks |-> "absent"]]
  BY <1>4, BlockParts, Mapped DEF LineView
<1>7. jobView = Coh!Idle
  BY <1>3, Mapped, NoJobMapped
<1> QED  BY <1>1, <1>2, <1>5, <1>6, <1>7 DEF RefInv, Coh!Init

LEMMA StepRefines ==
    RefInv /\ [Next]_vars => RefInv' /\ [Coh!Next]_(Coh!vars)
<1> SUFFICES ASSUME RefInv, [Next]_vars  PROVE RefInv' /\ [Coh!Next]_(Coh!vars)
  OBVIOUS
<1>1. Inv'
  BY InvStep DEF RefInv
<1>2. /\ Coh!Next \/ UNCHANGED <<lineView, jobView>>
      /\ (\A i \in Caches : CommandFits(cache[i]) /\ OnlyBlocks(cache[i]))'
      /\ bus'.isShared => bus'.inUse
  <2>1. CASE Finish \/ NextCycle \/ \E l \in TraceLines : NextJob(l)
    BY <2>1, LoopRefines DEF RefInv
  <2>2. CASE CacheTurn
    BY <2>2, CacheTurnRefines DEF RefInv
  <2>3. CASE BusTurn
    BY <2>3, BusTurnRefines
  <2>4. CASE UNCHANGED vars
    <3>1. UNCHANGED <<cache, bus>>
      BY <2>4 DEF vars
    <3>2. UNCHANGED <<lineView, jobView>>
      BY <3>1, Mapped
    <3> QED  BY <3>1, <3>2 DEF RefInv
  <2> QED  BY <2>1, <2>2, <2>3, <2>4 DEF Next
<1> QED  BY <1>1, <1>2 DEF RefInv, Coh!vars

\* Whatever the LRU order, the costs and the interleaving of the caches' turns with the
\* bus's, handleRequest, snooping and busJobDone of Cache.cpp, seen through the states of
\* the lines and the job being handled, do what the protocol does and nothing else: every
\* lookup finds the line that the protocol means, a line leaves a set only when another
\* takes its place, and the answer to a broadcast is not lost before busJobDone uses it.
THEOREM Implements == Spec => ImplementsCoherence
<1>1. Init => RefInv /\ Coh!Init
  BY InitRefines
<1>2. RefInv /\ [Next]_vars => RefInv' /\ [Coh!Next]_(Coh!vars)
  BY StepRefines
<1> QED  BY <1>1, <1>2, PTL DEF Spec, ImplementsCoherence

-----------------------------------------------------------------------------
(***************************************************************************)
(* What is proved of the protocol holds in the simulator.                  *)
(***************************************************************************)
Proved == INSTANCE CoherenceProofs WITH Procs <- Caches, line <- lineView, job <- jobView

LEMMA SameMachine ==
    /\ Coh!Init <=> Proved!Init
    /\ Coh!Next <=> Proved!Next
    /\ Coh!vars = Proved!vars
<1>1. Coh!Idle = Proved!Idle /\ \A phase1, c, op, b :
         Coh!Begin(phase1, c, op, b) = Proved!Begin(phase1, c, op, b)
  BY DEF Coh!Idle, Proved!Idle, Coh!Begin, Proved!Begin
<1>2. \A b : Coh!SameTag(b) = Proved!SameTag(b)
  BY DEF Coh!SameTag, Proved!SameTag, Coh!TagOf, Proved!TagOf
<1>3. \A c, b, s : Coh!setLineState(c, b, s) = Proved!setLineState(c, b, s)
  BY <1>2 DEF Coh!setLineState, Proved!setLineState
<1>4. \A op, held : Coh!handleRequestOutcome(op, held) = Proved!handleRequestOutcome(op, held)
  BY DEF Coh!handleRequestOutcome, Proved!handleRequestOutcome,
         Coh!readOutcome, Proved!readOutcome, Coh!writeOutcome, Proved!writeOutcome,
         Coh!Readable, Proved!Readable, Coh!State, Proved!State
<1>5. \A c, op, b : Coh!Outcome(c, op, b) = Proved!Outcome(c, op, b)
  BY <1>2, <1>4 DEF Coh!Outcome, Proved!Outcome, Coh!Held, Proved!Held
<1>6. \A c, op, b : /\ Coh!Hit(c, op, b) <=> Proved!Hit(c, op, b)
                    /\ Coh!Miss(c, op, b) <=> Proved!Miss(c, op, b)
                    /\ Coh!handleWriteExclusive(c, b) <=> Proved!handleWriteExclusive(c, b)
                    /\ Coh!handleWriteOwned(c, b) <=> Proved!handleWriteOwned(c, b)
  BY <1>1, <1>3, <1>5
     DEF Coh!Hit, Proved!Hit, Coh!Miss, Proved!Miss,
         Coh!handleWriteExclusive, Proved!handleWriteExclusive,
         Coh!handleWriteOwned, Proved!handleWriteOwned
<1>7. Coh!HitDone <=> Proved!HitDone
  BY <1>1 DEF Coh!HitDone, Proved!HitDone
<1>8. Coh!Broadcast <=> Proved!Broadcast
  <2>1. \A o : Coh!SnoopReply(o) = Proved!SnoopReply(o)
    <3>1. \A command, x : Coh!snoopBusRequest(command, x) = Proved!snoopBusRequest(command, x)
      BY DEF Coh!snoopBusRequest, Proved!snoopBusRequest, Coh!Reply, Proved!Reply,
             Coh!handleBusRdMSI, Proved!handleBusRdMSI,
             Coh!handleBusRdXMSI, Proved!handleBusRdXMSI,
             Coh!handleBusRdMESI, Proved!handleBusRdMESI,
             Coh!handleBusRdXMESI, Proved!handleBusRdXMESI,
             Coh!handleBusRdMOESI, Proved!handleBusRdMOESI,
             Coh!handleBusRdXMOESI, Proved!handleBusRdXMOESI
    <3>2. \A op : Coh!commandOf(op) = Proved!commandOf(op)
      BY DEF Coh!commandOf, Proved!commandOf
    <3> QED  BY <3>1, <3>2 DEF Coh!SnoopReply, Proved!SnoopReply
  <2>2. Coh!SharedReplies = Proved!SharedReplies
    BY DEF Coh!SharedReplies, Proved!SharedReplies
  <2> QED  BY <2>1, <2>2 DEF Coh!Broadcast, Proved!Broadcast
<1>9. Coh!busJobDone <=> Proved!busJobDone
  <2>1. Coh!Victims = Proved!Victims
    BY DEF Coh!Victims, Proved!Victims, Coh!SetOf, Proved!SetOf
  <2>2. \A op, isShared : Coh!installedState(op, isShared) = Proved!installedState(op, isShared)
    BY DEF Coh!installedState, Proved!installedState
  <2> DEFINE after(new, evicted) ==
               [lineView EXCEPT ![jobView.proc] = [d \in Blocks |->
                   IF d = jobView.block THEN new
                   ELSE IF d \in evicted THEN "absent" ELSE lineView[jobView.proc][d]]]
             done(new, victims, idle) ==
               /\ jobView.phase = "granted"
               /\ \E evicted \in {{}} \cup {{d} : d \in victims} :
                     lineView' = after(new, evicted)
               /\ jobView' = idle
  <2>3. Coh!busJobDone <=>
          done(Coh!installedState(jobView.op, jobView.shared), Coh!Victims, Coh!Idle)
    BY DEF Coh!busJobDone
  <2>4. Proved!busJobDone <=>
          done(Proved!installedState(jobView.op, jobView.shared), Proved!Victims, Proved!Idle)
    BY DEF Proved!busJobDone
  <2> HIDE DEF done
  <2> QED  BY <1>1, <2>1, <2>2, <2>3, <2>4
<1>10. Coh!Next <=> Proved!Next
  BY <1>6, <1>7, <1>8, <1>9 DEF Coh!Next, Proved!Next
<1>11. Coh!Init <=> Proved!Init
  BY <1>1 DEF Coh!Init, Proved!Init
<1> QED  BY <1>10, <1>11 DEF Coh!vars, Proved!vars

LEMMA TagsAlike ==
    (Coh!TagsAreSafe <=> Proved!TagsAreSafe) /\ (Coh!NoTagSharing <=> Proved!NoTagSharing)
BY DEF Coh!TagsAreSafe, Proved!TagsAreSafe, Coh!NoTagSharing, Proved!NoTagSharing,
       Coh!TagOf, Proved!TagOf

LEMMA SimulatorIsProtocol == Spec => Proved!Spec
<1>1. Coh!Init => Proved!Init
  BY SameMachine
<1>2. [Coh!Next]_(Coh!vars) => [Proved!Next]_(Proved!vars)
  BY SameMachine DEF Coh!vars, Proved!vars
<1> QED  BY <1>1, <1>2, Implements, PTL DEF ImplementsCoherence, Proved!Spec

LEMMA ProtocolHolds == Coh!TagsAreSafe => (Spec => []Proved!CoherenceInv)
<1> SUFFICES ASSUME Coh!TagsAreSafe  PROVE Spec => []Proved!CoherenceInv
  OBVIOUS
<1>1. Proved!Spec => []Proved!CoherenceInv
  BY TagsAlike, ProtocolAssumption, Proved!InvHolds
<1> QED  BY <1>1, SimulatorIsProtocol, PTL

\* In MSI and MESI a cache that may write a line without the bus is the only one with a
\* readable copy of it, in every state of the simulation, in the middle of a broadcast as
\* well; in MESI, if no tag is used in two sets.
THEOREM SingleWriterHolds ==
    Coh!TagsAreSafe /\ Protocol \in {"MSI", "MESI"} => (Spec => []Coh!SWMR)
<1> SUFFICES ASSUME Coh!TagsAreSafe, Protocol \in {"MSI", "MESI"}
             PROVE  Spec => []Coh!SWMR
  OBVIOUS
<1>1. Proved!CoherenceInv => Coh!SWMR
  BY DEF Proved!CoherenceInv, Proved!SWMR, Coh!SWMR, Proved!Readable, Coh!Readable,
         Proved!State, Coh!State
<1> QED  BY <1>1, ProtocolHolds, PTL

\* At most one cache answers for the data of a block, in every state of the simulation.
THEOREM SingleOwnerHolds == Coh!TagsAreSafe => (Spec => []Coh!OneOwner)
<1> SUFFICES ASSUME Coh!TagsAreSafe  PROVE Spec => []Coh!OneOwner
  OBVIOUS
<1>1. Proved!CoherenceInv => Coh!OneOwner
  BY DEF Proved!CoherenceInv, Proved!OneOwner, Coh!OneOwner, Proved!Owning, Coh!Owning
<1> QED  BY <1>1, ProtocolHolds, PTL

\* While no tag is used in two sets, a job that Cache.cpp serves without the bus finds the
\* line of its own address readable, in every cycle in which it is served.
THEOREM HitsHeld == Coh!NoTagSharing => (Spec => []Coh!HitIsHeld)
<1> SUFFICES ASSUME Coh!NoTagSharing  PROVE Spec => []Coh!HitIsHeld
  OBVIOUS
<1>1. Coh!TagsAreSafe /\ Proved!NoTagSharing
  BY TagsAlike DEF Coh!TagsAreSafe
<1>2. Proved!CoherenceInv => Coh!HitIsHeld
  BY <1>1 DEF Proved!CoherenceInv, Proved!HitIsHeld, Coh!HitIsHeld,
              Proved!Readable, Coh!Readable, Proved!State, Coh!State
<1> QED  BY <1>1, <1>2, ProtocolHolds, PTL

\* In MSI and MESI a line that busJobDone installs as exclusive is exclusive as long as it
\* says so: no other cache can read the block.  Only MOESI (CoherenceMOESIExclusive.cfg)
\* installs lines as exclusive that others share.
THEOREM ExclusiveAlone ==
    Coh!TagsAreSafe /\ Protocol # "MOESI" => (Spec => []Coh!ExclusiveIsAlone)
<1> SUFFICES ASSUME Coh!TagsAreSafe, Protocol # "MOESI"  PROVE Spec => []Coh!ExclusiveIsAlone
  OBVIOUS
<1>1. Coh!SWMR => Coh!ExclusiveIsAlone
  BY DEF Coh!SWMR, Coh!ExclusiveIsAlone
<1>2. Spec => []Coh!SWMR
  BY ProtocolAssumption, SingleWriterHolds
<1> QED  BY <1>1, <1>2, PTL

\* What is newer than memory leaves the caches of the simulator only when addLine evicts it
\* or when MSI or MESI flush it to a reader.
THEOREM DirtyDataKept == Coh!TagsAreSafe => (Spec => Coh!DirtyKeptUnlessFlushed)
<1> SUFFICES ASSUME Coh!TagsAreSafe  PROVE Spec => Coh!DirtyKeptUnlessFlushed
  OBVIOUS
<1>1. Proved!Spec => Proved!DirtyKeptUnlessFlushed
  BY TagsAlike, ProtocolAssumption, Proved!DirtyDataIsKept
<1>2. Coh!Dirty = Proved!Dirty
  BY DEF Coh!Dirty, Proved!Dirty
<1>3. \A b : /\ Coh!DirtyInCaches(b) <=> Proved!DirtyInCaches(b)
             /\ Coh!DirtyInCaches(b)' <=> Proved!DirtyInCaches(b)'
  BY <1>2 DEF Coh!DirtyInCaches, Proved!DirtyInCaches
<1> DEFINE Leaves(dirty, b) ==
               \/ \E c \in Caches : lineView[c][b] \in dirty /\ lineView[c][b]' = "absent"
               \/ /\ Protocol # "MOESI"
                  /\ jobView.phase = "requested" /\ jobView.op = "R" /\ jobView.block = b
           A == \A b \in Blocks :
                   Coh!DirtyInCaches(b) /\ ~Coh!DirtyInCaches(b)' => Leaves(Coh!Dirty, b)
           B == \A b \in Blocks :
                   Proved!DirtyInCaches(b) /\ ~Proved!DirtyInCaches(b)'
                      => Leaves(Proved!Dirty, b)
<1>4. Proved!DirtyKeptUnlessFlushed => Coh!DirtyKeptUnlessFlushed
  <2>1. Proved!DirtyKeptUnlessFlushed => [][B]_(Proved!vars)
    BY DEF Proved!DirtyKeptUnlessFlushed
  <2>2. [][A]_(Coh!vars) => Coh!DirtyKeptUnlessFlushed
    BY DEF Coh!DirtyKeptUnlessFlushed
  <2>3. [B]_(Proved!vars) => [A]_(Coh!vars)
    BY <1>2, <1>3, SameMachine DEF Coh!vars, Proved!vars
  <2> HIDE DEF A, B
  <2> QED  BY <2>1, <2>2, <2>3, PTL
<1> QED  BY <1>1, <1>4, SimulatorIsProtocol, PTL

-----------------------------------------------------------------------------
(***************************************************************************)
(* Requests take time.  In MOESI the bus takes back the time saved once    *)
(* for every cache that supplies the line; that there is one at most is a  *)
(* matter of coherence.                                                    *)
(***************************************************************************)
\* A request has been given the time that memory takes, unless it is an upgrade.
CostFits(k) ==
    k.haveBusRequest => \/ k.busRequest.cycleCost >= MemoryResponseCycleCost
                        \/ Protocol = "MOESI" /\ k.busRequest.cycleCost = CacheHitCycleCost

TimeInv == RequestTakesTime /\ \A i \in Caches : CostFits(cache[i])

LEMMA AskedCost ==
    ASSUME NEW u, WellFormed(u), NEW command, NEW cost,
           cost >= MemoryResponseCycleCost \/ (Protocol = "MOESI" /\ cost = CacheHitCycleCost)
    PROVE  CostFits(asked(u, command, cost))
<1> DEFINE request == [command |-> command, block |-> u.currentJob.block,
                       cycleCost |-> cost]
           r == asked(u, command, cost)
<1>1. r = [u EXCEPT !.busy = TRUE, !.haveBusRequest = TRUE, !.jobCycleCost = cost,
                    !.busRequest = request]
  BY DEF asked
<1>2. request.cycleCost = cost
  OBVIOUS
<1> HIDE DEF request, r
<1>3. r.busRequest = request
  BY <1>1 DEF WellFormed, CacheRecord
<1> QED  BY <1>2, <1>3 DEF CostFits, r

LEMMA HandleRequestCost ==
    ASSUME NEW k, WellFormed(k), k.currentJob # NULL, cycles \in Nat, ~k.haveBusRequest
    PROVE  CostFits(handleRequest(k))
<1> DEFINE t == TagOfJob(k)
           u == lookedUp(k, t)
           o == outcomeOf(k)
<1>1. WellFormed(u) /\ u.currentJob # NULL
  BY LookedUpKeeps DEF SameButLines
<1>2. o \in {"hit", "exclusiveHit", "ownedUpgrade", "miss", "ignored"}
      /\ (o = "ignored" <=> k.currentJob.op \notin {"R", "W"})
      /\ (o = "ownedUpgrade" => Protocol = "MOESI")
  BY Outcomes, OnlyMOESIUpgrades DEF outcomeOf
<1> HIDE DEF u, o
<1>3. CASE o = "hit"
  <2>1. handleRequest(k) = served(u) /\ ~served(u).haveBusRequest
    BY <1>1, <1>3 DEF handleRequest, u, o, served, WellFormed, CacheRecord
  <2> QED  BY <2>1 DEF CostFits
<1>4. CASE o = "exclusiveHit"
  <2>1. handleRequest(k) = setLineState(served(u), t, "modified")
    BY <1>4 DEF handleRequest, u, o
  <2>2. WellFormed(served(u)) /\ ~served(u).haveBusRequest
    BY <1>1, ServedKeeps DEF served, WellFormed, CacheRecord
  <2> QED  BY <2>1, <2>2, SetLineStateKeeps DEF CostFits, SameButLines, State
<1>5. CASE o = "ownedUpgrade"
  <2> DEFINE a == asked(u, "BusRdX", CacheHitCycleCost)
  <2>1. handleRequest(k) = setLineState(a, t, "modified")
    BY <1>5 DEF handleRequest, u, o
  <2>2. WellFormed(a) /\ CostFits(a)
    BY <1>1, <1>2, <1>5, AskedKeeps, AskedCost, CostsAssumption DEF Command
  <2> HIDE DEF a
  <2> QED  BY <2>1, <2>2, SetLineStateKeeps DEF CostFits, SameButLines, State
<1>6. CASE o = "miss"
  <2>1. getTotalMemoryCost(u) >= MemoryResponseCycleCost
    BY CostsAssumption DEF getTotalMemoryCost
  <2>2. MemoryResponseCycleCost >= MemoryResponseCycleCost
    BY CostsAssumption
  <2>3. CASE k.currentJob.op = "W"
    <3>1. handleRequest(k) = asked(u, "BusRdX", getTotalMemoryCost(u))
      BY <1>6, <2>3 DEF handleRequest, u, o
    <3> QED  BY <1>1, <2>1, <3>1, AskedCost
  <2>4. CASE k.currentJob.op = "R"
    <3>1. handleRequest(k) = asked(u, "BusRd", MemoryResponseCycleCost)
      BY <1>6, <2>4 DEF handleRequest, u, o
    <3> QED  BY <1>1, <2>2, <3>1, AskedCost
  <2> QED  BY <1>2, <1>6, <2>3, <2>4
<1>7. CASE o = "ignored"
  BY <1>7 DEF handleRequest, o, CostFits
<1> QED  BY <1>2, <1>3, <1>4, <1>5, <1>6, <1>7

LEMMA TickedCost ==
    ASSUME NEW c, WellFormed(c), Flags(c), cycles \in Nat, ~c.haveBusRequest
    PROVE  CostFits(Ticked(c))
<1> DEFINE k == finished(c)
<1>1. WellFormed(k) /\ ~k.haveBusRequest
  <2>1. k \in CacheRecord
    BY FinishedKeeps DEF WellFormed
  <2> HIDE DEF k
  <2>2. [k EXCEPT !.busy = c.busy].haveBusRequest = k.haveBusRequest
    BY <2>1 DEF CacheRecord
  <2> QED  BY <2>2, FinishedKeeps DEF SameButLines, k
<1> HIDE DEF k
<1>2. CASE ~k.busy /\ k.pendingJobs # <<>>
  <2>1. Ticked(c) = handleRequest(nextJob(k))
    BY <1>2 DEF Ticked, k
  <2>2. /\ WellFormed(nextJob(k)) /\ nextJob(k).currentJob # NULL
        /\ ~nextJob(k).haveBusRequest
    BY <1>1, <1>2, NextJobKeeps
  <2> QED  BY <2>1, <2>2, HandleRequestCost
<1>3. CASE ~(~k.busy /\ k.pendingJobs # <<>>)
  BY <1>1, <1>3 DEF Ticked, k, CostFits
<1> QED  BY <1>2, <1>3

\* Whoever gives an answer that only an owner gives, owns the line.
LEMMA ReplierOwns ==
    ASSUME NEW results, "NONE" \notin results, NEW i \in Caches,
           cache[i].busRequest.block \in Blocks,
           \A x : snoopBusRequest(cache[i].busRequest.command, x).result \in results
                     => x \in Coh!Owning
    PROVE  \A j \in repliers(cache, i, results) :
              lineView[j][cache[i].busRequest.block] \in Coh!Owning
<1> DEFINE b == cache[i].busRequest.block
<1> TAKE j \in repliers(cache, i, results)
<1> DEFINE s == cache[j].localCache[SetOf(b)]
           x == getLine(s, TagOf(b)).state
<1>1. j \in Caches /\ reply(cache, i, j).result \in results
  BY DEF repliers
<1>2. hasLine(s, TagOf(b)) /\ x \in Coh!Owning
  BY <1>1 DEF reply, Reply
<1>3. lineView[j][b] = x
  BY <1>1, <1>2, Mapped DEF LineView, ViewOf, View
<1> QED  BY <1>2, <1>3

\* There is at most one of them.
LEMMA OneReplier ==
    ASSUME Coh!OneOwner, NEW results, "NONE" \notin results, NEW i \in Caches,
           cache[i].busRequest.block \in Blocks,
           \A x : snoopBusRequest(cache[i].busRequest.command, x).result \in results
                     => x \in Coh!Owning
    PROVE  Cardinality(repliers(cache, i, results)) \in {0, 1}
<1> DEFINE who == repliers(cache, i, results)
<1>1. \A j, k \in who : j = k
  <2>1. who \subseteq Caches
    BY DEF repliers
  <2>2. \A j \in who : lineView[j][cache[i].busRequest.block] \in Coh!Owning
    BY ReplierOwns
  <2> HIDE DEF who
  <2> QED  BY <2>1, <2>2 DEF Coh!OneOwner
<1> HIDE DEF who
<1>2. CASE who = {}
  BY <1>2, FS_EmptySet DEF who
<1>3. ASSUME NEW j \in who  PROVE Cardinality(who) = 1
  <2>1. who = {j}
    BY <1>1
  <2> QED  BY <2>1, FS_Singleton
<1> QED  BY <1>2, <1>3 DEF who

LEMMA OwnersSupply ==
    ASSUME Protocol = "MOESI"
    PROVE  /\ "NONE" \notin Supplies
           /\ \A command, x :
                 snoopBusRequest(command, x).result \in Supplies => x \in Coh!Owning
<1>1. \A x : /\ handleBusRdMOESI(x).result \in Supplies => x \in Coh!Owning
             /\ handleBusRdXMOESI(x).result \in Supplies => x \in Coh!Owning
  BY DEF handleBusRdMOESI, handleBusRdXMOESI, Reply, Supplies, Coh!Owning
<1> QED  BY <1>1 DEF snoopBusRequest, Supplies

LEMMA SupplierOwns ==
    ASSUME Protocol = "MOESI", NEW i \in Caches, cache[i].busRequest.block \in Blocks
    PROVE  \A j \in repliers(cache, i, Supplies) :
              lineView[j][cache[i].busRequest.block] \in Coh!Owning
BY OwnersSupply, ReplierOwns

LEMMA OneSupplier ==
    ASSUME Coh!OneOwner, Protocol = "MOESI", NEW i \in Caches,
           cache[i].busRequest.block \in Blocks
    PROVE  Cardinality(repliers(cache, i, Supplies)) \in {0, 1}
BY OwnersSupply, OneReplier

LEMMA OneFlusher ==
    ASSUME Coh!OneOwner, NEW i \in Caches, cache[i].busRequest.block \in Blocks
    PROVE  Cardinality(repliers(cache, i, Flushes)) \in {0, 1}
<1>1. \A x : /\ handleBusRdMSI(x).result \in Flushes => x \in Coh!Owning
             /\ handleBusRdXMSI(x).result \in Flushes => x \in Coh!Owning
  BY DEF handleBusRdMSI, handleBusRdXMSI, Reply, Flushes, Coh!Owning
<1>2. \A x : /\ handleBusRdMESI(x).result \in Flushes => x \in Coh!Owning
             /\ handleBusRdXMESI(x).result \in Flushes => x \in Coh!Owning
  BY DEF handleBusRdMESI, handleBusRdXMESI, Reply, Flushes, Coh!Owning
<1>3. \A x : /\ handleBusRdMOESI(x).result \notin Flushes
             /\ handleBusRdXMOESI(x).result \notin Flushes
  BY DEF handleBusRdMOESI, handleBusRdXMOESI, Reply, Flushes
<1>4. \A command, x : snoopBusRequest(command, x).result \in Flushes => x \in Coh!Owning
  BY <1>1, <1>2, <1>3, ProtocolAssumption DEF snoopBusRequest
<1>5. "NONE" \notin Flushes
  BY DEF Flushes
<1> QED  BY <1>4, <1>5, OneReplier

LEMMA GrantTakesTime ==
    ASSUME NEW i \in Caches, CostFits(cache[i]), cache[i].haveBusRequest,
           cache[i].busRequest.cycleCost \in Nat, cache[i].busRequest.block \in Blocks,
           Protocol = "MOESI" => Coh!OneOwner
    PROVE  cache[i].busRequest.cycleCost + extraCycles(cache, i) > 0
<1> DEFINE cost == cache[i].busRequest.cycleCost
           flushers == Cardinality(repliers(cache, i, Flushes))
           suppliers == Cardinality(repliers(cache, i, Supplies))
           sharers == repliers(cache, i, {"SHARED"})
<1>1. /\ cost >= MemoryResponseCycleCost \/ (Protocol = "MOESI" /\ cost = CacheHitCycleCost)
      /\ cost \in Nat /\ flushers \in Nat
  BY HowManyReply DEF CostFits
<1>2. Protocol = "MOESI" => suppliers \in {0, 1}
  BY OneSupplier
<1>3. extraCycles(cache, i) =
        CASE Protocol = "MSI"   -> flushers * MemoryResponseCycleCost
          [] Protocol = "MESI"  -> flushers * CacheResponseCycleCost
                                   - (IF sharers # {} THEN saved ELSE 0)
          [] Protocol = "MOESI" -> IF cost = CacheHitCycleCost THEN 0
                                   ELSE -suppliers * saved
  BY DEF extraCycles
<1> HIDE DEF cost, flushers, suppliers, sharers
<1>4. /\ MemoryResponseCycleCost \in Nat \ {0} /\ CacheHitCycleCost \in Nat \ {0}
      /\ CacheResponseCycleCost \in Nat \ {0}
      /\ saved \in Nat /\ MemoryResponseCycleCost - saved > 0
  BY CostsAssumption DEF saved
<1> HIDE DEF saved
<1>5. \A m, n \in Nat : m * n \in Nat
  OBVIOUS
<1>6. flushers * MemoryResponseCycleCost \in Nat /\ flushers * CacheResponseCycleCost \in Nat
  BY <1>1, <1>4, <1>5
<1>7. CASE Protocol = "MSI"
  <2>1. extraCycles(cache, i) = flushers * MemoryResponseCycleCost
    BY <1>3, <1>7
  <2> QED  BY <1>1, <1>4, <1>6, <1>7, <2>1 DEF cost
<1>8. CASE Protocol = "MESI"
  <2>1. \/ extraCycles(cache, i) = flushers * CacheResponseCycleCost - saved
        \/ extraCycles(cache, i) = flushers * CacheResponseCycleCost - 0
    BY <1>3, <1>8
  <2> DEFINE more == flushers * CacheResponseCycleCost
  <2> HIDE DEF more
  <2>2. more \in Nat /\ (extraCycles(cache, i) = more - saved \/ extraCycles(cache, i) = more - 0)
    BY <1>6, <2>1 DEF more
  <2> QED  BY <1>1, <1>4, <1>8, <2>2 DEF cost
<1>9. CASE Protocol = "MOESI"
  <2>1. CASE cost = CacheHitCycleCost
    <3>1. extraCycles(cache, i) = 0
      BY <1>3, <1>9, <2>1
    <3> QED  BY <1>1, <1>4, <2>1, <3>1 DEF cost
  <2>2. CASE cost # CacheHitCycleCost
    <3>1. extraCycles(cache, i) = -suppliers * saved
      BY <1>3, <1>9, <2>2
    <3>2. extraCycles(cache, i) = 0 \/ extraCycles(cache, i) = -saved
      BY <1>2, <1>4, <1>9, <3>1
    <3> QED  BY <1>1, <1>4, <2>2, <3>2 DEF cost
  <2> QED  BY <2>1, <2>2
<1> QED  BY <1>7, <1>8, <1>9, ProtocolAssumption

LEMMA TimeStep ==
    ASSUME RefInv, Protocol = "MOESI" => Coh!OneOwner, TimeInv, [Next]_vars
    PROVE  TimeInv'
<1>1. /\ \A i \in Caches : /\ WellFormed(cache[i]) /\ Flags(cache[i])
                           /\ CostFits(cache[i])
      /\ cache \in [Caches -> CacheRecord] /\ AllWellFormed(cache)
      /\ cycles \in Nat /\ stats \in [Counters -> Nat]
  BY DEF RefInv, Inv, TypeOK, AllWellFormed, ControlInv, TimeInv
<1>2. CASE UNCHANGED <<cache, bus>>
  BY <1>2 DEF TimeInv, RequestTakesTime
<1>3. ASSUME NEW l \in TraceLines, NextJob(l)  PROVE TimeInv'
  <2> DEFINE p == accessProcessorId(l)
             jobs == Append(cache[p].pendingJobs, jobOf(l))
             r == [cache[p] EXCEPT !.pendingJobs = jobs]
  <2>1. cache' = [cache EXCEPT ![p] = r] /\ UNCHANGED bus
    BY <1>3 DEF NextJob, HandOut
  <2> HIDE DEF p, jobs
  <2>2. p \in Caches => r.haveBusRequest = cache[p].haveBusRequest
                        /\ r.busRequest = cache[p].busRequest
    BY <1>1 DEF CacheRecord
  <2> HIDE DEF r
  <2>3. \A i \in Caches : cache'[i] = IF i = p THEN r ELSE cache[i]
    BY <1>1, <2>1
  <2> QED  BY <1>1, <2>1, <2>2, <2>3 DEF TimeInv, RequestTakesTime, CostFits
<1>4. CASE CacheTurn
  <2> DEFINE c == cache[turn]
             r == Ticked(c)
  <2>1. turn \in Caches /\ CacheTick(turn) /\ UNCHANGED bus /\ phase = "caches"
    BY <1>4 DEF CacheTurn, RefInv, Inv, TypeOK
  <2>2. cache' = IF c.busRequestBeingServiced THEN cache ELSE [cache EXCEPT ![turn] = r]
    BY <1>1, <2>1, CacheTickStep
  <2>3. ~c.busRequestBeingServiced => CostFits(r)
    <3>1. ~c.busRequestBeingServiced => ~c.haveBusRequest
      BY <2>1 DEF RefInv, Inv, ControlInv, PickedUp, Caches
    <3> QED  BY <1>1, <2>1, <3>1, TickedCost
  <2> HIDE DEF r
  <2>4. \A i \in Caches : CostFits(cache'[i])
    BY <1>1, <2>1, <2>2, <2>3
  <2> QED  BY <2>1, <2>4 DEF TimeInv, RequestTakesTime
<1>5. CASE BusTurn
  <2>1. CASE /\ UNCHANGED cache /\ (UNCHANGED bus \/ ~bus'.inUse)
    BY <2>1 DEF TimeInv, RequestTakesTime
  <2>2. ASSUME NEW i \in Caches, ~bus'.inUse, cache[i].busRequestBeingServiced,
               cache' = [cache EXCEPT ![i] = busJobDone(cache[i], bus.isShared)]
        PROVE  TimeInv'
    <3> DEFINE r == busJobDone(cache[i], bus.isShared)
    <3>1. ~r.haveBusRequest
      <4>1. bus.isShared \in BOOLEAN
        BY DEF RefInv, Inv, TypeOK
      <4> QED  BY <1>1, <2>2, <4>1, BusJobDoneKeeps DEF Flags
    <3>2. cache' = [cache EXCEPT ![i] = r]
      BY <2>2
    <3> HIDE DEF r
    <3>3. \A j \in Caches : CostFits(cache'[j])
      BY <1>1, <3>1, <3>2 DEF CostFits
    <3> QED  BY <2>2, <3>3 DEF TimeInv, RequestTakesTime
  <2>3. ASSUME NEW i \in Caches, cache[i].haveBusRequest, cache' = granted(cache, i),
               bus'.startCycle = cycles,
               bus'.endCycle = cycles + cache[i].busRequest.cycleCost + extraCycles(cache, i)
        PROVE  TimeInv'
    <3>1. cache[i].busRequest \in BusRequest
      BY <1>1, <2>3 DEF CacheRecord, Flags
    <3>2. cache[i].busRequest.cycleCost \in Nat /\ cache[i].busRequest.block \in Blocks
      BY <3>1 DEF BusRequest
    <3>3. cache[i].busRequest.cycleCost + extraCycles(cache, i) > 0
      BY <1>1, <2>3, <3>2, GrantTakesTime
    <3>4. RequestTakesTime'
      <4>1. extraCycles(cache, i) \in Int
        BY ExtraCycles
      <4>2. bus'.endCycle > bus'.startCycle
        BY <1>1, <2>3, <3>2, <3>3, <4>1
      <4> QED  BY <4>2 DEF RequestTakesTime
    <3>5. \A j \in Caches : Granted(cache[j], cache'[j], j = i)
      BY <1>1, <2>3, GrantedKeeps
    <3>6. \A j \in Caches : CostFits(cache'[j])
      BY <1>1, <3>5 DEF Granted, CostFits
    <3> QED  BY <3>4, <3>6 DEF TimeInv
  <2> QED  BY <1>5, <2>1, <2>2, <2>3, BusTurnCases
<1>6. CASE Finish \/ NextCycle \/ UNCHANGED vars
  BY <1>2, <1>6 DEF Finish, NextCycle, vars
<1> QED  BY <1>3, <1>4, <1>5, <1>6 DEF Next

\* The answers of the caches, for which AtomicBusManager.cpp reduces endCycle, never take
\* back all the time of a request, however many caches there are: endCycle, an unsigned
\* number, never drops below the cycle in which the request was granted.
THEOREM RequestsTakeTime == Spec => []RequestTakesTime
<1>1. Init => TimeInv
  BY DEF Init, NewBus, NewCache, TimeInv, RequestTakesTime, CostFits
<1>2. Spec => []RefInv
  <2>1. RefInv /\ [Next]_vars => RefInv'
    BY StepRefines
  <2>2. Init => RefInv
    BY InitRefines
  <2> QED  BY <2>1, <2>2, PTL DEF Spec
<1>3. RefInv /\ TimeInv /\ (Protocol = "MOESI" => Coh!OneOwner) /\ [Next]_vars => TimeInv'
  BY TimeStep
<1>4. TimeInv => RequestTakesTime
  BY DEF TimeInv
<1>5. CASE Protocol = "MOESI"
  <2>1. Spec => []Coh!OneOwner
    BY <1>5, SingleOwnerHolds DEF Coh!TagsAreSafe
  <2>2. RefInv /\ TimeInv /\ Coh!OneOwner /\ [Next]_vars => TimeInv'
    BY <1>3
  <2> QED  BY <1>1, <1>2, <1>4, <2>1, <2>2, PTL DEF Spec
<1>6. CASE Protocol # "MOESI"
  <2>1. RefInv /\ TimeInv /\ [Next]_vars => TimeInv'
    BY <1>3, <1>6
  <2> QED  BY <1>1, <1>2, <1>4, <2>1, PTL DEF Spec
<1> QED  BY <1>5, <1>6

-----------------------------------------------------------------------------
(***************************************************************************)
(* Jobs take bounded time.  A job has LongestJob cycles from the cycle in  *)
(* which its cache picks it up: of a request, what it costs and the        *)
(* flushes of other caches.  That one cache flushes at most is a matter of *)
(* coherence, which MESI keeps only if no tag is used in two sets.         *)
(***************************************************************************)
\* The cycle by which the jobs that have been handed out are to be done.
Due == (TraceLength - outstandingRequests) * (LongestJob + 1)

\* In cycle now, a cache has the time that its job may still take.  Once it has had
\* its turn, a hit it is busy with is not over.
Timely(k, due, now, hadTurn) ==
    /\ k.pendingJobs # <<>> => now + LongestJob <= due
    /\ k.busy /\ ~k.haveBusRequest =>
          /\ k.startServiceCycle + k.jobCycleCost <= due
          /\ hadTurn => now < k.startServiceCycle + k.jobCycleCost
    /\ k.haveBusRequest /\ ~k.busRequestBeingServiced =>
          now + k.busRequest.cycleCost + FlushTime <= due

HadTurn(i) == phase \in {"loop", "bus"} \/ (phase = "caches" /\ i < turn)

BoundInv ==
    /\ JobsTakeBoundedTime
    /\ \A i \in Caches : Timely(cache[i], Due, cycles, HadTurn(i))
    /\ bus.inUse => bus.endCycle <= Due /\ (phase = "loop" => cycles < bus.endCycle)

LEMMA LongestJobIs ==
    /\ LongestJob = 2 * MemoryResponseCycleCost + FlushTime + CacheHitCycleCost
    /\ LongestJob \in Nat /\ FlushTime \in Nat
    /\ MemoryResponseCycleCost \in Nat \ {0} /\ CacheHitCycleCost \in Nat \ {0}
    /\ CacheResponseCycleCost \in 1 .. MemoryResponseCycleCost
<1>1. OtherFlushes \in Nat
  BY SizesAssumption DEF OtherFlushes
<1>2. FlushTime \in Nat
  BY <1>1, CostsAssumption DEF FlushTime
<1> QED  BY <1>2, CostsAssumption DEF LongestJob

LEMMA DueIs ==
    ASSUME outstandingRequests \in 0 .. TraceLength
    PROVE  Due \in Nat
<1>1. TraceLength - outstandingRequests \in Nat /\ LongestJob + 1 \in Nat
  BY TraceAssumption, LongestJobIs
<1>2. \A m, n \in Nat : m * n \in Nat
  OBVIOUS
<1> QED  BY <1>1, <1>2 DEF Due

LEMMA AskedTimely ==
    ASSUME NEW u, WellFormed(u), u.currentJob # NULL, NEW due \in Nat, cycles \in Nat,
           cycles + LongestJob <= due, NEW command, NEW cost \in Nat,
           cost <= 2 * MemoryResponseCycleCost + CacheHitCycleCost,
           NEW r, SameButLines(asked(u, command, cost), r), r.pendingJobs = <<>>
    PROVE  Timely(r, due, cycles, TRUE)
<1> DEFINE request == [command |-> command, block |-> u.currentJob.block,
                       cycleCost |-> cost]
           a == asked(u, command, cost)
<1>1. a = [u EXCEPT !.busy = TRUE, !.haveBusRequest = TRUE, !.jobCycleCost = cost,
                    !.busRequest = request]
  BY DEF asked
<1>2. request.cycleCost = cost
  OBVIOUS
<1> HIDE DEF request, a
<1>3. a.busRequest = request /\ a.haveBusRequest
  BY <1>1 DEF WellFormed, CacheRecord
<1>4. r.busRequest.cycleCost = cost /\ r.haveBusRequest
  BY <1>2, <1>3 DEF SameButLines, a
<1>5. cycles + cost + FlushTime <= due
  BY LongestJobIs
<1> QED  BY <1>4, <1>5 DEF Timely

LEMMA ServedTimely ==
    ASSUME NEW u, WellFormed(u), NEW due \in Nat, cycles \in Nat,
           cycles + LongestJob <= due,
           NEW r, SameButLines(served(u), r), r.pendingJobs = <<>>
    PROVE  Timely(r, due, cycles, TRUE)
<1>1. /\ served(u).startServiceCycle = cycles /\ served(u).jobCycleCost = CacheHitCycleCost
      /\ ~served(u).haveBusRequest
  BY DEF served, WellFormed, CacheRecord
<1>2. /\ r.startServiceCycle = cycles /\ r.jobCycleCost = CacheHitCycleCost
      /\ ~r.haveBusRequest
  BY <1>1 DEF SameButLines
<1>3. cycles + CacheHitCycleCost <= due /\ cycles < cycles + CacheHitCycleCost
  BY LongestJobIs
<1> QED  BY <1>2, <1>3 DEF Timely

LEMMA HandleRequestTimely ==
    ASSUME NEW k, WellFormed(k), k.currentJob # NULL, ~k.busy, ~k.haveBusRequest,
           NEW due \in Nat, cycles \in Nat, cycles + LongestJob <= due,
           handleRequest(k).pendingJobs = <<>>
    PROVE  Timely(handleRequest(k), due, cycles, TRUE)
<1> DEFINE t == TagOfJob(k)
           u == lookedUp(k, t)
           o == outcomeOf(k)
<1>1. WellFormed(u) /\ u.currentJob # NULL
  BY LookedUpKeeps DEF SameButLines
<1>2. o \in {"hit", "exclusiveHit", "ownedUpgrade", "miss", "ignored"}
      /\ (o = "ignored" <=> k.currentJob.op \notin {"R", "W"})
  BY Outcomes DEF outcomeOf
<1>3. \A r : SameButLines(r, r)
  BY DEF SameButLines
<1> HIDE DEF u, o
<1>4. CASE o = "hit"
  <2>1. handleRequest(k) = served(u)
    BY <1>4 DEF handleRequest, u, o
  <2> QED  BY <1>1, <1>3, <2>1, ServedTimely
<1>5. CASE o = "exclusiveHit"
  <2>1. handleRequest(k) = setLineState(served(u), t, "modified")
    BY <1>5 DEF handleRequest, u, o
  <2>2. WellFormed(served(u))
    BY <1>1, ServedKeeps
  <2>3. SameButLines(served(u), setLineState(served(u), t, "modified"))
    BY <2>2, SetLineStateKeeps DEF State
  <2> QED  BY <1>1, <2>1, <2>3, ServedTimely
<1>6. CASE o = "ownedUpgrade"
  <2> DEFINE a == asked(u, "BusRdX", CacheHitCycleCost)
  <2>1. handleRequest(k) = setLineState(a, t, "modified")
    BY <1>6 DEF handleRequest, u, o
  <2>2. WellFormed(a)
    BY <1>1, AskedKeeps, CostsAssumption DEF Command
  <2> HIDE DEF a
  <2>3. SameButLines(a, setLineState(a, t, "modified"))
    BY <2>2, SetLineStateKeeps DEF State
  <2>4. CacheHitCycleCost <= 2 * MemoryResponseCycleCost + CacheHitCycleCost
    BY LongestJobIs
  <2> QED  BY <1>1, <2>1, <2>3, <2>4, AskedTimely, LongestJobIs DEF a
<1>7. CASE o = "miss"
  <2>1. /\ getTotalMemoryCost(u) \in Nat
        /\ getTotalMemoryCost(u) <= 2 * MemoryResponseCycleCost + CacheHitCycleCost
    BY CostsAssumption DEF getTotalMemoryCost
  <2>2. /\ MemoryResponseCycleCost \in Nat
        /\ MemoryResponseCycleCost <= 2 * MemoryResponseCycleCost + CacheHitCycleCost
    BY CostsAssumption
  <2>3. CASE k.currentJob.op = "W"
    <3>1. handleRequest(k) = asked(u, "BusRdX", getTotalMemoryCost(u))
      BY <1>7, <2>3 DEF handleRequest, u, o
    <3> QED  BY <1>1, <1>3, <2>1, <3>1, AskedTimely
  <2>4. CASE k.currentJob.op = "R"
    <3>1. handleRequest(k) = asked(u, "BusRd", MemoryResponseCycleCost)
      BY <1>7, <2>4 DEF handleRequest, u, o
    <3> QED  BY <1>1, <1>3, <2>2, <3>1, AskedTimely
  <2> QED  BY <1>2, <1>7, <2>3, <2>4
<1>8. CASE o = "ignored"
  <2>1. handleRequest(k) = k
    BY <1>8 DEF handleRequest, o
  <2> QED  BY <2>1 DEF Timely
<1> QED  BY <1>2, <1>4, <1>5, <1>6, <1>7, <1>8

LEMMA TickedTimely ==
    ASSUME NEW c, WellFormed(c), Flags(c), cycles \in Nat, ~c.haveBusRequest,
           Len(c.pendingJobs) <= 1, c.busy => c.pendingJobs = <<>>,
           NEW due \in Nat, Timely(c, due, cycles, FALSE)
    PROVE  Timely(Ticked(c), due, cycles, TRUE)
<1> DEFINE k == finished(c)
<1>1. /\ WellFormed(k) /\ ~k.haveBusRequest /\ k.pendingJobs = c.pendingJobs
      /\ k.busy => c.busy
  <2>1. k \in CacheRecord
    BY FinishedKeeps DEF WellFormed
  <2>2. SameButLines(c, [k EXCEPT !.busy = c.busy]) /\ WellFormed(k) /\ (k.busy => c.busy)
    BY FinishedKeeps
  <2> HIDE DEF k
  <2>3. /\ [k EXCEPT !.busy = c.busy].pendingJobs = k.pendingJobs
        /\ [k EXCEPT !.busy = c.busy].haveBusRequest = k.haveBusRequest
    BY <2>1 DEF CacheRecord
  <2> QED  BY <2>2, <2>3 DEF SameButLines
<1>2. Ticked(c).pendingJobs = <<>>
  BY TickedKeeps
<1>3. c.startServiceCycle \in Nat /\ c.jobCycleCost \in Nat
  BY DEF WellFormed, CacheRecord
<1>4. k.busy => k = c /\ cycles < c.startServiceCycle + c.jobCycleCost
  <2>1. CASE c.startServiceCycle + c.jobCycleCost <= cycles
    <3>1. WellFormed(updateCurrentJobLineCycle(c))
      BY LookedUpKeeps DEF updateCurrentJobLineCycle
    <3>2. k = [updateCurrentJobLineCycle(c) EXCEPT !.busy = FALSE]
      BY <2>1 DEF finished
    <3> HIDE DEF k
    <3>3. ~k.busy
      BY <3>1, <3>2 DEF WellFormed, CacheRecord
    <3> QED  BY <3>3
  <2>2. CASE ~(c.startServiceCycle + c.jobCycleCost <= cycles)
    BY <1>3, <2>2 DEF finished
  <2> QED  BY <2>1, <2>2
<1> HIDE DEF k
<1>5. CASE ~k.busy /\ k.pendingJobs # <<>>
  <2>1. Ticked(c) = handleRequest(nextJob(k))
    BY <1>5 DEF Ticked, k
  <2>2. /\ WellFormed(nextJob(k)) /\ nextJob(k).currentJob # NULL
        /\ ~nextJob(k).haveBusRequest /\ ~nextJob(k).busy
    BY <1>1, <1>5, NextJobKeeps
  <2>3. cycles + LongestJob <= due
    BY <1>1, <1>5 DEF Timely
  <2> QED  BY <1>2, <2>1, <2>2, <2>3, HandleRequestTimely
<1>6. CASE ~(~k.busy /\ k.pendingJobs # <<>>)
  <2>1. Ticked(c) = k
    BY <1>6 DEF Ticked, k
  <2> QED  BY <1>1, <1>2, <1>4, <2>1 DEF Timely
<1> QED  BY <1>5, <1>6

\* More than one other cache flushes only where coherence fails.
LEMMA Flushers ==
    ASSUME Coh!TagsAreSafe => Coh!OneOwner, NEW i \in Caches, cache[i].busRequest.block \in Blocks
    PROVE  Cardinality(repliers(cache, i, Flushes)) \in 0 .. OtherFlushes
<1> DEFINE F == repliers(cache, i, Flushes)
<1>1. CASE Coh!TagsAreSafe
  BY <1>1, OneFlusher DEF OtherFlushes
<1>2. CASE ~Coh!TagsAreSafe
  <2>1. F \subseteq Caches \ {i}
    BY DEF repliers
  <2>2. /\ IsFiniteSet(Caches) /\ Cardinality(Caches) = NumProcessors
    BY FS_Interval, SizesAssumption DEF Caches
  <2>3. /\ IsFiniteSet(Caches \ {i}) /\ Cardinality(Caches \ {i}) = NumProcessors - 1
    BY <2>2, FS_RemoveElement
  <2>4. Cardinality(F) <= NumProcessors - 1 /\ Cardinality(F) \in Nat
    BY <2>1, <2>3, FS_Subset, FS_CardinalityType
  <2> QED  BY <1>2, <2>4, SizesAssumption DEF OtherFlushes
<1> QED  BY <1>1, <1>2

LEMMA GrantInTime ==
    ASSUME Coh!TagsAreSafe => Coh!OneOwner, NEW i \in Caches, cache[i].busRequest.block \in Blocks
    PROVE  extraCycles(cache, i) <= FlushTime
<1> DEFINE flushers == Cardinality(repliers(cache, i, Flushes))
           suppliers == Cardinality(repliers(cache, i, Supplies))
           sharers == repliers(cache, i, {"SHARED"})
           cost == cache[i].busRequest.cycleCost
<1>1. flushers \in 0 .. OtherFlushes /\ OtherFlushes \in Nat /\ suppliers \in Nat
  BY Flushers, HowManyReply, SizesAssumption DEF OtherFlushes
<1>2. extraCycles(cache, i) =
        CASE Protocol = "MSI"   -> flushers * MemoryResponseCycleCost
          [] Protocol = "MESI"  -> flushers * CacheResponseCycleCost
                                   - (IF sharers # {} THEN saved ELSE 0)
          [] Protocol = "MOESI" -> IF cost = CacheHitCycleCost THEN 0
                                   ELSE -suppliers * saved
  BY DEF extraCycles
<1> HIDE DEF cost, flushers, suppliers, sharers
<1>3. saved \in Nat
  BY CostsAssumption DEF saved
<1> HIDE DEF saved
<1>4. CASE Protocol = "MSI"
  <2>1. extraCycles(cache, i) = flushers * MemoryResponseCycleCost
    BY <1>2, <1>4
  <2>2. flushers * MemoryResponseCycleCost <= OtherFlushes * MemoryResponseCycleCost
    BY <1>1, CostsAssumption
  <2> QED  BY <2>1, <2>2 DEF FlushTime
<1>5. CASE Protocol = "MESI"
  <2>1. \/ extraCycles(cache, i) = flushers * CacheResponseCycleCost - saved
        \/ extraCycles(cache, i) = flushers * CacheResponseCycleCost - 0
    BY <1>2, <1>5
  <2>2. /\ flushers * CacheResponseCycleCost \in Nat
        /\ flushers * CacheResponseCycleCost <= OtherFlushes * CacheResponseCycleCost
    BY <1>1, CostsAssumption
  <2>3. OtherFlushes * CacheResponseCycleCost <= OtherFlushes * MemoryResponseCycleCost
    BY <1>1, CostsAssumption
  <2>4. OtherFlushes * CacheResponseCycleCost \in Nat /\ FlushTime \in Nat
    BY <1>1, CostsAssumption, LongestJobIs
  <2> DEFINE x == flushers * CacheResponseCycleCost
             y == OtherFlushes * CacheResponseCycleCost
  <2>5. /\ extraCycles(cache, i) = x - saved \/ extraCycles(cache, i) = x - 0
        /\ x \in Nat /\ y \in Nat /\ x <= y /\ y <= FlushTime
    BY <2>1, <2>2, <2>3, <2>4 DEF FlushTime
  <2> HIDE DEF x, y
  <2> QED  BY <1>3, <2>4, <2>5
<1>6. CASE Protocol = "MOESI"
  <2>1. extraCycles(cache, i) = 0 \/ extraCycles(cache, i) = -suppliers * saved
    BY <1>2, <1>6
  <2>2. suppliers * saved \in Nat
    BY <1>1, <1>3
  <2>3. -suppliers * saved = -(suppliers * saved)
    BY <1>1, <1>3
  <2> DEFINE taken == suppliers * saved
  <2> HIDE DEF taken
  <2>4. taken \in Nat /\ (extraCycles(cache, i) = 0 \/ extraCycles(cache, i) = -taken)
    BY <2>1, <2>2, <2>3 DEF taken
  <2> QED  BY <2>4, LongestJobIs
<1> QED  BY <1>4, <1>5, <1>6, ProtocolAssumption

LEMMA TimelyAnyway ==
    ASSUME NEW k, NEW due, NEW now, NEW hadTurn \in BOOLEAN, Timely(k, due, now, hadTurn)
    PROVE  Timely(k, due, now, FALSE)
BY DEF Timely

\* A cache that is not busy and has nothing pending is not late.
LEMMA IdleIsTimely ==
    ASSUME NEW k, ~k.busy, ~k.haveBusRequest, k.pendingJobs = <<>>
    PROVE  \A due, now, hadTurn : Timely(k, due, now, hadTurn)
BY DEF Timely

LEMMA LoopBound ==
    ASSUME RefInv, BoundInv, Finish \/ NextCycle \/ \E l \in TraceLines : NextJob(l)
    PROVE  BoundInv'
<1>1. /\ phase = "loop" /\ cycles \in Nat /\ Due \in Nat /\ outstandingRequests \in Nat
      /\ cycles <= Due
      /\ \A i \in Caches : /\ cache[i].pendingJobs = <<>> /\ Flags(cache[i])
                           /\ cache[i].haveBusRequest => cache[i].busRequestBeingServiced
                           /\ WellFormed(cache[i])
      /\ BusServes /\ cache \in [Caches -> CacheRecord]
      /\ bus.endCycle \in Int
  <2>1. phase = "loop" /\ Inv
    BY DEF Finish, NextCycle, NextJob, HandOut, RefInv
  <2>2. bus.endCycle \in Int /\ outstandingRequests \in 0 .. TraceLength
    BY <2>1 DEF Inv, TypeOK
  <2> QED  BY <2>1, <2>2, LoopIsQuiet, DueIs, TraceAssumption
           DEF Inv, TypeOK, ControlInv, AllWellFormed, BoundInv, JobsTakeBoundedTime, Due
<1>2. HadTurn(0) /\ \A i \in Caches : HadTurn(i)
  BY <1>1 DEF HadTurn
<1>3. CASE Finish
  <2>1. Due' = Due /\ UNCHANGED <<cycles, cache, bus>> /\ phase' = "finished"
        /\ \A i \in Caches : ~cache[i].busy
    BY <1>3 DEF Finish, Due, noJobs
  <2>2. \A i \in Caches : Timely(cache'[i], Due', cycles', HadTurn(i)')
    BY <1>1, <2>1, IdleIsTimely DEF Flags
  <2>3. ~bus.inUse
    BY <1>1, <2>1 DEF BusServes, Flags
  <2> QED  BY <1>1, <2>1, <2>2, <2>3 DEF BoundInv, JobsTakeBoundedTime, Due
<1>4. CASE NextCycle
  <2>1. /\ Due' = Due /\ cycles' = cycles + 1 /\ UNCHANGED <<cache, bus>>
        /\ phase' = "caches" /\ turn' = 0
    BY <1>4 DEF NextCycle, tick, Due
  <2>2. PICK b \in Caches : cache[b].busy
    BY <1>4 DEF NextCycle, noJobs
  <2>3. cycles < Due
    <3>1. CASE ~cache[b].haveBusRequest
      <4>1. /\ cache[b].startServiceCycle + cache[b].jobCycleCost <= Due
            /\ cycles < cache[b].startServiceCycle + cache[b].jobCycleCost
        BY <1>1, <1>2, <2>2, <3>1 DEF BoundInv, Timely
      <4>2. cache[b].startServiceCycle \in Nat /\ cache[b].jobCycleCost \in Nat
        BY <1>1, <2>2 DEF CacheRecord
      <4> QED  BY <1>1, <4>1, <4>2
    <3>2. CASE cache[b].haveBusRequest
      <4>1. bus.inUse
        BY <1>1, <2>2, <3>2 DEF BusServes
      <4>2. bus.endCycle <= Due /\ cycles < bus.endCycle
        BY <1>1, <4>1 DEF BoundInv
      <4> QED  BY <1>1, <4>2
    <3> QED  BY <3>1, <3>2
  <2>4. cycles' <= Due'
    BY <1>1, <2>1, <2>3
  <2>5. ASSUME NEW i \in Caches  PROVE Timely(cache'[i], Due', cycles', HadTurn(i)')
    <3>1. Timely(cache[i], Due, cycles, HadTurn(i))
      BY DEF BoundInv
    <3>2. ~HadTurn(i)'
      BY <2>1 DEF HadTurn, Caches
    <3> QED  BY <1>1, <2>1, <3>1, <3>2 DEF Timely
  <2> QED  BY <1>1, <2>1, <2>4, <2>5 DEF BoundInv, JobsTakeBoundedTime, Due
<1>5. ASSUME NEW l \in TraceLines, NextJob(l)  PROVE BoundInv'
  <2> DEFINE p == accessProcessorId(l)
             jobs == Append(cache[p].pendingJobs, jobOf(l))
             r == [cache[p] EXCEPT !.pendingJobs = jobs]
  <2>1. /\ cycles' = cycles + 1 /\ UNCHANGED bus /\ phase' = "caches" /\ turn' = 0
        /\ cache' = [cache EXCEPT ![p] = r]
        /\ outstandingRequests' = outstandingRequests - 1
        /\ \A i \in Caches : ~cache[i].busy /\ ~cache[i].haveBusRequest
    BY <1>1, <1>5 DEF NextJob, HandOut, tick, noJobs, Flags
  <2>2. Due' = Due + LongestJob + 1
    <3>1. Due' = (TraceLength - (outstandingRequests - 1)) * (LongestJob + 1)
      BY <2>1 DEF Due
    <3>2. \A a, b \in Int : (a + 1) * b = a * b + b
      OBVIOUS
    <3>3. TraceLength - (outstandingRequests - 1) = (TraceLength - outstandingRequests) + 1
          /\ TraceLength - outstandingRequests \in Int /\ LongestJob + 1 \in Int
      BY <1>1, TraceAssumption, LongestJobIs
    <3>4. Due' = Due + (LongestJob + 1)
      BY <3>1, <3>2, <3>3 DEF Due
    <3> QED  BY <1>1, <3>4, LongestJobIs
  <2>3. cycles' <= Due' /\ cycles' + LongestJob <= Due'
    <3> HIDE DEF p, jobs, r
    <3>1. cycles <= Due /\ cycles \in Int /\ Due \in Int /\ LongestJob \in Nat
      BY <1>1, LongestJobIs
    <3>2. cycles' = cycles + 1
      BY <2>1
    <3> QED  BY <2>2, <3>1, <3>2
  <2>4. ASSUME NEW i \in Caches  PROVE Timely(cache'[i], Due', cycles', HadTurn(i)')
    <3> HIDE DEF p, jobs
    <3>1. p \in Caches => ~r.busy /\ ~r.haveBusRequest
      BY <1>1, <2>1 DEF CacheRecord
    <3>2. ~cache'[i].busy /\ ~cache'[i].haveBusRequest
      BY <1>1, <2>1, <3>1
    <3> QED  BY <2>3, <3>2 DEF Timely
  <2>5. ~bus'.inUse
    BY <1>1, <2>1 DEF BusServes, Flags
  <2> QED  BY <2>3, <2>4, <2>5 DEF BoundInv, JobsTakeBoundedTime, Due
<1> QED  BY <1>3, <1>4, <1>5

LEMMA CacheTurnBound ==
    ASSUME RefInv, BoundInv, CacheTurn
    PROVE  BoundInv'
<1> DEFINE c == cache[turn]
           r == Ticked(c)
<1>1. /\ turn \in Caches /\ CacheTick(turn) /\ phase = "caches"
      /\ UNCHANGED <<bus, cycles, outstandingRequests>>
      /\ cycles \in Nat /\ stats \in [Counters -> Nat] /\ cache \in [Caches -> CacheRecord]
      /\ WellFormed(c) /\ Flags(c) /\ Len(c.pendingJobs) <= 1
      /\ c.busy => c.pendingJobs = <<>>
      /\ Due \in Nat /\ Due' = Due
  BY DueIs DEF CacheTurn, RefInv, Inv, TypeOK, AllWellFormed, ControlInv, OneJobAtATime, Due
<1>2. cache' = IF c.busRequestBeingServiced THEN cache ELSE [cache EXCEPT ![turn] = r]
  BY <1>1, CacheTickStep
<1>3. Timely(c, Due, cycles, FALSE)
  <2>1. ~HadTurn(turn)
    BY <1>1 DEF HadTurn, Caches
  <2> QED  BY <1>1, <2>1 DEF BoundInv, Timely
<1>4. ~c.busRequestBeingServiced => Timely(r, Due, cycles, TRUE)
  <2>1. ~c.busRequestBeingServiced => ~c.haveBusRequest
    BY <1>1 DEF RefInv, Inv, ControlInv, PickedUp, Caches
  <2> QED  BY <1>1, <1>3, <2>1, TickedTimely
<1>5. c.busRequestBeingServiced => Timely(c, Due, cycles, TRUE)
  BY <1>1, <1>3 DEF Timely, Flags
<1> HIDE DEF r
<1>6. ASSUME NEW i \in Caches  PROVE Timely(cache'[i], Due, cycles, HadTurn(i)')
  <2>1. CASE i = turn
    <3>1. Timely(cache'[i], Due, cycles, TRUE)
      BY <1>1, <1>2, <1>4, <1>5, <2>1
    <3> QED  BY <3>1 DEF Timely
  <2>2. CASE i # turn
    <3>1. cache'[i] = cache[i]
      BY <1>1, <1>2, <2>2
    <3>2. HadTurn(i)' <=> HadTurn(i)
      <4>1. CASE turn + 1 \in Caches
        <5>1. phase' = "caches" /\ turn' = turn + 1
          BY <1>1, <4>1 DEF CacheTurn
        <5>2. i < turn + 1 <=> i < turn
          BY <1>1, <2>2, SizesAssumption DEF Caches
        <5> QED  BY <1>1, <5>1, <5>2 DEF HadTurn
      <4>2. CASE turn + 1 \notin Caches
        <5>1. phase' = "bus"
          BY <1>1, <4>2 DEF CacheTurn
        <5>2. i < turn
          BY <1>1, <2>2, <4>2, SizesAssumption DEF Caches
        <5> QED  BY <1>1, <5>1, <5>2 DEF HadTurn
      <4> QED  BY <4>1, <4>2
    <3>3. HadTurn(i)' \in BOOLEAN /\ HadTurn(i) \in BOOLEAN
      BY DEF HadTurn
    <3> QED  BY <3>1, <3>2, <3>3 DEF BoundInv, Timely
  <2> QED  BY <2>1, <2>2
<1>7. phase' # "loop"
  BY <1>1 DEF CacheTurn
<1> QED  BY <1>1, <1>6, <1>7 DEF BoundInv, JobsTakeBoundedTime

LEMMA BusTurnBound ==
    ASSUME RefInv, Coh!TagsAreSafe => Coh!OneOwner, RequestTakesTime', BoundInv, BusTurn
    PROVE  BoundInv'
<1>1. /\ phase = "bus" /\ phase' = "loop" /\ UNCHANGED <<cycles, outstandingRequests>>
      /\ cycles \in Nat /\ cache \in [Caches -> CacheRecord] /\ AllWellFormed(cache)
      /\ \A i \in Caches : WellFormed(cache[i]) /\ Flags(cache[i])
      /\ \A i \in Caches : cache[i].pendingJobs = <<>>
      /\ \A i \in Caches : HadTurn(i) /\ HadTurn(i)'
      /\ Due \in Nat /\ Due' = Due
  BY DueIs DEF BusTurn, RefInv, Inv, TypeOK, AllWellFormed, ControlInv, PickedUp, HasPending,
               HadTurn, Due
<1>2. \A i \in Caches : Timely(cache[i], Due, cycles, TRUE)
  BY <1>1 DEF BoundInv, Timely
<1>3. ASSUME \A i \in Caches : Timely(cache'[i], Due, cycles, TRUE),
             bus'.inUse => bus'.endCycle <= Due /\ cycles < bus'.endCycle
      PROVE  BoundInv'
  <2>1. \A i \in Caches : Timely(cache[i], Due, cycles, HadTurn(i))'
    BY <1>1, <1>3 DEF Timely
  <2> QED  BY <1>1, <1>3, <2>1 DEF BoundInv, JobsTakeBoundedTime
<1>4. CASE UNCHANGED cache /\ ((UNCHANGED bus /\ cycles < bus.endCycle) \/ ~bus'.inUse)
  BY <1>2, <1>3, <1>4 DEF BoundInv
<1>5. ASSUME NEW i \in Caches, ~bus'.inUse, cache[i].busRequestBeingServiced,
             cache' = [cache EXCEPT ![i] = busJobDone(cache[i], bus.isShared)]
      PROVE  BoundInv'
  <2> DEFINE r == busJobDone(cache[i], bus.isShared)
  <2>1. ~r.haveBusRequest /\ ~r.busy /\ r.pendingJobs = <<>>
    <3>1. bus.isShared \in BOOLEAN
      BY DEF RefInv, Inv, TypeOK
    <3> QED  BY <1>1, <1>5, <3>1, BusJobDoneKeeps DEF Flags
  <2>2. cache' = [cache EXCEPT ![i] = r]
    BY <1>5
  <2> HIDE DEF r
  <2>3. \A j \in Caches : Timely(cache'[j], Due, cycles, TRUE)
    BY <1>1, <1>2, <2>1, <2>2, IdleIsTimely
  <2> QED  BY <1>3, <1>5, <2>3
<1>6. ASSUME NEW i \in Caches, OnlyBusy(cache, i), cache[i].haveBusRequest,
             ~cache[i].busRequestBeingServiced, cache' = granted(cache, i),
             bus'.startCycle = cycles,
             bus'.endCycle = cycles + cache[i].busRequest.cycleCost + extraCycles(cache, i)
      PROVE  BoundInv'
  <2>1. cache[i].busRequest \in BusRequest
    BY <1>1, <1>6 DEF CacheRecord, Flags
  <2>2. cache[i].busRequest.cycleCost \in Nat /\ cache[i].busRequest.block \in Blocks
    BY <2>1 DEF BusRequest
  <2>3. extraCycles(cache, i) \in Int /\ extraCycles(cache, i) <= FlushTime
    BY <2>2, ExtraCycles, GrantInTime
  <2>4. cycles + cache[i].busRequest.cycleCost + FlushTime <= Due
    BY <1>2, <1>6 DEF Timely
  <2>5. bus'.endCycle <= Due
    BY <1>1, <1>6, <2>2, <2>3, <2>4, LongestJobIs
  <2>6. bus'.inUse => cycles < bus'.endCycle
    BY <1>1, <1>6, <2>2, <2>3 DEF RequestTakesTime
  <2>7. \A j \in Caches : Granted(cache[j], cache'[j], j = i)
    BY <1>1, <1>6, GrantedKeeps
  <2>8. ASSUME NEW j \in Caches  PROVE Timely(cache'[j], Due, cycles, TRUE)
    <3>1. CASE j = i
      BY <1>1, <1>6, <2>7, <3>1 DEF Granted, Timely
    <3>2. CASE j # i
      <4>1. ~cache'[j].busy /\ ~cache'[j].haveBusRequest /\ cache'[j].pendingJobs = <<>>
        BY <1>1, <1>6, <2>7, <3>2 DEF Granted, OnlyBusy, Flags
      <4> QED  BY <4>1, IdleIsTimely
    <3> QED  BY <3>1, <3>2
  <2> QED  BY <1>3, <2>5, <2>6, <2>8
<1> QED  BY <1>4, <1>5, <1>6, BusTurnCases

LEMMA BoundStep ==
    ASSUME RefInv, Coh!TagsAreSafe => Coh!OneOwner, RequestTakesTime', BoundInv, [Next]_vars
    PROVE  BoundInv'
<1>1. CASE UNCHANGED vars
  <2>1. Due' = Due /\ UNCHANGED <<cycles, cache, bus, phase, turn>>
    BY <1>1 DEF vars, Due
  <2>2. \A i \in Caches : HadTurn(i)' = HadTurn(i)
    BY <2>1 DEF HadTurn
  <2> QED  BY <1>1, <2>1, <2>2 DEF vars, BoundInv, JobsTakeBoundedTime
<1> QED  BY <1>1, LoopBound, CacheTurnBound, BusTurnBound DEF Next

\* No job keeps the simulation of CacheController.cpp longer than a write that has to wait
\* for a dirty line to make room, for the other caches' flushes and for memory: the clock
\* is bounded by the number of jobs, whatever the trace, the configuration and the protocol.
THEOREM JobsEndInTime == Spec => []JobsTakeBoundedTime
<1>1. Init => BoundInv
  <2> SUFFICES ASSUME Init  PROVE BoundInv
    OBVIOUS
  <2>1. cycles = 0 /\ Due \in Nat /\ ~bus.inUse
    BY DueIs, TraceAssumption DEF Init, NewBus
  <2>2. \A i \in Caches : ~cache[i].busy /\ ~cache[i].haveBusRequest
                          /\ cache[i].pendingJobs = <<>>
    BY DEF Init, NewCache
  <2>3. \A i \in Caches : Timely(cache[i], Due, cycles, HadTurn(i))
    BY <2>2, IdleIsTimely
  <2>4. cycles <= Due
    BY <2>1
  <2> QED  BY <2>1, <2>3, <2>4 DEF BoundInv, JobsTakeBoundedTime, Due
<1>2. RefInv /\ [Next]_vars => RefInv'
  BY StepRefines
<1>3. Init => RefInv
  BY InitRefines
<1>4. BoundInv => JobsTakeBoundedTime
  BY DEF BoundInv
<1>5. CASE Coh!TagsAreSafe
  <2>1. Spec => []Coh!OneOwner
    BY <1>5, SingleOwnerHolds
  <2>2. RefInv /\ Coh!OneOwner /\ RequestTakesTime' /\ BoundInv /\ [Next]_vars => BoundInv'
    BY BoundStep
  <2> QED  BY <1>1, <1>2, <1>3, <1>4, <2>1, <2>2, RequestsTakeTime, PTL DEF Spec
<1>6. CASE ~Coh!TagsAreSafe
  <2>1. RefInv /\ RequestTakesTime' /\ BoundInv /\ [Next]_vars => BoundInv'
    BY <1>6, BoundStep
  <2> QED  BY <1>1, <1>2, <1>3, <1>4, <2>1, RequestsTakeTime, PTL DEF Spec
<1> QED  BY <1>5, <1>6

-----------------------------------------------------------------------------
(***************************************************************************)
(* Every request has its data from one place.  A request that is on the    *)
(* bus and for which no cache has answered makes up the difference: memory *)
(* is counted when it is done.                                             *)
(***************************************************************************)
SourceInv ==
    /\ Protocol = "MSI" =>
          /\ stats["numCacheShare"] = 0
          /\ stats["numMainMemoryUses"] + Bool(bus.inUse) >= stats["numBusRequests"]
          /\ stats["numMainMemoryUses"] + Bool(bus.inUse)
                <= stats["numBusRequests"] + stats["numFlush"]
    /\ Protocol = "MOESI" =>
          stats["numCacheShare"] + stats["numMainMemoryUses"]
                + Bool(bus.inUse /\ ~bus.isShared)
             = stats["numBusRequests"]

LEMMA CountersAre ==
    ASSUME stats \in [Counters -> Nat]
    PROVE  /\ stats["numCacheShare"] \in Nat /\ stats["numMainMemoryUses"] \in Nat
           /\ stats["numBusRequests"] \in Nat /\ stats["numFlush"] \in Nat
BY DEF Counters

LEMMA CacheTurnSources ==
    ASSUME RefInv, SourceInv, CacheTurn
    PROVE  SourceInv'
<1>1. stats \in [Counters -> Nat] /\ UNCHANGED bus /\ CacheTick(turn)
  BY DEF RefInv, Inv, TypeOK, CacheTurn
<1>2. \A k : LET ns == handleRequestCounts(k) IN
         /\ "numCacheShare" \notin ns /\ "numMainMemoryUses" \notin ns
         /\ "numBusRequests" \notin ns
  <2> TAKE k
  <2>1. outcomeOf(k) \in {"hit", "exclusiveHit", "ownedUpgrade", "miss", "ignored"}
    BY Outcomes DEF outcomeOf
  <2> QED  BY <2>1 DEF handleRequestCounts
<1>3. CASE stats' = stats
  BY <1>1, <1>3 DEF SourceInv
<1>4. CASE stats' # stats
  <2>1. PICK k : stats' = Count(stats, handleRequestCounts(k))
    BY <1>1, <1>4 DEF CacheTick
  <2> DEFINE ns == handleRequestCounts(k)
  <2>2. /\ stats'["numCacheShare"] = stats["numCacheShare"] + Bool("numCacheShare" \in ns)
        /\ stats'["numMainMemoryUses"]
              = stats["numMainMemoryUses"] + Bool("numMainMemoryUses" \in ns)
        /\ stats'["numBusRequests"]
              = stats["numBusRequests"] + Bool("numBusRequests" \in ns)
        /\ stats'["numFlush"] = stats["numFlush"] + Bool("numFlush" \in ns)
    BY <1>1, <2>1, Counted DEF Counters
  <2>3. Bool("numCacheShare" \in ns) = 0 /\ Bool("numMainMemoryUses" \in ns) = 0
        /\ Bool("numBusRequests" \in ns) = 0 /\ Bool("numFlush" \in ns) \in Nat
        /\ Bool(bus.inUse) \in Nat
    BY <1>2 DEF Bool
  <2> HIDE DEF ns
  <2>4. /\ stats'["numCacheShare"] = stats["numCacheShare"]
        /\ stats'["numMainMemoryUses"] = stats["numMainMemoryUses"]
        /\ stats'["numBusRequests"] = stats["numBusRequests"]
        /\ stats'["numFlush"] \in Nat /\ stats'["numFlush"] >= stats["numFlush"]
    BY <1>1, <2>2, <2>3, CountersAre
  <2> QED  BY <1>1, <2>3, <2>4, CountersAre DEF SourceInv
<1> QED  BY <1>3, <1>4

\* What a broadcast adds to the counters.
LEMMA BroadcastAdds ==
    ASSUME NEW cs, NEW i, stats \in [Counters -> Nat], stats' = broadcastCounts(cs, i, stats),
           Protocol # "MESI"
    PROVE  LET flushers == Cardinality(repliers(cs, i, Flushes))
               suppliers == Cardinality(repliers(cs, i, Supplies))
           IN  /\ stats'["numBusRequests"] = stats["numBusRequests"] + 1
               /\ stats'["numFlush"] = stats["numFlush"] + flushers
               /\ stats'["numMainMemoryUses"] = stats["numMainMemoryUses"] + flushers
               /\ stats'["numCacheShare"] = stats["numCacheShare"] + suppliers
<1> DEFINE flushers == Cardinality(repliers(cs, i, Flushes))
           suppliers == Cardinality(repliers(cs, i, Supplies))
           memory == Bool(Protocol = "MESI" /\ repliers(cs, i, {"SHARED"}) = {})
           counted == Count(stats, {"numBusRequests"})
<1>1. flushers \in Nat /\ suppliers \in Nat /\ memory = 0
  BY HowManyReply DEF Bool
<1>2. counted \in [Counters -> Nat]
  BY CountKeeps
<1>3. /\ counted["numBusRequests"] = stats["numBusRequests"] + 1
      /\ counted["numFlush"] = stats["numFlush"] + 0
      /\ counted["numMainMemoryUses"] = stats["numMainMemoryUses"] + 0
      /\ counted["numCacheShare"] = stats["numCacheShare"] + 0
  BY Counted DEF Counters, Bool
<1>4. stats' = [counted EXCEPT !["numFlush"] = @ + flushers,
                               !["numMainMemoryUses"] = @ + flushers + memory,
                               !["numCacheShare"] = @ + suppliers]
  BY DEF broadcastCounts
<1> HIDE DEF flushers, suppliers, memory, counted
<1>5. /\ stats'["numBusRequests"] = counted["numBusRequests"]
      /\ stats'["numFlush"] = counted["numFlush"] + flushers
      /\ stats'["numMainMemoryUses"] = counted["numMainMemoryUses"] + flushers + memory
      /\ stats'["numCacheShare"] = counted["numCacheShare"] + suppliers
  BY <1>2, <1>4 DEF Counters
<1>6. /\ stats'["numBusRequests"] = stats["numBusRequests"] + 1
      /\ stats'["numFlush"] = stats["numFlush"] + flushers
      /\ stats'["numMainMemoryUses"] = stats["numMainMemoryUses"] + flushers
      /\ stats'["numCacheShare"] = stats["numCacheShare"] + suppliers
  BY <1>1, <1>3, <1>5, CountersAre
<1> QED  BY <1>6 DEF flushers, suppliers

\* MSI has no suppliers, and MOESI has no flushes on the bus.
LEMMA RepliesOfProtocol ==
    ASSUME NEW cs, NEW i
    PROVE  /\ Protocol = "MSI" => Cardinality(repliers(cs, i, Supplies)) = 0
           /\ Protocol = "MOESI" => Cardinality(repliers(cs, i, Flushes)) = 0
<1>1. \A x : /\ handleBusRdMSI(x).result \notin Supplies
             /\ handleBusRdXMSI(x).result \notin Supplies
             /\ handleBusRdMOESI(x).result \notin Flushes
             /\ handleBusRdXMOESI(x).result \notin Flushes
  BY DEF handleBusRdMSI, handleBusRdXMSI, handleBusRdMOESI, handleBusRdXMOESI,
         Reply, Supplies, Flushes
<1>2. \A command, x : /\ Protocol = "MSI" => snoopBusRequest(command, x).result \notin Supplies
                      /\ Protocol = "MOESI" =>
                            snoopBusRequest(command, x).result \notin Flushes
  BY <1>1 DEF snoopBusRequest
<1>3. Reply("NONE", "invalid").result \notin Supplies \cup Flushes
  BY DEF Reply, Supplies, Flushes
<1>4. \A j : /\ Protocol = "MSI" => reply(cs, i, j).result \notin Supplies
             /\ Protocol = "MOESI" => reply(cs, i, j).result \notin Flushes
  BY <1>2, <1>3 DEF reply
<1>5. /\ Protocol = "MSI" => repliers(cs, i, Supplies) = {}
      /\ Protocol = "MOESI" => repliers(cs, i, Flushes) = {}
  BY <1>4 DEF repliers
<1> QED  BY <1>5, FS_EmptySet

LEMMA GrantSources ==
    ASSUME RefInv, SourceInv, Protocol = "MOESI" => Coh!OneOwner, ~bus.inUse,
           NEW i \in Caches, cache[i].haveBusRequest,
           stats' = broadcastCounts(cache, i, stats),
           bus'.inUse, bus'.isShared = (repliers(cache, i, SharedReplies) # {})
    PROVE  SourceInv'
<1> DEFINE flushers == Cardinality(repliers(cache, i, Flushes))
           suppliers == Cardinality(repliers(cache, i, Supplies))
<1>1. stats \in [Counters -> Nat] /\ cache[i].busRequest.block \in Blocks
  <2>1. cache[i].busRequest \in BusRequest
    BY DEF RefInv, Inv, TypeOK, CacheRecord, ControlInv, Flags
  <2> QED  BY <2>1 DEF RefInv, Inv, TypeOK, BusRequest
<1>2. flushers \in Nat /\ suppliers \in Nat
  BY HowManyReply
<1>3. Bool(bus.inUse) = 0 /\ Bool(bus.inUse /\ ~bus.isShared) = 0 /\ Bool(bus'.inUse) = 1
  BY DEF Bool
<1>4. CASE Protocol = "MSI"
  <2>1. suppliers = 0
    BY <1>4, RepliesOfProtocol
  <2>2. /\ stats'["numBusRequests"] = stats["numBusRequests"] + 1
        /\ stats'["numFlush"] = stats["numFlush"] + flushers
        /\ stats'["numMainMemoryUses"] = stats["numMainMemoryUses"] + flushers
        /\ stats'["numCacheShare"] = stats["numCacheShare"] + suppliers
    BY <1>1, <1>4, BroadcastAdds
  <2> HIDE DEF flushers, suppliers
  <2>3. /\ stats["numCacheShare"] = 0
        /\ stats["numMainMemoryUses"] >= stats["numBusRequests"]
        /\ stats["numMainMemoryUses"] <= stats["numBusRequests"] + stats["numFlush"]
    <3>1. /\ stats["numCacheShare"] = 0
          /\ stats["numMainMemoryUses"] + Bool(bus.inUse) >= stats["numBusRequests"]
          /\ stats["numMainMemoryUses"] + Bool(bus.inUse)
                <= stats["numBusRequests"] + stats["numFlush"]
      BY <1>4 DEF SourceInv
    <3> QED  BY <1>1, <1>3, <3>1, CountersAre
  <2>4. /\ stats'["numCacheShare"] = 0
        /\ stats'["numMainMemoryUses"] + Bool(bus'.inUse) >= stats'["numBusRequests"]
        /\ stats'["numMainMemoryUses"] + Bool(bus'.inUse)
              <= stats'["numBusRequests"] + stats'["numFlush"]
    <3>1. stats'["numCacheShare"] = 0
      BY <2>1, <2>2, <2>3
    <3>2. /\ stats'["numMainMemoryUses"] = stats["numMainMemoryUses"] + flushers
          /\ stats'["numBusRequests"] = stats["numBusRequests"] + 1
          /\ stats'["numFlush"] = stats["numFlush"] + flushers
      BY <2>2
    <3>3. Bool(bus'.inUse) = 1
      BY <1>3
    <3>4. /\ stats["numMainMemoryUses"] + flushers + 1 >= stats["numBusRequests"] + 1
          /\ stats["numMainMemoryUses"] + flushers + 1
                <= stats["numBusRequests"] + 1 + (stats["numFlush"] + flushers)
      <4>1. flushers \in Nat
        BY <1>2
      <4> QED  BY <1>1, <2>3, <4>1, CountersAre
    <3> QED  BY <3>1, <3>2, <3>3, <3>4
  <2> QED  BY <1>4, <2>4 DEF SourceInv
<1>5. CASE Protocol = "MOESI"
  <2>1. flushers = 0 /\ suppliers \in {0, 1}
    BY <1>1, <1>5, RepliesOfProtocol, OneSupplier
  <2>2. /\ stats'["numBusRequests"] = stats["numBusRequests"] + 1
        /\ stats'["numMainMemoryUses"] = stats["numMainMemoryUses"] + flushers
        /\ stats'["numCacheShare"] = stats["numCacheShare"] + suppliers
    BY <1>1, <1>5, BroadcastAdds
  <2>3. Bool(bus'.inUse /\ ~bus'.isShared) = 1 - suppliers
    <3>1. SharedReplies = Supplies
      BY <1>5 DEF SharedReplies, Supplies
    <3>2. bus'.isShared <=> suppliers # 0
      <4>1. repliers(cache, i, Supplies) \subseteq Caches
        BY DEF repliers
      <4>2. IsFiniteSet(Caches)
        BY FS_Interval, SizesAssumption DEF Caches
      <4>3. IsFiniteSet(repliers(cache, i, Supplies))
        BY <4>1, <4>2, FS_Subset
      <4>4. suppliers = 0 <=> repliers(cache, i, Supplies) = {}
        BY <4>3, FS_EmptySet
      <4> QED  BY <3>1, <4>4
    <3> HIDE DEF suppliers
    <3>3. CASE suppliers = 0
      <4>1. bus'.inUse /\ ~bus'.isShared
        BY <3>2, <3>3
      <4> QED  BY <3>3, <4>1 DEF Bool
    <3>4. CASE suppliers = 1
      <4>1. ~(bus'.inUse /\ ~bus'.isShared)
        BY <3>2, <3>4
      <4> QED  BY <3>4, <4>1 DEF Bool
    <3> QED  BY <2>1, <3>3, <3>4
  <2> HIDE DEF flushers, suppliers
  <2> QED  BY <1>1, <1>3, <1>5, <2>1, <2>2, <2>3, CountersAre DEF SourceInv
<1>6. CASE Protocol = "MESI"
  BY <1>6 DEF SourceInv
<1> QED  BY <1>4, <1>5, <1>6, ProtocolAssumption

LEMMA DoneSources ==
    ASSUME RefInv, SourceInv, Protocol = "MOESI" => Proved!WriterIsNotOwner, bus.inUse,
           bus.currentCache \in Caches, OnlyBusy(cache, bus.currentCache),
           cache[bus.currentCache].busRequestBeingServiced,
           stats' = Count(stats, busJobDoneCounts(cache[bus.currentCache], bus.isShared)),
           ~bus'.inUse
    PROVE  SourceInv'
<1> DEFINE i == bus.currentCache
           k == cache[i]
           ns == busJobDoneCounts(k, bus.isShared)
           s == SetOfJob(k)
           t == TagOfJob(k)
           stillOwned == hasLine(s, t) /\ getLine(s, t).state = "owned"
<1>1. /\ stats \in [Counters -> Nat] /\ bus.isShared \in BOOLEAN
      /\ k.haveBusRequest /\ k.currentJob # NULL /\ k.currentJob.op \in {"R", "W"}
      /\ WellFormed(k)
  BY DEF RefInv, Inv, TypeOK, AllWellFormed, ControlInv, Flags
<1>2. /\ stats'["numCacheShare"] = stats["numCacheShare"] + Bool("numCacheShare" \in ns)
      /\ stats'["numMainMemoryUses"]
            = stats["numMainMemoryUses"] + Bool("numMainMemoryUses" \in ns)
      /\ stats'["numBusRequests"] = stats["numBusRequests"] + Bool("numBusRequests" \in ns)
      /\ stats'["numFlush"] = stats["numFlush"] + Bool("numFlush" \in ns)
  BY <1>1, Counted DEF Counters
<1>3. "numBusRequests" \notin ns /\ "numFlush" \notin ns
  BY ProtocolAssumption DEF busJobDoneCounts
<1>4. CASE Protocol = "MSI"
  <2>1. "numMainMemoryUses" \in ns /\ "numCacheShare" \notin ns
    BY <1>4 DEF busJobDoneCounts
  <2>2. /\ stats'["numCacheShare"] = stats["numCacheShare"] + 0
        /\ stats'["numMainMemoryUses"] = stats["numMainMemoryUses"] + 1
        /\ stats'["numBusRequests"] = stats["numBusRequests"] + 0
        /\ stats'["numFlush"] = stats["numFlush"] + 0
        /\ Bool(bus.inUse) = 1 /\ Bool(bus'.inUse) = 0
    BY <1>2, <1>3, <2>1 DEF Bool
  <2> HIDE DEF ns
  <2>3. /\ stats["numCacheShare"] = 0
        /\ stats["numMainMemoryUses"] + Bool(bus.inUse) >= stats["numBusRequests"]
        /\ stats["numMainMemoryUses"] + Bool(bus.inUse)
              <= stats["numBusRequests"] + stats["numFlush"]
    BY <1>4 DEF SourceInv
  <2>4. /\ stats'["numCacheShare"] = 0
        /\ stats'["numMainMemoryUses"] + Bool(bus'.inUse) >= stats'["numBusRequests"]
        /\ stats'["numMainMemoryUses"] + Bool(bus'.inUse)
              <= stats'["numBusRequests"] + stats'["numFlush"]
    <3>1. stats'["numCacheShare"] = 0
      BY <2>2, <2>3
    <3>2. /\ stats["numMainMemoryUses"] + 1 >= stats["numBusRequests"]
          /\ stats["numMainMemoryUses"] + 1 <= stats["numBusRequests"] + stats["numFlush"]
      BY <2>2, <2>3
    <3>3. /\ stats'["numMainMemoryUses"] = stats["numMainMemoryUses"] + 1
          /\ stats'["numBusRequests"] = stats["numBusRequests"]
          /\ stats'["numFlush"] = stats["numFlush"]
      BY <1>1, <2>2, CountersAre
    <3>4. Bool(bus'.inUse) = 0
      BY <2>2
    <3> QED  BY <1>1, <3>1, <3>2, <3>3, <3>4, CountersAre
  <2> QED  BY <1>4, <2>4 DEF SourceInv
<1>5. CASE Protocol = "MOESI"
  <2>1. k.currentJob.op = "W" => ~stillOwned
    <3>1. jobView = JobOf(k, i, bus.isShared)
      BY JobMapped, Mapped
    <3>2. /\ jobView.phase = "granted" /\ jobView.op = k.currentJob.op
          /\ jobView.proc = i /\ jobView.block = k.currentJob.block
      BY <1>1, <3>1 DEF JobOf, PhaseOf
    <3>3. k.currentJob.op = "W" => lineView[i][k.currentJob.block] # "owned"
      BY <1>5, <3>2 DEF Proved!WriterIsNotOwner
    <3>4. k.currentJob.block \in Blocks
      BY <1>1, JobParts DEF CacheJob
    <3>5. lineView[i][k.currentJob.block] =
            IF hasLine(s, t) THEN getLine(s, t).state ELSE "absent"
      BY <3>4 DEF lineView, SetOfJob, TagOfJob
    <3> QED  BY <3>3, <3>5
  <2>2. /\ "numCacheShare" \notin ns
        /\ "numMainMemoryUses" \in ns <=> ~bus.isShared
    BY <1>5, <2>1 DEF busJobDoneCounts
  <2> HIDE DEF ns
  <2>3. /\ stats'["numCacheShare"] = stats["numCacheShare"] + 0
        /\ stats'["numMainMemoryUses"] = stats["numMainMemoryUses"] + Bool(~bus.isShared)
        /\ stats'["numBusRequests"] = stats["numBusRequests"] + 0
        /\ Bool(bus.inUse /\ ~bus.isShared) = Bool(~bus.isShared)
        /\ Bool(bus'.inUse /\ ~bus'.isShared) = 0
        /\ Bool(~bus.isShared) \in Nat
    BY <1>2, <1>3, <2>2 DEF Bool
  <2> QED  BY <1>1, <1>5, <2>3, CountersAre DEF SourceInv
<1>6. CASE Protocol = "MESI"
  BY <1>6 DEF SourceInv
<1> QED  BY <1>4, <1>5, <1>6, ProtocolAssumption

LEMMA BusTurnSources ==
    ASSUME RefInv, SourceInv, BusTurn,
           Protocol = "MOESI" => Coh!OneOwner /\ Proved!WriterIsNotOwner
    PROVE  SourceInv'
<1> DEFINE i == bus.currentCache
           done == bus.inUse /\ bus.endCycle <= cycles
           cs == IF done THEN [cache EXCEPT ![i] = busJobDone(@, bus.isShared)] ELSE cache
           st == IF done THEN Count(stats, busJobDoneCounts(cache[i], bus.isShared))
                 ELSE stats
           waiting == {j \in Caches : cs[j].haveBusRequest}
           next == Min(waiting)
<1>1. /\ AllWellFormed(cache) /\ stats \in [Counters -> Nat] /\ cycles \in Nat
      /\ bus \in [inUse : BOOLEAN, currentCache : Caches \cup {-1}, startCycle : Nat,
                  endCycle : Int, isShared : BOOLEAN]
      /\ BusServes /\ BusTick /\ (\A j \in Caches : Flags(cache[j]))
      /\ \A j, m \in Caches : cache[j].busy /\ cache[m].busy => j = m
  BY DEF RefInv, Inv, TypeOK, BusTurn, ControlInv, OneJobAtATime
<1>2. CASE bus.inUse /\ ~done
  <2>1. UNCHANGED <<stats, bus>>
    BY <1>1, <1>2 DEF BusTick
  <2> QED  BY <2>1 DEF SourceInv
<1>3. CASE done
  <2>1. i \in Caches /\ cache[i].busRequestBeingServiced /\ OnlyBusy(cache, i)
    BY <1>1, <1>3 DEF BusServes, Flags, OnlyBusy
  <2> DEFINE r == busJobDone(cache[i], bus.isShared)
  <2>2. ~r.haveBusRequest
    <3>1. WellFormed(cache[i]) /\ bus.isShared \in BOOLEAN
      BY <1>1, <2>1 DEF AllWellFormed
    <3> QED  BY <1>1, <2>1, <3>1, BusJobDoneKeeps DEF Flags
  <2>3. cs = [cache EXCEPT ![i] = r]
        /\ st = Count(stats, busJobDoneCounts(cache[i], bus.isShared))
    BY <1>3
  <2> HIDE DEF r
  <2>4. waiting = {}
    <3> HIDE DEF cs
    <3>1. \A j \in Caches : cs[j] = IF j = i THEN r ELSE cache[j]
      BY <1>1, <2>1, <2>3 DEF AllWellFormed
    <3>2. \A j \in Caches : j # i => ~cache[j].haveBusRequest
      BY <1>1, <2>1 DEF Flags
    <3> QED  BY <2>2, <3>1, <3>2
  <2>5. stats' = st /\ bus' = [bus EXCEPT !.inUse = FALSE, !.isShared = FALSE,
                                          !.currentCache = -1]
    <3>1. bus.inUse /\ bus.endCycle <= cycles
      BY <1>3
    <3> QED  BY <1>1, <2>4, <3>1 DEF BusTick
  <2> HIDE DEF st, cs
  <2>6. ~bus'.inUse
    BY <1>1, <2>5
  <2> QED  BY <1>3, <2>1, <2>3, <2>5, <2>6, DoneSources
<1>4. CASE ~bus.inUse
  <2>1. cs = cache /\ st = stats /\ ~done
    BY <1>4
  <2>2. CASE waiting = {}
    <3>1. stats' = st /\ bus' = [bus EXCEPT !.inUse = FALSE, !.isShared = FALSE,
                                            !.currentCache = IF done THEN -1 ELSE @]
      BY <1>1, <1>4, <2>2 DEF BusTick
    <3> HIDE DEF st, done
    <3>2. bus'.inUse = bus.inUse /\ bus'.isShared = FALSE
      BY <1>1, <1>4, <3>1
    <3>3. bus.isShared = FALSE
      BY <1>1, <1>4 DEF RefInv
    <3> QED  BY <2>1, <3>1, <3>2, <3>3 DEF SourceInv
  <2>3. CASE waiting # {}
    <3> DEFINE shared == repliers(cs, next, SharedReplies) # {}
               end == cycles + cs[next].busRequest.cycleCost + extraCycles(cs, next)
    <3>1. /\ stats' = broadcastCounts(cs, next, st)
          /\ bus' = [inUse |-> TRUE, currentCache |-> next, startCycle |-> cycles,
                     endCycle |-> end, isShared |-> shared]
      BY <1>1, <1>4, <2>3 DEF BusTick
    <3> HIDE DEF end
    <3>2. next \in Caches /\ cs[next].haveBusRequest
      <4>1. next \in waiting
        BY <2>3, FirstCache
      <4> QED  BY <4>1
    <3> HIDE DEF next, cs, st
    <3>3. bus'.inUse /\ bus'.isShared = shared
      BY <3>1
    <3> QED  BY <1>4, <2>1, <3>1, <3>2, <3>3, GrantSources
  <2> QED  BY <2>2, <2>3
<1> QED  BY <1>1, <1>2, <1>3, <1>4

LEMMA SourceStep ==
    ASSUME RefInv, SourceInv, [Next]_vars,
           Protocol = "MOESI" => Coh!OneOwner /\ Proved!WriterIsNotOwner
    PROVE  SourceInv'
<1>1. CASE UNCHANGED <<stats, bus>>
  BY <1>1 DEF SourceInv
<1>2. CASE Finish \/ NextCycle \/ (\E l \in TraceLines : NextJob(l)) \/ UNCHANGED vars
  BY <1>1, <1>2 DEF Finish, NextCycle, NextJob, HandOut, vars
<1> QED  BY <1>2, CacheTurnSources, BusTurnSources DEF Next

LEMMA SourceAlways ==
    (Protocol = "MOESI" => Coh!NoTagSharing) => (Spec => [](RefInv /\ SourceInv))
<1> SUFFICES ASSUME Protocol = "MOESI" => Coh!NoTagSharing
             PROVE  Spec => [](RefInv /\ SourceInv)
  OBVIOUS
<1>1. Init => SourceInv
  <2> SUFFICES ASSUME Init  PROVE SourceInv
    OBVIOUS
  <2>1. /\ stats["numCacheShare"] = 0 /\ stats["numMainMemoryUses"] = 0
        /\ stats["numBusRequests"] = 0 /\ stats["numFlush"] = 0
    BY DEF Init, CacheStats, Counters
  <2>2. Bool(bus.inUse) = 0 /\ Bool(bus.inUse /\ ~bus.isShared) = 0
    BY DEF Init, NewBus, Bool
  <2> QED  BY <2>1, <2>2 DEF SourceInv
<1>2. Init => RefInv
  BY InitRefines
<1>3. RefInv /\ [Next]_vars => RefInv'
  BY StepRefines
<1>4. CASE Protocol = "MOESI"
  <2>1. Coh!TagsAreSafe /\ Proved!NoTagSharing
    BY <1>4, TagsAlike DEF Coh!TagsAreSafe
  <2>2. Spec => []Coh!OneOwner
    BY <2>1, SingleOwnerHolds
  <2>3. Proved!Spec => []Proved!WriterIsNotOwner
    BY <1>4, <2>1, ProtocolAssumption, Proved!WriterDoesNotOwn
  <2>4. RefInv /\ SourceInv /\ Coh!OneOwner /\ Proved!WriterIsNotOwner /\ [Next]_vars
           => SourceInv'
    BY SourceStep
  <2> QED  BY <1>1, <1>2, <1>3, <2>2, <2>3, <2>4, SimulatorIsProtocol, PTL DEF Spec
<1>5. CASE Protocol # "MOESI"
  <2>1. RefInv /\ SourceInv /\ [Next]_vars => SourceInv'
    BY <1>5, SourceStep
  <2> QED  BY <1>1, <1>2, <1>3, <2>1, PTL DEF Spec
<1> QED  BY <1>4, <1>5

(***************************************************************************)
(* Which requests are misses.  A miss has asked for the bus as soon as it  *)
(* is counted, and only a miss is answered by a cache: a request for a     *)
(* line that is modified already, an upgrade, finds no other owner.        *)
(***************************************************************************)
Asking == {i \in Unserved : lineView[i][cache[i].busRequest.block] # "modified"}

MissInv ==
    /\ stats["numMiss"] <= stats["numBusRequests"] + Bool(Unserved # {})
    /\ Protocol = "MOESI" =>
          stats["numCacheShare"] + Bool(Asking # {}) <= stats["numMiss"]

LEMMA MissesAre ==
    ASSUME stats \in [Counters -> Nat]
    PROVE  /\ stats["numCacheShare"] \in Nat /\ stats["numMiss"] \in Nat
           /\ stats["numBusRequests"] \in Nat
BY DEF Counters

\* What the cache k makes of its new job asks for the bus if that is a miss; if it is an
\* upgrade, the line of the request is modified.
LEMMA StartAsks ==
    ASSUME NEW k, NEW r, WellFormed(k), WellFormed(r), OnlyBlocks(k), Started(k, r),
           k.currentJob # NULL
    PROVE  LET b == k.currentJob.block IN
           /\ outcomeOf(k) = "miss" => r.haveBusRequest
           /\ r.haveBusRequest /\ outcomeOf(k) # "miss" /\ Coh!NoTagSharing =>
                 ViewOf(r, SetOf(b), TagOf(b)) = "modified"
<1> DEFINE b == k.currentJob.block
           t == TagOfJob(k)
<1>1. outcomeOf(k) = "miss" => r.haveBusRequest
  BY DEF Started
<1>2. ASSUME r.haveBusRequest, outcomeOf(k) # "miss", Coh!NoTagSharing
      PROVE  ViewOf(r, SetOf(b), TagOf(b)) = "modified"
  <2>1. outcomeOf(k) = "ownedUpgrade" /\ Modified(k, r) /\ t = TagOf(b)
    BY <1>2 DEF Started, TagOfJob
  <2>2. Held(k, t) # {}
    <3>1. \A op : handleRequestOutcome(op, {}) # "ownedUpgrade"
      BY ProtocolAssumption DEF handleRequestOutcome, readOutcome, writeOutcome
    <3> QED  BY <2>1, <3>1 DEF outcomeOf
  <2>3. PICK set \in Sets : ViewOf(k, set, t) # "absent"
    <3>1. Held(k, t) = {ViewOf(k, set, t) : set \in Sets} \ {"absent"}
      BY HeldIs
    <3> QED  BY <2>2, <3>1
  <2>4. b \in Blocks /\ <<set, t>> \in Blocks
    BY <2>3, JobParts DEF CacheJob, OnlyBlocks
  <2>5. <<set, t>> = b
    BY <1>2, <2>1, <2>4 DEF Coh!NoTagSharing, Coh!TagOf, TagOf
  <2>6. set = SetOf(b)
    BY <2>5 DEF SetOf
  <2> QED  BY <2>1, <2>3, <2>6 DEF Modified
<1> QED  BY <1>1, <1>2

\* A read, a write or a comment that a cache takes on changes no other counters of these.
LEMMA StartMisses ==
    ASSUME NEW k
    PROVE  LET ns == handleRequestCounts(k)
           IN  /\ "numMiss" \in ns <=> outcomeOf(k) = "miss"
               /\ "numCacheShare" \notin ns /\ "numBusRequests" \notin ns
<1>1. outcomeOf(k) \in {"hit", "exclusiveHit", "ownedUpgrade", "miss", "ignored"}
  BY Outcomes DEF outcomeOf
<1> QED  BY <1>1 DEF handleRequestCounts

LEMMA CacheTurnMisses ==
    ASSUME RefInv, MissInv, CacheTurn, Protocol = "MOESI" => Coh!NoTagSharing
    PROVE  MissInv'
<1> DEFINE c == cache[turn]
           r == Ticked(c)
           k == finished(c)
           n == nextJob(k)
           starts == ~k.busy /\ k.pendingJobs # <<>>
<1>1. /\ turn \in Caches /\ CacheTick(turn) /\ phase = "caches"
      /\ cache \in [Caches -> CacheRecord] /\ stats \in [Counters -> Nat]
      /\ cycles \in Nat
      /\ \A i \in Caches : WellFormed(cache[i]) /\ Flags(cache[i]) /\ OnlyBlocks(cache[i])
  BY DEF RefInv, Inv, TypeOK, CacheTurn, AllWellFormed, ControlInv
<1>2. \A i \in Caches : WellFormed(cache'[i]) /\ Flags(cache'[i])
  BY CacheTurnInv DEF RefInv, Inv, AllWellFormed, ControlInv
<1>3. CASE c.busRequestBeingServiced
  <2>1. UNCHANGED <<cache, stats>>
    BY <1>1, <1>3 DEF CacheTick
  <2>2. UNCHANGED lineView
    BY <2>1, Mapped
  <2> QED  BY <2>1, <2>2 DEF MissInv, Asking, Unserved
<1>4. CASE ~c.busRequestBeingServiced
  <2>1. /\ WellFormed(c) /\ Flags(c) /\ ~c.haveBusRequest /\ Len(c.pendingJobs) <= 1
        /\ c.busy => c.pendingJobs = <<>>
    <3>1. ~(turn < turn)
      BY <1>1 DEF Caches
    <3> QED  BY <1>1, <1>4, <3>1 DEF RefInv, Inv, ControlInv, OneJobAtATime, PickedUp
  <2>2. /\ cache' = [cache EXCEPT ![turn] = r]
        /\ stats' = IF starts THEN Count(stats, handleRequestCounts(n)) ELSE stats
    BY <1>1, <1>4, CacheTickStep DEF CacheTick
  <2>3. /\ SameView(c, k) /\ k.pendingJobs = c.pendingJobs
        /\ ~k.haveBusRequest /\ r = IF starts THEN handleRequest(n) ELSE k
        /\ starts => /\ WellFormed(n) /\ SameView(c, n)
                     /\ n.currentJob # NULL /\ ~n.haveBusRequest
    BY <1>1, <2>1, TickedJob
  <2>4. ~starts \/ n.currentJob.op \notin {"R", "W"} => SameView(c, r) /\ ~r.haveBusRequest
    <3>1. n.currentJob.op \notin {"R", "W"} => handleRequest(n) = n
      BY Outcomes DEF outcomeOf, handleRequest
    <3> QED  BY <2>3, <3>1
  <2>5. starts => /\ \A i \in Caches \ {turn} : ~cache[i].haveBusRequest
                  /\ stats' = Count(stats, handleRequestCounts(n))
    <3>1. HasPending(turn) <=> c.pendingJobs # <<>>
      BY DEF HasPending
    <3> QED  BY <1>1, <2>2, <2>3, <3>1
             DEF RefInv, Inv, ControlInv, OneJobAtATime, Flags
  <2>6. WellFormed(r) /\ Flags(r) /\ \A i \in Caches : cache'[i] = IF i = turn THEN r ELSE cache[i]
    BY <1>1, <1>2, <2>2
  <2>7. starts /\ n.currentJob.op \in {"R", "W"} => Started(n, r) /\ OnlyBlocks(n)
    BY <1>1, <2>3, HandleRequestStarts, SameViewKeeps
  <2>8. starts /\ n.currentJob.op \notin {"R", "W"} => outcomeOf(n) = "ignored"
    BY Outcomes DEF outcomeOf
  <2> HIDE DEF n, k, r, c, starts
  \* The cache has not asked before, and does not ask now.
  <2>9. ASSUME SameView(c, r), ~r.haveBusRequest
        PROVE  UNCHANGED <<Unserved, Asking>>
    <3>1. \A i \in Caches : SameView(cache[i], cache'[i])
      BY <2>6, <2>9 DEF SameView, c
    <3>2. UNCHANGED lineView
      BY <3>1, Mapped, SameLineView
    <3>3. UNCHANGED Unserved /\ turn \notin Unserved
      BY <1>1, <2>1, <2>6, <2>9 DEF Unserved, c
    <3>4. \A i \in Unserved : cache'[i] = cache[i]
      BY <2>6, <3>3 DEF Unserved
    <3> QED  BY <3>2, <3>3, <3>4 DEF Asking
  <2>10. CASE ~starts
    BY <2>2, <2>4, <2>9, <2>10 DEF MissInv
  <2>11. CASE starts
    <3> DEFINE ns == handleRequestCounts(n)
    <3>1. /\ stats'["numCacheShare"] = stats["numCacheShare"] + Bool("numCacheShare" \in ns)
          /\ stats'["numMiss"] = stats["numMiss"] + Bool("numMiss" \in ns)
          /\ stats'["numBusRequests"] = stats["numBusRequests"] + Bool("numBusRequests" \in ns)
      BY <1>1, <2>5, <2>11, Counted DEF Counters
    <3>2. /\ "numMiss" \in ns <=> outcomeOf(n) = "miss"
          /\ "numCacheShare" \notin ns /\ "numBusRequests" \notin ns
      BY StartMisses
    <3> HIDE DEF ns
    <3>3. Unserved = {} /\ Asking = {}
      BY <1>1, <2>1, <2>5, <2>11 DEF Unserved, Asking, c
    <3>4. outcomeOf(n) = "miss" => Unserved' # {}
      <4> SUFFICES ASSUME outcomeOf(n) = "miss"  PROVE turn \in Unserved'
        OBVIOUS
      <4>1. r.haveBusRequest /\ ~r.busRequestBeingServiced
        <5>1. n.currentJob.op \in {"R", "W"}
          BY <2>8, <2>11
        <5>2. Started(n, r)
          BY <2>7, <2>11, <5>1
        <5>3. r.haveBusRequest
          BY <5>2 DEF Started
        <5>4. ~r.busRequestBeingServiced
          BY <1>1, <1>4, <2>1, TickedKeeps DEF r
        <5> QED  BY <5>3, <5>4
      <4> QED  BY <1>1, <2>6, <4>1 DEF Unserved
    <3>5. ASSUME Protocol = "MOESI", outcomeOf(n) # "miss"  PROVE Asking' = {}
      <4>1. \A i \in Caches : i # turn => ~cache'[i].haveBusRequest
        BY <2>5, <2>6, <2>11
      <4>2. ASSUME r.haveBusRequest
            PROVE  lineView'[turn][r.busRequest.block] = "modified"
        <5> DEFINE b == n.currentJob.block
        <5>1. n.currentJob.op \in {"R", "W"}
          BY <2>4, <4>2
        <5>2. Started(n, r) /\ OnlyBlocks(n) /\ Coh!NoTagSharing
          BY <2>7, <2>11, <3>5, <5>1
        <5>3. ViewOf(r, SetOf(b), TagOf(b)) = "modified"
          BY <2>3, <2>6, <2>11, <3>5, <4>2, <5>2, StartAsks
        <5>4. r.busRequest.block = b /\ b \in Blocks
          <6>1. r.busRequest.block = r.currentJob.block
            BY <2>6, <4>2 DEF Flags
          <6>2. b \in Blocks
            BY <2>3, <2>11, JobParts DEF CacheJob
          <6> QED  BY <5>2, <6>1, <6>2 DEF Started
        <5>5. lineView'[turn][b] = ViewOf(r, SetOf(b), TagOf(b))
          BY <1>1, <2>6, <5>4, Mapped DEF LineView
        <5> QED  BY <5>3, <5>4, <5>5
      <4> QED  BY <2>6, <4>1, <4>2 DEF Asking, Unserved
    <3>6. /\ Bool("numMiss" \in ns) <= Bool(Unserved' # {})
          /\ Protocol = "MOESI" => Bool(Asking' # {}) <= Bool("numMiss" \in ns)
          /\ Bool("numMiss" \in ns) \in Nat
          /\ Bool(Unserved' # {}) \in Nat /\ Bool(Asking' # {}) \in Nat
          /\ Bool(Unserved # {}) = 0 /\ Bool(Asking # {}) = 0
          /\ Bool("numCacheShare" \in ns) = 0 /\ Bool("numBusRequests" \in ns) = 0
      BY <3>2, <3>3, <3>4, <3>5 DEF Bool
    <3>7. stats["numMiss"] <= stats["numBusRequests"]
          /\ (Protocol = "MOESI" => stats["numCacheShare"] <= stats["numMiss"])
      BY <1>1, <3>6, MissesAre DEF MissInv
    <3>8. /\ stats'["numCacheShare"] = stats["numCacheShare"]
          /\ stats'["numBusRequests"] = stats["numBusRequests"]
      BY <1>1, <3>1, <3>6, MissesAre
    <3> QED  BY <1>1, <3>1, <3>6, <3>7, <3>8, MissesAre DEF MissInv
  <2> QED  BY <2>10, <2>11
<1> QED  BY <1>3, <1>4

\* An answer by a cache is an answer to a miss.
LEMMA GrantShares ==
    ASSUME RefInv, Protocol = "MOESI", Coh!OneOwner, NEW i \in Caches,
           cache[i].haveBusRequest, ~cache[i].busRequestBeingServiced,
           stats' = broadcastCounts(cache, i, stats)
    PROVE  stats'["numCacheShare"] <= stats["numCacheShare"] + Bool(Asking # {})
<1> DEFINE b == cache[i].busRequest.block
           who == repliers(cache, i, Supplies)
           suppliers == Cardinality(who)
<1>1. stats \in [Counters -> Nat] /\ b \in Blocks
  <2>1. cache[i].busRequest \in BusRequest
    BY DEF RefInv, Inv, TypeOK, CacheRecord, ControlInv, Flags
  <2> QED  BY <2>1 DEF RefInv, Inv, TypeOK, BusRequest
<1>2. suppliers \in {0, 1} /\ stats'["numCacheShare"] = stats["numCacheShare"] + suppliers
  BY <1>1, OneSupplier, BroadcastAdds
<1>3. ASSUME NEW j \in who  PROVE i \in Asking
  <2>1. j \in Caches /\ j # i /\ lineView[j][b] \in Coh!Owning
    <3>1. j \in Caches /\ j # i
      BY <1>3 DEF repliers
    <3>2. lineView[j][b] \in Coh!Owning
      BY <1>1, <1>3, SupplierOwns
    <3> QED  BY <3>1, <3>2
  <2>2. lineView[i][b] \notin Coh!Owning
    BY <1>1, <2>1 DEF Coh!OneOwner
  <2>3. lineView[i][b] # "modified"
    BY <2>2 DEF Coh!Owning
  <2> QED  BY <2>3 DEF Asking, Unserved
<1> HIDE DEF who
<1>4. who = {} => suppliers = 0
  BY FS_EmptySet
<1>5. suppliers <= Bool(Asking # {})
  BY <1>2, <1>3, <1>4 DEF Bool
<1>6. Bool(Asking # {}) \in Nat /\ suppliers \in Nat
  BY <1>2 DEF Bool
<1> HIDE DEF suppliers
<1> QED  BY <1>1, <1>2, <1>5, <1>6, MissesAre

LEMMA BusTurnShares ==
    ASSUME RefInv, Protocol = "MOESI", Coh!OneOwner, BusTurn
    PROVE  stats'["numCacheShare"] <= stats["numCacheShare"] + Bool(Asking # {})
<1> DEFINE i == bus.currentCache
           done == bus.inUse /\ bus.endCycle <= cycles
           cs == IF done THEN [cache EXCEPT ![i] = busJobDone(@, bus.isShared)] ELSE cache
           st == IF done THEN Count(stats, busJobDoneCounts(cache[i], bus.isShared))
                 ELSE stats
           waiting == {j \in Caches : cs[j].haveBusRequest}
           next == Min(waiting)
<1>1. /\ AllWellFormed(cache) /\ stats \in [Counters -> Nat] /\ cycles \in Nat
      /\ bus \in [inUse : BOOLEAN, currentCache : Caches \cup {-1}, startCycle : Nat,
                  endCycle : Int, isShared : BOOLEAN]
      /\ BusServes /\ BusTick /\ (\A j \in Caches : Flags(cache[j]))
      /\ \A j, m \in Caches : cache[j].busy /\ cache[m].busy => j = m
  BY DEF RefInv, Inv, TypeOK, BusTurn, ControlInv, OneJobAtATime
<1>2. ASSUME stats'["numCacheShare"] = stats["numCacheShare"]
      PROVE  stats'["numCacheShare"] <= stats["numCacheShare"] + Bool(Asking # {})
  BY <1>1, <1>2, MissesAre DEF Bool
<1>3. CASE bus.inUse /\ ~done
  <2>1. stats' = stats
    BY <1>1, <1>3 DEF BusTick
  <2> QED  BY <1>2, <2>1
<1>4. CASE done
  <2>1. i \in Caches /\ cache[i].busRequestBeingServiced /\ OnlyBusy(cache, i)
    BY <1>1, <1>4 DEF BusServes, Flags, OnlyBusy
  <2> DEFINE r == busJobDone(cache[i], bus.isShared)
             ns == busJobDoneCounts(cache[i], bus.isShared)
  <2>2. ~r.haveBusRequest
    <3>1. WellFormed(cache[i]) /\ bus.isShared \in BOOLEAN
      BY <1>1, <2>1 DEF AllWellFormed
    <3> QED  BY <1>1, <2>1, <3>1, BusJobDoneKeeps DEF Flags
  <2>3. cs = [cache EXCEPT ![i] = r] /\ st = Count(stats, ns)
    BY <1>4
  <2> HIDE DEF r
  <2>4. waiting = {}
    <3> HIDE DEF cs
    <3>1. \A j \in Caches : cs[j] = IF j = i THEN r ELSE cache[j]
      BY <1>1, <2>1, <2>3 DEF AllWellFormed
    <3>2. \A j \in Caches : j # i => ~cache[j].haveBusRequest
      BY <1>1, <2>1 DEF Flags, OnlyBusy
    <3> QED  BY <2>2, <3>1, <3>2
  <2>5. stats' = st
    <3>1. bus.inUse /\ bus.endCycle <= cycles
      BY <1>4
    <3> QED  BY <1>1, <2>4, <3>1 DEF BusTick
  <2>6. "numCacheShare" \notin ns
    BY DEF busJobDoneCounts
  <2> HIDE DEF ns, st, cs
  <2>7. stats'["numCacheShare"] = stats["numCacheShare"] + 0
    BY <1>1, <2>3, <2>5, <2>6, Counted DEF Bool, Counters
  <2> QED  BY <1>1, <1>2, <2>7, MissesAre
<1>5. CASE ~bus.inUse
  <2>1. cs = cache /\ st = stats /\ ~done
    BY <1>5
  <2>2. CASE waiting = {}
    <3>1. stats' = st
      BY <1>1, <1>5, <2>2 DEF BusTick
    <3> QED  BY <1>2, <2>1, <3>1
  <2>3. CASE waiting # {}
    <3>1. stats' = broadcastCounts(cs, next, st)
      BY <1>1, <1>5, <2>3 DEF BusTick
    <3>2. next \in Caches /\ cs[next].haveBusRequest
      <4>1. next \in waiting
        BY <2>3, FirstCache
      <4> QED  BY <4>1
    <3> HIDE DEF next, cs, st
    <3>3. ~cache[next].busRequestBeingServiced
      BY <1>1, <1>5, <3>2 DEF BusServes
    <3> QED  BY <2>1, <3>1, <3>2, <3>3, GrantShares
  <2> QED  BY <2>2, <2>3
<1> QED  BY <1>3, <1>4, <1>5

LEMMA MissStep ==
    ASSUME RefInv, MissInv, [Next]_vars,
           Protocol = "MOESI" => Coh!OneOwner /\ Coh!NoTagSharing
    PROVE  MissInv'
<1>1. CASE UNCHANGED <<cache, stats>>
  <2>1. UNCHANGED lineView
    BY <1>1, Mapped
  <2> QED  BY <1>1, <2>1 DEF MissInv, Asking, Unserved
<1>2. CASE Finish \/ NextCycle \/ UNCHANGED vars
  BY <1>1, <1>2 DEF Finish, NextCycle, vars
<1>3. CASE \E l \in TraceLines : NextJob(l)
  <2> PICK l \in TraceLines : NextJob(l)
    BY <1>3
  <2>1. \A i \in Caches : ~cache[i].haveBusRequest
    BY LoopIsQuiet DEF NextJob, HandOut, noJobs, RefInv, Inv, ControlInv, Flags
  <2>2. \A i \in Caches : ~cache'[i].haveBusRequest
    <3>1. Inv' /\ \A i \in Caches : ~cache'[i].busy
      <4> DEFINE p == accessProcessorId(l)
                 jobs == Append(cache[p].pendingJobs, jobOf(l))
      <4>1. cache' = [cache EXCEPT ![p] = [@ EXCEPT !.pendingJobs = jobs]]
        BY DEF NextJob, HandOut
      <4>2. \A i \in Caches : ~cache[i].busy
        BY DEF NextJob, noJobs
      <4>3. cache \in [Caches -> CacheRecord]
        BY DEF RefInv, Inv, TypeOK
      <4> HIDE DEF jobs, p
      <4>4. \A i \in Caches : cache'[i].busy = cache[i].busy
        BY <4>1, <4>3 DEF CacheRecord
      <4> QED  BY <4>2, <4>4, NextJobInv DEF RefInv
    <3> QED  BY <3>1 DEF Inv, ControlInv, Flags
  <2>3. Unserved = {} /\ Unserved' = {} /\ Asking = {} /\ Asking' = {}
    BY <2>1, <2>2 DEF Unserved, Asking
  <2>4. UNCHANGED stats
    BY DEF NextJob, HandOut
  <2> QED  BY <2>3, <2>4 DEF MissInv
<1>4. CASE CacheTurn
  BY <1>4, CacheTurnMisses
<1>5. CASE BusTurn
  <2>1. /\ Unserved' = {} /\ stats'["numMiss"] = stats["numMiss"]
        /\ stats'["numBusRequests"] = stats["numBusRequests"] + Bool(Unserved # {})
    BY <1>5, BusTurnCounted DEF RefInv
  <2>2. Asking' = {}
    BY <2>1 DEF Asking
  <2>3. Bool(Unserved' # {}) = 0 /\ Bool(Asking' # {}) = 0
        /\ Bool(Unserved # {}) \in Nat /\ Bool(Asking # {}) \in Nat
    BY <2>1, <2>2 DEF Bool
  <2>4. stats \in [Counters -> Nat] /\ stats' \in [Counters -> Nat]
    BY <1>5, BusTurnInv DEF RefInv, Inv, TypeOK
  <2>5. Protocol = "MOESI" => stats'["numCacheShare"] + Bool(Asking' # {}) <= stats'["numMiss"]
    <3> SUFFICES ASSUME Protocol = "MOESI"
                 PROVE  stats'["numCacheShare"] + Bool(Asking' # {}) <= stats'["numMiss"]
      OBVIOUS
    <3>1. stats'["numCacheShare"] <= stats["numCacheShare"] + Bool(Asking # {})
      BY <1>5, BusTurnShares
    <3>2. stats["numCacheShare"] + Bool(Asking # {}) <= stats["numMiss"]
      BY DEF MissInv
    <3>3. stats'["numCacheShare"] \in Nat
      BY <2>4 DEF Counters
    <3> QED  BY <2>1, <2>3, <2>4, <3>1, <3>2, <3>3, MissesAre
  <2>6. stats'["numMiss"] <= stats'["numBusRequests"] + Bool(Unserved' # {})
    <3>1. stats["numMiss"] <= stats["numBusRequests"] + Bool(Unserved # {})
      BY DEF MissInv
    <3> QED  BY <2>1, <2>3, <2>4, <3>1, MissesAre
  <2> QED  BY <2>5, <2>6 DEF MissInv
<1> QED  BY <1>2, <1>3, <1>4, <1>5 DEF Next

LEMMA MissAlways ==
    (Protocol = "MOESI" => Coh!NoTagSharing) => (Spec => [](RefInv /\ MissInv))
<1> SUFFICES ASSUME Protocol = "MOESI" => Coh!NoTagSharing
             PROVE  Spec => [](RefInv /\ MissInv)
  OBVIOUS
<1>1. Init => MissInv
  <2> SUFFICES ASSUME Init  PROVE MissInv
    OBVIOUS
  <2>1. stats["numCacheShare"] = 0 /\ stats["numMiss"] = 0 /\ stats["numBusRequests"] = 0
    BY DEF Init, CacheStats, Counters
  <2>2. Unserved = {} /\ Asking = {}
    BY DEF Init, NewCache, Unserved, Asking
  <2>3. Bool(Unserved # {}) = 0 /\ Bool(Asking # {}) = 0
    BY <2>2 DEF Bool
  <2> QED  BY <2>1, <2>3 DEF MissInv
<1>2. Init => RefInv
  BY InitRefines
<1>3. RefInv /\ [Next]_vars => RefInv'
  BY StepRefines
<1>4. CASE Protocol = "MOESI"
  <2>1. Coh!TagsAreSafe
    BY <1>4 DEF Coh!TagsAreSafe
  <2>2. Spec => []Coh!OneOwner
    BY <2>1, SingleOwnerHolds
  <2>3. RefInv /\ MissInv /\ Coh!OneOwner /\ [Next]_vars => MissInv'
    BY <1>4, MissStep
  <2> QED  BY <1>1, <1>2, <1>3, <2>2, <2>3, PTL DEF Spec
<1>5. CASE Protocol # "MOESI"
  <2>1. RefInv /\ MissInv /\ [Next]_vars => MissInv'
    BY <1>5, MissStep
  <2> QED  BY <1>1, <1>2, <1>3, <2>1, PTL DEF Spec
<1> QED  BY <1>4, <1>5

\* The misses that Cache.cpp counts and AtomicBusManager.cpp grants have their data from
\* one place each when no job is under way: under MOESI a cache has answered no more than
\* the misses, and with memory it has served all of them and nothing but requests, provided
\* that no tag is used in two sets; MSI's requests each used memory, and flushes come on top.
THEOREM EveryMissHasOneSource ==
    (Protocol = "MOESI" => Coh!NoTagSharing) => (Spec => []OneSourcePerMiss)
<1> SUFFICES ASSUME Protocol = "MOESI" => Coh!NoTagSharing
             PROVE  Spec => []OneSourcePerMiss
  OBVIOUS
<1>1. RefInv /\ SourceInv /\ MissInv => OneSourcePerMiss
  <2> SUFFICES ASSUME RefInv, SourceInv, MissInv, phase = "loop", noJobs
               PROVE  OneSourcePerMiss
    BY DEF OneSourcePerMiss
  <2>1. ~bus.inUse /\ Unserved = {} /\ Asking = {}
    BY DEF RefInv, Inv, ControlInv, BusServes, Flags, noJobs, Unserved, Asking
  <2>2. /\ Bool(bus.inUse) = 0 /\ Bool(bus.inUse /\ ~bus.isShared) = 0
        /\ Bool(Unserved # {}) = 0 /\ Bool(Asking # {}) = 0
    BY <2>1 DEF Bool
  <2>3. stats \in [Counters -> Nat]
    BY DEF RefInv, Inv, TypeOK
  <2>4. stats["numMiss"] <= stats["numBusRequests"]
        /\ (Protocol = "MOESI" => stats["numCacheShare"] <= stats["numMiss"])
    BY <2>2, <2>3, MissesAre DEF MissInv
  <2>5. /\ Protocol = "MSI" =>
              /\ stats["numMainMemoryUses"] >= stats["numBusRequests"]
              /\ stats["numMainMemoryUses"] <= stats["numBusRequests"] + stats["numFlush"]
        /\ Protocol = "MOESI" =>
              stats["numCacheShare"] + stats["numMainMemoryUses"] = stats["numBusRequests"]
    BY <2>2, <2>3, CountersAre DEF SourceInv
  <2>6. CASE Protocol = "MSI"
    BY <2>3, <2>5, <2>6, CountersAre DEF OneSourcePerMiss
  <2>7. CASE Protocol = "MOESI"
    BY <2>3, <2>4, <2>5, <2>7, CountersAre, MissesAre DEF OneSourcePerMiss
  <2>8. CASE Protocol = "MESI"
    BY <2>8 DEF OneSourcePerMiss
  <2> QED  BY <2>6, <2>7, <2>8, ProtocolAssumption
<1> QED  BY <1>1, SourceAlways, MissAlways, PTL

\* But for MESI (MemoryCountMESI.cfg) no request and no flush is counted as two uses of
\* main memory, in every state of the simulation, between a grant and its end as well.
THEOREM MemoryIsUsedOnce ==
    Protocol # "MESI" /\ (Protocol = "MOESI" => Coh!NoTagSharing)
        => (Spec => []MemoryUsedOnce)
<1> SUFFICES ASSUME Protocol # "MESI", Protocol = "MOESI" => Coh!NoTagSharing
             PROVE  Spec => []MemoryUsedOnce
  OBVIOUS
<1>1. RefInv /\ SourceInv => MemoryUsedOnce
  <2> SUFFICES ASSUME RefInv, SourceInv  PROVE MemoryUsedOnce
    OBVIOUS
  <2>1. stats \in [Counters -> Nat]
    BY DEF RefInv, Inv, TypeOK
  <2>2. Bool(bus.inUse) \in Nat /\ Bool(bus.inUse /\ ~bus.isShared) \in Nat
    BY DEF Bool
  <2> QED  BY <2>1, <2>2, CountersAre, ProtocolAssumption DEF SourceInv, MemoryUsedOnce
<1> QED  BY <1>1, SourceAlways, PTL

-----------------------------------------------------------------------------
(***************************************************************************)
(* A line without an access.  The job it is made of, if any, is the last   *)
(* job over again, at the cache that has done it: what lasts is that this  *)
(* job would be a hit there.                                               *)
(***************************************************************************)
lastProcessorId == threadId % NumProcessors
lastJob == [op |-> readWrite, block |-> address]

\* The cache k would serve the last job, if that was a read or a write, at once.
HitsAgain(k) ==
    readWrite \in {"R", "W"} =>
        handleRequestOutcome(readWrite, Held(k, TagOf(address))) = "hit"

\* What is pending or under way is the last job, and until it is there again for the
\* asking it is pending or has a request for the bus.
RepeatInv ==
    /\ \A i \in Caches :
          /\ HasPending(i) => i = lastProcessorId /\ Head(cache[i].pendingJobs) = lastJob
          /\ cache[i].busy => i = lastProcessorId /\ cache[i].currentJob = lastJob
    /\ \/ HitsAgain(cache[lastProcessorId])
       \/ \E i \in Caches : HasPending(i) \/ cache[i].haveBusRequest
    /\ NoAccess(traceLine) => /\ traceLine = <<>> \/ readWrite = "-"
                              /\ HitsAgain(cache[lastProcessorId])
                              /\ \A i \in Caches : ~cache[i].haveBusRequest

\* What LineWithoutAccess says of a step.
NoEffect ==
    NoAccess(traceLine') =>
          /\ lineView' = lineView
          /\ stats' = Count(stats,
                IF traceLine' = <<>> /\ readWrite \in {"R", "W"} /\ TakesJob
                THEN {"numHit"} ELSE {})

LEMMA CountNone == stats \in [Counters -> Nat] => Count(stats, {}) = stats
BY DEF Count, Bool

\* A step that counts nothing, and in which no cache takes on a job.
LEMMA QuietIsNoEffect ==
    ASSUME stats \in [Counters -> Nat], UNCHANGED stats, ~TakesJob,
           NoAccess(traceLine') => UNCHANGED lineView
    PROVE  NoEffect
BY CountNone DEF NoEffect

LEMMA ThreadHasCache == \A n \in Nat : n % NumProcessors \in Caches
BY SizesAssumption DEF Caches

LEMMA SameHits ==
    ASSUME NEW k, NEW r, WellFormed(k), WellFormed(r), SameView(k, r)
    PROVE  HitsAgain(k) <=> HitsAgain(r)
<1> DEFINE t == TagOf(address)
<1>1. \A set \in Sets : ViewOf(r, set, t) = ViewOf(k, set, t)
  BY DEF SameView
<1>2. Held(k, t) = {ViewOf(k, set, t) : set \in Sets} \ {"absent"}
  BY HeldIs
<1>3. Held(r, t) = {ViewOf(r, set, t) : set \in Sets} \ {"absent"}
  BY HeldIs
<1>4. Held(k, t) = Held(r, t)
  BY <1>1, <1>2, <1>3
<1> QED  BY <1>4 DEF HitsAgain

\* A modified line, and no other with its tag, is a hit for every access.
LEMMA ModifiedIsHit ==
    \A op \in {"R", "W"} : handleRequestOutcome(op, {"modified"}) = "hit"
BY ProtocolAssumption DEF handleRequestOutcome, readOutcome, writeOutcome, Readable, State

\* A job that has started without the bus would be a hit if it came again.
LEMMA StartedHits ==
    ASSUME NEW n, NEW r, WellFormed(n), WellFormed(r), Started(n, r), n.currentJob = lastJob,
           ~r.haveBusRequest
    PROVE  HitsAgain(r)
<1> DEFINE t == TagOf(address)
<1>1. n.currentJob.op = readWrite /\ TagOfJob(n) = t
  BY DEF lastJob, TagOfJob
<1>2. outcomeOf(n) = handleRequestOutcome(readWrite, Held(n, t))
  BY <1>1 DEF outcomeOf
<1>3. CASE outcomeOf(n) = "hit" /\ SameView(n, r)
  <2>1. HitsAgain(n)
    BY <1>2, <1>3 DEF HitsAgain
  <2> QED  BY <1>3, <2>1, SameHits
<1>4. CASE outcomeOf(n) = "exclusiveHit" /\ Modified(n, r)
  <2>1. Held(n, t) # {}
    <3>1. handleRequestOutcome(readWrite, {}) # "exclusiveHit"
      BY ProtocolAssumption DEF handleRequestOutcome, readOutcome, writeOutcome
    <3> QED  BY <1>2, <1>4, <3>1
  <2>2. PICK set \in Sets : ViewOf(n, set, t) # "absent"
    <3>1. Held(n, t) = {ViewOf(n, set, t) : set \in Sets} \ {"absent"}
      BY HeldIs
    <3> QED  BY <2>1, <3>1
  <2>3. \A i \in Sets : ViewOf(r, i, t) = IF ViewOf(n, i, t) # "absent"
                                          THEN "modified" ELSE "absent"
    BY <1>1, <1>4 DEF Modified
  <2>4. Held(r, t) = {ViewOf(r, i, t) : i \in Sets} \ {"absent"}
    BY HeldIs
  <2>5. Held(r, t) = {"modified"}
    <3>1. ViewOf(r, set, t) = "modified"
      BY <2>2, <2>3
    <3>2. \A x \in Held(r, t) : x = "modified"
      BY <2>3, <2>4
    <3>3. "modified" \in Held(r, t)
      BY <2>4, <3>1
    <3> QED  BY <3>2, <3>3
  <2> QED  BY <2>5, ModifiedIsHit DEF HitsAgain
<1> QED  BY <1>3, <1>4 DEF Started

\* A line is handed out when the last job is through; if it is no access, the job it is
\* made is the last one or none.
LEMMA NextJobRepeats ==
    ASSUME Inv, RepeatInv, NEW l \in TraceLines, NextJob(l)
    PROVE  RepeatInv' /\ UNCHANGED stats /\ ~TakesJob
<1> DEFINE p == accessProcessorId(l)
           job == jobOf(l)
           k == cache[p]
           jobs == Append(k.pendingJobs, job)
           r == [k EXCEPT !.pendingJobs = jobs]
<1>1. /\ phase = "loop" /\ sscanf(l) /\ noJobs /\ UNCHANGED stats
      /\ cache' = [cache EXCEPT ![p] = r]
  BY DEF NextJob, HandOut
<1>2. /\ \A i \in Caches : ~HasPending(i) /\ ~cache[i].busy /\ ~cache[i].haveBusRequest
      /\ AllWellFormed(cache) /\ cache \in [Caches -> CacheRecord]
  BY <1>1, LoopIsQuiet DEF noJobs, HasPending, Inv, TypeOK, ControlInv, Flags
<1>3. p = lastProcessorId' /\ job = lastJob'
  BY <1>1 DEF sscanf, accessProcessorId, jobOf, lastProcessorId, lastJob
<1>4. Inv'
  BY NextJobInv
<1>5. p \in Caches
  <2>1. threadId' \in Nat
    BY <1>4 DEF Inv, TypeOK, ReaderTypeOK
  <2> QED  BY <1>3, <2>1, ThreadHasCache DEF lastProcessorId
<1> HIDE DEF p, job
<1>6. k.pendingJobs = <<>> /\ k \in CacheRecord /\ WellFormed(k)
  BY <1>2, <1>5 DEF HasPending, AllWellFormed, CacheRecord
<1> HIDE DEF k, jobs
<1>7. /\ r.pendingJobs = jobs /\ r.busy = k.busy /\ r.haveBusRequest = k.haveBusRequest
      /\ r.localCache = k.localCache
  BY <1>6 DEF CacheRecord
<1>8. Head(jobs) = job /\ jobs # <<>>
  BY <1>6 DEF jobs
<1> HIDE DEF r
<1>9. \A i \in Caches : cache'[i] = IF i = p THEN r ELSE cache[i]
  BY <1>1, <1>2
<1>10. ~k.busy /\ ~k.haveBusRequest
  BY <1>2, <1>5 DEF k
<1>11. \A i \in Caches : /\ HasPending(i)' => i = p /\ Head(cache'[i].pendingJobs) = job
                         /\ ~cache'[i].busy /\ ~cache'[i].haveBusRequest
  BY <1>2, <1>7, <1>8, <1>9, <1>10 DEF HasPending
<1>12. cache'[p].pendingJobs # <<>>
  BY <1>5, <1>7, <1>8, <1>9
<1>13. ASSUME NoAccess(l)
       PROVE  HitsAgain(cache[lastProcessorId])' /\ (l = <<>> \/ readWrite' = "-")
  <2>1. CASE l = <<>>
    <3>1. UNCHANGED <<readWrite, address, threadId>>
      BY <1>1, <2>1 DEF sscanf, scanned
    <3>2. HitsAgain(cache[p])
      BY <1>2, <1>3, <3>1 DEF RepeatInv, lastProcessorId
    <3>3. SameView(cache[p], cache'[p])
      BY <1>5, <1>7, <1>9 DEF SameView, ViewOf, k
    <3>4. WellFormed(cache[p]) /\ WellFormed(cache'[p])
      BY <1>2, <1>4, <1>5 DEF AllWellFormed, Inv
    <3>5. HitsAgain(cache'[p])
      BY <3>2, <3>3, <3>4, SameHits
    <3>6. HitsAgain(cache'[p]) => HitsAgain(cache[lastProcessorId])'
      BY <1>3, <3>1 DEF HitsAgain, Held
    <3> QED  BY <2>1, <3>5, <3>6
  <2>2. CASE Len(l) >= 1 /\ l[1] = "-"
    <3>1. readWrite' = "-"
      BY <1>1, <2>2 DEF sscanf, scanned
    <3> QED  BY <3>1 DEF HitsAgain
  <2> QED  BY <1>13, <2>1, <2>2 DEF NoAccess
<1>14. traceLine' = l
  BY <1>1 DEF sscanf
<1>15. RepeatInv'
  <2>1. \E i \in Caches : HasPending(i)'
    BY <1>5, <1>12 DEF HasPending
  <2> QED  BY <1>3, <1>11, <1>13, <1>14, <2>1 DEF RepeatInv
<1>16. ~TakesJob
  BY <1>2 DEF TakesJob, HasPending
<1> QED  BY <1>1, <1>15, <1>16

LEMMA CacheTurnRepeats ==
    ASSUME Inv, RepeatInv, CacheTurn
    PROVE  RepeatInv' /\ NoEffect
<1> DEFINE c == cache[turn]
           r == Ticked(c)
           k == finished(c)
           n == nextJob(k)
           starts == ~k.busy /\ k.pendingJobs # <<>>
           q == lastProcessorId
<1>1. /\ turn \in Caches /\ CacheTick(turn) /\ phase = "caches"
      /\ UNCHANGED <<traceLine, readWrite, address, threadId>>
      /\ cache \in [Caches -> CacheRecord] /\ stats \in [Counters -> Nat]
      /\ cycles \in Nat /\ \A i \in Caches : WellFormed(cache[i]) /\ Flags(cache[i])
      /\ threadId \in Nat
  BY DEF Inv, TypeOK, CacheTurn, AllWellFormed, ControlInv, readerVars, ReaderTypeOK
<1>2. q \in Caches /\ q' = q /\ lastJob' = lastJob
  BY <1>1, ThreadHasCache DEF lastProcessorId, lastJob
<1>3. \A i \in Caches : WellFormed(cache'[i])
  BY CacheTurnInv DEF Inv, AllWellFormed
<1> HIDE DEF q
<1>4. ASSUME UNCHANGED <<cache, stats>>  PROVE RepeatInv' /\ NoEffect
  <2>1. RepeatInv'
    BY <1>1, <1>2, <1>4 DEF RepeatInv, HasPending, HitsAgain, Held, lastProcessorId, lastJob,
                            NoAccess
  <2>2. lineView' = lineView
    BY <1>4, Mapped
  <2>3. ~TakesJob
    BY <1>4 DEF TakesJob
  <2> QED  BY <1>1, <1>4, <2>1, <2>2, <2>3, QuietIsNoEffect
<1>5. CASE c.busRequestBeingServiced
  BY <1>1, <1>4, <1>5 DEF CacheTick
<1>6. CASE ~c.busRequestBeingServiced
  <2>1. /\ WellFormed(c) /\ Flags(c) /\ ~c.haveBusRequest /\ Len(c.pendingJobs) <= 1
        /\ c.busy => c.pendingJobs = <<>>
    <3>1. ~(turn < turn)
      BY <1>1 DEF Caches
    <3> QED  BY <1>1, <1>6, <3>1 DEF Inv, ControlInv, OneJobAtATime, PickedUp
  <2>2. /\ cache' = [cache EXCEPT ![turn] = r]
        /\ stats' = IF starts THEN Count(stats, handleRequestCounts(n)) ELSE stats
    BY <1>1, <1>6, CacheTickStep DEF CacheTick
  <2>3. /\ SameView(c, k) /\ k.pendingJobs = c.pendingJobs
        /\ k.currentJob = c.currentJob /\ ~k.haveBusRequest /\ (k.busy => c.busy)
        /\ r = IF starts THEN handleRequest(n) ELSE k
        /\ starts => /\ WellFormed(n) /\ SameView(c, n)
                     /\ n.currentJob = Head(c.pendingJobs) /\ n.currentJob # NULL
                     /\ ~n.busy /\ ~n.haveBusRequest
                     /\ ~n.busRequestBeingServiced
    BY <1>1, <2>1, TickedJob
  <2>4. WellFormed(r) /\ r.pendingJobs = <<>>
    BY <1>1, <2>1, TickedKeeps
  <2>5. HasPending(turn) => turn = q /\ Head(c.pendingJobs) = lastJob
    BY <1>1 DEF RepeatInv, q
  <2>6. /\ c.busy => turn = q /\ c.currentJob = lastJob
        /\ NoAccess(traceLine) => HitsAgain(cache[q])
    BY <1>1 DEF RepeatInv, q
  <2>7. HasPending(turn) <=> c.pendingJobs # <<>>
    BY DEF HasPending
  <2> HIDE DEF n, k, r, c
  <2>8. \A i \in Caches : cache'[i] = IF i = turn THEN r ELSE cache[i]
    BY <1>1, <2>2
  \* Whatever the cache does, it keeps the promise.
  <2>9. ASSUME r.busy => turn = q /\ r.currentJob = lastJob,
               HitsAgain(cache[q]) \/ c.pendingJobs # <<>> =>
                  HitsAgain(cache'[q]) \/ r.haveBusRequest,
               NoAccess(traceLine) => HitsAgain(cache'[q]) /\ ~r.haveBusRequest
        PROVE  RepeatInv'
    <3>1. \A i \in Caches : /\ HasPending(i)' => HasPending(i) /\ i # turn
                            /\ i # turn => cache'[i] = cache[i]
      BY <2>4, <2>8 DEF HasPending
    <3>2. \A i \in Caches :
             /\ HasPending(i)' => i = q /\ Head(cache'[i].pendingJobs) = lastJob
             /\ cache'[i].busy => i = q /\ cache'[i].currentJob = lastJob
      BY <2>8, <2>9, <3>1 DEF RepeatInv, q
    <3>3. \/ HitsAgain(cache'[q])
          \/ \E i \in Caches : HasPending(i)' \/ cache'[i].haveBusRequest
      <4>1. CASE HitsAgain(cache[q]) \/ c.pendingJobs # <<>>
        BY <1>1, <2>8, <2>9, <4>1
      <4>2. ASSUME NEW i \in Caches, HasPending(i) \/ cache[i].haveBusRequest,
                   c.pendingJobs = <<>>
            PROVE  \E j \in Caches : HasPending(j)' \/ cache'[j].haveBusRequest
        <5>1. i # turn
          BY <2>1, <2>7, <4>2 DEF c
        <5>2. HasPending(i)' \/ cache'[i].haveBusRequest
          BY <3>1, <4>2, <5>1 DEF HasPending
        <5> QED  BY <5>2
      <4> QED  BY <4>1, <4>2 DEF RepeatInv, q
    <3>4. NoAccess(traceLine) => \A i \in Caches : ~cache'[i].haveBusRequest
      BY <2>8, <2>9 DEF RepeatInv
    <3>5. HitsAgain(cache'[q]) <=> HitsAgain(cache[lastProcessorId])'
      BY <1>1, <1>2 DEF HitsAgain, q, Held
    <3> QED  BY <1>1, <1>2, <2>9, <3>2, <3>3, <3>4, <3>5 DEF RepeatInv, q
  <2>10. SameView(c, r) => /\ lineView' = lineView
                           /\ HitsAgain(cache'[q]) <=> HitsAgain(cache[q])
    <3> SUFFICES ASSUME SameView(c, r)
                 PROVE  lineView' = lineView /\ (HitsAgain(cache'[q]) <=> HitsAgain(cache[q]))
      OBVIOUS
    <3>1. \A i \in Caches : SameView(cache[i], cache'[i])
      BY <2>8 DEF SameView, c
    <3> QED  BY <1>1, <1>2, <1>3, <3>1, Mapped, SameLineView, SameHits
  <2>11. CASE ~starts
    <3>1. r = k /\ stats' = stats /\ SameView(c, r)
      BY <2>2, <2>3, <2>11
    <3>2. c.pendingJobs = <<>>
      BY <2>3, <2>1, <2>11
    <3>3. RepeatInv'
      BY <2>3, <2>6, <2>9, <2>10, <3>1, <3>2
    <3>4. ~TakesJob
      BY <2>8, <3>2 DEF TakesJob, c
    <3> QED  BY <1>1, <2>10, <3>1, <3>3, <3>4, QuietIsNoEffect
  <2>12. CASE starts
    <3>1. /\ turn = q /\ n.currentJob = lastJob /\ r = handleRequest(n)
          /\ stats' = Count(stats, handleRequestCounts(n)) /\ c.pendingJobs # <<>>
          /\ cache'[q] = r /\ cache[q] = c
      BY <1>2, <2>2, <2>3, <2>5, <2>7, <2>8, <2>12 DEF c
    <3>2. CASE readWrite \notin {"R", "W"}
      <4>1. outcomeOf(n) = "ignored"
        BY <3>1, <3>2, Outcomes DEF outcomeOf, lastJob
      <4>2. r = n /\ handleRequestCounts(n) = {}
        BY <3>1, <4>1 DEF handleRequest, handleRequestCounts
      <4>3. stats' = Count(stats, {})
        BY <3>1, <4>2
      <4>4. HitsAgain(cache'[q])
        BY <3>2 DEF HitsAgain
      <4>5. RepeatInv'
        BY <2>3, <2>9, <2>12, <3>1, <4>2, <4>4
      <4> QED  BY <2>3, <2>10, <2>12, <3>2, <4>2, <4>3, <4>5 DEF NoEffect
    <3>3. CASE readWrite \in {"R", "W"}
      <4>1. n.currentJob.op \in {"R", "W"}
        BY <3>1, <3>3 DEF lastJob
      <4>2. Started(n, r)
        BY <1>1, <2>3, <2>12, <3>1, <4>1, HandleRequestStarts
      <4>3. HitsAgain(cache'[q]) \/ r.haveBusRequest
        BY <2>3, <2>4, <2>12, <3>1, <4>2, StartedHits
      <4>4. r.currentJob = lastJob
        BY <3>1, <4>2 DEF Started
      <4>5. ASSUME NoAccess(traceLine)
            PROVE  outcomeOf(n) = "hit" /\ SameView(c, r) /\ ~r.haveBusRequest
                   /\ HitsAgain(cache'[q])
        <5>1. HitsAgain(n)
          BY <2>1, <2>3, <2>6, <2>12, <3>1, <4>5, SameHits
        <5>2. outcomeOf(n) = "hit"
          BY <3>1, <3>3, <5>1 DEF HitsAgain, outcomeOf, lastJob, TagOfJob
        <5>3. SameView(n, r) /\ ~r.haveBusRequest
          BY <4>2, <5>2 DEF Started
        <5>4. SameView(c, r)
          BY <2>3, <2>12, <5>3 DEF SameView
        <5> QED  BY <4>3, <5>2, <5>3, <5>4
      <4>6. RepeatInv'
        BY <2>9, <3>1, <4>3, <4>4, <4>5
      <4>7. NoEffect
        <5>1. NoAccess(traceLine) => handleRequestCounts(n) = {"numHit"}
          BY <4>5 DEF handleRequestCounts
        <5>2. NoAccess(traceLine) => traceLine = <<>>
          BY <3>3 DEF RepeatInv
        <5>3. TakesJob
          BY <1>1, <2>4, <3>1 DEF TakesJob
        <5> QED  BY <1>1, <2>10, <3>1, <3>3, <4>5, <5>1, <5>2, <5>3 DEF NoEffect
      <4> QED  BY <4>6, <4>7
    <3> QED  BY <3>2, <3>3
  <2> QED  BY <2>11, <2>12
<1> QED  BY <1>5, <1>6

\* A job that the bus has done would be a hit if it came again.  In MOESI a write that
\* finds its tag shared in another set is not.
LEMMA DoneHits ==
    ASSUME Protocol = "MOESI" => Coh!NoTagSharing,
           NEW k, WellFormed(k), OnlyBlocks(k), k.currentJob # NULL, k.currentJob = lastJob,
           readWrite \in {"R", "W"}, NEW isShared \in BOOLEAN, cycles \in Nat
    PROVE  HitsAgain(busJobDone(k, isShared))
<1> DEFINE b == address
           t == TagOf(b)
           r == busJobDone(k, isShared)
           new == installedState(readWrite, isShared)
<1>1. k.currentJob.block = b /\ k.currentJob.op = readWrite /\ TagOfJob(k) = t
  BY DEF lastJob, TagOfJob
<1>2. b \in Blocks /\ SetOf(b) \in Sets
  BY <1>1, JobParts, BlockParts DEF CacheJob
<1>3. WellFormed(r)
  BY <1>1, BusJobDoneKeeps
<1>4. PICK gone : \A set \in Sets : \A u : ViewOf(r, set, u) =
         IF set = SetOf(b) /\ u = t THEN new
         ELSE IF set = SetOf(b) /\ u \in gone THEN "absent" ELSE ViewOf(k, set, u)
  BY <1>1, DoneView
<1> HIDE DEF r, b
<1>5. Held(r, t) = {ViewOf(r, set, t) : set \in Sets} \ {"absent"}
  BY <1>3, HeldIs
<1>6. ViewOf(r, SetOf(b), t) = new
  BY <1>2, <1>4
<1>7. new # "absent"
  BY ProtocolAssumption DEF installedState
<1>8. new \in Held(r, t)
  <2>1. \E set \in Sets : ViewOf(r, set, t) = new
    BY <1>2, <1>6
  <2> QED  BY <1>5, <1>7, <2>1
<1>9. CASE readWrite = "R"
  <2>1. new \in Readable
    BY <1>9, ProtocolAssumption DEF installedState, Readable, State
  <2>2. Held(r, t) \cap Readable # {}
    BY <1>8, <2>1
  <2> QED  BY <1>9, <2>2 DEF HitsAgain, handleRequestOutcome, readOutcome, b, r
<1>10. CASE readWrite = "W" /\ Protocol # "MOESI"
  <2>1. new = "modified"
    BY <1>10 DEF installedState
  <2> QED  BY <1>8, <1>10, <2>1, ProtocolAssumption
           DEF HitsAgain, handleRequestOutcome, writeOutcome, b, r
<1>11. CASE readWrite = "W" /\ Protocol = "MOESI"
  <2>1. new = "modified"
    BY <1>11 DEF installedState
  <2>2. ASSUME NEW set \in Sets, set # SetOf(b)  PROVE ViewOf(r, set, t) = "absent"
    <3>1. ViewOf(r, set, t) = ViewOf(k, set, t)
      BY <1>4, <2>2
    <3>2. <<set, t>> \in Blocks => <<set, t>> = b
      BY <1>2, <1>11 DEF Coh!NoTagSharing, Coh!TagOf, TagOf
    <3>3. <<set, t>> \notin Blocks
      BY <2>2, <3>2 DEF SetOf
    <3> QED  BY <3>1, <3>3 DEF OnlyBlocks
  <2>3. \A x \in Held(r, t) : x = "modified"
    BY <1>5, <1>6, <2>1, <2>2
  <2>4. Held(r, t) = {"modified"}
    BY <1>8, <2>1, <2>3
  <2> QED  BY <2>4, ModifiedIsHit DEF HitsAgain, b, r
<1> QED  BY <1>9, <1>10, <1>11

LEMMA BusTurnRepeats ==
    ASSUME Protocol = "MOESI" => Coh!NoTagSharing, RefInv, RepeatInv, BusTurn
    PROVE  RepeatInv' /\ NoEffect
<1> DEFINE q == lastProcessorId
<1>1. /\ UNCHANGED <<traceLine, readWrite, address, threadId>> /\ BusTick
      /\ \A i \in Caches : WellFormed(cache[i]) /\ Flags(cache[i]) /\ OnlyBlocks(cache[i])
      /\ cycles \in Nat /\ threadId \in Nat /\ phase' = "loop" /\ phase = "bus"
      /\ BusServes /\ bus.isShared \in BOOLEAN /\ stats \in [Counters -> Nat]
  BY DEF RefInv, Inv, TypeOK, BusTurn, AllWellFormed, ControlInv, readerVars, ReaderTypeOK
<1>2. q \in Caches /\ q' = q /\ lastJob' = lastJob
  BY <1>1, ThreadHasCache DEF lastProcessorId, lastJob
<1>3. \A i \in Caches : ~HasPending(i) /\ ~HasPending(i)'
  <2>1. PickedUp /\ PickedUp'
    BY BusTurnInv DEF RefInv, Inv, ControlInv
  <2> QED  BY <1>1, <2>1 DEF PickedUp, HasPending
<1> HIDE DEF q
<1>4. HitsAgain(cache'[q]) <=> HitsAgain(cache[lastProcessorId])'
  BY <1>1, <1>2 DEF HitsAgain, q, Held
<1>5. CASE UNCHANGED cache
  <2>1. RepeatInv'
    BY <1>1, <1>2, <1>4, <1>5 DEF RepeatInv, HasPending, NoAccess, q
  <2>2. NoEffect
    <3> SUFFICES ASSUME NoAccess(traceLine')  PROVE NoEffect
      BY DEF NoEffect
    <3>1. \A i \in Caches : ~cache[i].haveBusRequest
      BY <1>1 DEF RepeatInv
    <3>2. ~bus.inUse
      BY <1>1, <3>1 DEF BusServes, Flags
    <3>3. stats' = stats
      BY <1>1, <3>1, <3>2 DEF BusTick
    <3>4. ~TakesJob
      BY <1>5 DEF TakesJob
    <3> QED  BY <1>1, <1>5, <3>3, <3>4, Mapped, QuietIsNoEffect
  <2> QED  BY <2>1, <2>2
<1>6. ASSUME NEW i \in Caches, OnlyBusy(cache, i), cache[i].haveBusRequest
      PROVE  /\ i = q /\ cache[i].currentJob = lastJob /\ ~NoAccess(traceLine)
             /\ readWrite \in {"R", "W"} /\ cache[i].currentJob # NULL /\ NoEffect
  <2>1. i = q /\ cache[i].currentJob = lastJob /\ ~NoAccess(traceLine)
    BY <1>6 DEF RepeatInv, OnlyBusy, q
  <2>2. cache[i].currentJob # NULL /\ cache[i].currentJob.op \in {"R", "W"}
    BY <1>1, <1>6 DEF Flags
  <2> QED  BY <1>1, <2>1, <2>2 DEF lastJob, NoEffect
<1>7. ASSUME NEW i \in Caches, OnlyBusy(cache, i), cache[i].haveBusRequest,
             cache' = [cache EXCEPT ![i] = busJobDone(cache[i], bus.isShared)]
      PROVE  RepeatInv' /\ NoEffect
  <2> DEFINE r == busJobDone(cache[i], bus.isShared)
  <2>1. HitsAgain(r)
    BY <1>1, <1>6, <1>7, DoneHits
  <2>2. ~r.busy
    BY <1>1, <1>7, BusJobDoneKeeps DEF Flags
  <2> HIDE DEF r
  <2>3. \A j \in Caches : cache'[j] = IF j = i THEN r ELSE cache[j]
    BY <1>7 DEF r, RefInv, Inv, TypeOK
  <2>4. \A j \in Caches : ~cache'[j].busy
    BY <1>7, <2>2, <2>3 DEF OnlyBusy
  <2>5. HitsAgain(cache'[q])
    BY <1>6, <1>7, <2>1, <2>3
  <2>6. ~NoAccess(traceLine)
    BY <1>6, <1>7
  <2>7. RepeatInv'
    BY <1>1, <1>3, <1>4, <2>4, <2>5, <2>6 DEF RepeatInv
  <2> QED  BY <1>6, <1>7, <2>7
<1>8. ASSUME NEW i \in Caches, OnlyBusy(cache, i), cache[i].haveBusRequest,
             cache' = granted(cache, i)
      PROVE  RepeatInv' /\ NoEffect
  <2>1. \A j \in Caches : Granted(cache[j], cache'[j], j = i)
    BY <1>1, <1>8, GrantedKeeps DEF RefInv, Inv
  <2>2. \A j \in Caches : cache'[j].busy => j = q /\ cache'[j].currentJob = lastJob
    BY <2>1 DEF Granted, RepeatInv, q
  <2>3. cache'[i].haveBusRequest
    BY <1>8, <2>1 DEF Granted
  <2>4. ~NoAccess(traceLine)
    BY <1>6, <1>8
  <2>5. RepeatInv'
    BY <1>1, <1>2, <1>3, <2>2, <2>3, <2>4 DEF RepeatInv, q
  <2> QED  BY <1>6, <1>8, <2>5
<1> QED  BY <1>5, <1>7, <1>8, BusTurnCases

LEMMA RepeatStep ==
    ASSUME Protocol = "MOESI" => Coh!NoTagSharing, RefInv, RepeatInv, [Next]_vars
    PROVE  RepeatInv' /\ NoEffect
<1>1. CASE Finish \/ NextCycle \/ UNCHANGED vars
  <2>1. UNCHANGED <<cache, stats, traceLine, readWrite, address, threadId>>
    BY <1>1 DEF Finish, NextCycle, vars, readerVars
  <2>2. RepeatInv'
    BY <2>1 DEF RepeatInv, HasPending, HitsAgain, Held, lastProcessorId, lastJob, NoAccess
  <2>3. lineView' = lineView
    BY <2>1, Mapped
  <2>4. ~TakesJob
    BY <2>1 DEF TakesJob
  <2> QED  BY <2>1, <2>2, <2>3, <2>4, QuietIsNoEffect DEF RefInv, Inv, TypeOK
<1>2. CASE \E l \in TraceLines : NextJob(l)
  <2>1. RepeatInv' /\ UNCHANGED stats /\ ~TakesJob
    BY <1>2, NextJobRepeats DEF RefInv
  <2>2. UNCHANGED lineView
    BY <1>2, LoopRefines
  <2> QED  BY <2>1, <2>2, QuietIsNoEffect DEF RefInv, Inv, TypeOK
<1>3. CASE CacheTurn
  BY <1>3, CacheTurnRepeats DEF RefInv
<1>4. CASE BusTurn
  BY <1>4, BusTurnRepeats
<1> QED  BY <1>1, <1>2, <1>3, <1>4 DEF Next

\* What CacheController.cpp makes of a comment needs no bus, changes no line and counts
\* nothing, and of an empty line the same but for one hit, if the last job was an access:
\* the reader's variables still hold that job, the cache that has done it still has the
\* line, and nobody has asked for it since.  In MOESI that takes that no tag is used in two
\* sets: there a write can miss again.
THEOREM NoAccessIsAtMostAHit ==
    (Protocol = "MOESI" => Coh!NoTagSharing) => (Spec => LineWithoutAccess)
<1> SUFFICES ASSUME Protocol = "MOESI" => Coh!NoTagSharing
             PROVE  Spec => LineWithoutAccess
  OBVIOUS
<1>1. Init => RepeatInv
  BY ThreadHasCache DEF Init, ReaderInit, RepeatInv, HasPending, HitsAgain, NewCache
<1>2. Init => RefInv
  BY InitRefines
<1>3. RefInv /\ [Next]_vars => RefInv'
  BY StepRefines
<1>4. RefInv /\ RepeatInv /\ [Next]_vars => RepeatInv' /\ NoEffect
  BY RepeatStep
<1> QED  BY <1>1, <1>2, <1>3, <1>4, PTL DEF Spec, LineWithoutAccess, NoEffect
===============================================================================
