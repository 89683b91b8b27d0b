---------------------------- MODULE CoherenceProofs ----------------------------
(***************************************************************************)
(* Proofs about Coherence, for any number of processors.  The protocol     *)
(* code keeps its promises if no tag is used in two sets (NoTagSharing);   *)
(* in MSI and MOESI all but one of them even if some are (TagsAreSafe).    *)
(*                                                                         *)
(* The argument is the usual one for a snooping protocol on an atomic bus. *)
(* A state may only be strengthened by busJobDone, and what makes that     *)
(* safe was established one step earlier, by Broadcast, in all the other   *)
(* caches at once.  BroadcastHolds remembers it in between, where nobody   *)
(* else may touch a line because there is one job at a time.               *)
(***************************************************************************)
EXTENDS Coherence, TLAPS

\* Without tag sharing the search through all sets finds the line of the job's
\* own address, or none.
LEMMA LookupIsLocal ==
    ASSUME NoTagSharing, NEW c \in Procs, NEW b \in Blocks
    PROVE  Held(c, b) = {line[c][b]} \ {"absent"}
BY DEF NoTagSharing, SameTag, Held

\* What setLineState does: all lines of the tag that the cache has, and only they,
\* get the new state.
LEMMA SetLineStateSets ==
    ASSUME TypeOK, NEW c \in Procs, NEW b \in Blocks, NEW s,
           line' = setLineState(c, b, s)
    PROVE  \A o \in Procs, d \in Blocks :
              line'[o][d] = IF o = c /\ d \in SameTag(b) /\ line[c][d] # "absent"
                            THEN s ELSE line[o][d]
BY DEF setLineState, TypeOK

\* What a protocol's lines may be (StatesOfProtocol, for one line).
ProtocolState(s) ==
    /\ s \in LineState
    /\ Protocol = "MSI" => s \notin {"exclusive", "owned"}
    /\ Protocol = "MESI" => s # "owned"

\* What snooping achieves, whatever the protocol: it never promotes a line, a
\* BusRdX leaves nothing readable, a BusRd leaves nothing to be written without
\* the bus (in MOESI: unless the bus hears of it), and the bus hears of every
\* owner where it asks for owners and of every copy in MESI.
LEMMA SnoopDemotes ==
    ASSUME NEW s, ProtocolState(s), NEW command \in Command
    PROVE  LET r == snoopBusRequest(command, s) IN
           /\ ProtocolState(r.state)
           /\ r.state \in Readable => s \in Readable
           /\ r.state \in Owning => s \in Owning
           /\ command = "BusRdX" => r.state \notin Readable
           /\ command = "BusRd" /\ Protocol # "MOESI" => r.state \notin Owning
           /\ Protocol = "MESI" /\ s \in Readable => r.result \in SharedReplies
           /\ Protocol = "MOESI" /\ s \in Owning => r.result \in SharedReplies
<1> USE DEF Reply, Readable, Owning, State, LineState, ProtocolState, SharedReplies
<1>1. s \in {"absent", "invalid", "shared", "modified", "exclusive", "owned"}
  OBVIOUS
<1>2. command \in {"BusRd", "BusRdX"}
  BY DEF Command
<1>3. CASE Protocol = "MSI"
  <2>1. snoopBusRequest(command, s) =
          IF command = "BusRd" THEN handleBusRdMSI(s) ELSE handleBusRdXMSI(s)
    BY <1>3 DEF snoopBusRequest
  <2> QED
    BY <1>1, <1>2, <1>3, <2>1 DEF handleBusRdMSI, handleBusRdXMSI
<1>4. CASE Protocol = "MESI"
  <2>1. snoopBusRequest(command, s) =
          IF command = "BusRd" THEN handleBusRdMESI(s) ELSE handleBusRdXMESI(s)
    BY <1>4 DEF snoopBusRequest
  <2> QED
    BY <1>1, <1>2, <1>4, <2>1 DEF handleBusRdMESI, handleBusRdXMESI
<1>5. CASE Protocol = "MOESI"
  <2>1. snoopBusRequest(command, s) =
          IF command = "BusRd" THEN handleBusRdMOESI(s) ELSE handleBusRdXMOESI(s)
    BY <1>5 DEF snoopBusRequest
  <2> QED
    BY <1>1, <1>2, <1>5, <2>1 DEF handleBusRdMOESI, handleBusRdXMOESI
<1> QED
  BY <1>3, <1>4, <1>5, ProtocolAssumption

\* What the states that lineInState finds tell from the way the job is handled.
LEMMA OutcomeTells ==
    ASSUME NEW held \in SUBSET State, NEW op \in {"R", "W"}
    PROVE  LET outcome == handleRequestOutcome(op, held) IN
           /\ outcome = "hit" => held \cap Readable # {}
           /\ outcome = "miss" /\ op = "R" => held \cap Readable = {}
           /\ outcome = "exclusiveHit" => "exclusive" \in held
           /\ outcome = "ownedUpgrade" => "owned" \in held /\ Protocol = "MOESI"
           /\ outcome \in {"exclusiveHit", "ownedUpgrade"} /\ Protocol = "MOESI"
                 => held \subseteq Owning
<1>1. CASE op = "R"
  <2>1. handleRequestOutcome(op, held) = IF held \cap Readable # {} THEN "hit" ELSE "miss"
    BY <1>1 DEF handleRequestOutcome, readOutcome
  <2> QED
    BY <2>1
<1>2. CASE op = "W"
  <2>1. handleRequestOutcome(op, held) = writeOutcome(held)
    BY <1>2 DEF handleRequestOutcome
  <2>2. "modified" \in held => held \cap Readable # {}
    BY DEF Readable, State
  <2>3. CASE Protocol = "MSI"
    <3>1. writeOutcome(held) = IF "modified" \in held THEN "hit" ELSE "miss"
      BY <2>3 DEF writeOutcome
    <3> QED
      BY <1>2, <2>1, <2>2, <3>1
  <2>4. CASE Protocol = "MESI"
    <3>1. writeOutcome(held) = IF "modified" \in held THEN "hit"
                               ELSE IF "exclusive" \in held THEN "exclusiveHit" ELSE "miss"
      BY <2>4 DEF writeOutcome
    <3> QED
      BY <1>2, <2>1, <2>2, <2>4, <3>1
  <2>5. CASE Protocol = "MOESI"
    <3>1. writeOutcome(held) = IF {"invalid", "shared"} \cap held # {} THEN "miss"
                               ELSE IF "exclusive" \in held THEN "exclusiveHit"
                               ELSE IF "modified" \in held THEN "hit"
                               ELSE IF "owned" \in held THEN "ownedUpgrade" ELSE "miss"
      BY <2>5 DEF writeOutcome
    <3>2. {"invalid", "shared"} \cap held = {} => held \subseteq Owning
      BY DEF State, Owning
    <3> QED
      BY <1>2, <2>1, <2>2, <2>5, <3>1, <3>2
  <2> QED
    BY <2>3, <2>4, <2>5, ProtocolAssumption
<1> QED
  BY <1>1, <1>2

\* The same for a job of a cache: what the outcome tells of the line of its own
\* address, and of every line that setLineState would change.
LEMMA JobOutcomeTells ==
    ASSUME TagsAreSafe, TypeOK, StatesOfProtocol,
           NEW c \in Procs, NEW b \in Blocks, NEW op \in {"R", "W"}
    PROVE  /\ NoTagSharing /\ Outcome(c, op, b) \in {"hit", "exclusiveHit"}
                 => line[c][b] \in Readable
           /\ Outcome(c, op, b) = "miss" /\ op = "R" => line[c][b] \notin Readable
           /\ Outcome(c, op, b) \in {"exclusiveHit", "ownedUpgrade"} =>
                 /\ Protocol # "MSI"
                 /\ \A d \in SameTag(b) : line[c][d] # "absent" => line[c][d] \in Owning
<1>1. \A d \in Blocks : line[c][d] \in State \cup {"absent"}
  BY DEF TypeOK, LineState
<1>2. Held(c, b) \in SUBSET State
  BY <1>1 DEF Held, SameTag
<1>3. \A d \in SameTag(b) : line[c][d] # "absent" => line[c][d] \in Held(c, b)
  BY DEF Held
<1>4. b \in SameTag(b) /\ "absent" \notin Readable
  BY DEF SameTag, Readable, State
<1>5. Protocol = "MSI" => "exclusive" \notin Held(c, b)
  BY DEF Held, SameTag, StatesOfProtocol
<1> DEFINE outcome == handleRequestOutcome(op, Held(c, b))
<1>6. /\ outcome = "hit" => Held(c, b) \cap Readable # {}
      /\ outcome = "miss" /\ op = "R" => Held(c, b) \cap Readable = {}
      /\ outcome = "exclusiveHit" => "exclusive" \in Held(c, b)
      /\ outcome = "ownedUpgrade" => "owned" \in Held(c, b) /\ Protocol = "MOESI"
      /\ outcome \in {"exclusiveHit", "ownedUpgrade"} /\ Protocol = "MOESI"
            => Held(c, b) \subseteq Owning
  BY <1>2, OutcomeTells
<1>7. Outcome(c, op, b) = outcome
  BY DEF Outcome
<1>8. "exclusive" \in Readable /\ "exclusive" \in Owning
  BY DEF Readable, State, Owning
<1>9. ASSUME NoTagSharing, outcome \in {"hit", "exclusiveHit"} PROVE line[c][b] \in Readable
  BY <1>6, <1>8, <1>9, LookupIsLocal
<1>10. ASSUME outcome = "miss", op = "R" PROVE line[c][b] \notin Readable
  BY <1>3, <1>4, <1>6, <1>10
<1>11. ASSUME outcome \in {"exclusiveHit", "ownedUpgrade"} PROVE Protocol # "MSI"
  BY <1>5, <1>6, <1>11
<1>12. ASSUME outcome \in {"exclusiveHit", "ownedUpgrade"},
              NEW d \in SameTag(b), line[c][d] # "absent"
       PROVE  line[c][d] \in Owning
  <2>1. CASE Protocol = "MOESI"
    BY <1>3, <1>6, <1>12, <2>1
  <2>2. CASE Protocol = "MESI"
    BY <1>3, <1>6, <1>8, <1>12, <2>2, LookupIsLocal DEF TagsAreSafe
  <2> QED
    BY <1>11, <1>12, <2>1, <2>2, ProtocolAssumption
<1> QED
  BY <1>7, <1>9, <1>10, <1>11, <1>12

\* What busJobDone installs, in one cache and for one line.
LEMMA InstalledStates ==
    ASSUME NEW op \in {"R", "W"}, NEW isShared \in BOOLEAN
    PROVE  LET s == installedState(op, isShared) IN
           /\ ProtocolState(s)
           /\ s \in {"shared", "exclusive", "modified"}
           /\ s = "modified" => op = "W"
           /\ s = "exclusive" => op = "R" /\ ~isShared /\ Protocol # "MSI"
BY ProtocolAssumption DEF installedState, ProtocolState, LineState, State

-----------------------------------------------------------------------------
LEMMA InitEstablishesInv == Init => CoherenceInv
BY DEF Init, CoherenceInv, TypeOK, StatesOfProtocol, OneOwner, SWMR, HitIsHeld,
       ReaderHasNoCopy, BroadcastHolds, LineState, Owning, Readable, State, Idle, Job

\* A job that begins in a phase other than "granted" and leaves the lines as
\* they are disturbs nothing, if what it claims to hit is there.
LEMMA BeginKeepsInv ==
    ASSUME CoherenceInv, UNCHANGED line,
           NEW phase \in {"hit", "requested"}, NEW c \in Procs,
           NEW op \in {"R", "W"}, NEW b \in Blocks,
           job' = Begin(phase, c, op, b),
           NoTagSharing /\ phase = "hit" => line[c][b] \in Readable,
           phase = "requested" /\ op = "R" => line[c][b] \notin Readable
    PROVE  CoherenceInv'
<1>1. /\ job' \in Job /\ job'.phase = phase
      /\ job'.proc = c /\ job'.op = op /\ job'.block = b
  BY DEF Begin, Job
<1>2. TypeOK'
  BY <1>1 DEF CoherenceInv, TypeOK
<1>3. (NoTagSharing => HitIsHeld') /\ ReaderHasNoCopy'
  BY <1>1 DEF HitIsHeld, ReaderHasNoCopy
<1>4. BroadcastHolds'
  BY <1>1 DEF BroadcastHolds
<1> QED
  BY <1>2, <1>3, <1>4 DEF CoherenceInv, StatesOfProtocol, OneOwner, SWMR

\* A line that may be written is written: it becomes modified, in one cache, and
\* so do the lines of its tag in other sets, which that cache owned as well.
LEMMA WriteKeepsInv ==
    ASSUME CoherenceInv, NEW phase \in {"hit", "requested"},
           NEW c \in Procs, NEW b \in Blocks,
           job' = Begin(phase, c, "W", b),
           line' = setLineState(c, b, "modified"),
           Protocol # "MSI",
           \A d \in SameTag(b) : line[c][d] # "absent" => line[c][d] \in Owning,
           NoTagSharing /\ phase = "hit" => line[c][b] \in Readable
    PROVE  CoherenceInv'
<1> USE DEF CoherenceInv
<1>1. /\ job' \in Job /\ job'.phase = phase
      /\ job'.proc = c /\ job'.op = "W" /\ job'.block = b
  BY DEF Begin, Job
<1>2. \A o \in Procs, d \in Blocks :
         line'[o][d] = IF o = c /\ d \in SameTag(b) /\ line[c][d] # "absent"
                       THEN "modified" ELSE line[o][d]
  BY SetLineStateSets
<1>3. \A o \in Procs, d \in Blocks :
         /\ line'[o][d] \in Owning => line[o][d] \in Owning
         /\ line'[o][d] \in Readable <=> line[o][d] \in Readable
  BY <1>2 DEF Owning, Readable, State
<1>4. TypeOK'
  BY <1>1 DEF TypeOK, LineState, State, setLineState
<1>5. StatesOfProtocol'
  BY <1>2 DEF StatesOfProtocol
<1>6. OneOwner'
  BY <1>3 DEF OneOwner
<1>7. ASSUME Protocol # "MOESI" PROVE SWMR'
  <2>1. \A o \in Procs, d \in Blocks :
           line'[o][d] \in {"modified", "exclusive"} => line[o][d] \in {"modified", "exclusive"}
    BY <1>3, <1>7, ProtocolAssumption DEF Owning, StatesOfProtocol
  <2> QED
    BY <1>3, <1>7, <2>1 DEF SWMR
<1>8. NoTagSharing => HitIsHeld'
  BY <1>1, <1>3 DEF HitIsHeld
<1>9. ReaderHasNoCopy' /\ BroadcastHolds'
  BY <1>1 DEF ReaderHasNoCopy, BroadcastHolds
<1> QED
  BY <1>4, <1>5, <1>6, <1>7, <1>8, <1>9

\* The broadcast demotes every other copy at once, which is what BroadcastHolds
\* says.
LEMMA BroadcastKeepsInv ==
    ASSUME CoherenceInv, Broadcast
    PROVE  CoherenceInv'
<1> USE DEF CoherenceInv
<1> DEFINE c == job.proc
           b == job.block
           command == commandOf(job.op)
           reply(o) == snoopBusRequest(command, line[o][b])
<1>1. /\ job \in Job /\ c \in Procs /\ b \in Blocks /\ job.op \in {"R", "W"}
      /\ command \in Command
      /\ job.op = "W" => command = "BusRdX"
      /\ job.op = "R" => command = "BusRd"
  BY DEF Broadcast, TypeOK, Job, Idle, commandOf, Command
<1>2. \A o \in Procs, d \in Blocks :
         line'[o][d] = IF o # c /\ d = b THEN reply(o).state ELSE line[o][d]
  BY <1>1 DEF Broadcast, TypeOK, SnoopReply
<1>3. /\ job' \in Job /\ job'.phase = "granted"
      /\ job'.proc = c /\ job'.block = b /\ job'.op = job.op
      /\ job'.shared = \E o \in Procs \ {c} : reply(o).result \in SharedReplies
  BY <1>1 DEF Broadcast, SnoopReply, Job
<1>4. \A o \in Procs :
         /\ ProtocolState(line[o][b])
         /\ ProtocolState(reply(o).state)
         /\ reply(o).state \in Readable => line[o][b] \in Readable
         /\ reply(o).state \in Owning => line[o][b] \in Owning
         /\ command = "BusRdX" => reply(o).state \notin Readable
         /\ command = "BusRd" /\ Protocol # "MOESI" => reply(o).state \notin Owning
         /\ Protocol = "MESI" /\ line[o][b] \in Readable => reply(o).result \in SharedReplies
         /\ Protocol = "MOESI" /\ line[o][b] \in Owning => reply(o).result \in SharedReplies
  <2> TAKE o \in Procs
  <2>1. ProtocolState(line[o][b])
    BY <1>1 DEF TypeOK, StatesOfProtocol, ProtocolState
  <2> QED
    BY <1>1, <2>1, SnoopDemotes
<1>5. TypeOK'
  <2>1. \A o \in Procs : line'[o] \in [Blocks -> LineState]
    <3> TAKE o \in Procs
    <3>1. CASE o = c
      BY <3>1 DEF Broadcast, TypeOK
    <3>2. CASE o # c
      <4>1. line'[o] = [line[o] EXCEPT ![b] = reply(o).state]
        BY <3>2 DEF Broadcast, SnoopReply
      <4> QED
        BY <4>1, <1>4 DEF TypeOK, ProtocolState
    <3> QED
      BY <3>1, <3>2
  <2> QED
    BY <1>3, <2>1 DEF Broadcast, TypeOK
<1>6. StatesOfProtocol'
  BY <1>2, <1>4 DEF StatesOfProtocol, ProtocolState
<1>7. \A o \in Procs, d \in Blocks :
         /\ line'[o][d] \in Readable => line[o][d] \in Readable
         /\ line'[o][d] \in Owning => line[o][d] \in Owning
  BY <1>2, <1>4
<1>8. OneOwner'
  BY <1>7 DEF OneOwner
<1>9. ASSUME Protocol # "MOESI" PROVE SWMR'
  <2>1. \A o \in Procs, d \in Blocks :
           line'[o][d] \in {"modified", "exclusive"} => line[o][d] \in {"modified", "exclusive"}
    BY <1>6, <1>7, <1>9, ProtocolAssumption DEF Owning, StatesOfProtocol
  <2> QED
    BY <1>7, <1>9, <2>1 DEF SWMR
<1>10. (NoTagSharing => HitIsHeld') /\ ReaderHasNoCopy'
  BY <1>1, <1>2, <1>3 DEF HitIsHeld, ReaderHasNoCopy, Broadcast
<1>11. BroadcastHolds'
  <2> SUFFICES ASSUME NEW o \in Procs \ {c}
               PROVE  /\ job.op = "W" => line'[o][b] \notin Readable
                      /\ Protocol # "MOESI" => line'[o][b] \notin Owning
                      /\ Protocol = "MESI" /\ ~job'.shared => line'[o][b] \notin Readable
                      /\ ~job'.shared => line'[o][b] \notin Owning
    BY <1>3 DEF BroadcastHolds
  <2>1. line'[o][b] = reply(o).state
    BY <1>1, <1>2
  <2>2. Owning \subseteq Readable
    BY DEF Owning, Readable, State
  <2> QED
    BY <1>1, <1>3, <1>4, <2>1, <2>2, ProtocolAssumption
<1> QED
  BY <1>5, <1>6, <1>8, <1>9, <1>10, <1>11

\* A line is installed only as strong as the broadcast allows, and whatever is
\* evicted for it only loses rights.
LEMMA BusJobDoneKeepsInv ==
    ASSUME CoherenceInv, busJobDone
    PROVE  CoherenceInv'
<1> USE DEF CoherenceInv
<1> DEFINE c == job.proc
           b == job.block
           new == installedState(job.op, job.shared)
<1>1. /\ c \in Procs /\ b \in Blocks /\ job.op \in {"R", "W"}
      /\ job.shared \in BOOLEAN /\ job.phase = "granted"
  BY DEF busJobDone, TypeOK, Job, Idle
<1>2. PICK evicted \in {{}} \cup {{d} : d \in Victims} :
         line' = [line EXCEPT ![c] = [d \in Blocks |->
                     IF d = b THEN new ELSE IF d \in evicted THEN "absent" ELSE line[c][d]]]
  BY DEF busJobDone
<1>3. \A o \in Procs, d \in Blocks :
         line'[o][d] = IF o # c THEN line[o][d]
                       ELSE IF d = b THEN new
                       ELSE IF d \in evicted THEN "absent" ELSE line[o][d]
  BY <1>1, <1>2 DEF TypeOK
<1>4. /\ ProtocolState(new)
      /\ new \in {"shared", "exclusive", "modified"}
      /\ new = "modified" => job.op = "W"
      /\ new = "exclusive" => job.op = "R" /\ ~job.shared /\ Protocol # "MSI"
  BY <1>1, InstalledStates
<1>5. TypeOK'
  <2>1. [d \in Blocks |-> IF d = b THEN new ELSE IF d \in evicted THEN "absent" ELSE line[c][d]]
           \in [Blocks -> LineState]
    BY <1>1, <1>4 DEF TypeOK, ProtocolState, LineState
  <2> QED
    BY <1>1, <1>2, <2>1 DEF busJobDone, TypeOK
<1>6. StatesOfProtocol'
  BY <1>3, <1>4 DEF StatesOfProtocol, ProtocolState
\* Every line but the new one is as it was, or gone.
<1>7. \A o \in Procs, d \in Blocks : o # c \/ d # b =>
         line'[o][d] = line[o][d] \/ line'[o][d] = "absent"
  BY <1>3
<1>8. line'[c][b] = new /\ \A o \in Procs \ {c} : line'[o][b] = line[o][b]
  BY <1>1, <1>3
<1>9. \A o \in Procs \ {c} :
         /\ new \in Owning => line[o][b] \notin Owning
         /\ Protocol # "MOESI" => line[o][b] \notin Owning
         /\ Protocol # "MOESI" /\ new \in Owning => line[o][b] \notin Readable
  <2>1. Owning \subseteq Readable
    BY DEF Owning, Readable, State
  <2>2. new \in Owning => (new = "modified" /\ job.op = "W")
                            \/ (new = "exclusive" /\ ~job.shared /\ Protocol # "MSI")
    BY <1>4 DEF Owning
  <2> QED
    BY <1>1, <2>1, <2>2, ProtocolAssumption DEF BroadcastHolds
<1>10. OneOwner'
  <2> SUFFICES ASSUME NEW o \in Procs, NEW p \in Procs, NEW d \in Blocks, o # p,
                      line'[o][d] \in Owning
               PROVE  line'[p][d] \notin Owning
    BY DEF OneOwner
  <2>1. "absent" \notin Owning
    BY DEF Owning
  <2>2. CASE d = b /\ o = c
    BY <1>8, <1>9, <2>2
  <2>3. CASE d = b /\ p = c
    BY <1>8, <1>9, <2>3
  <2>4. CASE d # b \/ (o # c /\ p # c)
    BY <1>7, <2>1, <2>4 DEF OneOwner
  <2> QED
    BY <2>2, <2>3, <2>4
<1>11. ASSUME Protocol # "MOESI" PROVE SWMR'
  <2> SUFFICES ASSUME NEW o \in Procs, NEW p \in Procs, NEW d \in Blocks, o # p,
                      line'[o][d] \in {"modified", "exclusive"}
               PROVE  line'[p][d] \notin Readable
    BY DEF SWMR
  <2>1. "absent" \notin Readable
    BY DEF Readable, State
  <2>2. CASE d = b /\ o = c
    BY <1>8, <1>9, <1>11, <2>2 DEF Owning
  <2>3. CASE d = b /\ p = c
    BY <1>8, <1>9, <1>11, <2>3 DEF Owning
  <2>4. CASE d # b \/ (o # c /\ p # c)
    BY <1>7, <1>11, <2>1, <2>4 DEF SWMR
  <2> QED
    BY <2>2, <2>3, <2>4
<1>12. HitIsHeld' /\ ReaderHasNoCopy' /\ BroadcastHolds'
  BY DEF busJobDone, Idle, HitIsHeld, ReaderHasNoCopy, BroadcastHolds
<1> QED
  BY <1>5, <1>6, <1>10, <1>11, <1>12

LEMMA NextKeepsInv ==
    ASSUME TagsAreSafe, CoherenceInv, [Next]_vars
    PROVE  CoherenceInv'
<1>1. TypeOK /\ StatesOfProtocol
  BY DEF CoherenceInv
<1>2. ASSUME NEW c \in Procs, NEW b \in Blocks, NEW op \in {"R", "W"}, Hit(c, op, b)
      PROVE  CoherenceInv'
  BY <1>1, <1>2, JobOutcomeTells, BeginKeepsInv DEF Hit
<1>3. ASSUME NEW c \in Procs, NEW b \in Blocks, NEW op \in {"R", "W"}, Miss(c, op, b)
      PROVE  CoherenceInv'
  BY <1>1, <1>3, JobOutcomeTells, BeginKeepsInv DEF Miss
<1>4. ASSUME NEW c \in Procs, NEW b \in Blocks, handleWriteExclusive(c, b)
      PROVE  CoherenceInv'
  BY <1>1, <1>4, JobOutcomeTells, WriteKeepsInv DEF handleWriteExclusive
<1>5. ASSUME NEW c \in Procs, NEW b \in Blocks, handleWriteOwned(c, b)
      PROVE  CoherenceInv'
  BY <1>1, <1>5, JobOutcomeTells, WriteKeepsInv DEF handleWriteOwned
<1>6. CASE HitDone
  BY <1>6 DEF HitDone, CoherenceInv, TypeOK, StatesOfProtocol, OneOwner, SWMR,
              HitIsHeld, ReaderHasNoCopy, BroadcastHolds, Idle
<1>7. CASE UNCHANGED vars
  BY <1>7 DEF vars, CoherenceInv, TypeOK, StatesOfProtocol, OneOwner, SWMR,
              HitIsHeld, ReaderHasNoCopy, BroadcastHolds
<1> QED
  BY <1>2, <1>3, <1>4, <1>5, <1>6, <1>7, BroadcastKeepsInv, BusJobDoneKeepsInv DEF Next

-----------------------------------------------------------------------------
\* The inductive invariant holds in every state (all handlers of Cache.cpp and
\* the arbitration and broadcast of AtomicBusManager.cpp), whatever the protocol.
THEOREM InvHolds == TagsAreSafe => (Spec => []CoherenceInv)
<1> SUFFICES ASSUME TagsAreSafe PROVE Spec => []CoherenceInv
  OBVIOUS
<1>1. Init => CoherenceInv
  BY InitEstablishesInv
<1>2. CoherenceInv /\ [Next]_vars => CoherenceInv'
  BY NextKeepsInv
<1> QED
  BY <1>1, <1>2, PTL DEF Spec

\* Lines and jobs are of their types throughout.
THEOREM TypeCorrect == TagsAreSafe => (Spec => []TypeOK)
<1>1. CoherenceInv => TypeOK
  BY DEF CoherenceInv
<1> QED
  BY <1>1, InvHolds, PTL

\* MSI and MESI let one cache write a block only while no other can read it.
\* (MOESI does not: CoherenceMOESIExclusive.cfg.  MESI does not either once a tag
\* is in two sets, where an exclusive line of one set is a hit for the other.)
THEOREM SingleWriter ==
    TagsAreSafe /\ Protocol \in {"MSI", "MESI"} => (Spec => []SWMR)
<1> SUFFICES ASSUME TagsAreSafe, Protocol \in {"MSI", "MESI"} PROVE Spec => []SWMR
  OBVIOUS
<1>1. CoherenceInv => SWMR
  BY DEF CoherenceInv
<1> QED
  BY <1>1, InvHolds, PTL

\* In all three protocols at most one cache answers for the data of a block,
\* so the bus shortens a request for one supplier at most.
THEOREM SingleOwner == TagsAreSafe => (Spec => []OneOwner)
<1>1. CoherenceInv => OneOwner
  BY DEF CoherenceInv
<1> QED
  BY <1>1, InvHolds, PTL

\* What the broadcast established is still true when busJobDone relies on it, many
\* cycles later: isShared is not out of date, and nobody else can write the block.
THEOREM BroadcastLasts == TagsAreSafe => (Spec => []BroadcastHolds)
<1>1. CoherenceInv => BroadcastHolds
  BY DEF CoherenceInv
<1> QED
  BY <1>1, InvHolds, PTL

\* A hit is never a hit on another address's line, while no tag is used twice.
\* (With a tag in two sets it may be: CoherenceSharedTag.cfg.)
THEOREM HitsAreHeld == NoTagSharing => (Spec => []HitIsHeld)
<1> SUFFICES ASSUME NoTagSharing PROVE Spec => []HitIsHeld
  OBVIOUS
<1>1. TagsAreSafe
  BY DEF TagsAreSafe
<1>2. CoherenceInv => HitIsHeld
  BY DEF CoherenceInv
<1> QED
  BY <1>1, <1>2, InvHolds, PTL
-----------------------------------------------------------------------------
\* A broadcast read leaves a dirty line dirty under MOESI.
LEMMA MOESIReadKeepsDirty ==
    ASSUME Protocol = "MOESI", NEW s \in Dirty
    PROVE  snoopBusRequest("BusRd", s).state \in Dirty
BY DEF snoopBusRequest, handleBusRdMOESI, Reply, Dirty

\* Data newer than memory is lost from the caches by eviction and by the flushes
\* of MSI and MESI only (the states that the snoop handlers and busJobDone leave).
THEOREM DirtyDataIsKept == TagsAreSafe => (Spec => DirtyKeptUnlessFlushed)
<1> DEFINE Excused(b) ==
             \/ \E c \in Procs : line[c][b] \in Dirty /\ line[c][b]' = "absent"
             \/ /\ Protocol # "MOESI"
                /\ job.phase = "requested" /\ job.op = "R" /\ job.block = b
           Kept == \A b \in Blocks : DirtyInCaches(b) /\ ~DirtyInCaches(b)' => Excused(b)
<1> SUFFICES ASSUME TagsAreSafe PROVE Spec => DirtyKeptUnlessFlushed
  OBVIOUS
<1>1. ASSUME CoherenceInv, [Next]_vars PROVE [Kept]_vars
  <2>1. TypeOK /\ StatesOfProtocol
    BY <1>1 DEF CoherenceInv
  <2>2. ASSUME job = Idle \/ job.phase # "granted",
               \A c \in Procs, b \in Blocks : line[c][b] \in Dirty => line'[c][b] \in Dirty
        PROVE  Kept
    BY <2>2 DEF DirtyInCaches, Idle
  <2>3. ASSUME NEW c \in Procs, NEW b \in Blocks, NEW op \in {"R", "W"},
               Hit(c, op, b) \/ Miss(c, op, b)
        PROVE  Kept
    BY <2>2, <2>3 DEF Hit, Miss
  <2>4. ASSUME NEW c \in Procs, NEW b \in Blocks,
               handleWriteExclusive(c, b) \/ handleWriteOwned(c, b)
        PROVE  Kept
    <3>1. job = Idle /\ line' = setLineState(c, b, "modified")
      BY <2>4 DEF handleWriteExclusive, handleWriteOwned
    <3> QED
      BY <2>1, <2>2, <3>1, SetLineStateSets DEF Dirty
  <2>5. CASE HitDone
    BY <2>2, <2>5 DEF HitDone
  <2>6. CASE Broadcast
    <3>1. /\ job.proc \in Procs /\ job.block \in Blocks /\ job.op \in {"R", "W"}
          /\ job.phase = "requested"
          /\ job'.phase = "granted" /\ job'.op = job.op /\ job'.block = job.block
      BY <2>1, <2>6 DEF Broadcast, TypeOK, Job, Idle
    <3>2. \A c \in Procs, b \in Blocks :
             line'[c][b] = IF c # job.proc /\ b = job.block THEN SnoopReply(c).state
                           ELSE line[c][b]
      BY <2>1, <2>6, <3>1 DEF Broadcast, TypeOK
    <3>3. CASE job.op = "W"
      BY <3>1, <3>2, <3>3 DEF DirtyInCaches
    <3>4. CASE job.op = "R" /\ Protocol # "MOESI"
      BY <3>1, <3>2, <3>4 DEF DirtyInCaches
    <3>5. CASE job.op = "R" /\ Protocol = "MOESI"
      <4>1. \A c \in Procs, b \in Blocks : line[c][b] \in Dirty => line'[c][b] \in Dirty
        BY <3>2, <3>5, MOESIReadKeepsDirty DEF SnoopReply, commandOf
      <4> QED
        BY <2>2, <3>1, <4>1
    <3> QED
      BY <3>1, <3>3, <3>4, <3>5
  <2>7. CASE busJobDone
    <3>1. /\ job.proc \in Procs /\ job.block \in Blocks /\ job.op \in {"R", "W"}
          /\ job.phase = "granted"
      BY <2>1, <2>7 DEF busJobDone, TypeOK, Job, Idle
    <3>2. \A c \in Procs, b \in Blocks : c # job.proc \/ b # job.block =>
             line'[c][b] = line[c][b] \/ line'[c][b] = "absent"
      <4>1. PICK evicted \in {{}} \cup {{d} : d \in Victims} :
               line' = [line EXCEPT ![job.proc] = [d \in Blocks |->
                           IF d = job.block THEN installedState(job.op, job.shared)
                           ELSE IF d \in evicted THEN "absent" ELSE line[job.proc][d]]]
        BY <2>7 DEF busJobDone
      <4> QED
        BY <2>1, <3>1, <4>1 DEF TypeOK
    <3>3. job.op = "W" => line'[job.proc][job.block] = "modified"
      BY <2>1, <2>7, <3>1 DEF busJobDone, TypeOK, installedState
    <3>4. job.op = "R" => line[job.proc][job.block] \notin Dirty
      BY <1>1, <3>1 DEF CoherenceInv, ReaderHasNoCopy, Readable, Dirty, State
    <3> SUFFICES ASSUME NEW b \in Blocks, DirtyInCaches(b), ~DirtyInCaches(b)'
                 PROVE  Excused(b)
      OBVIOUS
    <3>5. job.op = "R" \/ b # job.block
      BY <3>1, <3>3 DEF DirtyInCaches, Dirty
    <3>6. PICK c \in Procs : line[c][b] \in Dirty
      BY <3>5 DEF DirtyInCaches
    <3>7. c # job.proc \/ b # job.block
      BY <3>4, <3>5, <3>6
    <3> QED
      BY <3>2, <3>6, <3>7 DEF DirtyInCaches
  <2> QED
    BY <1>1, <2>3, <2>4, <2>5, <2>6, <2>7 DEF Next
<1> QED
  BY <1>1, InvHolds, PTL DEF Spec, DirtyKeptUnlessFlushed

-----------------------------------------------------------------------------
\* A write that has the bus is not a write to an owned line any more.  The test for
\* owned lines in busJobDone never finds one, and the request is counted as one that
\* memory has served.
WriterIsNotOwner ==
    job.phase \in {"requested", "granted"} /\ job.op = "W" =>
        line[job.proc][job.block] # "owned"

LEMMA OwnerDoesNotMiss ==
    ASSUME NoTagSharing, NEW c \in Procs, NEW b \in Blocks, Outcome(c, "W", b) = "miss",
           Protocol = "MOESI"
    PROVE  line[c][b] # "owned"
<1> SUFFICES ASSUME line[c][b] = "owned"  PROVE FALSE
  OBVIOUS
<1>1. Held(c, b) = {"owned"}
  BY LookupIsLocal
<1>2. writeOutcome({"owned"}) = "ownedUpgrade"
  BY DEF writeOutcome
<1> QED  BY <1>1, <1>2 DEF Outcome, handleRequestOutcome

\* MOESI's write to an owned line (handleWriteOwned of Cache.cpp) and its write miss
\* leave no owned line for busJobDone to find, while no tag is used twice.
THEOREM WriterDoesNotOwn ==
    NoTagSharing /\ Protocol = "MOESI" => (Spec => []WriterIsNotOwner)
<1> SUFFICES ASSUME NoTagSharing, Protocol = "MOESI"  PROVE Spec => []WriterIsNotOwner
  OBVIOUS
<1>1. TagsAreSafe
  BY DEF TagsAreSafe
<1>2. Init => WriterIsNotOwner
  BY DEF Init, Idle, WriterIsNotOwner
<1>3. TypeOK /\ WriterIsNotOwner /\ [Next]_vars => WriterIsNotOwner'
  <2> SUFFICES ASSUME TypeOK, WriterIsNotOwner, [Next]_vars  PROVE WriterIsNotOwner'
    OBVIOUS
  <2>1. CASE UNCHANGED vars
    BY <2>1 DEF vars, WriterIsNotOwner
  <2>2. ASSUME NEW c \in Procs, NEW b \in Blocks, NEW op \in {"R", "W"},
               Hit(c, op, b) \/ Miss(c, op, b)
        PROVE  WriterIsNotOwner'
    BY <2>2, OwnerDoesNotMiss DEF Hit, Miss, Begin, WriterIsNotOwner
  <2>3. ASSUME NEW c \in Procs, NEW b \in Blocks, handleWriteExclusive(c, b)
        PROVE  WriterIsNotOwner'
    BY <2>3 DEF handleWriteExclusive, Begin, WriterIsNotOwner
  <2>4. ASSUME NEW c \in Procs, NEW b \in Blocks, handleWriteOwned(c, b)
        PROVE  WriterIsNotOwner'
    <3>1. /\ job'.proc = c /\ job'.block = b
          /\ Outcome(c, "W", b) = "ownedUpgrade" /\ line' = setLineState(c, b, "modified")
      BY <2>4 DEF handleWriteOwned, Begin
    <3>2. line'[c][b] = IF line[c][b] # "absent" THEN "modified" ELSE "absent"
      BY <3>1, SetLineStateSets DEF SameTag
    <3> QED  BY <3>1, <3>2 DEF WriterIsNotOwner
  <2>5. CASE HitDone \/ busJobDone
    BY <2>5 DEF HitDone, busJobDone, Idle, WriterIsNotOwner
  <2>6. CASE Broadcast
    <3>1. /\ job.proc \in Procs /\ job.phase = "requested"
          /\ job'.op = job.op /\ job'.proc = job.proc /\ job'.block = job.block
      BY <2>6 DEF Broadcast, TypeOK, Job, Idle
    <3>2. line'[job.proc] = line[job.proc]
      BY <2>6, <3>1 DEF Broadcast
    <3> QED  BY <3>1, <3>2 DEF WriterIsNotOwner
  <2> QED  BY <2>1, <2>2, <2>3, <2>4, <2>5, <2>6 DEF Next
<1> QED  BY <1>1, <1>2, <1>3, TypeCorrect, PTL DEF Spec

===============================================================================
