--------------------------- MODULE CoherenceProtocol ---------------------------
(***************************************************************************)
(* The decision tables of the three coherence protocols, as pure operators *)
(* named after the handlers of Cache.cpp.  A table says what a handler     *)
(* does to the state of ONE line; the modules that extend this one say     *)
(* which line that is, and add the time and the statistics.                *)
(***************************************************************************)
EXTENDS FiniteSets

CONSTANT Protocol   \* which protocol the simulator was compiled for

ASSUME ProtocolAssumption == Protocol \in {"MSI", "MESI", "MOESI"}

State == {"invalid", "shared", "modified", "exclusive", "owned"}
Command == {"BusRd", "BusRdX"}
SnoopResult == {"SHARED", "FLUSH_MODIFIED_TO_SHARED", "FLUSH_MODIFIED_TO_INVALID",
                "EXCLUSIVE", "OWNED", "MODIFIED", "NONE"}

Readable == State \ {"invalid"}                 \* states a read hits in
Owning   == {"modified", "exclusive", "owned"}  \* states that answer for the data
Dirty    == {"modified", "owned"}               \* states newer than main memory

-----------------------------------------------------------------------------
(***************************************************************************)
(* Snooping: the reply to another cache's bus request, and the state the   *)
(* line is left in.                                                        *)
(***************************************************************************)
Reply(r, s) == [result |-> r, state |-> s]

\* Faulty variants of the tables, for the runs to tell from the real ones.
BusRdKeepsExclusive(s) ==                         \* "no need to flush", nor to demote
    CASE s \in {"shared", "exclusive"} -> Reply("SHARED", s)
      [] s = "modified"                -> Reply("FLUSH_MODIFIED_TO_SHARED", "shared")
      [] OTHER                         -> Reply("NONE", s)
BusRdDropsOwner(s) ==                             \* MESI's answer under MOESI
    CASE s = "owned"    -> Reply("OWNED", "owned")
      [] s = "modified" -> Reply("MODIFIED", "shared")
      [] s = "shared"   -> Reply("SHARED", "shared")
      [] s = "exclusive" -> Reply("EXCLUSIVE", "shared")
      [] OTHER          -> Reply("NONE", s)
BusRdXLeavesOwned(s) ==                           \* the owner shares but keeps the line
    CASE s = "owned"     -> Reply("OWNED", "owned")
      [] s = "modified"  -> Reply("MODIFIED", "invalid")
      [] s = "exclusive" -> Reply("EXCLUSIVE", "invalid")
      [] s = "shared"    -> Reply("NONE", "invalid")
      [] OTHER           -> Reply("NONE", s)

handleBusRdMSI(s) ==
    CASE s = "shared"   -> Reply("SHARED", "shared")
      [] s = "modified" -> Reply("FLUSH_MODIFIED_TO_SHARED", "shared")
      [] OTHER          -> Reply("NONE", s)

handleBusRdXMSI(s) ==
    CASE s = "shared"   -> Reply("SHARED", "invalid")
      [] s = "modified" -> Reply("FLUSH_MODIFIED_TO_INVALID", "invalid")
      [] OTHER          -> Reply("NONE", s)

handleBusRdMESI(s) ==
    CASE s \in {"shared", "exclusive"} -> Reply("SHARED", "shared")
      [] s = "modified"                -> Reply("FLUSH_MODIFIED_TO_SHARED", "shared")
      [] OTHER                         -> Reply("NONE", s)

handleBusRdXMESI(s) ==
    CASE s \in {"shared", "exclusive"} -> Reply("SHARED", "invalid")
      [] s = "modified"                -> Reply("FLUSH_MODIFIED_TO_INVALID", "invalid")
      [] OTHER                         -> Reply("NONE", s)

handleBusRdMOESI(s) ==
    CASE s = "owned"     -> Reply("OWNED", "owned")
      [] s = "modified"  -> Reply("MODIFIED", "owned")
      [] s = "shared"    -> Reply("SHARED", "shared")
      [] s = "exclusive" -> Reply("EXCLUSIVE", "shared")
      [] OTHER           -> Reply("NONE", s)

handleBusRdXMOESI(s) ==
    CASE s = "owned"     -> Reply("OWNED", "invalid")
      [] s = "modified"  -> Reply("MODIFIED", "invalid")
      [] s = "exclusive" -> Reply("EXCLUSIVE", "invalid")
      [] s = "shared"    -> Reply("NONE", "invalid")
      [] OTHER           -> Reply("NONE", s)

\* A cache without the line answers NONE and changes nothing, which is what
\* every table does with any state it does not name.
snoopBusRequest(command, s) ==
    CASE Protocol = "MSI"   -> IF command = "BusRd" THEN handleBusRdMSI(s)
                                                    ELSE handleBusRdXMSI(s)
      [] Protocol = "MESI"  -> IF command = "BusRd" THEN handleBusRdMESI(s)
                                                    ELSE handleBusRdXMESI(s)
      [] Protocol = "MOESI" -> IF command = "BusRd" THEN handleBusRdMOESI(s)
                                                    ELSE handleBusRdXMOESI(s)

-----------------------------------------------------------------------------
(***************************************************************************)
(* What the bus and the requester make of the replies.                     *)
(***************************************************************************)

\* The replies for which the bus sets isShared.  MSI never does, and MOESI
\* does not for SHARED: that requester goes to main memory.
SharedRepliesDirtyOnly ==                         \* faulty: a clean copy is no share
    CASE Protocol = "MSI"   -> {}
      [] Protocol = "MESI"  -> {"FLUSH_MODIFIED_TO_INVALID", "FLUSH_MODIFIED_TO_SHARED"}
      [] Protocol = "MOESI" -> {"MODIFIED", "OWNED"}

SharedReplies ==
    CASE Protocol = "MSI"   -> {}
      [] Protocol = "MESI"  -> {"FLUSH_MODIFIED_TO_INVALID",
                                "FLUSH_MODIFIED_TO_SHARED", "SHARED"}
      [] Protocol = "MOESI" -> {"MODIFIED", "EXCLUSIVE", "OWNED"}

\* The state in which busJobDone leaves the line of the finished job.
installedStateOfRead(op, isShared) ==             \* faulty: as if all jobs were reads
    IF Protocol = "MSI" \/ isShared THEN "shared" ELSE "exclusive"

installedState(op, isShared) ==
    CASE op = "W"                         -> "modified"
      [] op = "R" /\ Protocol = "MSI"     -> "shared"
      [] op = "R" /\ Protocol # "MSI"     -> IF isShared THEN "shared" ELSE "exclusive"

-----------------------------------------------------------------------------
(***************************************************************************)
(* The processor's side.  held is the set of states that lineInState finds *)
(* for the tag of the current job; the outcome is the way the job is       *)
(* handled:                                                                *)
(*   "hit"            served by the cache, nothing changes                 *)
(*   "exclusiveHit"   served by the cache, lines become modified           *)
(*   "ownedUpgrade"   lines become modified, and a BusRdX is issued        *)
(*   "miss"           a bus request is issued                              *)
(*   "ignored"        neither a read nor a write: nothing is done          *)
(***************************************************************************)
writeOutcomeExclusiveFirst(held) ==               \* faulty: MOESI in MESI's order
    CASE "modified" \in held  -> "hit"
      [] "modified" \notin held /\ "exclusive" \in held -> "exclusiveHit"
      [] held = {"owned"}     -> "ownedUpgrade"
      [] OTHER                -> "miss"

writeOutcome(held) ==
    CASE Protocol = "MSI"   -> IF "modified" \in held THEN "hit" ELSE "miss"
      [] Protocol = "MESI"  -> IF "modified" \in held THEN "hit"
                               ELSE IF "exclusive" \in held THEN "exclusiveHit"
                               ELSE "miss"
      [] Protocol = "MOESI" -> IF {"invalid", "shared"} \cap held # {} THEN "miss"
                               ELSE IF "exclusive" \in held THEN "exclusiveHit"
                               ELSE IF "modified" \in held THEN "hit"
                               ELSE IF "owned" \in held THEN "ownedUpgrade"
                               ELSE "miss"

readOutcomeAnyLine(held) == IF held # {} THEN "hit" ELSE "miss"   \* faulty

readOutcome(held) == IF held \cap Readable # {} THEN "hit" ELSE "miss"

handleRequestOutcome(op, held) ==
    CASE op = "W" -> writeOutcome(held)
      [] op = "R" -> readOutcome(held)
      [] OTHER    -> "ignored"

commandOf(op) == IF op = "W" THEN "BusRdX" ELSE "BusRd"

=============================================================================
