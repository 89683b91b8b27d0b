------------------------------ MODULE TraceReader ------------------------------
(***************************************************************************)
(* What main (CacheController.cpp) makes of the lines of a trace.  A line  *)
(* is scanned with "%c %llx %u" into three variables that live as long as  *)
(* the program: what does not parse keeps the value that an earlier line   *)
(* has given it, and the line is made a job all the same.                  *)
(*                                                                         *)
(* A line is the tuple of the fields that parse: <<op, block, thread>>, or *)
(* a prefix of it.  A comment is <<"-">>, an empty line is <<>>.           *)
(***************************************************************************)
EXTENDS Cache, Integers

CONSTANT TraceLines      \* the lines among which the trace's are chosen

Fields == Op \X Blocks \X Nat
CompleteLines == {"R", "W"} \X Blocks \X Nat

ASSUME TraceLinesAssumption ==
    \A l \in TraceLines : \/ l = <<>>
                          \/ \E op \in Op : l = <<op>>
                          \/ \E op \in Op, b \in Blocks : l = <<op, b>>
                          \/ l \in Fields

\* Address 0, from which the reader starts, is in set 0 and has tag 0.
ASSUME AddressZeroAssumption == <<0, 0>> \in Blocks

VARIABLES traceLine,     \* the line being scanned
          readWrite, address, threadId

readerVars == <<traceLine, readWrite, address, threadId>>

ReaderTypeOK ==
    /\ traceLine \in TraceLines \cup {<<>>}
    /\ readWrite \in Op /\ address \in Blocks /\ threadId \in Nat

ReaderInit ==
    /\ traceLine = <<>>
    /\ readWrite = "-" /\ address = <<0, 0>> /\ threadId = 0

scanned(l) ==
    [readWrite |-> IF Len(l) >= 1 THEN l[1] ELSE readWrite,
     address   |-> IF Len(l) >= 2 THEN l[2] ELSE address,
     threadId  |-> IF Len(l) >= 3 THEN l[3] ELSE threadId]

sscanf(l) ==
    /\ traceLine' = l
    /\ readWrite' = scanned(l).readWrite
    /\ address' = scanned(l).address
    /\ threadId' = scanned(l).threadId

\* The job that a line is made, and the cache that gets it.
jobOf(l) == [op |-> scanned(l).readWrite, block |-> scanned(l).address]

accessProcessorIdFresh(l) ==                 \* faulty: 0 if the line has no thread
    (IF Len(l) >= 3 THEN l[3] ELSE 0) % NumProcessors
accessProcessorId(l) == scanned(l).threadId % NumProcessors
===============================================================================
