------------------------------- MODULE PinTrace -------------------------------
(***************************************************************************)
(* The recorder (pinatrace.cpp, a tool for Pin): the calls that it inserts *)
(* BEFORE each memory access of the traced functions write one line to the *)
(* trace, under one lock.  The access itself follows when the lock has     *)
(* been released, in a step of its own, so other threads' records and      *)
(* accesses come between the two.                                          *)
(***************************************************************************)
EXTENDS Naturals, Sequences

VARIABLE trace           \* the lines written: <<op, variable, thread>>

TraceInit == trace = <<>>

RecordMemRead(addr, tid)  == trace' = Append(trace, <<"R", addr, tid>>)
RecordMemWrite(addr, tid) == trace' = Append(trace, <<"W", addr, tid>>)

InstrumentAlike(reads, addr, tid) ==         \* faulty: the same call for both
    RecordMemRead(addr, tid)

\* The call that Routine inserts for a memory operand that is read, or written.
Instrument(reads, addr, tid) ==
    IF reads THEN RecordMemRead(addr, tid) ELSE RecordMemWrite(addr, tid)
===============================================================================
