---------------------------- MODULE NoFalseSharing ----------------------------
(***************************************************************************)
(* The workload no_false_sharing.cpp as the recorder traces it: threads    *)
(* that meet at a counter, write each to an array of its own, and count    *)
(* themselves out, while main waits for the counter to be zero.            *)
(*                                                                         *)
(* The counter is a plain int.  The build that is kept beside the source   *)
(* loads it into a register, adds, and stores it, as separate              *)
(* instructions, and reads it anew in every turn of the waiting loops.     *)
(* The recorder's lock, taken before every access of the threads, makes    *)
(* each store visible before the thread's next access.                     *)
(***************************************************************************)
EXTENDS PinTrace, Integers, FiniteSets

CONSTANTS NumThreads, NumElements

ASSUME NumbersAssumption == NumThreads \in Nat \ {0} /\ NumElements \in Nat \ {0}

VARIABLES thread_counts,
          thread,        \* thread[t]: where t is, its register, its index
          main           \* "creating", "waiting", "returned" or "exited"

vars == <<thread_counts, thread, main, trace>>

Threads == 0 .. NumThreads - 1

\* What a thread is about to access, in the order of access_array, and its ends.
Accesses == {"load", "store", "test", "element", "loadAgain", "storeAgain"}
Place == Accesses \cup {"none", "finished"}

TypeOK ==
    /\ thread_counts \in 0 .. NumThreads
    /\ thread \in [Threads -> [at : Place, recorded : BOOLEAN, eax : 0 .. NumThreads,
                               i : 0 .. NumElements]]
    /\ main \in {"creating", "waiting", "returned", "exited"}
    /\ trace \in Seq({"R", "W"} \X {"thread_counts", "array"} \X Threads)

Init ==
    /\ thread_counts = 0
    /\ thread = [t \in Threads |-> [at |-> "none", recorded |-> FALSE, eax |-> 0, i |-> 0]]
    /\ main = "creating"
    /\ TraceInit

-----------------------------------------------------------------------------
(***************************************************************************)
(* main.  It is not a traced function.                                     *)
(***************************************************************************)
\* The threads are created in the order of their numbers.
Create(t) ==
    /\ main = "creating"
    /\ thread[t].at = "none" /\ \A u \in Threads : u < t => thread[u].at # "none"
    /\ thread' = [thread EXCEPT ![t].at = "load"]
    /\ main' = IF t + 1 \in Threads THEN main ELSE "waiting"
    /\ UNCHANGED <<thread_counts, trace>>

\* pthread_create fails, and main exits.
CreateFails ==
    /\ main = "creating"
    /\ main' = "exited"
    /\ UNCHANGED <<thread_counts, thread, trace>>

\* The counter is read as zero.  Until the process has ended the threads go on.
Return ==
    /\ main = "waiting" /\ thread_counts = 0
    /\ main' = "returned"
    /\ UNCHANGED <<thread_counts, thread, trace>>

-----------------------------------------------------------------------------
(***************************************************************************)
(* access_array, in thread t.                                              *)
(***************************************************************************)
\* The access that comes next is recorded.  No line is kept of the reads in the
\* waiting loop, which have no end, and of the counting out, of which nothing is
\* said: lines that are left out change nothing in the order of the others.
Record(t) ==
    /\ thread[t].at \in Accesses /\ ~thread[t].recorded
    /\ thread' = [thread EXCEPT ![t].recorded = TRUE]
    /\ CASE thread[t].at \in {"load", "store"} ->
               Instrument(thread[t].at = "load", "thread_counts", t)
         [] thread[t].at = "element" -> Instrument(FALSE, "array", t)
         [] OTHER -> UNCHANGED trace
    /\ UNCHANGED <<thread_counts, main>>

\* Thread t makes the access that it is at and goes on to place p.
Access(t, at, p) ==
    /\ thread[t].at = at /\ thread[t].recorded
    /\ thread' = [thread EXCEPT ![t].at = p, ![t].recorded = FALSE,
                                ![t].eax = IF at \in {"load", "loadAgain"}
                                           THEN thread_counts ELSE @,
                                ![t].i = IF at = "element" THEN @ + 1 ELSE @]
    /\ UNCHANGED <<main, trace>>

Load(t) == Access(t, "load", "store") /\ UNCHANGED thread_counts

Store(t) == Access(t, "store", "test") /\ thread_counts' = thread[t].eax + 1

\* Faulty: off by one, either way.
allCountedButOne == thread_counts >= NumThreads - 1
allCountedAndOne == thread_counts > NumThreads
allCounted == thread_counts = NumThreads

\* while(thread_counts != NUM_THREADS);
Test(t) ==
    /\ Access(t, "test", IF allCounted THEN "element" ELSE "test")
    /\ UNCHANGED thread_counts

Element(t) ==
    /\ Access(t, "element",
              IF thread[t].i + 1 < NumElements THEN "element" ELSE "loadAgain")
    /\ UNCHANGED thread_counts

LoadAgain(t) == Access(t, "loadAgain", "storeAgain") /\ UNCHANGED thread_counts

\* Faulty: the counter is incremented again; the counter is reset.
StoreAgainMore(t) ==
    Access(t, "storeAgain", "finished") /\ thread_counts' = thread[t].eax + 1
StoreAgainZero(t) == Access(t, "storeAgain", "finished") /\ thread_counts' = 0

StoreAgain(t) ==
    Access(t, "storeAgain", "finished") /\ thread_counts' = thread[t].eax - 1

Step(t) == \/ Record(t) \/ Load(t) \/ Store(t) \/ Test(t)
           \/ Element(t) \/ LoadAgain(t) \/ StoreAgain(t)

Main == CreateFails \/ Return \/ \E t \in Threads : Create(t)

Next == Main \/ \E t \in Threads : Step(t)

\* Every thread is scheduled again and again, and the recorder's lock is held for
\* one line only.
Fairness == WF_vars(Main) /\ \A t \in Threads : WF_vars(Step(t))

Spec == Init /\ [][Next]_vars /\ Fairness

-----------------------------------------------------------------------------
(***************************************************************************)
(* Properties.                                                             *)
(***************************************************************************)
CountedIn  == {t \in Threads : thread[t].at \notin {"none", "load", "store"}}
Through    == {t \in Threads : thread[t].at \in
                                  {"element", "loadAgain", "storeAgain", "finished"}}
CountedOut == {t \in Threads : thread[t].at = "finished"}

\* The counter is a barrier even though increments may get lost: no thread is past
\* the waiting loop before every thread has counted itself in.
AllArrived == Through # {} => CountedIn = Threads

\* The barrier can be told from the trace: before the first line about an array
\* there is every thread's line about its write of the counter, although lines are
\* written ahead of the accesses.
BarrierInTrace ==
    \A m \in DOMAIN trace : trace[m][2] = "array" =>
        \A t \in Threads : \E n \in 1 .. m - 1 : trace[n] = <<"W", "thread_counts", t>>

\* The program comes to its end, unless an update of the counter has been lost or a
\* thread has counted itself out before a slow one has seen all counted in: there
\* is no other way to hang.
Missed(t) ==
    thread[t].at = "test" /\ CountedIn = Threads /\ thread_counts # NumThreads
CountLost == CountedOut = Threads /\ thread_counts # 0

Ends == <>(main \in {"returned", "exited"} \/ (\E t \in Threads : Missed(t)) \/ CountLost)

\* main returns too early, when no thread is through the barrier, or when every
\* thread has made all its accesses; never when some have.
ReturnsBeforeOrAfter ==
    [][Return => Through = {} \/ CountedOut = Threads]_vars
===============================================================================
