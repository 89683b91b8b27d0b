------------------------------- MODULE CacheSet -------------------------------
(***************************************************************************)
(* One set of a cache: the lines in the order they were added, each with   *)
(* the cycle of its last use.  The operators are the methods of            *)
(* CacheSet.cpp on such a sequence; `now' is the cycle of the call.        *)
(***************************************************************************)
EXTENDS CacheConstants, Sequences, SequencesExt

Line == [tag : Tags, state : State, lastUsedCycle : Nat]

\* CacheLine's constructor.
CacheLine(t) == [tag |-> t, state |-> "invalid", lastUsedCycle |-> 0]

indexOf(s, t) == SelectInSeq(s, LAMBDA l : l.tag = t)     \* 0 if there is none

hasLine(s, t) == indexOf(s, t) # 0

\* getLine is a use of the line, whoever asks: a job or the snoop of a job of
\* another cache.
getLine(s, t) == s[indexOf(s, t)]
touchedSet(s, t, now) ==                     \* faulty: the whole set is marked
    [i \in DOMAIN s |-> [s[i] EXCEPT !.lastUsedCycle = now]]

touched(s, t, now) ==
    IF hasLine(s, t) THEN [s EXCEPT ![indexOf(s, t)].lastUsedCycle = now] ELSE s

setState(s, t, state) ==
    IF hasLine(s, t) THEN [s EXCEPT ![indexOf(s, t)].state = state] ELSE s

\* Full, for the code, is a set in which every line is modified.
isFull(s) ==
    /\ Len(s) >= NumLinesInSet
    /\ \A i \in DOMAIN s : s[i].state = "modified"

\* The line least recently used, the first of them if there are several.
lruIndex(s) == CHOOSE i \in DOMAIN s :
    \A j \in DOMAIN s : \/ s[i].lastUsedCycle < s[j].lastUsedCycle
                        \/ s[i].lastUsedCycle = s[j].lastUsedCycle /\ i <= j

evictLineModified(s) ==
    Len(s) = NumLinesInSet /\ s[lruIndex(s)].state = "modified"

evictLRULine(s) == RemoveAt(s, lruIndex(s))

appendLine(s, l) == Append(s, l)                       \* faulty: never evicts

addLine(s, l) ==
    Append(IF Len(s) = NumLinesInSet THEN evictLRULine(s) ELSE s, l)
===============================================================================
