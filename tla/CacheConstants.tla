---------------------------- MODULE CacheConstants ----------------------------
(***************************************************************************)
(* The configuration of a build (CacheConstants.cpp compiles it in) and    *)
(* the clock, which is one global that every component reads through its   *)
(* own CacheConstants object.                                              *)
(***************************************************************************)
EXTENDS CoherenceProtocol, Naturals

CONSTANTS CacheHitCycleCost, MemoryResponseCycleCost, CacheResponseCycleCost,
          NumProcessors, NumSets, NumLinesInSet,
          Blocks           \* the <<set, tag>> pairs the addresses decode to

\* The code has 4, 100, 20, 8, 64 and 8.  The costs of a hit and of memory must
\* differ: the bus tells an upgrade from a miss by its cost.
ASSUME CostsAssumption ==
    /\ CacheHitCycleCost \in Nat \ {0}
    /\ MemoryResponseCycleCost \in Nat \ {0}
    /\ CacheResponseCycleCost \in 1 .. MemoryResponseCycleCost
    /\ CacheHitCycleCost # MemoryResponseCycleCost
ASSUME SizesAssumption ==
    /\ NumProcessors \in Nat \ {0}
    /\ NumSets \in Nat \ {0}
    /\ NumLinesInSet \in Nat \ {0}

Caches == 0 .. NumProcessors - 1     \* processors and caches, by number
Sets   == 0 .. NumSets - 1

SetOf(b) == b[1]
TagOf(b) == b[2]
Tags == {TagOf(b) : b \in Blocks}

ASSUME BlocksAssumption == Blocks \subseteq Sets \X Nat

VARIABLE cycles

tick == cycles' = cycles + 1
===============================================================================
