---------------------------- MODULE AddressDecode ----------------------------
(***************************************************************************)
(* Which addresses a cache can tell apart: decode_address (Cache.cpp) and  *)
(* the lines that are stored and found under what it returns.              *)
(*                                                                         *)
(* The mask of the tag is computed as (1 << numTagBits) - 1 on an int. The *)
(* code has 36 tag bits and an int of 32, and there the shift is not       *)
(* defined.  What a build does about it is chosen once, in Init.           *)
(***************************************************************************)
EXTENDS Integers

CONSTANTS LineBytes,     \* bytes of a line, 2^numBytesBits
          NumSets,       \* 2^numSetBits
          NumTagBits,    \* numAddressBits - (numSetBits + numBytesBits)
          NumTags,       \* 2^NumTagBits
          IntBits,       \* the width of int
          Addresses      \* the addresses in the trace

ASSUME WidthsAssumption ==
    /\ LineBytes \in Nat \ {0}
    /\ NumSets \in Nat \ {0}
    /\ NumTagBits \in Nat /\ IntBits \in Nat \ {0}
    /\ NumTags \in Nat \ {0} /\ NumTags = 2^NumTagBits
    /\ \A n \in 0 .. IntBits : 2^n \in Nat \ {0}     \* powers, for the provers
ASSUME AddressesAssumption ==
    Addresses \subseteq 0 .. (LineBytes * NumSets * NumTags - 1)

VARIABLES tagSpace,      \* how many tags the mask of this build lets through
          lines          \* the lines in the cache

vars == <<tagSpace, lines>>

\* An x86 shift takes the distance modulo the width; a compiler may also make
\* the result 0, the mask all ones, and the tag as wide as an int.
tagSpaces ==
    IF NumTagBits < IntBits THEN {NumTags}
    ELSE {2^(NumTagBits % IntBits), 2^IntBits}

memoryLine(a) == a \div LineBytes

\* decode_address
setOf(a) == memoryLine(a) % NumSets
tagOfHalf(a) == (memoryLine(a) \div (2 * NumSets)) % tagSpace   \* faulty: a bit too far
tagOf(a) == (memoryLine(a) \div NumSets) % tagSpace

hasTag(l, a) == l.setIndex = setOf(a) /\ l.myTag = tagOf(a)
CacheLine(a) == [rawAddress |-> a, setIndex |-> setOf(a), myTag |-> tagOf(a)]

Init ==
    /\ tagSpace \in tagSpaces
    /\ lines = {}

\* busJobDone for a job at a: its line is found under its tag, or added.
StoreTwice(a) ==                                      \* faulty: the tag is not looked up
    /\ lines' = lines \cup {CacheLine(a)}
    /\ UNCHANGED tagSpace

Store(a) ==
    /\ lines' = IF \E l \in lines : hasTag(l, a) THEN lines ELSE lines \cup {CacheLine(a)}
    /\ UNCHANGED tagSpace

\* Any line may have to make room.
evictLRULine(l) ==
    /\ lines' = lines \ {l}
    /\ UNCHANGED tagSpace

Next ==
    \/ \E a \in Addresses : Store(a)
    \/ \E l \in lines : evictLRULine(l)

Spec == Init /\ [][Next]_vars

-----------------------------------------------------------------------------
\* The lookup by set and tag answers for exactly the addresses whose memory lines
\* differ by a multiple of all the lines that the build tells apart.
FoundLineIsAlias == \A a \in Addresses, l \in lines :
    hasTag(l, a) <=>
        memoryLine(l.rawAddress) % (NumSets * tagSpace) = memoryLine(a) % (NumSets * tagSpace)

\* The addresses lie so near each other that every build tells them apart: in the
\* code within 64 KiB, or anywhere if an int could hold the mask.
TraceFitsTags == \A s \in tagSpaces, a, b \in Addresses :
    memoryLine(a) - memoryLine(b) < NumSets * s

\* "raw address that maps to me (ignoring block offset)": the line that an
\* address finds under its set and tag holds the memory of that address.
FoundLineIsOwn == \A a \in Addresses, l \in lines :
    hasTag(l, a) => memoryLine(l.rawAddress) = memoryLine(a)

\* No part of memory is in two lines of one cache, whatever the build.
MemoryIsHeldOnce == \A l, m \in lines :
    memoryLine(l.rawAddress) = memoryLine(m.rawAddress) => l = m

\* The inductive invariant: a line is where its address decodes to, and no two
\* lines of a set have one tag.
DecodeInv ==
    /\ tagSpace \in tagSpaces
    /\ lines \subseteq {CacheLine(a) : a \in Addresses}
    /\ \A l, m \in lines : l.setIndex = m.setIndex /\ l.myTag = m.myTag => l = m
===============================================================================
