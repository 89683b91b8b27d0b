-------------------------- MODULE AddressDecodeProofs --------------------------
(***************************************************************************)
(* Proofs about AddressDecode for every size of line, cache, address and   *)
(* int, those of the code included: which addresses share a line, and that *)
(* storing is sound whatever the build makes of the mask.                  *)
(***************************************************************************)
EXTENDS AddressDecode, TLAPS

\* A number has one quotient and one remainder.
LEMMA DivisionIsUnique ==
    ASSUME NEW n \in Nat \ {0}, NEW q \in Nat, NEW r \in 0 .. n - 1
    PROVE  (n * q + r) \div n = q /\ (n * q + r) % n = r
OBVIOUS

LEMMA Division ==
    ASSUME NEW n \in Nat \ {0}, NEW x \in Nat
    PROVE  x \div n \in Nat /\ x % n \in 0 .. n - 1 /\ x = n * (x \div n) + (x % n)
OBVIOUS

\* The remainder of a division by n * t, put together from two divisions.
LEMMA RemainderOfProduct ==
    ASSUME NEW n \in Nat \ {0}, NEW t \in Nat \ {0}, NEW x \in Nat
    PROVE  x % (n * t) = n * ((x \div n) % t) + (x % n)
<1> DEFINE q == x \div n
           r == x % n
           d == q \div t
           e == q % t
<1>1. q \in Nat /\ r \in 0 .. n - 1 /\ x = n * q + r
  BY Division
<1> HIDE DEF q, r
<1>2. d \in Nat /\ e \in 0 .. t - 1 /\ q = t * d + e
  BY <1>1, Division
<1> HIDE DEF d, e
<1>3. n * t \in Nat \ {0}
  OBVIOUS
<1>4. n * e + r \in 0 .. n * t - 1
  <2>1. n * e \in Nat /\ n * e <= n * (t - 1)
    BY <1>2
  <2>2. n * (t - 1) = n * t - n
    OBVIOUS
  <2>3. n * t \in Nat
    OBVIOUS
  <2> QED  BY <1>1, <2>1, <2>2, <2>3
<1>5. x = (n * t) * d + (n * e + r)
  <2>1. n * (t * d + e) = (n * t) * d + n * e
    BY <1>2
  <2> QED  BY <1>1, <1>2, <2>1
<1>6. ((n * t) * d + (n * e + r)) % (n * t) = n * e + r
  BY <1>2, <1>3, <1>4, DivisionIsUnique
<1> QED  BY <1>5, <1>6 DEF e, q, r

\* x and y agree in both of the parts that division by n, then by t, makes of them.
sameParts(n, t, x, y) == x % n = y % n /\ (x \div n) % t = (y \div n) % t

\* Two numbers have one remainder by n * t if and only if they agree in the two
\* parts into which decode_address takes them apart.
LEMMA SameParts ==
    ASSUME NEW n \in Nat \ {0}, NEW t \in Nat \ {0}, NEW x \in Nat, NEW y \in Nat
    PROVE  sameParts(n, t, x, y) <=> x % (n * t) = y % (n * t)
<1> USE DEF sameParts
<1>1. /\ x % n \in 0 .. n - 1 /\ (x \div n) % t \in Nat
      /\ y % n \in 0 .. n - 1 /\ (y \div n) % t \in Nat
  <2>1. x \div n \in Nat /\ y \div n \in Nat /\ x % n \in 0 .. n - 1 /\ y % n \in 0 .. n - 1
    BY Division
  <2>2. \A z \in Nat : z % t \in Nat
    BY Division
  <2> QED  BY <2>1, <2>2
<1>2. /\ x % (n * t) = n * ((x \div n) % t) + (x % n)
      /\ y % (n * t) = n * ((y \div n) % t) + (y % n)
  BY RemainderOfProduct
<1>3. ASSUME x % (n * t) = y % (n * t)
      PROVE  sameParts(n, t, x, y)
  <2> DEFINE p == (x \div n) % t
             q == (y \div n) % t
             r == x % n
             s == y % n
  <2>1. n * p + r = n * q + s
    BY <1>2, <1>3
  <2>2. p \in Nat /\ q \in Nat /\ r \in 0 .. n - 1 /\ s \in 0 .. n - 1
    BY <1>1
  <2> HIDE DEF p, q, r, s
  <2>3. (n * p + r) \div n = p /\ (n * p + r) % n = r
    BY <2>2, DivisionIsUnique
  <2>4. (n * q + s) \div n = q /\ (n * q + s) % n = s
    BY <2>2, DivisionIsUnique
  <2>5. p = q /\ r = s
    BY <2>1, <2>3, <2>4
  <2> QED  BY <2>5 DEF p, q, r, s
<1> QED  BY <1>2, <1>3

\* A mask lets some number of tags through.
LEMMA TagSpacesArePositive == tagSpaces \subseteq Nat \ {0}
<1>1. NumTagBits % IntBits \in 0 .. IntBits /\ IntBits \in 0 .. IntBits
  BY Division, WidthsAssumption
<1>2. 2^(NumTagBits % IntBits) \in Nat \ {0} /\ 2^IntBits \in Nat \ {0}
  BY <1>1, WidthsAssumption
<1> QED  BY <1>2, WidthsAssumption DEF tagSpaces

LEMMA LinesOfMemory == \A a \in Addresses : memoryLine(a) \in Nat
<1>1. ASSUME NEW a \in Addresses PROVE memoryLine(a) \in Nat
  <2>1. a \in Nat
    BY AddressesAssumption
  <2> QED  BY <2>1, Division, WidthsAssumption DEF memoryLine
<1> QED  BY <1>1

\* Which addresses decode alike.
alias(a, b) == memoryLine(a) % (NumSets * tagSpace) = memoryLine(b) % (NumSets * tagSpace)

LEMMA DecodeAlike ==
    ASSUME tagSpace \in tagSpaces, NEW a \in Addresses, NEW b \in Addresses
    PROVE  setOf(a) = setOf(b) /\ tagOf(a) = tagOf(b) <=> alias(a, b)
<1> DEFINE x == memoryLine(a)
           y == memoryLine(b)
<1>1. x \in Nat /\ y \in Nat /\ tagSpace \in Nat \ {0} /\ NumSets \in Nat \ {0}
  BY LinesOfMemory, TagSpacesArePositive, WidthsAssumption
<1> HIDE DEF x, y
<1>2. sameParts(NumSets, tagSpace, x, y)
         <=> x % (NumSets * tagSpace) = y % (NumSets * tagSpace)
  BY <1>1, SameParts, Zenon
<1> QED  BY <1>2 DEF x, y, setOf, tagOf, alias, sameParts

LEMMA InitEstablishesInv == Init => DecodeInv
BY DEF Init, DecodeInv

LEMMA NextKeepsInv ==
    ASSUME DecodeInv, [Next]_vars
    PROVE  DecodeInv'
<1> USE DEF DecodeInv
<1>1. tagSpace' = tagSpace /\ tagSpaces' = tagSpaces
  BY DEF Next, Store, evictLRULine, vars, tagSpaces
<1>2. \A a : CacheLine(a)' = CacheLine(a)
  BY <1>1 DEF CacheLine, setOf, tagOf, memoryLine
<1>3. ASSUME NEW a \in Addresses, Store(a) PROVE DecodeInv'
  <2>1. CASE \E l \in lines : hasTag(l, a)
    BY <1>1, <1>2, <1>3, <2>1 DEF Store
  <2>2. CASE ~ \E l \in lines : hasTag(l, a)
    <3>1. lines' = lines \cup {CacheLine(a)}
      BY <1>3, <2>2 DEF Store
    <3>2. \A l \in lines : l.setIndex # CacheLine(a).setIndex \/ l.myTag # CacheLine(a).myTag
      BY <2>2 DEF hasTag, CacheLine
    <3> QED
      BY <1>1, <1>2, <3>1, <3>2
  <2> QED
    BY <2>1, <2>2
<1>4. ASSUME NEW l \in lines, evictLRULine(l) PROVE DecodeInv'
  BY <1>1, <1>2, <1>4 DEF evictLRULine
<1>5. CASE UNCHANGED vars
  BY <1>1, <1>2, <1>5 DEF vars
<1> QED
  BY <1>3, <1>4, <1>5 DEF Next

LEMMA InvHolds == Spec => []DecodeInv
<1>1. DecodeInv /\ [Next]_vars => DecodeInv'
  BY NextKeepsInv
<1> QED
  BY <1>1, InitEstablishesInv, PTL DEF Spec

-----------------------------------------------------------------------------
\* decode_address and the lookups by set and tag: an address finds the lines of the
\* addresses that lie a multiple of the decoded span from it, and no others.
THEOREM FoundLinesAreAliases == Spec => []FoundLineIsAlias
<1>1. DecodeInv => FoundLineIsAlias
  <2> SUFFICES ASSUME DecodeInv, NEW a \in Addresses, NEW l \in lines
               PROVE  hasTag(l, a) <=> alias(l.rawAddress, a)
    BY DEF FoundLineIsAlias, alias
  <2>1. PICK b \in Addresses : l = CacheLine(b)
    BY DEF DecodeInv
  <2>2. l.rawAddress = b /\ (hasTag(l, a) <=> setOf(b) = setOf(a) /\ tagOf(b) = tagOf(a))
    BY <2>1 DEF CacheLine, hasTag
  <2>3. setOf(b) = setOf(a) /\ tagOf(b) = tagOf(a) <=> alias(b, a)
    BY DecodeAlike DEF DecodeInv
  <2> QED  BY <2>2, <2>3
<1> QED  BY <1>1, InvHolds, PTL

\* Lines of memory whose distance is less than the span are aliases only of themselves.
LEMMA NearAliasesAreOne ==
    ASSUME TraceFitsTags, tagSpace \in tagSpaces,
           NEW a \in Addresses, NEW b \in Addresses, alias(a, b)
    PROVE  memoryLine(a) = memoryLine(b)
<1> DEFINE x == memoryLine(a)
           y == memoryLine(b)
           m == NumSets * tagSpace
           d == x \div m
           e == y \div m
<1>1. x \in Nat /\ y \in Nat /\ x - y < m /\ y - x < m
  BY LinesOfMemory DEF TraceFitsTags
<1>2. m \in Nat \ {0}
  BY TagSpacesArePositive, WidthsAssumption
<1>3. x % m = y % m
  BY DEF alias
<1> HIDE DEF x, y, m
<1>4. /\ d \in Nat /\ x % m \in 0 .. m - 1 /\ x = m * d + (x % m)
      /\ e \in Nat /\ y = m * e + (y % m)
  BY <1>1, <1>2, Division
<1> HIDE DEF d, e
<1>5. d = e
  <2>1. m * d - m * e < m /\ m * e - m * d < m
    BY <1>1, <1>2, <1>3, <1>4
  <2>2. CASE d > e
    <3>1. m * d >= m * (e + 1)
      BY <1>2, <1>4, <2>2
    <3>2. m * (e + 1) = m * e + m
      BY <1>2, <1>4
    <3> QED  BY <1>2, <1>4, <2>1, <3>1, <3>2
  <2>3. CASE e > d
    <3>1. m * e >= m * (d + 1)
      BY <1>2, <1>4, <2>3
    <3>2. m * (d + 1) = m * d + m
      BY <1>2, <1>4
    <3> QED  BY <1>2, <1>4, <2>1, <3>1, <3>2
  <2> QED  BY <1>4, <2>2, <2>3
<1> QED  BY <1>3, <1>4, <1>5 DEF x, y

\* An address finds the line of its own memory or none, in every build that tells the
\* addresses of the trace apart: for the code's widths, if they are within 64 KiB.
THEOREM LookupsFindOwnLines == TraceFitsTags => (Spec => []FoundLineIsOwn)
<1> SUFFICES ASSUME TraceFitsTags PROVE Spec => []FoundLineIsOwn
  OBVIOUS
<1>1. DecodeInv => FoundLineIsOwn
  <2> SUFFICES ASSUME DecodeInv, NEW a \in Addresses, NEW l \in lines, hasTag(l, a)
               PROVE  memoryLine(l.rawAddress) = memoryLine(a)
    BY DEF FoundLineIsOwn
  <2>1. PICK b \in Addresses : l = CacheLine(b)
    BY DEF DecodeInv
  <2>2. l.rawAddress = b /\ setOf(b) = setOf(a) /\ tagOf(b) = tagOf(a)
    BY <2>1 DEF CacheLine, hasTag
  <2>3. tagSpace \in tagSpaces
    BY DEF DecodeInv
  <2>4. alias(b, a)
    BY <2>2, <2>3, DecodeAlike
  <2> QED  BY <2>2, <2>3, <2>4, NearAliasesAreOne
<1> QED  BY <1>1, InvHolds, PTL

\* Where an int can hold the mask, every trace is one whose addresses are told apart.
THEOREM WideIntsFit == NumTagBits < IntBits => TraceFitsTags
<1> SUFFICES ASSUME NumTagBits < IntBits, NEW a \in Addresses, NEW b \in Addresses
             PROVE  memoryLine(a) - memoryLine(b) < NumSets * NumTags
  BY DEF TraceFitsTags, tagSpaces
<1> DEFINE m == NumSets * NumTags
<1>1. m \in Nat /\ a \in Nat /\ a < LineBytes * m
  BY AddressesAssumption, WidthsAssumption
<1> HIDE DEF m
<1>2. a \div LineBytes < m
  BY <1>1, WidthsAssumption
<1>3. memoryLine(a) \in Nat /\ memoryLine(b) \in Nat
  BY LinesOfMemory
<1> QED  BY <1>1, <1>2, <1>3 DEF memoryLine, m

\* Whatever the build does about the mask, no memory is in two lines of a cache:
\* decoding looks at nothing but the memory line, so the second is never added.
THEOREM MemoryHeldOnce == Spec => []MemoryIsHeldOnce
<1>1. DecodeInv => MemoryIsHeldOnce
  <2> SUFFICES ASSUME DecodeInv, NEW l \in lines, NEW m \in lines,
                      memoryLine(l.rawAddress) = memoryLine(m.rawAddress)
               PROVE  l = m
    BY DEF MemoryIsHeldOnce
  <2>1. PICK a \in Addresses : l = CacheLine(a)
    BY DEF DecodeInv
  <2>2. PICK b \in Addresses : m = CacheLine(b)
    BY DEF DecodeInv
  <2>3. memoryLine(a) = memoryLine(b)
    BY <2>1, <2>2 DEF CacheLine
  <2>4. l.setIndex = m.setIndex /\ l.myTag = m.myTag
    BY <2>1, <2>2, <2>3 DEF CacheLine, setOf, tagOf
  <2> QED
    BY <2>4 DEF DecodeInv
<1> QED
  BY <1>1, InvHolds, PTL

\* What the other modules assume of the blocks of a trace (BlocksAssumption of
\* CacheConstants.tla) is so of what decode_address returns, in every build: a set of the
\* cache and a natural tag, and one such pair for each class of aliases.
DecodesToBlocks ==
    /\ \A a \in Addresses : <<setOf(a), tagOf(a)>> \in (0 .. NumSets - 1) \X Nat
    /\ \A a, b \in Addresses :
          <<setOf(a), tagOf(a)>> = <<setOf(b), tagOf(b)>> <=> alias(a, b)

\* The pairs that decode_address returns are blocks as the simulator's modules take them.
THEOREM AddressesAreBlocks == Spec => []DecodesToBlocks
<1>1. DecodeInv => DecodesToBlocks
  <2> SUFFICES ASSUME DecodeInv  PROVE DecodesToBlocks
    OBVIOUS
  <2>1. tagSpace \in tagSpaces /\ tagSpace \in Nat \ {0}
    BY TagSpacesArePositive DEF DecodeInv
  <2>2. ASSUME NEW a \in Addresses  PROVE setOf(a) \in 0 .. NumSets - 1 /\ tagOf(a) \in Nat
    <3> DEFINE x == memoryLine(a)
    <3>1. x \in Nat
      BY LinesOfMemory
    <3> HIDE DEF x
    <3>2. x % NumSets \in 0 .. NumSets - 1 /\ x \div NumSets \in Nat
      BY <3>1, Division, WidthsAssumption
    <3>3. (x \div NumSets) % tagSpace \in 0 .. tagSpace - 1
      BY <2>1, <3>2, Division
    <3> QED  BY <2>1, <3>2, <3>3 DEF setOf, tagOf, x
  <2>3. ASSUME NEW a \in Addresses, NEW b \in Addresses
        PROVE  <<setOf(a), tagOf(a)>> = <<setOf(b), tagOf(b)>> <=> alias(a, b)
    BY <2>1, DecodeAlike
  <2> QED  BY <2>2, <2>3 DEF DecodesToBlocks
<1> QED  BY <1>1, InvHolds, PTL
===============================================================================
