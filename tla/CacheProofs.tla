------------------------------ MODULE CacheProofs ------------------------------
(***************************************************************************)
(* What the methods of CacheSet return: their types, and that they keep a  *)
(* set sound (no tag twice, no more lines than ways).  Then what the       *)
(* handlers of a cache do to its record: they keep its type and the        *)
(* soundness of its sets, and move the flags that the bus looks at.        *)
(***************************************************************************)
EXTENDS Cache, Integers, FiniteSetTheorems, TLAPS

\* A set of numbers has a least element: of its initial segments, all finite, one
\* has no other below it.
LEMMA LeastElement ==
    ASSUME NEW T \in SUBSET Nat, T # {}
    PROVE  \E x \in T : \A y \in T : x <= y
<1> DEFINE F(x) == T \cap (0 .. x)
           U == {F(x) : x \in T}
<1>1. U \subseteq FiniteSubsetsOf(Nat)
  <2>1. \A x \in T : IsFiniteSet(0 .. x)
    BY FS_Interval
  <2>2. \A x \in T : IsFiniteSet(F(x))
    BY <2>1, FS_Subset
  <2> QED  BY <2>2 DEF FiniteSubsetsOf
<1>2. PICK m \in U : \A n \in U : <<n, m>> \notin StrictSubsetOrdering(Nat)
  <2>1. U # {}
    OBVIOUS
  <2> QED  BY <1>1, <2>1, WFMin, FS_StrictSubsetOrderingWellFounded
<1>3. PICK x \in T : m = F(x)
  OBVIOUS
<1>4. ASSUME NEW y \in T, ~(x <= y)  PROVE FALSE
  <2>1. F(y) \subseteq F(x) /\ x \in F(x) /\ x \notin F(y)
    BY <1>4
  <2>2. <<F(y), F(x)>> \in StrictSubsetOrdering(Nat)
    BY <2>1 DEF StrictSubsetOrdering
  <2>3. F(y) \in U
    OBVIOUS
  <2> QED  BY <1>2, <1>3, <2>2, <2>3
<1> QED  BY <1>4

\* indexOf finds the first line with the tag, or says that there is none.
LEMMA IndexOf ==
    ASSUME NEW s \in Seq(Line), NEW t
    PROVE  \/ /\ indexOf(s, t) = 0 /\ ~hasLine(s, t)
              /\ \A i \in DOMAIN s : s[i].tag # t
           \/ /\ indexOf(s, t) \in DOMAIN s /\ hasLine(s, t)
              /\ s[indexOf(s, t)].tag = t
<1> DEFINE I == {i \in 1 .. Len(s) : s[i].tag = t}
<1>1. indexOf(s, t) = IF I # {} THEN CHOOSE x \in I : \A y \in I : x <= y ELSE 0
  BY DEF indexOf, SelectInSeq, Min
<1>2. I \in SUBSET Nat /\ DOMAIN s = 1 .. Len(s)
  OBVIOUS
<1>3. CASE I = {}
  BY <1>1, <1>2, <1>3 DEF hasLine
<1>4. CASE I # {}
  <2>1. \E x \in I : \A y \in I : x <= y
    BY <1>2, <1>4, LeastElement
  <2>2. indexOf(s, t) \in I
    BY <1>1, <1>4, <2>1
  <2> QED  BY <1>2, <2>2 DEF hasLine
<1> QED  BY <1>3, <1>4

\* lruIndex is the index of a line, and no line has been used before it.
LEMMA LruIndex ==
    ASSUME NEW s \in Seq(Line), s # <<>>
    PROVE  /\ lruIndex(s) \in DOMAIN s
           /\ \A j \in DOMAIN s : s[lruIndex(s)].lastUsedCycle <= s[j].lastUsedCycle
<1> DEFINE Used == {s[i].lastUsedCycle : i \in DOMAIN s}
<1>1. Used \in SUBSET Nat /\ Used # {} /\ DOMAIN s \in SUBSET Nat
  <2>1. \A i \in DOMAIN s : s[i].lastUsedCycle \in Nat
    <3>1. \A i \in DOMAIN s : s[i] \in Line
      OBVIOUS
    <3> QED  BY <3>1 DEF Line
  <2>2. 1 \in DOMAIN s /\ DOMAIN s = 1 .. Len(s)
    OBVIOUS
  <2> QED  BY <2>1, <2>2
<1>2. PICK u \in Used : \A v \in Used : u <= v
  BY <1>1, LeastElement
<1> DEFINE Oldest == {i \in DOMAIN s : s[i].lastUsedCycle = u}
<1>3. Oldest \in SUBSET Nat /\ Oldest # {}
  BY <1>1
<1>4. PICK i \in Oldest : \A j \in Oldest : i <= j
  BY <1>3, LeastElement
<1>5. \A j \in DOMAIN s : \/ s[i].lastUsedCycle < s[j].lastUsedCycle
                          \/ s[i].lastUsedCycle = s[j].lastUsedCycle /\ i <= j
  <2> SUFFICES ASSUME NEW j \in DOMAIN s, s[j].lastUsedCycle # u
               PROVE  u < s[j].lastUsedCycle
    BY <1>4
  <2>1. s[j].lastUsedCycle \in Used
    OBVIOUS
  <2>2. u <= s[j].lastUsedCycle /\ u \in Nat /\ s[j].lastUsedCycle \in Nat
    BY <1>1, <1>2, <2>1
  <2> HIDE DEF Used
  <2> QED  BY <2>2
<1> DEFINE First(m) == \A j \in DOMAIN s :
              \/ s[m].lastUsedCycle < s[j].lastUsedCycle
              \/ s[m].lastUsedCycle = s[j].lastUsedCycle /\ m <= j
           n == lruIndex(s)
<1>6. n \in DOMAIN s /\ First(n)
  <2>1. n = CHOOSE m \in DOMAIN s : First(m)
    BY DEF lruIndex
  <2>2. i \in DOMAIN s /\ First(i)
    BY <1>4, <1>5
  <2> HIDE DEF First, n
  <2> QED  BY <2>1, <2>2
<1>7. \A j \in DOMAIN s : s[j].lastUsedCycle \in Nat
  <2>1. \A j \in DOMAIN s : s[j].lastUsedCycle \in Used
    OBVIOUS
  <2> HIDE DEF Used
  <2> QED  BY <1>1, <2>1
<1> HIDE DEF n
<1>8. \A j \in DOMAIN s : s[n].lastUsedCycle <= s[j].lastUsedCycle
  BY <1>6, <1>7
<1> QED  BY <1>6, <1>8 DEF n

-----------------------------------------------------------------------------
\* A set of a cache as it should be.
Sound(s) ==
    /\ Len(s) <= NumLinesInSet
    /\ \A m, n \in DOMAIN s : s[m].tag = s[n].tag => m = n

\* s and r differ in nothing but states and use times.
SameTags(s, r) == Len(r) = Len(s) /\ \A i \in DOMAIN s : r[i].tag = s[i].tag

LEMMA SameTagsSound ==
    ASSUME NEW s \in Seq(Line), NEW r \in Seq(Line), SameTags(s, r), Sound(s)
    PROVE  Sound(r) /\ \A t : hasLine(r, t) <=> hasLine(s, t)
<1>1. DOMAIN r = DOMAIN s
  BY DEF SameTags
<1>2. Sound(r)
  BY <1>1 DEF Sound, SameTags
<1>3. \A t : hasLine(r, t) <=> hasLine(s, t)
  BY <1>1, IndexOf DEF SameTags
<1> QED  BY <1>2, <1>3

LEMMA LineReplaced ==
    ASSUME NEW s \in Seq(Line), NEW i \in DOMAIN s, NEW l \in Line, l.tag = s[i].tag
    PROVE  [s EXCEPT ![i] = l] \in Seq(Line) /\ SameTags(s, [s EXCEPT ![i] = l])
<1> DEFINE r == [s EXCEPT ![i] = l]
<1>1. DOMAIN s = 1 .. Len(s) /\ Len(s) \in Nat /\ \A j \in DOMAIN s : s[j] \in Line
  OBVIOUS
<1>2. DOMAIN r = 1 .. Len(s) /\ \A j \in DOMAIN s : r[j] = IF j = i THEN l ELSE s[j]
  BY <1>1
<1>3. r \in Seq(Line) /\ Len(r) = Len(s)
  <2>1. r \in [1 .. Len(s) -> Line]
    BY <1>1
  <2> QED  BY <1>1, <2>1
<1> QED  BY <1>2, <1>3 DEF SameTags

LEMMA TouchedKeeps ==
    ASSUME NEW s \in Seq(Line), NEW t, NEW now \in Nat
    PROVE  touched(s, t, now) \in Seq(Line) /\ SameTags(s, touched(s, t, now))
<1>1. CASE hasLine(s, t)
  <2>1. indexOf(s, t) \in DOMAIN s
    BY <1>1, IndexOf
  <2> DEFINE i == indexOf(s, t)
             l == [s[i] EXCEPT !.lastUsedCycle = now]
  <2>2. s[i] \in Line
    BY <2>1
  <2>3. l \in Line /\ l.tag = s[i].tag
    BY <2>2 DEF Line
  <2>4. touched(s, t, now) = [s EXCEPT ![i] = l]
    BY <1>1 DEF touched
  <2>5. i \in DOMAIN s
    BY <2>1
  <2> HIDE DEF i, l
  <2> QED  BY <2>3, <2>4, <2>5, LineReplaced
<1>2. CASE ~hasLine(s, t)
  BY <1>2 DEF touched, SameTags
<1> QED  BY <1>1, <1>2

LEMMA SetStateKeeps ==
    ASSUME NEW s \in Seq(Line), NEW t, NEW state \in State
    PROVE  setState(s, t, state) \in Seq(Line) /\ SameTags(s, setState(s, t, state))
<1>1. CASE hasLine(s, t)
  <2>1. indexOf(s, t) \in DOMAIN s
    BY <1>1, IndexOf
  <2> DEFINE i == indexOf(s, t)
             l == [s[i] EXCEPT !.state = state]
  <2>2. s[i] \in Line
    BY <2>1
  <2>3. l \in Line /\ l.tag = s[i].tag
    BY <2>2 DEF Line
  <2>4. setState(s, t, state) = [s EXCEPT ![i] = l]
    BY <1>1 DEF setState
  <2>5. i \in DOMAIN s
    BY <2>1
  <2> HIDE DEF i, l
  <2> QED  BY <2>3, <2>4, <2>5, LineReplaced
<1>2. CASE ~hasLine(s, t)
  BY <1>2 DEF setState, SameTags
<1> QED  BY <1>1, <1>2

LEMMA Joined ==
    ASSUME NEW a \in Seq(Line), NEW b \in Seq(Line)
    PROVE  a \o b \in Seq(Line) /\ Len(a \o b) = Len(a) + Len(b)
OBVIOUS

\* What evicting does: the least recently used line goes, the others stay as they were.
LEMMA Evicted ==
    ASSUME NEW s \in Seq(Line), s # <<>>
    PROVE  /\ lruIndex(s) \in DOMAIN s
           /\ evictLRULine(s) \in Seq(Line) /\ Len(evictLRULine(s)) = Len(s) - 1
           /\ \A j \in DOMAIN evictLRULine(s) :
                 LET m == IF j < lruIndex(s) THEN j ELSE j + 1
                 IN  /\ m \in DOMAIN s /\ m # lruIndex(s)
                     /\ evictLRULine(s)[j] = s[m]
           /\ \A m \in DOMAIN s : m # lruIndex(s) =>
                 \E j \in DOMAIN evictLRULine(s) : evictLRULine(s)[j] = s[m]
<1> DEFINE i == lruIndex(s)
           r == evictLRULine(s)
           old(j) == IF j < i THEN j ELSE j + 1
<1>1. i \in 1 .. Len(s) /\ Len(s) \in Nat
  BY LruIndex
<1> DEFINE before == SubSeq(s, 1, i - 1)
           after  == SubSeq(s, i + 1, Len(s))
<1>2. r = before \o after
  BY DEF evictLRULine, RemoveAt
<1> HIDE DEF i, r
<1>3. /\ before \in Seq(Line) /\ Len(before) = i - 1
      /\ \A j \in 1 .. i - 1 : before[j] = s[j]
  BY <1>1
<1>4. /\ after \in Seq(Line) /\ Len(after) = Len(s) - i
      /\ \A j \in 1 .. Len(s) - i : after[j] = s[i + j]
  BY <1>1
<1> HIDE DEF before, after
<1>5. r \in Seq(Line) /\ Len(r) = Len(s) - 1 /\ DOMAIN r = 1 .. Len(s) - 1
  <2>1. r \in Seq(Line) /\ Len(r) = Len(before) + Len(after)
    BY <1>2, <1>3, <1>4, Joined
  <2>2. Len(r) = Len(s) - 1
    BY <1>1, <1>3, <1>4, <2>1
  <2> QED  BY <2>1, <2>2
<1>6. ASSUME NEW j \in DOMAIN r
      PROVE  old(j) \in DOMAIN s /\ old(j) # i /\ r[j] = s[old(j)]
  <2>1. CASE j < i
    <3>1. j \in 1 .. Len(before)
      BY <1>1, <1>3, <1>5, <2>1
    <3>2. r[j] = before[j]
      BY <1>2, <1>3, <1>4, <3>1
    <3> QED  BY <1>1, <1>3, <2>1, <3>1, <3>2
  <2>2. CASE ~(j < i)
    <3>1. j - Len(before) \in 1 .. Len(after) /\ j \in Int
      BY <1>1, <1>3, <1>4, <1>5, <2>2
    <3>2. r[j] = after[j - Len(before)]
      BY <1>1, <1>2, <1>3, <1>4, <1>5, <2>2, <3>1
    <3>3. /\ Len(before) = i - 1 /\ i + (j - (i - 1)) = j + 1
          /\ j + 1 \in 1 .. Len(s) /\ j + 1 # i
      BY <1>1, <1>3, <1>5, <2>2, <3>1
    <3>4. after[j - Len(before)] = s[j + 1]
      BY <1>4, <3>1, <3>3
    <3> QED  BY <2>2, <3>2, <3>3, <3>4
  <2> QED  BY <2>1, <2>2
<1>7. i \in DOMAIN s
  BY <1>1
<1>8. ASSUME NEW m \in DOMAIN s, m # i  PROVE \E j \in DOMAIN r : r[j] = s[m]
  <2> DEFINE j == IF m < i THEN m ELSE m - 1
  <2>1. j \in DOMAIN r /\ old(j) = m
    BY <1>1, <1>5, <1>8
  <2> QED  BY <1>6, <2>1
<1> QED  BY <1>5, <1>6, <1>7, <1>8 DEF i, r

LEMMA EvictKeeps ==
    ASSUME NEW s \in Seq(Line), s # <<>>
    PROVE  /\ evictLRULine(s) \in Seq(Line) /\ Len(evictLRULine(s)) = Len(s) - 1
           /\ Sound(s) => Sound(evictLRULine(s))
           /\ \A t : hasLine(evictLRULine(s), t) => hasLine(s, t)
<1> DEFINE i == lruIndex(s)
           r == evictLRULine(s)
           old(j) == IF j < i THEN j ELSE j + 1
<1>1. i \in 1 .. Len(s) /\ Len(s) \in Nat
  BY LruIndex
<1>2. /\ r \in Seq(Line) /\ Len(r) = Len(s) - 1 /\ DOMAIN r = 1 .. Len(r)
      /\ \A j \in DOMAIN r : old(j) \in DOMAIN s /\ r[j] = s[old(j)]
  BY Evicted
<1> HIDE DEF i, r
<1>3. \A j, k \in DOMAIN r : old(j) = old(k) => j = k
  BY <1>1, <1>2
<1> HIDE DEF old
<1>4. Sound(s) => Sound(r)
  BY <1>1, <1>2, <1>3, SizesAssumption DEF Sound
<1>5. \A t : hasLine(r, t) => hasLine(s, t)
  BY <1>2, IndexOf
<1> QED  BY <1>2, <1>4, <1>5 DEF r

\* A line that is not there yet is added to a sound set, whether or not another
\* has to go.
LEMMA AddLineKeeps ==
    ASSUME NEW s \in Seq(Line), Sound(s), NEW l \in Line, ~hasLine(s, l.tag)
    PROVE  /\ addLine(s, l) \in Seq(Line) /\ Sound(addLine(s, l))
           /\ hasLine(addLine(s, l), l.tag)
<1> DEFINE r == IF Len(s) = NumLinesInSet THEN evictLRULine(s) ELSE s
<1>1. Len(s) = NumLinesInSet => s # <<>>
  BY SizesAssumption
<1>2. r \in Seq(Line) /\ Sound(r) /\ Len(r) < NumLinesInSet /\ ~hasLine(r, l.tag)
  BY <1>1, EvictKeeps, SizesAssumption DEF Sound
<1>3. addLine(s, l) = Append(r, l)
  BY DEF addLine
<1> HIDE DEF r
<1>4. Append(r, l) \in Seq(Line) /\ Len(Append(r, l)) = Len(r) + 1
  BY <1>2
<1>5. \A i \in DOMAIN Append(r, l) :
         IF i = Len(r) + 1 THEN Append(r, l)[i] = l
         ELSE i \in DOMAIN r /\ Append(r, l)[i] = r[i]
  BY <1>2
<1>6. \A i \in DOMAIN r : r[i].tag # l.tag
  BY <1>2, IndexOf
<1>7. Sound(Append(r, l))
  BY <1>2, <1>4, <1>5, <1>6, SizesAssumption DEF Sound
<1>8. hasLine(Append(r, l), l.tag)
  <2>1. Len(r) + 1 \in DOMAIN Append(r, l) /\ Append(r, l)[Len(r) + 1] = l
    BY <1>2
  <2> QED  BY <1>4, <2>1, IndexOf
<1> QED  BY <1>3, <1>4, <1>7, <1>8

\* CacheLine's constructor gives a line.
LEMMA NewLine == ASSUME NEW t \in Tags  PROVE CacheLine(t) \in Line /\ CacheLine(t).tag = t
BY DEF CacheLine, Line, State

-----------------------------------------------------------------------------
(***************************************************************************)
(* What a set is to the protocol: the state of the line with a tag.        *)
(***************************************************************************)
View(s, t) == IF hasLine(s, t) THEN getLine(s, t).state ELSE "absent"

\* In a sound set there is one line to find.
LEMMA ViewIs ==
    ASSUME NEW s \in Seq(Line), Sound(s)
    PROVE  /\ \A i \in DOMAIN s : View(s, s[i].tag) = s[i].state
           /\ \A t : \/ \E i \in DOMAIN s : s[i].tag = t
                     \/ View(s, t) = "absent"
           /\ \A t : hasLine(s, t) <=> View(s, t) # "absent"
<1>1. ASSUME NEW i \in DOMAIN s  PROVE View(s, s[i].tag) = s[i].state
  <2>1. hasLine(s, s[i].tag) /\ indexOf(s, s[i].tag) \in DOMAIN s
        /\ s[indexOf(s, s[i].tag)].tag = s[i].tag
    BY IndexOf
  <2>2. indexOf(s, s[i].tag) = i
    BY <2>1 DEF Sound
  <2> QED  BY <2>1, <2>2 DEF View, getLine
<1>2. ASSUME NEW t  PROVE (\E i \in DOMAIN s : s[i].tag = t) \/ View(s, t) = "absent"
  BY IndexOf DEF View
<1>3. ASSUME NEW t, hasLine(s, t)  PROVE View(s, t) # "absent"
  <2>1. indexOf(s, t) \in DOMAIN s
    BY <1>3, IndexOf
  <2>2. s[indexOf(s, t)] \in Line
    BY <2>1
  <2> QED  BY <1>3, <2>2 DEF View, getLine, Line, State
<1> QED  BY <1>1, <1>2, <1>3 DEF View

\* Two sound sets whose lines go with each other look the same.
LEMMA SameLinesSameView ==
    ASSUME NEW s \in Seq(Line), Sound(s), NEW r \in Seq(Line), Sound(r), NEW t,
           \A i \in DOMAIN s : s[i].tag = t =>
              \E j \in DOMAIN r : r[j].tag = t /\ r[j].state = s[i].state,
           \A j \in DOMAIN r : r[j].tag = t => \E i \in DOMAIN s : s[i].tag = t
    PROVE  View(r, t) = View(s, t)
<1>1. CASE \E i \in DOMAIN s : s[i].tag = t
  <2>1. PICK i \in DOMAIN s : s[i].tag = t
    BY <1>1
  <2>2. PICK j \in DOMAIN r : r[j].tag = t /\ r[j].state = s[i].state
    BY <2>1
  <2> QED  BY <2>1, <2>2, ViewIs
<1>2. CASE ~ \E i \in DOMAIN s : s[i].tag = t
  BY <1>2, ViewIs
<1> QED  BY <1>1, <1>2

\* To use a line is not to change it.
LEMMA ViewTouched ==
    ASSUME NEW s \in Seq(Line), Sound(s), NEW t, NEW now \in Nat
    PROVE  \A u : View(touched(s, t, now), u) = View(s, u)
<1> DEFINE r == touched(s, t, now)
<1>1. r \in Seq(Line) /\ Sound(r)
  BY TouchedKeeps, SameTagsSound
<1>2. DOMAIN r = DOMAIN s /\ \A i \in DOMAIN s : r[i].tag = s[i].tag /\ r[i].state = s[i].state
  <2>1. CASE hasLine(s, t)
    <3> DEFINE n == indexOf(s, t)
    <3>1. n \in DOMAIN s
      BY <2>1, IndexOf
    <3>2. s[n] \in Line
      BY <3>1
    <3>3. r = [s EXCEPT ![n].lastUsedCycle = now]
      BY <2>1 DEF touched
    <3> HIDE DEF n, r
    <3> QED  BY <3>1, <3>2, <3>3 DEF Line
  <2>2. CASE ~hasLine(s, t)
    BY <2>2 DEF touched
  <2> QED  BY <2>1, <2>2
<1> HIDE DEF r
<1>3. \A u : View(r, u) = View(s, u)
  <2> SUFFICES ASSUME NEW u  PROVE View(r, u) = View(s, u)
    OBVIOUS
  <2>1. \A i \in DOMAIN s : s[i].tag = u =>
           \E j \in DOMAIN r : r[j].tag = u /\ r[j].state = s[i].state
    BY <1>2
  <2>2. \A j \in DOMAIN r : r[j].tag = u => \E i \in DOMAIN s : s[i].tag = u
    BY <1>2
  <2> QED  BY <1>1, <2>1, <2>2, SameLinesSameView
<1> QED  BY <1>3 DEF r

LEMMA ViewSetState ==
    ASSUME NEW s \in Seq(Line), Sound(s), NEW t, NEW x \in State
    PROVE  \A u : View(setState(s, t, x), u) =
                     IF u = t /\ View(s, t) # "absent" THEN x ELSE View(s, u)
<1> DEFINE r == setState(s, t, x)
<1>1. r \in Seq(Line) /\ Sound(r)
  BY SetStateKeeps, SameTagsSound
<1>2. CASE hasLine(s, t)
  <2> DEFINE n == indexOf(s, t)
  <2>1. n \in DOMAIN s /\ s[n].tag = t
    BY <1>2, IndexOf
  <2>2. s[n] \in Line
    BY <2>1
  <2>3. r = [s EXCEPT ![n].state = x]
    BY <1>2 DEF setState
  <2> HIDE DEF n, r
  <2>4. /\ DOMAIN r = DOMAIN s /\ r[n].state = x
        /\ \A i \in DOMAIN s : r[i].tag = s[i].tag
        /\ \A i \in DOMAIN s : i # n => r[i] = s[i]
    BY <2>1, <2>2, <2>3 DEF Line
  <2>5. View(r, t) = x /\ View(s, t) # "absent"
    BY <1>1, <1>2, <2>1, <2>4, ViewIs
  <2>6. ASSUME NEW u, u # t  PROVE View(r, u) = View(s, u)
    <3>1. \A i \in DOMAIN s : s[i].tag = u =>
             \E j \in DOMAIN r : r[j].tag = u /\ r[j].state = s[i].state
      BY <2>1, <2>4, <2>6
    <3>2. \A j \in DOMAIN r : r[j].tag = u => \E i \in DOMAIN s : s[i].tag = u
      BY <2>4
    <3> QED  BY <1>1, <3>1, <3>2, SameLinesSameView
  <2> QED  BY <2>5, <2>6 DEF r
<1>3. CASE ~hasLine(s, t)
  BY <1>3 DEF setState, View
<1> QED  BY <1>2, <1>3

\* One line goes, the others stay.
LEMMA ViewEvict ==
    ASSUME NEW s \in Seq(Line), Sound(s), s # <<>>
    PROVE  \E gone : /\ View(s, gone) # "absent"
                     /\ \A u : View(evictLRULine(s), u) =
                                  IF u = gone THEN "absent" ELSE View(s, u)
<1> DEFINE n == lruIndex(s)
           r == evictLRULine(s)
           gone == s[n].tag
<1>1. n \in DOMAIN s /\ r \in Seq(Line) /\ Sound(r) /\ Len(r) = Len(s) - 1
      /\ \A j \in DOMAIN r : LET m == IF j < n THEN j ELSE j + 1
                             IN  m \in DOMAIN s /\ m # n /\ r[j] = s[m]
  BY Evicted, EvictKeeps
<1>2. DOMAIN r = 1 .. Len(s) - 1 /\ DOMAIN s = 1 .. Len(s) /\ Len(s) \in Nat
  BY <1>1
<1> HIDE DEF n, r
<1>3. \A j \in DOMAIN r : \E m \in DOMAIN s : m # n /\ r[j] = s[m]
  BY <1>1
<1>4. ASSUME NEW m \in DOMAIN s, m # n  PROVE \E j \in DOMAIN r : r[j] = s[m]
  <2>1. CASE m < n
    BY <1>1, <1>2, <2>1
  <2>2. CASE ~(m < n)
    <3>1. m - 1 \in DOMAIN r /\ ~(m - 1 < n) /\ (m - 1) + 1 = m
      BY <1>1, <1>2, <1>4, <2>2
    <3>2. r[m - 1] = s[m]
      BY <1>1, <3>1
    <3> QED  BY <3>1, <3>2
  <2> QED  BY <2>1, <2>2
<1>5. View(r, gone) = "absent"
  <2>1. \A j \in DOMAIN r : r[j].tag # gone
    BY <1>1, <1>3 DEF Sound
  <2> QED  BY <1>1, <2>1, ViewIs
<1>6. ASSUME NEW u, u # gone  PROVE View(r, u) = View(s, u)
  <2>1. \A i \in DOMAIN s : s[i].tag = u =>
           \E j \in DOMAIN r : r[j].tag = u /\ r[j].state = s[i].state
    <3> SUFFICES ASSUME NEW i \in DOMAIN s, s[i].tag = u
                 PROVE  \E j \in DOMAIN r : r[j].tag = u /\ r[j].state = s[i].state
      OBVIOUS
    <3>1. i # n
      BY <1>6
    <3>2. PICK j \in DOMAIN r : r[j] = s[i]
      BY <1>4, <3>1
    <3> QED  BY <3>2
  <2>2. \A j \in DOMAIN r : r[j].tag = u => \E i \in DOMAIN s : s[i].tag = u
    BY <1>3
  <2> QED  BY <1>1, <2>1, <2>2, SameLinesSameView
<1>7. View(s, gone) # "absent"
  <2>1. View(s, gone) = s[n].state /\ s[n] \in Line
    BY <1>1, ViewIs
  <2> QED  BY <2>1 DEF Line, State
<1> QED  BY <1>5, <1>6, <1>7 DEF r

LEMMA ViewAppend ==
    ASSUME NEW s \in Seq(Line), Sound(s), Len(s) < NumLinesInSet,
           NEW l \in Line, ~hasLine(s, l.tag)
    PROVE  /\ Append(s, l) \in Seq(Line) /\ Sound(Append(s, l))
           /\ \A u : View(Append(s, l), u) = IF u = l.tag THEN l.state ELSE View(s, u)
<1> DEFINE r == Append(s, l)
<1>1. /\ r \in Seq(Line) /\ Len(s) \in Nat /\ Len(r) = Len(s) + 1
      /\ DOMAIN r = 1 .. Len(s) + 1 /\ DOMAIN s = 1 .. Len(s)
      /\ \A i \in DOMAIN s : i \in DOMAIN r /\ r[i] = s[i]
      /\ r[Len(s) + 1] = l
  OBVIOUS
<1> HIDE DEF r
<1>2. \A i \in DOMAIN s : s[i].tag # l.tag
  BY IndexOf
<1>3. Sound(r)
  <2>1. ASSUME NEW i \in DOMAIN r, NEW j \in DOMAIN r, r[i].tag = r[j].tag  PROVE i = j
    BY <1>1, <1>2, <2>1 DEF Sound
  <2> QED  BY <1>1, <2>1, SizesAssumption DEF Sound
<1>4. View(r, l.tag) = l.state
  <2>1. Len(s) + 1 \in DOMAIN r
    BY <1>1
  <2> QED  BY <1>1, <1>3, <2>1, ViewIs
<1>5. ASSUME NEW u, u # l.tag  PROVE View(r, u) = View(s, u)
  <2>1. \A i \in DOMAIN s : s[i].tag = u =>
           \E j \in DOMAIN r : r[j].tag = u /\ r[j].state = s[i].state
    BY <1>1
  <2>2. \A j \in DOMAIN r : r[j].tag = u => \E i \in DOMAIN s : s[i].tag = u
    <3>1. \A j \in DOMAIN r : j \in DOMAIN s \/ j = Len(s) + 1
      BY <1>1
    <3> QED  BY <1>1, <1>5, <3>1
  <2> QED  BY <1>1, <1>3, <2>1, <2>2, SameLinesSameView
<1> QED  BY <1>1, <1>3, <1>4, <1>5 DEF r

-----------------------------------------------------------------------------
(***************************************************************************)
(* What a set is to the replacement: its tags and when each was last used. *)
(* To know that a line is in the set afterwards is not needed: all that is *)
(* said of use times holds of a set with fewer lines as well.              *)
(***************************************************************************)
Uses(s) == {<<s[i].tag, s[i].lastUsedCycle>> : i \in DOMAIN s}

LEMMA UsesTouched ==
    ASSUME NEW s \in Seq(Line), Sound(s), NEW t, NEW now \in Nat
    PROVE  \A p \in Uses(touched(s, t, now)) : p = <<t, now>> \/ (p \in Uses(s) /\ p[1] # t)
<1> DEFINE r == touched(s, t, now)
<1>1. CASE hasLine(s, t)
  <2> DEFINE n == indexOf(s, t)
  <2>1. n \in DOMAIN s /\ s[n].tag = t
    BY <1>1, IndexOf
  <2>2. s[n] \in Line
    BY <2>1
  <2>3. r = [s EXCEPT ![n].lastUsedCycle = now]
    BY <1>1 DEF touched
  <2>4. \A i \in DOMAIN s : i # n => s[i].tag # t
    BY <2>1 DEF Sound
  <2> HIDE DEF n, r
  <2>5. /\ DOMAIN r = DOMAIN s /\ r[n].tag = t /\ r[n].lastUsedCycle = now
        /\ \A i \in DOMAIN s : i # n => r[i] = s[i]
    BY <2>1, <2>2, <2>3 DEF Line
  <2>6. ASSUME NEW i \in DOMAIN r
        PROVE  LET p == <<r[i].tag, r[i].lastUsedCycle>>
               IN  p = <<t, now>> \/ (p \in Uses(s) /\ p[1] # t)
    BY <2>4, <2>5 DEF Uses
  <2> QED  BY <2>6 DEF Uses, r
<1>2. CASE ~hasLine(s, t)
  <2>1. r = s /\ \A i \in DOMAIN s : s[i].tag # t
    BY <1>2, IndexOf DEF touched
  <2> QED  BY <2>1 DEF Uses
<1> QED  BY <1>1, <1>2

LEMMA UsesSetState ==
    ASSUME NEW s \in Seq(Line), NEW t, NEW x
    PROVE  Uses(setState(s, t, x)) = Uses(s)
<1> DEFINE r == setState(s, t, x)
<1>1. /\ DOMAIN r = DOMAIN s
      /\ \A i \in DOMAIN s : r[i].tag = s[i].tag /\ r[i].lastUsedCycle = s[i].lastUsedCycle
  <2>1. CASE hasLine(s, t)
    <3> DEFINE n == indexOf(s, t)
    <3>1. n \in DOMAIN s
      BY <2>1, IndexOf
    <3>2. s[n] \in Line
      BY <3>1
    <3>3. r = [s EXCEPT ![n].state = x]
      BY <2>1 DEF setState
    <3> HIDE DEF n, r
    <3> QED  BY <3>1, <3>2, <3>3 DEF Line
  <2>2. CASE ~hasLine(s, t)
    BY <2>2 DEF setState
  <2> QED  BY <2>1, <2>2
<1> HIDE DEF r
<1>2. Uses(r) = Uses(s)
  BY <1>1 DEF Uses
<1> QED  BY <1>2 DEF r

LEMMA UsesEvict ==
    ASSUME NEW s \in Seq(Line), s # <<>>
    PROVE  Uses(evictLRULine(s)) \subseteq Uses(s)
<1>1. \A j \in DOMAIN evictLRULine(s) : \E m \in DOMAIN s : evictLRULine(s)[j] = s[m]
  BY Evicted
<1> QED  BY <1>1 DEF Uses

LEMMA UsesAddLine ==
    ASSUME NEW s \in Seq(Line), NEW l \in Line
    PROVE  \A p \in Uses(addLine(s, l)) : p \in Uses(s) \/ p[1] = l.tag
<1> DEFINE room == IF Len(s) = NumLinesInSet THEN evictLRULine(s) ELSE s
<1>1. room \in Seq(Line) /\ Uses(room) \subseteq Uses(s)
  <2>1. CASE Len(s) = NumLinesInSet
    <3>1. s # <<>>
      BY <2>1, SizesAssumption
    <3> QED  BY <2>1, <3>1, EvictKeeps, UsesEvict
  <2>2. CASE Len(s) # NumLinesInSet
    BY <2>2
  <2> QED  BY <2>1, <2>2
<1>2. addLine(s, l) = Append(room, l)
  BY DEF addLine
<1> HIDE DEF room
<1>3. /\ DOMAIN Append(room, l) = 1 .. Len(room) + 1 /\ DOMAIN room = 1 .. Len(room)
      /\ \A i \in DOMAIN room : Append(room, l)[i] = room[i]
      /\ Append(room, l)[Len(room) + 1] = l /\ Len(room) \in Nat
  BY <1>1
<1>4. \A i \in DOMAIN Append(room, l) : i \in DOMAIN room \/ i = Len(room) + 1
  BY <1>3
<1>5. ASSUME NEW i \in DOMAIN Append(room, l)
      PROVE  LET p == <<Append(room, l)[i].tag, Append(room, l)[i].lastUsedCycle>>
             IN  p \in Uses(room) \/ p[1] = l.tag
  BY <1>3, <1>4 DEF Uses
<1> QED  BY <1>1, <1>2, <1>5 DEF Uses

-----------------------------------------------------------------------------
(***************************************************************************)
(* The cache and its handlers.                                             *)
(***************************************************************************)
\* A cache as it should be, but for its flags.
WellFormed(k) ==
    /\ k \in CacheRecord
    /\ \A set \in Sets : Sound(k.localCache[set])

\* The flags of a cache: who is served has asked, who has asked is busy, and a busy
\* cache has a job; the request is the job's.
Flags(k) ==
    /\ k.busRequestBeingServiced => k.haveBusRequest
    /\ k.haveBusRequest => k.busy
    /\ k.busy => k.currentJob # NULL /\ k.currentJob.op \in {"R", "W"}
    /\ k.haveBusRequest => /\ k.busRequest # NULL
                           /\ k.busRequest.block = k.currentJob.block

\* k and r differ at most in their sets' states and use times.
SameButLines(k, r) ==
    /\ r.pendingJobs = k.pendingJobs /\ r.currentJob = k.currentJob
    /\ r.busRequest = k.busRequest /\ r.haveBusRequest = k.haveBusRequest
    /\ r.busy = k.busy /\ r.busRequestBeingServiced = k.busRequestBeingServiced
    /\ r.startServiceCycle = k.startServiceCycle /\ r.jobCycleCost = k.jobCycleCost

LEMMA BlockParts ==
    ASSUME NEW b \in Blocks
    PROVE  SetOf(b) \in Sets /\ TagOf(b) \in Tags
BY BlocksAssumption DEF SetOf, TagOf, Tags

LEMMA JobParts ==
    ASSUME NEW k, WellFormed(k), k.currentJob # NULL
    PROVE  /\ k.currentJob \in CacheJob
           /\ SetOf(k.currentJob.block) \in Sets /\ TagOfJob(k) \in Tags
           /\ SetOfJob(k) \in Seq(Line) /\ Sound(SetOfJob(k))
<1>1. k.currentJob \in CacheJob /\ k.localCache \in [Sets -> Seq(Line)]
  BY DEF WellFormed, CacheRecord
<1>2. k.currentJob.block \in Blocks
  BY <1>1 DEF CacheJob
<1> QED  BY <1>1, <1>2, BlockParts DEF TagOfJob, SetOfJob, WellFormed

\* To replace the lines of a cache by lines that are well-formed again.
LEMMA LinesReplaced ==
    ASSUME NEW k, WellFormed(k), NEW lines \in [Sets -> Seq(Line)],
           \A set \in Sets : Sound(lines[set])
    PROVE  LET r == [k EXCEPT !.localCache = lines]
           IN  WellFormed(r) /\ SameButLines(k, r) /\ r.localCache = lines
BY DEF WellFormed, CacheRecord, SameButLines

LEMMA LookedUpKeeps ==
    ASSUME NEW k, WellFormed(k), NEW t, cycles \in Nat
    PROVE  WellFormed(lookedUp(k, t)) /\ SameButLines(k, lookedUp(k, t))
<1> DEFINE lines == [i \in Sets |-> touched(k.localCache[i], t, cycles)]
<1>1. \A i \in Sets : k.localCache[i] \in Seq(Line) /\ Sound(k.localCache[i])
  BY DEF WellFormed, CacheRecord
<1>2. \A i \in Sets : lines[i] \in Seq(Line) /\ Sound(lines[i])
  BY <1>1, TouchedKeeps, SameTagsSound
<1>3. lookedUp(k, t) = [k EXCEPT !.localCache = lines]
  BY DEF lookedUp
<1> HIDE DEF lines
<1>4. lines \in [Sets -> Seq(Line)]
  BY <1>2 DEF lines
<1> QED  BY <1>2, <1>3, <1>4, LinesReplaced

LEMMA SetLineStateKeeps ==
    ASSUME NEW k, WellFormed(k), NEW t, NEW s \in State
    PROVE  WellFormed(setLineState(k, t, s)) /\ SameButLines(k, setLineState(k, t, s))
<1> DEFINE lines == [i \in Sets |-> setState(k.localCache[i], t, s)]
<1>1. \A i \in Sets : k.localCache[i] \in Seq(Line) /\ Sound(k.localCache[i])
  BY DEF WellFormed, CacheRecord
<1>2. \A i \in Sets : lines[i] \in Seq(Line) /\ Sound(lines[i])
  BY <1>1, SetStateKeeps, SameTagsSound
<1>3. setLineState(k, t, s) = [k EXCEPT !.localCache = lines]
  BY DEF setLineState
<1> HIDE DEF lines
<1>4. lines \in [Sets -> Seq(Line)]
  BY <1>2 DEF lines
<1> QED  BY <1>2, <1>3, <1>4, LinesReplaced

-----------------------------------------------------------------------------
(***************************************************************************)
(* handleRequest.                                                          *)
(***************************************************************************)
\* The cache has taken a job on: it is busy with it, and may have asked for the bus.
TakenOn(k, r) ==
    /\ r.pendingJobs = k.pendingJobs /\ r.currentJob = k.currentJob
    /\ r.busRequestBeingServiced = k.busRequestBeingServiced
    /\ r.haveBusRequest => r.busy
    /\ r.haveBusRequest => /\ r.busRequest # NULL
                           /\ r.busRequest.block = r.currentJob.block

LEMMA ServedKeeps ==
    ASSUME NEW k, WellFormed(k), cycles \in Nat
    PROVE  WellFormed(served(k)) /\ TakenOn(k, served(k))
BY CostsAssumption DEF WellFormed, CacheRecord, served, TakenOn

LEMMA AskedKeeps ==
    ASSUME NEW k, WellFormed(k), k.currentJob # NULL,
           NEW command \in Command, NEW cost \in Nat
    PROVE  WellFormed(asked(k, command, cost)) /\ TakenOn(k, asked(k, command, cost))
<1> DEFINE request == [command |-> command, block |-> k.currentJob.block,
                       cycleCost |-> cost]
<1>1. request \in BusRequest
  BY JobParts DEF BusRequest, CacheJob
<1>2. request # NULL
  BY DEF NULL
<1>3. request.block = k.currentJob.block
  OBVIOUS
<1>4. asked(k, command, cost) =
        [k EXCEPT !.busy = TRUE, !.haveBusRequest = TRUE, !.jobCycleCost = cost,
                  !.busRequest = request]
  BY DEF asked
<1> HIDE DEF request
<1> QED  BY <1>1, <1>2, <1>3, <1>4 DEF WellFormed, CacheRecord, TakenOn

LEMMA TotalMemoryCost == \A k : getTotalMemoryCost(k) \in Nat
BY CostsAssumption DEF getTotalMemoryCost

LEMMA TakenOnStep ==
    ASSUME NEW k, NEW u, NEW r, SameButLines(k, u), TakenOn(u, r)
    PROVE  TakenOn(k, r)
BY DEF TakenOn, SameButLines

LEMMA TakenOnLines ==
    ASSUME NEW k, NEW u, NEW r, TakenOn(k, u), SameButLines(u, r)
    PROVE  TakenOn(k, r)
BY DEF TakenOn, SameButLines

LEMMA Outcomes ==
    ASSUME NEW op, NEW held
    PROVE  /\ handleRequestOutcome(op, held) \in
                  {"hit", "exclusiveHit", "ownedUpgrade", "miss", "ignored"}
           /\ handleRequestOutcome(op, held) = "ignored" <=> op \notin {"R", "W"}
BY ProtocolAssumption DEF handleRequestOutcome, writeOutcome, readOutcome

LEMMA HandleRequestKeeps ==
    ASSUME NEW k, WellFormed(k), k.currentJob # NULL, cycles \in Nat,
           ~k.haveBusRequest, ~k.busy
    PROVE  /\ WellFormed(handleRequest(k)) /\ TakenOn(k, handleRequest(k))
           /\ handleRequest(k).busy <=> k.currentJob.op \in {"R", "W"}
<1> DEFINE t == TagOfJob(k)
           u == lookedUp(k, t)
           o == outcomeOf(k)
<1>1. WellFormed(u) /\ SameButLines(k, u)
  BY LookedUpKeeps
<1>2. u.currentJob # NULL /\ u.currentJob = k.currentJob
  BY <1>1 DEF SameButLines
<1>3. /\ o \in {"hit", "exclusiveHit", "ownedUpgrade", "miss", "ignored"}
      /\ o = "ignored" <=> k.currentJob.op \notin {"R", "W"}
      /\ k.currentJob.op \in Op
  BY JobParts, Outcomes DEF outcomeOf, CacheJob
<1> HIDE DEF u, o
<1>4. CASE o = "hit"
  <2>1. handleRequest(k) = served(u)
    BY <1>4 DEF handleRequest, u, o
  <2>2. served(u).busy
    BY <1>1 DEF served, WellFormed, CacheRecord
  <2> QED  BY <1>1, <1>3, <1>4, <2>1, <2>2, ServedKeeps, TakenOnStep
<1>5. CASE o = "exclusiveHit"
  <2>1. handleRequest(k) = setLineState(served(u), t, "modified")
    BY <1>5 DEF handleRequest, u, o
  <2>2. served(u).busy
    BY <1>1 DEF served, WellFormed, CacheRecord
  <2>3. WellFormed(served(u)) /\ TakenOn(k, served(u))
    BY <1>1, ServedKeeps, TakenOnStep
  <2>4. /\ WellFormed(setLineState(served(u), t, "modified"))
        /\ SameButLines(served(u), setLineState(served(u), t, "modified"))
    BY <2>3, SetLineStateKeeps DEF State
  <2> QED  BY <1>3, <1>5, <2>1, <2>2, <2>3, <2>4, TakenOnLines DEF SameButLines
<1>6. CASE o = "ownedUpgrade"
  <2> DEFINE a == asked(u, "BusRdX", CacheHitCycleCost)
  <2>1. handleRequest(k) = setLineState(a, t, "modified")
    BY <1>6 DEF handleRequest, u, o
  <2>2. a.busy
    BY <1>1 DEF asked, WellFormed, CacheRecord
  <2>3. WellFormed(a) /\ TakenOn(k, a)
    BY <1>1, <1>2, AskedKeeps, TakenOnStep, CostsAssumption DEF Command
  <2> HIDE DEF a
  <2>4. WellFormed(setLineState(a, t, "modified")) /\ SameButLines(a, setLineState(a, t, "modified"))
    BY <2>3, SetLineStateKeeps DEF State
  <2> QED  BY <1>3, <1>6, <2>1, <2>2, <2>3, <2>4, TakenOnLines DEF SameButLines
<1>7. CASE o = "miss"
  <2>1. PICK command \in Command, cost \in Nat : handleRequest(k) = asked(u, command, cost)
    <3>1. CASE k.currentJob.op = "W"
      BY <1>7, <3>1, TotalMemoryCost DEF handleRequest, u, o, Command
    <3>2. CASE k.currentJob.op = "R"
      BY <1>7, <3>2, CostsAssumption DEF handleRequest, u, o, Command
    <3> QED  BY <1>3, <1>7, <3>1, <3>2
  <2>2. asked(u, command, cost).busy
    BY <1>1 DEF asked, WellFormed, CacheRecord
  <2> QED  BY <1>1, <1>2, <1>3, <1>7, <2>1, <2>2, AskedKeeps, TakenOnStep
<1>8. CASE o = "ignored"
  <2>1. handleRequest(k) = k
    BY <1>8 DEF handleRequest, o
  <2> QED  BY <1>3, <1>8, <2>1 DEF TakenOn
<1> QED  BY <1>3, <1>4, <1>5, <1>6, <1>7, <1>8

-----------------------------------------------------------------------------
(***************************************************************************)
(* tick.                                                                   *)
(***************************************************************************)
LEMMA FinishedKeeps ==
    ASSUME NEW k, WellFormed(k), cycles \in Nat
    PROVE  /\ WellFormed(finished(k))
           /\ finished(k).busy => k.busy
           /\ SameButLines(k, [finished(k) EXCEPT !.busy = k.busy])
<1> DEFINE u == updateCurrentJobLineCycle(k)
<1>1. WellFormed(u) /\ SameButLines(k, u)
  BY LookedUpKeeps DEF updateCurrentJobLineCycle, SameButLines
<1>2. finished(k) = [u EXCEPT !.busy = FALSE] \/ finished(k) = k
  BY DEF finished
<1> HIDE DEF u
<1> QED  BY <1>1, <1>2 DEF WellFormed, CacheRecord, SameButLines

LEMMA NextJobKeeps ==
    ASSUME NEW k, WellFormed(k), k.pendingJobs # <<>>
    PROVE  /\ WellFormed(nextJob(k)) /\ nextJob(k).currentJob # NULL
           /\ nextJob(k).pendingJobs = Tail(k.pendingJobs)
           /\ nextJob(k).busy = k.busy /\ nextJob(k).haveBusRequest = k.haveBusRequest
           /\ nextJob(k).busRequestBeingServiced = k.busRequestBeingServiced
<1>1. k \in CacheRecord /\ k.pendingJobs \in Seq(CacheJob)
  BY DEF WellFormed, CacheRecord
<1>2. Head(k.pendingJobs) \in CacheJob /\ Tail(k.pendingJobs) \in Seq(CacheJob)
  BY <1>1
<1>3. Head(k.pendingJobs) # NULL
  BY <1>2 DEF CacheJob, NULL, Op
<1> DEFINE job == Head(k.pendingJobs)
           rest == Tail(k.pendingJobs)
<1>4. nextJob(k) = [k EXCEPT !.currentJob = job, !.pendingJobs = rest]
  BY DEF nextJob
<1> HIDE DEF job, rest
<1>5. job \in CacheJob /\ job # NULL /\ rest \in Seq(CacheJob)
  BY <1>2, <1>3 DEF job, rest
<1>6. nextJob(k) \in CacheRecord
  BY <1>1, <1>4, <1>5 DEF CacheRecord
<1> QED  BY <1>1, <1>4, <1>5, <1>6 DEF WellFormed, CacheRecord, rest

\* The record of a cache after its turn.
Ticked(c) ==
    LET k == finished(c)
    IN IF ~k.busy /\ k.pendingJobs # <<>> THEN handleRequest(nextJob(k)) ELSE k

\* After its turn a cache that is not waiting for the bus has picked up what was
\* pending, and is not busy unless it was, or there was something to pick up.
LEMMA TickedKeeps ==
    ASSUME NEW c, WellFormed(c), Flags(c), cycles \in Nat, ~c.haveBusRequest,
           Len(c.pendingJobs) <= 1, c.busy => c.pendingJobs = <<>>
    PROVE  /\ WellFormed(Ticked(c)) /\ Flags(Ticked(c))
           /\ Ticked(c).pendingJobs = <<>> /\ ~Ticked(c).busRequestBeingServiced
           /\ Ticked(c).busy => c.busy \/ c.pendingJobs # <<>>
<1> DEFINE k == finished(c)
<1>1. /\ WellFormed(k) /\ (k.busy => c.busy)
      /\ k.pendingJobs = c.pendingJobs /\ k.currentJob = c.currentJob
      /\ k.busRequest = c.busRequest
      /\ ~k.haveBusRequest /\ ~k.busRequestBeingServiced
  <2>1. k \in CacheRecord
    BY FinishedKeeps DEF WellFormed
  <2> HIDE DEF k
  <2>2. /\ [k EXCEPT !.busy = c.busy].pendingJobs = k.pendingJobs
        /\ [k EXCEPT !.busy = c.busy].currentJob = k.currentJob
        /\ [k EXCEPT !.busy = c.busy].busRequest = k.busRequest
        /\ [k EXCEPT !.busy = c.busy].haveBusRequest = k.haveBusRequest
        /\ [k EXCEPT !.busy = c.busy].busRequestBeingServiced = k.busRequestBeingServiced
    BY <2>1 DEF CacheRecord
  <2> QED  BY <2>2, FinishedKeeps DEF SameButLines, Flags, k
<1> HIDE DEF k
<1>2. CASE ~k.busy /\ k.pendingJobs # <<>>
  <2> DEFINE n == nextJob(k)
  <2>1. Ticked(c) = handleRequest(n)
    BY <1>2 DEF Ticked, k
  <2>2. /\ WellFormed(n) /\ n.currentJob # NULL /\ n.pendingJobs = Tail(k.pendingJobs)
        /\ ~n.busy /\ ~n.haveBusRequest /\ ~n.busRequestBeingServiced
    BY <1>1, <1>2, NextJobKeeps
  <2>3. n.pendingJobs = <<>>
    <3>1. c.pendingJobs \in Seq(CacheJob)
      BY DEF WellFormed, CacheRecord
    <3> QED  BY <1>1, <1>2, <2>2, <3>1
  <2> HIDE DEF n
  <2>4. /\ WellFormed(handleRequest(n)) /\ TakenOn(n, handleRequest(n))
        /\ handleRequest(n).busy <=> n.currentJob.op \in {"R", "W"}
    BY <2>2, HandleRequestKeeps
  <2> QED  BY <1>1, <1>2, <2>1, <2>2, <2>3, <2>4 DEF TakenOn, Flags
<1>3. CASE ~(~k.busy /\ k.pendingJobs # <<>>)
  <2>1. Ticked(c) = k
    BY <1>3 DEF Ticked, k
  <2> QED  BY <1>1, <1>3, <2>1 DEF Flags
<1> QED  BY <1>2, <1>3

-----------------------------------------------------------------------------
(***************************************************************************)
(* busJobDone, the counters.                                               *)
(***************************************************************************)
LEMMA InstalledState ==
    ASSUME NEW op \in {"R", "W"}, NEW isShared \in BOOLEAN
    PROVE  installedState(op, isShared) \in State
BY ProtocolAssumption DEF installedState, State

LEMMA StoredInKeeps ==
    ASSUME NEW k, WellFormed(k), k.currentJob # NULL, k.currentJob.op \in {"R", "W"},
           NEW isShared \in BOOLEAN, cycles \in Nat
    PROVE  storedIn(k, isShared) \in Seq(Line) /\ Sound(storedIn(k, isShared))
<1> DEFINE s == SetOfJob(k)
           t == TagOfJob(k)
           room == IF isFull(s) /\ ~hasLine(s, t) THEN evictLRULine(s) ELSE s
           with == IF hasLine(room, t) THEN room ELSE addLine(room, CacheLine(t))
           state == installedState(k.currentJob.op, isShared)
<1>1. s \in Seq(Line) /\ Sound(s) /\ t \in Tags /\ state \in State
  BY JobParts, InstalledState
<1>2. storedIn(k, isShared) = setState(touched(with, t, cycles), t, state)
  BY DEF storedIn
<1> HIDE DEF s, t, state
<1>3. isFull(s) => s # <<>>
  BY <1>1, SizesAssumption DEF isFull
<1>4. room \in Seq(Line) /\ Sound(room)
  BY <1>1, <1>3, EvictKeeps
<1> HIDE DEF room
<1>5. with \in Seq(Line) /\ Sound(with)
  BY <1>1, <1>4, NewLine, AddLineKeeps
<1> HIDE DEF with
<1>6. touched(with, t, cycles) \in Seq(Line) /\ Sound(touched(with, t, cycles))
  BY <1>5, TouchedKeeps, SameTagsSound
<1> QED  BY <1>1, <1>2, <1>6, SetStateKeeps, SameTagsSound

LEMMA BusJobDoneKeeps ==
    ASSUME NEW k, WellFormed(k), k.currentJob # NULL, k.currentJob.op \in {"R", "W"},
           NEW isShared \in BOOLEAN, cycles \in Nat
    PROVE  LET r == busJobDone(k, isShared) IN
           /\ WellFormed(r) /\ r.pendingJobs = k.pendingJobs
           /\ ~r.haveBusRequest /\ ~r.busy /\ ~r.busRequestBeingServiced
<1> DEFINE set == SetOf(k.currentJob.block)
           stored == storedIn(k, isShared)
           r == busJobDone(k, isShared)
<1>1. set \in Sets /\ stored \in Seq(Line) /\ Sound(stored)
  BY JobParts, StoredInKeeps
<1>2. r = [k EXCEPT !.haveBusRequest = FALSE, !.busy = FALSE,
                    !.busRequestBeingServiced = FALSE, !.localCache[set] = stored]
  BY DEF busJobDone
<1> HIDE DEF set, stored
<1>3. k \in CacheRecord /\ k.localCache \in [Sets -> Seq(Line)]
      /\ \A i \in Sets : Sound(k.localCache[i])
  BY DEF WellFormed, CacheRecord
<1> DEFINE lines == [k.localCache EXCEPT ![set] = stored]
<1>4. lines \in [Sets -> Seq(Line)] /\ \A i \in Sets : Sound(lines[i])
  BY <1>1, <1>3
<1>5. r = [k EXCEPT !.haveBusRequest = FALSE, !.busy = FALSE,
                    !.busRequestBeingServiced = FALSE, !.localCache = lines]
  BY <1>2
<1> HIDE DEF r, lines
<1> QED  BY <1>3, <1>4, <1>5 DEF WellFormed, CacheRecord, r

LEMMA CountKeeps ==
    ASSUME NEW st \in [Counters -> Nat], NEW ns
    PROVE  Count(st, ns) \in [Counters -> Nat]
BY DEF Count, Bool

-----------------------------------------------------------------------------
(***************************************************************************)
(* The order of replacement.  UsesOf tells the tags of a set of a cache    *)
(* and when they were last used; the operations are told by what they may  *)
(* add to that.                                                            *)
(***************************************************************************)
UsesOf(k, set) == Uses(k.localCache[set])

\* r is k with every line with tag t used now.
Touches(k, r, t) ==
    \A set \in Sets : \A p \in UsesOf(r, set) :
        p = <<t, cycles>> \/ (p \in UsesOf(k, set) /\ p[1] # t)

LEMMA LookedUpUses ==
    ASSUME NEW k, WellFormed(k), NEW t, cycles \in Nat
    PROVE  Touches(k, lookedUp(k, t), t)
<1> DEFINE lines == [i \in Sets |-> touched(k.localCache[i], t, cycles)]
<1>1. lookedUp(k, t) = [k EXCEPT !.localCache = lines]
  BY DEF lookedUp
<1>2. \A i \in Sets : k.localCache[i] \in Seq(Line) /\ Sound(k.localCache[i])
  BY DEF WellFormed, CacheRecord
<1>3. \A i \in Sets : \A p \in Uses(lines[i]) :
         p = <<t, cycles>> \/ (p \in Uses(k.localCache[i]) /\ p[1] # t)
  BY <1>2, UsesTouched
<1> HIDE DEF lines
<1>4. lookedUp(k, t).localCache = lines
  BY <1>1 DEF WellFormed, CacheRecord
<1> QED  BY <1>3, <1>4 DEF Touches, UsesOf

LEMMA SetLineStateUses ==
    ASSUME NEW k, WellFormed(k), NEW t, NEW x
    PROVE  \A set \in Sets : UsesOf(setLineState(k, t, x), set) = UsesOf(k, set)
<1> DEFINE lines == [i \in Sets |-> setState(k.localCache[i], t, x)]
<1>1. setLineState(k, t, x) = [k EXCEPT !.localCache = lines]
  BY DEF setLineState
<1>2. \A i \in Sets : k.localCache[i] \in Seq(Line)
  BY DEF WellFormed, CacheRecord
<1>3. \A i \in Sets : Uses(lines[i]) = Uses(k.localCache[i])
  BY <1>2, UsesSetState
<1> HIDE DEF lines
<1>4. setLineState(k, t, x).localCache = lines
  BY <1>1 DEF WellFormed, CacheRecord
<1> QED  BY <1>3, <1>4 DEF UsesOf

\* To begin a read or a write is to use its tag.
LEMMA HandleRequestUses ==
    ASSUME NEW k, WellFormed(k), k.currentJob # NULL, cycles \in Nat
    PROVE  /\ k.currentJob.op \in {"R", "W"} => Touches(k, handleRequest(k), TagOfJob(k))
           /\ k.currentJob.op \notin {"R", "W"} => handleRequest(k) = k
<1> DEFINE t == TagOfJob(k)
           u == lookedUp(k, t)
           o == outcomeOf(k)
<1>1. WellFormed(u) /\ Touches(k, u, t) /\ u.currentJob # NULL
  BY LookedUpKeeps, LookedUpUses DEF SameButLines
<1>2. o \in {"hit", "exclusiveHit", "ownedUpgrade", "miss", "ignored"}
      /\ (o = "ignored" <=> k.currentJob.op \notin {"R", "W"})
  BY Outcomes DEF outcomeOf
<1> HIDE DEF u, o
<1>3. /\ served(u).localCache = u.localCache /\ WellFormed(served(u))
      /\ \A command \in Command, cost \in Nat :
            /\ asked(u, command, cost).localCache = u.localCache
            /\ WellFormed(asked(u, command, cost))
  <2>1. served(u).localCache = u.localCache /\ WellFormed(served(u))
    BY <1>1, ServedKeeps DEF served, WellFormed, CacheRecord
  <2>2. ASSUME NEW command \in Command, NEW cost \in Nat
        PROVE  /\ asked(u, command, cost).localCache = u.localCache
               /\ WellFormed(asked(u, command, cost))
    BY <1>1, AskedKeeps DEF asked, WellFormed, CacheRecord
  <2> QED  BY <2>1, <2>2
<1>4. \A r : r.localCache = u.localCache => Touches(k, r, t)
  BY <1>1 DEF Touches, UsesOf
<1>5. \A r : r.localCache = u.localCache /\ WellFormed(r)
                => Touches(k, setLineState(r, t, "modified"), t)
  BY <1>1, SetLineStateUses DEF Touches, UsesOf
<1>6. CASE o = "hit"
  <2>1. handleRequest(k) = served(u)
    BY <1>6 DEF handleRequest, u, o
  <2> QED  BY <1>2, <1>3, <1>4, <1>6, <2>1
<1>7. CASE o = "exclusiveHit"
  <2>1. handleRequest(k) = setLineState(served(u), t, "modified")
    BY <1>7 DEF handleRequest, u, o
  <2> QED  BY <1>2, <1>3, <1>5, <1>7, <2>1
<1>8. CASE o = "ownedUpgrade"
  <2>1. handleRequest(k) = setLineState(asked(u, "BusRdX", CacheHitCycleCost), t, "modified")
    BY <1>8 DEF handleRequest, u, o
  <2>2. "BusRdX" \in Command /\ CacheHitCycleCost \in Nat
    BY CostsAssumption DEF Command
  <2> QED  BY <1>2, <1>3, <1>5, <1>8, <2>1, <2>2
<1>9. CASE o = "miss"
  <2>1. /\ "BusRdX" \in Command /\ "BusRd" \in Command
        /\ getTotalMemoryCost(u) \in Nat /\ MemoryResponseCycleCost \in Nat
    BY TotalMemoryCost, CostsAssumption DEF Command
  <2>2. \/ handleRequest(k) = asked(u, "BusRdX", getTotalMemoryCost(u))
        \/ handleRequest(k) = asked(u, "BusRd", MemoryResponseCycleCost)
    BY <1>2, <1>9 DEF handleRequest, u, o
  <2> QED  BY <1>2, <1>3, <1>4, <1>9, <2>1, <2>2
<1>10. CASE o = "ignored"
  <2>1. handleRequest(k) = k
    BY <1>10 DEF handleRequest, o
  <2> QED  BY <1>2, <1>10, <2>1
<1> QED  BY <1>2, <1>6, <1>7, <1>8, <1>9, <1>10

\* A job that is over, and the job of an idle cache, has just been used.
LEMMA FinishedUses ==
    ASSUME NEW c, WellFormed(c), cycles \in Nat
    PROVE  LET k == finished(c) IN
           /\ k.startServiceCycle = c.startServiceCycle /\ k.jobCycleCost = c.jobCycleCost
           /\ IF c.startServiceCycle + c.jobCycleCost <= cycles
              THEN /\ ~k.busy
                   /\ IF c.currentJob = NULL THEN k.localCache = c.localCache
                                             ELSE Touches(c, k, TagOfJob(c))
              ELSE k = c
<1> DEFINE u == updateCurrentJobLineCycle(c)
<1>1. /\ WellFormed(u) /\ SameButLines(c, u)
      /\ IF c.currentJob = NULL THEN u = c ELSE Touches(c, u, TagOfJob(c))
  BY LookedUpKeeps, LookedUpUses DEF updateCurrentJobLineCycle, SameButLines
<1>2. finished(c) = IF c.startServiceCycle + c.jobCycleCost <= cycles
                    THEN [u EXCEPT !.busy = FALSE] ELSE c
  BY DEF finished
<1> HIDE DEF u
<1> DEFINE v == [u EXCEPT !.busy = FALSE]
<1>3. /\ ~v.busy /\ v.localCache = u.localCache
      /\ v.startServiceCycle = c.startServiceCycle /\ v.jobCycleCost = c.jobCycleCost
  BY <1>1 DEF WellFormed, CacheRecord, SameButLines
<1> HIDE DEF v
<1>4. c.currentJob # NULL => Touches(c, v, TagOfJob(c))
  BY <1>1, <1>3 DEF Touches, UsesOf
<1>5. finished(c) = IF c.startServiceCycle + c.jobCycleCost <= cycles THEN v ELSE c
  BY <1>2 DEF v
<1> QED  BY <1>1, <1>3, <1>4, <1>5

\* A line of another tag than the job's; what a cache is said to know of its lines.
Other(k, p) == k.currentJob # NULL => p[1] # TagOfJob(k)

\* No two other lines of a set were last used in one cycle.
Distinct(k) ==
    \A set \in Sets : \A p, q \in UsesOf(k, set) :
        Other(k, p) /\ Other(k, q) /\ p[2] = q[2] => p[1] = q[1]

UsedBefore(k, now) == \A set \in Sets : \A p \in UsesOf(k, set) : p[2] < now
UsedBy(k, now) == \A set \in Sets : \A p \in UsesOf(k, set) : p[2] <= now
OthersBefore(k, now) ==
    \A set \in Sets : \A p \in UsesOf(k, set) : Other(k, p) => p[2] < now

\* A cache that is through with a read or a write has just used its line.
JobIsRecent(k, now) ==
    ~k.busy /\ k.currentJob # NULL /\ k.currentJob.op \in {"R", "W"} =>
        \A p \in Uses(SetOfJob(k)) : p[1] = TagOfJob(k) => p[2] = now

IdleIsOver(k, now) == ~k.busy => k.startServiceCycle + k.jobCycleCost <= now

LEMMA UseTimes ==
    ASSUME NEW k, WellFormed(k), NEW set \in Sets, NEW p \in UsesOf(k, set)
    PROVE  p[2] \in Nat
<1>1. k.localCache[set] \in Seq(Line)
  BY DEF WellFormed, CacheRecord
<1>2. PICK i \in DOMAIN k.localCache[set] :
         p = <<k.localCache[set][i].tag, k.localCache[set][i].lastUsedCycle>>
  BY DEF UsesOf, Uses
<1>3. k.localCache[set][i] \in Line
  BY <1>1
<1> QED  BY <1>2, <1>3 DEF Line

\* To touch lines is not to pass the present.
LEMMA TouchesUsedBy ==
    ASSUME NEW k, NEW r, NEW t, cycles \in Nat, Touches(k, r, t), UsedBy(k, cycles)
    PROVE  UsedBy(r, cycles)
BY DEF Touches, UsedBy

LEMMA StartedUses ==
    ASSUME NEW k, WellFormed(k), k.currentJob # NULL, cycles \in Nat, ~k.busy,
           ~k.haveBusRequest, UsedBy(k, cycles),
           \A set \in Sets : \A p, q \in UsesOf(k, set) : p[2] = q[2] => p[1] = q[1],
           IdleIsOver(k, cycles)
    PROVE  LET r == handleRequest(k) IN
           /\ Distinct(r) /\ UsedBy(r, cycles)
           /\ JobIsRecent(r, cycles) /\ IdleIsOver(r, cycles)
<1> DEFINE r == handleRequest(k)
<1>1. /\ TakenOn(k, r) /\ (r.busy <=> k.currentJob.op \in {"R", "W"})
  BY HandleRequestKeeps
<1>2. TagOfJob(r) = TagOfJob(k) /\ r.currentJob = k.currentJob
  BY <1>1 DEF TakenOn, TagOfJob
<1>3. /\ k.currentJob.op \in {"R", "W"} => Touches(k, r, TagOfJob(k))
      /\ k.currentJob.op \notin {"R", "W"} => r = k
  BY HandleRequestUses
<1> HIDE DEF r
<1>4. CASE k.currentJob.op \in {"R", "W"}
  <2>1. UsedBy(r, cycles)
    BY <1>3, <1>4, TouchesUsedBy
  <2>2. \A set \in Sets : \A p \in UsesOf(r, set) : Other(r, p) => p \in UsesOf(k, set)
    <3> SUFFICES ASSUME NEW set \in Sets, NEW p \in UsesOf(r, set), Other(r, p)
                 PROVE  p \in UsesOf(k, set)
      OBVIOUS
    <3>1. p[1] # TagOfJob(k)
      BY <1>2 DEF Other
    <3>2. p = <<TagOfJob(k), cycles>> \/ p \in UsesOf(k, set)
      BY <1>3, <1>4 DEF Touches
    <3> QED  BY <3>1, <3>2
  <2>3. Distinct(r)
    BY <2>2 DEF Distinct
  <2> QED  BY <1>1, <1>4, <2>1, <2>3 DEF JobIsRecent, IdleIsOver, r
<1>5. CASE k.currentJob.op \notin {"R", "W"}
  BY <1>3, <1>5 DEF Distinct, JobIsRecent, r
<1> QED  BY <1>4, <1>5

\* After its turn a cache knows which of its lines it has used when, and that all
\* but its job's were used in earlier cycles, unless it has taken on a new job.
LEMMA TickedUses ==
    ASSUME NEW c, WellFormed(c), Flags(c), cycles \in Nat, ~c.haveBusRequest,
           Len(c.pendingJobs) <= 1, c.busy => c.pendingJobs = <<>>,
           Distinct(c), UsedBefore(c, cycles), IdleIsOver(c, cycles)
    PROVE  LET r == Ticked(c) IN
           /\ Distinct(r) /\ UsedBy(r, cycles)
           /\ JobIsRecent(r, cycles) /\ IdleIsOver(r, cycles)
           /\ c.pendingJobs = <<>> => OthersBefore(r, cycles) /\ ~r.haveBusRequest
<1> DEFINE k == finished(c)
           over == c.startServiceCycle + c.jobCycleCost <= cycles
<1>1. /\ WellFormed(k) /\ k.pendingJobs = c.pendingJobs /\ k.currentJob = c.currentJob
      /\ ~k.haveBusRequest
  <2>1. k \in CacheRecord
    BY FinishedKeeps DEF WellFormed
  <2>2. SameButLines(c, [k EXCEPT !.busy = c.busy]) /\ WellFormed(k)
    BY FinishedKeeps
  <2> HIDE DEF k
  <2>3. /\ [k EXCEPT !.busy = c.busy].pendingJobs = k.pendingJobs
        /\ [k EXCEPT !.busy = c.busy].currentJob = k.currentJob
        /\ [k EXCEPT !.busy = c.busy].haveBusRequest = k.haveBusRequest
    BY <2>1 DEF CacheRecord
  <2> QED  BY <2>2, <2>3 DEF SameButLines
<1>2. /\ k.startServiceCycle = c.startServiceCycle /\ k.jobCycleCost = c.jobCycleCost
      /\ IF over
         THEN /\ ~k.busy
              /\ IF c.currentJob = NULL THEN k.localCache = c.localCache
                                        ELSE Touches(c, k, TagOfJob(c))
         ELSE k = c
  BY FinishedUses
<1>3. TagOfJob(k) = TagOfJob(c)
  BY <1>1 DEF TagOfJob
<1>4. UsedBy(c, cycles) /\ OthersBefore(c, cycles)
  BY UseTimes DEF UsedBy, UsedBefore, OthersBefore
<1> HIDE DEF k
\* What is old, and what has just been used.
<1>5. CASE over
  <2>1. ASSUME NEW set \in Sets, NEW p \in UsesOf(k, set)
        PROVE  \/ p = <<TagOfJob(c), cycles>> /\ c.currentJob # NULL
               \/ p \in UsesOf(c, set) /\ Other(c, p)
    <3>1. CASE c.currentJob = NULL
      BY <1>2, <1>5, <3>1 DEF UsesOf, Other
    <3>2. CASE c.currentJob # NULL
      BY <1>2, <1>5, <3>2 DEF Touches, Other
    <3> QED  BY <3>1, <3>2
  <2>2. \A set \in Sets : \A p, q \in UsesOf(k, set) : p[2] = q[2] => p[1] = q[1]
    <3> SUFFICES ASSUME NEW set \in Sets, NEW p \in UsesOf(k, set), NEW q \in UsesOf(k, set),
                        p[2] = q[2]
                 PROVE  p[1] = q[1]
      OBVIOUS
    <3>1. \A o \in UsesOf(c, set) : o[2] # cycles
      BY UseTimes DEF UsedBefore
    <3>2. CASE p = <<TagOfJob(c), cycles>>
      <4>1. q[2] = cycles
        BY <3>2
      <4> QED  BY <2>1, <3>1, <3>2, <4>1
    <3>3. CASE p \in UsesOf(c, set) /\ Other(c, p)
      <4>1. q \in UsesOf(c, set) /\ Other(c, q)
        BY <2>1, <3>1, <3>3
      <4> QED  BY <3>3, <4>1 DEF Distinct
    <3> QED  BY <2>1, <3>2, <3>3
  <2>3. UsedBy(k, cycles)
    BY <1>4, <2>1 DEF UsedBy
  <2>4. IdleIsOver(k, cycles) /\ ~k.busy
    BY <1>2, <1>5 DEF IdleIsOver
  <2>5. CASE k.pendingJobs # <<>>
    <3> DEFINE n == nextJob(k)
    <3>1. Ticked(c) = handleRequest(n)
      BY <2>4, <2>5 DEF Ticked, k
    <3>2. WellFormed(n) /\ n.currentJob # NULL /\ ~n.busy /\ ~n.haveBusRequest
      BY <1>1, <2>4, <2>5, NextJobKeeps
    <3>3. /\ n.localCache = k.localCache /\ n.startServiceCycle = k.startServiceCycle
          /\ n.jobCycleCost = k.jobCycleCost
      BY <1>1 DEF nextJob, WellFormed, CacheRecord
    <3> HIDE DEF n
    <3>4. /\ UsedBy(n, cycles) /\ IdleIsOver(n, cycles)
          /\ \A set \in Sets : \A p, q \in UsesOf(n, set) : p[2] = q[2] => p[1] = q[1]
      BY <2>2, <2>3, <2>4, <3>2, <3>3 DEF UsedBy, UsesOf, IdleIsOver
    <3> QED  BY <1>1, <2>5, <3>1, <3>2, <3>4, StartedUses
  <2>6. CASE k.pendingJobs = <<>>
    <3>1. Ticked(c) = k
      BY <2>6 DEF Ticked, k
    <3>2. Distinct(k)
      BY <2>2 DEF Distinct
    <3>3. OthersBefore(k, cycles)
      BY <1>1, <1>3, <1>4, <2>1 DEF OthersBefore, Other
    <3>4. JobIsRecent(k, cycles)
      <4> SUFFICES ASSUME k.currentJob # NULL, NEW p \in Uses(SetOfJob(k)), p[1] = TagOfJob(k)
                   PROVE  p[2] = cycles
        BY DEF JobIsRecent
      <4>1. SetOf(k.currentJob.block) \in Sets
        BY <1>1, JobParts
      <4>2. p \in UsesOf(k, SetOf(k.currentJob.block))
        BY DEF UsesOf, SetOfJob
      <4> QED  BY <1>1, <1>3, <2>1, <4>1, <4>2 DEF Other
    <3> QED  BY <1>1, <2>3, <2>4, <3>1, <3>2, <3>3, <3>4
  <2> QED  BY <2>5, <2>6
<1>6. CASE ~over
  <2>1. k = c /\ c.busy
    BY <1>2, <1>6 DEF IdleIsOver
  <2>2. Ticked(c) = c
    BY <2>1 DEF Ticked, k
  <2> QED  BY <1>4, <2>1, <2>2 DEF JobIsRecent, IdleIsOver
<1> QED  BY <1>5, <1>6

\* What busJobDone adds to the uses of its set.
LEMMA StoredInUses ==
    ASSUME NEW k, WellFormed(k), k.currentJob # NULL, k.currentJob.op \in {"R", "W"},
           NEW isShared \in BOOLEAN, cycles \in Nat
    PROVE  \A p \in Uses(storedIn(k, isShared)) :
              p = <<TagOfJob(k), cycles>> \/ (p \in Uses(SetOfJob(k)) /\ p[1] # TagOfJob(k))
<1> DEFINE s == SetOfJob(k)
           t == TagOfJob(k)
           room == IF isFull(s) /\ ~hasLine(s, t) THEN evictLRULine(s) ELSE s
           with == IF hasLine(room, t) THEN room ELSE addLine(room, CacheLine(t))
           used == touched(with, t, cycles)
           state == installedState(k.currentJob.op, isShared)
<1>1. s \in Seq(Line) /\ Sound(s) /\ t \in Tags /\ state \in State
  BY JobParts, InstalledState
<1>2. storedIn(k, isShared) = setState(used, t, state)
  BY DEF storedIn
<1> HIDE DEF s, t, state
<1>3. isFull(s) => s # <<>>
  BY <1>1, SizesAssumption DEF isFull
<1>4. room \in Seq(Line) /\ Sound(room) /\ Uses(room) \subseteq Uses(s)
  BY <1>1, <1>3, EvictKeeps, UsesEvict
<1> HIDE DEF room
<1>5. CacheLine(t) \in Line /\ CacheLine(t).tag = t
  BY <1>1, NewLine
<1>6. /\ with \in Seq(Line) /\ Sound(with)
      /\ \A p \in Uses(with) : p \in Uses(s) \/ p[1] = t
  <2>1. CASE hasLine(room, t)
    BY <1>4, <2>1
  <2>2. CASE ~hasLine(room, t)
    <3>1. with = addLine(room, CacheLine(t))
      BY <2>2
    <3> HIDE DEF with
    <3> QED  BY <1>4, <1>5, <2>2, <3>1, AddLineKeeps, UsesAddLine
  <2> QED  BY <2>1, <2>2
<1> HIDE DEF with
<1>7. used \in Seq(Line)
  BY <1>6, TouchedKeeps
<1>8. \A p \in Uses(used) : p = <<t, cycles>> \/ (p \in Uses(with) /\ p[1] # t)
  BY <1>6, UsesTouched
<1> HIDE DEF used
<1>9. Uses(setState(used, t, state)) = Uses(used)
  BY <1>7, UsesSetState
<1> QED  BY <1>2, <1>6, <1>8, <1>9 DEF s, t

LEMMA BusJobDoneUses ==
    ASSUME NEW k, WellFormed(k), k.currentJob # NULL, k.currentJob.op \in {"R", "W"},
           NEW isShared \in BOOLEAN, cycles \in Nat,
           Distinct(k), UsedBy(k, cycles), k.startServiceCycle + k.jobCycleCost <= cycles
    PROVE  LET r == busJobDone(k, isShared) IN
           /\ Distinct(r) /\ UsedBy(r, cycles)
           /\ JobIsRecent(r, cycles) /\ IdleIsOver(r, cycles)
<1> DEFINE set == SetOf(k.currentJob.block)
           stored == storedIn(k, isShared)
           lines == [k.localCache EXCEPT ![set] = stored]
           r == busJobDone(k, isShared)
<1>1. set \in Sets /\ k \in CacheRecord
  BY JobParts DEF WellFormed
<1>2. r = [k EXCEPT !.haveBusRequest = FALSE, !.busy = FALSE,
                    !.busRequestBeingServiced = FALSE, !.localCache = lines]
  BY DEF busJobDone
<1> HIDE DEF lines, r
<1>3. /\ r.localCache = lines /\ r.currentJob = k.currentJob
      /\ r.startServiceCycle = k.startServiceCycle /\ r.jobCycleCost = k.jobCycleCost
  BY <1>1, <1>2 DEF CacheRecord
<1>4. k.localCache \in [Sets -> Seq(Line)]
  BY <1>1 DEF CacheRecord
<1> HIDE DEF stored
<1>5. \A m \in Sets : lines[m] = IF m = set THEN stored ELSE k.localCache[m]
  BY <1>1, <1>4 DEF lines
<1>6. \A p \in Uses(stored) :
         p = <<TagOfJob(k), cycles>> \/ (p \in Uses(SetOfJob(k)) /\ p[1] # TagOfJob(k))
  BY StoredInUses DEF stored
<1>7. TagOfJob(r) = TagOfJob(k) /\ SetOfJob(k) = k.localCache[set] /\ SetOfJob(r) = lines[set]
  BY <1>3 DEF TagOfJob, SetOfJob
<1> HIDE DEF set
<1>8. \A m \in Sets : \A p \in UsesOf(r, m) :
         p = <<TagOfJob(k), cycles>> \/ p \in UsesOf(k, m)
  BY <1>3, <1>5, <1>6, <1>7 DEF UsesOf
<1>9. Distinct(r)
  <2>1. \A m \in Sets : \A p \in UsesOf(r, m) : Other(r, p) => p \in UsesOf(k, m) /\ Other(k, p)
    BY <1>3, <1>7, <1>8 DEF Other
  <2> QED  BY <2>1 DEF Distinct
<1>10. UsedBy(r, cycles)
  BY <1>8 DEF UsedBy
<1>11. JobIsRecent(r, cycles)
  BY <1>1, <1>5, <1>6, <1>7 DEF JobIsRecent
<1>12. IdleIsOver(r, cycles)
  BY <1>3 DEF IdleIsOver
<1> QED  BY <1>9, <1>10, <1>11, <1>12 DEF r

-----------------------------------------------------------------------------
(***************************************************************************)
(* The times of last use, exactly: LastUse(s) gives that of every tag of a *)
(* sound set, and the operations are told by the function that they leave. *)
(***************************************************************************)
TagsIn(s) == {s[i].tag : i \in DOMAIN s}
LastUse(s) == [t \in TagsIn(s) |-> getLine(s, t).lastUsedCycle]

\* f, but for the line with tag t, if there is one: it is used now.
UsedAt(f, t, now) == [u \in DOMAIN f |-> IF u = t THEN now ELSE f[u]]

LEMMA LastUseIs ==
    ASSUME NEW s \in Seq(Line), Sound(s)
    PROVE  /\ LastUse(s) \in [TagsIn(s) -> Nat] /\ TagsIn(s) \subseteq Tags
           /\ \A i \in DOMAIN s : LastUse(s)[s[i].tag] = s[i].lastUsedCycle
           /\ \A t : hasLine(s, t) <=> t \in TagsIn(s)
           /\ \A t \in TagsIn(s) : <<t, LastUse(s)[t]>> \in Uses(s)
<1>1. \A i \in DOMAIN s : s[i] \in Line
  OBVIOUS
<1>2. ASSUME NEW t \in TagsIn(s)
      PROVE  indexOf(s, t) \in DOMAIN s /\ s[indexOf(s, t)].tag = t
  BY IndexOf DEF TagsIn
<1>3. \A t \in TagsIn(s) : LastUse(s)[t] = s[indexOf(s, t)].lastUsedCycle
  BY DEF LastUse, getLine
<1>4. \A i \in DOMAIN s : indexOf(s, s[i].tag) = i
  <2>1. \A i \in DOMAIN s : s[i].tag \in TagsIn(s)
    BY DEF TagsIn
  <2> QED  BY <1>2, <2>1 DEF Sound
<1>5. LastUse(s) \in [TagsIn(s) -> Nat]
  <2>1. \A t \in TagsIn(s) : LastUse(s)[t] \in Nat
    BY <1>1, <1>2, <1>3 DEF Line
  <2>2. LastUse(s) = [t \in TagsIn(s) |-> LastUse(s)[t]]
    BY DEF LastUse
  <2> QED  BY <2>1, <2>2
<1>6. TagsIn(s) \subseteq Tags
  BY <1>1 DEF TagsIn, Line
<1>7. \A i \in DOMAIN s : LastUse(s)[s[i].tag] = s[i].lastUsedCycle
  BY <1>3, <1>4 DEF TagsIn
<1>8. \A t : hasLine(s, t) <=> t \in TagsIn(s)
  BY IndexOf DEF TagsIn
<1>9. \A t \in TagsIn(s) : <<t, LastUse(s)[t]>> \in Uses(s)
  BY <1>7 DEF TagsIn, Uses
<1> QED  BY <1>5, <1>6, <1>7, <1>8, <1>9

\* To know the function is to know every line's time, and that no tag is missing.
LEMMA LastUseBecomes ==
    ASSUME NEW r \in Seq(Line), Sound(r), NEW T, NEW f \in [T -> Nat],
           \A i \in DOMAIN r : r[i].tag \in T /\ r[i].lastUsedCycle = f[r[i].tag],
           \A t \in T : \E i \in DOMAIN r : r[i].tag = t
    PROVE  LastUse(r) = f /\ TagsIn(r) = T
<1>1. TagsIn(r) = T
  BY DEF TagsIn
<1>2. \A t \in T : LastUse(r)[t] = f[t]
  BY LastUseIs
<1>3. LastUse(r) \in [T -> Nat]
  BY <1>1, LastUseIs
<1> QED  BY <1>1, <1>2, <1>3

LEMMA LastUseTouched ==
    ASSUME NEW s \in Seq(Line), Sound(s), NEW t, NEW now \in Nat
    PROVE  LastUse(touched(s, t, now)) = UsedAt(LastUse(s), t, now)
<1> DEFINE r == touched(s, t, now)
           f == UsedAt(LastUse(s), t, now)
<1>1. r \in Seq(Line) /\ Sound(r)
  BY TouchedKeeps, SameTagsSound
<1>2. DOMAIN LastUse(s) = TagsIn(s) /\ LastUse(s) \in [TagsIn(s) -> Nat]
  BY LastUseIs
<1>3. f \in [TagsIn(s) -> Nat] /\ \A u \in TagsIn(s) : f[u] = IF u = t THEN now ELSE LastUse(s)[u]
  BY <1>2 DEF UsedAt
<1>4. DOMAIN r = DOMAIN s /\ \A i \in DOMAIN s :
         /\ r[i].tag = s[i].tag
         /\ r[i].lastUsedCycle = IF s[i].tag = t THEN now ELSE s[i].lastUsedCycle
  <2>1. CASE hasLine(s, t)
    <3> DEFINE n == indexOf(s, t)
    <3>1. n \in DOMAIN s /\ s[n].tag = t
      BY <2>1, IndexOf
    <3>2. s[n] \in Line
      BY <3>1
    <3>3. r = [s EXCEPT ![n].lastUsedCycle = now]
      BY <2>1 DEF touched
    <3>4. \A i \in DOMAIN s : i # n => s[i].tag # t
      BY <3>1 DEF Sound
    <3> HIDE DEF n, r
    <3> QED  BY <3>1, <3>2, <3>3, <3>4 DEF Line
  <2>2. CASE ~hasLine(s, t)
    BY <2>2, IndexOf DEF touched
  <2> QED  BY <2>1, <2>2
<1> HIDE DEF r, f
<1>5. \A i \in DOMAIN r : r[i].tag \in TagsIn(s) /\ r[i].lastUsedCycle = f[r[i].tag]
  BY <1>3, <1>4, LastUseIs DEF TagsIn
<1>6. \A u \in TagsIn(s) : \E i \in DOMAIN r : r[i].tag = u
  BY <1>4 DEF TagsIn
<1>7. LastUse(r) = f
  BY <1>1, <1>3, <1>5, <1>6, LastUseBecomes
<1> QED  BY <1>7 DEF r, f

LEMMA LastUseSetState ==
    ASSUME NEW s \in Seq(Line), Sound(s), NEW t, NEW x \in State
    PROVE  LastUse(setState(s, t, x)) = LastUse(s)
<1> DEFINE r == setState(s, t, x)
<1>1. r \in Seq(Line) /\ Sound(r)
  BY SetStateKeeps, SameTagsSound
<1>2. DOMAIN r = DOMAIN s /\ \A i \in DOMAIN s :
         r[i].tag = s[i].tag /\ r[i].lastUsedCycle = s[i].lastUsedCycle
  <2>1. CASE hasLine(s, t)
    <3> DEFINE n == indexOf(s, t)
    <3>1. n \in DOMAIN s
      BY <2>1, IndexOf
    <3>2. s[n] \in Line
      BY <3>1
    <3>3. r = [s EXCEPT ![n].state = x]
      BY <2>1 DEF setState
    <3> HIDE DEF n, r
    <3> QED  BY <3>1, <3>2, <3>3 DEF Line
  <2>2. CASE ~hasLine(s, t)
    BY <2>2 DEF setState
  <2> QED  BY <2>1, <2>2
<1> HIDE DEF r
<1>3. LastUse(s) \in [TagsIn(s) -> Nat]
  BY LastUseIs
<1>4. \A i \in DOMAIN r : r[i].tag \in TagsIn(s) /\ r[i].lastUsedCycle = LastUse(s)[r[i].tag]
  BY <1>2, LastUseIs DEF TagsIn
<1>5. \A u \in TagsIn(s) : \E i \in DOMAIN r : r[i].tag = u
  BY <1>2 DEF TagsIn
<1>6. LastUse(r) = LastUse(s)
  BY <1>1, <1>3, <1>4, <1>5, LastUseBecomes
<1> QED  BY <1>6 DEF r

\* The line that goes is one of those whose last use is the oldest.
LEMMA LastUseEvict ==
    ASSUME NEW s \in Seq(Line), Sound(s), s # <<>>
    PROVE  \E g \in TagsIn(s) :
              /\ \A u \in TagsIn(s) : LastUse(s)[g] <= LastUse(s)[u]
              /\ LastUse(evictLRULine(s)) = [u \in TagsIn(s) \ {g} |-> LastUse(s)[u]]
<1> DEFINE n == lruIndex(s)
           r == evictLRULine(s)
           f == [u \in TagsIn(s) \ {s[n].tag} |-> LastUse(s)[u]]
<1>1. n \in DOMAIN s /\ s[n].tag \in TagsIn(s)
  BY LruIndex DEF TagsIn
<1>2. \A j \in DOMAIN s : s[n].lastUsedCycle <= s[j].lastUsedCycle
  BY LruIndex
<1>3. r \in Seq(Line) /\ Sound(r)
  BY EvictKeeps
<1>4. /\ \A j \in DOMAIN r : \E m \in DOMAIN s : m # n /\ r[j] = s[m]
      /\ \A m \in DOMAIN s : m # n => \E j \in DOMAIN r : r[j] = s[m]
  BY Evicted
<1> HIDE DEF n, r
<1>5. f \in [TagsIn(s) \ {s[n].tag} -> Nat]
  BY LastUseIs
<1>6. \A m \in DOMAIN s : m # n => s[m].tag \in TagsIn(s) \ {s[n].tag}
  BY <1>1 DEF Sound, TagsIn
<1>7. \A m \in DOMAIN s : m # n => f[s[m].tag] = s[m].lastUsedCycle
  BY <1>6, LastUseIs
<1> HIDE DEF f
<1>8. \A j \in DOMAIN r : /\ r[j].tag \in TagsIn(s) \ {s[n].tag}
                          /\ r[j].lastUsedCycle = f[r[j].tag]
  BY <1>4, <1>6, <1>7
<1>9. \A u \in TagsIn(s) \ {s[n].tag} : \E j \in DOMAIN r : r[j].tag = u
  BY <1>4 DEF TagsIn
<1>10. LastUse(r) = f
  BY <1>3, <1>5, <1>8, <1>9, LastUseBecomes
<1>11. \A u \in TagsIn(s) : LastUse(s)[s[n].tag] <= LastUse(s)[u]
  BY <1>1, <1>2, LastUseIs DEF TagsIn
<1> QED  BY <1>1, <1>10, <1>11 DEF f, r

LEMMA LastUseAppend ==
    ASSUME NEW s \in Seq(Line), Sound(s), NEW l \in Line, l.tag \notin TagsIn(s),
           Sound(Append(s, l))
    PROVE  LastUse(Append(s, l)) =
              [u \in TagsIn(s) \cup {l.tag} |->
                  IF u = l.tag THEN l.lastUsedCycle ELSE LastUse(s)[u]]
<1> DEFINE r == Append(s, l)
           T == TagsIn(s) \cup {l.tag}
           f == [u \in T |-> IF u = l.tag THEN l.lastUsedCycle ELSE LastUse(s)[u]]
<1>1. /\ r \in Seq(Line) /\ DOMAIN r = 1 .. Len(s) + 1 /\ DOMAIN s = 1 .. Len(s)
      /\ \A i \in DOMAIN s : r[i] = s[i]
      /\ r[Len(s) + 1] = l /\ Len(s) \in Nat /\ Sound(r)
  OBVIOUS
<1> HIDE DEF r
<1>2. \A i \in DOMAIN r : i \in DOMAIN s \/ i = Len(s) + 1
  BY <1>1
<1>3. f \in [T -> Nat]
  BY LastUseIs DEF Line
<1>4. \A i \in DOMAIN s : f[s[i].tag] = s[i].lastUsedCycle /\ s[i].tag \in T
  BY LastUseIs DEF TagsIn
<1>5. f[l.tag] = l.lastUsedCycle
  OBVIOUS
<1> HIDE DEF f
<1>6. \A i \in DOMAIN r : r[i].tag \in T /\ r[i].lastUsedCycle = f[r[i].tag]
  BY <1>1, <1>2, <1>4, <1>5
<1>7. \A u \in T : \E i \in DOMAIN r : r[i].tag = u
  BY <1>1 DEF TagsIn
<1>8. r \in Seq(Line) /\ Sound(r)
  BY <1>1
<1> HIDE DEF T
<1>9. LastUse(r) = f
  BY <1>3, <1>6, <1>7, <1>8, LastUseBecomes
<1> QED  BY <1>9 DEF f, r, T

\* A sound set has as many tags as lines.
LEMMA HowManyTags ==
    ASSUME NEW s \in Seq(Line), Sound(s)
    PROVE  Cardinality(TagsIn(s)) = Len(s)
<1> DEFINE f == [i \in 1 .. Len(s) |-> s[i].tag]
<1>1. Len(s) \in Nat /\ DOMAIN s = 1 .. Len(s)
  OBVIOUS
<1>2. IsFiniteSet(1 .. Len(s)) /\ Cardinality(1 .. Len(s)) = Len(s)
  BY <1>1, FS_Interval
<1>3. f \in Bijection(1 .. Len(s), TagsIn(s))
  BY <1>1 DEF Bijection, Injection, Surjection, IsInjective, Sound, TagsIn
<1> QED  BY <1>2, <1>3, FS_Bijection DEF ExistsBijection

\* What the handlers do to the times of last use of a whole cache.
LastUseOf(k, set) == LastUse(k.localCache[set])

\* r is k, but that the lines with tag t are used now.
UsesTag(k, r, t) == \A set \in Sets : LastUseOf(r, set) = UsedAt(LastUseOf(k, set), t, cycles)
UsesNothing(k, r) == \A set \in Sets : LastUseOf(r, set) = LastUseOf(k, set)

LEMMA LookedUpLastUse ==
    ASSUME NEW k, WellFormed(k), NEW t, cycles \in Nat
    PROVE  UsesTag(k, lookedUp(k, t), t)
<1> DEFINE lines == [i \in Sets |-> touched(k.localCache[i], t, cycles)]
<1>1. lookedUp(k, t) = [k EXCEPT !.localCache = lines]
  BY DEF lookedUp
<1>2. \A i \in Sets : k.localCache[i] \in Seq(Line) /\ Sound(k.localCache[i])
  BY DEF WellFormed, CacheRecord
<1>3. \A i \in Sets : LastUse(lines[i]) = UsedAt(LastUse(k.localCache[i]), t, cycles)
  BY <1>2, LastUseTouched
<1> HIDE DEF lines
<1>4. lookedUp(k, t).localCache = lines
  BY <1>1 DEF WellFormed, CacheRecord
<1> QED  BY <1>3, <1>4 DEF UsesTag, LastUseOf

LEMMA SetLineStateLastUse ==
    ASSUME NEW k, WellFormed(k), NEW t, NEW x \in State
    PROVE  UsesNothing(k, setLineState(k, t, x))
<1> DEFINE lines == [i \in Sets |-> setState(k.localCache[i], t, x)]
<1>1. setLineState(k, t, x) = [k EXCEPT !.localCache = lines]
  BY DEF setLineState
<1>2. \A i \in Sets : k.localCache[i] \in Seq(Line) /\ Sound(k.localCache[i])
  BY DEF WellFormed, CacheRecord
<1>3. \A i \in Sets : LastUse(lines[i]) = LastUse(k.localCache[i])
  BY <1>2, LastUseSetState
<1> HIDE DEF lines
<1>4. setLineState(k, t, x).localCache = lines
  BY <1>1 DEF WellFormed, CacheRecord
<1> QED  BY <1>3, <1>4 DEF UsesNothing, LastUseOf

\* A read or a write begins by using its tag, and uses no other.
LEMMA HandleRequestLastUse ==
    ASSUME NEW k, WellFormed(k), k.currentJob # NULL, cycles \in Nat
    PROVE  UsesTag(k, handleRequest(k), TagOfJob(k)) \/ UsesNothing(k, handleRequest(k))
<1> DEFINE t == TagOfJob(k)
           u == lookedUp(k, t)
           o == outcomeOf(k)
<1>1. WellFormed(u) /\ UsesTag(k, u, t) /\ u.currentJob # NULL
  BY LookedUpKeeps, LookedUpLastUse DEF SameButLines
<1>2. o \in {"hit", "exclusiveHit", "ownedUpgrade", "miss", "ignored"}
      /\ (o = "ignored" <=> k.currentJob.op \notin {"R", "W"})
  BY Outcomes DEF outcomeOf
<1> HIDE DEF u, o
<1>3. /\ served(u).localCache = u.localCache /\ WellFormed(served(u))
      /\ \A command \in Command, cost \in Nat :
            /\ asked(u, command, cost).localCache = u.localCache
            /\ WellFormed(asked(u, command, cost))
  <2>1. served(u).localCache = u.localCache /\ WellFormed(served(u))
    BY <1>1, ServedKeeps DEF served, WellFormed, CacheRecord
  <2>2. ASSUME NEW command \in Command, NEW cost \in Nat
        PROVE  /\ asked(u, command, cost).localCache = u.localCache
               /\ WellFormed(asked(u, command, cost))
    BY <1>1, AskedKeeps DEF asked, WellFormed, CacheRecord
  <2> QED  BY <2>1, <2>2
<1>4. \A r : r.localCache = u.localCache => UsesTag(k, r, t)
  BY <1>1 DEF UsesTag, LastUseOf
<1>5. \A r : r.localCache = u.localCache /\ WellFormed(r)
                => UsesTag(k, setLineState(r, t, "modified"), t)
  BY <1>1, SetLineStateLastUse DEF UsesTag, UsesNothing, LastUseOf, State
<1>6. CASE o = "hit"
  <2>1. handleRequest(k) = served(u)
    BY <1>6 DEF handleRequest, u, o
  <2> QED  BY <1>3, <1>4, <2>1
<1>7. CASE o = "exclusiveHit"
  <2>1. handleRequest(k) = setLineState(served(u), t, "modified")
    BY <1>7 DEF handleRequest, u, o
  <2> QED  BY <1>3, <1>5, <2>1
<1>8. CASE o = "ownedUpgrade"
  <2>1. handleRequest(k) = setLineState(asked(u, "BusRdX", CacheHitCycleCost), t, "modified")
    BY <1>8 DEF handleRequest, u, o
  <2>2. "BusRdX" \in Command /\ CacheHitCycleCost \in Nat
    BY CostsAssumption DEF Command
  <2> QED  BY <1>3, <1>5, <2>1, <2>2
<1>9. CASE o = "miss"
  <2>1. /\ "BusRdX" \in Command /\ "BusRd" \in Command
        /\ getTotalMemoryCost(u) \in Nat /\ MemoryResponseCycleCost \in Nat
    BY TotalMemoryCost, CostsAssumption DEF Command
  <2>2. \/ handleRequest(k) = asked(u, "BusRdX", getTotalMemoryCost(u))
        \/ handleRequest(k) = asked(u, "BusRd", MemoryResponseCycleCost)
    BY <1>2, <1>9 DEF handleRequest, u, o
  <2> QED  BY <1>3, <1>4, <2>1, <2>2
<1>10. CASE o = "ignored"
  <2>1. handleRequest(k) = k
    BY <1>10 DEF handleRequest, o
  <2> QED  BY <2>1 DEF UsesNothing
<1> QED  BY <1>2, <1>6, <1>7, <1>8, <1>9, <1>10

\* The line of the current job, if there is a job, is used.
UsesOwn(k, r) ==
    IF k.currentJob = NULL THEN UsesNothing(k, r) ELSE UsesTag(k, r, TagOfJob(k))

\* In its turn a cache uses at most the line of its job, or takes on the next job: then
\* it has used the line of the last one, and uses no other than that of the new one.
LEMMA TickedLastUse ==
    ASSUME NEW c, WellFormed(c), cycles \in Nat, IdleIsOver(c, cycles), ~c.haveBusRequest
    PROVE  LET r == Ticked(c) IN
           \/ /\ r.currentJob = c.currentJob
              /\ UsesOwn(c, r) \/ UsesNothing(c, r)
           \/ /\ c.pendingJobs # <<>> /\ r.currentJob = Head(c.pendingJobs)
              /\ r.currentJob # NULL
              /\ \E k : /\ UsesOwn(c, k)
                        /\ UsesTag(k, r, TagOfJob(r)) \/ UsesNothing(k, r)
<1> DEFINE u == updateCurrentJobLineCycle(c)
           over == c.startServiceCycle + c.jobCycleCost <= cycles
           k == finished(c)
<1>1. WellFormed(u) /\ SameButLines(c, u) /\ UsesOwn(c, u)
  BY LookedUpKeeps, LookedUpLastUse
  DEF updateCurrentJobLineCycle, SameButLines, UsesOwn, UsesNothing
<1>2. k = IF over THEN [u EXCEPT !.busy = FALSE] ELSE c
  BY DEF finished
<1> HIDE DEF u
<1>3. CASE ~over
  <2>1. k = c /\ c.busy
    BY <1>2, <1>3 DEF IdleIsOver
  <2>2. Ticked(c) = c
    BY <2>1 DEF Ticked
  <2> QED  BY <2>2 DEF UsesNothing
<1>4. CASE over
  <2> HIDE DEF over, k
  <2>1. k = [u EXCEPT !.busy = FALSE]
    BY <1>2, <1>4
  <2>2. /\ WellFormed(k) /\ k.localCache = u.localCache
        /\ k.currentJob = c.currentJob /\ k.pendingJobs = c.pendingJobs
        /\ ~k.busy /\ ~k.haveBusRequest
    BY <1>1, <2>1 DEF WellFormed, CacheRecord, SameButLines
  <2>3. UsesOwn(c, k)
    BY <1>1, <2>2 DEF UsesOwn, UsesTag, UsesNothing, LastUseOf
  <2>4. CASE Ticked(c) = k
    BY <2>2, <2>3, <2>4
  <2>5. CASE Ticked(c) = handleRequest(nextJob(k)) /\ k.pendingJobs # <<>>
    <3> DEFINE n == nextJob(k)
               job == Head(k.pendingJobs)
               rest == Tail(k.pendingJobs)
    <3>1. WellFormed(n) /\ n.currentJob # NULL /\ ~n.busy /\ ~n.haveBusRequest
      BY <2>2, <2>5, NextJobKeeps
    <3>2. n = [k EXCEPT !.currentJob = job, !.pendingJobs = rest]
      BY DEF nextJob
    <3> HIDE DEF job, rest, n
    <3>3. n.localCache = k.localCache /\ n.currentJob = job
      BY <2>2, <3>2 DEF WellFormed, CacheRecord
    <3>4. UsesOwn(c, n)
      BY <2>3, <3>3 DEF UsesOwn, UsesTag, UsesNothing, LastUseOf
    <3> DEFINE r == handleRequest(n)
    <3>5. r.currentJob = n.currentJob
      BY <3>1, HandleRequestKeeps DEF TakenOn
    <3>6. UsesTag(n, r, TagOfJob(n)) \/ UsesNothing(n, r)
      BY <3>1, HandleRequestLastUse
    <3>7. TagOfJob(r) = TagOfJob(n)
      BY <3>5 DEF TagOfJob
    <3>8. Ticked(c) = r
      BY <2>5 DEF n
    <3> HIDE DEF r
    <3> QED  BY <2>2, <2>5, <3>1, <3>3, <3>4, <3>5, <3>6, <3>7, <3>8 DEF job
  <2> QED  BY <2>4, <2>5 DEF Ticked, k
<1> QED  BY <1>3, <1>4

\* What is in a set after busJobDone, and when it has been used: a line that was there, or
\* one more, in place of the one not used for longest if there was no room.
LEMMA StoredInLastUse ==
    ASSUME NEW k, WellFormed(k), k.currentJob # NULL, k.currentJob.op \in {"R", "W"},
           NEW isShared \in BOOLEAN, cycles \in Nat
    PROVE  LET s == SetOfJob(k)
               t == TagOfJob(k)
               With(T) == [u \in T \cup {t} |-> IF u = t THEN cycles ELSE LastUse(s)[u]]
               stored == LastUse(storedIn(k, isShared))
           IN  \/ (t \in TagsIn(s) \/ Len(s) # NumLinesInSet) /\ stored = With(TagsIn(s))
               \/ /\ t \notin TagsIn(s) /\ Len(s) = NumLinesInSet
                  /\ \E g \in TagsIn(s) :
                        /\ \A u \in TagsIn(s) : LastUse(s)[g] <= LastUse(s)[u]
                        /\ stored = With(TagsIn(s) \ {g})
<1> DEFINE s == SetOfJob(k)
           t == TagOfJob(k)
           room == IF isFull(s) /\ ~hasLine(s, t) THEN evictLRULine(s) ELSE s
           with == IF hasLine(room, t) THEN room ELSE addLine(room, CacheLine(t))
           used == touched(with, t, cycles)
           state == installedState(k.currentJob.op, isShared)
           With(T) == [u \in T \cup {t} |-> IF u = t THEN cycles ELSE LastUse(s)[u]]
<1>1. s \in Seq(Line) /\ Sound(s) /\ t \in Tags /\ state \in State
  BY JobParts, InstalledState
<1>2. storedIn(k, isShared) = setState(used, t, state)
  BY DEF storedIn
<1> HIDE DEF s, t, state
<1>3. CacheLine(t) \in Line /\ CacheLine(t).tag = t
  BY <1>1, NewLine
<1>4. t \in TagsIn(s) <=> hasLine(s, t)
  BY <1>1, LastUseIs
<1>5. ASSUME with \in Seq(Line), Sound(with), NEW T, t \in TagsIn(with), T \subseteq TagsIn(s),
             TagsIn(with) = T \cup {t},
             \A u \in T \ {t} : LastUse(with)[u] = LastUse(s)[u]
      PROVE  LastUse(storedIn(k, isShared)) = With(T)
  <2> HIDE DEF with
  <2>1. used \in Seq(Line) /\ Sound(used)
    BY <1>5, TouchedKeeps, SameTagsSound
  <2>2. LastUse(storedIn(k, isShared)) = LastUse(used)
    BY <1>1, <1>2, <2>1, LastUseSetState
  <2>3. LastUse(used) = UsedAt(LastUse(with), t, cycles)
    BY <1>5, LastUseTouched
  <2>4. DOMAIN LastUse(with) = T \cup {t}
    BY <1>5 DEF LastUse
  <2> QED  BY <1>5, <2>2, <2>3, <2>4 DEF UsedAt
<1>6. CASE hasLine(s, t)
  <2>1. with = s /\ TagsIn(s) = TagsIn(s) \cup {t}
    BY <1>4, <1>6
  <2>2. LastUse(storedIn(k, isShared)) = With(TagsIn(s))
    BY <1>1, <1>4, <1>5, <1>6, <2>1
  <2> QED  BY <1>4, <1>6, <2>2 DEF s, t
<1> DEFINE m == IF Len(s) = NumLinesInSet THEN evictLRULine(s) ELSE s
<1>7. CASE ~hasLine(s, t)
  <2>1. with = Append(m, CacheLine(t)) /\ m \in Seq(Line) /\ Sound(m) /\ ~hasLine(m, t)
    <3>1. CASE Len(s) = NumLinesInSet
      <4>1. s # <<>>
        BY <3>1, SizesAssumption
      <4>2. /\ evictLRULine(s) \in Seq(Line) /\ Sound(evictLRULine(s))
            /\ Len(evictLRULine(s)) = NumLinesInSet - 1 /\ ~hasLine(evictLRULine(s), t)
        BY <1>1, <1>7, <3>1, <4>1, EvictKeeps
      <4>3. Len(evictLRULine(s)) # NumLinesInSet
        BY <4>2, SizesAssumption
      <4> QED  BY <1>7, <3>1, <4>2, <4>3 DEF addLine
    <3>2. CASE Len(s) # NumLinesInSet
      <4>1. ~isFull(s)
        BY <1>1, <3>2, SizesAssumption DEF isFull, Sound
      <4> QED  BY <1>1, <1>7, <3>2, <4>1 DEF addLine
    <3> QED  BY <3>1, <3>2
  <2>2. with \in Seq(Line) /\ Sound(with)
    <3>1. room \in Seq(Line) /\ Sound(room) /\ ~hasLine(room, t)
      <4>1. isFull(s) => s # <<>>
        BY <1>1, SizesAssumption DEF isFull
      <4> QED  BY <1>1, <1>7, <4>1, EvictKeeps
    <3> HIDE DEF room
    <3> QED  BY <1>3, <3>1, AddLineKeeps
  <2> HIDE DEF with, m, room
  <2>3. t \notin TagsIn(m)
    BY <2>1, LastUseIs
  <2>4. LastUse(with) = [u \in TagsIn(m) \cup {t} |->
                            IF u = t THEN CacheLine(t).lastUsedCycle ELSE LastUse(m)[u]]
    <3> DEFINE l == CacheLine(t)
    <3>1. l \in Line /\ l.tag = t /\ with = Append(m, l)
      BY <1>3, <2>1
    <3> HIDE DEF l
    <3>2. LastUse(with) = [u \in TagsIn(m) \cup {l.tag} |->
                              IF u = l.tag THEN l.lastUsedCycle ELSE LastUse(m)[u]]
      BY <2>1, <2>2, <2>3, <3>1, LastUseAppend
    <3> QED  BY <3>1, <3>2 DEF l
  <2>5. TagsIn(with) = TagsIn(m) \cup {t}
    <3>1. TagsIn(with) = DOMAIN LastUse(with)
      BY DEF LastUse
    <3> QED  BY <2>4, <3>1
  <2>6. ASSUME TagsIn(m) \subseteq TagsIn(s),
               \A u \in TagsIn(m) : LastUse(m)[u] = LastUse(s)[u]
        PROVE  LastUse(storedIn(k, isShared)) = With(TagsIn(m))
    <3>1. \A u \in TagsIn(m) \ {t} : LastUse(with)[u] = LastUse(s)[u]
      BY <2>4, <2>6
    <3> QED  BY <1>5, <2>2, <2>5, <2>6, <3>1 DEF with
  <2>7. CASE Len(s) # NumLinesInSet
    <3>1. m = s
      BY <2>7 DEF m
    <3> QED  BY <2>6, <2>7, <3>1 DEF s, t
  <2>8. CASE Len(s) = NumLinesInSet
    <3>1. m = evictLRULine(s) /\ s # <<>>
      BY <2>8, SizesAssumption DEF m
    <3>2. PICK g \in TagsIn(s) :
             /\ \A u \in TagsIn(s) : LastUse(s)[g] <= LastUse(s)[u]
             /\ LastUse(m) = [u \in TagsIn(s) \ {g} |-> LastUse(s)[u]]
      BY <1>1, <3>1, LastUseEvict
    <3>3. TagsIn(m) = TagsIn(s) \ {g}
      <4>1. TagsIn(m) = DOMAIN LastUse(m)
        BY DEF LastUse
      <4> QED  BY <3>2, <4>1
    <3>4. LastUse(storedIn(k, isShared)) = With(TagsIn(s) \ {g})
      BY <2>6, <3>2, <3>3
    <3> QED  BY <1>4, <1>7, <2>8, <3>2, <3>4 DEF s, t
  <2> QED  BY <2>7, <2>8
<1> QED  BY <1>6, <1>7
===============================================================================
