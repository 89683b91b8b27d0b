---------------------------------- MODULE LRU ----------------------------------
(***************************************************************************)
(* What the sets of the caches promise of replacement: that the line that  *)
(* goes is the least recently used one.  Uses have an order here but no    *)
(* time: a cache uses the line of the job it takes on, and after the snoop *)
(* of another cache's request its last job comes first again.              *)
(***************************************************************************)
EXTENDS FiniteSets

CONSTANTS Caches, Sets, Blocks, NumLinesInSet,
          None                  \* the last job of a cache that has had none

VARIABLES order,   \* order[c][set]: the pairs <<t, u>> of tags of the set's lines such
                   \* that u's last use was not before t's
          last,    \* last[c]: the block of the job that c has taken on last
          onBus    \* the caches that the bus is serving, one at most

vars == <<order, last, onBus>>

SetOf(b) == b[1]
TagOf(b) == b[2]

held(R) == {p[1] : p \in R}

\* The line with a tag of T, if there is one, becomes the most recently used.
toFront(R, T) ==
    LET used == T \cap held(R)
    IN {p \in R : p[1] \notin used} \cup (held(R) \X used)

without(R, T) == {p \in R : p[1] \notin T /\ p[2] \notin T}

leastRecent(R) == {t \in held(R) : \A u \in held(R) : <<t, u>> \in R}

\* What may go to make room for the line with tag t.
victims(R, t) ==
    IF t \in held(R) \/ Cardinality(held(R)) # NumLinesInSet THEN {{}}
    ELSE {{u} : u \in leastRecent(R)}

lastTag(c) == {TagOf(b) : b \in {last[c]} \ {None}}

Init ==
    /\ order = [c \in Caches |-> [set \in Sets |-> {}]]
    /\ last = [c \in Caches |-> None]
    /\ onBus = {}

\* Cache c takes on a job for block b: it looks the tag up in every set.
Use(c, b) ==
    /\ c \notin onBus
    /\ order' = [order EXCEPT ![c] = [set \in Sets |-> toFront(@[set], {TagOf(b)})]]
    /\ last' = [last EXCEPT ![c] = b]
    /\ UNCHANGED onBus

\* The bus is given to c: the others snoop its request, and go on with the line of
\* their own last job.
Snoop(c) ==
    /\ onBus = {} /\ last[c] # None
    /\ order' = [d \in Caches |->
          IF d = c THEN order[d]
          ELSE [order[d] EXCEPT ![SetOf(last[c])] =
                   toFront(toFront(@, {TagOf(last[c])}), lastTag(d))]]
    /\ onBus' = {c}
    /\ UNCHANGED last

\* The bus is done: the line of c's job is stored.
Store(c) ==
    /\ onBus = {c}
    /\ LET set == SetOf(last[c])
           t == TagOf(last[c])
       IN \E gone \in victims(order[c][set], t) :
             order' = [order EXCEPT ![c][set] =
                          toFront(without(@, gone) \cup {<<t, t>>}, {t})]
    /\ onBus' = {}
    /\ UNCHANGED last

Next == \E c \in Caches : (\E b \in Blocks : Use(c, b)) \/ Snoop(c) \/ Store(c)
===============================================================================
