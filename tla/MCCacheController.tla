--------------------------- MODULE MCCacheController ---------------------------
(***************************************************************************)
(* Instances of CacheController for TLC.                                   *)
(***************************************************************************)
EXTENDS CacheController

\* Three blocks for the two lines of one set: something has to go.
ThreeTags == {<<0, 0>>, <<0, 1>>, <<0, 2>>}
TwoTags   == {<<0, 0>>, <<0, 1>>}

\* And a block of another set with one of their tags.
ThreeTagsOneShared == ThreeTags \cup {<<1, 1>>}

\* Every read and every write, by one thread for each cache.
Accesses == {"R", "W"} \X Blocks \X Caches

\* Threads whose numbers go beyond the caches', comments, empty lines, lines that
\* end after the operation, and comments that look as if they had an address.
AnyLines ==
    {"R", "W"} \X Blocks \X {0, 1, NumProcessors + 2}
    \cup {<<>>, <<"-">>, <<"W">>} \cup {<<"-", b>> : b \in Blocks}
===============================================================================
