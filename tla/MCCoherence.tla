------------------------------ MODULE MCCoherence ------------------------------
(***************************************************************************)
(* Instances of Coherence for TLC.                                         *)
(***************************************************************************)
EXTENDS Coherence, TLC

CONSTANTS c1, c2, c3     \* processors

Procs3 == {c1, c2, c3}

\* The bus treats all repliers alike, and only safety is checked.
ProcSymmetry == Permutations(Procs3)

\* Two blocks compete for one set; a third is in a set of its own.  No tag is
\* used in two sets.
DistinctTags == {<<0, 1>>, <<0, 2>>, <<1, 3>>}
OneSet       == {<<0, 1>>, <<0, 2>>}

\* The same tag in two sets: any two lines of one 4 KiB page have it.
SharedTag == {<<0, 1>>, <<1, 1>>}
EvictionAndSharedTag == SharedTag \cup OneSet
=============================================================================
