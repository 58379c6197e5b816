---------------------------- MODULE MCHeapEngine ----------------------------
(* HeapEngine for TLC.  With a page of 40 bytes two small tuples fill a     *)
(* page, and a huge one is a byte too long for any.                         *)
EXTENDS HeapEngine, TLC

CONSTANTS a, b

Small == <<a>>
Huge == <<b, b, b, b, b, b, b, b, b>>

SmallAndHuge == {Small, Huge}
SmallOnly == {Small}

OneScan == Cardinality({t \in Thread : scan[t] # None}) <= 1

OneTorn == Cardinality(torn) <= 1

ThreadSymmetry == Permutations(Thread)
=============================================================================
