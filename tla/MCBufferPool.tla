---------------------------- MODULE MCBufferPool ----------------------------
(* BufferPool for TLC: handles are interchangeable; at most one page of the *)
(* file has ever been written, or two while no page is pinned; handles are  *)
(* let go without an unpin when the file has all its pages, synced.         *)
EXTENDS BufferPool, TLC

HandleSymmetry == Permutations(Handles)

Written == {p \in PageId : platter[p] # {Zero}}

FewWrittenPages ==
  \/ Cardinality(Written) <= 1
  \/ /\ Cardinality(Written) <= 2
     /\ \A f \in Frame : frames[f].pin_count = 0

FewDropped ==
  dropped # NoneDropped => synced_count = MaxPages
=============================================================================
