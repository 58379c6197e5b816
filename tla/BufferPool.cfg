\* Two frames for three pages, so that a pinned page stands beside an evicted
\* one and flush_all can stop between two frames.
SPECIFICATION Spec
CONSTANTS
  Capacity = 2
  MaxPages = 3
  Zero = zero
  Mixed = mixed
  Data = {zero, mixed, a}
  Handles = {h1, h2}
  NoHandle = none
  MaxDropped = 1
  PartialReads = FALSE
SYMMETRY HandleSymmetry
CONSTRAINTS FewWrittenPages FewDropped
INVARIANTS TypeOK CleanFramesMatchFile OneFramePerPage PinAccounting HandlesStable
PROPERTIES FlushMakesDurable CacheIsTransparent
