\* A read that fails half way has changed the buffer it was given.
SPECIFICATION Spec
CONSTANTS
  Capacity = 1
  MaxPages = 2
  Zero = zero
  Mixed = mixed
  Data = {zero, mixed, a}
  Handles = {h1}
  NoHandle = none
  MaxDropped = 1
  PartialReads = TRUE
INVARIANT CleanFramesMatchFile
