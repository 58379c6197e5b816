\* close is called again after it failed.
SPECIFICATION Spec
CONSTANTS
  PageSize = 40
  a = a
  b = b
  Byte = {a, b}
  Thread = {t1}
  Tuple <- SmallOnly
  None = none
  MaxPages = 2
INVARIANT ClosedMeansStored
