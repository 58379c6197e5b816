\* Two threads on the two pages of one file. A page of three bytes takes up to
\* three kernel calls, and no file can have a third page.
SPECIFICATION Spec
CONSTANTS
  Thread = {t1, t2}
  Object = {o1}
  NoFile = none
  Byte = {zero, a}
  Zero = zero
  MaxOffset = 6
  MaxOpen = 1
  PageSize = 3
  MaxU64 = 6
  Mixed = mixed
  Untouched = untouched
  Pending = pending
INVARIANT TypeOK
PROPERTIES PageCallsAreAtomic CallsReturn
