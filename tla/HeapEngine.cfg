\* Scans, updates and deletes of two threads, with tuples that share a page and
\* tuples that fit none.
SPECIFICATION Spec
CONSTANTS
  PageSize = 40
  a = a
  b = b
  Byte = {a, b}
  Thread = {t1, t2}
  Tuple <- SmallAndHuge
  None = none
  MaxPages = 2
SYMMETRY ThreadSymmetry
CONSTRAINTS OneScan OneTorn
INVARIANTS TypeOK ScansAreExact
PROPERTY TupleIdsAreStable
