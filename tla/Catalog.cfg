\* Two user tables beside the system tables, and a third row of edb_class for
\* an oid that is used again.
SPECIFICATION Spec
CONSTANTS
  s1 = s1
  s2 = s2
  t1 = t1
  c = c
  d = d
  SystemName <- SystemNames
  SystemAttributes <- OneColumnEach
  TypeName <- OneType
  Column = {c, d}
  Columns <- ColumnLists
  Name = {n1, n2}
  MaxRows = 3
CONSTRAINTS Bounded UserLookups
SYMMETRY NameSymmetry
INVARIANTS
  TypeOK NoMetadataWithoutClass ClassesAreUnique CreatedTablesIntact
  ClassCacheCurrent
