\* open fails half way through the bootstrap, and the caller closes and opens.
SPECIFICATION Spec
CONSTANTS
  s1 = s1
  s2 = s2
  t1 = t1
  c = c
  d = d
  SystemName <- SystemNames
  SystemAttributes <- OneColumnEach
  TypeName <- OneType
  Column = {c, d}
  Columns <- ColumnLists
  Name = {n1}
  MaxRows = 1
INVARIANT SystemCatalogComplete
