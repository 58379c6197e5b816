\* Room for sixteen bytes of slots and tuples after the header: up to three
\* tuples, in pages that are filled exactly and pages with a gap left.
SPECIFICATION Spec
CONSTANTS
  PageSize = 44
  a = a
  b = b
  Byte = {a, b}
  Tuple <- ShortTuples
  Deleted = deleted
INVARIANTS SlotsReadBack RegionsApart
