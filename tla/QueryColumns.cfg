\* An INSERT that names its columns in another order.
SPECIFICATION Spec
CONSTANTS
  Byte = 16
  FixedSize <- MCFixedSize
  TrueText <- MCTrueText
  FalseText <- MCFalseText
  Keywords <- MCKeywords
  DoubleWord <- MCDouble
  PrecisionWord <- MCPrecision
  MaxU32 = 9
  Thread = {t1, t2}
  Texts <- MCTexts
  TypeNames <- MCTypeNames
  MaxInserts = 2
  MaxRows = 3
  NoTuple = NoTuple
  NoStatement = NoStatement
SYMMETRY ThreadSymmetry
INVARIANT InsertsByName
