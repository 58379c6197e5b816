\* Two statements of up to two rows, for a table of three rows; int32 has one
\* byte of 16 values and int64 two.
SPECIFICATION Spec
CONSTANTS
  Byte = 16
  FixedSize <- MCFixedSize
  TrueText <- MCTrueText
  FalseText <- MCFalseText
  Keywords <- MCKeywords
  DoubleWord <- MCDouble
  PrecisionWord <- MCPrecision
  MaxU32 = 9
  Thread = {t1, t2}
  Texts <- MCTexts
  TypeNames <- MCTypeNames
  MaxInserts = 2
  MaxRows = 3
  NoTuple = NoTuple
  NoStatement = NoStatement
SYMMETRY ThreadSymmetry
INVARIANTS TypeOK StoredRowsFit InsertsLeavePrefixes SelectsAreExact AnswersShowRows
