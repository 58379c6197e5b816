\* int64 goes to 127 and a type parameter to 9. The writing ends, so there is no
\* next state.
SPECIFICATION Spec
CONSTANTS
  Byte = 16
  FixedSize <- MCFixedSize
  TrueText <- MCTrueText
  FalseText <- MCFalseText
  Keywords <- MCKeywords
  DoubleWord <- MCDouble
  PrecisionWord <- MCPrecision
  MaxU32 = 9
  Plans <- MCPlans
CHECK_DEADLOCK FALSE
INVARIANTS LexesLongestMatch EscapesUndone ParsesGrammar
