SPECIFICATION Spec
CONSTANTS
  a = a
  b = b
  blank = blank
  Chars <- CharSet
  Space <- SpaceSet
  Texts <- TextSet
  Lists <- ListSet
  Delimiters <- DelimiterSet
  News <- NewSet
PROPERTIES
  JoinUndoesSplit
  SplitUndoesJoin
  SameSteps
  ReplaceIsSplitAndJoin
