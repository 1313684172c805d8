SPECIFICATION Spec
CHECK_DEADLOCK FALSE
CONSTANTS
  LINE_LENGTH = 6
  SizeValues = 64
  WordLength = {1, 2, 3, 5, 6, 7}
  LongestWord = 7
  MaxWords = 6
INVARIANTS
  TypeOK
  LinesFit
  LinesAreFilled
  LongWordEndsWrapping
  ShowsTheEnd
