\* All plain command lines with one or two sources; the program ends.
SPECIFICATION Spec
CONSTANTS
  n1 = n1
  n2 = n2
  Names = {n1, n2}
  Files <- MCFiles
  CommandLines <- PlainLines
  NoName = NoName
  NoFilter = NoFilter
  NoReader = NoReader
PROPERTY CopiesInOrder
PROPERTY CopiesAll
CHECK_DEADLOCK FALSE
