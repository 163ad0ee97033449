\* A text file alone and a composite over the other backends; the program
\* ends where a broken line or a composite beyond its end ends it.
SPECIFICATION Spec
CONSTANTS
  n1 = n1
  n2 = n2
  Names = {n1, n2}
  Files <- MCFiles
  Sources <- Mixed
  NoName = NoName
  NoFilter = NoFilter
  NoReader = NoReader
  MaxGot = 9
INVARIANT TypeOK
INVARIANT DeliversInOrder
INVARIANT NonePassedOver
INVARIANT TuplesAreWhole
CHECK_DEADLOCK FALSE
