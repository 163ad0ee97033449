\* The same sources with the option -b; the program ends.
SPECIFICATION Spec
CONSTANTS
  n1 = n1
  n2 = n2
  Names = {n1, n2}
  Files <- MCFiles
  CommandLines <- BarLines
  NoName = NoName
  NoFilter = NoFilter
  NoReader = NoReader
INVARIANT BarOnlyShows
CHECK_DEADLOCK FALSE
