\* Destinations of one and of several sinks.
SPECIFICATION Spec
CONSTANTS
  Pieces <- MCPieces
  Destinations <- MCDestinationSet
  Earlier = {"a", "b", "x"}
  Separator = ";"
  Escaped = "escaped"
  MaxRows = 3
  MaxOpens = 4
INVARIANTS
  TypeOK
  EverySinkGetsEveryRow
  GzipRowsAreSomewhere
PROPERTY OnlyOpeningForgets
CHECK_DEADLOCK FALSE
