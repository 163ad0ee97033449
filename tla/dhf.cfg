\* Tuples on their way through a dhf file.
SPECIFICATION Spec
CONSTANTS
  Names = {"n"}
  Columns = {"x", "y"}
  Descriptions = {"d"}
  TopNames = {"s", "t"}
  Order <- MCOrder
  Empty = 99
  Ways <- MCWays
  MaxRows = 2
  MaxSaves = 3
  MaxDescribes = 1
  MaxOthers = 1
INVARIANTS
  TypeOK
  RowsComeBack
  DescriptionsComeBack
CHECK_DEADLOCK FALSE
