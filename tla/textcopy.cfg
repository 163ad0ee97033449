\* Tuples on their way through a text file and a manipulator.
SPECIFICATION Spec
CONSTANTS
  Names = {"m", "n"}
  Columns = {"x", "y"}
  Descriptions = {"d"}
  TopName = "t"
  Order <- MCOrder
  Paths <- MCPaths
  Manipulators <- MCManipulators
  MaxSets = 2
  MaxFills = 3
  MaxEdits = 1
INVARIANTS
  TypeOK
  RoundTrip
  NothingLeft
  DescriptionsKept
  ManipulatedAsAsked
