\* Rows on their way through an hdf file.
SPECIFICATION Spec
CONSTANTS
  Columns = {0, 1, 2}
  Declared <- MCDeclared
  Stripped <- MCStripped
  MaxString = 4
  ByteValues = 2
  SavedRows <- MCSavedRows
  Order <- MCOrder
  Backup = TRUE
  NoFile = NoFile
  MaxRows = 4
  MaxOpens = 3
INVARIANTS
  TypeOK
  RowsComeBack
  PlainRowsStayInside
CHECK_DEADLOCK FALSE
