\* Rows of every shape, backups, merges that may fail, a mode set by the user.
SPECIFICATION Spec
CONSTANTS
  Columns <- MCColumns
  RootFiles = {r}
  TextFiles = {t}
  Names = {n1}
  SavedRows <- MixedRows
  FlushAfter = 2
  Merge = TRUE
  MergeMayFail = TRUE
  Backup = TRUE
  ConfigValues = {"Append"}
  MaxRows = 4
  Absent = Absent
  Null = Null
  NoFile = NoFile
  NoNtuple = NoNtuple
INVARIANT InOrder
