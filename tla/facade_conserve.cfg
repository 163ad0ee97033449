\* Uniform rows, two tuples, a text file beside a root file, working merges.
SPECIFICATION Spec
CONSTANTS
  Columns <- MCColumns
  RootFiles = {r}
  TextFiles = {t}
  Names = {n1, n2}
  SavedRows <- UniformTypes
  FlushAfter = 2
  Merge = TRUE
  MergeMayFail = FALSE
  Backup = FALSE
  ConfigValues = {}
  MaxRows = 3
  Absent = Absent
  Null = Null
  NoFile = NoFile
  NoNtuple = NoNtuple
INVARIANT TypeOK
INVARIANT Conserved
INVARIANT CacheBounded
PROPERTY OnlyARecreatingOpenForgets
PROPERTY FlushedFilesAreMerged
