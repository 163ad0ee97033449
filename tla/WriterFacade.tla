---------------------------- MODULE WriterFacade ----------------------------
(***************************************************************************)
(* The user frontend for writing: Writer::file / close, the global file    *)
(* mode, and the two kinds of backend it hands rows to:                    *)
(*   - text files (TextWriter), opened when the writer is built and        *)
(*     written row by row;                                                 *)
(*   - root files (RootWriter, RootDataCache, RootInternalNtuple), cached  *)
(*     in memory, opened at the first flush, and merged at the end by the  *)
(*     script dataharvester_merge.                                         *)
(* Rows are numbered in the order in which they are saved; row 0 stands    *)
(* for what a file held before the program started.                        *)
(***************************************************************************)
EXTENDS RowChecker, SequencesExt

CONSTANTS
  RootFiles, TextFiles,  \* file names, by the backend their suffix selects
  Names,                 \* the (valid) tuple names
  SavedRows,             \* the rows callers save
  FlushAfter,            \* RootWriter:FlushAfter
  Merge,                 \* RootWriter:Merge
  MergeMayFail,          \* may system("dataharvester_merge") fail?
  Backup,                \* Writer:Backup
  ConfigValues,          \* values a user gives to Mode:FileMode
  MaxRows,               \* bound: rows saved in a run
  Absent, Null,          \* no entry in myWriter / an entry that is 0
  NoFile, NoNtuple

Files == RootFiles \cup TextFiles

FileModes == {"Recreate", "Update"}

ASSUME FacadeAssumption ==
  /\ RootFiles \cap TextFiles = {}
  /\ SavedRows \subseteq Rows
  /\ FlushAfter \in Nat /\ MaxRows \in Nat
  /\ Merge \in BOOLEAN /\ MergeMayFail \in BOOLEAN /\ Backup \in BOOLEAN
  /\ Absent # Null

VARIABLES
  fileMode,     \* myFileMode of Mode.cc, one for the whole program
  configMode,   \* the configurable Mode:FileMode
  appendStatic, \* the function static of append() in RootWriter.cc
  writers,      \* myWriter of Writer.cc: file name -> writer
  disk,         \* the files
  backup,       \* the files named backup.<name>
  hist,         \* history of each file's latest writer, for the properties
  saved         \* the number of rows saved so far

vars == <<fileMode, configMode, appendStatic, writers, disk, backup, hist,
          saved>>

(***************************************************************************)
(* File contents: for each tuple name its rows in file order and, for root *)
(* files, the number of key cycles they are spread over.                   *)
(***************************************************************************)
Contents == [Names -> [rows : Seq(Nat), cycles : Nat]]

EmptyFile == [n \in Names |-> [rows |-> <<>>, cycles |-> 0]]

OldFile == [n \in Names |-> [rows |-> <<0>>, cycles |-> 1]]

ContentOf(file) == IF file = NoFile THEN EmptyFile ELSE file

\* What opening an existing or missing file in a mode leaves in it.
Opened(file, mode) == IF mode = "Recreate" THEN EmptyFile ELSE ContentOf(file)

Width(row) == Cardinality(DOMAIN row)

\* A row that only carries nested tuples has no simple data.
HasData(row) == DOMAIN row # {}

(***************************************************************************)
(* RootInternalNtuple: the header is the first row of the block; each row  *)
(* is kept with its number of columns.                                     *)
(***************************************************************************)
NewNtuple(row, id) ==
  [header |-> row, tpl |-> Define(row),
   rows |-> <<[id |-> id, width |-> Width(row)]>>]

\* RootInternalNtuple::add for a later row; the checker runs first.
AddRow(nt, row, id) ==
  [nt EXCEPT
     !.tpl  = TemplateAfter(nt.tpl, RawTypes(row)),
     !.rows = IF Check(nt.tpl, RawTypes(row))
              THEN Append(nt.rows, [id |-> id, width |-> Width(row)])
              ELSE nt.rows]

(***************************************************************************)
(* RootInternalNtuple::write stops at the first row whose size differs     *)
(* from the header's; the rows from there on never reach the tree.         *)
(***************************************************************************)
IsWritableLen(nt, k) ==
  /\ k \in 0 .. Len(nt.rows)
  /\ \A j \in 1 .. k : nt.rows[j].width = Width(nt.header)
  /\ k < Len(nt.rows) => nt.rows[k + 1].width # Width(nt.header)

Writable(nt) ==
  LET len == CHOOSE k \in 0 .. Len(nt.rows) : IsWritableLen(nt, k)
  IN  [j \in 1 .. len |-> nt.rows[j].id]

\* The cached rows of a tuple that a flush would write.
Pending(cache, n) == IF cache[n] = NoNtuple THEN <<>> ELSE Writable(cache[n])

EmptyCache == [n \in Names |-> NoNtuple]

\* theData.clear(): every ntuple's destructor writes its tree, a new cycle.
WithTrees(content, cache) ==
  [n \in Names |->
     IF cache[n] = NoNtuple THEN content[n]
     ELSE [rows   |-> content[n].rows \o Writable(cache[n]),
           cycles |-> content[n].cycles + 1]]

(***************************************************************************)
(* Writers.  "at" says where the open stream or TFile points: nowhere yet, *)
(* to the file of that name, or to a file that was renamed to backup.f     *)
(* under it.  Text writers use no other field.                             *)
(***************************************************************************)
NewWriter(at) ==
  [at |-> at, items |-> 0, flushed |-> FALSE, needsSave |-> FALSE,
   cache |-> EmptyCache]

IsLive(f) == writers[f] \notin {Absent, Null}

\* Variant: a missing "if (theRootFile)" opens the file at every flush.
OpensAlways(at) == TRUE

\* openFile() opens, in the global mode, unless the writer has a TFile already.
Opens(at) == at = "nowhere"

\* Variant: the cache is not cleared.
CacheLeft(cache) == cache

\* theData.clear() behind the writing.
Cleared(cache) == EmptyCache

(***************************************************************************)
(* RootDataCache::write on writer w: the backup (of whatever carries the   *)
(* name now), openFile() in the mode of this moment, and the trees.        *)
(* [w, file, bak, opened] after the call; opened: openFile() opened it.    *)
(***************************************************************************)
Flush(w, file, bak) ==
  LET renames == Backup /\ file # NoFile
      file1   == IF renames THEN NoFile ELSE file
      bak1    == IF renames THEN file ELSE bak
      at1     == IF renames /\ w.at = "file" THEN "backup" ELSE w.at
      opens   == Opens(at1)
      file2   == IF opens THEN Opened(file1, fileMode) ELSE file1
      done    == [w EXCEPT !.at = IF opens THEN "file" ELSE at1,
                           !.cache = Cleared(@), !.needsSave = FALSE]
  IN  IF ~w.needsSave
      THEN [w |-> w, file |-> file, bak |-> bak, opened |-> FALSE]
      ELSE IF done.at = "file"
      THEN [w |-> done, file |-> WithTrees(file2, w.cache), bak |-> bak1,
            opened |-> opens]
      ELSE [w |-> done, file |-> file2, bak |-> WithTrees(bak1, w.cache),
            opened |-> opens]

-----------------------------------------------------------------------------
NoHistory(f) == [asked |-> "none", openedAs |-> "none",
                 before |-> ContentOf(disk[f]),
                 accepted |-> [n \in Names |-> <<>>]]

Init ==
  /\ fileMode = "Recreate" /\ configMode = "Recreate"
  /\ appendStatic = "unset"
  /\ writers = [f \in Files |-> Absent]
  /\ disk \in [Files -> {NoFile, OldFile}]
  /\ backup = [f \in Files |-> NoFile]
  /\ hist = [f \in Files |-> NoHistory(f)]
  /\ saved = 0

\* ConfigurationSetter::set, e.g. the option -o of the converter.
Configure(v) ==
  /\ configMode' = v
  /\ UNCHANGED <<fileMode, appendStatic, writers, disk, backup, hist, saved>>

\* Writer::file(f, m): the mode is set on every call, the writer built once.
File(f, m) ==
  /\ fileMode' = m
  /\ configMode' = IF m = "Update" THEN "Append" ELSE configMode
  /\ IF IsLive(f)
     THEN UNCHANGED <<writers, disk, hist>>
     ELSE LET eager == f \in TextFiles
          IN  /\ writers' = [writers EXCEPT
                   ![f] = NewWriter(IF eager THEN "file" ELSE "nowhere")]
              /\ disk' = [disk EXCEPT ![f] = IF eager THEN Opened(@, m) ELSE @]
              /\ hist' = [hist EXCEPT
                   ![f] = [NoHistory(f) EXCEPT
                             !.asked = m,
                             !.openedAs = IF eager THEN m ELSE "none"]]
  /\ UNCHANGED <<appendStatic, backup, saved>>

\* TextWriter::save of a row; one without simple data prints nothing.
SaveText(f, n, row) ==
  /\ f \in TextFiles /\ IsLive(f) /\ saved < MaxRows
  /\ saved' = saved + 1
  /\ IF ~HasData(row)
     THEN UNCHANGED <<disk, hist>>
     ELSE /\ disk' = [disk EXCEPT ![f][n].rows = Append(@, saved + 1)]
          /\ hist' = [hist EXCEPT ![f].accepted[n] = Append(@, saved + 1)]
  /\ UNCHANGED <<fileMode, configMode, appendStatic, writers, backup>>

\* RootInternalNtuple::add keeps the row; a new block keeps its first row.
Takes(w, n, row) ==
  w.cache[n] = NoNtuple \/ Check(w.cache[n].tpl, RawTypes(row))

\* Variant: find() is not asked, each row starts a block.
AddedAnew(w, n, row, id) == NewNtuple(row, id)

\* The block of n after RootDataCache::add.
Added(w, n, row, id) ==
  IF w.cache[n] = NoNtuple THEN NewNtuple(row, id)
  ELSE AddRow(w.cache[n], row, id)

\* Variant: off by one.
FlushTimeLate(w) == w.items + 1 > FlushAfter

\* theItemsInCache, the row that is being saved included, has reached the limit.
FlushTime(w) == w.items + 1 >= FlushAfter

\* RootWriter::save(map): every row counts, and the FlushAfter-th one flushes.
SaveRoot(f, n, row) ==
  /\ f \in RootFiles /\ IsLive(f) /\ saved < MaxRows
  /\ LET w    == writers[f]
         nt   == Added(w, n, row, saved + 1)
         full == FlushTime(w)
         w1   == [w EXCEPT !.cache[n] = nt, !.needsSave = TRUE,
                           !.items = IF full THEN 0 ELSE @ + 1,
                           !.flushed = @ \/ full]
         res  == IF full THEN Flush(w1, disk[f], backup[f])
                 ELSE [w |-> w1, file |-> disk[f], bak |-> backup[f],
                       opened |-> FALSE]
     IN  /\ writers' = [writers EXCEPT ![f] = res.w]
         /\ disk' = [disk EXCEPT ![f] = res.file]
         /\ backup' = [backup EXCEPT ![f] = res.bak]
         /\ hist' = [hist EXCEPT
              ![f].openedAs = IF res.opened THEN fileMode ELSE @,
              ![f].accepted[n] =
                IF HasData(row) /\ Takes(w, n, row) THEN Append(@, saved + 1)
                ELSE @]
  /\ saved' = saved + 1
  /\ UNCHANGED <<fileMode, configMode, appendStatic>>

(***************************************************************************)
(* The destructors.  append() reads Mode:FileMode at its first call only,  *)
(* and is not called when merging is off or a flush happened anyway.       *)
(***************************************************************************)
AsksAppend(f) == f \in RootFiles /\ IsLive(f) /\ Merge /\ ~writers[f].flushed

\* Variant: the mode itself for what append() makes of it.
ModeAsValue == configMode

AppendValue ==
  IF appendStatic = "unset" THEN (IF configMode = "Append" THEN "yes" ELSE "no")
  ELSE appendStatic

\* Variant: only append mode merges.
MergesAppended(f) == f \in RootFiles /\ Merge /\ AppendValue = "yes"

Merges(f) ==
  /\ f \in RootFiles /\ Merge
  /\ writers[f].flushed \/ AppendValue = "yes"

\* dataharvester_merge -i f -o f: touches nothing unless some name has two
\* cycles; then all the cycles of each name become one, rows in cycle order.
Merged(file) ==
  IF file = NoFile \/ \A n \in Names : file[n].cycles < 2 THEN file
  ELSE [n \in Names |->
          [file[n] EXCEPT !.cycles = IF @ > 1 THEN 1 ELSE @]]

\* What ~RootWriter or ~TextWriter leaves of the file and its backup.
Destroyed(f, mergeWorks) ==
  IF f \in TextFiles
  THEN [file |-> disk[f], bak |-> backup[f], opened |-> FALSE]
  ELSE LET res == Flush(writers[f], disk[f], backup[f])
       IN  [file   |-> IF Merges(f) /\ mergeWorks THEN Merged(res.file)
                       ELSE res.file,
            bak    |-> res.bak,
            opened |-> res.opened]

\* Close the live writers of S; myWriter keeps "left" for every file of T.
CloseFiles(S, T, left, broken) ==
  LET res == [f \in S |-> Destroyed(f, f \notin broken)]
  IN  /\ writers' = [f \in Files |-> IF f \in T THEN left ELSE writers[f]]
      /\ disk' = [f \in Files |-> IF f \in S THEN res[f].file ELSE disk[f]]
      /\ backup' = [f \in Files |-> IF f \in S THEN res[f].bak ELSE backup[f]]
      /\ hist' = [f \in Files |->
                    IF f \in S /\ res[f].opened
                    THEN [hist[f] EXCEPT !.openedAs = fileMode] ELSE hist[f]]
      /\ appendStatic' =
           IF \E f \in S : AsksAppend(f) THEN AppendValue ELSE appendStatic
      /\ UNCHANGED <<fileMode, configMode, saved>>

BrokenMerges == IF MergeMayFail THEN SUBSET RootFiles ELSE {{}}

\* Writer::close(filename): operator[] leaves a null entry in any case.
Close(f) ==
  \E broken \in BrokenMerges :
    CloseFiles(IF IsLive(f) THEN {f} ELSE {}, {f}, Null, broken)

\* Writer::close(): deletes every writer and clears the map.
CloseAll ==
  \E broken \in BrokenMerges :
    CloseFiles({f \in Files : IsLive(f)}, Files, Absent, broken)

Next ==
  \/ \E v \in ConfigValues : Configure(v)
  \/ \E f \in Files, m \in FileModes : File(f, m)
  \/ \E f \in Files, n \in Names, row \in SavedRows :
       SaveText(f, n, row) \/ SaveRoot(f, n, row)
  \/ \E f \in Files : Close(f)
  \/ CloseAll

Spec == Init /\ [][Next]_vars

-----------------------------------------------------------------------------
(***************************************************************************)
(* Types.                                                                  *)
(***************************************************************************)
Ntuple == [header : Rows, tpl : Templates,
           rows : Seq([id : Nat, width : Nat])]

Writer == [at : {"nowhere", "file", "backup"}, items : Nat,
           flushed : BOOLEAN, needsSave : BOOLEAN,
           cache : [Names -> Ntuple \cup {NoNtuple}]]

History == [asked : FileModes \cup {"none"}, openedAs : FileModes \cup {"none"},
            before : Contents, accepted : [Names -> Seq(Nat)]]

\* The markers for "nothing here" are not mistaken for what they stand for.
ASSUME MarkersAssumption ==
  NoNtuple \notin Ntuple /\ NoFile \notin Contents
  /\ Absent \notin Writer /\ Null \notin Writer

\* The type invariant of the writer map, the modes, the caches and the files.
TypeOK ==
  /\ fileMode \in FileModes
  /\ configMode \in ConfigValues \cup {"Recreate", "Append"}
  /\ appendStatic \in {"unset", "yes", "no"}
  /\ writers \in [Files -> Writer \cup {Absent, Null}]
  /\ disk \in [Files -> Contents \cup {NoFile}]
  /\ backup \in [Files -> Contents \cup {NoFile}]
  /\ hist \in [Files -> History]
  /\ saved \in Nat

-----------------------------------------------------------------------------
(***************************************************************************)
(* What the facade keeps.                                                  *)
(***************************************************************************)
UniformRows ==
  \A r, s \in SavedRows : HasData(r) /\ DOMAIN r = DOMAIN s

PendingRows(f, n) == IF IsLive(f) THEN Pending(writers[f].cache, n) ELSE <<>>

\* The rows that the latest writer of a file with history h started from.
Base(h, n) == IF h.openedAs = "Recreate" THEN <<>> ELSE h.before[n].rows

\* When all rows have the same columns and no backup is made, every row that
\* the checker accepted is on disk or cached, once and in the order of the
\* calls, behind what the opening of the file left in it: RootWriter's lazy
\* openFile(), its flushes, the clearing of its blocks, ~RootWriter and the
\* merge script neither lose, repeat nor reorder one.
Conserved ==
  (UniformRows /\ ~Backup) =>
    \A f \in Files, n \in Names :
      ContentOf(disk[f])[n].rows \o PendingRows(f, n)
        = Base(hist[f], n) \o hist[f].accepted[n]

CachedRows(w) ==
  UNION {{n} \X DOMAIN w.cache[n].rows : n \in {m \in Names : w.cache[m] # NoNtuple}}

\* RootWriter:FlushAfter bounds the memory of a root writer over all its
\* tuples together: fewer than that many rows are cached between two calls,
\* because theItemsInCache never falls behind the cache.
CacheBounded ==
  \A f \in RootFiles : IsLive(f) =>
    /\ Cardinality(CachedRows(writers[f])) <= writers[f].items
    /\ writers[f].items < FlushAfter \/ writers[f].items = 0

\* Rows reach every file, and every backup of one, in the order in which they
\* were saved and at most once, and a cached row is younger than all of them:
\* a block written by a flush is not written again by a later one or by
\* ~RootWriter.
InOrder ==
  \A f \in Files, n \in Names :
    LET pending == PendingRows(f, n)
        Sorted(s) == \A i, j \in 1 .. Len(s) : i < j => s[i] < s[j]
    IN  /\ Sorted(ContentOf(disk[f])[n].rows \o pending)
        /\ Sorted(ContentOf(backup[f])[n].rows \o pending)

\* Without backups a row disappears from a file only in the step that opens
\* the file in the mode Recreate for a new writer: not in a later flush, not
\* when the mode changes under an open writer, not in the merge.
OnlyARecreatingOpenForgets ==
  [][~Backup =>
      \A f \in Files :
        \/ \A n \in Names :
             IsPrefix(ContentOf(disk[f])[n].rows, ContentOf(disk'[f])[n].rows)
        \/ /\ hist'[f].openedAs = "Recreate"
           /\ hist[f].openedAs = "none" \/ ~IsLive(f)]_vars

\* "its flushing time, we merge": a root file whose writer flushed before it
\* was closed ends with one cycle for each tuple, provided the script works;
\* ~RootWriter writes the last block before it merges.
FlushedFilesAreMerged ==
  [][(Merge /\ ~MergeMayFail /\ ~Backup) =>
      \A f \in RootFiles :
        (IsLive(f) /\ writers[f].flushed /\ writers'[f] \in {Absent, Null})
          => \A n \in Names : ContentOf(disk'[f])[n].cycles <= 1]_vars

-----------------------------------------------------------------------------
(***************************************************************************)
(* What the documentation says, and the code does not keep.                *)
(***************************************************************************)
\* Writing in the mode Update keeps what the file held before.
UpdateKeepsOldRows ==
  \A f \in Files, n \in Names :
    hist[f].asked = "Update" =>
      IsPrefix(hist[f].before[n].rows, ContentOf(disk[f])[n].rows)

\* createBackup() creates a backup: what a file held before the program wrote
\* to it is in the file or in its backup.
BackupKeepsOldRows ==
  \A f \in Files, n \in Names :
    LET old == hist[f].before[n].rows
    IN  IsPrefix(old, ContentOf(disk[f])[n].rows)
          \/ IsPrefix(old, ContentOf(backup[f])[n].rows)

\* With merging on, a file written in append mode is merged when it is closed.
AppendedFilesAreMerged ==
  [][\A f \in RootFiles :
       (IsLive(f) /\ hist[f].asked = "Update" /\ writers'[f] \in {Absent, Null})
         => \A n \in Names : ContentOf(disk'[f])[n].cycles <= 1]_vars

\* Close writes all unwritten data: every row that was accepted is on disk.
CloseWritesAll ==
  \A f \in RootFiles, n \in Names :
    (~IsLive(f) /\ hist[f].openedAs = "Recreate") =>
      ToSet(hist[f].accepted[n]) \subseteq ToSet(ContentOf(disk[f])[n].rows)
=============================================================================
