------------------------------- MODULE HdfCopy -------------------------------
(***************************************************************************)
(* A user who saves rows to an hdf file, opens it again in either mode,    *)
(* and reads it.                                                           *)
(***************************************************************************)
EXTENDS HdfFile

CONSTANTS
  SavedRows,    \* the rows a user saves: name, row
  Order,        \* the names of the data sets, as the library sorts them
  Backup,       \* Writer:Backup
  NoFile,
  MaxRows,      \* bound on the rows saved
  MaxOpens      \* bound on how often the file is opened

ASSUME HdfCopyAssumption ==
  /\ Backup \in BOOLEAN /\ MaxRows \in Nat /\ MaxOpens \in Nat
  /\ \A s \in SavedRows : \A r \in ToSet(Flat(s.name, s.row)) :
       r.name \in ToSet(Order) /\ DOMAIN r.cells \subseteq Columns

VARIABLES
  disk,       \* the file, and its backup
  running,    \* FALSE behind an exception nobody catches, or undefined behaviour
  hist,       \* the rows that went into each of the two: name, cells, is it plain
  calls       \* how many rows were saved and how often the file was opened

vars == <<disk, running, hist, calls>>

Init ==
  /\ disk = [file |-> NoFile, backup |-> NoFile]
  /\ running = TRUE
  /\ hist = [file |-> <<>>, backup |-> <<>>]
  /\ calls = [rows |-> 0, opens |-> 0]

Calls(kind, max) == calls[kind] < max /\ calls' = [calls EXCEPT ![kind] = @ + 1]
-----------------------------------------------------------------------------
(***************************************************************************)
(* The history: what a reader is to find.                                  *)
(***************************************************************************)
\* A value on its way through the file.
Expected(cell) ==
  CASE cell.kind = "text" -> Cell("text", cell.val, Min({cell.len, MaxString - 1}), -1)
    [] cell.kind = "double" -> Cell("double", cell.val, 0, -1)
    [] OTHER -> Cell("int", cell.val % IntValues, 0, -1)

TypesOf(file, r) ==
  LET kinds == [c \in DOMAIN r.cells |-> r.cells[c].kind]
  IN IF r.name \in DOMAIN file THEN RawTypes(kinds) ELSE Define(kinds)

\* Does the checker take the row?
IsTaken(file, r) == r.name \notin DOMAIN file \/ Check(file[r.name].tpl, TypesOf(file, r))

\* The texts of a row come back without the lengths in their names.
ExpectedCells(types, cells) ==
  LET back == [c \in DOMAIN cells |-> IF types[c] = "kString" THEN Stripped[c] ELSE c]
  IN [name \in Range(back) |-> Expected(cells[CHOOSE c \in DOMAIN cells : back[c] = name])]

\* A plain row has columns, which differ without their lengths, those of the first row,
\* doubles where that has them, and its texts have room in their columns and no
\* length in them.
IsPlain(file, r) ==
  /\ DOMAIN r.cells # {}
  /\ r.name \notin DOMAIN file =>
       \A c, d \in DOMAIN r.cells : Stripped[c] = Stripped[d] => c = d
  /\ r.name \in DOMAIN file => DOMAIN r.cells = DOMAIN file[r.name].types
  /\ r.name \in DOMAIN file => \A c \in DOMAIN r.cells :
       (TypesOf(file, r)[c] = "kDouble64") = (file[r.name].types[c] = "kDouble64")
  /\ \A c \in DOMAIN r.cells : TypesOf(file, r)[c] = "kString" =>
       /\ r.cells[c].asks = -1
       /\ Declared[c] \in 1 .. MaxString => r.cells[c].len < Declared[c]

\* Of a row that is not plain nothing is expected.
Noted(file, r) ==
  IF ~IsTaken(file, r) THEN <<>>
  ELSE LET plain == IsPlain(file, r)
       IN <<[name |-> r.name, plain |-> plain,
             cells |-> IF plain THEN ExpectedCells(TypesOf(file, r), r.cells) ELSE r.cells]>>

RECURSIVE AllNoted(_, _)
AllNoted(file, rows) ==
  IF rows = <<>> THEN <<>>
  ELSE Noted(file, Head(rows))
         \o AllNoted(SaveMap(file, Head(rows).name, Head(rows).cells).file, Tail(rows))

\* A row that is copied has to look like the first one once more: a text that reads
\* like a number does not, among texts.
Copied(old) ==
  LET Like(a, b) == [c \in DOMAIN a |-> a[c].kind] = [c \in DOMAIN b |-> b[c].kind]
      first(name) == SelectInSeq(old, LAMBDA s : s.name = name)
  IN [i \in DOMAIN old |->
        [name |-> old[i].name, cells |-> old[i].cells,
         plain |-> old[i].plain /\ Like(old[i].cells, old[first(old[i].name)].cells)]]
-----------------------------------------------------------------------------
(***************************************************************************)
(* The calls.                                                              *)
(***************************************************************************)
\* save() of a tuple, row by row.
Save ==
  /\ running /\ disk.file # NoFile /\ Calls("rows", MaxRows)
  /\ \E s \in SavedRows :
       LET rows  == Flat(s.name, s.row)
           saved == SaveAll(disk.file, rows)
       IN /\ disk' = [disk EXCEPT !.file = saved.file]
          /\ running' = saved.runs
          /\ hist' = [hist EXCEPT !.file = @ \o AllNoted(disk.file, rows)]

\* The old file is the backup.  The mode Update turns into this if there is no file.
Recreate ==
  /\ running /\ Calls("opens", MaxOpens)
  /\ disk' = [file |-> EmptyFile,
              backup |-> IF Backup /\ disk.file # NoFile THEN disk.file ELSE disk.backup]
  /\ hist' = [file |-> <<>>,
              backup |-> IF Backup /\ disk.file # NoFile THEN hist.file ELSE hist.backup]
  /\ UNCHANGED running

\* The file is truncated, and what comes back is the backup that some opening made
\* before; without one the program ends.
Update ==
  /\ running /\ disk.file # NoFile /\ Calls("opens", MaxOpens)
  /\ LET copy == IF disk.backup = NoFile THEN [file |-> EmptyFile, runs |-> FALSE]
                 ELSE SaveAll(EmptyFile, Read(disk.backup, Order))
     IN /\ disk' = [file |-> copy.file, backup |-> IF copy.runs THEN NoFile ELSE disk.backup]
        /\ running' = copy.runs
        /\ hist' = [file |-> IF disk.backup = NoFile THEN <<>> ELSE Copied(hist.backup),
                    backup |-> IF copy.runs THEN <<>> ELSE hist.backup]

Next == Save \/ Recreate \/ Update

Spec == Init /\ [][Next]_vars
-----------------------------------------------------------------------------
IsFile(file) ==
  \A name \in DOMAIN file :
    LET set == file[name]
    IN /\ name \in ToSet(Order)
       /\ set.tpl \in Templates /\ set.types \in Templates
       /\ \A record \in ToSet(set.rows) \cup {set.raw} : Len(record) = Size(set.types)

\* The type invariant: a record is as long as its layout.
TypeOK ==
  /\ \A which \in {"file", "backup"} : disk[which] # NoFile => IsFile(disk[which])
  /\ running \in BOOLEAN

\* Every row that the checker takes comes back once, in the order of its data set,
\* with every cell in its column, that of a text under its name without a length:
\* texts cut to what a column has room for, numbers modulo what an unsigned int
\* holds, from the file as from the backup, and as well after the backup was copied
\* into a file that is updated.  It needs plain rows: an int in a column of doubles,
\* which the checker takes, is narrower than it, and a row with a column more, which
\* it takes behind one that it refused, is longer than its record.
RowsComeBack ==
  running =>
    \A which \in {"file", "backup"}, name \in ToSet(Order) :
      LET rows == SelectSeq(hist[which], LAMBDA s : s.name = name)
      IN (\A i \in DOMAIN rows : rows[i].plain) =>
           RowsIn(IF disk[which] = NoFile THEN EmptyFile ELSE disk[which], name)
             = [i \in DOMAIN rows |-> rows[i].cells]

\* No plain row, however long its texts, writes beyond its record or ends the
\* program; an update without a backup does.
PlainRowsStayInside ==
  ~running => \/ disk = [file |-> EmptyFile, backup |-> NoFile]
              \/ \E i \in DOMAIN hist.file : ~hist.file[i].plain

\* The rows that a file's data sets take.
Fitting(file) ==
  {r \in UNION {ToSet(Flat(s.name, s.row)) : s \in SavedRows} :
     r.name \in DOMAIN file /\ IsTaken(file, r)}

\* What fits a data set of the old file fits it in the file that is updated.  It is
\* not so: copyOldData() saves what it reads, texts without the lengths of their
\* columns, so that the new layout is another.
UpdateKeepsWhatFits ==
  [][Update /\ running' => Fitting(disk.backup) \subseteq Fitting(disk'.file)]_vars
=============================================================================
