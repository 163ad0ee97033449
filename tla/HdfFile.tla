------------------------------ MODULE HdfFile -------------------------------
(***************************************************************************)
(* Rows on their way through an hdf file: HdfWriter, with FlatData as it   *)
(* is by default, and HdfReader.                                           *)
(*                                                                         *)
(* A file holds data sets; a data set has a layout, which the first row    *)
(* decides, and records, each a sequence of bytes.  A byte is one of the   *)
(* digits of an int, of which it has fewer than 256; a character of a      *)
(* text; a part of a double; or NUL.                                       *)
(*                                                                         *)
(* A cell is [kind, val, len, asks]: val is its number, or tells texts     *)
(* apart, len is the length of its text and asks the number behind an "@"  *)
(* in it, -1 if there is none.  The name of a data set is the sequence of  *)
(* the names that underscores join.                                        *)
(***************************************************************************)
EXTENDS RowChecker, SequencesExt

CONSTANTS
  Declared,     \* column -> the length behind the "@" of its name, or -1
  Stripped,     \* column -> its name without the "@" and the length
  MaxString,    \* Helper:MaxStringLength
  ByteValues    \* how many values a byte has

ASSUME HdfAssumption ==
  /\ Declared \in [Columns -> (Nat \ {0}) \cup {-1}] /\ Stripped \in [Columns -> Columns]
  /\ \A c \in Columns : Declared[Stripped[c]] = -1 /\ (Declared[c] = -1 => Stripped[c] = c)
  /\ MaxString \in Nat \ {0} /\ ByteValues \in Nat \ {0, 1}

Cell(kind, val, len, asks) == [kind |-> kind, val |-> val, len |-> len, asks |-> asks]

IntBytes == 4
DoubleBytes == 8

\* The integers that fit an unsigned int.
IntValues == ByteValues ^ IntBytes

InOrder(S) == SetToSortSeq(S, LAMBDA a, b : a < b)
-----------------------------------------------------------------------------
(***************************************************************************)
(* The layout of a data set.                                               *)
(***************************************************************************)
StringLength(suggestion) ==
  IF suggestion = -1 \/ suggestion > MaxString THEN MaxString ELSE suggestion

\* computeBytes() and insertCompType() agree on it.
WidthOf(type, c) ==
  CASE type = "kString" -> StringLength(Declared[c])
    [] type = "kDouble64" -> DoubleBytes
    [] OTHER -> IntBytes

Offset(types, c) ==
  SumFunctionOnSet([d \in DOMAIN types |-> WidthOf(types[d], d)], {d \in DOMAIN types : d < c})

Size(types) == SumFunction([c \in DOMAIN types |-> WidthOf(types[c], c)])

\* Variant: a text is stored under its full name, as other cells are.
StoredAsDeclared(types, c) == c

\* insertCompType(): a text is stored under its name without the length, which the
\* member has as its size; other cells are under their full names.
StoredAs(types, c) == IF types[c] = "kString" THEN Stripped[c] ELSE c

\* A compound type does not take a second member of a name.
MembersApart(types) == IsInjective([c \in DOMAIN types |-> StoredAs(types, c)])

EmptyFile == [name \in {} |-> 0]

Byte(of, x, k) == [of |-> of, x |-> x, k |-> k]

\* Variant: every cell is taken for an int.
NewSetOfInts(row) ==
  LET types == Define([c \in DOMAIN row |-> row[c].kind])
  IN [tpl |-> types, types |-> types, rows |-> <<>>,
      raw |-> [i \in 1 .. IntBytes * Cardinality(DOMAIN row) |-> Byte("none", 0, 0)]]

\* createDataSet(): define() trims the types of the row itself.
NewSet(row) ==
  LET types == Define([c \in DOMAIN row |-> row[c].kind])
  IN [tpl |-> types, types |-> types, rows |-> <<>>,
      raw |-> [i \in 1 .. Size(types) |-> Byte("none", 0, 0)]]
-----------------------------------------------------------------------------
(***************************************************************************)
(* Writing a record.                                                       *)
(***************************************************************************)
\* Variant: no room is left for the NUL.
CutLate(cell) ==
  LET n == StringLength(cell.asks)
  IN IF n < 0 \/ n > cell.len THEN cell.len ELSE n

\* substr(0, string_length(asks) - 1), which takes all of it for a negative count.
Cut(cell) ==
  LET n == StringLength(cell.asks) - 1
  IN IF n < 0 \/ n > cell.len THEN cell.len ELSE n

\* The k-th digit of a number, two's complement.
Digit(v, k) == ((v % IntValues) \div ByteValues ^ (k - 1)) % ByteValues

BytesOf(type, cell) ==
  CASE type = "kString" ->
         [k \in 1 .. Cut(cell) |-> Byte(cell.kind, cell.val, k)] \o <<Byte("nul", 0, 0)>>
    [] type = "kDouble64" -> [k \in 1 .. DoubleBytes |-> Byte("real", cell.val, k)]
    [] OTHER -> [k \in 1 .. IntBytes |-> Byte("digit", Digit(cell.val, k), 0)]

\* Variant: behind a text the next cell begins.
AdvanceBehindText(type, c, bytes) == Len(bytes)

Advance(type, c, bytes) == WidthOf(type, c)

\* copyRawData(): every cell as its own type has it, the next one behind it.  What
\* goes beyond the record is undefined.
CopyRawData(set, row, types) ==
  LET Copied(sofar, c) ==
        LET bytes == BytesOf(types[c], row[c])
            at    == sofar.at
        IN [at    |-> at + Advance(types[c], c, bytes),
            over  |-> sofar.over \/ at + Len(bytes) > Len(set.raw),
            raw   |-> [i \in DOMAIN set.raw |->
                         IF i - at \in DOMAIN bytes THEN bytes[i - at] ELSE sofar.raw[i]]]
  IN FoldLeft(Copied, [at |-> 0, over |-> FALSE, raw |-> set.raw], InOrder(DOMAIN row))

\* save() of a map to a data set: what becomes of the file, and of the program.
\* A data set without columns, or with two of a name, is refused with an exception
\* that nobody catches.
SaveMap(file, name, row) ==
  LET new   == name \notin DOMAIN file
      kinds == [c \in DOMAIN row |-> row[c].kind]
      types == IF new THEN Define(kinds) ELSE RawTypes(kinds)
      set   == IF new THEN NewSet(row) ELSE file[name]
      copy  == CopyRawData(set, row, types)
      kept  == [set EXCEPT !.tpl = TemplateAfter(@, types)]
      saved == [kept EXCEPT !.raw = copy.raw, !.rows = Append(@, copy.raw)]
  IN IF new /\ (DOMAIN row = {} \/ ~MembersApart(types)) THEN [file |-> file, runs |-> FALSE]
     ELSE IF ~Check(set.tpl, types) THEN [file |-> (name :> kept) @@ file, runs |-> TRUE]
     ELSE [file |-> (name :> saved) @@ file, runs |-> ~copy.over]

\* The rows that flatsave() makes of one: itself, and behind it those that are
\* nested in it, as rows of other data sets.
RECURSIVE Flat(_, _)
Flat(name, row) ==
  <<[name |-> name, cells |-> row.simple]>>
    \o FlattenSeq([i \in DOMAIN row.nested |->
                     Flat(Append(name, row.nested[i].name), row.nested[i].row)])

\* What becomes of the file and of the program when these rows are saved in turn.
SaveAll(file, rows) ==
  FoldLeft(LAMBDA sofar, r : IF sofar.runs THEN SaveMap(sofar.file, r.name, r.cells) ELSE sofar,
           [file |-> file, runs |-> TRUE], rows)
-----------------------------------------------------------------------------
(***************************************************************************)
(* Reading.  A cell that cannot be made out is Garbage, longer than any.   *)
(***************************************************************************)
Garbage(kind) == Cell(kind, 0, MaxString + 1, -1)

\* The high bytes of the long are zero; a bool is an int now.
Number(bytes) ==
  IF \E k \in DOMAIN bytes : bytes[k].of # "digit" THEN Garbage("int")
  ELSE Cell("int", SumFunction([k \in DOMAIN bytes |-> bytes[k].x * ByteValues ^ (k - 1)]), 0, -1)

Real(bytes) ==
  IF \E k \in DOMAIN bytes : bytes[k] # Byte("real", bytes[1].x, k) THEN Garbage("double")
  ELSE Cell("double", bytes[1].x, 0, -1)

\* trimType() makes a number of a text that looks like one.
Text(bytes) ==
  LET end  == SelectInSeq(bytes, LAMBDA b : b.of = "nul")
      kind == bytes[1].of
  IN IF end < 2 \/ kind \notin {"text", "numtext"}
        \/ \E k \in 1 .. end - 1 : bytes[k] # Byte(kind, bytes[1].x, k)
     THEN Garbage("text")
     ELSE IF kind = "numtext" THEN Cell("int", bytes[1].x, 0, -1)
     ELSE Cell("text", bytes[1].x, end - 1, -1)

GetMultiType(set, record, c) ==
  LET type  == set.types[c]
      at    == Offset(set.types, c)
      bytes == SubSeq(record, at + 1, at + WidthOf(type, c))
  IN CASE type = "kString" -> Text(bytes)
       [] type = "kDouble64" -> Real(bytes)
       [] OTHER -> Number(bytes)

\* Every member is read under the name it is stored as.
RetrieveRow(set, record) ==
  LET stored == [c \in DOMAIN set.types |-> StoredAs(set.types, c)]
  IN [name \in Range(stored) |->
        GetMultiType(set, record, CHOOSE c \in DOMAIN stored : stored[c] = name)]

\* The rows of one data set, in their order.
RowsIn(file, name) ==
  IF name \notin DOMAIN file THEN <<>>
  ELSE [i \in DOMAIN file[name].rows |-> RetrieveRow(file[name], file[name].rows[i])]

\* next() until it throws: the data sets in the order of their names.
Read(file, order) ==
  FlattenSeq([i \in DOMAIN order |->
    LET rows == RowsIn(file, order[i])
    IN [j \in DOMAIN rows |-> [name |-> order[i], cells |-> rows[j]]]])
=============================================================================
