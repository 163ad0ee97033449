------------------------------ MODULE DhfFile -------------------------------
(***************************************************************************)
(* Tuples on their way through a dhf file: DhfWriter, which describes a    *)
(* tuple once and then writes its cells by position, and DhfReader.        *)
(*                                                                         *)
(* The text is a sequence of items: commas, ends of lines, descriptions    *)
(* ("P"), the beginnings of rows ("D") and cells.  What happens to the     *)
(* text of a value is in MultiType; here it is a number, or Empty for an   *)
(* empty string.                                                           *)
(***************************************************************************)
EXTENDS Tuples

CONSTANTS
  Order,    \* the names and the columns in the order of a std::map, each once
  Empty     \* the value that is an empty string

Item(item, name, value, descr, columns) ==
  [item |-> item, name |-> name, value |-> value, descr |-> descr, columns |-> columns]

Comma == Item(",", "", 0, "", NoEntries)
NewLine == Item("newline", "", 0, "", NoEntries)
Row(name) == Item("D", name, 0, "", NoEntries)
Prototype(name, descr, columns) == Item("P", name, 0, descr, columns)

\* An empty string leaves nothing between its commas.
Cell(v) == IF v = Empty THEN <<>> ELSE <<Item("cell", "", v, "", NoEntries)>>

\* "DHF0.1", which begins like a row.
Signature == <<Row("HF0.1"), NewLine>>

Sorted(S) == SelectSeq(Order, LAMBDA n : n \in S)
-----------------------------------------------------------------------------
(***************************************************************************)
(* The writer.  What it has described is a set of paths.                   *)
(***************************************************************************)
RowDescription(row, c) == IF c \in DOMAIN row.descrs THEN row.descrs[c] ELSE ""

\* The first filled row stands for all.  A nested tuple is described on a line of
\* its own.
\* Variant: it counts as described before there is a row to describe it by.
RECURSIVE DescribedEmpty(_, _, _)
DescribedEmpty(t, prefix, described) ==
  IF t.rows = <<>> THEN [text |-> <<>>, described |-> described \cup {Append(prefix, t.name)}]
  ELSE LET row == Head(t.rows)
           columns == [c \in DOMAIN row.simple \cup DOMAIN row.nested |-> RowDescription(row, c)]
       IN [text |-> <<Prototype(t.name, t.descr, columns), NewLine>>,
           described |-> described \cup {Append(prefix, t.name)}]

RECURSIVE Described(_, _, _)
Described(t, prefix, described) ==
  IF t.rows = <<>> THEN [text |-> <<>>, described |-> described]
  ELSE LET row == Head(t.rows)
           columns == [c \in DOMAIN row.simple \cup DOMAIN row.nested |-> RowDescription(row, c)]
           Below(sofar, n) ==
             LET nested == row.nested[n]
                 d == Described(nested, Append(prefix, n), sofar.described)
             IN IF Append(Append(prefix, n), nested.name) \in sofar.described THEN sofar
                ELSE [text |-> sofar.text \o d.text, described |-> d.described]
           all == FoldLeft(Below, [text |-> <<Prototype(t.name, t.descr, columns), NewLine>>,
                                   described |-> described],
                           Sorted(DOMAIN row.nested))
       IN [all EXCEPT !.described = @ \cup {Append(prefix, t.name)}]

\* The rows of a nested tuple are written into the line of their row, which the
\* first of them ends.
RECURSIVE TupleText(_), RowText(_, _)
TupleText(t) ==
  LET rows == RowsOf(t)
  IN FlattenSeq([i \in DOMAIN rows |-> RowText(rows[i], t.name)])

RowText(row, name) ==
  LET columns == Sorted(DOMAIN row.simple)
      nested == Sorted(DOMAIN row.nested)
  IN <<Row(name)>>
       \o FlattenSeq([i \in DOMAIN columns |-> <<Comma>> \o Cell(row.simple[columns[i]])])
       \o FlattenSeq([i \in DOMAIN nested |-> <<Comma>> \o TupleText(row.nested[nested[i]])])
       \o <<NewLine>>

\* save(): what is written, and what is described then.
Saved(t, described) ==
  LET d == IF <<t.name>> \in described THEN [text |-> <<>>, described |-> described]
           ELSE Described(t, <<>>, described)
  IN [d EXCEPT !.text = @ \o TupleText(t)]
-----------------------------------------------------------------------------
(***************************************************************************)
(* The reader: the prototypes it has met, its current tuple, and what it   *)
(* has returned.                                                           *)
(***************************************************************************)
NewReader == [prototypes |-> NoEntries, tuple |-> NewTuple(""), out |-> <<>>]

RECURSIVE LinesOf(_)
LinesOf(text) ==
  LET end == SelectInSeq(text, LAMBDA i : i = NewLine)
  IN IF end = 0 THEN <<>>
     ELSE <<SubSeq(text, 1, end - 1)>> \o LinesOf(SubSeq(text, end + 1, Len(text)))

\* Variant: a tuple that was not described keeps the description before it.
NamedAsBefore(t, name, descr) == [t EXCEPT !.name = name, !.descr = IF descr = "" THEN @ ELSE descr]

Named(t, name, descr) == [t EXCEPT !.name = name, !.descr = descr]

\* The tokens are matched with the columns of the prototype by their position, and
\* those that are empty are not there.  A row with too few is not filled.
ReadRow(reader, line) ==
  LET tokens == SelectSeq(line, LAMBDA i : i # Comma)
      name == Head(tokens).name
      cells == Tail(tokens)
      prototype == reader.prototypes[name]
      columns == Sorted(DOMAIN prototype.columns)
      Copied(t, i) ==
        IF cells[i].item = "D" THEN Put(t, <<cells[i].name>>, "status" :> 1, NoEntries)
        ELSE LET set == Put(t, <<>>, columns[i] :> cells[i].value, NoEntries)
                 descr == prototype.columns[columns[i]]
             IN IF descr = "" THEN set ELSE Describe(set, descr, <<columns[i]>>)
      copied == FoldLeft(Copied, Named(reader.tuple, name, prototype.descr),
                         [i \in 1..Min({Len(columns), Len(cells)}) |-> i])
  IN IF name \notin DOMAIN reader.prototypes THEN reader.tuple
     ELSE IF Len(cells) < Len(columns) THEN copied ELSE Fill(copied, <<>>)

\* Variant: the rows of the tuple before are still there.
ReadLineUncleared(reader, line) ==
  IF line = <<>> \/ Head(line).item \notin {"P", "D"} THEN reader
  ELSE IF Head(line).item = "P"
  THEN [reader EXCEPT !.prototypes =
          (Head(line).name :> [descr |-> Head(line).descr, columns |-> Head(line).columns]) @@ @]
  ELSE LET t == ReadRow(reader, line)
       IN [reader EXCEPT !.tuple = t, !.out = Append(@, t)]

ReadLine(reader, line) ==
  IF line = <<>> \/ Head(line).item \notin {"P", "D"} THEN reader
  ELSE IF Head(line).item = "P"
  THEN [reader EXCEPT !.prototypes =
          (Head(line).name :> [descr |-> Head(line).descr, columns |-> Head(line).columns]) @@ @]
  ELSE LET t == ReadRow([reader EXCEPT !.tuple.rows = <<>>], line)
       IN [reader EXCEPT !.tuple = t, !.out = Append(@, t)]

\* The first line is the signature, which openFile() skips; one that was appended is
\* read like a row.
Read(text) == FoldLeft(ReadLine, NewReader, Tail(LinesOf(text)))
=============================================================================
