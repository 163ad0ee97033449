------------------------------ MODULE TextLines ------------------------------
(***************************************************************************)
(* Tuples on their way through a text file: CommentsExpresser and          *)
(* TextWriter::save() on the one side, TextReader::addLine() and           *)
(* CommentsCollector on the other.  A line is the path before its last     *)
(* colon, its cells and how it ends; what happens to the text of a value   *)
(* is in MultiType.                                                        *)
(***************************************************************************)
EXTENDS Tuples

CONSTANT Order      \* the names and the columns in the order of a std::map, each once

\* "a:b: x=1;", which leaves the row open, "a:b: x=1.", which fills it, and
\* "a:b:fill".
Line(at, simple, notes, end) == [at |-> at, simple |-> simple, notes |-> notes, end |-> end]
-----------------------------------------------------------------------------
(***************************************************************************)
(* Comments.                                                               *)
(***************************************************************************)
\* Variant: only the first row is expressed.
RECURSIVE ExpressedFirst(_)
ExpressedFirst(t) ==
  LET noted(row) == {c \in DOMAIN row.simple \cup {""} : GetDescription(t, c) # ""}
      ExpressedRow(row) ==
        [row EXCEPT !.notes = [c \in noted(row) |-> GetDescription(t, c)] @@ @,
                    !.nested = [n \in DOMAIN @ |-> ExpressedFirst(@[n])]]
  IN [t EXCEPT !.rows = [i \in DOMAIN @ |-> IF i = 1 THEN ExpressedRow(@[i]) ELSE @[i]]]

\* The notes on the filled rows; the current one gets none.
RECURSIVE Expressed(_)
Expressed(t) ==
  LET noted(row) == {c \in DOMAIN row.simple \cup {""} : GetDescription(t, c) # ""}
      ExpressedRow(row) ==
        [row EXCEPT !.notes = [c \in noted(row) |-> GetDescription(t, c)] @@ @,
                    !.nested = [n \in DOMAIN @ |-> Expressed(@[n])]]
  IN [t EXCEPT !.rows = [i \in DOMAIN @ |-> ExpressedRow(@[i])]]

RECURSIVE Collected(_)
Collected(t) ==
  LET CollectedRow(row) ==
        LET noted == DOMAIN row.notes \ {""}
            columns == [row EXCEPT !.notes = NoEntries,
                          !.descrs = Restrict(row.notes, noted \cap DOMAIN row.simple) @@ @]
            described == FoldSet(LAMBDA c, r : DescribeRow(r, row.notes[c], <<c>>),
                                 columns, noted \ DOMAIN row.simple)
        IN [described EXCEPT !.nested = [n \in DOMAIN @ |-> Collected(@[n])]]
      tagged == {i \in DOMAIN t.rows : "" \in DOMAIN t.rows[i].notes}
  IN [t EXCEPT !.rows = [i \in DOMAIN @ |-> CollectedRow(@[i])],
               !.descr = IF tagged = {} THEN @ ELSE t.rows[Max(tagged)].notes[""]]
-----------------------------------------------------------------------------
(***************************************************************************)
(* The writer.                                                             *)
(***************************************************************************)
Sorted(S) == SelectSeq(Order, LAMBDA n : n \in S)

\* The lines of a tuple whose name is the last of path, and of a row of it.
RECURSIVE Lines(_, _), RowLines(_, _)
Lines(t, prefix) ==
  LET rows == RowsOf(Expressed(t))
  IN FlattenSeq([i \in DOMAIN rows |-> RowLines(rows[i], Append(prefix, t.name))])

\* Variant: the short form also for a row with nested tuples.
RowLinesShort(row, at) ==
  LET names == Sorted(DOMAIN row.nested)
      data == Line(at, row.simple, row.notes, ".")
  IN (IF DOMAIN row.simple \cup DOMAIN row.notes = {} THEN <<>> ELSE <<data>>)
       \o FlattenSeq([i \in DOMAIN names |-> Lines(row.nested[names[i]], at)])

\* Variant: no fill for a row of nested tuples only.
RowLinesUnfilled(row, at) ==
  LET short == DOMAIN row.nested = {}
      names == Sorted(DOMAIN row.nested)
      data == Line(at, row.simple, row.notes, IF short THEN "." ELSE ";")
      flat == DOMAIN row.simple \cup DOMAIN row.notes
  IN (IF flat = {} THEN <<>> ELSE <<data>>)
       \o FlattenSeq([i \in DOMAIN names |-> Lines(row.nested[names[i]], at)])
       \o (IF short \/ flat = {} THEN <<>> ELSE <<Line(at, NoEntries, NoEntries, "fill")>>)

RowLines(row, at) ==
  LET short == DOMAIN row.nested = {}
      names == Sorted(DOMAIN row.nested)
      data == Line(at, row.simple, row.notes, IF short THEN "." ELSE ";")
  IN (IF DOMAIN row.simple \cup DOMAIN row.notes = {} THEN <<>> ELSE <<data>>)
       \o FlattenSeq([i \in DOMAIN names |-> Lines(row.nested[names[i]], at)])
       \o (IF short THEN <<>> ELSE <<Line(at, NoEntries, NoEntries, "fill")>>)

\* Expressing the comments casts the const away: the user's tuple has the notes
\* afterwards, in its rows and in what is nested in the current one.
RECURSIVE Saved(_)
Saved(t) ==
  [Expressed(t) EXCEPT !.cur.nested = [n \in DOMAIN @ |-> Saved(@[n])]]
-----------------------------------------------------------------------------
(***************************************************************************)
(* The reader.  Its state is the tuple it has in hand.                     *)
(***************************************************************************)
AddLine(inHand, line) ==
  LET path == Tail(line.at)
      t == IF inHand.name = Head(line.at) THEN inHand ELSE NewTuple(Head(line.at))
  IN CASE line.end = "fill" -> [tuple |-> Fill(t, path), done |-> path = <<>>]
       [] line.end = "."    -> [tuple |-> Fill(Put(t, path, line.simple, line.notes), path),
                                done |-> path = <<>>]
       [] line.end = ";"    -> [tuple |-> Put(t, path, line.simple, line.notes), done |-> FALSE]

RECURSIVE Read(_, _)
\* What a reader with that tuple in hand has read after the lines: the tuples
\* as they were parsed, and what it has in hand then.
Read(inHand, lines) ==
  IF lines = <<>> THEN [out |-> <<>>, inHand |-> inHand]
  ELSE LET added == AddLine(inHand, Head(lines))
           later == Read(IF added.done THEN NewTuple("") ELSE added.tuple, Tail(lines))
       IN IF added.done THEN [later EXCEPT !.out = <<added.tuple>> \o @] ELSE later

Delivered(tuples) == [i \in DOMAIN tuples |-> Collected(tuples[i])]
=============================================================================
