------------------------------ MODULE TextCopy ------------------------------
(***************************************************************************)
(* A user who fills a tuple and saves it to a text file, and a reader of   *)
(* that file.                                                              *)
(***************************************************************************)
EXTENDS Manipulator

CONSTANTS
  MaxSets,        \* bound on the values the user sets, which are numbered
  MaxFills,       \* bound on the calls of fill
  TopName,        \* the name of the tuple
  Paths,          \* the nested tuples that the user fills
  Manipulators,   \* manipulators a reader is given
  MaxEdits        \* bound on the calls that describe, edit, copy or clear

ASSUME TextCopyAssumption ==
  /\ Paths \subseteq Seq(Names) /\ "" \notin Descriptions
  /\ ToSet(Order) = Names \cup Columns /\ Names \cap Columns = {}

VARIABLES
  tuple,       \* the user's tuple
  inHand,      \* the reader's current tuple
  calls        \* how many calls of each bounded kind there were

vars == <<tuple, inHand, calls>>
-----------------------------------------------------------------------------
Init ==
  /\ tuple = NewTuple(TopName) /\ inHand = NewTuple("")
  /\ calls = [sets |-> 0, fills |-> 0, edits |-> 0]

\* tuple[path + c] = v, another value each time.
Set ==
  /\ calls.sets < MaxSets /\ calls' = [calls EXCEPT !.sets = @ + 1]
  /\ \E path \in Paths, c \in Columns :
       tuple' = Put(tuple, path, c :> calls'.sets, NoEntries)
  /\ UNCHANGED inHand

FillRow ==
  /\ calls.fills < MaxFills /\ calls' = [calls EXCEPT !.fills = @ + 1]
  /\ \E path \in Paths : tuple' = Fill(tuple, path)
  /\ UNCHANGED inHand

Edits(t) ==
  /\ calls.edits < MaxEdits /\ calls' = [calls EXCEPT !.edits = @ + 1]
  /\ tuple' = t
  /\ UNCHANGED inHand

DescribeTuple == \E path \in Paths, d \in Descriptions : Edits(Describe(tuple, d, path))

DescribeColumn == \E path \in Paths, c \in Columns, d \in Descriptions :
                    Edits(Describe(tuple, d, Append(path, c)))

CollectAll == \E c \in Columns : Edits(GetAll(tuple, c))

\* tuple.add() of a row the tuple has.
AddCopy == \E i \in DOMAIN tuple.rows : Edits([tuple EXCEPT !.rows = Append(@, @[i])])

Erase ==
  \E i \in DOMAIN tuple.rows :
    \/ \E c \in Columns : Edits([tuple EXCEPT !.rows[i].simple = Without(@, c)])
    \/ \E n \in Names : Edits([tuple EXCEPT !.rows[i].nested = Without(@, n)])

RenameColumn ==
  \E i \in DOMAIN tuple.rows, from \in Columns, to \in Columns :
    Edits([tuple EXCEPT !.rows[i].simple = Renamed(@, from, to)])

\* The nested tuple is found under the new name and keeps its own.
RenameNested ==
  \E i \in DOMAIN tuple.rows, from \in Names, to \in Names :
    Edits([tuple EXCEPT !.rows[i].nested = Renamed(@, from, to)])

Clear == Edits([tuple EXCEPT !.rows = <<>>])

Save ==
  /\ tuple' = Saved(tuple)
  /\ inHand' = Read(inHand, Lines(tuple, <<>>)).inHand
  /\ UNCHANGED calls

Next ==
  \/ Set \/ FillRow \/ DescribeTuple \/ DescribeColumn \/ CollectAll \/ AddCopy
  \/ Erase \/ RenameColumn \/ RenameNested \/ Clear \/ Save

Spec == Init /\ [][Next]_vars
-----------------------------------------------------------------------------
Depth == 1 + Max({Len(path) : path \in Paths})

TypeOK == IsTuple(tuple, Depth) /\ IsTuple(inHand, Depth)

\* The rows of several tuples one behind the other.
AllRows(tuples) == FlattenSeq([i \in DOMAIN tuples |-> tuples[i].rows])

ReadBack == Delivered(Read(inHand, Lines(tuple, <<>>)).out)

\* What a user saves, the rows that nobody filled included, is read back: every
\* value in its column, row and nested tuple, in order and once, whatever was
\* saved to the file before.
RoundTrip ==
  WellNamed(tuple) =>
    LET back == ReadBack
    IN /\ Data(AllRows(back)) = Data(RowsOf(tuple))
       /\ \A i \in DOMAIN back : back[i].name = TopName

\* A save ends with a complete tuple: the reader has nothing in hand.
NothingLeft == inHand = NewTuple("")

HasData(row) == Data(<<row>>) # <<>>

\* How the columns of the rows of a tuple, and the tuples nested in them, are
\* described, where there is data.
RECURSIVE DescribedRows(_)
DescribedRows(t) ==
  LET column(row, c) ==
        IF GetDescription(t, c) # "" \/ c \notin DOMAIN row.descrs THEN GetDescription(t, c)
        ELSE row.descrs[c]
      described(row) ==
        [columns |-> [c \in DOMAIN row.simple |-> column(row, c)],
         nested |-> [n \in {n \in DOMAIN row.nested : Data(RowsOf(row.nested[n])) # <<>>} |->
                       [descr |-> row.nested[n].descr, rows |-> DescribedRows(row.nested[n])]]]
      rows == SelectSeq(t.rows, HasData)
  IN [i \in DOMAIN rows |-> described(rows[i])]

\* The descriptions of a tuple, of its columns and of what is nested in it
\* survive a save if all rows are filled, also if rows were filled, copied,
\* erased or saved before they were described.
DescriptionsKept ==
  WellNamed(tuple) /\ AllFilled(tuple) =>
    /\ FlattenSeq([i \in DOMAIN ReadBack |-> DescribedRows(ReadBack[i])]) = DescribedRows(tuple)
    /\ \A i \in DOMAIN ReadBack :
         Data(ReadBack[i].rows) # <<>> => ReadBack[i].descr = tuple.descr

\* A manipulator drops and renames what it was told to and leaves the other
\* filled rows as they are.
ManipulatedAsAsked ==
  WellNamed(tuple) =>
    \A m \in Manipulators :
      Data(RowsOf(Manipulate(m, tuple))) = Asked(m, Data(Filled(tuple).rows))

-----------------------------------------------------------------------------
(***************************************************************************)
(* What the documentation says, and the code does not keep.                *)
(***************************************************************************)
\* CommentsExpresser is the inverse operation to CommentsCollector: a tuple
\* that was read can be saved with all of its notes.  The one asks the current
\* row for the description of a column, the other describes the filled rows.
ExpresserInverts ==
  LET parsed == Read(inHand, Lines(tuple, <<>>)).out
  IN \A i \in DOMAIN parsed : \A j \in DOMAIN parsed[i].rows :
       Expressed(Collected(parsed[i])).rows[j].notes = parsed[i].rows[j].notes
=============================================================================
