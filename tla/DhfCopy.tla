------------------------------- MODULE DhfCopy -------------------------------
(***************************************************************************)
(* A user who fills two tuples and saves them to a dhf file, which may be  *)
(* closed and opened again, and a reader of that file.                     *)
(***************************************************************************)
EXTENDS DhfFile

CONSTANTS
  TopNames,      \* the names of the user's tuples
  Ways,          \* the columns the user may set at a time: in which nested tuple, which, which empty
  MaxRows,       \* bound on how often that happens
  MaxSaves,      \* bound on the calls of save
  MaxDescribes,  \* bound on the calls that describe
  MaxOthers      \* bound on the calls that fill, clear or open

ASSUME DhfCopyAssumption ==
  /\ \A w \in Ways : w.path \in Seq(Names) /\ w.empty \subseteq w.columns /\ w.columns \subseteq Columns
  /\ "" \notin Descriptions /\ Empty \in Nat
  /\ ToSet(Order) = Names \cup Columns /\ Names \cap Columns = {}

VARIABLES
  tuples,      \* name -> the user's tuple
  text,        \* the contents of the file
  described,   \* theHasTupleDescription of the writer
  shown,       \* name -> the tuple when it was saved first with a filled row, since the file was opened
  saves,       \* the rows that were saved: name, cells, does the row fit, and its tuple when shown
  calls        \* how many calls of each bounded kind there were

vars == <<tuples, text, described, shown, saves, calls>>

Init ==
  /\ tuples = [n \in TopNames |-> NewTuple(n)]
  /\ text = Signature /\ described = {} /\ shown = [n \in TopNames |-> NewTuple(n)] /\ saves = <<>>
  /\ calls = [rows |-> 0, saves |-> 0, describes |-> 0, others |-> 0]

Calls(kind, max) == calls[kind] < max /\ calls' = [calls EXCEPT ![kind] = @ + 1]
FileUnchanged == UNCHANGED <<text, described, shown, saves>>

\* Some columns of the current row are set, each to another value, or to an empty
\* string, and the row may be filled.
SetRow ==
  /\ Calls("rows", MaxRows) /\ FileUnchanged
  /\ \E n \in TopNames, w \in Ways, filled \in BOOLEAN :
       LET value(c) == calls'.rows * Len(Order) + SelectInSeq(Order, LAMBDA o : o = c)
           cells == [c \in w.columns |-> IF c \in w.empty THEN Empty ELSE value(c)]
           set == Put(tuples[n], w.path, cells, NoEntries)
       IN tuples' = [tuples EXCEPT ![n] = IF filled THEN Fill(set, w.path) ELSE set]

FillTop ==
  /\ Calls("others", MaxOthers) /\ FileUnchanged
  /\ \E n \in TopNames : tuples' = [tuples EXCEPT ![n] = Fill(@, <<>>)]

\* describe() of the tuple itself, or of what has the name of a column.
DescribeTupleOrColumn ==
  /\ Calls("describes", MaxDescribes) /\ FileUnchanged
  /\ \E n \in TopNames, d \in Descriptions, path \in {<<>>} \cup {<<c>> : c \in Columns} :
       tuples' = [tuples EXCEPT ![n] = Describe(@, d, path)]

Clear ==
  /\ Calls("others", MaxOthers) /\ FileUnchanged
  /\ \E n \in TopNames : tuples' = [tuples EXCEPT ![n].rows = <<>>]

\* Does a row look like the first filled row that was saved of its tuple?
Fits(row, first) ==
  /\ first.rows # <<>> /\ DOMAIN row.simple = DOMAIN Head(first.rows).simple
  /\ DOMAIN row.nested = {} /\ DOMAIN Head(first.rows).nested = {}
  /\ Empty \notin Range(row.simple)

Save(n) ==
  /\ Calls("saves", MaxSaves)
  /\ LET saved == Saved(tuples[n], described)
         rows == RowsOf(tuples[n])
     IN /\ text' = text \o saved.text /\ described' = saved.described
        /\ shown' = IF shown[n].rows = <<>> THEN [shown EXCEPT ![n] = tuples[n]] ELSE shown
        /\ saves' = saves \o [i \in DOMAIN rows |->
             [name |-> n, cells |-> rows[i].simple, fits |-> Fits(rows[i], shown'[n]),
              shown |-> shown'[n]]]
  /\ UNCHANGED tuples

\* The writer is closed, and another opens the file.
Open(mode) ==
  /\ Calls("others", MaxOthers)
  /\ described' = {} /\ shown' = [n \in TopNames |-> NewTuple(n)]
  /\ IF mode = "recreate"
     THEN text' = Signature /\ saves' = <<>>
     ELSE text' = text \o Signature /\ UNCHANGED saves
  /\ UNCHANGED tuples

Next ==
  \/ SetRow \/ FillTop \/ DescribeTupleOrColumn \/ Clear
  \/ \E n \in TopNames : Save(n)
  \/ \E mode \in {"recreate", "append"} : Open(mode)

Spec == Init /\ [][Next]_vars
-----------------------------------------------------------------------------
Depth == 1 + Max({Len(w.path) : w \in Ways})

TypeOK ==
  /\ \A n \in TopNames : tuples[n].name = n /\ IsTuple(tuples[n], Depth)
  /\ Len(Read(text).tuple.rows) <= 1
  /\ \A i \in DOMAIN saves : saves[i].name \in TopNames

Back == SelectSeq(Read(text).out, LAMBDA t : t.rows # <<>>)

\* What is saved to a dhf file is read back, every cell in its column and every row
\* once and in order, whichever tuples were saved in between or were empty when
\* they were saved first, and however often the file was closed and appended to,
\* if every row has the columns of the first row of its tuple and no empty string.
RowsComeBack ==
  (\A i \in DOMAIN saves : saves[i].fits) =>
    LET back == Back
    IN [i \in DOMAIN back |-> [name |-> back[i].name, cells |-> back[i].rows[1].simple]]
         = [i \in DOMAIN saves |-> [name |-> saves[i].name, cells |-> saves[i].cells]]

\* Each of these rows is delivered with the descriptions that its tuple and its
\* columns had when the writer described them.
DescriptionsComeBack ==
  (\A i \in DOMAIN saves : saves[i].fits) =>
    LET back == Back
    IN \A i \in DOMAIN back :
         LET first == Head(saves[i].shown.rows)
         IN /\ back[i].descr = saves[i].shown.descr
            /\ \A c \in DOMAIN saves[i].cells : RowDescription(first, c) # "" =>
                 RowDescription(back[i].rows[1], c) = RowDescription(first, c)
=============================================================================
