------------------------------- MODULE Tuples -------------------------------
(***************************************************************************)
(* Tuples and their rows (src/Tuple.cc, src/TupleRow.cc).  A tuple has     *)
(* filled rows and a current one; a row has columns and, under a name      *)
(* each, nested tuples.                                                    *)
(*                                                                         *)
(* A path is the sequence of the names that colons separate in the code.   *)
(* A column "x__description__", as the comments are stored, is the note on *)
(* x, and "__description__" the note on "".  The name and the description  *)
(* that a row has besides those of its tuple are left out.                 *)
(***************************************************************************)
EXTENDS Integers, Sequences, SequencesExt

CONSTANTS
  Names,          \* the names of nested tuples
  Columns,        \* the names of columns
  Descriptions    \* what a user describes things with, not empty

\* Values are numbers; this one is that of a MultiType that nobody set.
Undef == 0

NoEntries == [x \in {} |-> ""]

EmptyRow == [simple |-> NoEntries, notes |-> NoEntries, nested |-> NoEntries,
             descrs |-> NoEntries]

NewTuple(name) == [name |-> name, descr |-> "", rows |-> <<>>, cur |-> EmptyRow]

RECURSIVE IsTuple(_, _), IsRow(_, _)
IsTuple(t, depth) ==
  /\ t.descr \in Descriptions \cup {""}
  /\ IsRow(t.cur, depth)
  /\ \A i \in DOMAIN t.rows : IsRow(t.rows[i], depth)

IsRow(row, depth) ==
  /\ DOMAIN row.simple \subseteq Columns
  /\ \A c \in DOMAIN row.simple : row.simple[c] \in Nat
  /\ DOMAIN row.notes \subseteq Columns \cup {""}
  /\ \A c \in DOMAIN row.notes : row.notes[c] \in Descriptions
  /\ DOMAIN row.descrs \subseteq Columns
  /\ \A c \in DOMAIN row.descrs : row.descrs[c] \in Descriptions
  /\ DOMAIN row.nested # {} => depth > 0
  /\ \A n \in DOMAIN row.nested : IsTuple(row.nested[n], depth - 1)
-----------------------------------------------------------------------------
(***************************************************************************)
(* Rows.                                                                   *)
(***************************************************************************)
IsEmpty(row) == DOMAIN row.simple \cup DOMAIN row.notes \cup DOMAIN row.nested = {}

Cleared(row) == [EmptyRow EXCEPT !.descrs = row.descrs]

\* descend() makes a nested tuple that is not there.
Descend(row, n) == IF n \in DOMAIN row.nested THEN row.nested[n] ELSE NewTuple(n)

With(row, n, t) == [row EXCEPT !.nested = (n :> t) @@ @]

Without(f, x) == Restrict(f, DOMAIN f \ {x})

\* m[to] = m[from] and m.erase(from), which is a loss if they are the same.
Renamed(f, from, to) ==
  IF from \in DOMAIN f THEN Without((to :> f[from]) @@ f, from) ELSE f

GetDescription(t, c) ==
  IF c = "" THEN t.descr ELSE IF c \in DOMAIN t.cur.descrs THEN t.cur.descrs[c] ELSE ""
-----------------------------------------------------------------------------
(***************************************************************************)
(* The calls that go down a path.                                          *)
(***************************************************************************)
\* Several t[path + c] = v at once, notes among them.
RECURSIVE Put(_, _, _, _)
Put(t, path, simple, notes) ==
  IF path = <<>>
  THEN [t EXCEPT !.cur.simple = simple @@ @, !.cur.notes = notes @@ @]
  ELSE [t EXCEPT !.cur = With(@, Head(path),
                              Put(Descend(@, Head(path)), Tail(path), simple, notes))]

RECURSIVE Fill(_, _)
Fill(t, path) ==
  IF path = <<>>
  THEN IF IsEmpty(t.cur) THEN t
       ELSE [t EXCEPT !.rows = Append(@, t.cur), !.cur = Cleared(@)]
  ELSE [t EXCEPT !.cur = With(@, Head(path), Fill(Descend(@, Head(path)), Tail(path)))]

\* What is no column of the row is taken for a nested tuple.
RECURSIVE Describe(_, _, _), DescribeRow(_, _, _)
Describe(t, d, path) ==
  IF path = <<>> THEN [t EXCEPT !.descr = d]
  ELSE [t EXCEPT !.cur = DescribeRow(@, d, path)]

DescribeRow(row, d, path) ==
  IF Tail(path) = <<>> /\ Head(path) \in DOMAIN row.simple
  THEN [row EXCEPT !.descrs = (Head(path) :> d) @@ @]
  ELSE With(row, Head(path), Describe(Descend(row, Head(path)), d, Tail(path)))

\* Variant: a missing column reads as minus one.
GetAllNegative(t, c) ==
  [t EXCEPT !.rows = [i \in DOMAIN @ |-> [@[i] EXCEPT !.simple = @ @@ (c :> -1)]]]

\* getAll() looks the column up with an operator that adds it.
GetAll(t, c) ==
  [t EXCEPT !.rows = [i \in DOMAIN @ |-> [@[i] EXCEPT !.simple = @ @@ (c :> Undef)]]]
-----------------------------------------------------------------------------
(***************************************************************************)
(* What a tuple holds.                                                     *)
(***************************************************************************)
\* The rows in the order in which a writer takes them, the current one last.
RowsOf(t) == IF IsEmpty(t.cur) THEN t.rows ELSE Append(t.rows, t.cur)

\* The rows that hold data anywhere, as columns and nested rows.
RECURSIVE Data(_)
Data(rows) ==
  LET DataOf(row) ==
        LET below == [n \in DOMAIN row.nested |-> Data(RowsOf(row.nested[n]))]
        IN [simple |-> row.simple,
            nested |-> RestrictDomain(below, LAMBDA n : below[n] # <<>>)]
  IN SelectSeq([i \in DOMAIN rows |-> DataOf(rows[i])],
               LAMBDA d : DOMAIN d.simple \cup DOMAIN d.nested # {})

\* The tuple without the rows that nobody filled.
RECURSIVE Filled(_)
Filled(t) ==
  [t EXCEPT !.cur = Cleared(@),
            !.rows = [i \in DOMAIN @ |->
                        [@[i] EXCEPT !.nested = [n \in DOMAIN @ |-> Filled(@[n])]]]]

AllFilled(t) == Filled(t) = t

\* Every nested tuple has the name it is found under.
RECURSIVE WellNamed(_)
WellNamed(t) ==
  \A row \in {t.cur} \cup ToSet(t.rows) :
     \A n \in DOMAIN row.nested : row.nested[n].name = n /\ WellNamed(row.nested[n])
=============================================================================
