----------------------------- MODULE Manipulator -----------------------------
(***************************************************************************)
(* UniversalManipulator: it drops and renames columns and nested tuples by *)
(* filling a new tuple with what it keeps of the old one.  moveTuple() is  *)
(* left out.                                                               *)
(*                                                                         *)
(* A manipulator is a record of the dropped columns and tuples (sets) and  *)
(* of the renamed ones (functions).                                        *)
(***************************************************************************)
EXTENDS TextLines

NewName(renamed, x) == IF x \in DOMAIN renamed THEN renamed[x] ELSE x

\* Of two columns that get one name the later one wins.  Notes are columns of
\* other names and stay.
Kept(m, simple) ==
  FoldLeft(LAMBDA f, c : (NewName(m.renamedColumns, c) :> simple[c]) @@ f,
           NoEntries, Sorted(DOMAIN simple \ m.droppedColumns))

\* Variant: addNestedData() does not fill what it added.
RECURSIVE AddTupleUnfilled(_, _, _, _)
AddTupleUnfilled(m, t, orig, path) ==
  LET AddNested(u, nested) ==
        FoldLeft(LAMBDA v, n : AddTupleUnfilled(m, v, nested[n],
                                        Append(path, NewName(m.renamedTuples, n))),
                 u, Sorted(DOMAIN nested))
      AddRow(u, row) ==
        AddNested(Put(u, path, Kept(m, row.simple), row.notes), row.nested)
  IN IF orig.name \in m.droppedTuples THEN t
     ELSE Fill(FoldLeft(AddRow, t, orig.rows), path)

\* addTuple(), with addSimpleData() and addNestedData().  What is not filled in
\* the old tuple does not get into the new one.
RECURSIVE AddTuple(_, _, _, _)
AddTuple(m, t, orig, path) ==
  LET AddNested(u, nested) ==
        Fill(FoldLeft(LAMBDA v, n : AddTuple(m, v, nested[n],
                                             Append(path, NewName(m.renamedTuples, n))),
                      u, Sorted(DOMAIN nested)),
             path)
      AddRow(u, row) ==
        AddNested(Put(u, path, Kept(m, row.simple), row.notes), row.nested)
  IN IF orig.name \in m.droppedTuples THEN t
     ELSE Fill(FoldLeft(AddRow, t, orig.rows), path)

Manipulate(m, t) ==
  AddTuple(m, [NewTuple(NewName(m.renamedTuples, t.name)) EXCEPT !.descr = t.descr], t, <<>>)
-----------------------------------------------------------------------------
\* The rows that should be left of the data of some rows, if no two columns and
\* no two tuples get one name.
RECURSIVE Asked(_, _)
Asked(m, data) ==
  LET Under(renamed, f, x) == f[CHOOSE y \in DOMAIN f : NewName(renamed, y) = x]
      Renames(renamed, f) ==
        [x \in {NewName(renamed, y) : y \in DOMAIN f} |-> Under(renamed, f, x)]
      Keep(f, dropped) == Restrict(f, DOMAIN f \ dropped)
      AskedRow(d) ==
        LET below == [n \in DOMAIN d.nested |-> Asked(m, d.nested[n])]
        IN [simple |-> Renames(m.renamedColumns, Keep(d.simple, m.droppedColumns)),
            nested |-> Renames(m.renamedTuples,
                               Keep(RestrictDomain(below, LAMBDA n : below[n] # <<>>),
                                    m.droppedTuples))]
  IN SelectSeq([i \in DOMAIN data |-> AskedRow(data[i])],
               LAMBDA d : DOMAIN d.simple \cup DOMAIN d.nested # {})
=============================================================================
