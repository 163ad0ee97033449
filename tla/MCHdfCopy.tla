------------------------------ MODULE MCHdfCopy ------------------------------
(***************************************************************************)
(* Instances of HdfCopy for TLC.                                           *)
(***************************************************************************)
EXTENDS HdfCopy

\* The columns "x", "x@3", which is shorter than the longest text, and "y".
MCDeclared == [c \in Columns |-> IF c = 1 THEN 3 ELSE -1]
MCStripped == [c \in Columns |-> IF c = 1 THEN 0 ELSE c]

MCOrder == <<<<"a">>, <<"a", "b">>, <<"b">>>>

Num(v) == Cell("int", v, 0, -1)
Txt(v, len) == Cell("text", v, len, -1)
NumTxt(v) == Cell("numtext", v, 1, -1)
Dbl(v) == Cell("double", v, 0, -1)
Flag(v) == Cell("bool", v, 0, -1)

Saves(name, cells) == [name |-> name, row |-> [simple |-> cells, nested |-> <<>>]]

Nests(name, cells, below) ==
  [name |-> name,
   row |-> [simple |-> cells,
            nested |-> [i \in DOMAIN below |->
                          [name |-> "b", row |-> [simple |-> below[i], nested |-> <<>>]]]]]

XY(x, y) == 1 :> x @@ 2 :> y

\* Rows of one width; of cells that the checker takes for others; too long; with "x",
\* alone and beside "x@3"; with a nested row, whose data set has the name of a tuple;
\* and with nested rows alone.
MCSavedRows ==
  {Saves(<<"a">>, XY(Txt(1, 1), Num(-3))), Saves(<<"a">>, XY(Txt(2, 4), Num(5))),
   Saves(<<"a">>, XY(NumTxt(2), Num(2))), Saves(<<"a">>, XY(Txt(1, 1), Flag(1))),
   Saves(<<"a">>, 0 :> Txt(2, 4) @@ 2 :> Num(3)),
   Saves(<<"a">>, 0 :> Txt(2, 2) @@ XY(Txt(1, 2), Num(3))),
   Saves(<<"b">>, XY(Dbl(3), Txt(2, 4))), Saves(<<"b">>, XY(Num(3), Txt(1, 1))),
   Saves(<<"b">>, XY(Dbl(2), Cell("text", 1, 4, 2))),
   Saves(<<"a", "b">>, 1 :> Num(7)),
   Nests(<<"a">>, XY(Txt(1, 1), Num(1)), <<1 :> Num(-1), 1 :> Num(2)>>),
   Nests(<<"a">>, <<>>, <<1 :> Flag(0)>>)}
=============================================================================
