--------------------------- MODULE MCWriterFacade ---------------------------
(***************************************************************************)
(* Instances of WriterFacade for TLC: rows over the columns 1 and 2.       *)
(***************************************************************************)
EXTENDS WriterFacade

MCColumns == {1, 2}

OneColumn(cell) == [c \in {1} |-> cell]

\* Rows with the same column: an int block rejects a double, a double block
\* takes an int.
UniformTypes == {OneColumn("int"), OneColumn("double")}

\* Rows of different shapes: no column, the other column, and both.
MixedRows ==
  {<<>>, OneColumn("text"), [c \in {2} |-> "text"], [c \in {1, 2} |-> "text"]}

\* A row that only carries nested tuples, and one with a column.
EmptyOrText == {<<>>, OneColumn("text")}

=============================================================================
