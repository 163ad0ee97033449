------------------------------ MODULE MCDhfCopy ------------------------------
(***************************************************************************)
(* Instances of DhfCopy for TLC.                                           *)
(***************************************************************************)
EXTENDS DhfCopy

MCOrder == <<"n", "x", "y">>

Way(path, columns, empty) == [path |-> path, columns |-> columns, empty |-> empty]

MCWays ==
  {Way(<<>>, {"x"}, {}), Way(<<>>, {"y"}, {}), Way(<<>>, {"x", "y"}, {}),
   Way(<<>>, {"x", "y"}, {"x"}), Way(<<"n">>, {"x"}, {})}
=============================================================================
