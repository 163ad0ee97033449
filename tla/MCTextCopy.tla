----------------------------- MODULE MCTextCopy -----------------------------
(***************************************************************************)
(* Instances of TextCopy for TLC.                                          *)
(***************************************************************************)
EXTENDS TextCopy

MCOrder == <<"m", "n", "x", "y">>

MCPaths == {<<>>, <<"n">>, <<"n", "m">>}

Asks == [droppedColumns |-> {}, droppedTuples |-> {}, renamedColumns |-> NoEntries,
         renamedTuples |-> NoEntries]

MCManipulators ==
  {Asks, [Asks EXCEPT !.droppedColumns = {"x"}], [Asks EXCEPT !.droppedTuples = {"m"}],
   [Asks EXCEPT !.renamedColumns = "x" :> "w", !.renamedTuples = "n" :> "o"]}
=============================================================================
