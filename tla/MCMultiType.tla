----------------------------- MODULE MCMultiType -----------------------------
(***************************************************************************)
(* An instance of MultiType for TLC: numbers with and without a fraction,  *)
(* with an exponent, lists and words.                                      *)
(***************************************************************************)
EXTENDS MultiType

\* "1e1", 3, 1.5
Exponent == [word |-> "", num |-> 20, lead |-> 1, whole |-> FALSE]

MCWords == {"undef", "true", "false", "hello"}

MCTexts ==
  {<<WordPart("hello")>>, <<WordPart("true")>>, <<LongPart(3)>>, <<PointedPart(3)>>,
   <<Exponent>>, <<LongPart(3), PointedPart(3)>>}

MCDoubles == {2, 3}

MCLongs == {0, 3}
=============================================================================
