--------------------------- MODULE MCReaderFacade ---------------------------
(***************************************************************************)
(* Instances of ReaderFacade for TLC: small files of every backend, alone  *)
(* and behind a composite.                                                 *)
(***************************************************************************)
EXTENDS ReaderFacade

CONSTANTS n1, n2

L(kind, name) == [kind |-> kind, name |-> name]

AFile(backend, lines, ended) ==
  [backend |-> backend, exists |-> TRUE, lines |-> lines, ended |-> ended]

\* "a" discards a line of n1, ends with an unfinished tuple and lacks its last
\* newline, "m" is missing, "x" ends with a broken line.
MCFiles ==
  [a |-> AFile("txt", <<L("data", n1), L("data", n2), L("done", n2),
                        L("junk", n1), L("done", n1), L("data", n1),
                        L("done", n1)>>, FALSE),
   b |-> AFile("txt", <<L("done", n2), L("done", n1)>>, TRUE),
   c |-> AFile("txt", <<L("done", n1), L("data", n1)>>, TRUE),
   g |-> AFile("gz", <<L("done", n1), L("data", n1)>>, FALSE),
   h |-> AFile("gz", <<L("done", n1)>>, TRUE),
   d |-> AFile("dhf", <<L("junk", n1), L("done", n1), L("done", n2)>>, TRUE),
   q |-> AFile("sqlite", <<L("done", n1)>>, TRUE),
   x |-> AFile("txt", <<L("done", n2), L("broken", n2)>>, TRUE),
   m |-> [AFile("txt", <<>>, TRUE) EXCEPT !.exists = FALSE]]

\* A text file alone, and a composite of the other backends.
Mixed == {<<"a">>, <<"g", "m", "q", "x">>}

OneText == {<<"c">>}

TwoGzip == {<<"g">>, <<"h">>}

Composite == {<<"b", "d">>}
=============================================================================
