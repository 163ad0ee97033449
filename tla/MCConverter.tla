----------------------------- MODULE MCConverter ----------------------------
(***************************************************************************)
(* Instances of Converter for TLC: the command lines over small files of   *)
(* every backend.                                                          *)
(***************************************************************************)
EXTENDS Converter

CONSTANTS n1, n2

L(kind, name) == [kind |-> kind, name |-> name]

AFile(backend, lines, ended) ==
  [backend |-> backend, exists |-> TRUE, lines |-> lines, ended |-> ended]

\* "a" has a discarded line, an unfinished tuple and no last newline, "e" no
\* tuple, "u" an unfinished one, "x" a broken line; "m" is missing.
MCFiles ==
  [a |-> AFile("txt", <<L("data", n1), L("data", n2), L("done", n2), L("junk", n1),
                       L("done", n1), L("data", n1), L("done", n1)>>, FALSE),
   e |-> AFile("txt", <<L("junk", n1), L("data", n1)>>, TRUE),
   x |-> AFile("txt", <<L("done", n1), L("broken", n1)>>, TRUE),
   g |-> AFile("gz", <<L("data", n1), L("done", n2), L("done", n1)>>, FALSE),
   u |-> AFile("gz", <<L("done", n1), L("data", n1)>>, TRUE),
   d |-> AFile("dhf", <<L("done", n1), L("done", n2)>>, TRUE),
   q |-> AFile("sqlite", <<L("done", n1), L("done", n2)>>, TRUE),
   m |-> [AFile("txt", <<>>, TRUE) EXCEPT !.exists = FALSE]]

MCSources ==
  {<<f>> : f \in DOMAIN MCFiles}
    \cup {<<"a", "g">>, <<"m", "d", "q">>, <<"e", "a">>, <<"g", "e", "a">>}

Lines == [sources : {<<s>> : s \in MCSources} \cup MCSources \X MCSources,
          bar : BOOLEAN, filter : {NoFilter, n1}, max : {0, 1, 3}]

PlainLines == {o \in Lines : Plain(o)}

BarLines == {o \in Lines : o.bar}
=============================================================================
