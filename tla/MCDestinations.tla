--------------------------- MODULE MCDestinations ----------------------------
(***************************************************************************)
(* Instances of Destinations for TLC.                                      *)
(***************************************************************************)
EXTENDS Destinations

Piece(kind, format, works) == [kind |-> kind, format |-> format, works |-> works]

MCPieces ==
  [a |-> Piece("txt", "txt", TRUE), b |-> Piece("txt", "txt", TRUE),
   c |-> Piece("txt", "txt", FALSE),
   g |-> Piece("gz", "txt", TRUE), h |-> Piece("gz", "txt", TRUE),
   t |-> Piece("gz", "tnt", TRUE), l |-> Piece("gz", "xml", TRUE),
   r |-> Piece("gz", "root", TRUE), u |-> Piece("gz", "txt", FALSE),
   x |-> Piece("h5", "h5", TRUE), y |-> Piece("h5", "h5", FALSE),
   n |-> Piece("net", "tcp", TRUE), z |-> Piece("unknown", "foo", TRUE)]

\* Files alone and behind each other; what throws, ends the program or hangs stands
\* behind a file that was opened.
MCDestinationSet ==
  {<<"g">>, <<"x", ";", "a", ";", "t">>, <<";", "h", ";", ";", "b", ";">>, <<"c", ";", "l", ";", "n">>,
   <<"u">>, <<"r">>, <<"y">>, <<"z">>, <<"escaped">>}
=============================================================================
