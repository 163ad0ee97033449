----------------------------- MODULE Converter ------------------------------
(***************************************************************************)
(* The program converter (utils/converter.cc): it reads its sources one    *)
(* after the other through the facade Reader and streams every tuple to    *)
(* Writer::file(dest), which Writer::close() closes at the end.  With the  *)
(* option -b it first asks every reader for its number of entries.         *)
(***************************************************************************)
EXTENDS Readers

CONSTANTS
  CommandLines   \* [sources, bar, filter, max]: the options -b, -f and -n

CommandLine == [sources : Seq(Seq(DOMAIN Files)), bar : BOOLEAN,
                filter : Names \cup {NoFilter}, max : Int]

ASSUME CommandLinesAssumption == CommandLines \subseteq CommandLine

VARIABLES
  options,       \* the command line, fixed
  readers,       \* myReader of Reader.cc
  proto,         \* theCurrentTuple of the registered "txt" prototype
  pc,            \* "bar", "source", "tuples", "closed", "exited" or "crashed"
  source,        \* the index of the source in hand
  n_line,        \* the number of tuples written
  out            \* the tuples written to the destination

vars == <<options, readers, proto, pc, source, n_line, out>>

Source == options.sources[source]

HasSource == source <= Len(options.sources)

Init ==
  /\ options \in CommandLines
  /\ readers = [s \in ToSet(options.sources) |-> NoReader]
  /\ proto = NoTuple
  /\ pc = IF options.bar THEN "bar" ELSE "source"
  /\ source = 1 /\ n_line = 0 /\ out = <<>>

\* Reader::file(), which throws if it is left without a reader.
FileOf(s) == IF readers[s] = NoReader THEN Build(s) ELSE readers[s]

Filtered(r) == IF options.filter = NoFilter THEN r ELSE WithFilter(r, options.filter)

\* One round of the loop behind -b.  It breaks off when a source throws or does
\* not know its number of entries.
Count ==
  /\ pc = "bar" /\ HasSource
  /\ LET r       == FileOf(Source)
         goes_on == r # NoReader /\ ~IsUnknown(r)
     IN  /\ readers' = [readers EXCEPT
              ![Source] = IF r = NoReader THEN r ELSE Counted(Filtered(r))]
         /\ pc' = IF goes_on THEN "bar" ELSE "source"
         /\ source' = IF goes_on THEN source + 1 ELSE 1
  /\ UNCHANGED <<options, proto, n_line, out>>

AllCounted ==
  /\ pc = "bar" /\ ~HasSource
  /\ pc' = "source" /\ source' = 1
  /\ UNCHANGED <<options, readers, proto, n_line, out>>

\* Variant: a source that throws is tried once more.
OpenOrRetry ==
  /\ pc = "source" /\ HasSource
  /\ LET r == FileOf(Source)
     IN  /\ readers' = [readers EXCEPT ![Source] = IF r = NoReader THEN r ELSE Filtered(r)]
         /\ pc' = IF r = NoReader THEN "source" ELSE "tuples"
  /\ UNCHANGED <<options, proto, source, n_line, out>>

\* The head of the loop over the sources; one that throws is skipped.
OpenSource ==
  /\ pc = "source" /\ HasSource
  /\ LET r == FileOf(Source)
     IN  /\ readers' = [readers EXCEPT ![Source] = IF r = NoReader THEN r ELSE Filtered(r)]
         /\ pc' = IF r = NoReader THEN "source" ELSE "tuples"
         /\ source' = IF r = NoReader THEN source + 1 ELSE source
  /\ UNCHANGED <<options, proto, n_line, out>>

\* Variant: the limit ends the program behind the tuple that exceeds it.
LimitLate == options.max > 0 /\ n_line > options.max

\* -n: asked behind the reading of the tuple, which is lost to this source.
Limit == options.max > 0 /\ n_line >= options.max

\* One round of the loop over the tuples of a source.
CopyTuple ==
  /\ pc = "tuples"
  /\ \E res \in {ReaderNext(readers[Source], proto)} :
       LET done == res.kind = "terminate" \/ (res.kind = "tuple" /\ Limit)
       IN  /\ readers' = [readers EXCEPT ![Source] = res.reader]
           /\ proto' = res.proto
           /\ pc' = CASE res.kind = "exit" -> "exited"
                      [] res.kind = "undefined" -> "crashed"
                      [] OTHER -> IF done THEN "source" ELSE "tuples"
           /\ source' = IF done THEN source + 1 ELSE source
           /\ IF res.kind = "tuple" /\ ~Limit
              THEN out' = Append(out, res.tuple) /\ n_line' = n_line + 1
              ELSE UNCHANGED <<out, n_line>>
  /\ UNCHANGED options

\* Writer::close() behind the loops.
CloseWriters ==
  /\ pc = "source" /\ ~HasSource
  /\ pc' = "closed"
  /\ UNCHANGED <<options, readers, proto, source, n_line, out>>

Next == Count \/ AllCounted \/ OpenSource \/ CopyTuple \/ CloseWriters

\* A program of one thread that nothing blocks runs to its end.
Spec == Init /\ [][Next]_vars /\ WF_vars(Next)

-----------------------------------------------------------------------------
(***************************************************************************)
(* What a command line asks for.                                           *)
(***************************************************************************)
\* The lines that complete a tuple which passes the filter.
Ends(f, filter) ==
  {l \in 1 .. Readable(f) : /\ Files[f].lines[l].kind = "done"
                            /\ Accepts(filter, f, Files[f].lines[l].name)}

\* The tuples completed at some lines of a file, in their order.
TuplesAt(f, S) == [k \in 1 .. Cardinality(S) |-> TupleAt(f, Ascending(S)[k])]

\* The tuples of a file, which may be missing, that pass a filter.
Passing == [p \in (DOMAIN Files) \X (Names \cup {NoFilter}) |->
              IF Files[p[1]].exists THEN TuplesAt(p[1], Ends(p[1], p[2])) ELSE <<>>]

OfFiles(files, filter) == FlattenSeq([k \in DOMAIN files |-> Passing[<<files[k], filter>>]])

Wanted(o) ==
  LET all == FlattenSeq([i \in DOMAIN o.sources |-> OfFiles(o.sources[i], o.filter)])
  IN  IF o.max > 0 THEN SubSeq(all, 1, Min({o.max, Len(all)})) ELSE all

(***************************************************************************)
(* The command lines that the code handles as asked.                       *)
(***************************************************************************)
\* Asked twice for a source, the facade returns the reader that is spent.
Distinct(o) == \A i, j \in DOMAIN o.sources : i # j => o.sources[i] # o.sources[j]

\* A composite tries one sink behind the one that ended, and has no filter.
FitsComposite(s, filter) ==
  /\ filter = NoFilter
  /\ \A i \in DOMAIN Readables(s) : i > 1 => Ends(Readables(s)[i], filter) # {}

\* A broken line ends the program, an unfinished tuple of a gzip file is
\* carried into the next one.
IsClean(f) ==
  /\ \A l \in 1 .. Readable(f) : Files[f].lines[l].kind # "broken"
  /\ (Files[f].backend = "gz" /\ Readable(f) > 0) =>
       Files[f].lines[Readable(f)].kind = "done"

Plain(o) ==
  /\ Distinct(o)
  /\ \A s \in ToSet(o.sources) :
       /\ IsComposite(s) => FitsComposite(s, o.filter)
       /\ \A f \in ToSet(Readables(s)) :
            IsClean(f) /\ (o.bar => Files[f].backend \in {"gz", "sqlite"})

-----------------------------------------------------------------------------
Copies == INSTANCE TupleCopy
  WITH wanted <- Wanted(options), copy <- out, ended <- pc = "closed"

\* On plain command lines the converter copies the tuples it was asked for, one by
\* one and in their order, and ends with all of them: through missing files, files
\* without a tuple, sources that share a file, discarded and unfinished tuples,
\* filters and the limit.
CopiesInOrder == Copies!Spec

\* On plain command lines the converter comes to its end: no source holds it up,
\* ends it before its time or has it read beyond the last file of a composite.
CopiesAll == Copies!ComesToItsEnd

\* The option -b shows a progress bar: a command line that is plain but for
\* this option has its tuples copied all the same.
BarOnlyShows ==
  (pc = "closed" /\ Plain([options EXCEPT !.bar = FALSE])) => out = Wanted(options)
=============================================================================
