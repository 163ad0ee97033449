------------------------------- MODULE Readers ------------------------------
(***************************************************************************)
(* The reader backends and the multiplexer over them, as operators on the  *)
(* state of one reader: TextReader, GzipReader, DhfReader, CompositeReader *)
(* and ReaderBuilder.                                                      *)
(*                                                                         *)
(* A file is a sequence of lines.  A line is abstracted to what addLine()  *)
(* makes of it:                                                            *)
(*   junk    nothing: blank, a comment, without a colon                    *)
(*   data    adds to the current row of the tuple it names                 *)
(*   done    adds to it and completes it: a final "." or "fill"            *)
(*   broken  ends neither with ";" nor with "." nor with ":": exit(0)      *)
(* and a tuple to its name and the lines it was put together from.         *)
(***************************************************************************)
EXTENDS Integers, FiniteSets, SequencesExt

CONSTANTS
  Names,       \* the tuple names
  Files,       \* file name -> [backend, exists, lines, ended]
  NoName,      \* the name of a fresh Tuple()
  NoFilter,    \* the filter that accepts all
  NoReader     \* an entry of myReader that is 0

Line == [kind : {"junk", "data", "done", "broken"}, name : Names]

\* ended: the last line ends with a newline, or there is none.
ASSUME FilesAssumption ==
  /\ \A f \in DOMAIN Files :
       Files[f] \in [backend : {"txt", "gz", "dhf", "sqlite"}, exists : BOOLEAN,
                     lines : Seq(Line), ended : BOOLEAN]
  /\ \A f \in DOMAIN Files : Files[f].backend \in {"dhf", "sqlite"} =>
       \A i \in DOMAIN Files[f].lines : Files[f].lines[i].kind \in {"junk", "done"}
  /\ \A f \in DOMAIN Files : Files[f].lines = <<>> => Files[f].ended
  /\ NoName \notin Names

\* A tuple: its name, and the lines it was put together from.
Tuples == [name : Names \cup {NoName}, parts : Seq((DOMAIN Files) \X Nat)]

NoTuple == [name |-> NoName, parts |-> <<>>]

\* A source on a command line: the files between the semicolons.
IsComposite(source) == Len(source) > 1

(***************************************************************************)
(* One backend reader: how many lines it has consumed, its theCurrentTuple *)
(* and its filter.  GzipReader has no current tuple of its own: it feeds   *)
(* its lines to the registered "txt" prototype, whose current tuple is     *)
(* passed along as proto.                                                  *)
(***************************************************************************)
Sinks == [file : DOMAIN Files, pos : Nat, cur : Tuples,
          filter : Names \cup {NoFilter}]

NewSink(f) == [file |-> f, pos |-> 0, cur |-> NoTuple, filter |-> NoFilter]

\* getLine() drops what is behind the last newline, gzgets() does not.
Readable(f) ==
  IF Files[f].ended \/ Files[f].backend \in {"gz", "sqlite"}
  THEN Len(Files[f].lines) ELSE Len(Files[f].lines) - 1

\* Variant: the current tuple is never replaced.
AddLineToAny(cur, f, i) ==
  LET line == Files[f].lines[i]
  IN  IF line.kind = "junk" THEN cur
      ELSE [name |-> line.name, parts |-> Append(cur.parts, <<f, i>>)]

\* addLine(): a line of another tuple replaces the current one, filled or not.
AddLine(cur, f, i) ==
  LET line == Files[f].lines[i]
  IN  IF line.kind = "junk" THEN cur
      ELSE IF cur.name = line.name
      THEN [cur EXCEPT !.parts = Append(@, <<f, i>>)]
      ELSE [name |-> line.name, parts |-> <<<<f, i>>>>]

\* The current tuple after the lines from .. to, all of whose complete tuples
\* were rejected.
Carried(cur, f, from, to) ==
  LET after[n \in 0 .. to - from + 1] ==
        IF n = 0 THEN cur
        ELSE IF Files[f].lines[from + n - 1].kind = "done" THEN NoTuple
        ELSE AddLine(after[n - 1], f, from + n - 1)
  IN  after[to - from + 1]

\* TupleNameFilter::accepts as postProcess() asks it; DhfReader does not ask.
Accepts(filter, f, name) ==
  filter = NoFilter \/ name = filter \/ Files[f].backend = "dhf"

\* The lines at which a call of next() can end.
StopsAt(sink) ==
  {i \in sink.pos + 1 .. Readable(sink.file) :
     LET line == Files[sink.file].lines[i]
     IN  \/ line.kind = "broken"
         \/ line.kind = "done" /\ Accepts(sink.filter, sink.file, line.name)}

(***************************************************************************)
(* next() of a backend: reads on to the next complete tuple that the       *)
(* filter accepts.  Without one it throws a TerminateException, and what   *)
(* the last lines left in the current tuple stays there.                   *)
(***************************************************************************)
SinkNext(sink, proto) ==
  LET f     == sink.file
      gz    == Files[f].backend = "gz"
      stops == StopsAt(sink)
      at    == IF stops = {} THEN Readable(f) ELSE Min(stops)
      cur   == Carried(IF gz THEN proto ELSE sink.cur, f, sink.pos + 1,
                       IF stops = {} THEN at ELSE at - 1)
      left  == IF stops = {} THEN cur ELSE NoTuple
      kind  == IF stops = {} THEN "terminate"
               ELSE IF Files[f].lines[at].kind = "broken" THEN "exit" ELSE "tuple"
  IN  [sink  |-> [sink EXCEPT !.pos = at, !.cur = IF gz THEN @ ELSE left],
       proto |-> IF gz THEN left ELSE proto,
       kind  |-> kind,
       tuple |-> IF kind = "tuple" THEN AddLine(cur, f, at) ELSE NoTuple]

(***************************************************************************)
(* Readers: a backend alone, or a CompositeReader with its pointer.        *)
(***************************************************************************)
Reader == [multi : BOOLEAN, ptr : Nat \ {0}, sinks : Seq(Sinks)]

ASSUME NoReaderAssumption == NoReader \notin Reader

Readables(source) ==
  LET upTo[n \in 0 .. Len(source)] ==
        IF n = 0 THEN <<>>
        ELSE IF Files[source[n]].exists THEN Append(upTo[n - 1], source[n]) ELSE upTo[n - 1]
  IN  upTo[Len(source)]

\* Variant: the pointer is set while the reader has no sinks yet.
BuildThenAdd(source) ==
  LET sinks == Readables(source)
  IN  IF sinks = <<>> THEN NoReader
      ELSE [multi |-> IsComposite(source), ptr |-> 0,
            sinks |-> [i \in DOMAIN sinks |-> NewSink(sinks[i])]]

\* ReaderBuilder: a composite does without the sources that fail.
Build(source) ==
  LET sinks == Readables(source)
  IN  IF sinks = <<>> THEN NoReader
      ELSE [multi |-> IsComposite(source), ptr |-> 1,
            sinks |-> [i \in DOMAIN sinks |-> NewSink(sinks[i])]]

\* Variant: the call works on a copy of the reader.
TookFromACopy(r, k, res) ==
  [reader |-> [r EXCEPT !.ptr = k],
   proto |-> res.proto, kind |-> res.kind, tuple |-> res.tuple]

\* The reader after next() of its k-th sink, and the outcome of the call.
Took(r, k, res) ==
  [reader |-> [r EXCEPT !.sinks[k] = res.sink, !.ptr = k],
   proto |-> res.proto, kind |-> res.kind, tuple |-> res.tuple]

(***************************************************************************)
(* CompositeReader::next catches whatever the current sink throws and      *)
(* tries the following one, once; past the end it dereferences end().      *)
(***************************************************************************)
ReaderNext(r, proto) ==
  IF r.ptr > Len(r.sinks)
  THEN [reader |-> r, proto |-> proto, kind |-> "undefined", tuple |-> NoTuple]
  ELSE LET first == SinkNext(r.sinks[r.ptr], proto)
           took  == Took(r, r.ptr, first)
       IN  IF ~r.multi \/ first.kind # "terminate" THEN took
           ELSE IF r.ptr = Len(r.sinks)
           THEN [took EXCEPT !.reader.ptr = r.ptr + 1]
           ELSE Took(took.reader, r.ptr + 1,
                     SinkNext(r.sinks[r.ptr + 1], first.proto))

\* AbstractReader::setFilter is not virtual: called through the facade it sets
\* the filter of the CompositeReader itself, which asks none.
WithFilter(r, filter) ==
  IF r.multi THEN r ELSE [r EXCEPT !.sinks[1].filter = filter]

\* Variant: the pointer of a composite stays where it is.
RewoundInPlace(r) ==
  [r EXCEPT !.sinks = [i \in DOMAIN r.sinks |-> [r.sinks[i] EXCEPT !.pos = 0]]]

\* reset() reopens the streams and leaves the current tuples as they are; it
\* does nothing in a SqliteReader.
Rewound(r) ==
  LET again(sink) == IF Files[sink.file].backend = "sqlite" THEN sink
                     ELSE [sink EXCEPT !.pos = 0]
  IN  [r EXCEPT !.ptr = 1,
                !.sinks = [i \in DOMAIN r.sinks |-> again(r.sinks[i])]]

(***************************************************************************)
(* getNumberOfEntries(): TextReader and DhfReader count the lines of the   *)
(* stream they read from, which is then at its end; GzipReader opens the   *)
(* file once more; SqliteReader does not know, and a composite stops there.*)
(***************************************************************************)
IsUnknown(r) == \E i \in DOMAIN r.sinks : Files[r.sinks[i].file].backend = "sqlite"

Counted(r) ==
  LET asked(i) == \A j \in 1 .. i : Files[r.sinks[j].file].backend # "sqlite"
      spent(sink) == IF Files[sink.file].backend = "gz" THEN sink
                     ELSE [sink EXCEPT !.pos = Readable(sink.file)]
  IN  [r EXCEPT !.sinks = [i \in DOMAIN r.sinks |->
                             IF asked(i) THEN spent(r.sinks[i]) ELSE r.sinks[i]]]

-----------------------------------------------------------------------------
(***************************************************************************)
(* What the lines of a file say, whoever reads them.                       *)
(***************************************************************************)
\* The lines that make up the tuple completed at line l: back to a line of
\* another tuple or of the tuple before it.
Run(f, l) ==
  {i \in 1 .. l :
     /\ Files[f].lines[i].kind # "junk"
     /\ \A j \in i .. l : /\ Files[f].lines[j].kind # "junk" =>
                                Files[f].lines[j].name = Files[f].lines[l].name
                          /\ j < l => Files[f].lines[j].kind # "done"}

\* A finite set of numbers in ascending order: the k-th has k that are not greater.
Ranked(S, k) == {i \in S : Cardinality({j \in S : j <= i}) = k}

Ascending(S) == [k \in 1 .. Cardinality(S) |-> CHOOSE i \in Ranked(S, k) : TRUE]

\* The lines of a set as a tuple has them.
PartsOf(f, S) == [k \in 1 .. Cardinality(S) |-> <<f, Ascending(S)[k]>>]

TupleAt(f, l) == [name |-> Files[f].lines[l].name, parts |-> PartsOf(f, Run(f, l))]
=============================================================================
