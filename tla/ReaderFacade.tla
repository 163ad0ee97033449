---------------------------- MODULE ReaderFacade ----------------------------
(***************************************************************************)
(* The user frontend for reading: Reader::file / close, the one reader it  *)
(* keeps for each source, and the calls users make of it in any order.     *)
(* Reader::file(s).next() and the like are File(s) and the call.           *)
(***************************************************************************)
EXTENDS Readers

CONSTANTS
  Sources,     \* the sources: sequences of file names
  MaxGot       \* bound: tuples delivered by a source before it is rebuilt

\* A source names a file once.  One that names it twice is read twice, through two
\* sinks that the files of their tuples do not tell apart.
ASSUME SourcesAssumption ==
  \A s \in Sources :
    /\ s \in Seq(DOMAIN Files)
    /\ \A i, j \in DOMAIN s : s[i] = s[j] => i = j

VARIABLES
  readers,     \* myReader of Reader.cc
  proto,       \* theCurrentTuple of the registered "txt" prototype
  running,     \* FALSE behind an exit(0) or undefined behaviour
  hist         \* what each reader delivered since it was built or reset

vars == <<readers, proto, running, hist>>

IsOpen(s) == readers[s] # NoReader

\* tuples: delivered; filter: asked for last; filters: all that were asked for;
\* counted, reset: getNumberOfEntries() and reset() were called.
Fresh == [tuples |-> <<>>, filter |-> NoFilter, filters |-> {NoFilter},
          counted |-> FALSE, reset |-> FALSE]

Init ==
  /\ readers = [s \in Sources |-> NoReader]
  /\ proto = NoTuple /\ running = TRUE
  /\ hist = [s \in Sources |-> Fresh]

\* Reader::file(s): a source that cannot be read throws a TerminateException
\* and leaves the entry 0.
File(s) ==
  /\ running /\ ~IsOpen(s)
  /\ readers' = [readers EXCEPT ![s] = Build(s)]
  /\ hist' = [hist EXCEPT ![s] = Fresh]
  /\ UNCHANGED <<proto, running>>

NextTuple(s) ==
  /\ running /\ IsOpen(s) /\ Len(hist[s].tuples) < MaxGot
  /\ \E res \in {ReaderNext(readers[s], proto)} :
       /\ readers' = [readers EXCEPT ![s] = res.reader]
       /\ proto' = res.proto
       /\ running' = (res.kind \notin {"exit", "undefined"})
       /\ hist' = IF res.kind = "tuple"
                  THEN [hist EXCEPT ![s].tuples = Append(@, res.tuple)] ELSE hist

SetFilter(s, filter) ==
  /\ running /\ IsOpen(s)
  /\ readers' = [readers EXCEPT ![s] = WithFilter(@, filter)]
  /\ hist' = [hist EXCEPT ![s].filter = filter, ![s].filters = @ \cup {filter}]
  /\ UNCHANGED <<proto, running>>

GetNumberOfEntries(s) ==
  /\ running /\ IsOpen(s)
  /\ readers' = [readers EXCEPT ![s] = Counted(@)]
  /\ hist' = [hist EXCEPT ![s].counted = TRUE]
  /\ UNCHANGED <<proto, running>>

Reset(s) ==
  /\ running /\ IsOpen(s)
  /\ readers' = [readers EXCEPT ![s] = Rewound(@)]
  /\ hist' = [hist EXCEPT ![s].tuples = <<>>, ![s].reset = TRUE, ![s].counted = FALSE]
  /\ UNCHANGED <<proto, running>>

\* Reader::close(s)
Close(s) ==
  /\ running
  /\ readers' = [readers EXCEPT ![s] = NoReader]
  /\ UNCHANGED <<proto, running, hist>>

Next ==
  \E s \in Sources :
    \/ File(s) \/ NextTuple(s) \/ GetNumberOfEntries(s) \/ Reset(s) \/ Close(s)
    \/ \E filter \in Names \cup {NoFilter} : SetFilter(s, filter)

Spec == Init /\ [][Next]_vars

-----------------------------------------------------------------------------
\* The type invariant of the reader map and of the tuples in progress.
TypeOK ==
  /\ \A s \in Sources : IsOpen(s) =>
       /\ readers[s] \in Reader
       /\ readers[s].ptr <= Len(readers[s].sinks) + 1
       /\ \A i \in DOMAIN readers[s].sinks :
            readers[s].sinks[i].pos <= Len(Files[readers[s].sinks[i].file].lines)
  /\ proto \in Tuples /\ running \in BOOLEAN

\* Where the k-th tuple of a source was completed: the sink and the line.
EndOf(s, k) ==
  LET parts == hist[s].tuples[k].parts
      last  == parts[Len(parts)]
  IN  <<CHOOSE i \in DOMAIN readers[s].sinks : readers[s].sinks[i].file = last[1],
        last[2]>>

\* A reader delivers the tuples of its files in their order, and none twice,
\* whatever filters are set, entries counted or other sources read between the
\* calls: a composite never goes back to a sink.
DeliversInOrder ==
  \A s \in Sources : IsOpen(s) =>
    \A j, k \in DOMAIN hist[s].tuples : j < k =>
      LET a == EndOf(s, j)
          b == EndOf(s, k)
      IN  a[1] < b[1] \/ (a[1] = b[1] /\ a[2] < b[2])

\* No complete tuple is passed over: one that a reader has behind it was
\* delivered, unless a filter that the reader had rejects it or the entries
\* were counted.  An exhausted sink of a composite has delivered them all, and
\* the sinks behind the current one are untouched.
NonePassedOver ==
  \A s \in Sources : (IsOpen(s) /\ running /\ ~hist[s].counted) =>
    LET r == readers[s]
    IN  \A i \in DOMAIN r.sinks :
          LET f     == r.sinks[i].file
              stays == hist[s].reset /\ Files[f].backend = "sqlite"
          IN  /\ i < r.ptr => r.sinks[i].pos = Readable(f)
              /\ (i > r.ptr /\ ~stays) => r.sinks[i].pos = 0
              /\ \A l \in 1 .. r.sinks[i].pos :
                   LET line == Files[f].lines[l]
                   IN  (/\ line.kind = "done" /\ ~stays
                        /\ \A filter \in hist[s].filters : Accepts(filter, f, line.name))
                         => \E k \in DOMAIN hist[s].tuples : EndOf(s, k) = <<i, l>>

IsWhole(tuple) ==
  LET last == tuple.parts[Len(tuple.parts)]
  IN  tuple = TupleAt(last[1], last[2])

\* A text reader that was not reset puts a tuple together from the lines that
\* belong to it, each once and in their order, and from no other: filters,
\* counting and the other readers, the shared prototype included, do not get
\* into it.
TuplesAreWhole ==
  \A s \in Sources : \A k \in DOMAIN hist[s].tuples :
    LET tuple == hist[s].tuples[k]
    IN  (Files[tuple.parts[1][1]].backend = "txt" /\ ~hist[s].reset)
          => IsWhole(tuple)

-----------------------------------------------------------------------------
(***************************************************************************)
(* What the documentation says, and the code does not keep.                *)
(***************************************************************************)
\* reset() goes back to the first tuple: a source whose reader was reset
\* delivers its first tuple as a new reader would.
ResetRestarts ==
  \A s \in Sources :
    (hist[s].reset /\ hist[s].tuples # <<>>) => IsWhole(hist[s].tuples[1])

\* clear() clears the current tuple of the prototype: no line of one gzip file
\* gets into a tuple of another.
GzipFilesStayApart ==
  \A s \in Sources : \A k \in DOMAIN hist[s].tuples :
    LET parts == hist[s].tuples[k].parts
    IN  \A i \in DOMAIN parts : parts[i][1] = parts[Len(parts)][1]

\* setFilter() has the same procedure for all readers: a tuple delivered under
\* one filter has its name.
FilterIsObeyed ==
  [][\A s \in Sources :
       LET old == hist[s].tuples
           new == hist'[s].tuples
       IN  (Len(new) > Len(old) /\ hist[s].filter # NoFilter)
             => new[Len(new)].name = hist[s].filter]_vars
=============================================================================
