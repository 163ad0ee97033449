----------------------------- MODULE Destinations ----------------------------
(***************************************************************************)
(* What a destination stands for: WriterBuilder splits it at semicolons    *)
(* and builds a writer for each piece from the prototype that              *)
(* WriterManager has for its suffix; CompositeWriter hands every tuple to  *)
(* each of them.  A GzipWriter has no formatter of its own: it redirects   *)
(* the prototype of the format behind the "gz" to its buffer, and deletes  *)
(* that prototype with itself.                                             *)
(*                                                                         *)
(* A destination is a sequence of pieces and of separators, one of them    *)
(* escaped.  A call goes sink by sink, and each is a step, at which it may *)
(* break off.                                                              *)
(***************************************************************************)
EXTENDS Integers, Sequences

CONSTANTS
  Pieces,         \* piece -> [kind, format, works]; each names a file of its own
  Destinations,   \* the destinations a user writes to
  Earlier,        \* the files that may be there before the program starts
  Separator, Escaped,
  MaxRows,        \* bound on the tuples saved
  MaxOpens        \* bound on the calls of Writer::file

\* kind: "txt" and "h5" by the suffix, "gz" with the format before it, "net" of a
\* protocol, "unknown" if no library has it.
Kinds == {"txt", "gz", "h5", "net", "unknown"}

\* works: the file can be opened.
ASSUME PiecesAssumption ==
  \A p \in DOMAIN Pieces : Pieces[p] \in [kind : Kinds, format : STRING, works : BOOLEAN]

Files == {p \in DOMAIN Pieces : Pieces[p].kind \in {"txt", "gz", "h5"}}

Kind(p) == Pieces[p].kind

\* The formats whose writers can write to a stream that they are given.
Streamable == {"txt", "tnt", "xml"}

\* split(): empty pieces are dropped.
Sinks(d) ==
  LET upTo[n \in 0 .. Len(d)] ==
        IF n = 0 THEN <<>>
        ELSE IF d[n] = Separator THEN upTo[n - 1] ELSE Append(upTo[n - 1], d[n])
  IN  upTo[Len(d)]

\* find_unescaped() finds an escaped separator again and again.
Hangs(d) == \E i \in DOMAIN d : d[i] = Escaped

ASSUME DestinationsAssumption ==
  /\ {Separator, Escaped, "nowhere", "deleted"} \cap DOMAIN Pieces = {}
  /\ Separator # Escaped
  /\ \A d \in Destinations : d \in Seq(DOMAIN Pieces \cup {Separator, Escaped})
  /\ \A d \in Destinations : \A i, j \in DOMAIN d : (d[i] = d[j] /\ d[i] # Separator) => i = j
  /\ \A d, e \in Destinations : d # e =>
       \A i \in DOMAIN d, j \in DOMAIN e : d[i] = e[j] => d[i] \in {Separator, Escaped}
  /\ Earlier \subseteq Files
  /\ MaxRows \in Nat /\ MaxOpens \in Nat

VARIABLES
  mode,       \* myFileMode of Mode.cc
  present,    \* the files that are there
  disk,       \* file -> its rows
  stream,     \* gzip file -> the rows in the buffer of its writer
  streamer,   \* format -> where its prototype writes to; "deleted" if it is
  open,       \* the destinations that have a writer
  call,       \* the call that is executed: what, of which destination, at which sink
  running,    \* "yes", or how the program ended
  hist        \* base: what a file held when it was opened; rows: saved since then, for
              \* each destination; built: gzip writers by format; saves, opens: counts

vars == <<mode, present, disk, stream, streamer, open, call, running, hist>>

NoCall == [op |-> "none", d |-> <<>>, k |-> 0]

Init ==
  /\ mode = "Recreate"
  /\ present \in SUBSET Earlier
  /\ disk = [f \in Files |-> IF f \in present THEN <<0>> ELSE <<>>]
  /\ stream = [f \in Files |-> <<>>]
  /\ streamer = [t \in Streamable |-> "nowhere"]
  /\ open = {} /\ call = NoCall /\ running = "yes"
  /\ hist = [base |-> disk, rows |-> [d \in Destinations |-> <<>>],
             built |-> [t \in Streamable |-> 0], saves |-> 0, opens |-> 0]

Idle == running = "yes" /\ call.op = "none"

\* The sink at which the call is.
At(op) == running = "yes" /\ call.op = op /\ call.k \in DOMAIN Sinks(call.d)

Sink == Sinks(call.d)[call.k]

\* Variant: the first sink is the last one.
BehindAll == [call EXCEPT !.k = Len(Sinks(call.d)) + 1]

Behind == [call EXCEPT !.k = @ + 1]

\* The call has been at every sink.
Through(op) == running = "yes" /\ call.op = op /\ call.k > Len(Sinks(call.d))
-----------------------------------------------------------------------------
(***************************************************************************)
(* Writer::file(): the mode, and a writer for each piece in turn.          *)
(***************************************************************************)
File(d, m) ==
  /\ Idle /\ hist.opens < MaxOpens
  /\ mode' = m
  /\ call' = IF d \in open \/ Hangs(d) THEN call ELSE [op |-> "build", d |-> d, k |-> 1]
  /\ running' = IF d \notin open /\ Hangs(d) THEN "hangs" ELSE running
  /\ hist' = [hist EXCEPT !.opens = @ + 1, !.rows[d] = IF d \in open THEN @ ELSE <<>>]
  /\ UNCHANGED <<present, disk, stream, streamer, open>>

\* The file is there, with these rows, and the builder goes on.
Opened(f, rows) ==
  /\ present' = present \cup {f}
  /\ disk' = [disk EXCEPT ![f] = rows]
  /\ hist' = [hist EXCEPT !.base[f] = rows]

\* Variant: always with the flag trunc.
KeptNever(f) == <<>>

Kept(f) == IF mode = "Recreate" THEN <<>> ELSE disk[f]

\* The prototype is cloned.  A stream that fails to open is not noticed.
BuildText ==
  /\ At("build") /\ Kind(Sink) = "txt"
  /\ IF streamer["txt"] = "deleted" THEN running' = "undefined" ELSE UNCHANGED running
  /\ IF streamer["txt"] = "deleted" \/ ~Pieces[Sink].works THEN UNCHANGED <<present, disk, hist>>
     ELSE Opened(Sink, Kept(Sink))
  /\ call' = Behind
  /\ UNCHANGED <<mode, stream, streamer, open>>

\* Variant: there is one buffer for all formats.
RedirectedAll(t, f) == [u \in Streamable |-> f]

Redirected(t, f) == [streamer EXCEPT ![t] = f]

\* gzopen() truncates in either mode.  Without a prototype to redirect, or with one
\* that is no StreamableWriter, the behaviour is undefined.
BuildGzip ==
  /\ At("build") /\ Kind(Sink) = "gz" /\ Pieces[Sink].works
  /\ present' = present \cup {Sink}
  /\ disk' = [disk EXCEPT ![Sink] = <<>>]
  /\ LET t == Pieces[Sink].format
     IN IF t \in Streamable /\ streamer[t] # "deleted"
        THEN /\ streamer' = Redirected(t, Sink)
             /\ stream' = [stream EXCEPT ![Sink] = <<>>]
             /\ hist' = [hist EXCEPT !.base[Sink] = <<>>, !.built[t] = @ + 1]
             /\ UNCHANGED running
        ELSE running' = "undefined" /\ UNCHANGED <<streamer, stream, hist>>
  /\ call' = Behind
  /\ UNCHANGED <<mode, open>>

\* A file that is not there changes the mode for all writers to come; one that is
\* there is truncated in either mode, and if it is to be updated the backup is
\* missed and the program ends.
BuildHdf ==
  /\ At("build") /\ Kind(Sink) = "h5" /\ Pieces[Sink].works
  /\ mode' = IF Sink \notin present THEN "Recreate" ELSE mode
  /\ Opened(Sink, <<>>)
  /\ running' = IF mode = "Update" /\ Sink \in present THEN "ended" ELSE running
  /\ call' = Behind
  /\ UNCHANGED <<stream, streamer, open>>

\* What makes a builder throw: a protocol, since netWriter() returns nothing, for one
\* that is registered the writer of a file type that there is not, and for another
\* name of its library no writer; and a gzip file that cannot be opened.  The writers
\* that were built before are left behind.
Throws(p) == Kind(p) = "net" \/ (Kind(p) = "gz" /\ ~Pieces[p].works)

BuildThrows ==
  /\ At("build") /\ Throws(Sink)
  /\ call' = NoCall
  /\ UNCHANGED <<mode, present, disk, stream, streamer, open, running, hist>>

\* openLibrary() ends the program, as does the library for hdf files.
BuildEnds ==
  /\ At("build") /\ (Kind(Sink) = "unknown" \/ (Kind(Sink) = "h5" /\ ~Pieces[Sink].works))
  /\ running' = "ended"
  /\ UNCHANGED <<mode, present, disk, stream, streamer, open, call, hist>>

Built ==
  /\ Through("build")
  /\ open' = open \cup {call.d} /\ call' = NoCall
  /\ UNCHANGED <<mode, present, disk, stream, streamer, running, hist>>
-----------------------------------------------------------------------------
(***************************************************************************)
(* CompositeWriter::save().                                                *)
(***************************************************************************)
Save(d) ==
  /\ Idle /\ d \in open /\ hist.saves < MaxRows
  /\ call' = [op |-> "save", d |-> d, k |-> 1]
  /\ hist' = [hist EXCEPT !.saves = @ + 1, !.rows[d] = Append(@, hist.saves + 1)]
  /\ UNCHANGED <<mode, present, disk, stream, streamer, open, running>>

SaveFile ==
  /\ At("save") /\ Kind(Sink) # "gz"
  /\ disk' = IF Pieces[Sink].works THEN [disk EXCEPT ![Sink] = Append(@, hist.saves)] ELSE disk
  /\ call' = Behind
  /\ UNCHANGED <<mode, present, stream, streamer, open, running, hist>>

\* Where the rows of a gzip sink go: to the buffer of the last one of its format.
Target(p) == streamer[Pieces[p].format]

SaveGzip ==
  /\ At("save") /\ Kind(Sink) = "gz"
  /\ IF Target(Sink) = "deleted" THEN running' = "undefined" /\ UNCHANGED stream
     ELSE /\ stream' = [stream EXCEPT ![Target(Sink)] = Append(@, hist.saves)]
          /\ UNCHANGED running
  /\ call' = Behind
  /\ UNCHANGED <<mode, present, disk, streamer, open, hist>>

Saved ==
  /\ Through("save") /\ call' = NoCall
  /\ UNCHANGED <<mode, present, disk, stream, streamer, open, running, hist>>
-----------------------------------------------------------------------------
(***************************************************************************)
(* Writer::close(): ~CompositeWriter deletes each sink.                    *)
(***************************************************************************)
Close(d) ==
  /\ Idle /\ d \in open
  /\ open' = open \ {d} /\ call' = [op |-> "close", d |-> d, k |-> 1]
  /\ UNCHANGED <<mode, present, disk, stream, streamer, running, hist>>

CloseFile ==
  /\ At("close") /\ Kind(Sink) # "gz"
  /\ call' = Behind
  /\ UNCHANGED <<mode, present, disk, stream, streamer, open, running, hist>>

\* Variant: the file is closed with the buffer left.
FlushedNot(f) == disk[f]

Flushed(f) == disk[f] \o stream[f]

\* ~GzipWriter: the prototype is deleted, then the buffer is written.
CloseGzip ==
  /\ At("close") /\ Kind(Sink) = "gz"
  /\ LET t == Pieces[Sink].format
     IN IF streamer[t] = "deleted"
        THEN running' = "undefined" /\ UNCHANGED <<streamer, disk, stream>>
        ELSE /\ streamer' = [streamer EXCEPT ![t] = "deleted"]
             /\ disk' = [disk EXCEPT ![Sink] = Flushed(Sink)]
             /\ stream' = [stream EXCEPT ![Sink] = <<>>]
             /\ UNCHANGED running
  /\ call' = Behind
  /\ UNCHANGED <<mode, present, open, hist>>

Closed ==
  /\ Through("close") /\ call' = NoCall
  /\ UNCHANGED <<mode, present, disk, stream, streamer, open, running, hist>>

Next ==
  \/ \E d \in Destinations, m \in {"Recreate", "Update"} : File(d, m)
  \/ BuildText \/ BuildGzip \/ BuildHdf \/ BuildThrows \/ BuildEnds \/ Built
  \/ \E d \in Destinations : Save(d) \/ Close(d)
  \/ SaveFile \/ SaveGzip \/ Saved
  \/ CloseFile \/ CloseGzip \/ Closed

Spec == Init /\ [][Next]_vars
-----------------------------------------------------------------------------
Calls ==
  {NoCall} \cup
  {c \in [op : {"build", "save", "close"}, d : Destinations, k : Nat \ {0}] :
     ~Hangs(c.d) /\ c.k <= Len(Sinks(c.d)) + 1}

\* The type invariant: also, a prototype writes to a gzip file of its format.
TypeOK ==
  /\ mode \in {"Recreate", "Update"} /\ present \in SUBSET Files
  /\ disk \in [Files -> Seq(Nat)] /\ stream \in [Files -> Seq(Nat)]
  /\ \A t \in Streamable : streamer[t] \in {"nowhere", "deleted"} \/
       (streamer[t] \in Files /\ Kind(streamer[t]) = "gz" /\ Pieces[streamer[t]].format = t)
  /\ DOMAIN streamer = Streamable
  /\ open \in SUBSET {d \in Destinations : ~Hangs(d)}
  /\ call \in Calls
  /\ running \in {"yes", "hangs", "undefined", "ended"}

\* The rows that a sink of an open destination is to have: while a row is saved, the
\* sinks before the one in hand have it.
RowsFor(d, k) ==
  IF call.op = "save" /\ call.d = d /\ k >= call.k
  THEN SubSeq(hist.rows[d], 1, Len(hist.rows[d]) - 1) ELSE hist.rows[d]

\* What is opened in this moment, and what hangs.
Building == {d \in Destinations : Hangs(d) \/ (call.op = "build" /\ call.d = d)}

\* No gzip writer shares its format with an earlier one.
Alone(p) ==
  Kind(p) = "gz" => (Pieces[p].format \in Streamable /\ hist.built[Pieces[p].format] = 1)

\* Every tuple that is saved to a destination is in each of its files, once and in
\* order, behind what the opening left there, also when it is closed: composites that
\* are built, written and closed in between, sinks that throw and sinks behind a
\* gzip file do not change it, as long as there was one gzip writer for a format and
\* the file can be written.
EverySinkGetsEveryRow ==
  running = "yes" =>
    \A d \in Destinations \ Building : \A k \in DOMAIN Sinks(d) :
      LET p == Sinks(d)[k]
      IN (p \in Files /\ Alone(p) /\ Pieces[p].works) =>
           disk[p] \o stream[p] = hist.base[p] \o RowsFor(d, k)

\* A gzip writer of the format is left behind by a builder that throws, and with it
\* whatever gets into its buffer.
LeavesGzip(t) ==
  \E d \in Destinations : \E k, l \in DOMAIN Sinks(d) :
    /\ k < l /\ Throws(Sinks(d)[l])
    /\ Kind(Sinks(d)[k]) = "gz" /\ Pieces[Sinks(d)[k]].format = t

\* With several gzip writers of a format the rows of one are in another's file, but in
\* one, unless a writer of that format was left behind.
GzipRowsAreSomewhere ==
  running = "yes" =>
    \A d \in Destinations \ Building : \A k \in DOMAIN Sinks(d), i \in DOMAIN hist.rows[d] :
      LET p == Sinks(d)[k]
      IN (Kind(p) = "gz" /\ ~LeavesGzip(Pieces[p].format) /\ i <= Len(RowsFor(d, k))) =>
           \E q \in Files :
             /\ Kind(q) = "gz" /\ Pieces[q].format = Pieces[p].format
             /\ \E j \in DOMAIN (disk[q] \o stream[q]) : (disk[q] \o stream[q])[j] = hist.rows[d][i]

\* Rows are written behind what a file holds, and what it holds is forgotten in one
\* kind of step only: it is opened, in the mode Recreate if it is a text file.  An
\* hdf file that is not there turns the mode into that for the files behind it.
OnlyOpeningForgets ==
  [][\A f \in Files :
       \/ \E n \in 0 .. Len(disk'[f]) : SubSeq(disk'[f], 1, n) = disk[f]
       \/ /\ call.op = "build" /\ f = Sink
          /\ Kind(f) = "txt" => mode = "Recreate"]_vars
=============================================================================
