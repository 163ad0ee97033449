# A TLA+ model of dataharvester

dataharvester reads and writes tables ("tuples") in a number of formats: text,
gzip, root, hdf, sqlite and others. A user works with two facades,
`Writer::file(name) << tuple` and `Reader::file(name).next()`; a program,
`converter`, connects the two, and a daemon takes rows over the network.
This directory models the facades, the backends whose behaviour over several calls
is not obvious, the converter and the daemon, checks them with TLC and proves the
central properties of the root writer, of destinations, of readers, of the converter, of
values and of the daemon with TLAPS.

## Inventory

Paths are relative to the root of the repository.

| Component | State | Operations | What makes it correct |
|---|---|---|---|
| Writer facade (`src/Writer.cc`, `src/Mode.cc`) | the map of writers, one file mode for the whole program | `file`, `close`, `close(name)` | a row handed to a writer is in its file after the close, in order and once |
| Root writer (`Plugins/Root/src/Root{Writer,DataCache,InternalNtuple}.cc`, `utils/dataharvester_merge.py`) | a cache of rows for each tuple, a counter, the open file, function statics | `save`, the flush, the destructor, the merge | no row lost between cache, flush, close and merge; a bounded cache |
| Row checker (`src/TupleRowConsistencyChecker.cc`) | a template of column types | `define`, `check` | only rows that fit the template pass |
| Text writer (`Plugins/Txt/src/TextWriter.cc`) | an open stream | `save`, the destructor | as above |
| Reader facade (`src/Reader.cc`, `src/ReaderBuilder.cc`) | the map of readers | `file`, `close` | the right backend for a source, one reader for each |
| Readers (text, gzip, dhf, sqlite; `Plugins/*/src/*Reader.cc`) | a position, the current tuple, a filter | `next`, `setFilter`, `reset`, `getNumberOfEntries` | every tuple once, in order and whole |
| Composite reader (`src/CompositeReader.cc`) | its readers and a pointer to the current one | the same | the concatenation of its sources |
| Converter (`utils/converter.cc`) | the source in hand, the number of tuples written | the loops over sources and tuples | it copies what it was asked for, in order, and ends |
| Values (`src/MultiType.cc`) | a type, up to five representations, which of them are there | the reads, which keep what they convert to; `trimType`, `addToVector`, `toDefault` | what a value is does not depend on how it was read |
| Tuples (`src/Tuple.cc`, `src/TupleRow.cc`) | filled rows and a current one, in each columns, their descriptions, and nested tuples | `operator[]` on a path, `fill`, `describe`, `getAll`, `erase`, `rename` | what was set under a path is in the row in hand at every level |
| Text lines (`TextWriter::save`, `TextReader::addLine`, `src/Comments{Expresser,Collector}.cc`) | the tuple the reader has in hand | a tuple to lines and back, comments to columns and back | what is saved is what is read |
| Manipulators (`src/UniversalManipulator.cc`) | what to drop and rename | `manipulate` | it changes what it was told to |
| Network daemon (`Plugins/Tcp/src/TcpCommServer.cc`, `TcpDataServer.cc`, `TcpDataServerThread.cc`) | the map of channels, the last port, the words of the last command, threads for each client | the commands, the lines on a data channel, the end of the process | an answered port listens, a file has one channel, an acknowledged row is in its file, nobody waits for ever |
| Network writer (`TcpWriter.cc`, `TcpConnector.cc`) | its sockets | negotiate, the destructor | it ends |
| Dhf (`Plugins/Dhf/src`) | which tuples are described; prototypes and the current tuple | `save`, `next` | a row comes back with its cells in their columns |
| Hdf (`Plugins/Hdf/src`) | a layout, a raw record and a number of rows for each data set | `save`, the constructor, `next` | as above; no write beyond the record |
| Writer builder, composite writer, registries (`src/WriterBuilder.cc`, `CompositeWriter.cc`, `WriterManager.cc`) | prototypes by suffix; the sinks of a destination | `operator()`, `save`, the destructor | each row reaches each sink |
| Gzip writer (`Plugins/Gzip/src/GzipWriter.cc`) | a buffer, a borrowed prototype | the constructor, `save`, the destructor | as above |
| Other formats and tools | see `components` in `PROJECT.json` | | |

The program itself has one thread, the daemon excepted. What is hard in it is
state that outlives a call or is shared by objects that look independent:

* one global file mode, read when a root file is opened at its first flush, and
  not when the user asks for the file;
* options that are read once, by function statics, and kept;
* one text reader (and one text writer) through which all gzip files go;
* readers that are kept by the facade with whatever state their last call left;
* destructors that do the writing, and a script that merges behind them;
* conversions that a const read of a value leaves in it, from which the next read starts;
* in the daemon, all of the above under several threads without a lock.

There is no recovery from a crash to speak of: rows in a cache are gone if the
program ends before `Writer::close()`. There are no messages outside the daemon.

## Plan

1. **Writer facade** (`RowChecker`, `WriterFacade`), with proofs
   (`WriterFacadeProofs`). Done.
2. **Reader facade** (`Readers`, `ReaderFacade`), with proofs (`ReaderFacadeProofs`), and
   the **converter** (`Converter`), checked and proved to implement `TupleCopy`
   (`ConverterProofs`). What both say of one reader is in `ReadersProofs`. Done.
3. **Values** (`MultiType`), with proofs (`MultiTypeProofs`), and **tuples** with
   their way through a text file and a manipulator (`Tuples`, `TextLines`,
   `Manipulator`, composed by `TextCopy`). Done.
4. **Daemon** (`Plugins/Tcp/src`): the data channels (`DataServer`), the commands
   (`CommServer`), and both with their clients (`Harvestingd`), with proofs
   (`HarvestingdProofs`). Done.
5. **Formats and destinations**: dhf (`DhfFile`, `DhfCopy`), hdf (`HdfFile`,
   `HdfCopy`), and what a destination is built of (`Destinations`): the composite,
   text, gzip and hdf writers, with proofs (`DestinationsProofs`). Done. Left: the paging
   of sqlite, the iteration over trees of the root and HBook readers.
6. **Proofs**: every property that the runs check of the writer facade, of readers, of
   the converter, of values, of destinations and of the daemon is proved, except liveness.
   Left to TLC: tuples with text, dhf and hdf files.
   No module that is to be proved about has a RECURSIVE operator; `Tuples`, `HdfFile`
   and what extends them have them, because a tuple is nested in itself, and are left
   to TLC.

## Modules

### RowChecker

The template of a tuple and the verdict on a row, as operators. A cell is
abstracted to the type `MultiType` gives it; a string that looks like a number is
a cell of its own ("numtext"), because only `define` re-types it. Columns are
numbers, since the loop of `check` runs in the order of a `std::map` and stops at
the first misfit: `TemplateAfter` says which columns its `operator[]` has then
inserted.

### WriterFacade

| Variable | In the code |
|---|---|
| `fileMode`, `configMode` | `myFileMode` in `Mode.cc`, the configurable Mode:FileMode |
| `appendStatic` | the function static of `append()` in `RootWriter.cc` |
| `writers` | `myWriter` in `Writer.cc`, with the state of each `RootWriter` |
| `disk`, `backup` | the files and those named `backup.<name>`: rows of each tuple, and root's key cycles |
| `hist`, `saved` | history: which rows were accepted, how a file was opened; the number of calls |

`File`, `SaveText`, `SaveRoot`, `Close` and `CloseAll` are the calls a user makes,
each with everything it runs: a save that reaches FlushAfter makes the backup,
opens the file, writes the trees and clears the cache; a close does it for what is
left, asks `append()`, and merges. `Configure` is the option `-o` of the
converter. A row is identified by its number, so that loss, repetition and order
can be seen; 0 is what the file held before the program started.

### Readers, ReaderFacade

A file is a sequence of lines, a line is what `addLine()` makes of it: nothing, a
part of the current row, the completion of a tuple, or a broken line, at which the
program ends. A tuple is its name and the lines it was put together from. One
operator, `SinkNext`, is `next()` of all backends: they differ in whether they
share the current tuple (`proto`), ask the filter, and see an unfinished last line.
`ReaderNext` adds `CompositeReader`. `ReaderFacade` lets a user call `next`,
`setFilter`, `getNumberOfEntries`, `reset`, `file` and `close` on several sources
in any order.

### Converter, TupleCopy

`TupleCopy` is the promise: copy the wanted tuples one by one, end when all of them
are copied, and come to that end. `Converter` is `main()`, loop by loop, over the
same readers. `Wanted` computes from the command line and the files alone, with no
position and no current tuple, which tuples are asked for: those completed at the
lines of `Ends`, each put together from the lines that `Run` names, file by file and
source by source. `Plain` names the command lines for which the program keeps its
promise, that is, all but those that meet one of the divergences below.

### MultiType

`MultiType` is a value with its type, the representations it has (`has`, the `has*`
flags) and their contents. A read (`AsDouble`, `AsLong`, `AsString`, the two vectors)
returns the value as it is afterwards, with one representation more. The module has
two of them: `cell` is assigned, extended, re-typed and read, `twin` undergoes the
same and is never read; what should not depend on reads is what the two agree on.

Numbers are naturals and a double counts halves, so that there are doubles with and
without a fraction. A text is a sequence of parts, a part what `atof` and `atoi` read
of it, which tells "3" from "3." and "1e1" from "1". `Written` and `ReadBack` are the
way through a text file.

### Tuples, TextLines, Manipulator, TextCopy

`Tuples` has a tuple as a record of its name, description, filled rows and current
row; a row has columns (`simple`), the descriptions of columns (`descrs`,
`columnDescrs_` in the code) and nested tuples. A path is a sequence of names where
the code splits a string at its colons. The columns called `x__description__`, in
which comments travel, are the function `notes`. Each operation goes down a path as
the code does, making what is not there.

`TextLines` has the two directions of comments, `Lines`, the lines that
`TextWriter::save` prints, and `AddLine`, the tuple that `TextReader` has in hand after a
line. `Manipulator` has `UniversalManipulator` as the code runs it, through sets and
fills of a new tuple, and `Asked`, what should come of it, written on the data alone.

In `TextCopy` a user sets, fills, describes, edits, copies and saves one tuple; values
are numbered, so that each one is told from every other. `Data` is what the round trip is
about: the rows and nested rows that hold any value. What the properties leave out is
what does not hold: `WellNamed` excludes a nested tuple that was renamed
(`TupleRow.cc:309` renames the key, `TextWriter.cc:138` prints the tuple's own name), and
`AllFilled` the current rows, which the comments skip (`CommentsExpresser.cc:39`).

### DataServer, CommServer, Harvestingd

| Variable | In the code |
|---|---|
| `channels`, `servers` | `myDataChannels` (with its null pointers), and every `TcpDataServer` that was made |
| `bound`, `acceptors` | the sockets that listen, and the thread of each channel, `connect_tcp_data_server` |
| `threads`, `inbox` | the thread of a client's data connection; greetings and acknowledgements it has not read |
| `reader`, `out` | the current tuple of the one "txt" reader of the program; `myWriter` and what the files hold |
| `dataPort`, `tokens`, `lastClient` | `myDataPort`, `myCommandTokens`, `myCliAddr` |
| `comm`, `told` | the thread of a command connection; the port its client was answered |
| `writer`, `sent`, `scene` | programs with a `TcpWriter`, the lines sent, who takes part |
| `process`, `kept`, `late` | where `exit()` is; history: acknowledged values, and a write behind the end |

A command is taken apart where another thread can come in between: the search for the
file, the search for a port, the entry in the map, `connect`, `bind`, and the start of
the thread are steps of `openTransfer`. A call of the reader or of a writer is one
step; with two of them at the same time the behaviour of the code is undefined.

`daemon` has `Concurrent = FALSE`: a command is sent when no other is executed, as a
single operator does. What else can happen was seen with `TRUE`. Of the safety
properties only `AckedRowsAreInTheirFile` survives it (`daemon_race`): two opens of one
file can make two channels, or answer a port whose `bind` is still to come
(`TcpCommServer.cc:149`), and the words of one command are executed by another
(`TcpCommServer.cc:30`). A channel is dead to `checkDataChannels` only between its entry
in the map and the end of its `bind`. With one command at a time there is none then, so
that in `daemon` the check is made and finds nothing (the proofs say so for all bounds);
in `daemon_race` an open throws away the channel of another, after which the loop goes
on from an entry that it has erased (`TcpCommServer.cc:60`), or the process ends there. The
clients write tuples of one name: with two names a line of one client discards the open
row of another (`TextReader.cc:371`), and it is in neither file. The reader is never
cleared, so that a row is written again with each that follows it, also to another
file; what `AckedRowsAreInTheirFile` says is that it is there at least once.

A channel does not listen to the client that asked for it, it binds its own socket to the
address of that client (`TcpDataServer.cc:109`, in effect to that of the last one that
made a command connection, `TcpCommServer.cc:578`). On the daemon's machine this is one of its own addresses. For a
client on another machine (`Remote`) `bind` fails for ever, its open is never answered
(`OpensAreAnswered` is violated), and the thread of its command stays in the loop. `NobodyWaitsForEver`
excepts such an open, `HeldUp`, by name; what it says is that nobody else waits for it: `daemon`
has a client on another machine beside one with a single command at a time, and in
`daemon_race` its commands, held up or not, interleave with those of a local client. When the local
client connects behind it, its channels are bound to the local address, so that all that two local
clients do is in that run too. A program with a `TcpWriter` is not: while its channel is made, another open may
throw it away as dead and take its port, and then it waits for a confirmation for ever.

Further remarks. The plugin needs `--enable-tcp`; `TcpWriter.h` declares `clone` twice
and casts of pointers to `int` do not compile on machines of 64 bits. A port stays bound
after its channel is closed, so that an open that counts to it waits in `bind`, which `HeldUp` excepts as
well. `TcpWriter::save` streams nothing, its line is commented
out (`TcpWriter.cc:99`). What its destructor reads as a confirmation is the greeting of
the channel. `del` stops behind the first file it deletes. A broken line from any
client ends the daemon (`TextReader.cc:416`), and a row that comes behind the closing of
the writers by `exit()` opens, and so truncates, its file again (`late`).

### DhfFile, DhfCopy

The text of a file is a sequence of items; a comma and the end of a line are items,
because cells are told apart by their position. `Described` and `TupleText` are the
writer, `ReadLine` the reader with its prototypes and its current tuple. In `DhfCopy` a
user sets, fills, clears and saves two tuples, describes them or their columns, closes the file and opens it in
either mode. `Fits` says for which rows the promise is kept: those with the columns of
the first row that was saved of their tuple, without nested tuples and empty strings.
What happens to others is in the model. An empty string leaves no token, the cells
behind it move to the left and the row is not filled (`DhfReader.cc:332`), so that its
columns stay for the next. The rows of a nested tuple end the line of their row; what
follows begins with a comma and is skipped. The signature that an appending writer adds is
read like a row and delivered as an empty tuple (`DhfWriter.cc:139`). `toBinary` returns
the text of a temporary (`MultiTypeBinaryConverter.cc:36`), which is undefined; the model
takes it for the text.

### HdfFile, HdfCopy

A record is a sequence of bytes, and each byte tells of which cell it is: a misplaced
cell is seen as `Garbage`. `CopyRawData` lays the cells down one behind the other as
they are, `Offset` computes where the reader looks for them from the layout of the first
row. A column has a length of its own behind an "@" in its name, `Declared`, and so can the
text of a value have one, `asks`, because `copyRawData` looks for it in the value
(`HdfWriter.cc:749`); the column is as wide as the name says (`HdfWriter.cc:770`). A
column of texts is stored, and read back, under its name without the length (`Stripped`,
`StoredAs`, `HdfWriter.cc:614`), any other column under the whole name: the text "x@3" comes
back as "x", the int "x@3" as "x@3". A first row with two texts that differ in their
lengths only ends the program.

`IsPlain` says which rows keep the promise; the others are modelled and do what the code
does. The checker takes an int for a double, which is 4 bytes wide and moves the cells
behind it. A negative int comes back modulo 2^32 (`HdfReader.cc:174`), a bool as an int. A
row without columns repeats the record before it, and as the first of a data set ends the
program. A text longer than the length that its column declares runs over the next column
or over the record. `Update` truncates the file and copies the backup that an earlier
opening in the mode Recreate made, with Writer:Backup; without one the reader's `throw;`
ends the program. What is copied is what was read: a column "x@3" of texts is "x" in the
updated file, as wide as the longest text, and a row with "x@3", which fitted before, is
refused. `check()` then adds "x@3" to the template, so that the rows with "x" that came back
are refused behind it too, and a row that has both is taken and written beyond its record.
All of this is in the run `hdf`; `UpdateKeepsWhatFits` states what a user would expect and is
violated. Texts that look like numbers are refused when the backup is copied
among other texts, since `trimType` has made numbers of them.

### Destinations

A destination is a sequence of pieces and separators. Each sink that is built, written
or closed is a step, at which the program may end or an exception leave the rest
undone. `mode` is the global file mode, which an hdf file that is not there changes
(`HdfWriter.cc:389`): "new.h5;old.txt" in the mode Update empties `old.txt`, and
`OnlyOpeningForgets` says that this is all that can happen. `streamer` is where the
prototype of a format writes to. A gzip writer redirects it and deletes it with itself:
two gzip writers of a format write into the second's buffer, and any writer of that
format that is built, saved to or closed after one of them was closed is undefined
behaviour, with which a run ends.

`EverySinkGetsEveryRow` therefore asks for one gzip writer of a format, while
`GzipRowsAreSomewhere` speaks of several. A writer that a builder leaves behind when it
throws keeps the prototype too, and what another gzip writer of that format is given goes
into a buffer that nobody writes out: with "h.txt.gz;tcp:x" and then "g.txt.gz" the rows of
the second are in no file. `LeavesGzip` names these formats. A text stream that fails to open is not
noticed and its rows are lost (`works`). A destination with an escaped separator hangs. A
protocol throws: the network writer is registered as "dhtp" (`TcpWriter.cc:264`), so that
"tcp:x" loads its library and finds no protocol "tcp" (`WriterBuilder.cc:83`), while for
"dhtp:x" `netWriter()` returns what the registry of file types has under that name, which
is nothing (`WriterManager.cc:142`). The writers that were built before stay open. Not modelled is
that the text writer leaves comments in the user's tuple, so that the sinks behind it
see them (`TextWriter.cc:133`, see `TextLines`).

## Runs

Every bound is in the configurations; the instances are `MCWriterFacade`,
`MCReaderFacade`, `MCConverter`, `MCMultiType`, `MCTextCopy`, `MCHarvestingd`,
`MCDhfCopy`, `MCHdfCopy` and `MCDestinations`.

| Run | Question | Bounds, and why they are enough |
|---|---|---|
| `facade_conserve` | `TypeOK`, `Conserved`, `CacheBounded`, `OnlyARecreatingOpenForgets`, `FlushedFilesAreMerged` | one root and one text file, two tuples, 3 rows, a flush after 2: a flush with one tuple or two in the cache, a cached row behind it, a rejected row, a reopening in either mode, and the merge of several cycles |
| `facade_mixed` | `InOrder` | one tuple, 4 rows of no, one, another and both columns: two flushes, hence two backups, failing merges, a user's own mode |
| `readers` | `TypeOK`, `DeliversInOrder`, `NonePassedOver`, `TuplesAreWhole` | a text file of 7 lines with every kind of line, and a composite of a gzip, a missing, a sqlite and a broken text file; nothing bounds the calls but the number of tuples |
| `converter` | `CopiesInOrder`, `CopiesAll` | all plain command lines with one or two of 12 sources, -b, -f and -n 0, 1, 3 |
| `values` | `TypeOK`, `KeepsWhatItIs`, `PrintsBack` | two doubles and two integers, each with and without a fraction or a zero, six texts (a word, a bool, "3", "1.5", "1e1", a list), vectors of up to two elements; nothing bounds the reads |
| `textcopy` | `TypeOK`, `RoundTrip`, `NothingLeft`, `DescriptionsKept`, `ManipulatedAsAsked` | tuples nested two deep (t, t:n, t:n:m), two columns, 2 values, 3 fills, one description or edit, any number of saves in between: rows with columns only, with nested tuples only and with both, filled or not at each level, empty nested tuples, descriptions before and after the fill; manipulators that keep all, drop a column, drop a tuple and rename both |
| `daemon` | `TypeOK`, `AnsweredPortsListen`, `OneChannelPerFile`, `AckedRowsAreInTheirFile`, `EndKeepsRows`, `NobodyWaitsForEver` | five scenes: one client with all commands on two files; one with every kind of line; two that write two lines each to the same or to different channels; one beside a `TcpWriter`; one beside a client on another machine. Two servers are made; ports are searched anew after one (`PortSpan`, 200 in the code), and dead channels are looked for when there is any channel (`MaxChannels`, 100 in the code) |
| `daemon_race` | `AckedRowsAreInTheirFile` and `NobodyWaitsForEver`, with commands that interleave | a local client that opens a file and sends two lines, and one on another machine that opens and closes the same file, whose open is held up before, between or behind the steps of the other, or is not, when the other connected last; an open throws the channel of another away, as two channels of a file, ports given out twice and words of another command happen |
| `dhf` | `TypeOK`, `RowsComeBack`, `DescriptionsComeBack` | two tuples, two columns and a nested tuple, 2 settings of a row, 3 saves, one description, one other call: the first save of an empty tuple, a row in between of another tuple, of other columns, with an empty string, appending, a tuple or a column that is described before, between and behind its saves; one call of the kind that fills, clears or opens is enough for each of these, two of them multiply the states by twenty |
| `hdf` | `TypeOK`, `RowsComeBack`, `PlainRowsStayInside` | twelve rows of the columns "x", "x@3" and "y", of equal and of different types, of texts below, at and above their width, with either "x" or both, nested rows whose data set is also a tuple's; 4 rows, 3 openings: write, back up, update, write rows of either kind behind the update. A byte has two values and the longest text 4 characters, so that an int wraps and a text is cut |
| `destinations` | `TypeOK`, `EverySinkGetsEveryRow`, `GzipRowsAreSomewhere`, `OnlyOpeningForgets` | nine destinations with one to three sinks, every way to fail at least once, a protocol that throws behind a gzip writer that it leaves; three files that may be there before; 3 rows, 4 openings: two gzip writers of a format at the same time, one opened again after it was closed |
| `bug_bar` | `BarOnlyShows`, which `-b` does not keep | one text source |

In `values`, an element may be added as long as there are fewer than `MaxLen`; one
appended to a vector that was already printed, and one appended to an empty value,
are enough to tell stale representations from fresh ones.

`CHECK_DEADLOCK FALSE` stands where the program may end: at an `exit(0)` in a
reader, at the end of the converter or of the daemon, at an exception that nobody
catches; and where the bounds on the calls are used up. The writer facade never stops,
its user can always call `file` again.

Fairness is assumed of the converter, `WF_vars(Next)`: a program of one thread that
waits for nobody keeps running. Only `CopiesAll` needs it; that the copy is right as far
as it got, `CopiesInOrder`, is a safety property. In the daemon each thread is weakly fair, the one of a
channel, of a data connection and of a command, because each is a thread of its own that
the operating system schedules; so is the destructor of a `TcpWriter`, which the
program has already entered. No client has to send a command or a line, and the choice
between the kinds of lines is nobody's duty. The facades are libraries, a user owes
them no call.

## Proofs

`WriterFacadeProofs` proves, for all sets of files, names, columns and rows and all
limits, under the assumptions named in the modules (root and text files are
distinct, the markers for "nothing" are no values, FlushAfter and MaxRows are
naturals):

* `TypeCorrect`: `Spec => []TypeOK`. `TypeOK` is inductive. The lemmas below it say
  that `NewNtuple`, `AddRow`, `Flush`, `Merged` and `Destroyed` return what their
  place expects.
* `TypeInvHolds`: `TypeOK` with the fact that the rows of a block have the width the
  checker let through.
* `CacheIsBounded`: `Spec => []CacheBounded`. The bound on the counter is inductive
  only with the bound of the rows by the counter, summed over all tuples: the
  invariant counts the cached rows as a set, of which one step adds one.
* `RowsAreConserved`: `Spec => []Conserved`. For a step one has to know that with
  equal columns `Writable` is the whole block (no row ends the writing early), that
  an unopened writer has an unchanged file, and that what `Opened` leaves is `Base`;
  these are the conjuncts of the strengthened invariant. The recorded opening
  (`hist.openedAs`) and the place of the stream (`at`) have to agree, which is a
  conjunct as well. Merging that fails is covered, as is every order of closes.

Its second part adds the order of rows and what an action may do:

* `RowsAreInOrder`: `Spec => []InOrder`, with backups as well. The invariant says that the
  rows of each file and of each backup rise and were handed out before, that a cached
  block has rising numbers, and that what a file holds comes before what its cache
  holds.
* `OnlyRecreatingForgets`: `Spec => [][OnlyARecreatingOpenForgets's action]`, without
  backups, which rename a file. One has to know that an open file keeps its name.
* `ClosedFilesAreMerged`: a closed file has one cycle of each tuple. The cycles of a file
  are counted from what its cache has written.

`MultiTypeProofs` proves, for all texts, numbers and lengths, under the assumptions that
"undef", "true" and "false" are words and that no text is empty:

* `TypeCorrect`: `Spec => []TypeOK`.
* `ValuesAreKept`: `Spec => []KeepsWhatItIs`. The property compares what a value would be
  read as, hence the invariant `Agree` says of each representation the twin has what the
  cell holds in it and in those that were derived from it. That a double never has a
  second representation in the twin, and a text at most the integer of a bool, is what
  makes the derivation unique.
* `ValuesPrintBack`: `Spec => []PrintsBack`. In addition, a trimmed text has the type that
  `StringIs` gives it, and an integer has no double but its own.

`DestinationsProofs` has no hypothesis but the assumptions on the constants:

* `TypeCorrect`. `TypeInv` adds that a destination in hand or open has sinks that can be
  built, which every step of a call needs.
* `OnlyOpeningForgetsTheorem`, an action property that follows from the types.
* `EverySinkTheorem`. Two destinations have no piece in common (`DestinationsAssumption`),
  and a destination names each once; hence what one sink does leaves the file of
  another alone, unless they are gzip writers. `PrototypeIsHis` says of one that is
  alone that the prototype of its format writes to its buffer or nowhere.
* `GzipRowsTheorem`. A row is counted when it is given to a sink; it is in the buffer
  to which the prototype writes, which belongs to an open writer, or in a file. The
  attempt to prove it without `LeavesGzip` showed the divergence told above.

`ReaderFacadeProofs` covers all files, of any length and of all four backends, and all
sources. It assumes that a source names a file once (`SourcesAssumption`): one that names
it twice is read twice, and the properties tell the sinks of a reader apart by their files.
What `next()` does is proved from the inside out, in `ReadersProofs` of the lines that a
backend passes (`CarriedIs`, `CarriedRun`), of one call of a backend (`SinkNextIs`,
`SinkWhole`) and of a reader with one or two such calls (`ReaderSteps`, `ReaderWhole`), then
of the actions (`StepOf`):

* `TypeCorrect`. `TypeInv` adds the shape that a reader keeps: a backend alone has one
  sink, no two sinks read the same file, no position is behind what can be read.
* `InOrderOfFiles`: `OrderInv` has for each delivered tuple the sink and the line at which
  it was completed, which lie behind the reader, and their order.
* `NoTupleLost`: `NonePassedOver` is inductive together with `OrderInv` and with the
  fact that the filter of each sink is one that was asked for.
* `WholeTuples`: the tuple in hand of a sink that can go on is the run of lines before its
  position (`RunKept`). This is false behind a `reset()`, which keeps the current tuple, and
  behind a count, which leaves nothing to read. The tuple in hand of the shared prototype
  has lines of gzip files only (`OfGzip`).

`ConverterProofs` proves `ImplementsTupleCopy`, `Spec /\ Plain(options) => CopiesInOrder`:
every step of the converter is a step of `TupleCopy` or a stutter, whatever the files hold
and whatever the command line, as long as it is plain. `Plain(options)` speaks of the first
state, and `options` never changes. Beyond it only the assumptions on the constants are
used, which give them their types. The argument:

* `Wanted` is a flattened sequence of flattened sequences. `UpTo` is its beginning, the
  sources before the n-th, and `BeginsAll` says that what is read of the n-th, put behind
  it, begins the whole (`FlattenIs` unfolds the library's `FlattenSeq`).
* `Copied(f, filter, p)` is what a file contributes with its first p lines. A call of a
  backend moves from `Copied` at its old position to `Copied` at the new one, with the tuple
  it returns as the last element (`SinkCopies`). What it returns is the tuple at that line
  only if what it carries is the run of lines before its position (`AtLine`), which is
  so at the start and is kept.
* `ReaderCopies` says the same of a reader: its share so far is the shares of the sinks
  before the pointer and that of the current one. This is where `FitsComposite` is needed,
  since a composite asks only one further sink.
* `CopyInv` is the inductive invariant: what is out is the shares of the sources before the
  one in hand and what was read of this one, unless the limit is reached, when it begins
  the wanted tuples and stays; sources to come have readers that are missing or fresh,
  although -b has asked them all for their number; and no tuple is left in the shared prototype
  between two calls, which is why an unfinished tuple of a gzip file is not plain.
* The program ends behind its last source, or when the limit has let each remaining source be
  opened and read once. In both cases `CopyInv` gives `out = Wanted(options)`, so `End` of
  `TupleCopy` may happen.

`HarvestingdProofs` covers commands that interleave (`Concurrent` is either), for all
clients, files and scenes:

* `TypeInvHolds`: the map, the servers, the threads and their local variables fit each
  other: an entry has a server of its own, a thread that serves has a file and an
  acceptor, a command thread has what its next step reads.
* `AckedRowsTheorem`, `EndKeepsRowsTheorem`, with the hypothesis that all tuples have one
  name; with two names the first is false, as told above. `RowsInv` follows a row from
  its line to the reader's tuple (it keeps one name, so that no line is discarded),
  from there to the file, and to the file as it is closed.

Its second part has the hypothesis `Concurrent = FALSE`, since with interleaving commands
these properties are false:

* `TypeOKTheorem`.
* `AnsweredPortsTheorem`, `OneChannelTheorem`: with one command at a time each channel
  gets the port after the one before it, and what `checkDataChannels` drops is never a
  channel that serves. `PortsInv` says so in parts: one command at most (`OneCommand`),
  distinct ports that were counted (`PortsCounted`), a channel in the map runs or is
  the one in the command's hands (`ChannelsRun`), its acceptor serves, files are apart, a null
  pointer in the map is that of the command. Channels and clients take their steps in
  between, and the lemma `PortsKept` says which of them leave it alone.

Each of these invariants was first checked with TLC on the instances of the runs.

`NatRecursion` has what the other proofs need of induction: that recursive functions on
0..N exist and are unfolded as they were written, and that a set of naturals which
holds 0 and with each number the next one holds all, both without an operator as
parameter. So what a recursive function computes, as `Sinks`, `Carried` and `Readables`
do, can be proved, and so can the flattening of sequences, whose fold in the library
unfolds to such a function (`FlattenIs`); an operator of the library that takes another
one as a parameter in general cannot.

Only model-checked:

* `CopiesAll` of the converter and `NobodyWaitsForEver` of the daemon, because liveness is
  out of the prover's reach;
* `TextCopy` and `HdfCopy`, because a tuple is nested in itself and their operators are
  RECURSIVE;
* `DhfCopy`, whose tuples are built with the same operators.

## Where the code and its documents disagree

`bug_bar` shows that with `-b` nothing of a text file is converted (`findings` in
`PROJECT.json`).

These are stated in the modules and violated as well; no run is spent on them, and the
name as an INVARIANT or PROPERTY of a configuration of the module shows it:

* `UpdateKeepsOldRows` of `WriterFacade`: a root file asked for in the mode Update is
  recreated if another file is asked for in the mode Recreate before the first flush
  (`RootDataCache.cc:92`; `Writer.h:39`).
* `BackupKeepsOldRows`: with Writer:Backup the second flush renames the open file over the
  backup that the first one made (`RootDataCache.cc:107`; `Helpers.h:11`).
* `CloseWritesAll`: a row that only carries nested tuples ends the writing of its block
  (`RootInternalNtuple.cc:205`; `Writer.h:51`).
* `GzipFilesStayApart` of `ReaderFacade`: an unfinished tuple of one gzip file gets into
  another file's (`GzipReader.cc:108`; `StreamableReader.h:19`).
* `ReadsChangeNothing` of `MultiType`: a vector that was read as a number prints as that
  number, an integer that was read as a double prints with a point (`MultiType.cc:412`;
  `MultiType.h:99`).
* `UpdateKeepsWhatFits` of `HdfCopy`: an update stores a column of texts without its length, and
  refuses the rows that fitted before (`HdfWriter.cc:399`, `HdfWriter.cc:625`).
* `OpensAreAnswered` of `Harvestingd`: the open of a client on another machine is never
  answered, because its channel is bound to the address of that client and not to one of
  the daemon's (`TcpDataServer.cc:118`; `TcpDataServer.cc:109`, and `MultiFileTcpTest.cpp:9`
  opens a url on another host). The configuration of `daemon` shows it.
* `AnsweredPortsListen` of `Harvestingd` with `Concurrent = TRUE`, as told above.

Seen while modelling: `AppendedFilesAreMerged` of
`WriterFacade` is violated (the first close decides, in function statics, for all others
whether append mode merges, `RootWriter.cc:32`, against the comment in `RootWriter.cc:130`);
`ExpresserInverts` of `TextCopy` is violated (`CommentsExpresser.h:14` calls it the inverse
of `CommentsCollector`, but the column descriptions of a tuple that was read are lost
when it is saved again, because one describes the filled rows and the other asks the current
one); a manipulator, and so the converter, drops the rows that nobody filled and the
descriptions of nested tuples; renaming a column to its own name erases it
(`TupleRow.cc:304`); `getAll("a:b")` adds a column of that name to every row;
`describe` after the `fill` makes an empty nested tuple of the column's name
(`TupleRow.cc:285`); `FilterIsObeyed` of `ReaderFacade` is
violated, because `setFilter` is not virtual (`AbstractReader.h:39` promises the "Same
procedure for all Readers") and what a user sets on a composite is asked by nobody;
`ResetRestarts` is violated (`reset()` keeps the unfinished current tuple, `TextReader.cc:313`);
`listWriters()` returns closed files too (`Writer.h:60`, the null entries of
`Writer.cc:53`); a user's Mode:FileMode is overruled by the default argument of
`Writer::file` (`Writer.h:39`); the checker says "Skipping data row" and has changed
its template; a source named twice is copied once, and a composite named twice is
undefined behaviour; a composite whose second file has no tuple hides the third
from the converter; `converter -d` of the usage text is `-c` in the code.

## Not modelled

Formatting and parsing of cells beyond `MultiType`; nested rows outside of `TextCopy` and
the two formats (the writer facade has a row that carries nothing else); signs, nan,
infinities and numbers with more digits than a conversion keeps; the contents of
libraries (ROOT, HDF, sqlite, zlib) and of the operating system's sockets beyond
accept, bind and order; Python bindings.

The readers of root and HBook files loop over trees and tables that ROOT and the HBook
library hold. All root readers share the global tree of `RootHelpers.cc:444`, and
`RootReader::reset` does nothing: a composite of two root files reads the wrong tree. The
writers for Odbc, Tnt and Xml format a row and hand it on. `StringTools` is a set of pure
functions on strings, with tests under `tests/`.

In `HdfFile`: names with a "/", which make groups; vectors; FlatData=false, whose data
sets have a compound type without members; empty strings. In `DhfFile`: names and
strings that begin with a D or hold a comma. The other components are in the plan above
or are listed in `PROJECT.json` with the reason.
