----------------------------- MODULE DataServer -----------------------------
(***************************************************************************)
(* The data channels of the daemon: TcpDataServer, which listens on a      *)
(* port for the clients that write to one file, the thread that accepts    *)
(* them, and TcpDataServerThread, which passes the lines of one client     *)
(* through the one text reader of the program to the writer of the file.   *)
(***************************************************************************)
EXTENDS Naturals, Sequences, FiniteSets, SequencesExt, FiniteSetsExt, Functions

CONSTANTS
  Clients,      \* each has a command connection and, at most once, a data connection
  Files,        \* the files the clients name
  Names,        \* tuple names
  Nobody        \* no client

VARIABLES
  process,      \* "up", "closing" and "closed" in exit(), "down", or "crashed"
  channels,     \* myDataChannels: port -> number of a server, 0 for a null pointer
  servers,      \* every TcpDataServer there ever was
  bound,        \* the ports that a socket of the daemon listens on
  acceptors,    \* port -> the thread connect_tcp_data_server of that port
  threads,      \* client -> its data connection and the thread that serves it
  inbox,        \* client -> number of lines sent to it and not read by it
  reader,       \* the current tuple of the prototype ReaderManager hands out for "txt"
  out,          \* file -> its writer and what it has been given
  kept,         \* file -> the values of whole rows that were acknowledged
  late          \* was something written after exit() had closed the writers?

dataVars == <<process, channels, servers, bound, acceptors, threads, inbox, reader, out, kept, late>>

Executing == process \in {"up", "closing", "closed"}

\* A line from a client: the cell of a row that stays open (";") or ends ("."),
\* or something else; "gone" is the end of the stream.
DataEnds == {";", "."}
OtherEnds == {"empty", "end marker", "broken", "gone"}
Line(name, value, end) == [name |-> name, value |-> value, end |-> end]
NoLine == Line("", 0, "")

NewTuple(name) == [name |-> name, rows |-> <<>>, cur |-> {}]
\* Variant: a server runs from its constructor on.
NewServerRunning(file, client) ==
  [file |-> file, allowed |-> client, orig |-> "none", running |-> TRUE, destroyed |-> FALSE,
   last |-> Nobody]

NewServer(file, client) ==
  [file |-> file, allowed |-> client, orig |-> "none", running |-> FALSE, destroyed |-> FALSE,
   last |-> Nobody]
NoThread == [pc |-> "none", port |-> 0, file |-> "", line |-> NoLine, cut |-> FALSE]

DataInit ==
  /\ process = "up" /\ channels = <<>> /\ servers = <<>> /\ bound = {} /\ acceptors = <<>>
  /\ threads = [c \in Clients |-> NoThread] /\ inbox = [c \in Clients |-> 0]
  /\ reader = NewTuple("")
  /\ out = [f \in Files |-> [open |-> FALSE, there |-> FALSE, rows |-> <<>>]]
  /\ kept = [f \in Files |-> {}] /\ late = FALSE

Live(p) == p \in DOMAIN channels /\ channels[p] # 0
With(f, p, v) == [q \in DOMAIN f \cup {p} |-> IF q = p THEN v ELSE f[q]]
Without(f, p) == Restrict(f, DOMAIN f \ {p})
Served(c) == threads[c].pc \in {"read", "write", "acknowledge"}
-----------------------------------------------------------------------------
(***************************************************************************)
(* Deleting a server closes the socket of its latest client, by number: if *)
(* that client is gone, another one may have got the number.  The socket   *)
(* that listens stays open.                                                *)
(***************************************************************************)
Victims(s) ==
  LET last == servers[s].last
  IN IF servers[s].destroyed \/ last = Nobody THEN {Nobody}
     ELSE IF Served(last) THEN {last}
     ELSE {Nobody} \cup {c \in Clients : Served(c)}

Destroyed(srvs, S) ==
  [s \in DOMAIN srvs |->
     IF s \in S THEN [srvs[s] EXCEPT !.destroyed = TRUE, !.running = FALSE] ELSE srvs[s]]

Cut(victims) == [c \in Clients |-> IF c \in victims THEN [threads[c] EXCEPT !.cut = TRUE]
                                   ELSE threads[c]]

\* Variant: the entry stays in the map.
DeleteChannelLeft(p) ==
  /\ channels' = IF Live(p) THEN [channels EXCEPT ![p] = 0] ELSE channels
  /\ IF Live(p)
     THEN \E victim \in Victims(channels[p]) :
            servers' = Destroyed(servers, {channels[p]}) /\ threads' = Cut({victim})
     ELSE UNCHANGED <<servers, threads>>

\* delete of what the map has for the port, and erase.
DeleteChannel(p) ==
  /\ channels' = Without(channels, p)
  /\ IF Live(p)
     THEN \E victim \in Victims(channels[p]) :
            servers' = Destroyed(servers, {channels[p]}) /\ threads' = Cut({victim})
     ELSE UNCHANGED <<servers, threads>>

\* Writer::close(file).
ClosedFile(f) == out' = [out EXCEPT ![f].open = FALSE]

\* exit(0), from whichever thread.
Exit == process' = "closing"
-----------------------------------------------------------------------------
(***************************************************************************)
(* The thread of a channel.                                                *)
(***************************************************************************)
Start(p) ==
  /\ Executing /\ acceptors[p].pc = "start"
  /\ IF Live(p)
     THEN /\ acceptors' = [acceptors EXCEPT ![p] = [pc |-> "listen", srv |-> channels[p]]]
          /\ UNCHANGED channels
     ELSE /\ acceptors' = [acceptors EXCEPT ![p].pc = "over"]
          /\ channels' = Without(channels, p)
  /\ UNCHANGED <<process, servers, bound, threads, inbox, reader, out, kept, late>>

\* The head of the loop.  When the thread leaves it, it deletes what the map has
\* for its port by then.
Listen(p) ==
  /\ Executing /\ acceptors[p].pc = "listen"
  /\ LET server == servers[acceptors[p].srv]
     IN IF ~server.destroyed /\ server.orig = "bound"
        THEN /\ acceptors' = [acceptors EXCEPT ![p].pc = "accept"]
             /\ UNCHANGED <<channels, servers, threads>>
        ELSE /\ acceptors' = [acceptors EXCEPT ![p].pc = "over"]
             /\ DeleteChannel(p)
  /\ UNCHANGED <<process, bound, inbox, reader, out, kept, late>>

\* The thread may have waited in accept() while its server was deleted: it then
\* reads freed memory, and ends the process or goes on with what is there.
Accept(p) ==
  /\ Executing /\ acceptors[p].pc = "accept"
  /\ \E c \in Clients :
       /\ threads[c].pc = "backlog" /\ threads[c].port = p
       /\ LET s == acceptors[p].srv
          IN \/ /\ servers[s].destroyed /\ process' = "crashed"
                /\ UNCHANGED <<servers, acceptors, threads, inbox>>
             \/ /\ servers' = [servers EXCEPT ![s].last = c]
                /\ threads' = [threads EXCEPT ![c].pc = "read", ![c].file = servers[s].file]
                /\ inbox' = [inbox EXCEPT ![c] = @ + 1]
                /\ acceptors' = [acceptors EXCEPT ![p].pc = "listen"]
                /\ UNCHANGED process
  /\ UNCHANGED <<channels, bound, reader, out, kept, late>>

Acceptor(p) == Start(p) \/ Listen(p) \/ Accept(p)
-----------------------------------------------------------------------------
(***************************************************************************)
(* The thread of a client.                                                 *)
(***************************************************************************)
\* Variant: the tuple is begun anew behind each of its rows.
AddLineAnew(t, line) ==
  LET tuple == IF t.name = line.name /\ t.cur # {} THEN t ELSE NewTuple(line.name)
      row == tuple.cur \cup {line.value}
  IN IF line.end = "." THEN [tuple EXCEPT !.rows = Append(@, row), !.cur = {}]
     ELSE [tuple EXCEPT !.cur = row]

\* TextReader::addLine; the tuple is complete when a line ends its row.
AddLine(t, line) ==
  LET tuple == IF t.name = line.name THEN t ELSE NewTuple(line.name)
      row == tuple.cur \cup {line.value}
  IN IF line.end = "." THEN [tuple EXCEPT !.rows = Append(@, row), !.cur = {}]
     ELSE [tuple EXCEPT !.cur = row]

Read(c) ==
  /\ Executing /\ threads[c].pc = "read" /\ ~threads[c].cut /\ threads[c].line.end \in DataEnds
  /\ reader' = AddLine(reader, threads[c].line)
  /\ threads' = [threads EXCEPT ![c].pc = IF threads[c].line.end = "." THEN "write"
                                          ELSE "acknowledge"]
  /\ UNCHANGED <<process, channels, servers, bound, acceptors, inbox, out, kept, late>>

\* An empty line is ignored, without an acknowledgement.
Ignore(c) ==
  /\ Executing /\ threads[c].pc = "read" /\ ~threads[c].cut /\ threads[c].line.end = "empty"
  /\ threads' = [threads EXCEPT ![c].line = NoLine]
  /\ UNCHANGED <<process, channels, servers, bound, acceptors, inbox, reader, out, kept, late>>

\* __END__ closes the file for all its clients.
EndMarker(c) ==
  /\ Executing /\ threads[c].pc = "read" /\ ~threads[c].cut /\ threads[c].line.end = "end marker"
  /\ threads' = [threads EXCEPT ![c].pc = "over"]
  /\ ClosedFile(threads[c].file)
  /\ UNCHANGED <<process, channels, servers, bound, acceptors, inbox, reader, kept, late>>

\* A line without an end makes the text reader exit(0).
Broken(c) ==
  /\ process = "up" /\ threads[c].pc = "read" /\ ~threads[c].cut /\ threads[c].line.end = "broken"
  /\ Exit
  /\ threads' = [threads EXCEPT ![c].pc = "over"]
  /\ UNCHANGED <<channels, servers, bound, acceptors, inbox, reader, out, kept, late>>

\* Variant: the thread waits on when the daemon has closed its socket.
DisconnectedByClient(c) ==
  /\ Executing /\ threads[c].pc = "read" /\ threads[c].line.end = "gone"
  /\ threads' = [threads EXCEPT ![c].pc = "over"]
  /\ UNCHANGED <<process, channels, servers, bound, acceptors, inbox, reader, out, kept, late>>

\* recv() fails: the client has closed the connection, or the daemon has.
Disconnected(c) ==
  /\ Executing /\ threads[c].pc = "read"
  /\ threads[c].cut \/ threads[c].line.end = "gone"
  /\ threads' = [threads EXCEPT ![c].pc = "over"]
  /\ UNCHANGED <<process, channels, servers, bound, acceptors, inbox, reader, out, kept, late>>

\* What a file has when a tuple is written to it: a writer that is not open is
\* made, in the mode Recreate.
Written(file, t) ==
  [open |-> TRUE, there |-> ~file.open \/ file.there,
   rows |-> (IF file.open THEN file.rows ELSE <<>>) \o t.rows]

\* The reader is asked for its tuple and not cleared.
Write(c) ==
  /\ Executing /\ threads[c].pc = "write"
  /\ out' = [out EXCEPT ![threads[c].file] = Written(@, reader)]
  /\ late' = (late \/ process = "closed")
  /\ threads' = [threads EXCEPT ![c].pc = "acknowledge"]
  /\ UNCHANGED <<process, channels, servers, bound, acceptors, inbox, reader, kept>>

Acknowledge(c) ==
  /\ Executing /\ threads[c].pc = "acknowledge"
  /\ threads' = [threads EXCEPT ![c].pc = "read", ![c].line = NoLine]
  /\ inbox' = [inbox EXCEPT ![c] = IF threads[c].cut THEN @ ELSE @ + 1]
  /\ kept' = IF threads[c].line.end = "." /\ ~threads[c].cut
             THEN [kept EXCEPT ![threads[c].file] = @ \cup {threads[c].line.value}] ELSE kept
  /\ UNCHANGED <<process, channels, servers, bound, acceptors, reader, out, late>>

DataThread(c) ==
  Read(c) \/ Ignore(c) \/ EndMarker(c) \/ Broken(c) \/ Disconnected(c) \/ Write(c) \/ Acknowledge(c)
-----------------------------------------------------------------------------
(***************************************************************************)
(* What atexit() runs: the servers are deleted, then the writers, while    *)
(* the other threads go on.                                                *)
(***************************************************************************)
DestroyServers ==
  /\ process = "closing" /\ channels # <<>>
  /\ LET dead == {channels[p] : p \in {p \in DOMAIN channels : Live(p)}}
     IN servers' = Destroyed(servers, dead) /\ threads' = Cut({servers[s].last : s \in dead})
  /\ channels' = <<>>
  /\ UNCHANGED <<process, bound, acceptors, inbox, reader, out, kept, late>>

\* Variant: the writers are not closed.
CloseWritersNot ==
  /\ process = "closing" /\ channels = <<>> /\ process' = "closed"
  /\ UNCHANGED <<channels, servers, bound, acceptors, threads, inbox, reader, out, kept, late>>

CloseWriters ==
  /\ process = "closing" /\ channels = <<>> /\ process' = "closed"
  /\ out' = [f \in Files |-> [out[f] EXCEPT !.open = FALSE]]
  /\ UNCHANGED <<channels, servers, bound, acceptors, threads, inbox, reader, kept, late>>

Down ==
  /\ process = "closed" /\ process' = "down"
  /\ UNCHANGED <<channels, servers, bound, acceptors, threads, inbox, reader, out, kept, late>>

Exiting == DestroyServers \/ CloseWriters \/ Down
=============================================================================
