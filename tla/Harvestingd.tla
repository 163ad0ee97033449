---------------------------- MODULE Harvestingd -----------------------------
(***************************************************************************)
(* The daemon and its clients: programs with a TcpWriter, which negotiate  *)
(* a channel through TcpConnector, and others that talk to the command     *)
(* connection and send lines to a data channel, as HarvesterTelnet and the *)
(* scripts do.                                                             *)
(***************************************************************************)
EXTENDS CommServer

CONSTANTS
  Scenes,          \* who takes part, with what each may do
  SetEndMarker     \* TcpWriter:SetEndMarker

\* A program with a TcpWriter opens its file.  Another client sends commands and
\* lines of these kinds, data lines, which are numbered, up to that number.
TcpWriterOf(file) ==
  [writer |-> TRUE, asks |-> {[command |-> "open", words |-> <<file>>]}, sends |-> {}, upTo |-> 0]
Talker(asks, sends, upTo) == [writer |-> FALSE, asks |-> asks, sends |-> sends, upTo |-> upTo]

\* The commands that a thread looks up, with the files that are named; "other"
\* stands for those that only answer.
Requests ==
  [command : {"open", "close", "close_all", "del", "exit", "shutdown", "other"},
   words : Seq(Files)]

ASSUME HarvestingdAssumption ==
  /\ SetEndMarker \in BOOLEAN
  /\ \A s \in Scenes :
       /\ DOMAIN s \subseteq Clients
       /\ \A c \in DOMAIN s :
            s[c] \in [writer : BOOLEAN, asks : SUBSET Requests,
                     sends : SUBSET (DataEnds \cup OtherEnds), upTo : Nat]

VARIABLES
  scene,    \* client that takes part -> what it may do
  writer,   \* client -> where its program with a TcpWriter is
  sent      \* the data lines that were sent

vars == <<dataVars, commVars, scene, writer, sent>>

Init ==
  /\ DataInit /\ CommInit /\ scene \in Scenes
  /\ writer = [c \in Clients |-> "none"] /\ sent = 0

DataUnchanged == UNCHANGED <<process, channels, servers, bound, acceptors, reader, out, kept, late>>
-----------------------------------------------------------------------------
(***************************************************************************)
(* Any client.                                                             *)
(***************************************************************************)
\* contactServer() for the port that was answered.
ContactChannel(c) ==
  /\ process = "up" /\ threads[c].pc = "none" /\ told[c].port \in bound
  /\ threads' = [threads EXCEPT ![c].pc = "backlog", ![c].port = told[c].port]

Talk(c) ==
  \/ Contact(c) /\ UNCHANGED <<writer, sent>>
  \/ \E r \in scene[c].asks : Interpret(c, r.command, r.words) /\ UNCHANGED <<writer, sent>>
  \/ /\ ContactChannel(c)
     /\ DataUnchanged /\ UNCHANGED <<inbox, commVars, writer, sent>>

\* A client waits for the greeting, and for the acknowledgement of each line,
\* before it sends a line.
Send(c) ==
  /\ process = "up" /\ threads[c].pc = "read" /\ inbox[c] > 0
  /\ inbox' = [inbox EXCEPT ![c] = 0]
  /\ \E end \in scene[c].sends :
       IF end \in OtherEnds
       THEN threads' = [threads EXCEPT ![c].line = Line("", 0, end)] /\ UNCHANGED sent
       ELSE /\ sent < scene[c].upTo /\ sent' = sent + 1
            /\ \E name \in Names :
                 threads' = [threads EXCEPT ![c].line = Line(name, sent', end)]
  /\ DataUnchanged /\ UNCHANGED <<commVars, writer>>
-----------------------------------------------------------------------------
(***************************************************************************)
(* A program with a TcpWriter.  What it saves does not reach the stream it *)
(* sends, so that only its end marker does.                                *)
(***************************************************************************)
\* registerSocket(): another writer for the same url gets the socket of the first.
Negotiate(c) ==
  /\ writer[c] = "none"
  /\ \/ Contact(c) \/ (told[c] = NotTold /\ \E r \in scene[c].asks : Interpret(c, "open", r.words))
  /\ UNCHANGED <<writer, sent>>

Construct(c) ==
  /\ \/ writer[c] = "none" /\ ContactChannel(c)
     \/ writer[c] = "confirmed" /\ UNCHANGED threads
  /\ writer' = [writer EXCEPT ![c] = "built"]
  /\ DataUnchanged /\ UNCHANGED <<inbox, commVars, sent>>

\* The destructor sends the end marker, if it is asked for, and waits for a word.
\* closeSocket() looks for the socket under another key and closes nothing.
Destruct(c) ==
  /\ writer[c] = "built"
  /\ writer' = [writer EXCEPT ![c] = IF SetEndMarker THEN "ending" ELSE "done"]
  /\ threads' = IF SetEndMarker THEN [threads EXCEPT ![c].line = Line("", 0, "end marker")] ELSE threads
  /\ DataUnchanged /\ UNCHANGED <<inbox, commVars, sent>>

\* The first word there is, is taken for the confirmation.
Confirm(c) ==
  /\ writer[c] = "ending" /\ inbox[c] > 0
  /\ inbox' = [inbox EXCEPT ![c] = @ - 1]
  /\ writer' = [writer EXCEPT ![c] = "confirmed"]
  /\ DataUnchanged /\ UNCHANGED <<threads, commVars, sent>>

\* Without one the connection is closed: an exception leaves the destructor.
Fail(c) ==
  /\ writer[c] = "ending" /\ inbox[c] = 0 /\ threads[c].pc = "over"
  /\ writer' = [writer EXCEPT ![c] = "failed"]
  /\ DataUnchanged /\ UNCHANGED <<threads, inbox, commVars, sent>>

Writing(c) == Construct(c) \/ Destruct(c) \/ Confirm(c) \/ Fail(c)
-----------------------------------------------------------------------------
ClientStep ==
  \E c \in DOMAIN scene :
    IF scene[c].writer THEN Negotiate(c) \/ Writing(c) ELSE Talk(c) \/ Send(c)

DaemonStep ==
  \/ \E p \in DOMAIN acceptors : Acceptor(p) /\ UNCHANGED commVars
  \/ \E c \in Clients : DataThread(c) /\ UNCHANGED commVars
  \/ \E c \in Clients : CommThread(c)
  \/ Exiting /\ UNCHANGED commVars

Next == (ClientStep \/ (DaemonStep /\ UNCHANGED <<writer, sent>>)) /\ UNCHANGED scene

\* The threads of the daemon run, the destructor of a TcpWriter does; nobody has
\* to send anything.
Fairness ==
  /\ \A p \in 1..MaxServers :
       WF_vars(p \in DOMAIN acceptors /\ Acceptor(p) /\ UNCHANGED <<commVars, scene, writer, sent>>)
  /\ \A c \in Clients : WF_vars(DataThread(c) /\ UNCHANGED <<commVars, scene, writer, sent>>)
  /\ \A c \in Clients : WF_vars(CommThread(c) /\ UNCHANGED <<scene, writer, sent>>)
  /\ \A c \in Clients : WF_vars((Confirm(c) \/ Fail(c)) /\ UNCHANGED scene)

Spec == Init /\ [][Next]_vars /\ Fairness
-----------------------------------------------------------------------------
ServerNumbers == 0..Len(servers)

TypeOK ==
  /\ process \in {"up", "closing", "closed", "down", "crashed"}
  /\ IsInjective(channels) /\ Range(channels) \subseteq ServerNumbers
  /\ \A s \in DOMAIN servers :
       /\ servers[s].file \in Files /\ servers[s].orig \in {"none", "new", "bound"}
       /\ servers[s].running => servers[s].orig = "bound"
  /\ bound \subseteq 1..Len(servers) /\ DOMAIN acceptors \subseteq bound
  /\ \A c \in Clients : Served(c) => threads[c].port \in DOMAIN acceptors /\ threads[c].file \in Files
  /\ \A f \in Files : kept[f] \subseteq 1..sent

\* The port a client was answered is that of a running channel of the file it
\* asked for, until the channel is closed: whatever ports were given out, closed
\* and counted over before, and whatever the other threads did since (openTransfer,
\* getNewPortNumber, connect_tcp_data_server).
AnsweredPortsListen ==
  process = "up" =>
    \A c \in Clients : told[c].port # 0 /\ ~told[c].stale =>
      LET p == told[c].port
      IN /\ Live(p) /\ servers[channels[p]].file = told[c].file
         /\ servers[channels[p]].running
         /\ acceptors[p].pc = "start" \/ (acceptors[p].pc # "over" /\ acceptors[p].srv = channels[p])

\* A file has one channel, so that its rows meet in one writer's order, and a null
\* pointer, which the next open would follow, is in the map only while an open
\* looks for a free port.
OneChannelPerFile ==
  process = "up" =>
    \A p \in DOMAIN channels :
      IF Live(p)
      THEN \A q \in DOMAIN channels \ {p} :
             Live(q) => servers[channels[p]].file # servers[channels[q]].file
      ELSE \E c \in Clients : comm[c].pc = "insert" /\ p = dataPort

Values(f) == UNION Range(out[f].rows)

\* A row that was acknowledged is in its file, in the order of threads between
\* reading, writing and acknowledging that the scheduler likes, and whoever closes
\* the file in between, if all clients write tuples of one name and nobody has
\* deleted the file (interpret, Writer::close).
AckedRowsAreInTheirFile ==
  Executing => \A f \in Files : out[f].there => kept[f] \subseteq Values(f)

\* An orderly end leaves every file closed with what was acknowledged in it, unless
\* a client's row came behind the closing of the writers (cleanUp, destroy).
EndKeepsRows ==
  process = "down" /\ ~late =>
    \A f \in Files : ~out[f].open /\ (out[f].there => kept[f] \subseteq Values(f))

\* bind() is tried again for ever, on a port that a closed channel listens on, and
\* on the address of another machine, which is that of the last client to come.
HeldUp(c) ==
  comm[c].pc = "bind"
    /\ (comm[c].port \in bound \/ servers[comm[c].srv].allowed \in Remote)

\* A client waits for the answer to an open, for the acknowledgement of a data
\* line, or, in the destructor of a TcpWriter, for a confirmation.
AwaitsPort(c) == comm[c].pc \in {"open", "port", "insert", "connect", "bind", "thread"}
AwaitsAcknowledgement(c) == threads[c].line.end \in DataEnds /\ threads[c].pc # "over"
AwaitsConfirmation(c) == writer[c] = "ending" /\ ~told[c].stale

Waits(c) ==
  \/ AwaitsPort(c) /\ ~HeldUp(c)
  \/ AwaitsAcknowledgement(c)
  \/ AwaitsConfirmation(c)

\* The daemon and its clients do not wait for each other, although the daemon never
\* confirms an end and one of its threads may hold a command for ever: every wait
\* ends, unless it is for an open that a closed channel's port or a client on another
\* machine holds up, the channel of the destructor was closed, or the daemon ends.
NobodyWaitsForEver ==
  \A c \in Clients : (process = "up" /\ Waits(c)) ~> ~(process = "up" /\ Waits(c))

\* "allow connection only from the allowed IP" (TcpDataServer::connect): the channel
\* listens to the client that asked for it, so that its open is answered, unless its
\* port is still taken or the daemon ends.
OpensAreAnswered ==
  \A c \in Clients :
    LET unanswered == process = "up" /\ AwaitsPort(c)
                        /\ ~(comm[c].pc = "bind" /\ comm[c].port \in bound)
    IN unanswered ~> ~unanswered
=============================================================================
