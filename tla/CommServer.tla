----------------------------- MODULE CommServer -----------------------------
(***************************************************************************)
(* The command connections of the daemon: TcpCommServer accepts clients    *)
(* and runs a thread for each; the threads share the map of channels, the  *)
(* last port given out, the words of the last command and the address of   *)
(* the last client.  A command is taken apart where another thread can     *)
(* come in between.  Ports are counted from that of the daemon, which is 0.*)
(***************************************************************************)
EXTENDS DataServer

CONSTANTS
  Remote,       \* the clients that are not on the daemon's machine
  Concurrent,   \* may a client send a command while another's is executed?
  PortSpan,     \* 200: then ports are searched from the first
  MaxChannels,  \* 100: with more, those that do not run are thrown away
  MaxServers    \* bound on the servers that are made

ASSUME CommServerAssumption ==
  /\ Remote \subseteq Clients /\ Nobody \notin Clients
  /\ Concurrent \in BOOLEAN /\ {PortSpan, MaxChannels, MaxServers} \subseteq Nat

VARIABLES
  dataPort,     \* myDataPort
  tokens,       \* myCommandTokens
  lastClient,   \* whose address is in myCliAddr
  comm,         \* client -> where its command thread is, and its local variables
  told          \* client -> the port it was answered, for a file, and whether that was closed since

commVars == <<dataPort, tokens, lastClient, comm, told>>

Idle(pc) == [pc |-> pc, file |-> "", port |-> 0, srv |-> 0]
NotTold == [port |-> 0, file |-> "", stale |-> FALSE]

CommInit ==
  /\ dataPort = 0 /\ tokens = <<>> /\ lastClient = Nobody
  /\ comm = [c \in Clients |-> Idle("away")]
  /\ told = [c \in Clients |-> NotTold]

At(c, pc) == Executing /\ comm[c].pc = pc
Goto(c, pc) == comm' = [comm EXCEPT ![c].pc = pc]
Done(c) == comm' = [comm EXCEPT ![c] = Idle("ready")]

\* One client's command is between its first word and its answer.
Busy(c) == comm[c].pc \notin {"away", "ready"}
-----------------------------------------------------------------------------
\* The main thread accepts the client, the client's thread greets it.
Contact(c) ==
  /\ process = "up" /\ comm[c].pc = "away"
  /\ Done(c) /\ lastClient' = c
  /\ UNCHANGED dataVars /\ UNCHANGED <<dataPort, tokens, told>>

\* The words go into the global variable, then the command is looked up; exit and
\* shutdown are seen before.
Interpret(c, command, words) ==
  /\ process = "up" /\ comm[c].pc = "ready"
  /\ Concurrent \/ \A d \in Clients : ~Busy(d)
  /\ command = "open" => Len(servers) < MaxServers
  /\ tokens' = (IF command \in {"exit", "shutdown"} THEN tokens ELSE words) /\ Goto(c, command)
  /\ UNCHANGED dataVars /\ UNCHANGED <<dataPort, lastClient, told>>

\* Commands that are answered and change nothing, and open and close without a word.
Answer(c) ==
  /\ At(c, "other") \/ ((At(c, "open") \/ At(c, "close") \/ At(c, "del")) /\ tokens = <<>>)
  /\ Done(c)
  /\ UNCHANGED dataVars /\ UNCHANGED <<dataPort, tokens, lastClient, told>>

ExitCommand(c) ==
  /\ At(c, "exit") /\ Goto(c, "away")
  /\ UNCHANGED dataVars /\ UNCHANGED <<dataPort, tokens, lastClient, told>>

Shutdown(c) ==
  /\ process = "up" /\ At(c, "shutdown") /\ Exit /\ Goto(c, "away")
  /\ UNCHANGED <<channels, servers, bound, acceptors, threads, inbox, reader, out, kept, late>>
  /\ UNCHANGED <<dataPort, tokens, lastClient, told>>
-----------------------------------------------------------------------------
(***************************************************************************)
(* open <file>                                                             *)
(***************************************************************************)
ChannelsOf(file) == {p \in DOMAIN channels : Live(p) /\ servers[channels[p]].file = file}
NullBefore(P) == \E p \in DOMAIN channels : ~Live(p) /\ \A q \in P : p < q

Told(c, port, file) == told' = [told EXCEPT ![c] = [port |-> port, file |-> file, stale |-> FALSE]]

\* A null pointer in the map ends the daemon.
Look(c) ==
  /\ At(c, "open") /\ tokens # <<>>
  /\ LET file == tokens[1]
         found == ChannelsOf(file)
     IN \/ /\ NullBefore(found) /\ process' = "crashed" /\ UNCHANGED <<comm, told>>
        \/ /\ ~NullBefore(found) /\ found # {}
           /\ Told(c, Min(found), file) /\ Done(c) /\ UNCHANGED process
        \/ /\ ~NullBefore(found) /\ found = {}
           /\ comm' = [comm EXCEPT ![c].pc = "port", ![c].file = file]
           /\ UNCHANGED <<process, told>>
  /\ UNCHANGED <<channels, servers, bound, acceptors, threads, inbox, reader, out, kept, late>>
  /\ UNCHANGED <<dataPort, tokens, lastClient>>

\* checkDataChannels(): the search for a port goes on from the last one thrown
\* away, unless the process ends in the loop, which goes on from the entry that it
\* has erased.  To ask the map for a port leaves a null pointer there.
Dead == {p \in DOMAIN channels : Live(p) /\ ~servers[channels[p]].running}

FirstFree(chs) == Min({p \in 1..(Len(servers) + 1) : p \notin DOMAIN chs \/ chs[p] = 0})

\* Variant: the ports start again without a search.
CountPortUnsearched(port, chs) == IF port + 1 > PortSpan THEN 1 ELSE port + 1

CountPort(port, chs) == IF port + 1 > PortSpan THEN FirstFree(chs) ELSE port + 1

NewPort(c) ==
  /\ At(c, "port")
  /\ LET dead == IF Cardinality(DOMAIN channels) > MaxChannels THEN Dead ELSE {}
         left == Restrict(channels, DOMAIN channels \ dead)
         last == IF dead = {} THEN dataPort ELSE Max(dead)
     IN /\ servers' = Destroyed(servers, {channels[p] : p \in dead})
        /\ dataPort' = CountPort(last, left)
        /\ channels' = IF last + 1 > PortSpan THEN With(left, dataPort', 0) ELSE left
        /\ \/ Goto(c, "insert") /\ UNCHANGED process
           \/ dead # {} /\ process' = "crashed" /\ UNCHANGED comm
  /\ UNCHANGED <<bound, acceptors, threads, inbox, reader, out, kept, late>>
  /\ UNCHANGED <<tokens, lastClient, told>>

\* The port is read back from the global variable.
Insert(c) ==
  /\ At(c, "insert")
  /\ servers' = Append(servers, NewServer(comm[c].file, lastClient))
  /\ channels' = With(channels, dataPort, Len(servers'))
  /\ comm' = [comm EXCEPT ![c].pc = "connect", ![c].port = dataPort]
  /\ UNCHANGED <<process, bound, acceptors, threads, inbox, reader, out, kept, late>>
  /\ UNCHANGED <<dataPort, tokens, lastClient, told>>

\* connect() of the server that the map has for the port, with a new socket.
Connect(c) ==
  /\ At(c, "connect")
  /\ IF Live(comm[c].port)
     THEN LET s == channels[comm[c].port]
          IN /\ servers' = [servers EXCEPT ![s].orig = "new"]
             /\ comm' = [comm EXCEPT ![c].pc = "bind", ![c].srv = s]
             /\ UNCHANGED process
     ELSE process' = "crashed" /\ UNCHANGED <<servers, comm>>
  /\ UNCHANGED <<channels, bound, acceptors, threads, inbox, reader, out, kept, late>>
  /\ UNCHANGED <<dataPort, tokens, lastClient, told>>

\* Tried again until the port is free and the address, which is that of the
\* client, is one of this machine.
Bind(c) ==
  /\ At(c, "bind") /\ comm[c].port \notin bound /\ servers[comm[c].srv].allowed \notin Remote
  /\ bound' = bound \cup {comm[c].port}
  /\ servers' = [servers EXCEPT ![comm[c].srv].orig = "bound", ![comm[c].srv].running = TRUE]
  /\ Goto(c, "thread")
  /\ UNCHANGED <<process, channels, acceptors, threads, inbox, reader, out, kept, late>>
  /\ UNCHANGED <<dataPort, tokens, lastClient, told>>

\* The server may have been deleted since.
BindFreed(c) ==
  /\ At(c, "bind") /\ servers[comm[c].srv].destroyed /\ process' = "crashed"
  /\ UNCHANGED <<channels, servers, bound, acceptors, threads, inbox, reader, out, kept, late>>
  /\ UNCHANGED commVars

Thread(c) ==
  /\ At(c, "thread")
  /\ acceptors' = With(acceptors, comm[c].port, [pc |-> "start", srv |-> 0])
  /\ Told(c, comm[c].port, comm[c].file) /\ Done(c)
  /\ UNCHANGED <<process, channels, servers, bound, threads, inbox, reader, out, kept, late>>
  /\ UNCHANGED <<dataPort, tokens, lastClient>>

\* Variant: one lock for all opens, which is held while bind is tried again.
OpenLocked(c) ==
  \/ Look(c) /\ \A d \in Clients : comm[d].pc # "bind"
  \/ NewPort(c) \/ Insert(c) \/ Connect(c) \/ Bind(c) \/ BindFreed(c) \/ Thread(c)

Open(c) == Look(c) \/ NewPort(c) \/ Insert(c) \/ Connect(c) \/ Bind(c) \/ BindFreed(c) \/ Thread(c)
-----------------------------------------------------------------------------
(***************************************************************************)
(* close <file>, close_all, del <files>                                    *)
(***************************************************************************)
Close(c) ==
  /\ At(c, "close") /\ tokens # <<>>
  /\ comm' = [comm EXCEPT ![c].pc = "closing", ![c].file = tokens[1]]
  /\ UNCHANGED dataVars /\ UNCHANGED <<dataPort, tokens, lastClient, told>>

\* A channel of the file is deleted and the client answered; without one it is
\* not.
CloseChannel(c) ==
  /\ At(c, "closing")
  /\ LET found == ChannelsOf(comm[c].file)
     IN IF found = {} THEN Done(c) /\ UNCHANGED <<channels, servers, threads, told>>
        ELSE /\ DeleteChannel(Min(found)) /\ Goto(c, "flush")
             /\ told' = [d \in Clients |-> IF told[d].port = Min(found)
                                           THEN [told[d] EXCEPT !.stale = TRUE] ELSE told[d]]
  /\ UNCHANGED <<process, bound, acceptors, inbox, reader, out, kept, late>>
  /\ UNCHANGED <<dataPort, tokens, lastClient>>

\* Then the loop goes on from the entry it has erased, or the process ends there.
Flush(c) ==
  /\ At(c, "flush") /\ ClosedFile(comm[c].file)
  /\ \/ Goto(c, "closing") /\ UNCHANGED process
     \/ process' = "crashed" /\ UNCHANGED comm
  /\ UNCHANGED <<channels, servers, bound, acceptors, threads, inbox, reader, kept, late>>
  /\ UNCHANGED <<dataPort, tokens, lastClient, told>>

\* The answer is made from the pointer that was just set to null.
CloseAll(c) ==
  /\ At(c, "close_all")
  /\ IF \E p \in DOMAIN channels : Live(p)
     THEN process' = "crashed" /\ UNCHANGED <<channels, out, comm>>
     ELSE /\ channels' = <<>>
          /\ out' = [f \in Files |-> [out[f] EXCEPT !.open = FALSE]]
          /\ Done(c) /\ UNCHANGED process
  /\ UNCHANGED <<servers, bound, acceptors, threads, inbox, reader, kept, late>>
  /\ UNCHANGED <<dataPort, tokens, lastClient, told>>

\* The first of the files that is there is deleted.
Delete(c) ==
  /\ At(c, "del") /\ tokens # <<>>
  /\ LET there == {i \in DOMAIN tokens : out[tokens[i]].there}
     IN out' = IF there = {} THEN out ELSE [out EXCEPT ![tokens[Min(there)]].there = FALSE]
  /\ Done(c)
  /\ UNCHANGED <<process, channels, servers, bound, acceptors, threads, inbox, reader, kept, late>>
  /\ UNCHANGED <<dataPort, tokens, lastClient, told>>

CommThread(c) ==
  \/ Answer(c) \/ ExitCommand(c) \/ Shutdown(c) \/ Open(c)
  \/ Close(c) \/ CloseChannel(c) \/ Flush(c) \/ CloseAll(c) \/ Delete(c)
=============================================================================
