-------------------------- MODULE HarvestingdProofs --------------------------
(***************************************************************************)
(* Proofs about the daemon, for any number of clients, files, ports and    *)
(* commands, and any interleaving of their threads.                        *)
(***************************************************************************)
EXTENDS Harvestingd, TLAPS, SequenceTheorems, FiniteSetTheorems, WellFoundedInduction

\* A set of numbers that is not empty has a least one, and a greatest if it is bounded.
LEMMA Least ==
  ASSUME NEW T, T \subseteq Nat, T # {}
  PROVE  \E n \in T : \A m \in T : n <= m
<1> DEFINE R == {p \in Nat \X Nat : p[1] < p[2]}
<1>1. IsWellFoundedOn(OpToRel(<, Nat), Nat)
  BY NatLessThanWellFounded
<1>2. IsWellFoundedOn(R, Nat)
  BY <1>1 DEF OpToRel
<1>3. \A x, y \in Nat : <<x, y>> \in R <=> x < y
  <2> TAKE x, y \in Nat
  <2>1. <<x, y>> \in Nat \X Nat /\ <<x, y>>[1] = x /\ <<x, y>>[2] = y
    OBVIOUS
  <2> QED BY <2>1, Zenon
<1> HIDE DEF R
<1>4. \E x \in T : \A y \in T : ~(<<y, x>> \in R)
  BY <1>2, WFMin
<1>5. PICK n \in T : \A y \in T : ~(<<y, n>> \in R)
  BY <1>4
<1>6. \A m \in T : n <= m
  <2> TAKE m \in T
  <2>1. n \in Nat /\ m \in Nat /\ ~(m < n)
    BY <1>3, <1>5
  <2> QED BY <2>1
<1> QED BY <1>6

LEMMA Greatest ==
  ASSUME NEW T, T \subseteq Nat, T # {}, NEW b \in Nat, \A n \in T : n <= b
  PROVE  \E n \in T : \A m \in T : n >= m
<1> DEFINE U == {b - n : n \in T}
<1>1. U \subseteq Nat /\ U # {}
  <2>1. \A n \in T : b - n \in Nat
    OBVIOUS
  <2> QED BY <2>1
<1> HIDE DEF U
<1>2. PICK u \in U : \A v \in U : u <= v
  BY <1>1, Least
<1>3. PICK n \in T : u = b - n
  BY <1>2 DEF U
<1>4. \A m \in T : n >= m
  <2> TAKE m \in T
  <2>1. u <= b - m /\ m \in Nat /\ n \in Nat
    BY <1>2 DEF U
  <2> QED BY <1>3, <2>1
<1> QED BY <1>4

LEMMA MinIs ==
  ASSUME NEW T, T \subseteq Nat, T # {}
  PROVE  Min(T) \in T /\ \A m \in T : Min(T) <= m
BY Least DEF Min

LEMMA MaxIs ==
  ASSUME NEW T, T \subseteq Nat, T # {}, NEW b \in Nat, \A n \in T : n <= b
  PROVE  Max(T) \in T /\ \A m \in T : Max(T) >= m
BY Greatest DEF Max

(***************************************************************************)
(* The types of the variables.  They hold also when commands interleave.   *)
(***************************************************************************)
Servers ==
  [file : Files, allowed : Clients \cup {Nobody}, orig : {"none", "new", "bound"},
   running : BOOLEAN, destroyed : BOOLEAN, last : Clients \cup {Nobody}]

LineType ==
  [name : Names \cup {""}, value : Nat, end : DataEnds \cup OtherEnds \cup {""}]

Threads ==
  [pc : {"none", "backlog", "read", "write", "acknowledge", "over"}, port : Nat,
   file : Files \cup {""}, line : LineType, cut : BOOLEAN]

AcceptorType == [pc : {"start", "listen", "accept", "over"}, srv : Nat]

TupleType == [name : Names \cup {""}, rows : Seq(SUBSET Nat), cur : SUBSET Nat]

Outputs == [open : BOOLEAN, there : BOOLEAN, rows : Seq(SUBSET Nat)]

Opening == {"port", "insert", "connect", "bind", "thread"}

CommPcs ==
  {"away", "ready", "open", "close", "close_all", "del", "exit", "shutdown", "other",
   "closing", "flush"} \cup Opening

CommType == [pc : CommPcs, file : Files \cup {""}, port : Nat, srv : Nat]

ToldType == [port : Nat, file : Files \cup {""}, stale : BOOLEAN]

ProcessFits == process \in {"up", "closing", "closed", "down", "crashed"} /\ late \in BOOLEAN

ServersFit == servers \in Seq(Servers)

\* The map has finitely many ports, and each server at one of them.
ChannelsFit ==
  /\ DOMAIN channels \subseteq Nat
  /\ \E b \in Nat : \A p \in DOMAIN channels : p <= b
  /\ \A p \in DOMAIN channels : channels[p] \in 0 .. Len(servers)
  /\ \A p, q \in DOMAIN channels : channels[p] = channels[q] => p = q \/ channels[p] = 0

\* A thread past the first step of a channel knows a server.
AcceptorsFit ==
  /\ bound \subseteq Nat /\ DOMAIN acceptors \subseteq bound
  /\ \A p \in DOMAIN acceptors :
       /\ acceptors[p] \in AcceptorType
       /\ acceptors[p].pc \in {"listen", "accept"} => acceptors[p].srv \in DOMAIN servers

\* A client that is served has a file, and an acceptor that let it in.
ThreadsFit ==
  /\ threads \in [Clients -> Threads] /\ inbox \in [Clients -> Nat]
  /\ \A c \in Clients : Served(c) => threads[c].port \in DOMAIN acceptors /\ threads[c].file \in Files

RowsFit ==
  reader \in TupleType /\ out \in [Files -> Outputs] /\ kept \in [Files -> SUBSET Nat]

CommandsFit ==
  /\ dataPort \in Nat /\ tokens \in Seq(Files) /\ lastClient \in Clients \cup {Nobody}
  /\ told \in [Clients -> ToldType]

\* What a command thread works with when it is past some point.
CommFits ==
  /\ comm \in [Clients -> CommType]
  /\ \A c \in Clients :
       /\ comm[c].pc \in Opening \cup {"closing", "flush"} => comm[c].file \in Files
       /\ comm[c].pc \in {"bind", "thread"} => comm[c].srv \in DOMAIN servers
       /\ comm[c].pc = "thread" => comm[c].port \in bound

ClientsFit ==
  /\ scene \in Scenes
  /\ writer \in [Clients -> {"none", "built", "ending", "confirmed", "done", "failed"}]
  /\ sent \in Nat

TypeInv ==
  /\ ProcessFits /\ ServersFit /\ ChannelsFit /\ AcceptorsFit /\ ThreadsFit /\ RowsFit
  /\ CommandsFit /\ CommFits /\ ClientsFit

LEMMA InitTypes == ASSUME Init PROVE TypeInv
<1>1. ProcessFits
  BY DEF Init, DataInit, ProcessFits
<1>7. servers = <<>> /\ channels = <<>> /\ acceptors = <<>> /\ bound = {}
  BY DEF Init, DataInit
<1>8. ServersFit
  BY <1>7 DEF ServersFit
<1>9. ChannelsFit
  BY <1>7 DEF ChannelsFit
<1>10. AcceptorsFit
  BY <1>7 DEF AcceptorsFit
<1>2. ThreadsFit
  <2>1. NoThread \in Threads
    BY DEF NoThread, NoLine, Line, Threads, LineType
  <2> QED BY <2>1 DEF Init, DataInit, ThreadsFit, Served, NoThread
<1>3. RowsFit
  <2>1. NewTuple("") \in TupleType /\ [open |-> FALSE, there |-> FALSE, rows |-> <<>>] \in Outputs
    BY DEF NewTuple, TupleType, Outputs
  <2> QED BY <2>1 DEF Init, DataInit, RowsFit
<1>4. CommandsFit
  <2>1. NotTold \in ToldType
    BY DEF NotTold, ToldType
  <2>2. dataPort = 0 /\ tokens = <<>> /\ lastClient = Nobody /\ told = [c \in Clients |-> NotTold]
    BY DEF Init, CommInit
  <2> QED BY <2>1, <2>2 DEF CommandsFit
<1>5. CommFits
  <2>1. Idle("away") \in CommType
    BY DEF Idle, CommType, CommPcs
  <2> QED BY <2>1 DEF Init, CommInit, CommFits, Idle, Opening
<1>6. ClientsFit
  BY DEF Init, ClientsFit
<1> QED BY <1>1, <1>2, <1>3, <1>4, <1>5, <1>6, <1>8, <1>9, <1>10 DEF TypeInv

-----------------------------------------------------------------------------
\* What a step leaves alone keeps its type.
LEMMA Frames ==
  ASSUME TypeInv
  PROVE  /\ UNCHANGED <<process, late>> => ProcessFits'
         /\ UNCHANGED servers => ServersFit'
         /\ UNCHANGED <<channels, servers>> => ChannelsFit'
         /\ UNCHANGED <<bound, acceptors, servers>> => AcceptorsFit'
         /\ UNCHANGED <<threads, inbox, acceptors>> => ThreadsFit'
         /\ UNCHANGED <<reader, out, kept>> => RowsFit'
         /\ UNCHANGED <<dataPort, tokens, lastClient, told>> => CommandsFit'
         /\ UNCHANGED <<comm, servers, bound>> => CommFits'
         /\ UNCHANGED <<scene, writer, sent>> => ClientsFit'
<1> USE DEF TypeInv
<1>1. UNCHANGED <<process, late>> => ProcessFits'
  BY DEF ProcessFits
<1>2. UNCHANGED servers => ServersFit'
  BY DEF ServersFit
<1>3. UNCHANGED <<channels, servers>> => ChannelsFit'
  BY DEF ChannelsFit
<1>4. UNCHANGED <<bound, acceptors, servers>> => AcceptorsFit'
  BY DEF AcceptorsFit
<1>5. UNCHANGED <<threads, inbox, acceptors>> => ThreadsFit'
  BY DEF ThreadsFit, Served
<1>6. UNCHANGED <<reader, out, kept>> => RowsFit'
  BY DEF RowsFit
<1>7. UNCHANGED <<dataPort, tokens, lastClient, told>> => CommandsFit'
  BY DEF CommandsFit
<1>8. UNCHANGED <<comm, servers, bound>> => CommFits'
  BY DEF CommFits
<1>9. UNCHANGED <<scene, writer, sent>> => ClientsFit'
  BY DEF ClientsFit
<1> QED BY <1>1, <1>2, <1>3, <1>4, <1>5, <1>6, <1>7, <1>8, <1>9

LEMMA ServersDomain ==
  ASSUME ServersFit PROVE DOMAIN servers = 1 .. Len(servers) /\ Len(servers) \in Nat
BY DEF ServersFit

\* Servers are changed and added, never taken away.
LEMMA ServersChange ==
  ASSUME TypeInv, servers' \in Seq(Servers), Len(servers) <= Len(servers')
  PROVE  /\ ServersFit'
         /\ DOMAIN servers \subseteq DOMAIN servers'
         /\ UNCHANGED channels => ChannelsFit'
         /\ UNCHANGED <<bound, acceptors>> => AcceptorsFit'
         /\ UNCHANGED <<comm, bound>> => CommFits'
<1> USE DEF TypeInv
<1>1. ServersFit'
  BY DEF ServersFit
<1>2. Len(servers) \in Nat /\ Len(servers') \in Nat
  BY <1>1, ServersDomain DEF ServersFit
<1>3. DOMAIN servers \subseteq DOMAIN servers'
  BY <1>1, <1>2, ServersDomain DEF ServersFit
<1>4. UNCHANGED channels => ChannelsFit'
  BY <1>2 DEF ChannelsFit
<1>5. UNCHANGED <<bound, acceptors>> => AcceptorsFit'
  BY <1>3 DEF AcceptorsFit
<1>6. UNCHANGED <<comm, bound>> => CommFits'
  BY <1>3 DEF CommFits
<1> QED BY <1>1, <1>3, <1>4, <1>5, <1>6

LEMMA DestroyedType ==
  ASSUME NEW srvs \in Seq(Servers), NEW S
  PROVE  Destroyed(srvs, S) \in Seq(Servers) /\ Len(Destroyed(srvs, S)) = Len(srvs)
<1> DEFINE new == Destroyed(srvs, S)
<1>1. \A s \in DOMAIN srvs : srvs[s] \in Servers
  OBVIOUS
<1>2. \A s \in DOMAIN srvs : new[s] \in Servers
  BY <1>1 DEF Destroyed, Servers
<1>3. DOMAIN srvs = 1 .. Len(srvs) /\ Len(srvs) \in Nat
  OBVIOUS
<1>4. new \in [1 .. Len(srvs) -> Servers]
  BY <1>2, <1>3 DEF Destroyed
<1> HIDE DEF new
<1> QED BY <1>3, <1>4 DEF new

LEMMA CutIs ==
  ASSUME threads \in [Clients -> Threads], NEW V
  PROVE  /\ Cut(V) \in [Clients -> Threads]
         /\ \A c \in Clients :
              /\ Cut(V)[c].pc = threads[c].pc /\ Cut(V)[c].port = threads[c].port
              /\ Cut(V)[c].file = threads[c].file /\ Cut(V)[c].line = threads[c].line
<1>1. \A c \in Clients : Cut(V)[c] \in {threads[c], [threads[c] EXCEPT !.cut = TRUE]}
  BY DEF Cut
<1>2. \A c \in Clients : threads[c] \in Threads
  OBVIOUS
<1>3. ASSUME NEW c \in Clients, NEW t \in {threads[c], [threads[c] EXCEPT !.cut = TRUE]}
      PROVE  /\ t \in Threads
             /\ t.pc = threads[c].pc /\ t.port = threads[c].port
             /\ t.file = threads[c].file /\ t.line = threads[c].line
  BY <1>2 DEF Threads
<1>4. \A c \in Clients : Cut(V)[c] \in Threads
  BY <1>1, <1>3
<1>5. Cut(V) \in [Clients -> Threads]
  BY <1>4 DEF Cut
<1> QED BY <1>1, <1>3, <1>5

\* To cut connections off leaves the rest of them alone.
LEMMA CutTypes ==
  ASSUME TypeInv, NEW V, threads' = Cut(V), UNCHANGED inbox,
         DOMAIN acceptors \subseteq DOMAIN acceptors'
  PROVE  ThreadsFit'
<1>1. threads \in [Clients -> Threads]
  BY DEF TypeInv, ThreadsFit
<1>2. threads' \in [Clients -> Threads]
  BY <1>1, CutIs
<1>3. \A c \in Clients : threads'[c].pc = threads[c].pc /\ threads'[c].port = threads[c].port
                         /\ threads'[c].file = threads[c].file
  BY <1>1, CutIs
<1> QED BY <1>2, <1>3 DEF TypeInv, ThreadsFit, Served

LEMMA DeleteChannelTypes ==
  ASSUME TypeInv, NEW p, DeleteChannel(p), UNCHANGED <<bound, inbox>>,
         DOMAIN acceptors \subseteq DOMAIN acceptors'
  PROVE  /\ ServersFit' /\ ChannelsFit' /\ ThreadsFit'
         /\ DOMAIN servers' = DOMAIN servers
         /\ UNCHANGED comm => CommFits'
         /\ UNCHANGED acceptors => AcceptorsFit'
<1>1. servers' \in Seq(Servers) /\ Len(servers') = Len(servers)
  BY DestroyedType DEF DeleteChannel, TypeInv, ServersFit
<1>2. ServersFit /\ Len(servers) \in Nat
  BY ServersDomain DEF TypeInv
<1>3. ServersFit' /\ (UNCHANGED comm => CommFits') /\ (UNCHANGED acceptors => AcceptorsFit')
  BY <1>1, <1>2, ServersChange
<1>4. DOMAIN servers' = DOMAIN servers
  BY <1>1, <1>2, <1>3, ServersDomain DEF ServersFit
<1>5. ChannelsFit'
  BY <1>1 DEF DeleteChannel, Without, Restrict, TypeInv, ChannelsFit
<1>6. ThreadsFit'
  <2>1. CASE Live(p)
    <3>1. PICK V : threads' = Cut(V)
      BY <2>1 DEF DeleteChannel
    <3> QED BY <3>1, CutTypes
  <2>2. CASE ~Live(p)
    BY <2>2 DEF DeleteChannel, TypeInv, ThreadsFit, Served
  <2> QED BY <2>1, <2>2
<1> QED BY <1>1, <1>3, <1>4, <1>5, <1>6
-----------------------------------------------------------------------------
(***************************************************************************)
(* The thread of a channel.                                                *)
(***************************************************************************)
LEMMA StartTypes ==
  ASSUME TypeInv, NEW p \in DOMAIN acceptors, Start(p),
         UNCHANGED <<commVars, scene, writer, sent>>
  PROVE  TypeInv'
<1>1. ChannelsFit'
  BY DEF Start, TypeInv, ChannelsFit, Without, Restrict, Live
<1>2. AcceptorsFit'
  <2>1. CASE Live(p)
    <3>1. channels[p] \in DOMAIN servers /\ channels[p] \in Nat
      BY <2>1, ServersDomain DEF TypeInv, ChannelsFit, Live
    <3>2. [pc |-> "listen", srv |-> channels[p]] \in AcceptorType
      BY <3>1 DEF AcceptorType
    <3> QED BY <2>1, <3>1, <3>2 DEF Start, TypeInv, AcceptorsFit
  <2>2. CASE ~Live(p)
    BY <2>2 DEF Start, TypeInv, AcceptorsFit, AcceptorType
  <2> QED BY <2>1, <2>2
<1>3. ThreadsFit'
  BY DEF Start, TypeInv, ThreadsFit, Served
<1> QED BY <1>1, <1>2, <1>3, Frames DEF TypeInv, Start, commVars

LEMMA ListenTypes ==
  ASSUME TypeInv, NEW p \in DOMAIN acceptors, Listen(p),
         UNCHANGED <<commVars, scene, writer, sent>>
  PROVE  TypeInv'
<1> DEFINE server == servers[acceptors[p].srv]
           goes_on == ~server.destroyed /\ server.orig = "bound"
<1>1. acceptors' = IF goes_on THEN [acceptors EXCEPT ![p].pc = "accept"]
                   ELSE [acceptors EXCEPT ![p].pc = "over"]
  BY DEF Listen
<1>2. DOMAIN acceptors' = DOMAIN acceptors
  BY <1>1
<1>3. DOMAIN servers' = DOMAIN servers /\ ServersFit' /\ ChannelsFit' /\ ThreadsFit' /\ CommFits'
  <2>1. CASE goes_on
    <3>1. UNCHANGED <<channels, servers, threads, inbox, comm, bound>>
      BY <2>1 DEF Listen, commVars
    <3>2. ThreadsFit'
      BY <1>2, <3>1 DEF TypeInv, ThreadsFit, Served
    <3> QED BY <3>1, <3>2, Frames
  <2>2. CASE ~goes_on
    <3>1. DeleteChannel(p) /\ UNCHANGED <<bound, inbox, comm>>
      BY <2>2 DEF Listen, commVars
    <3> QED BY <1>2, <3>1, DeleteChannelTypes
  <2> QED BY <2>1, <2>2
<1>4. AcceptorsFit'
  <2>1. UNCHANGED bound /\ acceptors[p].pc = "listen"
    BY DEF Listen
  <2> QED BY <1>1, <1>2, <1>3, <2>1 DEF TypeInv, AcceptorsFit, AcceptorType
<1> QED BY <1>3, <1>4, Frames DEF TypeInv, Listen, commVars

LEMMA AcceptTypes ==
  ASSUME TypeInv, NEW p \in DOMAIN acceptors, Accept(p),
         UNCHANGED <<commVars, scene, writer, sent>>
  PROVE  TypeInv'
<1>1. CASE UNCHANGED <<servers, acceptors, threads, inbox>>
  <2>1. ProcessFits'
    BY DEF Accept, TypeInv, ProcessFits
  <2> QED BY <1>1, <2>1, Frames DEF TypeInv, Accept, commVars
<1>2. CASE ~UNCHANGED <<servers, acceptors, threads, inbox>>
  <2> DEFINE s == acceptors[p].srv
  <2>1. PICK c \in Clients :
          /\ threads[c].pc = "backlog" /\ threads[c].port = p
          /\ servers' = [servers EXCEPT ![s].last = c]
          /\ threads' = [threads EXCEPT ![c].pc = "read", ![c].file = servers[s].file]
          /\ inbox' = [inbox EXCEPT ![c] = @ + 1]
          /\ acceptors' = [acceptors EXCEPT ![p].pc = "listen"]
          /\ UNCHANGED <<process, bound, channels>>
    BY <1>2 DEF Accept
  <2>2. s \in DOMAIN servers
    BY DEF Accept, TypeInv, AcceptorsFit
  <2>9. servers[s] \in Servers
    BY <2>2 DEF TypeInv, ServersFit
  <2>3. [servers[s] EXCEPT !.last = c] \in Servers /\ servers[s].file \in Files
    BY <2>9 DEF Servers
  <2>4. servers' \in Seq(Servers) /\ Len(servers') = Len(servers) /\ Len(servers) \in Nat
    BY <2>1, <2>2, <2>3 DEF TypeInv, ServersFit
  <2>5. ServersFit' /\ ChannelsFit' /\ CommFits' /\ DOMAIN servers \subseteq DOMAIN servers'
    BY <2>1, <2>4, ServersChange DEF commVars
  <2>6. AcceptorsFit'
    BY <2>1, <2>2, <2>5 DEF TypeInv, AcceptorsFit, AcceptorType
  <2>7. ThreadsFit'
    <3>1. threads[c] \in Threads /\ inbox[c] + 1 \in Nat
      BY DEF TypeInv, ThreadsFit
    <3>2. [threads[c] EXCEPT !.pc = "read", !.file = servers[s].file] \in Threads
      BY <2>3, <3>1 DEF Threads
    <3>3. threads' \in [Clients -> Threads] /\ inbox' \in [Clients -> Nat]
      BY <2>1, <3>1, <3>2 DEF TypeInv, ThreadsFit
    <3>4. threads'[c].port = p /\ threads'[c].file \in Files
      BY <2>1, <2>3, <3>1 DEF TypeInv, ThreadsFit, Threads
    <3>5. \A d \in Clients \ {c} : threads'[d] = threads[d]
      BY <2>1 DEF TypeInv, ThreadsFit
    <3>6. DOMAIN acceptors' = DOMAIN acceptors
      BY <2>1
    <3> QED BY <3>3, <3>4, <3>5, <3>6 DEF TypeInv, ThreadsFit, Served
  <2> QED BY <2>1, <2>5, <2>6, <2>7, Frames DEF TypeInv, Accept, commVars
<1> QED BY <1>1, <1>2
-----------------------------------------------------------------------------
(***************************************************************************)
(* The thread of a client.                                                 *)
(***************************************************************************)
LEMMA ThreadTypes ==
  ASSUME TypeInv, NEW c \in Clients, NEW t \in Threads,
         threads' = [threads EXCEPT ![c] = t], inbox' \in [Clients -> Nat], UNCHANGED acceptors,
         t.pc \in {"read", "write", "acknowledge"} => Served(c),
         t.port = threads[c].port, t.file = threads[c].file
  PROVE  ThreadsFit'
<1>1. threads' \in [Clients -> Threads]
  BY DEF TypeInv, ThreadsFit
<1>2. threads'[c] = t /\ \A d \in Clients \ {c} : threads'[d] = threads[d]
  BY DEF TypeInv, ThreadsFit
<1> QED BY <1>1, <1>2 DEF TypeInv, ThreadsFit, Served

LEMMA ThreadIs ==
  ASSUME TypeInv, NEW c \in Clients
  PROVE  /\ threads[c] \in Threads /\ threads \in [Clients -> Threads]
         /\ \A pc \in {"write", "acknowledge", "over", "read"} :
              LET t == [threads[c] EXCEPT !.pc = pc]
              IN  t \in Threads /\ t.pc = pc /\ t.port = threads[c].port /\ t.file = threads[c].file
         /\ LET t == [threads[c] EXCEPT !.line = NoLine]
            IN  t \in Threads /\ t.pc = threads[c].pc
                /\ t.port = threads[c].port /\ t.file = threads[c].file
         /\ inbox[c] \in Nat /\ inbox \in [Clients -> Nat]
<1>1. threads[c] \in Threads /\ threads \in [Clients -> Threads]
      /\ inbox[c] \in Nat /\ inbox \in [Clients -> Nat]
  BY DEF TypeInv, ThreadsFit
<1>2. NoLine \in LineType
  BY DEF NoLine, Line, LineType
<1> QED BY <1>1, <1>2 DEF Threads

LEMMA ReadTypes ==
  ASSUME TypeInv, NEW c \in Clients, Read(c), UNCHANGED <<commVars, scene, writer, sent>>
  PROVE  TypeInv'
<1> DEFINE line == threads[c].line
           pc == IF line.end = "." THEN "write" ELSE "acknowledge"
           tuple == IF reader.name = line.name THEN reader ELSE NewTuple(line.name)
           row == tuple.cur \cup {line.value}
<1>1. line.name \in Names \cup {""} /\ line.value \in Nat
  BY ThreadIs DEF Threads, LineType
<1>2. tuple \in TupleType
  <2>1. reader \in TupleType
    BY DEF TypeInv, RowsFit
  <2>3. <<>> \in Seq(SUBSET Nat) /\ {} \in SUBSET Nat
    OBVIOUS
  <2>2. NewTuple(line.name) \in TupleType
    BY <1>1, <2>3, Zenon DEF NewTuple, TupleType
  <2> QED BY <2>1, <2>2
<1> HIDE DEF tuple
<1>3. tuple.rows \in Seq(SUBSET Nat) /\ row \in SUBSET Nat
  BY <1>1, <1>2 DEF TupleType
<1> HIDE DEF row, line
<1>4. Append(tuple.rows, row) \in Seq(SUBSET Nat)
  BY <1>3
<1>5. [tuple EXCEPT !.rows = Append(@, row), !.cur = {}] \in TupleType
      /\ [tuple EXCEPT !.cur = row] \in TupleType
  BY <1>2, <1>3, <1>4 DEF TupleType
<1>6. AddLine(reader, line) \in TupleType
  BY <1>5 DEF AddLine, tuple, row
<1>7. reader' \in TupleType
  BY <1>6 DEF Read, line
<1>8. RowsFit'
  BY <1>7 DEF Read, TypeInv, RowsFit
<1>9. threads' = [threads EXCEPT ![c] = [threads[c] EXCEPT !.pc = pc]] /\ Served(c)
  BY DEF Read, Served, line
<1> DEFINE t == [threads[c] EXCEPT !.pc = pc]
<1>10. t \in Threads /\ t.port = threads[c].port /\ t.file = threads[c].file
  BY ThreadIs
<1>12. inbox' \in [Clients -> Nat] /\ UNCHANGED acceptors
  BY ThreadIs DEF Read
<1> HIDE DEF t
<1>11. ThreadsFit'
  BY <1>9, <1>10, <1>12, ThreadTypes DEF t
<1> QED BY <1>8, <1>11, Frames DEF TypeInv, Read, commVars

LEMMA StoppingTypes ==
  ASSUME TypeInv, NEW c \in Clients,
         Ignore(c) \/ EndMarker(c) \/ Broken(c) \/ Disconnected(c),
         UNCHANGED <<commVars, scene, writer, sent>>
  PROVE  TypeInv'
<1>1. PICK t \in {[threads[c] EXCEPT !.line = NoLine], [threads[c] EXCEPT !.pc = "over"]} :
        threads' = [threads EXCEPT ![c] = t] /\ (t.pc = "over" \/ t.pc = threads[c].pc)
  BY ThreadIs DEF Ignore, EndMarker, Broken, Disconnected, Threads
<1>2. threads[c].pc = "read" /\ UNCHANGED <<inbox, acceptors>>
  BY DEF Ignore, EndMarker, Broken, Disconnected
<1>3. t \in Threads /\ t.port = threads[c].port /\ t.file = threads[c].file
  BY ThreadIs
<1>4. ThreadsFit'
  BY <1>1, <1>2, <1>3, ThreadIs, ThreadTypes DEF Served
<1>5. ProcessFits'
  BY DEF Ignore, EndMarker, Broken, Disconnected, Exit, TypeInv, ProcessFits
<1>6. RowsFit'
  <2>1. \A f \in Files : [out[f] EXCEPT !.open = FALSE] \in Outputs
    BY DEF TypeInv, RowsFit, Outputs
  <2>3. out \in [Files -> Outputs] /\ threads[c].file \in Files
    BY <1>2 DEF TypeInv, RowsFit, ThreadsFit, Served
  <2>4. out' = out \/ out' = [out EXCEPT ![threads[c].file] = [out[threads[c].file] EXCEPT !.open = FALSE]]
    BY DEF Ignore, EndMarker, Broken, Disconnected, ClosedFile
  <2>2. out' \in [Files -> Outputs]
    BY <2>1, <2>3, <2>4
  <2> QED BY <2>2 DEF Ignore, EndMarker, Broken, Disconnected, TypeInv, RowsFit
<1>7. UNCHANGED <<channels, servers, bound, acceptors>>
  BY DEF Ignore, EndMarker, Broken, Disconnected
<1> QED BY <1>4, <1>5, <1>6, <1>7, Frames DEF TypeInv, commVars

LEMMA WriteTypes ==
  ASSUME TypeInv, NEW c \in Clients, Write(c), UNCHANGED <<commVars, scene, writer, sent>>
  PROVE  TypeInv'
<1>1. ThreadsFit'
  BY ThreadIs, ThreadTypes DEF Write, Served, Threads
<1>2. ProcessFits'
  BY DEF Write, TypeInv, ProcessFits
<1>3. RowsFit'
  <2> DEFINE f == threads[c].file
  <2>1. f \in Files
    BY DEF Write, TypeInv, ThreadsFit, Served
  <2>2. out[f].rows \in Seq(SUBSET Nat) /\ out[f].there \in BOOLEAN /\ out[f].open \in BOOLEAN
    BY <2>1 DEF TypeInv, RowsFit, Outputs
  <2>3. reader.rows \in Seq(SUBSET Nat)
    BY DEF TypeInv, RowsFit, TupleType
  <2>4. (IF out[f].open THEN out[f].rows ELSE <<>>) \o reader.rows \in Seq(SUBSET Nat)
    BY <2>2, <2>3
  <2>5. Written(out[f], reader) \in Outputs
    BY <2>2, <2>4 DEF Written, Outputs
  <2>6. out' = [out EXCEPT ![f] = Written(out[f], reader)] /\ UNCHANGED <<reader, kept>>
    BY DEF Write
  <2> QED BY <2>5, <2>6 DEF TypeInv, RowsFit
<1> QED BY <1>1, <1>2, <1>3, Frames DEF TypeInv, Write, commVars

LEMMA AcknowledgeTypes ==
  ASSUME TypeInv, NEW c \in Clients, Acknowledge(c), UNCHANGED <<commVars, scene, writer, sent>>
  PROVE  TypeInv'
<1> DEFINE t == [threads[c] EXCEPT !.pc = "read", !.line = NoLine]
<1>5. NoLine \in LineType
  BY DEF NoLine, Line, LineType
<1>1. t \in Threads /\ t.port = threads[c].port /\ t.file = threads[c].file
  BY <1>5, ThreadIs DEF Threads
<1>2. threads' = [threads EXCEPT ![c] = t] /\ Served(c)
  BY DEF Acknowledge, Served
<1>6. inbox' \in [Clients -> Nat]
  <2>1. inbox[c] \in Nat /\ inbox \in [Clients -> Nat]
    BY ThreadIs
  <2>2. inbox[c] + 1 \in Nat
    BY <2>1
  <2> QED BY <2>1, <2>2 DEF Acknowledge
<1>3. ThreadsFit'
  BY <1>1, <1>2, <1>6, ThreadTypes DEF Acknowledge
<1>4. RowsFit'
  <2>1. threads[c].file \in Files /\ threads[c].line.value \in Nat
    BY <1>2, ThreadIs DEF TypeInv, ThreadsFit, Threads, LineType
  <2>2. kept' \in [Files -> SUBSET Nat]
    BY <2>1 DEF Acknowledge, TypeInv, RowsFit
  <2> QED BY <2>2 DEF Acknowledge, TypeInv, RowsFit
<1> QED BY <1>3, <1>4, Frames DEF TypeInv, Acknowledge, commVars

LEMMA ExitingTypes ==
  ASSUME TypeInv, Exiting, UNCHANGED <<commVars, scene, writer, sent>>
  PROVE  TypeInv'
<1>1. CASE DestroyServers
  <2>1. PICK S, V : servers' = Destroyed(servers, S) /\ threads' = Cut(V)
    BY <1>1 DEF DestroyServers
  <2>2. servers' \in Seq(Servers) /\ Len(servers') = Len(servers) /\ Len(servers) \in Nat
    BY <2>1, DestroyedType, ServersDomain DEF TypeInv, ServersFit
  <2>3. ServersFit' /\ AcceptorsFit' /\ CommFits'
    BY <1>1, <2>2, ServersChange DEF DestroyServers, commVars
  <2>4. ThreadsFit'
    BY <1>1, <2>1, CutTypes DEF DestroyServers
  <2>5. ChannelsFit'
    <3>1. channels' = <<>>
      BY <1>1 DEF DestroyServers
    <3> QED BY <3>1 DEF ChannelsFit
  <2> QED BY <1>1, <2>3, <2>4, <2>5, Frames DEF TypeInv, DestroyServers, commVars
<1>2. CASE CloseWriters
  <2>1. \A f \in Files : [out[f] EXCEPT !.open = FALSE] \in Outputs
    BY DEF TypeInv, RowsFit, Outputs
  <2>2. RowsFit'
    BY <1>2, <2>1 DEF CloseWriters, TypeInv, RowsFit
  <2>3. ProcessFits'
    BY <1>2 DEF CloseWriters, TypeInv, ProcessFits
  <2> QED BY <1>2, <2>2, <2>3, Frames DEF TypeInv, CloseWriters, commVars
<1>3. CASE Down
  <2>1. ProcessFits'
    BY <1>3 DEF Down, TypeInv, ProcessFits
  <2> QED BY <1>3, <2>1, Frames DEF TypeInv, Down, commVars
<1> QED BY <1>1, <1>2, <1>3 DEF Exiting
-----------------------------------------------------------------------------
(***************************************************************************)
(* The command threads.                                                    *)
(***************************************************************************)
\* What a step of a command thread leaves its thread with.
Works(x, numbers, ports) ==
  /\ x \in CommType
  /\ x.pc \in Opening \cup {"closing", "flush"} => x.file \in Files
  /\ x.pc \in {"bind", "thread"} => x.srv \in numbers
  /\ x.pc = "thread" => x.port \in ports

LEMMA CommIs ==
  ASSUME TypeInv, NEW c \in Clients
  PROVE  Works(comm[c], DOMAIN servers, bound) /\ comm \in [Clients -> CommType]
BY DEF TypeInv, CommFits, Works

LEMMA CommSet ==
  ASSUME TypeInv, NEW c \in Clients, NEW x, Works(x, DOMAIN servers', bound'), comm' = [comm EXCEPT ![c] = x],
         DOMAIN servers \subseteq DOMAIN servers', bound \subseteq bound'
  PROVE  CommFits'
<1>1. comm \in [Clients -> CommType] /\ x \in CommType
  BY CommIs DEF Works
<1>2. comm' \in [Clients -> CommType] /\ comm'[c] = x
      /\ \A d \in Clients \ {c} : comm'[d] = comm[d]
  BY <1>1
<1> QED BY <1>2 DEF TypeInv, CommFits, Works

\* A thread that has done its command, or has left, needs nothing.
LEMMA CommLeaves ==
  ASSUME TypeInv, NEW c \in Clients,
         Done(c) \/ Goto(c, "away") \/ (\E r \in Requests : Goto(c, r.command)),
         UNCHANGED bound, DOMAIN servers \subseteq DOMAIN servers'
  PROVE  CommFits'
<1>1. CASE Done(c)
  <2>1. Works(Idle("ready"), DOMAIN servers', bound')
    BY DEF Works, Idle, CommType, CommPcs, Opening
  <2> QED BY <1>1, <2>1, CommSet DEF Done
<1>2. CASE \E pc \in {"away", "open", "close", "close_all", "del", "exit", "shutdown", "other"} :
             Goto(c, pc)
  <2>1. PICK pc \in {"away", "open", "close", "close_all", "del", "exit", "shutdown", "other"} :
          comm' = [comm EXCEPT ![c] = [comm[c] EXCEPT !.pc = pc]]
    BY <1>2 DEF Goto
  <2>2. comm[c] \in CommType
    BY CommIs
  <2> DEFINE x == [comm[c] EXCEPT !.pc = pc]
  <2>3. x \in CommType /\ x.pc = pc
    BY <2>2 DEF CommType, CommPcs
  <2> HIDE DEF x
  <2>5. x.pc \notin Opening \cup {"closing", "flush"}
    BY <2>3 DEF Opening
  <2>4. Works(x, DOMAIN servers', bound')
    BY <2>3, <2>5 DEF Works, Opening
  <2> QED BY <2>1, <2>4, CommSet DEF x
<1>3. \A r \in Requests : r.command \in {"open", "close", "close_all", "del", "exit", "shutdown", "other"}
  BY DEF Requests
<1> QED BY <1>1, <1>2, <1>3

LEMMA ContactTypes ==
  ASSUME TypeInv, NEW c \in Clients, Contact(c), UNCHANGED <<scene, writer, sent>>
  PROVE  TypeInv'
<1>1. UNCHANGED <<process, channels, servers, bound, acceptors, threads, inbox, reader, out, kept,
                  late, dataPort, tokens, told>> /\ Done(c) /\ lastClient' = c
  BY DEF Contact, dataVars
<1>2. CommFits'
  BY <1>1, CommLeaves
<1>3. CommandsFit'
  BY <1>1 DEF TypeInv, CommandsFit
<1> QED BY <1>1, <1>2, <1>3, Frames DEF TypeInv

LEMMA InterpretTypes ==
  ASSUME TypeInv, NEW c \in Clients, NEW r \in Requests, Interpret(c, r.command, r.words),
         UNCHANGED <<scene, writer, sent>>
  PROVE  TypeInv'
<1>1. UNCHANGED <<process, channels, servers, bound, acceptors, threads, inbox, reader, out, kept,
                  late, dataPort, lastClient, told>> /\ Goto(c, r.command)
      /\ tokens' \in {tokens, r.words}
  BY DEF Interpret, dataVars
<1>2. CommFits'
  BY <1>1, CommLeaves
<1>3. r.words \in Seq(Files)
  BY DEF Requests
<1>4. CommandsFit'
  BY <1>1, <1>3 DEF TypeInv, CommandsFit
<1> QED BY <1>1, <1>2, <1>4, Frames DEF TypeInv

LEMMA SimpleTypes ==
  ASSUME TypeInv, NEW c \in Clients, Answer(c) \/ ExitCommand(c) \/ Shutdown(c),
         UNCHANGED <<scene, writer, sent>>
  PROVE  TypeInv'
<1>1. UNCHANGED <<channels, servers, bound, acceptors, threads, inbox, reader, out, kept,
                  late, dataPort, tokens, lastClient, told>> /\ (Done(c) \/ Goto(c, "away"))
      /\ process' \in {process, "closing"}
  BY DEF Answer, ExitCommand, Shutdown, Exit, dataVars
<1>2. CommFits'
  BY <1>1, CommLeaves
<1>3. ProcessFits'
  BY <1>1 DEF TypeInv, ProcessFits
<1> QED BY <1>1, <1>2, <1>3, Frames DEF TypeInv

LEMMA ChannelsOfIs ==
  ASSUME TypeInv, NEW file, ChannelsOf(file) # {}
  PROVE  /\ Min(ChannelsOf(file)) \in ChannelsOf(file)
         /\ Min(ChannelsOf(file)) \in Nat /\ Live(Min(ChannelsOf(file)))
<1>1. ChannelsOf(file) \in SUBSET Nat
  BY DEF TypeInv, ChannelsFit, ChannelsOf
<1>3. Min(ChannelsOf(file)) \in ChannelsOf(file)
  BY <1>1, MinIs
<1> QED BY <1>1, <1>3 DEF ChannelsOf

LEMMA LookTypes ==
  ASSUME TypeInv, NEW c \in Clients, Look(c), UNCHANGED <<scene, writer, sent>>
  PROVE  TypeInv'
<1> DEFINE file == tokens[1]
           found == ChannelsOf(file)
<1>1. UNCHANGED <<channels, servers, bound, acceptors, threads, inbox, reader, out, kept, late,
                  dataPort, tokens, lastClient>> /\ process' \in {process, "crashed"}
  BY DEF Look
<1>2. file \in Files
  BY DEF Look, TypeInv, CommandsFit
<1>3. UNCHANGED told \/ (found # {} /\ Told(c, Min(found), file))
  BY DEF Look
<1>4. UNCHANGED comm \/ Done(c) \/ comm' = [comm EXCEPT ![c].pc = "port", ![c].file = file]
  BY DEF Look
<1> HIDE DEF file, found
<1>5. CommandsFit'
  <2>1. CASE UNCHANGED told
    BY <1>1, <2>1, Frames
  <2>2. CASE found # {} /\ Told(c, Min(found), file)
    <3>1. Min(found) \in Nat
      BY <2>2, ChannelsOfIs DEF found
    <3>2. [port |-> Min(found), file |-> file, stale |-> FALSE] \in ToldType
      BY <1>2, <3>1 DEF ToldType
    <3> QED BY <1>1, <2>2, <3>2 DEF TypeInv, CommandsFit, Told
  <2> QED BY <1>3, <2>1, <2>2
<1>6. CommFits'
  <2>1. CASE UNCHANGED comm
    BY <1>1, <2>1, Frames
  <2>2. CASE Done(c)
    BY <1>1, <2>2, CommLeaves
  <2>3. CASE comm' = [comm EXCEPT ![c].pc = "port", ![c].file = file]
    <3> DEFINE x == [comm[c] EXCEPT !.pc = "port", !.file = file]
    <3>1. comm[c] \in CommType
      BY CommIs DEF Works
    <3>2. x \in CommType /\ x.pc = "port" /\ x.file = file
      BY <1>2, <3>1 DEF CommType, CommPcs, Opening
    <3>3. comm' = [comm EXCEPT ![c] = x]
      BY <2>3
    <3> HIDE DEF x
    <3>4. Works(x, DOMAIN servers', bound')
      BY <1>2, <3>2 DEF Works
    <3> QED BY <1>1, <3>3, <3>4, CommSet
  <2> QED BY <1>4, <2>1, <2>2, <2>3
<1>7. ProcessFits'
  BY <1>1 DEF TypeInv, ProcessFits
<1> QED BY <1>1, <1>5, <1>6, <1>7, Frames DEF TypeInv

\* There is a number that no channel has among one more than there are servers.
LEMMA FirstFreeIs ==
  ASSUME TypeInv, NEW S
  PROVE  LET left == Restrict(channels, DOMAIN channels \ S)
             p == FirstFree(left)
         IN  p \in 1 .. Len(servers) + 1 /\ (p \notin DOMAIN left \/ left[p] = 0)
             /\ \A q \in 1 .. (p - 1) : q \in DOMAIN left /\ left[q] # 0
<1> DEFINE left == Restrict(channels, DOMAIN channels \ S)
           L == Len(servers)
           free == {p \in 1 .. (L + 1) : p \notin DOMAIN left \/ left[p] = 0}
<1>1. L \in Nat
  BY ServersDomain DEF TypeInv
<1>2. DOMAIN left \subseteq DOMAIN channels /\ \A p \in DOMAIN left : left[p] = channels[p]
  BY DEF Restrict
<1> HIDE DEF left
<1>3. ASSUME free = {} PROVE FALSE
  <2> DEFINE f == [p \in 1 .. (L + 1) |-> left[p]]
  <2>1. \A p \in 1 .. (L + 1) : p \in DOMAIN channels /\ left[p] = channels[p] /\ channels[p] # 0
    BY <1>2, <1>3
  <2>2. \A p \in 1 .. (L + 1) : left[p] \in 1 .. L
    BY <1>1, <2>1 DEF TypeInv, ChannelsFit
  <2>3. f \in [1 .. (L + 1) -> 1 .. L]
    BY <2>2
  <2>4. /\ IsFiniteSet(1 .. (L + 1)) /\ IsFiniteSet(1 .. L)
        /\ Cardinality(1 .. L) < Cardinality(1 .. (L + 1))
    <3>1. 1 \in Int /\ L \in Int /\ L + 1 \in Int
      BY <1>1
    <3>2. IsFiniteSet(1 .. L) /\ Cardinality(1 .. L) = IF 1 > L THEN 0 ELSE L - 1 + 1
      BY <3>1, FS_Interval
    <3>3. /\ IsFiniteSet(1 .. (L + 1))
          /\ Cardinality(1 .. (L + 1)) = IF 1 > L + 1 THEN 0 ELSE (L + 1) - 1 + 1
      BY <3>1, FS_Interval
    <3> QED BY <1>1, <3>2, <3>3
  <2> HIDE DEF f
  <2>5. \E p, q \in 1 .. (L + 1) : p # q /\ f[p] = f[q]
    BY <2>3, <2>4, FS_PigeonHole
  <2> QED BY <2>1, <2>5 DEF TypeInv, ChannelsFit, f
<1>4. free \subseteq Nat
  OBVIOUS
<1>5. Min(free) \in free /\ \A m \in free : Min(free) <= m
  BY <1>3, <1>4, MinIs
<1>6. FirstFree(left) = Min(free)
  BY DEF FirstFree
<1> DEFINE p == Min(free)
<1>7. p \in 1 .. (L + 1) /\ (p \notin DOMAIN left \/ left[p] = 0)
  BY <1>5
<1>8. \A q \in 1 .. (p - 1) : q \in DOMAIN left /\ left[q] # 0
  <2> TAKE q \in 1 .. (p - 1)
  <2>1. q \in 1 .. (L + 1) /\ ~(p <= q)
    BY <1>1, <1>7
  <2>2. q \notin free
    BY <1>5, <2>1
  <2> QED BY <2>1, <2>2
<1> QED BY <1>6, <1>7, <1>8 DEF left

\* To throw channels away and to count on.
LEMMA NewPortTypes ==
  ASSUME TypeInv, NEW c \in Clients, NewPort(c), UNCHANGED <<scene, writer, sent>>
  PROVE  TypeInv'
<1> DEFINE dead == IF Cardinality(DOMAIN channels) > MaxChannels THEN Dead ELSE {}
           left == Restrict(channels, DOMAIN channels \ dead)
           last == IF dead = {} THEN dataPort ELSE Max(dead)
<1>1. /\ servers' = Destroyed(servers, {channels[p] : p \in dead})
      /\ dataPort' = CountPort(last, left)
      /\ channels' = IF last + 1 > PortSpan THEN With(left, dataPort', 0) ELSE left
      /\ Goto(c, "insert") \/ UNCHANGED comm
      /\ process' \in {process, "crashed"}
      /\ UNCHANGED <<bound, acceptors, threads, inbox, reader, out, kept, late,
                     tokens, lastClient, told>>
  BY DEF NewPort
<1>2. servers' \in Seq(Servers) /\ Len(servers') = Len(servers) /\ Len(servers) \in Nat
  BY <1>1, DestroyedType, ServersDomain DEF TypeInv, ServersFit
<1>3. ServersFit' /\ AcceptorsFit'
  BY <1>1, <1>2, ServersChange
<1>4. DOMAIN left \subseteq DOMAIN channels /\ \A p \in DOMAIN left : left[p] = channels[p]
  BY DEF Restrict
<1>5. last \in Nat
  <2>1. CASE dead = {}
    BY <2>1 DEF TypeInv, CommandsFit
  <2>2. CASE dead # {}
    <3>1. dead \subseteq DOMAIN channels /\ DOMAIN channels \subseteq Nat
      BY DEF Dead, TypeInv, ChannelsFit
    <3>2. PICK b \in Nat : \A p \in DOMAIN channels : p <= b
      BY DEF TypeInv, ChannelsFit
    <3> HIDE DEF dead
    <3>3. Max(dead) \in dead
      BY <2>2, <3>1, <3>2, MaxIs
    <3> QED BY <2>2, <3>1, <3>3
  <2> QED BY <2>1, <2>2
<1>6. FirstFree(left) \in Nat
  <2>1. FirstFree(left) \in 1 .. Len(servers) + 1
    BY FirstFreeIs
  <2> QED BY <1>2, <2>1
<1> HIDE DEF dead, left, last
<1>7. dataPort' \in Nat
  BY <1>1, <1>5, <1>6 DEF CountPort
<1>8. CommandsFit'
  BY <1>1, <1>7 DEF TypeInv, CommandsFit
<1>9. ChannelsFit'
  <2>1. PICK b \in Nat : \A p \in DOMAIN channels : p <= b
    BY DEF TypeInv, ChannelsFit
  <2>2. DOMAIN channels' \subseteq DOMAIN channels \cup {dataPort'}
    BY <1>1, <1>4 DEF With
  <2>3. \A p \in DOMAIN channels' : (p \in DOMAIN channels /\ channels'[p] = channels[p]) \/ channels'[p] = 0
    BY <1>1, <1>4 DEF With
  <2>4. DOMAIN channels' \subseteq Nat
    BY <1>7, <2>2 DEF TypeInv, ChannelsFit
  <2>5. \E m \in Nat : \A p \in DOMAIN channels' : p <= m
    <3> DEFINE m == IF b <= dataPort' THEN dataPort' ELSE b
    <3>1. m \in Nat /\ b <= m /\ dataPort' <= m
      BY <1>7
    <3> HIDE DEF m
    <3>2. \A p \in DOMAIN channels' : p <= m
      BY <1>7, <2>1, <2>2, <2>4, <3>1 DEF TypeInv, ChannelsFit
    <3> QED BY <3>1, <3>2
  <2>6. \A p \in DOMAIN channels' : channels'[p] \in 0 .. Len(servers')
    BY <1>2, <2>3 DEF TypeInv, ChannelsFit
  <2>7. \A p, q \in DOMAIN channels' : channels'[p] = channels'[q] => p = q \/ channels'[p] = 0
    BY <2>3 DEF TypeInv, ChannelsFit
  <2> QED BY <2>4, <2>5, <2>6, <2>7 DEF ChannelsFit
<1>10. CommFits'
  <2>1. DOMAIN servers \subseteq DOMAIN servers'
    BY <1>2, ServersChange
  <2>2. CASE UNCHANGED comm
    BY <1>1, <1>2, <2>2, ServersChange
  <2>3. CASE Goto(c, "insert")
    <3> DEFINE x == [comm[c] EXCEPT !.pc = "insert"]
    <3>1. comm[c] \in CommType /\ comm[c].file \in Files
      BY CommIs DEF Works, NewPort, At, Opening
    <3>2. x \in CommType /\ x.pc = "insert" /\ x.file \in Files /\ comm' = [comm EXCEPT ![c] = x]
      BY <2>3, <3>1 DEF Goto, CommType, CommPcs, Opening
    <3> HIDE DEF x
    <3>3. Works(x, DOMAIN servers', bound')
      BY <3>2 DEF Works
    <3> QED BY <1>1, <2>1, <3>2, <3>3, CommSet
  <2> QED BY <1>1, <2>2, <2>3
<1>11. ProcessFits'
  BY <1>1 DEF TypeInv, ProcessFits
<1> QED BY <1>1, <1>3, <1>8, <1>9, <1>10, <1>11, Frames DEF TypeInv

LEMMA InsertTypes ==
  ASSUME TypeInv, NEW c \in Clients, Insert(c), UNCHANGED <<scene, writer, sent>>
  PROVE  TypeInv'
<1> DEFINE new == NewServer(comm[c].file, lastClient)
<1>1. /\ servers' = Append(servers, new) /\ channels' = With(channels, dataPort, Len(servers'))
      /\ comm' = [comm EXCEPT ![c].pc = "connect", ![c].port = dataPort]
      /\ UNCHANGED <<process, bound, acceptors, threads, inbox, reader, out, kept, late,
                     dataPort, tokens, lastClient, told>>
  BY DEF Insert
<1>2. comm[c] \in CommType /\ comm[c].file \in Files
  BY CommIs DEF Works, Insert, At, Opening
<1>3. new \in Servers
  BY <1>2 DEF NewServer, Servers, TypeInv, CommandsFit
<1> HIDE DEF new
<1>4. servers' \in Seq(Servers) /\ Len(servers') = Len(servers) + 1 /\ Len(servers) \in Nat
  BY <1>1, <1>3 DEF TypeInv, ServersFit
<1>5. ServersFit' /\ AcceptorsFit' /\ DOMAIN servers \subseteq DOMAIN servers'
  BY <1>1, <1>4, ServersChange
<1>6. dataPort \in Nat
  BY DEF TypeInv, CommandsFit
<1>7. ChannelsFit'
  <2>1. PICK b \in Nat : \A p \in DOMAIN channels : p <= b
    BY DEF TypeInv, ChannelsFit
  <2>2. /\ DOMAIN channels' = DOMAIN channels \cup {dataPort} /\ channels'[dataPort] = Len(servers')
        /\ \A p \in DOMAIN channels \ {dataPort} : channels'[p] = channels[p]
    BY <1>1 DEF With
  <2>3. \E m \in Nat : \A p \in DOMAIN channels' : p <= m
    <3> DEFINE m == IF b <= dataPort THEN dataPort ELSE b
    <3>1. m \in Nat /\ b <= m /\ dataPort <= m
      BY <1>6
    <3> HIDE DEF m
    <3>2. \A p \in DOMAIN channels' : p <= m
      BY <1>6, <2>1, <2>2, <3>1 DEF TypeInv, ChannelsFit
    <3> QED BY <3>1, <3>2
  <2>4. \A p \in DOMAIN channels' : channels'[p] \in 0 .. Len(servers')
    BY <1>4, <2>2 DEF TypeInv, ChannelsFit
  <2>5. \A p \in DOMAIN channels' \ {dataPort} : channels'[p] # Len(servers')
    BY <1>4, <2>2 DEF TypeInv, ChannelsFit
  <2>6. \A p, q \in DOMAIN channels' : channels'[p] = channels'[q] => p = q \/ channels'[p] = 0
    BY <2>2, <2>5 DEF TypeInv, ChannelsFit
  <2>7. DOMAIN channels' \subseteq Nat
    BY <1>6, <2>2 DEF TypeInv, ChannelsFit
  <2> QED BY <2>3, <2>4, <2>6, <2>7 DEF ChannelsFit
<1>8. CommFits'
  <2> DEFINE x == [comm[c] EXCEPT !.pc = "connect", !.port = dataPort]
  <2>1. x \in CommType /\ x.pc = "connect" /\ x.file \in Files /\ comm' = [comm EXCEPT ![c] = x]
    BY <1>1, <1>2, <1>6 DEF CommType, CommPcs, Opening
  <2> HIDE DEF x
  <2>2. Works(x, DOMAIN servers', bound')
    BY <2>1 DEF Works
  <2> QED BY <1>1, <1>5, <2>1, <2>2, CommSet
<1> QED BY <1>1, <1>5, <1>7, <1>8, Frames DEF TypeInv

LEMMA ConnectTypes ==
  ASSUME TypeInv, NEW c \in Clients, Connect(c), UNCHANGED <<scene, writer, sent>>
  PROVE  TypeInv'
<1> DEFINE s == channels[comm[c].port]
<1>1. UNCHANGED <<channels, bound, acceptors, threads, inbox, reader, out, kept, late,
                  dataPort, tokens, lastClient, told>>
  BY DEF Connect
<1>2. CASE Live(comm[c].port)
  <2>1. /\ servers' = [servers EXCEPT ![s].orig = "new"]
        /\ comm' = [comm EXCEPT ![c].pc = "bind", ![c].srv = s]
        /\ UNCHANGED process
    BY <1>2 DEF Connect
  <2>2. s \in DOMAIN servers /\ s \in Nat
    BY <1>2, ServersDomain DEF Live, TypeInv, ChannelsFit
  <2>3. servers[s] \in Servers
    BY <2>2 DEF TypeInv, ServersFit
  <2>4. [servers[s] EXCEPT !.orig = "new"] \in Servers
    BY <2>3 DEF Servers
  <2>5. servers' \in Seq(Servers) /\ Len(servers') = Len(servers) /\ Len(servers) \in Nat
    BY <2>1, <2>2, <2>4 DEF TypeInv, ServersFit
  <2>6. ServersFit' /\ ChannelsFit' /\ AcceptorsFit' /\ DOMAIN servers \subseteq DOMAIN servers'
    BY <1>1, <2>5, ServersChange
  <2>7. CommFits'
    <3> DEFINE x == [comm[c] EXCEPT !.pc = "bind", !.srv = s]
    <3>1. comm[c] \in CommType /\ comm[c].file \in Files
      BY CommIs DEF Works, Connect, At, Opening
    <3>2. x \in CommType /\ x.pc = "bind" /\ x.file \in Files /\ x.srv = s
          /\ comm' = [comm EXCEPT ![c] = x]
      BY <2>1, <2>2, <3>1 DEF CommType, CommPcs, Opening
    <3> HIDE DEF x
    <3>3. Works(x, DOMAIN servers', bound')
      BY <2>2, <2>6, <3>2 DEF Works
    <3> QED BY <1>1, <2>6, <3>2, <3>3, CommSet
  <2> QED BY <1>1, <2>1, <2>6, <2>7, Frames DEF TypeInv
<1>3. CASE ~Live(comm[c].port)
  <2>1. process' = "crashed" /\ UNCHANGED <<servers, comm>>
    BY <1>3 DEF Connect
  <2>2. ProcessFits'
    BY <1>1, <2>1 DEF TypeInv, ProcessFits
  <2> QED BY <1>1, <2>1, <2>2, Frames DEF TypeInv
<1> QED BY <1>2, <1>3

LEMMA BindTypes ==
  ASSUME TypeInv, NEW c \in Clients, Bind(c), UNCHANGED <<scene, writer, sent>>
  PROVE  TypeInv'
<1> DEFINE s == comm[c].srv
<1>1. /\ bound' = bound \cup {comm[c].port} /\ Goto(c, "thread")
      /\ servers' = [servers EXCEPT ![s].orig = "bound", ![s].running = TRUE]
      /\ UNCHANGED <<process, channels, acceptors, threads, inbox, reader, out, kept, late,
                     dataPort, tokens, lastClient, told>>
  BY DEF Bind
<1>2. s \in DOMAIN servers /\ comm[c] \in CommType /\ comm[c].file \in Files
  BY CommIs DEF Works, Bind, At, Opening
<1>3. servers[s] \in Servers
  BY <1>2 DEF TypeInv, ServersFit
<1>4. [servers[s] EXCEPT !.orig = "bound", !.running = TRUE] \in Servers
  BY <1>3 DEF Servers
<1>5. servers' \in Seq(Servers) /\ Len(servers') = Len(servers) /\ Len(servers) \in Nat
  BY <1>1, <1>2, <1>4 DEF TypeInv, ServersFit
<1>6. ServersFit' /\ ChannelsFit' /\ DOMAIN servers \subseteq DOMAIN servers'
  BY <1>1, <1>5, ServersChange
<1>7. bound' \subseteq Nat
  BY <1>1, <1>2 DEF CommType, TypeInv, AcceptorsFit
<1>8. AcceptorsFit'
  BY <1>1, <1>6, <1>7 DEF TypeInv, AcceptorsFit
<1>9. CommFits'
  <2> DEFINE x == [comm[c] EXCEPT !.pc = "thread"]
  <2>1. /\ x \in CommType /\ x.pc = "thread" /\ x.file \in Files /\ x.srv = s
        /\ x.port = comm[c].port /\ comm' = [comm EXCEPT ![c] = x]
    BY <1>1, <1>2 DEF Goto, CommType, CommPcs, Opening
  <2> HIDE DEF x
  <2>2. Works(x, DOMAIN servers', bound')
    BY <1>1, <1>2, <1>6, <2>1 DEF Works
  <2> QED BY <1>1, <1>6, <2>1, <2>2, CommSet
<1> QED BY <1>1, <1>6, <1>8, <1>9, Frames DEF TypeInv

LEMMA BindFreedTypes ==
  ASSUME TypeInv, NEW c \in Clients, BindFreed(c), UNCHANGED <<scene, writer, sent>>
  PROVE  TypeInv'
<1>1. ProcessFits'
  BY DEF BindFreed, TypeInv, ProcessFits
<1> QED BY <1>1, Frames DEF TypeInv, BindFreed, commVars

LEMMA ThreadActionTypes ==
  ASSUME TypeInv, NEW c \in Clients, Thread(c), UNCHANGED <<scene, writer, sent>>
  PROVE  TypeInv'
<1> DEFINE p == comm[c].port
           a == [pc |-> "start", srv |-> 0]
<1>1. /\ acceptors' = With(acceptors, p, a) /\ Told(c, p, comm[c].file) /\ Done(c)
      /\ UNCHANGED <<process, channels, servers, bound, threads, inbox, reader, out, kept, late,
                     dataPort, tokens, lastClient>>
  BY DEF Thread
<1>2. p \in bound /\ p \in Nat /\ comm[c].file \in Files
  BY CommIs DEF Works, Thread, At, Opening, CommType
<1>3. a \in AcceptorType /\ a.pc = "start"
  BY DEF AcceptorType
<1> HIDE DEF a
<1>4. /\ DOMAIN acceptors' = DOMAIN acceptors \cup {p} /\ acceptors'[p] = a
      /\ \A q \in DOMAIN acceptors \ {p} : acceptors'[q] = acceptors[q]
  BY <1>1 DEF With
<1>5. AcceptorsFit'
  BY <1>1, <1>2, <1>3, <1>4 DEF TypeInv, AcceptorsFit
<1>6. ThreadsFit'
  BY <1>1, <1>4 DEF TypeInv, ThreadsFit, Served
<1>7. CommandsFit'
  <2>1. [port |-> p, file |-> comm[c].file, stale |-> FALSE] \in ToldType
    BY <1>2 DEF ToldType
  <2> QED BY <1>1, <2>1 DEF Told, TypeInv, CommandsFit
<1>8. CommFits'
  BY <1>1, CommLeaves
<1> QED BY <1>1, <1>5, <1>6, <1>7, <1>8, Frames DEF TypeInv

LEMMA OpenTypes ==
  ASSUME TypeInv, NEW c \in Clients, Open(c), UNCHANGED <<scene, writer, sent>>
  PROVE  TypeInv'
BY LookTypes, NewPortTypes, InsertTypes, ConnectTypes, BindTypes, BindFreedTypes,
   ThreadActionTypes DEF Open

LEMMA CloseTypes ==
  ASSUME TypeInv, NEW c \in Clients, Close(c), UNCHANGED <<scene, writer, sent>>
  PROVE  TypeInv'
<1> DEFINE x == [comm[c] EXCEPT !.pc = "closing", !.file = tokens[1]]
<1>1. UNCHANGED <<dataVars, dataPort, tokens, lastClient, told>> /\ comm' = [comm EXCEPT ![c] = x]
  BY DEF Close
<1>2. tokens[1] \in Files
  BY DEF Close, TypeInv, CommandsFit
<1>3. comm[c] \in CommType
  BY CommIs DEF Works
<1>4. x \in CommType /\ x.pc = "closing" /\ x.file \in Files
  BY <1>2, <1>3 DEF CommType, CommPcs
<1> HIDE DEF x
<1>5. Works(x, DOMAIN servers', bound')
  BY <1>4 DEF Works
<1>6. UNCHANGED <<process, channels, servers, bound, acceptors, threads, inbox, reader, out, kept, late>>
  BY <1>1 DEF dataVars
<1>7. CommFits'
  BY <1>1, <1>5, <1>6, CommSet
<1> QED BY <1>1, <1>6, <1>7, Frames DEF TypeInv

LEMMA CloseChannelTypes ==
  ASSUME TypeInv, NEW c \in Clients, CloseChannel(c), UNCHANGED <<scene, writer, sent>>
  PROVE  TypeInv'
<1> DEFINE found == ChannelsOf(comm[c].file)
<1>1. UNCHANGED <<process, bound, acceptors, inbox, reader, out, kept, late,
                  dataPort, tokens, lastClient>>
  BY DEF CloseChannel
<1>2. CASE found = {}
  <2>1. Done(c) /\ UNCHANGED <<channels, servers, threads, told>>
    BY <1>2 DEF CloseChannel
  <2>2. CommFits'
    BY <1>1, <2>1, CommLeaves
  <2> QED BY <1>1, <2>1, <2>2, Frames DEF TypeInv
<1>3. CASE found # {}
  <2>1. /\ DeleteChannel(Min(found)) /\ Goto(c, "flush")
        /\ told' = [d \in Clients |-> IF told[d].port = Min(found)
                                      THEN [told[d] EXCEPT !.stale = TRUE] ELSE told[d]]
    BY <1>3 DEF CloseChannel
  <2>2. ServersFit' /\ ChannelsFit' /\ ThreadsFit' /\ AcceptorsFit' /\ DOMAIN servers' = DOMAIN servers
    BY <1>1, <2>1, DeleteChannelTypes
  <2>3. CommandsFit'
    <3>1. \A d \in Clients : told[d] \in ToldType
      BY DEF TypeInv, CommandsFit
    <3>2. \A d \in Clients : [told[d] EXCEPT !.stale = TRUE] \in ToldType
      BY <3>1 DEF ToldType
    <3>3. told' \in [Clients -> ToldType]
      BY <2>1, <3>1, <3>2
    <3> QED BY <1>1, <3>3 DEF TypeInv, CommandsFit
  <2>4. CommFits'
    <3> DEFINE x == [comm[c] EXCEPT !.pc = "flush"]
    <3>1. comm[c] \in CommType /\ comm[c].file \in Files
      BY CommIs DEF Works, CloseChannel, At
    <3>2. x \in CommType /\ x.pc = "flush" /\ x.file \in Files /\ comm' = [comm EXCEPT ![c] = x]
      BY <2>1, <3>1 DEF Goto, CommType, CommPcs
    <3> HIDE DEF x
    <3>3. Works(x, DOMAIN servers', bound')
      BY <3>2 DEF Works
    <3> QED BY <1>1, <2>2, <3>2, <3>3, CommSet
  <2> QED BY <1>1, <2>2, <2>3, <2>4, Frames DEF TypeInv
<1> QED BY <1>2, <1>3

LEMMA ClosedTypes ==
  ASSUME TypeInv
  PROVE  \A f \in Files : /\ [out[f] EXCEPT !.open = FALSE] \in Outputs
                          /\ [out[f] EXCEPT !.there = FALSE] \in Outputs
<1> TAKE f \in Files
<1>1. out[f] \in Outputs
  BY DEF TypeInv, RowsFit
<1> QED BY <1>1 DEF Outputs

LEMMA FlushTypes ==
  ASSUME TypeInv, NEW c \in Clients, Flush(c), UNCHANGED <<scene, writer, sent>>
  PROVE  TypeInv'
<1>1. /\ ClosedFile(comm[c].file) /\ (UNCHANGED comm \/ Goto(c, "closing"))
      /\ process' \in {process, "crashed"}
      /\ UNCHANGED <<channels, servers, bound, acceptors, threads, inbox, reader, kept, late,
                     dataPort, tokens, lastClient, told>>
  BY DEF Flush
<1>2. comm[c] \in CommType /\ comm[c].file \in Files
  BY CommIs DEF Works, Flush, At
<1>3. out' \in [Files -> Outputs]
  BY <1>1, <1>2, ClosedTypes DEF ClosedFile, TypeInv, RowsFit
<1>4. RowsFit'
  BY <1>1, <1>3 DEF TypeInv, RowsFit
<1>5. ProcessFits'
  BY <1>1 DEF TypeInv, ProcessFits
<1>6. CommFits'
  <2>1. CASE UNCHANGED comm
    BY <1>1, <2>1, Frames
  <2>2. CASE Goto(c, "closing")
    <3> DEFINE x == [comm[c] EXCEPT !.pc = "closing"]
    <3>1. x \in CommType /\ x.pc = "closing" /\ x.file \in Files /\ comm' = [comm EXCEPT ![c] = x]
      BY <1>2, <2>2 DEF Goto, CommType, CommPcs
    <3> HIDE DEF x
    <3>2. Works(x, DOMAIN servers', bound')
      BY <3>1 DEF Works
    <3> QED BY <1>1, <3>1, <3>2, CommSet
  <2> QED BY <1>1, <2>1, <2>2
<1> QED BY <1>1, <1>4, <1>5, <1>6, Frames DEF TypeInv

LEMMA CloseAllTypes ==
  ASSUME TypeInv, NEW c \in Clients, CloseAll(c), UNCHANGED <<scene, writer, sent>>
  PROVE  TypeInv'
<1>1. UNCHANGED <<servers, bound, acceptors, threads, inbox, reader, kept, late,
                  dataPort, tokens, lastClient, told>>
  BY DEF CloseAll
<1>2. CASE \E p \in DOMAIN channels : Live(p)
  <2>1. process' = "crashed" /\ UNCHANGED <<channels, out, comm>>
    BY <1>2 DEF CloseAll
  <2>2. ProcessFits'
    BY <1>1, <2>1 DEF TypeInv, ProcessFits
  <2> QED BY <1>1, <2>1, <2>2, Frames DEF TypeInv
<1>3. CASE ~\E p \in DOMAIN channels : Live(p)
  <2>1. /\ channels' = <<>> /\ out' = [f \in Files |-> [out[f] EXCEPT !.open = FALSE]]
        /\ Done(c) /\ UNCHANGED process
    BY <1>3 DEF CloseAll
  <2>2. ChannelsFit'
    BY <2>1 DEF ChannelsFit
  <2>3. RowsFit'
    BY <1>1, <2>1, ClosedTypes DEF TypeInv, RowsFit
  <2>4. CommFits'
    BY <1>1, <2>1, CommLeaves
  <2> QED BY <1>1, <2>1, <2>2, <2>3, <2>4, Frames DEF TypeInv
<1> QED BY <1>2, <1>3

LEMMA DeleteTypes ==
  ASSUME TypeInv, NEW c \in Clients, Delete(c), UNCHANGED <<scene, writer, sent>>
  PROVE  TypeInv'
<1> DEFINE there == {i \in DOMAIN tokens : out[tokens[i]].there}
           f == tokens[Min(there)]
<1>1. /\ out' = IF there = {} THEN out ELSE [out EXCEPT ![f] = [out[f] EXCEPT !.there = FALSE]]
      /\ Done(c)
      /\ UNCHANGED <<process, channels, servers, bound, acceptors, threads, inbox, reader, kept,
                     late, dataPort, tokens, lastClient, told>>
  BY DEF Delete
<1>2. there # {} => f \in Files
  <2> HAVE there # {}
  <2>1. tokens \in Seq(Files)
    BY DEF TypeInv, CommandsFit
  <2>2. there \subseteq DOMAIN tokens /\ DOMAIN tokens \subseteq Nat
    BY <2>1
  <2> HIDE DEF there
  <2>3. Min(there) \in DOMAIN tokens
    BY <2>2, MinIs
  <2> QED BY <2>1, <2>3
<1> HIDE DEF there, f
<1>3. RowsFit'
  BY <1>1, <1>2, ClosedTypes DEF TypeInv, RowsFit
<1>4. CommFits'
  BY <1>1, CommLeaves
<1> QED BY <1>1, <1>3, <1>4, Frames DEF TypeInv

LEMMA CommThreadTypes ==
  ASSUME TypeInv, NEW c \in Clients, CommThread(c), UNCHANGED <<scene, writer, sent>>
  PROVE  TypeInv'
BY SimpleTypes, OpenTypes, CloseTypes, CloseChannelTypes, FlushTypes, CloseAllTypes, DeleteTypes
DEF CommThread
-----------------------------------------------------------------------------
(***************************************************************************)
(* The clients.                                                            *)
(***************************************************************************)
LEMMA SceneIs ==
  ASSUME TypeInv, NEW c \in DOMAIN scene
  PROVE  /\ c \in Clients /\ scene[c].asks \subseteq Requests
         /\ scene[c].sends \subseteq DataEnds \cup OtherEnds /\ scene[c].upTo \in Nat
<1>1. scene[c] \in [writer : BOOLEAN, asks : SUBSET Requests,
                    sends : SUBSET (DataEnds \cup OtherEnds), upTo : Nat] /\ c \in Clients
  BY HarvestingdAssumption DEF TypeInv, ClientsFit
<1> QED BY <1>1

LEMMA ContactChannelTypes ==
  ASSUME TypeInv, NEW c \in Clients, ContactChannel(c), UNCHANGED <<inbox, acceptors>>
  PROVE  ThreadsFit'
<1> DEFINE t == [threads[c] EXCEPT !.pc = "backlog", !.port = told[c].port]
<1>1. told[c].port \in Nat
  BY DEF TypeInv, CommandsFit, ToldType
<1>2. t \in Threads /\ t.pc = "backlog"
  BY <1>1, ThreadIs DEF Threads
<1>3. threads' = [threads EXCEPT ![c] = t]
  BY DEF ContactChannel
<1> HIDE DEF t
<1>4. threads' \in [Clients -> Threads] /\ threads'[c] = t
      /\ \A d \in Clients \ {c} : threads'[d] = threads[d]
  BY <1>2, <1>3, ThreadIs
<1> QED BY <1>2, <1>4 DEF TypeInv, ThreadsFit, Served

LEMMA LineTypes ==
  ASSUME TypeInv, NEW c \in Clients, NEW line \in LineType,
         threads' = [threads EXCEPT ![c].line = line], inbox' \in [Clients -> Nat],
         UNCHANGED acceptors
  PROVE  ThreadsFit'
<1> DEFINE t == [threads[c] EXCEPT !.line = line]
<1>1. t \in Threads /\ t.pc = threads[c].pc /\ t.port = threads[c].port /\ t.file = threads[c].file
  BY ThreadIs DEF Threads
<1>2. threads' = [threads EXCEPT ![c] = t]
  OBVIOUS
<1> HIDE DEF t
<1> QED BY <1>1, <1>2, ThreadTypes DEF Served

LEMMA ClientTypes ==
  ASSUME TypeInv, NEW c \in DOMAIN scene, UNCHANGED scene,
         \/ Negotiate(c) \/ Writing(c)
         \/ Talk(c) \/ Send(c)
  PROVE  TypeInv'
<1> USE SceneIs
<1>1. ASSUME NEW r \in scene[c].asks, Interpret(c, r.command, r.words), UNCHANGED <<writer, sent>>
      PROVE  TypeInv'
  BY <1>1, InterpretTypes
<1>2. ASSUME Contact(c), UNCHANGED <<writer, sent>>
      PROVE  TypeInv'
  BY <1>2, ContactTypes
<1>3. CASE Negotiate(c)
  <2>1. CASE \E r \in scene[c].asks : Interpret(c, "open", r.words)
    <3>1. PICK r \in scene[c].asks : Interpret(c, "open", r.words)
      BY <2>1
    <3> DEFINE q == [command |-> "open", words |-> r.words]
    <3>2. q \in Requests /\ q.command = "open" /\ q.words = r.words
      BY DEF Requests
    <3> HIDE DEF q
    <3> QED BY <1>3, <3>1, <3>2, InterpretTypes DEF Negotiate
  <2> QED BY <1>2, <1>3, <2>1 DEF Negotiate
<1>4. CASE Writing(c)
  <2>1. writer' \in [Clients -> {"none", "built", "ending", "confirmed", "done", "failed"}]
    BY <1>4 DEF Writing, Construct, Destruct, Confirm, Fail, TypeInv, ClientsFit
  <2>2. ClientsFit' /\ UNCHANGED <<process, channels, servers, bound, acceptors, reader, out, kept,
                                   late, commVars>>
    BY <1>4, <2>1 DEF Writing, Construct, Destruct, Confirm, Fail, TypeInv, ClientsFit, DataUnchanged
  <2>3. ThreadsFit'
    <3>1. CASE ContactChannel(c) /\ UNCHANGED inbox
      BY <2>2, <3>1, ContactChannelTypes
    <3>2. CASE UNCHANGED <<threads, inbox>>
      BY <2>2, <3>2, Frames
    <3>3. CASE threads' = [threads EXCEPT ![c].line = Line("", 0, "end marker")] /\ UNCHANGED inbox
      <4>1. Line("", 0, "end marker") \in LineType
        BY DEF Line, LineType, OtherEnds
      <4> QED BY <2>2, <3>3, <4>1, LineTypes, ThreadIs
    <3>4. CASE Confirm(c)
      <4>1. inbox \in [Clients -> Nat] /\ inbox[c] \in Nat /\ inbox[c] > 0
        BY <3>4, ThreadIs DEF Confirm
      <4>2. inbox[c] - 1 \in Nat
        BY <4>1
      <4>3. inbox' \in [Clients -> Nat]
        BY <3>4, <4>1, <4>2 DEF Confirm
      <4> QED BY <2>2, <3>4, <4>3 DEF Confirm, TypeInv, ThreadsFit, Served
    <3> QED BY <1>4, <3>1, <3>2, <3>3, <3>4 DEF Writing, Construct, Destruct, Fail
  <2> QED BY <2>2, <2>3, Frames DEF TypeInv, commVars
<1>5. CASE Talk(c)
  <2>1. CASE ContactChannel(c) /\ DataUnchanged /\ UNCHANGED <<inbox, commVars, writer, sent>>
    <3>1. ThreadsFit'
      BY <2>1, ContactChannelTypes DEF DataUnchanged
    <3> QED BY <2>1, <3>1, Frames DEF TypeInv, DataUnchanged, commVars
  <2> QED BY <1>1, <1>2, <1>5, <2>1 DEF Talk
<1>6. CASE Send(c)
  <2>1. PICK end \in scene[c].sends :
          \/ /\ end \in OtherEnds /\ UNCHANGED sent
             /\ threads' = [threads EXCEPT ![c].line = Line("", 0, end)]
          \/ /\ end \notin OtherEnds /\ sent' = sent + 1
             /\ \E name \in Names : threads' = [threads EXCEPT ![c].line = Line(name, sent', end)]
    BY <1>6 DEF Send
  <2>7. sent \in Nat
    BY DEF TypeInv, ClientsFit
  <2>8. scene[c].sends \subseteq DataEnds \cup OtherEnds
    BY SceneIs
  <2>2. sent \in Nat /\ sent' \in Nat /\ end \in DataEnds \cup OtherEnds
    <3>1. sent' = sent \/ sent' = sent + 1
      BY <2>1
    <3>2. end \in DataEnds \cup OtherEnds
      BY <2>8, Zenon
    <3> QED BY <2>7, <3>1, <3>2
  <2>3. PICK line \in LineType : threads' = [threads EXCEPT ![c].line = line]
    <3>1. \A name \in Names \cup {""}, n \in Nat : Line(name, n, end) \in LineType
      BY <2>2 DEF Line, LineType
    <3> QED BY <2>1, <2>2, <3>1
  <2>4. /\ DataUnchanged /\ UNCHANGED <<commVars, writer>>
        /\ inbox' = [inbox EXCEPT ![c] = 0]
    BY <1>6 DEF Send
  <2>5. ThreadsFit'
    BY <2>3, <2>4, LineTypes, ThreadIs DEF DataUnchanged
  <2>6. ClientsFit'
    BY <2>2, <2>4 DEF TypeInv, ClientsFit
  <2> QED BY <2>4, <2>5, <2>6, Frames DEF TypeInv, DataUnchanged, commVars
<1> QED BY <1>3, <1>4, <1>5, <1>6
-----------------------------------------------------------------------------
LEMMA NextTypes == ASSUME TypeInv, [Next]_vars PROVE TypeInv'
<1>1. CASE UNCHANGED vars
  BY <1>1, Frames DEF TypeInv, vars, dataVars, commVars
<1>2. CASE ClientStep /\ UNCHANGED scene
  BY <1>2, ClientTypes DEF ClientStep
<1>3. CASE DaemonStep /\ UNCHANGED <<scene, writer, sent>>
  <2>1. ASSUME NEW p \in DOMAIN acceptors, Acceptor(p), UNCHANGED commVars PROVE TypeInv'
    BY <1>3, <2>1, StartTypes, ListenTypes, AcceptTypes DEF Acceptor
  <2>2. ASSUME NEW c \in Clients, DataThread(c), UNCHANGED commVars PROVE TypeInv'
    BY <1>3, <2>2, ReadTypes, StoppingTypes, WriteTypes, AcknowledgeTypes DEF DataThread
  <2>3. ASSUME NEW c \in Clients, CommThread(c) PROVE TypeInv'
    BY <1>3, <2>3, CommThreadTypes
  <2>4. ASSUME Exiting, UNCHANGED commVars PROVE TypeInv'
    BY <1>3, <2>4, ExitingTypes
  <2> QED BY <1>3, <2>1, <2>2, <2>3, <2>4 DEF DaemonStep
<1> QED BY <1>1, <1>2, <1>3 DEF Next

\* Whatever the threads of the daemon and its clients do, and in whatever order, the
\* shared variables keep their types: a thread that serves a client has a file and an
\* acceptor, one past the start of a channel a server, a channel one server, and a
\* command thread past some step what the next one reads.
THEOREM TypeInvHolds == Spec => []TypeInv
<1>1. Init => TypeInv
  BY InitTypes
<1>2. TypeInv /\ [Next]_vars => TypeInv'
  BY NextTypes
<1> QED BY <1>1, <1>2, PTL DEF Spec

-----------------------------------------------------------------------------
(***************************************************************************)
(* The rows.  One reader is shared by the threads of all clients and keeps *)
(* what it has read while the tuples have one name, so that the thread     *)
(* that writes next to a file writes the rows of the others, too.          *)
(***************************************************************************)
ReadRows == UNION Range(reader.rows)

ReaderKeepsOneName == reader.name \in Names \/ (reader.rows = <<>> /\ reader.cur = {})

KeptRowsWereRead == \A f \in Files : kept[f] \subseteq ReadRows

KeptRowsAreWritten == \A f \in Files : out[f].there => kept[f] \subseteq Values(f)

\* Between reading and acknowledging, a thread's row is in the reader, and then in
\* its file.
RowOfThreadIsRead ==
  \A c \in Clients :
    /\ threads[c].pc = "write" => threads[c].line.end = "."
    /\ threads[c].pc = "acknowledge" => threads[c].line.end \in DataEnds
    /\ threads[c].pc \in {"write", "acknowledge"} /\ threads[c].line.end = "." =>
         threads[c].line.value \in ReadRows

RowOfThreadIsWritten ==
  \A c \in Clients :
    threads[c].pc = "acknowledge" /\ threads[c].line.end = "." /\ out[threads[c].file].there =>
      threads[c].line.value \in Values(threads[c].file)

\* A program with a TcpWriter sends no data.
LineOfClient(c, line) ==
  /\ line.end \in DataEnds => line.name \in Names
  /\ c \in DOMAIN scene /\ scene[c].writer => line.end \in {"", "end marker"}

LinesAreNamed == \A c \in Clients : LineOfClient(c, threads[c].line)

ClosedAtTheEnd ==
  process \in {"closed", "down"} /\ ~late => \A f \in Files : ~out[f].open

RowsInv ==
  /\ ReaderKeepsOneName /\ KeptRowsWereRead /\ KeptRowsAreWritten
  /\ RowOfThreadIsRead /\ RowOfThreadIsWritten /\ LinesAreNamed /\ ClosedAtTheEnd

LEMMA InitRows == ASSUME Init PROVE RowsInv
<1>1. /\ process = "up" /\ threads = [c \in Clients |-> NoThread] /\ reader = NewTuple("")
      /\ kept = [f \in Files |-> {}]
  BY DEF Init, DataInit
<1>2. \A c \in Clients : threads[c].pc = "none" /\ threads[c].line.end = ""
  BY <1>1 DEF NoThread, NoLine, Line
<1>3. RowOfThreadIsRead /\ RowOfThreadIsWritten
  BY <1>2 DEF RowOfThreadIsRead, RowOfThreadIsWritten
<1>4. LinesAreNamed
  BY <1>2 DEF LinesAreNamed, LineOfClient, DataEnds
<1>5. ReaderKeepsOneName
  BY <1>1 DEF ReaderKeepsOneName, NewTuple
<1>6. KeptRowsWereRead /\ KeptRowsAreWritten
  BY <1>1 DEF KeptRowsWereRead, KeptRowsAreWritten
<1>7. ClosedAtTheEnd
  BY <1>1 DEF ClosedAtTheEnd
<1> QED BY <1>3, <1>4, <1>5, <1>6, <1>7 DEF RowsInv

\* A thread that does not stand between reading a line and acknowledging it.
Quiet(c, t) == t.pc \notin {"write", "acknowledge"} /\ LineOfClient(c, t.line)

SameRow(t, u) == u.pc = t.pc /\ u.line = t.line /\ u.file = t.file

\* A file that is closed, or taken away, or left alone.
Shrunk(new, old) ==
  (new.there => old.there) /\ new.rows = old.rows /\ (new.open => old.open)

\* What a step may do that reads, writes and acknowledges nothing: take a file away,
\* but not its rows, and close it.
LEMMA OtherRows ==
  ASSUME RowsInv, UNCHANGED <<reader, kept, scene, late>>,
         \A f \in Files : Shrunk(out'[f], out[f]),
         TypeInv,
         \A c \in Clients : SameRow(threads[c], threads'[c]) \/ Quiet(c, threads'[c]),
         process' \in {"closed", "down"} =>
           process \in {"closed", "down"} \/ \A f \in Files : ~out'[f].open
  PROVE  RowsInv'
<1> USE DEF RowsInv, Shrunk
<1>1. ReaderKeepsOneName'
  BY DEF ReaderKeepsOneName
<1>2. UNCHANGED ReadRows /\ KeptRowsWereRead'
  BY DEF KeptRowsWereRead, ReadRows
<1>3. \A f \in Files : Values(f)' = Values(f)
  BY DEF Values
<1>4. KeptRowsAreWritten'
  BY <1>3 DEF KeptRowsAreWritten
<1>5. RowOfThreadIsRead'
  BY <1>2 DEF RowOfThreadIsRead, SameRow, Quiet
<1>6. RowOfThreadIsWritten'
  <2> SUFFICES ASSUME NEW c \in Clients, threads'[c].pc = "acknowledge",
                      threads'[c].line.end = ".", out'[threads'[c].file].there
               PROVE  (threads[c].line.value \in Values(threads[c].file))'
    BY DEF RowOfThreadIsWritten
  <2>1. SameRow(threads[c], threads'[c])
    BY DEF Quiet
  <2>2. threads[c].pc = "acknowledge" /\ threads[c].line = threads'[c].line
        /\ threads[c].file = threads'[c].file
    BY <2>1 DEF SameRow
  <2>3. threads[c].file \in Files
    BY <2>2 DEF TypeInv, ThreadsFit, Served
  <2>4. threads[c].line.value \in Values(threads[c].file)
    BY <2>2, <2>3 DEF RowOfThreadIsWritten
  <2> QED BY <1>3, <2>2, <2>3, <2>4
<1>7. LinesAreNamed'
  <2> SUFFICES ASSUME NEW c \in Clients PROVE LineOfClient(c, threads[c].line)'
    BY DEF LinesAreNamed
  <2>1. LineOfClient(c, threads'[c].line)
    BY DEF LinesAreNamed, SameRow, Quiet
  <2> QED BY <2>1 DEF LineOfClient
<1>8. ClosedAtTheEnd'
  BY DEF ClosedAtTheEnd
<1> QED BY <1>1, <1>2, <1>4, <1>5, <1>6, <1>7, <1>8

\* The rows of a longer sequence.
LEMMA RangeOfAppend ==
  ASSUME NEW s \in Seq(SUBSET Nat), NEW x \in SUBSET Nat
  PROVE  Range(Append(s, x)) = Range(s) \cup {x}
<1>1. DOMAIN Append(s, x) = (DOMAIN s) \cup {Len(s) + 1} /\ Append(s, x)[Len(s) + 1] = x
      /\ \A i \in DOMAIN s : Append(s, x)[i] = s[i]
  OBVIOUS
<1> QED BY <1>1, Zenon DEF Range

LEMMA RangeOfConcat ==
  ASSUME NEW s \in Seq(SUBSET Nat), NEW t \in Seq(SUBSET Nat)
  PROVE  Range(s) \subseteq Range(s \o t) /\ Range(t) \subseteq Range(s \o t)
<1>1. \A i \in DOMAIN s : i \in DOMAIN (s \o t) /\ (s \o t)[i] = s[i]
  OBVIOUS
<1>2. \A i \in DOMAIN t : Len(s) + i \in DOMAIN (s \o t) /\ (s \o t)[Len(s) + i] = t[i]
  OBVIOUS
<1> QED BY <1>1, <1>2 DEF Range

LEMMA ReadKeepsRows ==
  ASSUME TypeInv, RowsInv, NEW c \in Clients, Read(c), UNCHANGED scene,
         NEW name, Names = {name}
  PROVE  RowsInv'
<1> DEFINE line == threads[c].line
           tuple == IF reader.name = line.name THEN reader ELSE NewTuple(line.name)
           row == tuple.cur \cup {line.value}
<1> USE DEF RowsInv
<1>1. line \in LineType /\ threads \in [Clients -> Threads] /\ threads[c] \in Threads
  BY ThreadIs DEF Threads
<1>2. line.name \in Names /\ line.end \in DataEnds /\ reader' = AddLine(reader, line)
  BY DEF Read, LinesAreNamed, LineOfClient
<1>3. tuple \in TupleType /\ tuple.name = line.name /\ tuple.rows = reader.rows
  <2>1. reader \in TupleType
    BY DEF TypeInv, RowsFit
  <2>2. CASE reader.name = line.name
    BY <2>1, <2>2
  <2>3. CASE reader.name # line.name
    <3>1. reader.rows = <<>>
      BY <1>2, <2>3 DEF ReaderKeepsOneName
    <3>2. tuple = NewTuple(line.name) /\ {} \in SUBSET Nat /\ <<>> \in Seq(SUBSET Nat)
      BY <2>3
    <3>3. NewTuple(line.name) \in TupleType /\ NewTuple(line.name).rows = <<>>
          /\ NewTuple(line.name).name = line.name
      BY <1>2, <3>2, Zenon DEF NewTuple, TupleType
    <3> QED BY <3>1, <3>2, <3>3
  <2> QED BY <2>2, <2>3
<1> HIDE DEF tuple
<1>4. row \in SUBSET Nat /\ line.value \in row
  BY <1>1, <1>3 DEF TupleType, LineType
<1>5. AddLine(reader, line) =
        IF line.end = "." THEN [tuple EXCEPT !.rows = Append(@, row), !.cur = {}]
        ELSE [tuple EXCEPT !.cur = row]
  BY DEF AddLine, tuple
<1> HIDE DEF row
<1>6. /\ reader'.name \in Names
      /\ reader'.rows = IF line.end = "." THEN Append(reader.rows, row) ELSE reader.rows
  <2>1. [tuple EXCEPT !.rows = Append(@, row), !.cur = {}].name = tuple.name
        /\ [tuple EXCEPT !.rows = Append(@, row), !.cur = {}].rows = Append(tuple.rows, row)
    BY <1>3 DEF TupleType
  <2>2. [tuple EXCEPT !.cur = row].name = tuple.name /\ [tuple EXCEPT !.cur = row].rows = tuple.rows
    BY <1>3 DEF TupleType
  <2> QED BY <1>2, <1>3, <1>5, <2>1, <2>2
<1>7. reader.rows \in Seq(SUBSET Nat)
  BY <1>3 DEF TupleType
<1>8. ReadRows \subseteq ReadRows' /\ (line.end = "." => line.value \in ReadRows')
  <2>1. Range(Append(reader.rows, row)) = Range(reader.rows) \cup {row}
    BY <1>4, <1>7, RangeOfAppend
  <2> QED BY <1>4, <1>6, <2>1 DEF ReadRows
<1>9. UNCHANGED <<process, out, kept, late>>
      /\ threads' = [threads EXCEPT ![c].pc = IF line.end = "." THEN "write" ELSE "acknowledge"]
  BY DEF Read
<1>10. \A d \in Clients \ {c} : threads'[d] = threads[d]
  BY <1>9
<1>11. /\ threads'[c].line = line
       /\ threads'[c].pc = IF line.end = "." THEN "write" ELSE "acknowledge"
  BY <1>1, <1>9 DEF Threads
<1> HIDE DEF line
<1>12. ReaderKeepsOneName'
  BY <1>6 DEF ReaderKeepsOneName
<1>13. KeptRowsWereRead'
  BY <1>8, <1>9 DEF KeptRowsWereRead
<1>14. KeptRowsAreWritten'
  BY <1>9 DEF KeptRowsAreWritten, Values
<1>15. RowOfThreadIsRead'
  BY <1>2, <1>8, <1>10, <1>11 DEF RowOfThreadIsRead
<1>16. RowOfThreadIsWritten'
  <2>1. \A d \in Clients \ {c} : UNCHANGED threads[d]
    BY <1>10
  <2> QED BY <1>9, <1>11, <2>1 DEF RowOfThreadIsWritten, Values
<1>17. LinesAreNamed'
  BY <1>10, <1>11 DEF LinesAreNamed, LineOfClient, line
<1>18. ClosedAtTheEnd'
  BY <1>9 DEF ClosedAtTheEnd
<1> QED BY <1>12, <1>13, <1>14, <1>15, <1>16, <1>17, <1>18

LEMMA WriteKeepsRows ==
  ASSUME TypeInv, RowsInv, NEW c \in Clients, Write(c), UNCHANGED scene
  PROVE  RowsInv'
<1> USE DEF RowsInv
<1>14. threads[c].file \in Files
  BY DEF Write, TypeInv, ThreadsFit, Served
<1>15. PICK f \in Files : f = threads[c].file
  BY <1>14
<1>1. f \in Files /\ threads[c] \in Threads /\ threads \in [Clients -> Threads]
  BY ThreadIs
<1>2. /\ out' = [out EXCEPT ![f] = Written(out[f], reader)]
      /\ late' = (late \/ process = "closed")
      /\ threads' = [threads EXCEPT ![c].pc = "acknowledge"]
      /\ threads[c].pc = "write" /\ process \in {"up", "closing", "closed"}
      /\ UNCHANGED <<process, reader, kept>>
  BY <1>15 DEF Write, Executing
<1>3. threads'[c].pc = "acknowledge" /\ threads'[c].line = threads[c].line /\ threads'[c].file = f
      /\ \A d \in Clients \ {c} : threads'[d] = threads[d]
  BY <1>1, <1>2, <1>15 DEF Threads
<1>4. out \in [Files -> Outputs] /\ reader.rows \in Seq(SUBSET Nat) /\ out[f].rows \in Seq(SUBSET Nat)
  BY <1>1 DEF TypeInv, RowsFit, Outputs, TupleType
<1>5. ReadRows \subseteq Values(f)'
  <2>1. out'[f].rows = (IF out[f].open THEN out[f].rows ELSE <<>>) \o reader.rows
    BY <1>1, <1>2, <1>4 DEF Written
  <2>2. Range(reader.rows) \subseteq Range(out'[f].rows)
    <3> DEFINE before == IF out[f].open THEN out[f].rows ELSE <<>>
    <3>1. before \in Seq(SUBSET Nat)
      BY <1>4
    <3> HIDE DEF before
    <3>2. Range(reader.rows) \subseteq Range(before \o reader.rows)
      BY <1>4, <3>1, RangeOfConcat
    <3> QED BY <2>1, <3>2 DEF before
  <2> QED BY <2>2 DEF ReadRows, Values
<1>6. \A g \in Files \ {f} : out'[g] = out[g]
  BY <1>1, <1>2, <1>4
<1>7. \A g \in Files \ {f} : Values(g)' = Values(g)
  BY <1>6 DEF Values
<1>8. ReadRows' = ReadRows
  BY <1>2 DEF ReadRows
<1>9. ReaderKeepsOneName' /\ KeptRowsWereRead' /\ ClosedAtTheEnd'
  BY <1>1, <1>2, <1>8 DEF ReaderKeepsOneName, KeptRowsWereRead, ClosedAtTheEnd, TypeInv, ProcessFits
<1>10. KeptRowsAreWritten'
  BY <1>2, <1>5, <1>6, <1>7, <1>8 DEF KeptRowsAreWritten, KeptRowsWereRead
<1>11. RowOfThreadIsRead'
  <2>1. /\ threads[c].line.end = "." /\ threads[c].line.end \in DataEnds
        /\ threads[c].line.value \in ReadRows
    BY <1>2 DEF RowOfThreadIsRead, DataEnds
  <2> QED BY <1>3, <1>8, <2>1 DEF RowOfThreadIsRead
<1>12. RowOfThreadIsWritten'
  <2> SUFFICES ASSUME NEW d \in Clients, threads'[d].pc = "acknowledge",
                      threads'[d].line.end = ".", out'[threads'[d].file].there
               PROVE  (threads[d].line.value \in Values(threads[d].file))'
    BY DEF RowOfThreadIsWritten
  <2>1. /\ threads[d].line = threads'[d].line /\ threads[d].file = threads'[d].file
        /\ threads[d].pc \in {"write", "acknowledge"}
    BY <1>2, <1>3, <1>15
  <2>2. threads[d].file \in Files
    BY <2>1 DEF TypeInv, ThreadsFit, Served
  <2>3. CASE threads[d].file = f
    BY <1>5, <2>1, <2>3 DEF RowOfThreadIsRead
  <2>4. CASE threads[d].file # f
    <3>1. d # c
      BY <1>15, <2>4
    <3>2. threads[d].pc = "acknowledge"
      BY <1>3, <3>1
    <3>3. threads[d].line.value \in Values(threads[d].file)
      BY <1>6, <2>1, <2>2, <2>4, <3>2 DEF RowOfThreadIsWritten
    <3> QED BY <1>7, <2>1, <2>2, <2>4, <3>3
  <2> QED BY <2>3, <2>4
<1>13. LinesAreNamed'
  BY <1>2, <1>3 DEF LinesAreNamed, LineOfClient
<1> QED BY <1>9, <1>10, <1>11, <1>12, <1>13

LEMMA AcknowledgeKeepsRows ==
  ASSUME TypeInv, RowsInv, NEW c \in Clients, Acknowledge(c), UNCHANGED scene
  PROVE  RowsInv'
<1> USE DEF RowsInv
<1>13. threads[c].file \in Files
  BY DEF Acknowledge, TypeInv, ThreadsFit, Served
<1>14. PICK f \in Files : f = threads[c].file
  BY <1>13
<1>15. PICK v : v = threads[c].line.value
  OBVIOUS
<1>1. f \in Files /\ threads[c] \in Threads /\ threads \in [Clients -> Threads]
      /\ kept \in [Files -> SUBSET Nat]
  BY ThreadIs DEF TypeInv, RowsFit
<1>2. /\ threads[c].pc = "acknowledge"
      /\ threads' = [threads EXCEPT ![c].pc = "read", ![c].line = NoLine]
      /\ kept' = IF threads[c].line.end = "." /\ ~threads[c].cut
                 THEN [kept EXCEPT ![f] = @ \cup {v}] ELSE kept
      /\ UNCHANGED <<process, reader, out, late>>
  BY <1>14, <1>15 DEF Acknowledge
<1>3. threads'[c].pc = "read" /\ threads'[c].line = NoLine
      /\ \A d \in Clients \ {c} : threads'[d] = threads[d]
  BY <1>1, <1>2 DEF Threads
<1>4. \A g \in Files : kept'[g] = kept[g]
                       \/ (g = f /\ threads[c].line.end = "." /\ kept'[g] = kept[g] \cup {v})
  BY <1>1, <1>2
<1>5. threads[c].line.end = "." => v \in ReadRows /\ (out[f].there => v \in Values(f))
  BY <1>2, <1>14, <1>15 DEF RowOfThreadIsRead, RowOfThreadIsWritten
<1>6. UNCHANGED ReadRows /\ \A g \in Files : Values(g)' = Values(g)
  BY <1>2 DEF ReadRows, Values
<1>7. KeptRowsWereRead'
  BY <1>4, <1>5, <1>6 DEF KeptRowsWereRead
<1>8. KeptRowsAreWritten'
  BY <1>2, <1>4, <1>5, <1>6 DEF KeptRowsAreWritten
<1>9. ReaderKeepsOneName' /\ ClosedAtTheEnd'
  BY <1>2 DEF ReaderKeepsOneName, ClosedAtTheEnd
<1>10. RowOfThreadIsRead'
  BY <1>3, <1>6 DEF RowOfThreadIsRead
<1>11. RowOfThreadIsWritten'
  BY <1>2, <1>3, <1>6 DEF RowOfThreadIsWritten, Values
<1>12. LinesAreNamed'
  <2>1. NoLine.end = ""
    BY DEF NoLine, Line
  <2>2. LineOfClient(c, NoLine)'
    BY <2>1 DEF LineOfClient, DataEnds
  <2> QED BY <1>3, <2>2 DEF LinesAreNamed, LineOfClient
<1> QED BY <1>7, <1>8, <1>9, <1>10, <1>11, <1>12

\* To cut connections off, to throw channels away.
LEMMA CutRows ==
  ASSUME TypeInv, RowsInv, NEW V, threads' = Cut(V)
  PROVE  \A c \in Clients : SameRow(threads[c], threads'[c])
BY CutIs DEF TypeInv, ThreadsFit, SameRow

LEMMA DeleteChannelRows ==
  ASSUME TypeInv, RowsInv, NEW p, DeleteChannel(p)
  PROVE  \A c \in Clients : SameRow(threads[c], threads'[c])
<1>1. CASE UNCHANGED threads
  BY <1>1 DEF SameRow
<1>2. CASE \E V : threads' = Cut(V)
  BY <1>2, CutRows
<1> QED BY <1>1, <1>2 DEF DeleteChannel

\* One connection changes, and its thread is not between reading and acknowledging.
LEMMA OneRow ==
  ASSUME TypeInv, RowsInv, NEW c \in Clients, NEW t, threads' = [threads EXCEPT ![c] = t],
         t.pc \notin {"write", "acknowledge"}, LineOfClient(c, t.line)
  PROVE  \A d \in Clients : SameRow(threads[d], threads'[d]) \/ Quiet(d, threads'[d])
<1>1. threads \in [Clients -> Threads]
  BY ThreadIs
<1>2. threads'[c] = t /\ \A d \in Clients \ {c} : threads'[d] = threads[d]
  BY <1>1
<1> QED BY <1>2 DEF SameRow, Quiet

LEMMA ThreadLine ==
  ASSUME TypeInv, RowsInv, NEW c \in Clients
  PROVE  LineOfClient(c, threads[c].line) /\ LineOfClient(c, NoLine)
BY DEF RowsInv, LinesAreNamed, LineOfClient, NoLine, Line, DataEnds

LEMMA ShrunkIs ==
  ASSUME TypeInv, NEW f \in Files,
         NEW new \in {out[f], [out[f] EXCEPT !.open = FALSE], [out[f] EXCEPT !.there = FALSE]}
  PROVE  Shrunk(new, out[f]) /\ (new = [out[f] EXCEPT !.open = FALSE] => ~new.open)
<1>1. out[f] \in Outputs
  BY DEF TypeInv, RowsFit
<1> QED BY <1>1 DEF Outputs, Shrunk

LEMMA AcceptorKeepsRows ==
  ASSUME TypeInv, RowsInv, NEW p \in DOMAIN acceptors, Acceptor(p), UNCHANGED scene
  PROVE  RowsInv'
<1>1. UNCHANGED <<reader, kept, scene, late, out>> /\ process' \in {process, "crashed"}
  BY DEF Acceptor, Start, Listen, Accept
<1>2. \A c \in Clients : SameRow(threads[c], threads'[c]) \/ Quiet(c, threads'[c])
  <2>1. CASE UNCHANGED threads
    BY <2>1 DEF SameRow
  <2>2. CASE DeleteChannel(p)
    BY <2>2, DeleteChannelRows
  <2>3. ASSUME NEW c \in Clients, NEW f,
               threads' = [threads EXCEPT ![c].pc = "read", ![c].file = f]
        PROVE  \A d \in Clients : SameRow(threads[d], threads'[d]) \/ Quiet(d, threads'[d])
    <3> DEFINE t == [threads[c] EXCEPT !.pc = "read", !.file = f]
    <3>1. threads' = [threads EXCEPT ![c] = t]
      BY <2>3
    <3>2. t.pc = "read" /\ t.line = threads[c].line
      BY ThreadIs DEF Threads
    <3> HIDE DEF t
    <3> QED BY <3>1, <3>2, ThreadLine, OneRow
  <2> QED BY <2>1, <2>2, <2>3 DEF Acceptor, Start, Listen, Accept
<1>3. \A f \in Files : Shrunk(out'[f], out[f])
  BY <1>1, ShrunkIs
<1> QED BY <1>1, <1>2, <1>3, OtherRows

LEMMA DataThreadKeepsRows ==
  ASSUME TypeInv, RowsInv, NEW c \in Clients, DataThread(c), UNCHANGED scene,
         NEW name, Names = {name}
  PROVE  RowsInv'
<1>1. CASE Ignore(c) \/ EndMarker(c) \/ Broken(c) \/ Disconnected(c)
  <2>1. PICK t \in {[threads[c] EXCEPT !.line = NoLine], [threads[c] EXCEPT !.pc = "over"]} :
          threads' = [threads EXCEPT ![c] = t]
    BY <1>1 DEF Ignore, EndMarker, Broken, Disconnected
  <2>2. threads[c].pc = "read"
    BY <1>1 DEF Ignore, EndMarker, Broken, Disconnected
  <2>3. t.pc \notin {"write", "acknowledge"} /\ t.line \in {NoLine, threads[c].line}
    BY <2>2, ThreadIs DEF Threads
  <2>10. LineOfClient(c, t.line)
    BY <2>3, ThreadLine
  <2>4. \A d \in Clients : SameRow(threads[d], threads'[d]) \/ Quiet(d, threads'[d])
    BY <2>1, <2>3, <2>10, OneRow
  <2>5. UNCHANGED <<reader, kept, scene, late>> /\ process' \in {process, "closing"}
    BY <1>1 DEF Ignore, EndMarker, Broken, Disconnected, Exit
  <2>6. threads[c].file \in Files /\ out \in [Files -> Outputs]
    BY <2>2 DEF TypeInv, ThreadsFit, RowsFit, Served
  <2>7. UNCHANGED out \/ out' = [out EXCEPT ![threads[c].file].open = FALSE]
    BY <1>1 DEF Ignore, EndMarker, Broken, Disconnected, ClosedFile
  <2>8. \A f \in Files : out'[f] \in {out[f], [out[f] EXCEPT !.open = FALSE]}
    BY <2>6, <2>7
  <2>9. \A f \in Files : Shrunk(out'[f], out[f])
    BY <2>8, ShrunkIs
  <2> QED BY <2>4, <2>5, <2>9, OtherRows
<1> QED BY <1>1, ReadKeepsRows, WriteKeepsRows, AcknowledgeKeepsRows DEF DataThread

LEMMA ExitingKeepsRows ==
  ASSUME TypeInv, RowsInv, Exiting, UNCHANGED scene
  PROVE  RowsInv'
<1>1. UNCHANGED <<reader, kept, late>>
  BY DEF Exiting, DestroyServers, CloseWriters, Down
<1>2. \A c \in Clients : SameRow(threads[c], threads'[c])
  <2>1. CASE UNCHANGED threads
    BY <2>1 DEF SameRow
  <2>2. CASE \E V : threads' = Cut(V)
    BY <2>2, CutRows
  <2> QED BY <2>1, <2>2 DEF Exiting, DestroyServers, CloseWriters, Down
<1>3. UNCHANGED out \/ out' = [f \in Files |-> [out[f] EXCEPT !.open = FALSE]]
  BY DEF Exiting, DestroyServers, CloseWriters, Down
<1>4. \A f \in Files : Shrunk(out'[f], out[f])
  BY <1>3, ShrunkIs
<1>5. process' \in {"closed", "down"} =>
        process \in {"closed", "down"} \/ \A f \in Files : ~out'[f].open
  <2>1. CASE CloseWriters
    <3>1. \A f \in Files : out'[f] = [out[f] EXCEPT !.open = FALSE]
      BY <2>1 DEF CloseWriters
    <3> QED BY <3>1, ShrunkIs
  <2>2. CASE ~CloseWriters
    BY <2>2 DEF Exiting, DestroyServers, Down
  <2> QED BY <2>1, <2>2
<1> QED BY <1>1, <1>2, <1>4, <1>5, OtherRows

LEMMA CommThreadKeepsRows ==
  ASSUME TypeInv, RowsInv, NEW c \in Clients, CommThread(c), UNCHANGED scene
  PROVE  RowsInv'
<1> DEFINE there == {i \in DOMAIN tokens : out[tokens[i]].there}
<1>1. UNCHANGED <<reader, kept, late>> /\ process' \in {process, "closing", "crashed"}
  BY DEF CommThread, Answer, ExitCommand, Shutdown, Exit, Open, Look, NewPort, Insert, Connect, Bind,
         BindFreed, Thread, Close, CloseChannel, Flush, CloseAll, Delete, dataVars
<1>2. \A d \in Clients : SameRow(threads[d], threads'[d])
  <2>1. CASE UNCHANGED threads
    BY <2>1 DEF SameRow
  <2>2. CASE CloseChannel(c) /\ ~UNCHANGED threads
    <3>1. PICK p : DeleteChannel(p)
      BY <2>2 DEF CloseChannel
    <3> QED BY <3>1, DeleteChannelRows
  <2>3. UNCHANGED threads \/ CloseChannel(c)
    BY DEF CommThread, Answer, ExitCommand, Shutdown, Open, Look, NewPort, Insert, Connect, Bind,
           BindFreed, Thread, Close, Flush, CloseAll, Delete, dataVars
  <2> QED BY <2>1, <2>2, <2>3
<1>3. \A f \in Files : out'[f] \in {out[f], [out[f] EXCEPT !.open = FALSE],
                                    [out[f] EXCEPT !.there = FALSE]}
  <2>1. out \in [Files -> Outputs]
    BY DEF TypeInv, RowsFit
  <2>2. CASE UNCHANGED out
    BY <2>2
  <2>3. CASE Flush(c)
    BY <2>1, <2>3 DEF Flush, ClosedFile
  <2>4. CASE CloseAll(c)
    BY <2>4 DEF CloseAll
  <2>5. CASE Delete(c)
    <3>1. PICK g : out' \in {out, [out EXCEPT ![g].there = FALSE]}
      BY <2>5 DEF Delete
    <3> QED BY <2>1, <3>1
  <2>6. UNCHANGED out \/ Flush(c) \/ CloseAll(c) \/ Delete(c)
    BY DEF CommThread, Answer, ExitCommand, Shutdown, Open, Look, NewPort, Insert, Connect, Bind,
           BindFreed, Thread, Close, CloseChannel, dataVars
  <2> QED BY <2>2, <2>3, <2>4, <2>5, <2>6
<1>4. \A f \in Files : Shrunk(out'[f], out[f])
  BY <1>3, ShrunkIs
<1> QED BY <1>1, <1>2, <1>4, OtherRows

LEMMA ClientKeepsRows ==
  ASSUME TypeInv, RowsInv, NEW c \in DOMAIN scene, UNCHANGED scene,
         IF scene[c].writer THEN Negotiate(c) \/ Writing(c) ELSE Talk(c) \/ Send(c)
  PROVE  RowsInv'
<1>1. c \in Clients
  BY SceneIs
<1>2. UNCHANGED <<process, reader, out, kept, late>>
  BY DEF Negotiate, Writing, Construct, Destruct, Confirm, Fail, Talk, Send, Contact, Interpret,
         DataUnchanged, dataVars
<1>3. \A f \in Files : Shrunk(out'[f], out[f])
  BY <1>2, ShrunkIs
<1> SUFFICES \A d \in Clients : SameRow(threads[d], threads'[d]) \/ Quiet(d, threads'[d])
  BY <1>2, <1>3, OtherRows
<1>4. CASE UNCHANGED threads
  BY <1>4 DEF SameRow
<1>5. CASE ContactChannel(c)
  <2> DEFINE t == [threads[c] EXCEPT !.pc = "backlog", !.port = told[c].port]
  <2>1. threads' = [threads EXCEPT ![c] = t]
    BY <1>5 DEF ContactChannel
  <2>2. t.pc = "backlog" /\ t.line = threads[c].line
    BY <1>1, ThreadIs DEF Threads
  <2> HIDE DEF t
  <2>3. LineOfClient(c, t.line)
    BY <1>1, <2>2, ThreadLine
  <2> QED BY <1>1, <2>1, <2>2, <2>3, OneRow
<1>6. CASE Destruct(c) /\ scene[c].writer /\ ~UNCHANGED threads
  <2> DEFINE line == Line("", 0, "end marker")
             t == [threads[c] EXCEPT !.line = line]
  <2>1. threads' = [threads EXCEPT ![c] = t]
    BY <1>6 DEF Destruct
  <2>2. t.pc = threads[c].pc /\ t.line = line
    BY <1>1, ThreadIs DEF Threads
  <2>3. line.end = "end marker"
    BY DEF Line
  <2> HIDE DEF t, line
  <2>4. LineOfClient(c, t.line)
    BY <2>2, <2>3 DEF LineOfClient, DataEnds
  <2>5. threads[c].line.end \in {"", "end marker"}
    BY <1>1, <1>6, ThreadLine DEF LineOfClient
  <2>6. threads[c].pc \notin {"write", "acknowledge"}
    BY <1>1, <2>5 DEF RowsInv, RowOfThreadIsRead, DataEnds
  <2> QED BY <1>1, <2>1, <2>2, <2>4, <2>6, OneRow
<1>7. CASE Send(c) /\ ~scene[c].writer
  <2>1. PICK end \in scene[c].sends :
          \/ end \in OtherEnds /\ threads' = [threads EXCEPT ![c].line = Line("", 0, end)]
          \/ end \notin OtherEnds
             /\ \E name \in Names : threads' = [threads EXCEPT ![c].line = Line(name, sent', end)]
    BY <1>7 DEF Send
  <2>2. PICK line : /\ threads' = [threads EXCEPT ![c].line = line]
                    /\ line.end \in DataEnds => line.name \in Names
    <3>1. \A name, n : Line(name, n, end).end = end /\ Line(name, n, end).name = name
      BY DEF Line
    <3>2. CASE end \in OtherEnds
      <4>1. end \notin DataEnds
        BY <3>2 DEF OtherEnds, DataEnds
      <4>2. Line("", 0, end).end = end
        BY <3>1
      <4>3. threads' = [threads EXCEPT ![c].line = Line("", 0, end)]
        BY <2>1, <3>2
      <4> QED BY <4>1, <4>2, <4>3, Zenon
    <3>3. CASE end \notin OtherEnds
      <4>1. PICK name \in Names : threads' = [threads EXCEPT ![c].line = Line(name, sent', end)]
        BY <2>1, <3>3
      <4>2. Line(name, sent', end).name = name
        BY <3>1
      <4> QED BY <4>1, <4>2, Zenon
    <3> QED BY <3>2, <3>3
  <2> DEFINE t == [threads[c] EXCEPT !.line = line]
  <2>3. threads' = [threads EXCEPT ![c] = t]
    BY <2>2
  <2>4. t.pc = "read" /\ t.line = line
    BY <1>1, <1>7, ThreadIs DEF Threads, Send
  <2> HIDE DEF t
  <2>5. LineOfClient(c, t.line)
    BY <1>7, <2>2, <2>4 DEF LineOfClient
  <2> QED BY <1>1, <2>3, <2>4, <2>5, OneRow
<1>8. UNCHANGED threads \/ ContactChannel(c) \/ (Destruct(c) /\ scene[c].writer)
      \/ (Send(c) /\ ~scene[c].writer)
  BY DEF Negotiate, Writing, Construct, Confirm, Fail, Talk, Contact, Interpret, dataVars
<1> QED BY <1>4, <1>5, <1>6, <1>7, <1>8

LEMMA NextRows ==
  ASSUME TypeInv, RowsInv, [Next]_vars, NEW name, Names = {name}
  PROVE  RowsInv'
<1>1. CASE UNCHANGED vars
  <2>1. UNCHANGED <<process, threads, reader, out, kept, late, scene>>
    BY <1>1 DEF vars, dataVars
  <2>2. \A f \in Files : Shrunk(out'[f], out[f])
    BY <2>1, ShrunkIs
  <2>3. \A d \in Clients : SameRow(threads[d], threads'[d])
    BY <2>1 DEF SameRow
  <2> QED BY <2>1, <2>2, <2>3, OtherRows
<1>2. CASE ClientStep /\ UNCHANGED scene
  BY <1>2, ClientKeepsRows DEF ClientStep
<1>3. CASE DaemonStep /\ UNCHANGED scene
  BY <1>3, AcceptorKeepsRows, DataThreadKeepsRows, CommThreadKeepsRows, ExitingKeepsRows DEF DaemonStep
<1> QED BY <1>1, <1>2, <1>3 DEF Next

LEMMA RowsInvHolds == ASSUME NEW name, Names = {name} PROVE Spec => []RowsInv
<1>1. Init => RowsInv
  BY InitRows
<1>2. TypeInv /\ RowsInv /\ [Next]_vars => RowsInv'
  BY NextRows
<1> QED BY <1>1, <1>2, TypeInvHolds, PTL DEF Spec

\* A row that was acknowledged to a client is in the file of its channel, for any number
\* of clients that write to any number of files through the one reader, in the order of
\* their threads' steps that the scheduler likes, whoever opens and closes files in
\* between, and whether commands interleave or not, if all tuples have one name.
THEOREM AckedRowsTheorem ==
  ASSUME NEW name, Names = {name} PROVE Spec => []AckedRowsAreInTheirFile
<1>1. RowsInv => AckedRowsAreInTheirFile
  BY DEF RowsInv, KeptRowsAreWritten, AckedRowsAreInTheirFile
<1> QED BY <1>1, RowsInvHolds, PTL

\* When the daemon has ended in order, every file is closed and holds the rows that were
\* acknowledged for it, or a thread has written behind the closing of the writers.
THEOREM EndKeepsRowsTheorem ==
  ASSUME NEW name, Names = {name} PROVE Spec => []EndKeepsRows
<1>1. RowsInv => EndKeepsRows
  BY DEF RowsInv, KeptRowsAreWritten, ClosedAtTheEnd, EndKeepsRows
<1> QED BY <1>1, RowsInvHolds, PTL

-----------------------------------------------------------------------------
(***************************************************************************)
(* The ports that the daemon gives out, for any number of clients, files,  *)
(* ports and channels, when a client's command is executed before the next *)
(* one's.  The threads of the channels and of their clients, and the end   *)
(* of the daemon, come in between as they like.                            *)
(***************************************************************************)
\* A channel is being made: it is in the map and has no thread yet.
Unready(c) == comm[c].pc \in {"connect", "bind"}
Making(c) == Unready(c) \/ comm[c].pc = "thread"
InProgress(p) == \E c \in Clients : Making(c) /\ comm[c].port = p

Number == Len(servers)

OneCommand == \A c, d \in Clients : Busy(c) /\ Busy(d) => c = d

\* Each channel got the port after the one before it, and its socket stays open, or
\* its open waits for ever for a port that a closed channel listens on.
PortsCounted ==
  /\ (\A c \in Clients : comm[c].pc # "insert" /\ ~Making(c)) =>
       dataPort = Number /\ bound = 1 .. Number
  /\ \A c \in Clients :
       /\ comm[c].pc = "insert" =>
            dataPort \in 1 .. (Number + 1) /\ bound = 1 .. Number /\ ~Live(dataPort)
       /\ Making(c) =>
            /\ comm[c].port = dataPort /\ dataPort \in 1 .. Number
            /\ Live(dataPort) => channels[dataPort] = Number
            /\ process = "up" /\ dataPort = Number =>
                 Live(dataPort) /\ servers[Number].file = comm[c].file
       /\ Unready(c) => bound = 1 .. (Number - 1) /\ ~servers[Number].running
       /\ comm[c].pc = "bind" => comm[c].srv = Number
       /\ comm[c].pc = "thread" =>
            bound = 1 .. Number /\ dataPort = Number /\ dataPort \notin DOMAIN acceptors

ChannelsRun ==
  /\ \A s \in DOMAIN servers : servers[s].running => servers[s].orig = "bound"
  /\ \A p \in DOMAIN channels : Live(p) =>
       /\ ~servers[channels[p]].destroyed
       /\ servers[channels[p]].running \/ \E c \in Clients : Unready(c) /\ comm[c].port = p

AcceptorServes(p) ==
  /\ p \in DOMAIN acceptors
  /\ \/ acceptors[p].pc = "start"
     \/ acceptors[p].pc \in {"listen", "accept"} /\ acceptors[p].srv = channels[p]

AcceptorsServe == \A p \in DOMAIN channels : Live(p) => AcceptorServes(p) \/ InProgress(p)

FilesApart ==
  /\ \A p, q \in DOMAIN channels :
       Live(p) /\ Live(q) /\ servers[channels[p]].file = servers[channels[q]].file => p = q
  /\ \A c \in Clients : comm[c].pc \in {"port", "insert"} => ChannelsOf(comm[c].file) = {}

NullsPass ==
  \A p \in DOMAIN channels :
    channels[p] = 0 => p = dataPort /\ \E c \in Clients : comm[c].pc = "insert"

ToldPortsLive ==
  process = "up" =>
    \A c \in Clients : told[c].port # 0 /\ ~told[c].stale =>
      /\ Live(told[c].port) /\ servers[channels[told[c].port]].file = told[c].file
      /\ ~InProgress(told[c].port)

PortsInv ==
  /\ OneCommand /\ PortsCounted /\ ChannelsRun /\ AcceptorsServe /\ FilesApart
  /\ NullsPass /\ ToldPortsLive

Opens(pc) == pc \in {"insert", "connect", "bind", "thread"}

LEMMA InitPorts == ASSUME Init PROVE PortsInv
<1>1. /\ channels = <<>> /\ servers = <<>> /\ bound = {} /\ dataPort = 0 /\ acceptors = <<>>
      /\ comm = [c \in Clients |-> Idle("away")] /\ told = [c \in Clients |-> NotTold]
  BY DEF Init, DataInit, CommInit
<1>2. \A c \in Clients : comm[c].pc = "away" /\ told[c].port = 0
  BY <1>1 DEF Idle, NotTold
<1>3. Len(servers) = 0 /\ DOMAIN channels = {} /\ DOMAIN servers = {} /\ bound = 1 .. 0
  BY <1>1
<1>4. OneCommand
  BY <1>2 DEF OneCommand, Busy
<1>5. PortsCounted
  BY <1>1, <1>2, <1>3 DEF PortsCounted, Making, Unready, Number
<1>6. ChannelsRun /\ AcceptorsServe /\ NullsPass
  BY <1>3 DEF ChannelsRun, AcceptorsServe, NullsPass
<1>7. FilesApart
  BY <1>2, <1>3 DEF FilesApart
<1>8. ToldPortsLive
  BY <1>2 DEF ToldPortsLive
<1> QED BY <1>4, <1>5, <1>6, <1>7, <1>8 DEF PortsInv

-----------------------------------------------------------------------------
(***************************************************************************)
(* The steps that make no channel: they take some away, with their         *)
(* servers, and leave the others as they are.                              *)
(***************************************************************************)
\* No client comes to, or goes on with, the steps in which a channel is made.
OpensKept ==
  \A c \in Clients :
    \/ comm'[c] = comm[c]
    \/ /\ ~Opens(comm[c].pc) /\ ~Opens(comm'[c].pc)
       /\ comm'[c].pc = "port" => ChannelsOf(comm'[c].file) = {}

\* The servers of the channels that stay are as they were.
ServersKept ==
  /\ Len(servers') = Len(servers) /\ DOMAIN servers' = DOMAIN servers
  /\ \A s \in DOMAIN servers :
       /\ servers'[s].file = servers[s].file /\ servers'[s].orig = servers[s].orig
       /\ servers'[s].running => servers[s].running
  /\ \A p \in DOMAIN channels' : channels[p] # 0 =>
       /\ servers'[channels[p]].running = servers[channels[p]].running
       /\ servers'[channels[p]].destroyed = servers[channels[p]].destroyed

ChannelsKept ==
  /\ DOMAIN channels' \subseteq DOMAIN channels
  /\ \A p \in DOMAIN channels' : channels'[p] = channels[p]
  /\ process' = "up" /\ Live(Number) /\ (\E c \in Clients : Making(c) /\ dataPort = Number) =>
       Number \in DOMAIN channels'

AcceptorsKept ==
  /\ DOMAIN acceptors' \subseteq DOMAIN acceptors
  /\ \A p \in DOMAIN channels' : Live(p) /\ AcceptorServes(p) => AcceptorServes(p)'

ToldKept ==
  process' = "up" =>
    \A c \in Clients : told'[c].port # 0 /\ ~told'[c].stale =>
      /\ Live(told'[c].port) /\ servers[channels[told'[c].port]].file = told'[c].file
      /\ ~InProgress(told'[c].port) /\ told'[c].port \in DOMAIN channels'

LEMMA PortsKept ==
  ASSUME TypeInv, PortsInv, OneCommand', OpensKept, ServersKept, ChannelsKept, AcceptorsKept,
         ToldKept, UNCHANGED <<bound, dataPort>>, process' = "up" => process = "up"
  PROVE  PortsInv'
<1> USE DEF PortsInv
<1>1. \A p : Live(p)' <=> p \in DOMAIN channels' /\ Live(p)
  BY DEF Live, ChannelsKept
<1>2. \A c \in Clients : Opens(comm[c].pc) \/ Opens(comm'[c].pc) => comm'[c] = comm[c]
  BY DEF OpensKept
<1>3. \A c \in Clients : (Making(c)' <=> Making(c)) /\ (Unready(c)' <=> Unready(c))
  BY <1>2 DEF Making, Unready, Opens
<1>4. \A p : InProgress(p)' <=> InProgress(p)
  BY <1>2, <1>3 DEF InProgress, Making, Unready, Opens
<1>5. Number' = Number /\ Number \in Nat /\ DOMAIN servers = 1 .. Number
  BY ServersDomain DEF ServersKept, Number, TypeInv
<1>6. PortsCounted'
  <2>1. ASSUME \A c \in Clients : comm'[c].pc # "insert" /\ ~Making(c)'
        PROVE  dataPort' = Number' /\ bound' = 1 .. Number'
    BY <1>2, <1>3, <1>5, <2>1 DEF PortsCounted, Opens
  <2>2. ASSUME NEW c \in Clients, comm'[c].pc = "insert"
        PROVE  dataPort' \in 1 .. (Number' + 1) /\ bound' = 1 .. Number' /\ ~Live(dataPort)'
    <3>1. comm[c].pc = "insert"
      BY <1>2, <2>2 DEF Opens
    <3>2. dataPort \in 1 .. (Number + 1) /\ bound = 1 .. Number /\ ~Live(dataPort)
      BY <3>1 DEF PortsCounted
    <3>3. ~Live(dataPort)'
      BY <1>1, <3>2 DEF Live
    <3> QED BY <1>5, <3>2, <3>3
  <2>3. ASSUME NEW c \in Clients, Making(c)'
        PROVE  /\ comm'[c].port = dataPort' /\ dataPort' \in 1 .. Number'
               /\ Live(dataPort)' => channels'[dataPort'] = Number'
               /\ process' = "up" /\ dataPort' = Number' =>
                    Live(dataPort)' /\ servers'[Number'].file = comm'[c].file
    <3>1. Making(c) /\ comm'[c] = comm[c]
      BY <1>2, <1>3, <2>3 DEF Making, Unready, Opens
    <3>2. /\ comm[c].port = dataPort /\ dataPort \in 1 .. Number
          /\ Live(dataPort) => channels[dataPort] = Number
          /\ process = "up" /\ dataPort = Number =>
               Live(dataPort) /\ servers[Number].file = comm[c].file
      BY <3>1 DEF PortsCounted
    <3>3. Live(dataPort)' => Live(dataPort) /\ channels'[dataPort'] = channels[dataPort]
      BY <1>1 DEF ChannelsKept, Live
    <3>4. process' = "up" /\ dataPort' = Number' => Live(dataPort)'
      <4> HAVE process' = "up" /\ dataPort' = Number'
      <4>1. Live(Number) /\ dataPort = Number
        BY <1>5, <3>2
      <4>2. Number \in DOMAIN channels'
        BY <3>1, <4>1 DEF ChannelsKept
      <4> QED BY <1>1, <4>1, <4>2 DEF Live
    <3>5. dataPort = Number => servers'[Number'].file = servers[Number].file
      BY <1>5, <3>2 DEF ServersKept
    <3> QED BY <1>5, <3>1, <3>2, <3>3, <3>4, <3>5
  <2>4. ASSUME NEW c \in Clients, Unready(c)'
        PROVE  bound' = 1 .. (Number' - 1) /\ ~servers'[Number'].running
    <3>1. Unready(c) /\ Making(c)
      BY <1>3, <2>4 DEF Making
    <3>2. bound = 1 .. (Number - 1) /\ ~servers[Number].running /\ dataPort \in 1 .. Number
      BY <3>1 DEF PortsCounted
    <3>3. Number \in DOMAIN servers
      BY <1>5, <3>2
    <3> QED BY <1>5, <3>2, <3>3 DEF ServersKept
  <2>5. ASSUME NEW c \in Clients, comm'[c].pc = "bind" PROVE comm'[c].srv = Number'
    BY <1>2, <1>5, <2>5 DEF PortsCounted, Opens
  <2>6. ASSUME NEW c \in Clients, comm'[c].pc = "thread"
        PROVE  bound' = 1 .. Number' /\ dataPort' = Number' /\ dataPort' \notin DOMAIN acceptors'
    <3>1. comm[c].pc = "thread"
      BY <1>2, <2>6 DEF Opens
    <3> QED BY <1>5, <3>1 DEF PortsCounted, AcceptorsKept
  <2> QED BY <2>1, <2>2, <2>3, <2>4, <2>5, <2>6 DEF PortsCounted
<1>7. ChannelsRun'
  <2>1. \A s \in DOMAIN servers' : servers'[s].running => servers'[s].orig = "bound"
    BY DEF ChannelsRun, ServersKept
  <2>2. ASSUME NEW p \in DOMAIN channels', Live(p)'
        PROVE  /\ ~servers'[channels'[p]].destroyed
               /\ servers'[channels'[p]].running \/ \E c \in Clients : Unready(c)' /\ comm'[c].port = p
    <3>1. Live(p) /\ channels'[p] = channels[p] /\ channels[p] # 0 /\ p \in DOMAIN channels
      BY <1>1, <2>2 DEF ChannelsKept, Live
    <3>2. /\ servers'[channels'[p]].running = servers[channels[p]].running
          /\ servers'[channels'[p]].destroyed = servers[channels[p]].destroyed
      BY <3>1 DEF ServersKept
    <3>3. \A c \in Clients : Unready(c) => Unready(c)' /\ comm'[c] = comm[c]
      BY <1>2, <1>3 DEF Unready, Opens
    <3> QED BY <3>1, <3>2, <3>3 DEF ChannelsRun
  <2> QED BY <2>1, <2>2 DEF ChannelsRun
<1>8. AcceptorsServe'
  BY <1>1, <1>4 DEF AcceptorsServe, AcceptorsKept, ChannelsKept
<1>9. FilesApart'
  <2>1. ASSUME NEW p, Live(p)'
        PROVE  /\ p \in DOMAIN channels /\ Live(p)
               /\ servers'[channels'[p]].file = servers[channels[p]].file
    <3>1. p \in DOMAIN channels /\ Live(p) /\ channels'[p] = channels[p] /\ channels[p] # 0
      BY <1>1, <2>1 DEF Live, ChannelsKept
    <3>2. channels[p] \in DOMAIN servers
      BY <1>5, <3>1 DEF TypeInv, ChannelsFit, Number
    <3> QED BY <3>1, <3>2 DEF ServersKept
  <2>2. \A p, q \in DOMAIN channels' :
          Live(p)' /\ Live(q)' /\ servers'[channels'[p]].file = servers'[channels'[q]].file => p = q
    BY <2>1 DEF FilesApart
  <2>3. ASSUME NEW c \in Clients, comm'[c].pc \in {"port", "insert"}
        PROVE  (ChannelsOf(comm[c].file) = {})'
    <3>1. ChannelsOf(comm'[c].file) = {}
      BY <2>3 DEF OpensKept, FilesApart, Opens
    <3> QED BY <2>1, <3>1 DEF ChannelsOf
  <2> QED BY <2>2, <2>3 DEF FilesApart
<1>10. NullsPass'
  BY <1>2 DEF NullsPass, ChannelsKept, Opens
<1>11. ToldPortsLive'
  <2> SUFFICES ASSUME process' = "up", NEW c \in Clients, told'[c].port # 0, ~told'[c].stale
               PROVE  (/\ Live(told[c].port) /\ servers[channels[told[c].port]].file = told[c].file
                       /\ ~InProgress(told[c].port))'
    BY DEF ToldPortsLive
  <2>1. PICK p : p = told'[c].port
    OBVIOUS
  <2>2. /\ Live(p) /\ servers[channels[p]].file = told'[c].file
        /\ ~InProgress(p) /\ p \in DOMAIN channels'
    BY <2>1 DEF ToldKept
  <2>3. Live(p)' /\ ~InProgress(p)' /\ channels'[p] = channels[p] /\ channels[p] \in DOMAIN servers
    BY <1>1, <1>4, <1>5, <2>2 DEF ChannelsKept, Live, TypeInv, ChannelsFit, Number
  <2>4. servers'[channels'[p]].file = told'[c].file
    BY <2>2, <2>3 DEF ServersKept
  <2> QED BY <2>1, <2>3, <2>4 DEF Live, InProgress
<1> QED BY <1>6, <1>7, <1>8, <1>9, <1>10, <1>11

LEMMA OneCommandKept ==
  ASSUME OneCommand, NEW c \in Clients, NEW x,
         comm \in [Clients -> CommType], comm' = [comm EXCEPT ![c] = x],
         x.pc \in {"away", "ready"} \/ Busy(c) \/ \A d \in Clients : ~Busy(d)
  PROVE  OneCommand'
<1>1. comm'[c] = x /\ \A d \in Clients \ {c} : comm'[d] = comm[d]
  OBVIOUS
<1> QED BY <1>1 DEF OneCommand, Busy

LEMMA ToldUnchanged ==
  ASSUME PortsInv, UNCHANGED told, process' = "up" => process = "up",
         \A p \in DOMAIN channels : process' = "up" /\ Live(p) /\ ~InProgress(p) => p \in DOMAIN channels'
  PROVE  ToldKept
BY DEF PortsInv, ToldPortsLive, ToldKept, Live

LEMMA StillPorts ==
  ASSUME TypeInv, PortsInv, UNCHANGED <<channels, servers, bound, acceptors, dataPort, comm, told>>,
         process' = "up" => process = "up"
  PROVE  PortsInv'
<1>1. OneCommand' /\ OpensKept
  BY DEF PortsInv, OneCommand, Busy, OpensKept
<1>2. ServersKept /\ ChannelsKept /\ AcceptorsKept
  BY DEF ServersKept, ChannelsKept, AcceptorsKept, AcceptorServes, Live
<1>3. ToldKept
  BY ToldUnchanged
<1> QED BY <1>1, <1>2, <1>3, PortsKept

LEMMA CommandPorts ==
  ASSUME TypeInv, PortsInv, NEW c \in Clients, NEW x, comm' = [comm EXCEPT ![c] = x],
         ~Opens(comm[c].pc), ~Opens(x.pc),
         x.pc \in {"away", "ready"} \/ Busy(c) \/ \A d \in Clients : ~Busy(d),
         x.pc = "port" => ChannelsOf(x.file) = {},
         UNCHANGED <<channels, servers, bound, acceptors, dataPort>>,
         process' = "up" => process = "up", ToldKept
  PROVE  PortsInv'
<1>1. comm'[c] = x /\ \A d \in Clients \ {c} : comm'[d] = comm[d]
  BY CommIs
<1>2. OneCommand'
  BY CommIs, OneCommandKept DEF PortsInv
<1>3. OpensKept
  BY <1>1 DEF OpensKept
<1>4. ServersKept /\ ChannelsKept /\ AcceptorsKept
  BY DEF ServersKept, ChannelsKept, AcceptorsKept, AcceptorServes, Live
<1> QED BY <1>2, <1>3, <1>4, PortsKept

LEMMA DestroyedKeeps ==
  ASSUME TypeInv, NEW S, servers' = Destroyed(servers, S)
  PROVE  /\ Len(servers') = Len(servers) /\ DOMAIN servers' = DOMAIN servers
         /\ \A s \in DOMAIN servers :
              /\ servers'[s].file = servers[s].file /\ servers'[s].orig = servers[s].orig
              /\ servers'[s].running => servers[s].running
         /\ \A s \in DOMAIN servers \ S : servers'[s] = servers[s]
<1>1. servers \in Seq(Servers)
  BY DEF TypeInv, ServersFit
<1>2. servers' \in Seq(Servers) /\ Len(servers') = Len(servers)
  BY <1>1, DestroyedType
<1>3. DOMAIN servers' = DOMAIN servers
  BY <1>1, <1>2
<1>4. \A s \in DOMAIN servers : servers[s] \in Servers
  BY <1>1
<1>5. \A s \in DOMAIN servers :
        servers'[s] = IF s \in S THEN [servers[s] EXCEPT !.destroyed = TRUE, !.running = FALSE]
                      ELSE servers[s]
  BY DEF Destroyed
<1>6. \A s \in DOMAIN servers :
        /\ servers'[s].file = servers[s].file /\ servers'[s].orig = servers[s].orig
        /\ servers'[s].running => servers[s].running
  BY <1>4, <1>5 DEF Servers
<1> QED BY <1>2, <1>3, <1>5, <1>6

\* A channel is deleted with its server, and the other channels have others.
LEMMA DeleteChannelKeeps ==
  ASSUME TypeInv, NEW p, DeleteChannel(p)
  PROVE  /\ ServersKept
         /\ DOMAIN channels' = DOMAIN channels \ {p}
         /\ \A q \in DOMAIN channels' : channels'[q] = channels[q]
<1>1. DOMAIN channels' = DOMAIN channels \ {p} /\ \A q \in DOMAIN channels' : channels'[q] = channels[q]
  BY DEF DeleteChannel, Without, Restrict
<1>2. CASE Live(p)
  <2>1. servers' = Destroyed(servers, {channels[p]})
    BY <1>2 DEF DeleteChannel
  <2>2. \A q \in DOMAIN channels' : channels[q] # 0 =>
          channels[q] \in DOMAIN servers /\ channels[q] # channels[p]
    BY <1>1, <1>2, ServersDomain DEF TypeInv, ChannelsFit, Live
  <2>3. \A q \in DOMAIN channels' : channels[q] # 0 => servers'[channels[q]] = servers[channels[q]]
    <3>1. \A s \in DOMAIN servers \ {channels[p]} : servers'[s] = servers[s]
      BY <2>1, DestroyedKeeps
    <3> QED BY <2>2, <3>1
  <2> QED BY <1>1, <2>1, <2>3, DestroyedKeeps DEF ServersKept
<1>3. CASE ~Live(p)
  <2>1. UNCHANGED servers
    BY <1>3 DEF DeleteChannel
  <2> QED BY <1>1, <2>1 DEF ServersKept
<1> QED BY <1>2, <1>3
-----------------------------------------------------------------------------
(***************************************************************************)
(* The thread of a channel.                                                *)
(***************************************************************************)
\* A channel that is being made on the last port has no thread yet.
LEMMA LastPort ==
  ASSUME TypeInv, PortsInv, NEW c \in Clients, Making(c), dataPort = Number
  PROVE  Number \notin DOMAIN acceptors
<1>1. Number \in Nat
  BY ServersDomain DEF TypeInv, Number
<1>2. CASE Unready(c)
  BY <1>1, <1>2 DEF PortsInv, PortsCounted, TypeInv, AcceptorsFit
<1>3. CASE comm[c].pc = "thread"
  BY <1>3 DEF PortsInv, PortsCounted
<1> QED BY <1>2, <1>3 DEF Making

LEMMA StartPorts ==
  ASSUME TypeInv, PortsInv, NEW p \in DOMAIN acceptors, Start(p), UNCHANGED commVars
  PROVE  PortsInv'
<1>1. UNCHANGED <<process, servers, bound, dataPort, comm, told>>
  BY DEF Start, commVars
<1>2. OneCommand' /\ OpensKept
  BY <1>1 DEF PortsInv, OneCommand, Busy, OpensKept
<1>3. /\ DOMAIN channels' = IF Live(p) THEN DOMAIN channels ELSE DOMAIN channels \ {p}
      /\ \A q \in DOMAIN channels' : channels'[q] = channels[q]
  BY DEF Start, Without, Restrict
<1>4. ServersKept
  BY <1>1 DEF ServersKept
<1>5. ChannelsKept
  BY <1>3 DEF ChannelsKept, Live
<1>6. ToldKept
  BY <1>1, <1>3, ToldUnchanged
<1>7. AcceptorsKept
  <2>1. DOMAIN acceptors' = DOMAIN acceptors /\ \A q \in DOMAIN acceptors \ {p} : acceptors'[q] = acceptors[q]
    BY DEF Start
  <2>2. Live(p) => acceptors'[p].pc = "listen" /\ acceptors'[p].srv = channels[p]
    BY DEF Start
  <2> QED BY <1>3, <2>1, <2>2 DEF AcceptorsKept, AcceptorServes
<1> QED BY <1>1, <1>2, <1>4, <1>5, <1>6, <1>7, PortsKept

LEMMA ListenPorts ==
  ASSUME TypeInv, PortsInv, NEW p \in DOMAIN acceptors, Listen(p), UNCHANGED commVars
  PROVE  PortsInv'
<1> DEFINE server == servers[acceptors[p].srv]
           goes_on == ~server.destroyed /\ server.orig = "bound"
<1>1. UNCHANGED <<process, bound, dataPort, comm, told>> /\ acceptors[p].pc = "listen"
  BY DEF Listen, commVars
<1>2. OneCommand' /\ OpensKept
  BY <1>1 DEF PortsInv, OneCommand, Busy, OpensKept
<1>3. CASE goes_on
  <2>1. UNCHANGED <<channels, servers>> /\ acceptors' = [acceptors EXCEPT ![p].pc = "accept"]
    BY <1>3 DEF Listen
  <2>2. ServersKept /\ ChannelsKept
    BY <2>1 DEF ServersKept, ChannelsKept, Live
  <2>3. AcceptorsKept
    <3>1. acceptors'[p].pc = "accept" /\ acceptors'[p].srv = acceptors[p].srv
          /\ DOMAIN acceptors' = DOMAIN acceptors
          /\ \A q \in DOMAIN acceptors \ {p} : acceptors'[q] = acceptors[q]
      BY <2>1 DEF TypeInv, AcceptorsFit, AcceptorType
    <3> QED BY <1>1, <2>1, <3>1 DEF AcceptorsKept, AcceptorServes
  <2>4. ToldKept
    BY <1>1, <2>1, ToldUnchanged
  <2> QED BY <1>1, <1>2, <2>2, <2>3, <2>4, PortsKept
<1>4. CASE ~goes_on
  <2>1. DeleteChannel(p) /\ acceptors' = [acceptors EXCEPT ![p].pc = "over"]
    BY <1>4 DEF Listen
  <2>2. /\ ServersKept /\ DOMAIN channels' = DOMAIN channels \ {p}
        /\ \A q \in DOMAIN channels' : channels'[q] = channels[q]
    BY <2>1, DeleteChannelKeeps
  <2>3. Live(p) => InProgress(p)
    <3> SUFFICES ASSUME Live(p), ~InProgress(p) PROVE FALSE
      OBVIOUS
    <3>1. p \in DOMAIN channels /\ AcceptorServes(p)
      BY DEF PortsInv, AcceptorsServe, Live
    <3>2. acceptors[p].srv = channels[p]
      BY <1>1, <3>1 DEF AcceptorServes
    <3>3. ~server.destroyed /\ server.running
      BY <3>1, <3>2 DEF PortsInv, ChannelsRun, InProgress, Making
    <3>4. acceptors[p].srv \in DOMAIN servers
      BY <1>1 DEF TypeInv, AcceptorsFit
    <3> QED BY <1>4, <3>3, <3>4 DEF PortsInv, ChannelsRun
  <2>4. ChannelsKept
    BY <2>2, LastPort DEF ChannelsKept, Live
  <2>5. ToldKept
    BY <1>1, <2>2, <2>3, ToldUnchanged
  <2>6. AcceptorsKept
    BY <2>1, <2>2 DEF AcceptorsKept, AcceptorServes
  <2> QED BY <1>1, <1>2, <2>2, <2>4, <2>5, <2>6, PortsKept
<1> QED BY <1>3, <1>4

LEMMA AcceptPorts ==
  ASSUME TypeInv, PortsInv, NEW p \in DOMAIN acceptors, Accept(p), UNCHANGED commVars
  PROVE  PortsInv'
<1>1. UNCHANGED <<channels, bound, dataPort, comm, told>> /\ process' \in {process, "crashed"}
      /\ acceptors[p].pc = "accept"
  BY DEF Accept, commVars
<1>2. CASE UNCHANGED <<servers, acceptors>>
  BY <1>1, <1>2, StillPorts
<1>3. CASE ~UNCHANGED <<servers, acceptors>>
  <2> DEFINE s == acceptors[p].srv
  <2>1. PICK c : /\ servers' = [servers EXCEPT ![s].last = c]
                 /\ acceptors' = [acceptors EXCEPT ![p].pc = "listen"]
    BY <1>3 DEF Accept
  <2>2. \A n \in DOMAIN servers : servers[n] \in Servers
    BY DEF TypeInv, ServersFit
  <2>3. /\ DOMAIN servers' = DOMAIN servers /\ Len(servers') = Len(servers)
        /\ \A n \in DOMAIN servers : servers'[n] \in {servers[n], [servers[n] EXCEPT !.last = c]}
    BY <2>1 DEF TypeInv, ServersFit
  <2>4. \A n \in DOMAIN servers :
          /\ servers'[n].file = servers[n].file /\ servers'[n].orig = servers[n].orig
          /\ servers'[n].running = servers[n].running /\ servers'[n].destroyed = servers[n].destroyed
    BY <2>2, <2>3 DEF Servers
  <2>5. ServersKept
    BY <1>1, <2>3, <2>4, ServersDomain DEF ServersKept, TypeInv, ChannelsFit
  <2>6. ChannelsKept
    BY <1>1 DEF ChannelsKept, Live
  <2>7. ToldKept
    BY <1>1, ToldUnchanged
  <2>8. AcceptorsKept
    <3>1. acceptors'[p].pc = "listen" /\ acceptors'[p].srv = acceptors[p].srv
          /\ DOMAIN acceptors' = DOMAIN acceptors
          /\ \A q \in DOMAIN acceptors \ {p} : acceptors'[q] = acceptors[q]
      BY <2>1 DEF TypeInv, AcceptorsFit, AcceptorType
    <3> QED BY <1>1, <3>1 DEF AcceptorsKept, AcceptorServes
  <2>9. OneCommand' /\ OpensKept
    BY <1>1 DEF PortsInv, OneCommand, Busy, OpensKept
  <2> QED BY <1>1, <2>5, <2>6, <2>7, <2>8, <2>9, PortsKept
<1> QED BY <1>2, <1>3

\* exit() takes all channels away.
LEMMA DestroyServersPorts ==
  ASSUME TypeInv, PortsInv, DestroyServers, UNCHANGED commVars
  PROVE  PortsInv'
<1>1. UNCHANGED <<process, bound, acceptors, dataPort, comm, told>> /\ process = "closing"
  BY DEF DestroyServers, commVars
<1>2. DOMAIN channels' = {} /\ \E S : servers' = Destroyed(servers, S)
  <2>1. channels' = <<>> /\ \E S : servers' = Destroyed(servers, S)
    BY DEF DestroyServers
  <2> QED BY <2>1
<1>3. ServersKept
  BY <1>2, DestroyedKeeps DEF ServersKept
<1>4. OneCommand' /\ OpensKept
  BY <1>1 DEF PortsInv, OneCommand, Busy, OpensKept
<1>5. ChannelsKept /\ AcceptorsKept /\ ToldKept
  BY <1>1, <1>2 DEF ChannelsKept, AcceptorsKept, ToldKept
<1> QED BY <1>1, <1>3, <1>4, <1>5, PortsKept

-----------------------------------------------------------------------------
(***************************************************************************)
(* The commands.                                                           *)
(***************************************************************************)
\* Nobody else makes a channel while a client's command is executed.
LEMMA NobodyOpens ==
  ASSUME PortsInv, NEW c \in Clients, Busy(c), ~Opens(comm[c].pc)
  PROVE  \A d \in Clients : ~Opens(comm[d].pc) /\ comm[d].pc # "insert" /\ ~Making(d) /\ ~Unready(d)
BY DEF PortsInv, OneCommand, Busy, Opens, Making, Unready

LEMMA ContactPorts ==
  ASSUME TypeInv, PortsInv, NEW c \in Clients, Contact(c)
  PROVE  PortsInv'
<1>1. UNCHANGED <<process, channels, servers, bound, acceptors, dataPort, told>>
      /\ comm[c].pc = "away" /\ comm' = [comm EXCEPT ![c] = Idle("ready")]
  BY DEF Contact, Done, dataVars
<1>2. Idle("ready").pc = "ready"
  BY DEF Idle
<1>3. ToldKept
  BY <1>1, ToldUnchanged
<1> QED BY <1>1, <1>2, <1>3, CommandPorts DEF Opens

LEMMA InterpretPorts ==
  ASSUME TypeInv, PortsInv, NEW c \in Clients, NEW r \in Requests,
         Interpret(c, r.command, r.words), ~Concurrent
  PROVE  PortsInv'
<1> DEFINE x == [comm[c] EXCEPT !.pc = r.command]
<1>1. UNCHANGED <<process, channels, servers, bound, acceptors, dataPort, told>>
      /\ comm[c].pc = "ready" /\ comm' = [comm EXCEPT ![c] = x] /\ \A d \in Clients : ~Busy(d)
  BY DEF Interpret, Goto, dataVars
<1>2. x.pc = r.command
  BY CommIs DEF CommType
<1>3. ~Opens(x.pc) /\ x.pc # "port"
  BY <1>2 DEF Requests, Opens
<1>4. ToldKept
  BY <1>1, ToldUnchanged
<1> HIDE DEF x
<1> QED BY <1>1, <1>3, <1>4, CommandPorts DEF Opens

\* The commands that make no channel and throw none away.
LEMMA SimplePorts ==
  ASSUME TypeInv, PortsInv, NEW c \in Clients,
         Answer(c) \/ ExitCommand(c) \/ Shutdown(c) \/ Close(c) \/ Flush(c)
  PROVE  PortsInv'
<1>1. /\ UNCHANGED <<channels, servers, bound, acceptors, dataPort, told>>
      /\ comm[c].pc \in {"other", "open", "close", "del", "exit", "shutdown", "flush"}
      /\ process' \in {process, "closing", "crashed"}
  BY DEF Answer, ExitCommand, Shutdown, Exit, Close, Flush, At, dataVars
<1>2. UNCHANGED comm
      \/ \E x \in {Idle("ready"), [comm[c] EXCEPT !.pc = "away"], [comm[c] EXCEPT !.pc = "closing"],
                   [comm[c] EXCEPT !.pc = "closing", !.file = tokens[1]]} :
           comm' = [comm EXCEPT ![c] = x]
  BY DEF Answer, ExitCommand, Shutdown, Close, Flush, Done, Goto
<1>3. \A x \in {Idle("ready"), [comm[c] EXCEPT !.pc = "away"], [comm[c] EXCEPT !.pc = "closing"],
                [comm[c] EXCEPT !.pc = "closing", !.file = tokens[1]]} :
        x.pc \in {"ready", "away", "closing"}
  <2>1. comm[c] \in CommType /\ Idle("ready").pc = "ready"
    BY CommIs DEF Works, Idle
  <2> QED BY <2>1 DEF CommType
<1>4. ToldKept
  BY <1>1, ToldUnchanged
<1>5. CASE UNCHANGED comm
  BY <1>1, <1>5, StillPorts
<1>6. CASE ~UNCHANGED comm
  <2>1. PICK x : comm' = [comm EXCEPT ![c] = x] /\ x.pc \in {"ready", "away", "closing"}
    BY <1>2, <1>3, <1>6
  <2>2. Busy(c) /\ ~Opens(comm[c].pc) /\ ~Opens(x.pc) /\ x.pc # "port"
    BY <1>1, <2>1 DEF Busy, Opens
  <2> QED BY <1>1, <1>4, <2>1, <2>2, CommandPorts
<1> QED BY <1>5, <1>6

LEMMA LookPorts ==
  ASSUME TypeInv, PortsInv, NEW c \in Clients, Look(c)
  PROVE  PortsInv'
<1> DEFINE file == tokens[1]
           found == ChannelsOf(file)
<1>1. UNCHANGED <<channels, servers, bound, acceptors, dataPort>> /\ comm[c].pc = "open"
      /\ process' \in {process, "crashed"}
  BY DEF Look, At
<1>2. Busy(c) /\ ~Opens(comm[c].pc)
  BY <1>1 DEF Busy, Opens
<1>3. CASE UNCHANGED <<comm, told>>
  BY <1>1, <1>3, StillPorts
<1>4. CASE found # {} /\ Told(c, Min(found), file) /\ Done(c)
  <2> DEFINE p == Min(found)
             answer == [port |-> p, file |-> file, stale |-> FALSE]
  <2>1. p \in found /\ Live(p) /\ servers[channels[p]].file = file
    BY <1>4, ChannelsOfIs DEF ChannelsOf
  <2>2. told' = [told EXCEPT ![c] = answer] /\ told \in [Clients -> ToldType]
    BY <1>4 DEF Told, TypeInv, CommandsFit
  <2>3. answer.port = p /\ answer.file = file
    OBVIOUS
  <2>4. ~InProgress(p)
    BY <1>2, NobodyOpens DEF InProgress
  <2> HIDE DEF p, answer, found, file
  <2>5. told'[c] = answer /\ \A d \in Clients \ {c} : told'[d] = told[d]
    BY <2>2
  <2>6. ToldKept
    BY <1>1, <2>1, <2>3, <2>4, <2>5 DEF ToldKept, PortsInv, ToldPortsLive, Live
  <2>7. comm' = [comm EXCEPT ![c] = Idle("ready")] /\ Idle("ready").pc = "ready"
    BY <1>4 DEF Done, Idle
  <2> QED BY <1>1, <1>2, <2>6, <2>7, CommandPorts DEF Opens
<1>5. CASE found = {} /\ UNCHANGED told
           /\ comm' = [comm EXCEPT ![c] = [comm[c] EXCEPT !.pc = "port", !.file = file]]
  <2> DEFINE x == [comm[c] EXCEPT !.pc = "port", !.file = file]
  <2>1. x.pc = "port" /\ x.file = file
    BY CommIs DEF Works, CommType
  <2>2. ToldKept
    BY <1>1, <1>5, ToldUnchanged
  <2>3. ChannelsOf(x.file) = {} /\ comm' = [comm EXCEPT ![c] = x]
    BY <1>5, <2>1
  <2> HIDE DEF x
  <2> QED BY <1>1, <1>2, <2>1, <2>2, <2>3, CommandPorts DEF Opens
<1> QED BY <1>3, <1>4, <1>5 DEF Look

LEMMA CloseChannelPorts ==
  ASSUME TypeInv, PortsInv, NEW c \in Clients, CloseChannel(c)
  PROVE  PortsInv'
<1> DEFINE found == ChannelsOf(comm[c].file)
<1>1. UNCHANGED <<process, bound, acceptors, dataPort>> /\ comm[c].pc = "closing"
  BY DEF CloseChannel, At
<1>2. Busy(c) /\ ~Opens(comm[c].pc)
  BY <1>1 DEF Busy, Opens
<1>3. CASE found = {}
  <2>1. comm' = [comm EXCEPT ![c] = Idle("ready")] /\ Idle("ready").pc = "ready"
        /\ UNCHANGED <<channels, servers, told>>
    BY <1>3 DEF CloseChannel, Done, Idle
  <2>2. ToldKept
    BY <1>1, <2>1, ToldUnchanged
  <2> QED BY <1>1, <1>2, <2>1, <2>2, CommandPorts DEF Opens
<1>4. CASE found # {}
  <2> DEFINE p == Min(found)
             x == [comm[c] EXCEPT !.pc = "flush"]
  <2>1. /\ DeleteChannel(p) /\ comm' = [comm EXCEPT ![c] = x]
        /\ told' = [d \in Clients |-> IF told[d].port = p
                                      THEN [told[d] EXCEPT !.stale = TRUE] ELSE told[d]]
    BY <1>4 DEF CloseChannel, Goto
  <2>2. x.pc = "flush"
    BY CommIs DEF CommType
  <2> HIDE DEF p, x
  <2>3. /\ ServersKept /\ DOMAIN channels' = DOMAIN channels \ {p}
        /\ \A q \in DOMAIN channels' : channels'[q] = channels[q]
    BY <2>1, DeleteChannelKeeps
  <2>4. ChannelsKept
    BY <1>2, <2>3, NobodyOpens DEF ChannelsKept
  <2>5. AcceptorsKept
    BY <1>1, <2>3 DEF AcceptorsKept, AcceptorServes
  <2>6. ToldKept
    <3> SUFFICES ASSUME process' = "up", NEW d \in Clients, told'[d].port # 0, ~told'[d].stale
                 PROVE  /\ Live(told'[d].port)
                        /\ servers[channels[told'[d].port]].file = told'[d].file
                        /\ ~InProgress(told'[d].port) /\ told'[d].port \in DOMAIN channels'
      BY DEF ToldKept
    <3>1. told[d] \in ToldType
      BY DEF TypeInv, CommandsFit
    <3>2. [told[d] EXCEPT !.stale = TRUE].stale
      BY <3>1 DEF ToldType
    <3>3. told'[d] = told[d] /\ told[d].port # p
      BY <2>1, <3>2
    <3>4. Live(told[d].port) /\ servers[channels[told[d].port]].file = told[d].file
          /\ ~InProgress(told[d].port)
      BY <1>1, <3>3 DEF PortsInv, ToldPortsLive
    <3> QED BY <2>3, <3>3, <3>4 DEF Live
  <2>7. OneCommand'
    BY <1>2, <2>1, CommIs, OneCommandKept DEF PortsInv
  <2>8. OpensKept
    <3>1. comm'[c] = x /\ \A d \in Clients \ {c} : comm'[d] = comm[d]
      BY <2>1, CommIs
    <3> QED BY <1>2, <2>2, <3>1 DEF OpensKept, Opens
  <2> QED BY <1>1, <2>3, <2>4, <2>5, <2>6, <2>7, <2>8, PortsKept
<1> QED BY <1>3, <1>4

LEMMA CloseAllPorts ==
  ASSUME TypeInv, PortsInv, NEW c \in Clients, CloseAll(c)
  PROVE  PortsInv'
<1>1. UNCHANGED <<servers, bound, acceptors, dataPort, told>> /\ comm[c].pc = "close_all"
  BY DEF CloseAll, At
<1>2. CASE \E p \in DOMAIN channels : Live(p)
  <2>1. process' = "crashed" /\ UNCHANGED <<channels, comm>>
    BY <1>2 DEF CloseAll
  <2> QED BY <1>1, <2>1, StillPorts
<1>3. CASE ~\E p \in DOMAIN channels : Live(p)
  <2>1. DOMAIN channels' = {}
    <3>1. channels' = <<>>
      BY <1>3 DEF CloseAll
    <3> QED BY <3>1
  <2>2. UNCHANGED process /\ comm' = [comm EXCEPT ![c] = Idle("ready")] /\ Idle("ready").pc = "ready"
    BY <1>3 DEF CloseAll, Done, Idle
  <2>3. Busy(c) /\ ~Opens(comm[c].pc)
    BY <1>1 DEF Busy, Opens
  <2>4. ChannelsKept /\ AcceptorsKept
    BY <1>1, <1>3, <2>1 DEF ChannelsKept, AcceptorsKept, Live
  <2>5. ToldKept
    BY <1>1, <1>3, <2>2, ToldUnchanged
  <2>6. ServersKept
    BY <1>1, <2>1 DEF ServersKept
  <2>7. OneCommand'
    BY <2>2, CommIs, OneCommandKept DEF PortsInv
  <2>8. OpensKept
    <3>1. comm'[c].pc = "ready" /\ \A d \in Clients \ {c} : comm'[d] = comm[d]
      BY <2>2, CommIs
    <3> QED BY <2>3, <3>1 DEF OpensKept, Opens
  <2> QED BY <1>1, <2>2, <2>4, <2>5, <2>6, <2>7, <2>8, PortsKept
<1> QED BY <1>2, <1>3

LEMMA DeletePorts ==
  ASSUME TypeInv, PortsInv, NEW c \in Clients, Delete(c)
  PROVE  PortsInv'
<1>1. UNCHANGED <<process, channels, servers, bound, acceptors, dataPort, told>> /\ comm[c].pc = "del"
      /\ comm' = [comm EXCEPT ![c] = Idle("ready")] /\ Idle("ready").pc = "ready"
  BY DEF Delete, At, Done, Idle
<1>2. ToldKept
  BY <1>1, ToldUnchanged
<1> QED BY <1>1, <1>2, CommandPorts DEF Opens, Busy

-----------------------------------------------------------------------------
(***************************************************************************)
(* The steps of an open in which the channel is made.                      *)
(***************************************************************************)
\* The client whose command it is, goes on alone.
LEMMA OpenerMoves ==
  ASSUME TypeInv, PortsInv, NEW c \in Clients, Busy(c), NEW x, comm' = [comm EXCEPT ![c] = x]
  PROVE  /\ comm'[c] = x
         /\ \A d \in Clients \ {c} : comm'[d] = comm[d] /\ comm[d].pc \in {"away", "ready"}
         /\ OneCommand'
<1>1. comm'[c] = x /\ \A d \in Clients \ {c} : comm'[d] = comm[d]
  BY CommIs
<1>2. \A d \in Clients \ {c} : comm[d].pc \in {"away", "ready"}
  BY DEF PortsInv, OneCommand, Busy
<1>3. OneCommand'
  BY CommIs, OneCommandKept DEF PortsInv
<1> QED BY <1>1, <1>2, <1>3

\* All channels run while no other is made, so that none is thrown away, and none
\* listens on a port that was not given out.
LEMMA BeforeNewPort ==
  ASSUME TypeInv, PortsInv, NEW c \in Clients, Busy(c), ~Opens(comm[c].pc)
  PROVE  /\ dataPort = Number /\ bound = 1 .. Number /\ Dead = {}
         /\ \A p \in DOMAIN channels : Live(p) /\ p \in 1 .. Number
<1>1. \A d \in Clients : comm[d].pc # "insert" /\ ~Making(d) /\ ~Unready(d)
  BY NobodyOpens
<1>2. dataPort = Number /\ bound = 1 .. Number
  BY <1>1 DEF PortsInv, PortsCounted
<1>3. Dead = {}
  BY <1>1 DEF Dead, PortsInv, ChannelsRun
<1>4. \A p \in DOMAIN channels : Live(p)
  BY <1>1 DEF PortsInv, NullsPass, Live
<1>5. \A p \in DOMAIN channels : p \in 1 .. Number
  BY <1>1, <1>2, <1>4 DEF PortsInv, AcceptorsServe, AcceptorServes, InProgress, TypeInv, AcceptorsFit
<1> QED BY <1>2, <1>3, <1>4, <1>5

LEMMA NewPortPorts ==
  ASSUME TypeInv, PortsInv, NEW c \in Clients, NewPort(c)
  PROVE  PortsInv'
<1> DEFINE left == Restrict(channels, DOMAIN channels \ {})
           x == [comm[c] EXCEPT !.pc = "insert"]
<1>1. Busy(c) /\ ~Opens(comm[c].pc) /\ comm[c].pc = "port"
  BY DEF NewPort, At, Busy, Opens
<1>2. /\ dataPort = Number /\ bound = 1 .. Number /\ Dead = {}
      /\ \A p \in DOMAIN channels : Live(p) /\ p \in 1 .. Number
  BY <1>1, BeforeNewPort
<1>3. /\ servers' = Destroyed(servers, {channels[p] : p \in {}})
      /\ dataPort' = CountPort(Number, left)
      /\ channels' = IF Number + 1 > PortSpan THEN With(left, dataPort', 0) ELSE left
      /\ comm' = [comm EXCEPT ![c] = x]
      /\ UNCHANGED <<process, bound, acceptors, told>>
  BY <1>2 DEF NewPort, Goto
<1>4. /\ Len(servers') = Len(servers) /\ DOMAIN servers' = DOMAIN servers
      /\ \A s \in DOMAIN servers : servers'[s] = servers[s]
  BY <1>3, DestroyedKeeps
<1>5. Number' = Number /\ Number \in Nat /\ DOMAIN servers = 1 .. Number
  BY <1>4, ServersDomain DEF Number, TypeInv
<1>6. DOMAIN left = DOMAIN channels /\ \A p \in DOMAIN channels : left[p] = channels[p]
  BY DEF Restrict
<1>7. FirstFree(left) \in 1 .. Number + 1 /\ FirstFree(left) \notin DOMAIN channels
  <2>1. /\ FirstFree(left) \in 1 .. Number + 1
        /\ FirstFree(left) \notin DOMAIN left \/ left[FirstFree(left)] = 0
    BY FirstFreeIs DEF Number
  <2> HIDE DEF left
  <2> QED BY <1>2, <1>6, <2>1 DEF Live
<1>8. dataPort' \in 1 .. Number + 1 /\ dataPort' \notin DOMAIN channels
  BY <1>2, <1>3, <1>5, <1>7 DEF CountPort
<1> HIDE DEF left
<1>9. /\ DOMAIN channels' \subseteq DOMAIN channels \cup {dataPort'}
      /\ DOMAIN channels \subseteq DOMAIN channels'
      /\ \A p \in DOMAIN channels : channels'[p] = channels[p]
      /\ dataPort' \in DOMAIN channels' => channels'[dataPort'] = 0
  BY <1>3, <1>6, <1>8 DEF With
<1>10. \A p : Live(p)' <=> Live(p)
  BY <1>8, <1>9 DEF Live
<1>11. \A p \in DOMAIN channels' : Live(p)' =>
         p \in DOMAIN channels /\ channels'[p] = channels[p] /\ channels[p] \in DOMAIN servers
         /\ servers'[channels'[p]] = servers[channels[p]]
  BY <1>4, <1>5, <1>9, <1>10 DEF Live, TypeInv, ChannelsFit, Number
<1>12. x.pc = "insert" /\ x.file = comm[c].file
  BY CommIs DEF Works, CommType
<1> HIDE DEF x
<1>13. /\ comm'[c] = x /\ OneCommand'
       /\ \A d \in Clients \ {c} : comm'[d] = comm[d] /\ comm[d].pc \in {"away", "ready"}
  BY <1>1, <1>3, OpenerMoves
<1>14. \A d \in Clients : ~Making(d) /\ ~Making(d)' /\ ~Unready(d) /\ ~Unready(d)'
  BY <1>1, <1>12, <1>13 DEF Making, Unready
<1>15. PortsCounted'
  <2>1. ~(\A d \in Clients : comm'[d].pc # "insert")
    BY <1>12, <1>13
  <2>2. dataPort' \in 1 .. (Number' + 1) /\ bound' = 1 .. Number' /\ ~Live(dataPort)'
    BY <1>2, <1>3, <1>5, <1>8, <1>9 DEF Live
  <2>3. \A d \in Clients : comm'[d].pc \notin {"bind", "thread"}
    BY <1>14 DEF Making, Unready
  <2> QED BY <1>14, <2>1, <2>2, <2>3 DEF PortsCounted
<1>16. ChannelsRun'
  BY <1>4, <1>10, <1>11, <1>14 DEF PortsInv, ChannelsRun
<1>17. AcceptorsServe'
  BY <1>3, <1>10, <1>11, <1>14 DEF PortsInv, AcceptorsServe, AcceptorServes, InProgress
<1>18. FilesApart'
  <2>1. \A p, q \in DOMAIN channels' :
          Live(p)' /\ Live(q)' /\ servers'[channels'[p]].file = servers'[channels'[q]].file => p = q
    BY <1>10, <1>11 DEF PortsInv, FilesApart
  <2>2. \A f : ChannelsOf(f) = {} => (ChannelsOf(f) = {})'
    BY <1>10, <1>11 DEF ChannelsOf
  <2>3. ASSUME NEW d \in Clients, comm'[d].pc \in {"port", "insert"}
        PROVE  (ChannelsOf(comm[d].file) = {})'
    <3>1. PICK f : f = comm'[d].file
      OBVIOUS
    <3>2. d = c /\ f = comm[c].file
      BY <1>12, <1>13, <2>3, <3>1
    <3>3. ChannelsOf(f) = {}
      BY <1>1, <3>2 DEF PortsInv, FilesApart
    <3>4. (ChannelsOf(f) = {})'
      BY <2>2, <3>3
    <3> QED BY <3>1, <3>4 DEF ChannelsOf
  <2> QED BY <2>1, <2>3 DEF FilesApart
<1>19. NullsPass'
  BY <1>2, <1>9, <1>12, <1>13 DEF NullsPass, Live
<1>20. ToldPortsLive'
  <2> SUFFICES ASSUME process' = "up", NEW d \in Clients, told'[d].port # 0, ~told'[d].stale
               PROVE  (/\ Live(told[d].port) /\ servers[channels[told[d].port]].file = told[d].file
                       /\ ~InProgress(told[d].port))'
    BY DEF ToldPortsLive
  <2>1. PICK p : p = told[d].port
    OBVIOUS
  <2>2. Live(p) /\ servers[channels[p]].file = told[d].file
    BY <1>3, <2>1 DEF PortsInv, ToldPortsLive
  <2>3. Live(p)' /\ servers'[channels'[p]].file = told[d].file
    BY <1>9, <1>10, <1>11, <2>2 DEF Live
  <2> QED BY <1>3, <1>14, <2>1, <2>3 DEF InProgress, Live
<1> QED BY <1>13, <1>15, <1>16, <1>17, <1>18, <1>19, <1>20 DEF PortsInv

LEMMA InsertPorts ==
  ASSUME TypeInv, PortsInv, NEW c \in Clients, Insert(c)
  PROVE  PortsInv'
<1> DEFINE new == NewServer(comm[c].file, lastClient)
           x == [comm[c] EXCEPT !.pc = "connect", !.port = dataPort]
<1>1. /\ comm[c].pc = "insert" /\ servers' = Append(servers, new)
      /\ channels' = With(channels, dataPort, Len(servers')) /\ comm' = [comm EXCEPT ![c] = x]
      /\ UNCHANGED <<process, bound, acceptors, dataPort, told>>
  BY DEF Insert, At
<1>2. dataPort \in 1 .. (Number + 1) /\ bound = 1 .. Number /\ ~Live(dataPort)
  BY <1>1 DEF PortsInv, PortsCounted
<1>3. Number \in Nat /\ DOMAIN servers = 1 .. Number
  BY ServersDomain DEF Number, TypeInv
<1>4. new.file = comm[c].file /\ ~new.running /\ ~new.destroyed
  BY DEF NewServer
<1>5. x.pc = "connect" /\ x.port = dataPort /\ x.file = comm[c].file
  BY CommIs DEF Works, CommType
<1> HIDE DEF new, x
<1>6. /\ Number' = Number + 1 /\ DOMAIN servers' = 1 .. (Number + 1) /\ servers'[Number + 1] = new
      /\ \A s \in DOMAIN servers : servers'[s] = servers[s]
  BY <1>1, <1>3 DEF TypeInv, ServersFit, Number
<1>7. /\ DOMAIN channels' = DOMAIN channels \cup {dataPort} /\ channels'[dataPort] = Number + 1
      /\ \A p \in DOMAIN channels \ {dataPort} : channels'[p] = channels[p]
  BY <1>1, <1>6 DEF With, Number
<1>8. /\ comm'[c] = x /\ OneCommand'
      /\ \A d \in Clients \ {c} : comm'[d] = comm[d] /\ comm[d].pc \in {"away", "ready"}
  BY <1>1, OpenerMoves DEF Busy
<1>9. /\ \A d \in Clients : ~Making(d) /\ ~Unready(d)
      /\ Making(c)' /\ Unready(c)' /\ \A d \in Clients \ {c} : ~Making(d)' /\ ~Unready(d)'
  BY <1>1, <1>5, <1>8 DEF Making, Unready
<1>10. Live(dataPort)' /\ \A p : p # dataPort => (Live(p)' <=> Live(p))
  BY <1>1, <1>3, <1>7 DEF Live
<1>11. \A p : Live(p) => p \in DOMAIN channels /\ p # dataPort /\ channels'[p] = channels[p]
                         /\ channels[p] \in DOMAIN servers /\ servers'[channels'[p]] = servers[channels[p]]
  BY <1>2, <1>3, <1>6, <1>7 DEF Live, TypeInv, ChannelsFit, Number
<1>12. PortsCounted'
  <2>1. ~(\A d \in Clients : ~Making(d)')
    BY <1>9
  <2>2. \A d \in Clients : comm'[d].pc \notin {"insert", "bind", "thread"}
    BY <1>5, <1>8
  <2>3. /\ comm'[c].port = dataPort' /\ dataPort' \in 1 .. Number'
        /\ channels'[dataPort'] = Number' /\ Live(dataPort)' /\ servers'[Number'].file = comm'[c].file
        /\ bound' = 1 .. (Number' - 1) /\ ~servers'[Number'].running
    BY <1>1, <1>2, <1>3, <1>4, <1>5, <1>6, <1>7, <1>8, <1>10
  <2> QED BY <1>9, <2>1, <2>2, <2>3 DEF PortsCounted, Live
<1>13. ChannelsRun'
  <2>1. \A s \in DOMAIN servers' : servers'[s].running => servers'[s].orig = "bound"
    BY <1>3, <1>4, <1>6 DEF PortsInv, ChannelsRun
  <2>2. ASSUME NEW p \in DOMAIN channels', Live(p)'
        PROVE  /\ ~servers'[channels'[p]].destroyed
               /\ servers'[channels'[p]].running \/ \E d \in Clients : Unready(d)' /\ comm'[d].port = p
    <3>1. CASE p = dataPort
      BY <1>4, <1>5, <1>6, <1>7, <1>8, <1>9, <3>1
    <3>2. CASE p # dataPort
      BY <1>9, <1>10, <1>11, <2>2, <3>2 DEF PortsInv, ChannelsRun
    <3> QED BY <3>1, <3>2
  <2> QED BY <2>1, <2>2 DEF ChannelsRun
<1>14. AcceptorsServe'
  <2> SUFFICES ASSUME NEW p \in DOMAIN channels', Live(p)'
               PROVE  AcceptorServes(p)' \/ InProgress(p)'
    BY DEF AcceptorsServe
  <2>1. CASE p = dataPort
    BY <1>5, <1>8, <1>9, <2>1 DEF InProgress
  <2>2. CASE p # dataPort
    <3>1. Live(p) /\ p \in DOMAIN channels /\ channels'[p] = channels[p]
      BY <1>10, <1>11, <2>2
    <3>2. AcceptorServes(p)
      BY <1>9, <3>1 DEF PortsInv, AcceptorsServe, InProgress
    <3> QED BY <1>1, <3>1, <3>2 DEF AcceptorServes
  <2> QED BY <2>1, <2>2
<1>15. FilesApart'
  <2>1. ChannelsOf(comm[c].file) = {}
    BY <1>1 DEF PortsInv, FilesApart
  <2>2. \A p \in DOMAIN channels : Live(p) => servers[channels[p]].file # comm[c].file
    BY <2>1 DEF ChannelsOf
  <2>3. \A p, q \in DOMAIN channels' :
          Live(p)' /\ Live(q)' /\ servers'[channels'[p]].file = servers'[channels'[q]].file => p = q
    BY <1>4, <1>6, <1>7, <1>10, <1>11, <2>2 DEF PortsInv, FilesApart
  <2>4. \A d \in Clients : comm'[d].pc \notin {"port", "insert"}
    BY <1>5, <1>8
  <2> QED BY <2>3, <2>4 DEF FilesApart
<1>16. NullsPass'
  <2>1. \A p \in DOMAIN channels' : channels'[p] # 0
    BY <1>3, <1>7 DEF PortsInv, NullsPass
  <2> QED BY <2>1 DEF NullsPass
<1>17. ToldPortsLive'
  <2> SUFFICES ASSUME process' = "up", NEW d \in Clients, told'[d].port # 0, ~told'[d].stale
               PROVE  (/\ Live(told[d].port) /\ servers[channels[told[d].port]].file = told[d].file
                       /\ ~InProgress(told[d].port))'
    BY DEF ToldPortsLive
  <2>1. PICK p : p = told[d].port
    OBVIOUS
  <2>2. Live(p) /\ servers[channels[p]].file = told[d].file
    BY <1>1, <2>1 DEF PortsInv, ToldPortsLive
  <2>3. Live(p)' /\ servers'[channels'[p]].file = told[d].file /\ p # dataPort
    BY <1>10, <1>11, <2>2
  <2>4. ~InProgress(p)'
    BY <1>5, <1>8, <1>9, <2>3 DEF InProgress
  <2> QED BY <1>1, <2>1, <2>3, <2>4 DEF InProgress, Live
<1> QED BY <1>8, <1>12, <1>13, <1>14, <1>15, <1>16, <1>17 DEF PortsInv

\* What both sides of the binding of a channel's socket share: one server changes, that
\* of the channel that is being made, and it is the last one.
LEMMA MakerMoves ==
  ASSUME TypeInv, PortsInv, NEW c \in Clients, Unready(c), NEW x, NEW new,
         comm' = [comm EXCEPT ![c] = x], x.pc \in {"bind", "thread"},
         x.port = comm[c].port, x.file = comm[c].file, x.pc = "bind" => x.srv = Number,
         servers' = [servers EXCEPT ![Number] = new],
         new.file = servers[Number].file, new.destroyed = servers[Number].destroyed,
         new.running => new.orig = "bound",
         IF x.pc = "bind" THEN UNCHANGED bound /\ ~new.running
         ELSE bound' = bound \cup {dataPort} /\ dataPort \notin bound /\ new.running,
         UNCHANGED <<process, channels, acceptors, dataPort, told>>
  PROVE  PortsInv'
<1>1. /\ comm[c].port = dataPort /\ dataPort \in 1 .. Number
      /\ Live(dataPort) => channels[dataPort] = Number
      /\ process = "up" /\ dataPort = Number => Live(dataPort) /\ servers[Number].file = comm[c].file
      /\ bound = 1 .. (Number - 1)
  BY DEF Making, PortsInv, PortsCounted
<1>2. Number \in Nat /\ DOMAIN servers = 1 .. Number
  BY ServersDomain DEF Number, TypeInv
<1>3. /\ Number' = Number /\ DOMAIN servers' = DOMAIN servers /\ servers'[Number] = new
      /\ \A s \in DOMAIN servers \ {Number} : servers'[s] = servers[s]
  BY <1>1, <1>2 DEF TypeInv, ServersFit, Number
<1>4. /\ comm'[c] = x /\ OneCommand'
      /\ \A d \in Clients \ {c} : comm'[d] = comm[d] /\ comm[d].pc \in {"away", "ready"}
  BY OpenerMoves DEF Busy, Unready
<1>5. /\ Making(c) /\ Making(c)' /\ (Unready(c)' <=> x.pc = "bind")
      /\ \A d \in Clients \ {c} : ~Making(d) /\ ~Unready(d) /\ ~Making(d)' /\ ~Unready(d)'
  BY <1>4 DEF Making, Unready
<1>6. \A p : (InProgress(p)' <=> p = dataPort) /\ (InProgress(p) <=> p = dataPort) /\ (Live(p)' <=> Live(p))
  BY <1>1, <1>4, <1>5 DEF InProgress, Live
<1>7. \A p : Live(p) => p \in DOMAIN channels /\ channels[p] \in DOMAIN servers
                        /\ servers'[channels[p]].file = servers[channels[p]].file
                        /\ servers'[channels[p]].destroyed = servers[channels[p]].destroyed
  BY <1>2, <1>3 DEF Live, TypeInv, ChannelsFit, Number
<1>8. PortsCounted'
  <2>1. \A d \in Clients : comm'[d].pc # "insert"
    BY <1>4
  <2>2. x.pc = "thread" => dataPort = Number /\ bound' = 1 .. Number /\ dataPort \notin DOMAIN acceptors
    <3> HAVE x.pc = "thread"
    <3>1. dataPort = Number
      <4>1. dataPort \notin bound
        OBVIOUS
      <4> QED BY <1>1, <1>2, <4>1
    <3>2. Number \notin DOMAIN acceptors
      BY <1>5, <3>1, LastPort
    <3>3. bound' = bound \cup {dataPort}
      OBVIOUS
    <3>4. bound' = 1 .. Number
      BY <1>1, <1>2, <3>1, <3>3
    <3> QED BY <3>1, <3>2, <3>4
  <2> QED BY <1>1, <1>3, <1>4, <1>5, <1>6, <2>1, <2>2 DEF PortsCounted
<1>9. ChannelsRun'
  <2>1. \A s \in DOMAIN servers' : servers'[s].running => servers'[s].orig = "bound"
    BY <1>3 DEF PortsInv, ChannelsRun
  <2>2. ASSUME NEW p \in DOMAIN channels', Live(p)'
        PROVE  /\ ~servers'[channels'[p]].destroyed
               /\ servers'[channels'[p]].running \/ \E d \in Clients : Unready(d)' /\ comm'[d].port = p
    <3>1. Live(p) /\ channels[p] \in DOMAIN servers /\ ~servers'[channels[p]].destroyed
      BY <1>6, <1>7, <2>2 DEF PortsInv, ChannelsRun
    <3>2. CASE p = dataPort
      <4>1. channels[p] = Number
        BY <1>1, <3>1, <3>2
      <4> QED BY <1>1, <1>3, <1>4, <1>5, <3>1, <3>2, <4>1
    <3>3. CASE p # dataPort
      <4>1. servers[channels[p]].running
        BY <1>1, <1>5, <3>1, <3>3 DEF PortsInv, ChannelsRun, Live
      <4>2. ~servers[Number].running
        BY DEF PortsInv, PortsCounted
      <4>3. servers'[channels[p]] = servers[channels[p]]
        BY <1>3, <3>1, <4>1, <4>2
      <4> QED BY <3>1, <4>1, <4>3
    <3> QED BY <3>2, <3>3
  <2> QED BY <2>1, <2>2 DEF ChannelsRun
<1>10. AcceptorsServe'
  BY <1>6 DEF PortsInv, AcceptorsServe, AcceptorServes
<1>11. FilesApart'
  BY <1>4, <1>6, <1>7 DEF PortsInv, FilesApart
<1>12. NullsPass'
  <2>1. \A p \in DOMAIN channels : channels[p] # 0
    BY <1>4 DEF PortsInv, NullsPass, Unready
  <2> QED BY <2>1 DEF NullsPass
<1>13. ToldPortsLive'
  <2> SUFFICES ASSUME process' = "up", NEW d \in Clients, told'[d].port # 0, ~told'[d].stale
               PROVE  (/\ Live(told[d].port) /\ servers[channels[told[d].port]].file = told[d].file
                       /\ ~InProgress(told[d].port))'
    BY DEF ToldPortsLive
  <2>1. PICK p : p = told[d].port
    OBVIOUS
  <2>2. Live(p) /\ servers[channels[p]].file = told[d].file /\ ~InProgress(p)
    BY <2>1 DEF PortsInv, ToldPortsLive
  <2>3. Live(p)' /\ servers'[channels'[p]].file = told[d].file /\ ~InProgress(p)'
    BY <1>6, <1>7, <2>2
  <2> QED BY <2>1, <2>3 DEF InProgress, Live
<1> QED BY <1>4, <1>8, <1>9, <1>10, <1>11, <1>12, <1>13 DEF PortsInv

LEMMA ConnectPorts ==
  ASSUME TypeInv, PortsInv, NEW c \in Clients, Connect(c)
  PROVE  PortsInv'
<1> DEFINE s == channels[comm[c].port]
<1>1. /\ UNCHANGED <<channels, bound, acceptors, dataPort, told>> /\ comm[c].pc = "connect"
      /\ Unready(c) /\ Making(c)
  BY DEF Connect, At, Unready, Making
<1>2. CASE Live(comm[c].port)
  <2> DEFINE new == [servers[Number] EXCEPT !.orig = "new"]
             x == [comm[c] EXCEPT !.pc = "bind", !.srv = s]
  <2>1. s = Number /\ ~servers[Number].running
    BY <1>1, <1>2 DEF PortsInv, PortsCounted
  <2>2. s \in DOMAIN servers
    BY <1>2, ServersDomain DEF Live, TypeInv, ChannelsFit
  <2>3. servers[Number] \in Servers /\ comm[c] \in CommType
    BY <2>1, <2>2, CommIs DEF TypeInv, ServersFit, Works
  <2>4. /\ new.file = servers[Number].file /\ new.destroyed = servers[Number].destroyed
        /\ ~new.running
    BY <2>1, <2>3 DEF Servers
  <2>5. x.pc = "bind" /\ x.port = comm[c].port /\ x.file = comm[c].file /\ x.srv = s
    BY <2>3 DEF CommType
  <2>6. comm' = [comm EXCEPT ![c] = x] /\ UNCHANGED process
    BY <1>2 DEF Connect
  <2>7. servers' = [servers EXCEPT ![Number] = new]
    BY <1>2, <2>1 DEF Connect
  <2> HIDE DEF new, x, s
  <2> QED BY <1>1, <2>1, <2>4, <2>5, <2>6, <2>7, MakerMoves
<1>3. CASE ~Live(comm[c].port)
  <2>1. process' = "crashed" /\ UNCHANGED <<servers, comm>>
    BY <1>3 DEF Connect
  <2> QED BY <1>1, <2>1, StillPorts
<1> QED BY <1>2, <1>3

LEMMA BindPorts ==
  ASSUME TypeInv, PortsInv, NEW c \in Clients, Bind(c)
  PROVE  PortsInv'
<1> DEFINE new == [servers[Number] EXCEPT !.orig = "bound", !.running = TRUE]
           x == [comm[c] EXCEPT !.pc = "thread"]
<1>1. /\ UNCHANGED <<process, channels, acceptors, dataPort, told>> /\ comm[c].pc = "bind"
      /\ Unready(c) /\ Making(c) /\ comm' = [comm EXCEPT ![c] = x]
  BY DEF Bind, At, Goto, Unready, Making
<1>2. comm[c].srv = Number /\ comm[c].port = dataPort
  BY <1>1 DEF PortsInv, PortsCounted
<1>3. servers[Number] \in Servers /\ comm[c] \in CommType
  BY <1>1, <1>2, CommIs DEF TypeInv, ServersFit, Works
<1>4. /\ new.file = servers[Number].file /\ new.destroyed = servers[Number].destroyed
      /\ new.running /\ new.orig = "bound"
  BY <1>3 DEF Servers
<1>5. x.pc = "thread" /\ x.port = comm[c].port /\ x.file = comm[c].file
  BY <1>3 DEF CommType
<1>6. bound' = bound \cup {dataPort} /\ dataPort \notin bound
  BY <1>2 DEF Bind
<1>7. servers' = [servers EXCEPT ![Number] = new]
  BY <1>2 DEF Bind
<1> HIDE DEF new, x
<1> QED BY <1>1, <1>4, <1>5, <1>6, <1>7, MakerMoves

\* The channel has its thread, and the client is told its port.
LEMMA ThreadActionPorts ==
  ASSUME TypeInv, PortsInv, NEW c \in Clients, Thread(c)
  PROVE  PortsInv'
<1> DEFINE new == [pc |-> "start", srv |-> 0]
           answer == [port |-> dataPort, file |-> comm[c].file, stale |-> FALSE]
<1>1. /\ UNCHANGED <<process, channels, servers, bound, dataPort>> /\ comm[c].pc = "thread"
      /\ Busy(c) /\ Making(c)
  BY DEF Thread, At, Busy, Making
<1>2. /\ comm[c].port = dataPort /\ dataPort = Number /\ bound = 1 .. Number
      /\ process = "up" => Live(Number) /\ channels[Number] = Number
                           /\ servers[Number].file = comm[c].file
  BY <1>1 DEF PortsInv, PortsCounted
<1>3. /\ acceptors' = With(acceptors, dataPort, new) /\ told' = [told EXCEPT ![c] = answer]
      /\ comm' = [comm EXCEPT ![c] = Idle("ready")] /\ Idle("ready").pc = "ready"
  BY <1>2 DEF Thread, Told, Done, Idle
<1>4. new.pc = "start" /\ answer.port = dataPort /\ answer.file = comm[c].file
  OBVIOUS
<1> HIDE DEF new, answer
<1>5. /\ DOMAIN acceptors' = DOMAIN acceptors \cup {dataPort} /\ acceptors'[dataPort] = new
      /\ \A p \in DOMAIN acceptors \ {dataPort} : acceptors'[p] = acceptors[p]
  BY <1>3 DEF With
<1>6. told'[c] = answer /\ \A d \in Clients \ {c} : told'[d] = told[d]
  BY <1>3 DEF TypeInv, CommandsFit
<1>7. /\ comm'[c].pc = "ready" /\ OneCommand'
      /\ \A d \in Clients \ {c} : comm'[d] = comm[d] /\ comm[d].pc \in {"away", "ready"}
  BY <1>1, <1>3, OpenerMoves
<1>8. \A d \in Clients : /\ comm'[d].pc \in {"away", "ready"}
                         /\ ~Making(d)' /\ ~Unready(d)' /\ ~Unready(d) /\ comm[d].pc # "insert"
  BY <1>1, <1>7 DEF Making, Unready
<1>9. \A p : ~InProgress(p)' /\ (Live(p)' <=> Live(p)) /\ (InProgress(p) => p = dataPort)
  BY <1>1, <1>2, <1>7, <1>8 DEF InProgress, Live, Making, Unready
<1>10. PortsCounted'
  BY <1>1, <1>2, <1>8 DEF PortsCounted, Number
<1>11. ChannelsRun'
  BY <1>1, <1>8, <1>9 DEF PortsInv, ChannelsRun
<1>12. AcceptorsServe'
  BY <1>1, <1>4, <1>5, <1>9 DEF PortsInv, AcceptorsServe, AcceptorServes
<1>13. FilesApart' /\ NullsPass'
  BY <1>1, <1>8, <1>9 DEF PortsInv, FilesApart, NullsPass
<1>14. ToldPortsLive'
  <2> SUFFICES ASSUME process' = "up", NEW d \in Clients, told'[d].port # 0, ~told'[d].stale
               PROVE  (/\ Live(told[d].port) /\ servers[channels[told[d].port]].file = told[d].file
                       /\ ~InProgress(told[d].port))'
    BY DEF ToldPortsLive
  <2>1. PICK p, f : p = told'[d].port /\ f = told'[d].file
    OBVIOUS
  <2>2. Live(p) /\ servers[channels[p]].file = f
    <3>1. CASE d = c
      BY <1>1, <1>2, <1>4, <1>6, <2>1, <3>1
    <3>2. CASE d # c
      BY <1>1, <1>6, <2>1, <3>2 DEF PortsInv, ToldPortsLive
    <3> QED BY <3>1, <3>2
  <2>3. Live(p)' /\ ~InProgress(p)'
    BY <1>9, <2>2
  <2> QED BY <1>1, <2>1, <2>2, <2>3 DEF InProgress, Live
<1> QED BY <1>7, <1>10, <1>11, <1>12, <1>13, <1>14 DEF PortsInv

LEMMA CommThreadPorts ==
  ASSUME TypeInv, PortsInv, NEW c \in Clients, CommThread(c)
  PROVE  PortsInv'
<1>1. CASE BindFreed(c)
  BY <1>1, StillPorts DEF BindFreed, commVars
<1>2. CASE Open(c)
  BY <1>1, <1>2, LookPorts, NewPortPorts, InsertPorts, ConnectPorts, BindPorts, ThreadActionPorts
  DEF Open
<1> QED BY <1>2, SimplePorts, CloseChannelPorts, CloseAllPorts, DeletePorts DEF CommThread
-----------------------------------------------------------------------------
LEMMA ClientPorts ==
  ASSUME TypeInv, PortsInv, ~Concurrent, NEW c \in DOMAIN scene,
         \/ Negotiate(c) \/ Writing(c)
         \/ Talk(c) \/ Send(c)
  PROVE  PortsInv'
<1>1. c \in Clients /\ scene[c].asks \subseteq Requests
  BY SceneIs
<1>2. ASSUME NEW r \in scene[c].asks, Interpret(c, r.command, r.words) PROVE PortsInv'
  BY <1>1, <1>2, InterpretPorts
<1>3. ASSUME Contact(c) PROVE PortsInv'
  BY <1>1, <1>3, ContactPorts
<1>4. ASSUME DataUnchanged, UNCHANGED commVars PROVE PortsInv'
  BY <1>4, StillPorts DEF DataUnchanged, commVars
<1>5. CASE Negotiate(c)
  <2>1. CASE \E r \in scene[c].asks : Interpret(c, "open", r.words)
    <3>1. PICK r \in scene[c].asks : Interpret(c, "open", r.words)
      BY <2>1
    <3> DEFINE q == [command |-> "open", words |-> r.words]
    <3>2. q \in Requests /\ q.command = "open" /\ q.words = r.words
      BY <1>1 DEF Requests
    <3> HIDE DEF q
    <3> QED BY <1>1, <3>1, <3>2, InterpretPorts
  <2> QED BY <1>3, <1>5, <2>1 DEF Negotiate
<1>6. CASE Writing(c)
  BY <1>4, <1>6 DEF Writing, Construct, Destruct, Confirm, Fail
<1>7. CASE Talk(c)
  BY <1>2, <1>3, <1>4, <1>7 DEF Talk
<1>8. CASE Send(c)
  BY <1>4, <1>8 DEF Send
<1> QED BY <1>5, <1>6, <1>7, <1>8

LEMMA NextPorts == ASSUME TypeInv, PortsInv, ~Concurrent, [Next]_vars PROVE PortsInv'
<1>1. CASE UNCHANGED vars
  BY <1>1, StillPorts DEF vars, dataVars, commVars
<1>2. CASE ClientStep
  BY <1>2, ClientPorts DEF ClientStep
<1>3. CASE DaemonStep
  <2>1. ASSUME NEW p \in DOMAIN acceptors, Acceptor(p), UNCHANGED commVars PROVE PortsInv'
    BY <2>1, StartPorts, ListenPorts, AcceptPorts DEF Acceptor
  <2>2. ASSUME NEW c \in Clients, DataThread(c), UNCHANGED commVars PROVE PortsInv'
    <3>1. /\ UNCHANGED <<channels, servers, bound, acceptors, dataPort, comm, told>>
          /\ process' = "up" => process = "up"
      BY <2>2 DEF DataThread, Read, Ignore, EndMarker, Broken, Exit, Disconnected, Write, Acknowledge,
                  commVars
    <3> QED BY <3>1, StillPorts
  <2>3. ASSUME NEW c \in Clients, CommThread(c) PROVE PortsInv'
    BY <2>3, CommThreadPorts
  <2>4. ASSUME Exiting, UNCHANGED commVars PROVE PortsInv'
    <3>1. CASE CloseWriters \/ Down
      BY <2>4, <3>1, StillPorts DEF CloseWriters, Down, commVars
    <3> QED BY <2>4, <3>1, DestroyServersPorts DEF Exiting
  <2> QED BY <1>3, <2>1, <2>2, <2>3, <2>4 DEF DaemonStep
<1> QED BY <1>1, <1>2, <1>3 DEF Next

LEMMA PortsInvHolds == ASSUME Concurrent = FALSE PROVE Spec => []PortsInv
<1>1. Init => PortsInv
  BY InitPorts
<1>2. TypeInv /\ PortsInv /\ [Next]_vars => PortsInv'
  BY NextPorts
<1> QED BY <1>1, <1>2, TypeInvHolds, PTL DEF Spec

\* When a client's command is executed before the next one's, the port a client was
\* answered is that of a running channel of the file it asked for, with a thread that
\* listens for it, until the channel is closed (openTransfer, getNewPortNumber).
THEOREM AnsweredPortsTheorem ==
  ASSUME Concurrent = FALSE PROVE Spec => []AnsweredPortsListen
<1>1. PortsInv => AnsweredPortsListen
  <2> SUFFICES ASSUME PortsInv, process = "up", NEW c \in Clients, told[c].port # 0, ~told[c].stale,
                      NEW p, p = told[c].port
               PROVE  /\ Live(p) /\ servers[channels[p]].file = told[c].file
                      /\ servers[channels[p]].running
                      /\ acceptors[p].pc = "start"
                         \/ (acceptors[p].pc # "over" /\ acceptors[p].srv = channels[p])
    BY DEF AnsweredPortsListen
  <2>1. Live(p) /\ servers[channels[p]].file = told[c].file /\ ~InProgress(p)
    BY DEF PortsInv, ToldPortsLive
  <2>2. servers[channels[p]].running
    BY <2>1 DEF PortsInv, ChannelsRun, InProgress, Making, Live
  <2>3. AcceptorServes(p)
    BY <2>1 DEF PortsInv, AcceptorsServe, Live
  <2> QED BY <2>1, <2>2, <2>3 DEF AcceptorServes
<1> QED BY <1>1, PortsInvHolds, PTL

\* When a client's command is executed before the next one's, a file has one channel,
\* and the null pointer that the search for a port leaves in the map is overwritten
\* before another command meets it (checkDataChannels, getNewPortNumber).
THEOREM OneChannelTheorem ==
  ASSUME Concurrent = FALSE PROVE Spec => []OneChannelPerFile
<1>1. PortsInv => OneChannelPerFile
  BY DEF PortsInv, FilesApart, NullsPass, OneChannelPerFile, Live
<1> QED BY <1>1, PortsInvHolds, PTL

-----------------------------------------------------------------------------
(***************************************************************************)
(* The data lines are numbered: what was kept is among those that were     *)
(* sent, whether commands interleave or not.                               *)
(***************************************************************************)
LineSent(line) == line.end \in DataEnds => line.value \in 1 .. sent

SentInv ==
  /\ \A c \in Clients : LineSent(threads[c].line)
  /\ \A f \in Files : kept[f] \subseteq 1 .. sent

LEMMA InitSent == ASSUME Init PROVE SentInv
<1>1. threads = [c \in Clients |-> NoThread] /\ kept = [f \in Files |-> {}]
  BY DEF Init, DataInit
<1>2. \A c \in Clients : threads[c].line.end = ""
  BY <1>1 DEF NoThread, NoLine, Line
<1> QED BY <1>1, <1>2 DEF SentInv, LineSent, DataEnds

\* The lines stay, but for one that is sent or read.
LEMMA SentKept ==
  ASSUME TypeInv, SentInv, sent' \in {sent, sent + 1}, UNCHANGED kept,
         \A c \in Clients : threads'[c].line = threads[c].line \/ LineSent(threads[c].line)'
  PROVE  SentInv'
<1>1. sent \in Nat
  BY DEF TypeInv, ClientsFit
<1>2. 1 .. sent \subseteq 1 .. sent'
  BY <1>1
<1>3. ASSUME NEW c \in Clients PROVE LineSent(threads[c].line)'
  <2>1. CASE threads'[c].line = threads[c].line
    BY <1>2, <2>1 DEF SentInv, LineSent
  <2> QED BY <2>1
<1>4. \A f \in Files : kept'[f] \subseteq 1 .. sent'
  BY <1>2 DEF SentInv
<1> QED BY <1>3, <1>4 DEF SentInv

\* One connection changes.
LEMMA OneSent ==
  ASSUME TypeInv, SentInv, sent' \in {sent, sent + 1}, UNCHANGED kept, NEW c \in Clients, NEW t,
         threads' = [threads EXCEPT ![c] = t],
         t.line = threads[c].line \/ (t.line.end \in DataEnds => t.line.value \in 1 .. sent')
  PROVE  SentInv'
<1>1. threads'[c] = t /\ \A d \in Clients \ {c} : threads'[d] = threads[d]
  BY DEF TypeInv, ThreadsFit
<1>2. ASSUME NEW d \in Clients PROVE threads'[d].line = threads[d].line \/ LineSent(threads[d].line)'
  BY <1>1 DEF LineSent
<1> QED BY <1>2, SentKept

LEMMA DataThreadSent ==
  ASSUME TypeInv, SentInv, NEW c \in Clients, DataThread(c), UNCHANGED sent
  PROVE  SentInv'
<1> DEFINE T == {[threads[c] EXCEPT !.pc = "over"], [threads[c] EXCEPT !.pc = "write"],
                 [threads[c] EXCEPT !.pc = "acknowledge"], [threads[c] EXCEPT !.line = NoLine],
                 [threads[c] EXCEPT !.pc = "read", !.line = NoLine]}
<1>1. PICK t \in T : threads' = [threads EXCEPT ![c] = t]
  <2>1. CASE Read(c)
    BY <2>1 DEF Read
  <2>2. CASE ~Read(c)
    BY <2>2 DEF DataThread, Ignore, EndMarker, Broken, Disconnected, Write, Acknowledge
  <2> QED BY <2>1, <2>2
<1>2. threads[c] \in Threads
  BY ThreadIs
<1>3. t.line \in {threads[c].line, NoLine}
  BY <1>2 DEF Threads
<1>4. NoLine.end = ""
  BY DEF NoLine, Line
<1>5. t.line = threads[c].line \/ t.line.end \notin DataEnds
  BY <1>3, <1>4 DEF DataEnds
<1> HIDE DEF T
<1>6. CASE UNCHANGED kept
  BY <1>1, <1>5, <1>6, OneSent
<1>7. CASE ~UNCHANGED kept
  <2>1. /\ threads[c].line.end \in DataEnds
        /\ kept' = [kept EXCEPT ![threads[c].file] = @ \cup {threads[c].line.value}]
    BY <1>7 DEF DataThread, Read, Ignore, EndMarker, Broken, Disconnected, Write, Acknowledge, DataEnds
  <2>2. threads[c].line.value \in 1 .. sent
    BY <2>1 DEF SentInv, LineSent
  <2>3. \A f \in Files : kept'[f] \subseteq kept[f] \cup {threads[c].line.value}
    BY <2>1 DEF TypeInv, RowsFit
  <2>4. \A f \in Files : kept'[f] \subseteq 1 .. sent'
    BY <2>2, <2>3 DEF SentInv
  <2>5. threads'[c] = t /\ \A d \in Clients \ {c} : threads'[d] = threads[d]
    BY <1>1 DEF TypeInv, ThreadsFit
  <2>6. \A d \in Clients : LineSent(threads[d].line)'
    BY <1>5, <2>5 DEF SentInv, LineSent
  <2> QED BY <2>4, <2>6 DEF SentInv
<1> QED BY <1>6, <1>7

LEMMA CutSent ==
  ASSUME TypeInv, SentInv, UNCHANGED <<sent, kept>>, UNCHANGED threads \/ \E V : threads' = Cut(V)
  PROVE  SentInv'
<1>1. threads \in [Clients -> Threads]
  BY DEF TypeInv, ThreadsFit
<1>2. \A c \in Clients : threads'[c].line = threads[c].line
  <2>1. CASE \E V : threads' = Cut(V)
    BY <1>1, <2>1, CutIs
  <2> QED BY <2>1
<1> QED BY <1>2, SentKept

LEMMA ClientSent ==
  ASSUME TypeInv, SentInv, NEW c \in DOMAIN scene,
         \/ Negotiate(c) \/ Writing(c)
         \/ Talk(c) \/ Send(c)
  PROVE  SentInv'
<1>1. c \in Clients /\ threads[c] \in Threads
  BY SceneIs, ThreadIs
<1>2. UNCHANGED kept
  BY DEF Negotiate, Writing, Construct, Destruct, Confirm, Fail, Talk, Send, Contact, Interpret,
         DataUnchanged, dataVars
<1>3. CASE Send(c)
  <2>1. sent \in Nat /\ sent' \in {sent, sent + 1}
    BY <1>3 DEF Send, TypeInv, ClientsFit
  <2>2. PICK end, name, n : /\ threads' = [threads EXCEPT ![c].line = Line(name, n, end)]
                            /\ end \in OtherEnds \/ (n = sent + 1 /\ sent' = sent + 1)
    <3>1. PICK end \in scene[c].sends :
            \/ end \in OtherEnds /\ threads' = [threads EXCEPT ![c].line = Line("", 0, end)]
            \/ /\ end \notin OtherEnds /\ sent' = sent + 1
               /\ \E name \in Names : threads' = [threads EXCEPT ![c].line = Line(name, sent', end)]
      BY <1>3 DEF Send
    <3>2. \E name, n : /\ threads' = [threads EXCEPT ![c].line = Line(name, n, end)]
                       /\ end \in OtherEnds \/ (n = sent + 1 /\ sent' = sent + 1)
      <4>1. CASE end \in OtherEnds
        BY <3>1, <4>1
      <4>2. CASE end \notin OtherEnds
        BY <3>1, <4>2
      <4> QED BY <4>1, <4>2
    <3> QED BY <3>2
  <2> DEFINE line == Line(name, n, end)
             t == [threads[c] EXCEPT !.line = line]
  <2>3. threads' = [threads EXCEPT ![c] = t] /\ t.line = line
    BY <1>1, <2>2 DEF Threads
  <2>4. line.end = end /\ line.value = n
    BY DEF Line
  <2> HIDE DEF line, t
  <2>5. t.line.end \in DataEnds => t.line.value \in 1 .. sent'
    <3>1. end \in OtherEnds => end \notin DataEnds
      BY DEF DataEnds, OtherEnds
    <3>2. n = sent + 1 /\ sent' = sent + 1 => n \in 1 .. sent'
      BY <2>1
    <3> QED BY <2>2, <2>3, <2>4, <3>1, <3>2
  <2> QED BY <1>1, <1>2, <2>1, <2>3, <2>5, OneSent
<1>4. CASE ~Send(c)
  <2>1. UNCHANGED sent
    BY <1>4 DEF Negotiate, Writing, Construct, Destruct, Confirm, Fail, Talk
  <2>2. CASE UNCHANGED threads
    BY <1>2, <2>1, <2>2, CutSent
  <2>3. CASE ContactChannel(c)
    <3> DEFINE t == [threads[c] EXCEPT !.pc = "backlog", !.port = told[c].port]
    <3>1. threads' = [threads EXCEPT ![c] = t]
      BY <2>3 DEF ContactChannel
    <3>2. t.line = threads[c].line
      BY <1>1 DEF Threads
    <3> HIDE DEF t
    <3> QED BY <1>1, <1>2, <2>1, <3>1, <3>2, OneSent
  <2>4. CASE Destruct(c) /\ ~UNCHANGED threads
    <3> DEFINE t == [threads[c] EXCEPT !.line = Line("", 0, "end marker")]
    <3>1. threads' = [threads EXCEPT ![c] = t]
      BY <2>4 DEF Destruct
    <3>2. t.line.end = "end marker"
      BY <1>1 DEF Threads, Line
    <3> HIDE DEF t
    <3>3. t.line.end \notin DataEnds
      BY <3>2 DEF DataEnds
    <3> QED BY <1>1, <1>2, <2>1, <3>1, <3>3, OneSent
  <2>5. UNCHANGED threads \/ ContactChannel(c) \/ Destruct(c)
    BY <1>4 DEF Negotiate, Writing, Construct, Confirm, Fail, Talk, Contact, Interpret, dataVars
  <2> QED BY <2>2, <2>3, <2>4, <2>5
<1> QED BY <1>3, <1>4

LEMMA NextSent == ASSUME TypeInv, SentInv, [Next]_vars PROVE SentInv'
<1>1. CASE UNCHANGED vars
  BY <1>1, CutSent DEF vars, dataVars
<1>2. CASE ClientStep
  BY <1>2, ClientSent DEF ClientStep
<1>3. CASE DaemonStep /\ UNCHANGED sent
  <2>1. ASSUME NEW p \in DOMAIN acceptors, Acceptor(p) PROVE SentInv'
    <3>1. UNCHANGED kept
      BY <2>1 DEF Acceptor, Start, Listen, Accept
    <3>2. CASE UNCHANGED threads \/ \E V : threads' = Cut(V)
      BY <1>3, <3>1, <3>2, CutSent
    <3>3. CASE \E c \in Clients : \E f : threads' = [threads EXCEPT ![c].pc = "read", ![c].file = f]
      <4>1. PICK c \in Clients : \E f : threads' = [threads EXCEPT ![c].pc = "read", ![c].file = f]
        BY <3>3
      <4>4. PICK f : threads' = [threads EXCEPT ![c].pc = "read", ![c].file = f]
        BY <4>1
      <4> DEFINE t == [threads[c] EXCEPT !.pc = "read", !.file = f]
      <4>2. threads' = [threads EXCEPT ![c] = t]
        BY <4>4
      <4>3. t.line = threads[c].line
        BY ThreadIs DEF Threads
      <4> HIDE DEF t
      <4> QED BY <1>3, <3>1, <4>2, <4>3, OneSent
    <3> QED BY <2>1, <3>2, <3>3 DEF Acceptor, Start, Listen, Accept, DeleteChannel
  <2>2. ASSUME NEW c \in Clients, DataThread(c) PROVE SentInv'
    BY <1>3, <2>2, DataThreadSent
  <2>3. ASSUME NEW c \in Clients, CommThread(c) PROVE SentInv'
    <3>1. UNCHANGED kept
      BY <2>3 DEF CommThread, Answer, ExitCommand, Shutdown, Open, Look, NewPort, Insert, Connect, Bind,
                  BindFreed, Thread, Close, CloseChannel, Flush, CloseAll, Delete, dataVars
    <3>2. UNCHANGED threads \/ CloseChannel(c)
      BY <2>3 DEF CommThread, Answer, ExitCommand, Shutdown, Open, Look, NewPort, Insert, Connect, Bind,
                  BindFreed, Thread, Close, Flush, CloseAll, Delete, dataVars
    <3>3. UNCHANGED threads \/ \E V : threads' = Cut(V)
      BY <3>2 DEF CloseChannel, DeleteChannel
    <3> QED BY <1>3, <3>1, <3>3, CutSent
  <2>4. ASSUME Exiting PROVE SentInv'
    BY <1>3, <2>4, CutSent DEF Exiting, DestroyServers, CloseWriters, Down
  <2> QED BY <1>3, <2>1, <2>2, <2>3, <2>4 DEF DaemonStep
<1> QED BY <1>1, <1>2, <1>3 DEF Next

LEMMA SentInvHolds == Spec => []SentInv
<1>1. Init => SentInv
  BY InitSent
<1>2. TypeInv /\ SentInv /\ [Next]_vars => SentInv'
  BY NextSent
<1> QED BY <1>1, <1>2, TypeInvHolds, PTL DEF Spec

\* The types that the runs check: each server is at one port, only a bound one runs, the
\* sockets that listen are those of the servers that were made, each thread of a channel
\* has one of them, and what was acknowledged had been sent.
THEOREM TypeOKTheorem == ASSUME Concurrent = FALSE PROVE Spec => []TypeOK
<1>1. TypeInv /\ PortsInv /\ SentInv => TypeOK
  <2> SUFFICES ASSUME TypeInv, PortsInv, SentInv PROVE TypeOK
    OBVIOUS
  <2>1. Number \in Nat /\ DOMAIN servers = 1 .. Number
    BY ServersDomain DEF TypeInv, Number
  <2>2. IsInjective(channels)
    <3> SUFFICES ASSUME NEW p \in DOMAIN channels, NEW q \in DOMAIN channels, channels[p] = channels[q]
                 PROVE  p = q
      BY DEF IsInjective
    <3>1. p = q \/ channels[p] = 0
      BY DEF TypeInv, ChannelsFit
    <3> QED BY <3>1 DEF PortsInv, NullsPass
  <2>3. Range(channels) \subseteq ServerNumbers
    BY DEF Range, ServerNumbers, TypeInv, ChannelsFit
  <2>4. \A s \in DOMAIN servers :
          /\ servers[s].file \in Files /\ servers[s].orig \in {"none", "new", "bound"}
          /\ servers[s].running => servers[s].orig = "bound"
    <3>1. \A s \in DOMAIN servers : servers[s] \in Servers
      BY DEF TypeInv, ServersFit
    <3> QED BY <3>1 DEF Servers, PortsInv, ChannelsRun
  <2>5. bound \subseteq 1 .. Number
    <3>1. ASSUME NEW c \in Clients, Making(c) PROVE bound \subseteq 1 .. Number
      BY <2>1, <3>1 DEF PortsInv, PortsCounted, Making
    <3> QED BY <3>1 DEF PortsInv, PortsCounted
  <2>6. process \in {"up", "closing", "closed", "down", "crashed"}
    BY DEF TypeInv, ProcessFits
  <2>7. /\ DOMAIN acceptors \subseteq bound
        /\ \A c \in Clients : Served(c) => threads[c].port \in DOMAIN acceptors /\ threads[c].file \in Files
    BY DEF TypeInv, AcceptorsFit, ThreadsFit
  <2> QED BY <2>2, <2>3, <2>4, <2>5, <2>6, <2>7 DEF TypeOK, SentInv, Number
<1> QED BY <1>1, TypeInvHolds, PortsInvHolds, SentInvHolds, PTL
=============================================================================
