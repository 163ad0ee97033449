---------------------------- MODULE MCHarvestingd ---------------------------
(***************************************************************************)
(* One to three clients and two files.                                     *)
(***************************************************************************)
EXTENDS Harvestingd, TLC

CONSTANTS c1, c2, c3

Request(command, words) == [command |-> command, words |-> words]

Ask(commands, files) == {Request(command, <<f>>) : command \in commands, f \in files}

Plain(commands) == {Request(command, <<>>) : command \in commands}

\* The commands, the lines, two clients that write, one beside a TcpWriter, and one
\* beside a client on another machine.
MCScenes == {
  c1 :> Talker(Ask({"open", "close"}, Files) \cup Plain({"close_all"})
                 \cup {Request("del", <<"g", "f">>)}, {"."}, 1),
  c1 :> Talker(Ask({"open"}, {"f"}) \cup Plain({"open", "other", "exit", "shutdown"}),
               DataEnds \cup OtherEnds, 2),
  c1 :> Talker(Ask({"open"}, {"f"}), {"."}, 2)
    @@ c2 :> Talker(Ask({"open"}, Files), {".", "end marker"}, 2),
  c1 :> Talker(Ask({"open", "close"}, {"f"}), {"."}, 1) @@ c2 :> TcpWriterOf("f"),
  c1 :> Talker(Ask({"open"}, Files), {"."}, 1)
    @@ c3 :> Talker(Ask({"open"}, {"g"}) \cup Plain({"exit"}), {"."}, 1) }

\* Two whose commands interleave; from when c1 connects behind c2 on, the daemon does
\* with c2, if it is on another machine, what it does with a local client.
RaceScenes == {
  c1 :> Talker(Ask({"open"}, {"f"}), {"."}, 2)
    @@ c2 :> Talker(Ask({"open", "close"}, {"f"}), {}, 0) }
=============================================================================
