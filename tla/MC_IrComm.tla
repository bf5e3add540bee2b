----------------------------- MODULE MC_IrComm -----------------------------
(***************************************************************************)
(* Instances of IrComm: two channels, of which one or none hears its own   *)
(* bytes.                                                                  *)
(***************************************************************************)
EXTENDS IrComm

\* The main program sends a targeted message (irTargetedSend), a task a
\* command to everybody (irCmd) or a synchronisation ping (sendPing).
Message == [ctx |-> "main", hp |-> FALSE, dirs |-> {0}, len |-> 1,
            target |-> "b", cmd |-> FALSE, data |-> "text"]
Wide    == [Message EXCEPT !.dirs = {0, 1}]
Command == [ctx |-> "task", hp |-> FALSE, dirs |-> {1}, len |-> 1,
            target |-> None, cmd |-> TRUE, data |-> "cmd"]
Ping    == [ctx |-> "task", hp |-> TRUE, dirs |-> {0, 1}, len |-> 0,
            target |-> "time", cmd |-> TRUE, data |-> None]

\* The two-byte fields count as one byte.
MCHeader   == <<"sender", "crc", "len", "target">>
MCShort    == <<"crc", "len", "target">>
MCCalls    == {Message, Wide, Command, Ping}

\* Two sends and a command at any moment, channel 0 hearing itself or not;
\* or a send and two commands.
MCBudgets  ==
  {[calls |-> {Message, Ping}, sends |-> 2, cmds |-> 1, wall |-> {}],
   [calls |-> {Wide, Command}, sends |-> 2, cmds |-> 0, wall |-> {}],
   [calls |-> {Wide}, sends |-> 1, cmds |-> 2, wall |-> {}],
   [calls |-> {Message, Command}, sends |-> 2, cmds |-> 1, wall |-> {0}]}

\* A message and a ping, while no command is received.
MCPreempted == {[calls |-> {Message, Ping}, sends |-> 2, cmds |-> 0, wall |-> {}]}
=============================================================================
