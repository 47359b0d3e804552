------------------------------ MODULE MCCommands ------------------------------
(***************************************************************************)
(* Two callers steer the harvester through a channel with room for one     *)
(* command: the second may have to wait.                                   *)
(***************************************************************************)
EXTENDS Commands, MCHarvester

Scan(f, t) == [type |-> "scan", from |-> f, to |-> t]

MCRequest ==
    {Stop, [type |-> "pause"], [type |-> "resume"], Scan(1, 3), Scan(3, 2)}

\* Bounds: both commands are handled, and a call to the node fails; or there is
\* one command and nothing fails.
Steered == [Calm EXCEPT !["command"] = 2, !["rpc"] = 1, !["restart"] = 1]
OneCommand == [Calm EXCEPT !["command"] = 1]
=============================================================================
