------------------------------- MODULE Commands -------------------------------
(***************************************************************************)
(* Steering the harvester from outside: the command line (tools.rs) posts  *)
(* to the protected routes of the web server (api/bitcoin.rs), which send  *)
(* a Command through a CommandHandler (lib.rs); on SIGTERM or SIGINT the   *)
(* task's own shutdown handler sends Terminate the same way (mod.rs, run). *)
(*                                                                         *)
(* The channel is a bounded mpsc queue.  A send to a full one waits, and   *)
(* the senders that wait are served in turn, so channel and waiting        *)
(* senders are one list, of which the first Capacity are in the channel.   *)
(*                                                                         *)
(* start() looks at the channel before it goes on with harvest(), but a    *)
(* poll of harvest() that has begun is not stopped by a command that       *)
(* arrives: harvest() may take steps while commands are queued, and the    *)
(* preference is the fairness of HandleCommand.                            *)
(***************************************************************************)
EXTENDS Harvester

CONSTANTS
    Caller,     \* requests to the web server; the shutdown handler is one too
    Request,    \* commands they may be for
    Capacity    \* of the channel: 100 in the code

\* The enum Command; numbers no block has are like one that is out of range.
CommandSet ==
    [type : {"terminate", "pause", "resume"}]
        \cup [type : {"scan"}, from : Heights, to : Heights]

ASSUME CommandAssumption ==
    /\ Request \subseteq CommandSet
    /\ Capacity \in Nat \ {0}
    /\ IsFiniteSet(Caller) /\ Cardinality(Caller) <= Bound["command"]

VARIABLES
    queue,      \* sent and not handled: the first Capacity are in the channel
    call,       \* what became of each caller's request
    commanded   \* the command handled last, {} before the first (for checking)

commandVars == <<queue, call, commanded>>
commandedVars == <<vars, commandVars>>

Stop == [type |-> "terminate"]

CommandInit ==
    /\ queue = <<>>
    /\ call = [c \in Caller |-> "idle"]
    /\ commanded = {}

CommandedInit == Init /\ CommandInit
-----------------------------------------------------------------------------
(***************************************************************************)
(* The callers.                                                            *)
(***************************************************************************)
Asks(c, cmd) ==
    /\ call[c] = "idle"
    /\ cmd \in Request
    /\ UNCHANGED <<vars, commanded>>

Reversed(cmd) == cmd.type = "scan" /\ cmd.from > cmd.to

\* 400: the web server itself refuses a range from > to.
RefuseRange(c, cmd) ==
    /\ Asks(c, cmd)
    /\ Reversed(cmd)
    /\ call' = [call EXCEPT ![c] = "refused"]
    /\ UNCHANGED queue

\* 500: the channel is closed, for the task has ended.
SendFails(c, cmd) ==
    /\ Asks(c, cmd)
    /\ ~Reversed(cmd)
    /\ pc \notin Live
    /\ call' = [call EXCEPT ![c] = "failed"]
    /\ UNCHANGED queue

\* Mutant of SendCommand: the web server lets every range through.
SendUnchecked(c, cmd) ==
    /\ Asks(c, cmd)
    /\ pc \in Live
    /\ queue' = Append(queue, [caller |-> c, command |-> cmd])
    /\ call' = [call EXCEPT ![c] = IF Len(queue) < Capacity THEN "ok" ELSE "waiting"]

\* Sender::send: 200 as soon as the command is in the channel.
SendCommand(c, cmd) ==
    /\ Asks(c, cmd)
    /\ ~Reversed(cmd)
    /\ pc \in Live
    /\ queue' = Append(queue, [caller |-> c, command |-> cmd])
    /\ call' = [call EXCEPT ![c] = IF Len(queue) < Capacity THEN "ok" ELSE "waiting"]

Ask ==
    \E c \in Caller : \E cmd \in Request :
        RefuseRange(c, cmd) \/ SendFails(c, cmd) \/ SendCommand(c, cmd)
-----------------------------------------------------------------------------
(***************************************************************************)
(* The task.                                                               *)
(***************************************************************************)

\* recv() makes room: the send that has waited longest succeeds.
Promoted ==
    IF Len(queue) > Capacity
    THEN [call EXCEPT ![queue[Capacity + 1].caller] = "ok"]
    ELSE call

Failed(f) == [c \in Caller |-> IF f[c] = "waiting" THEN "failed" ELSE f[c]]

\* Mutant of DropReceiver: the receiver outlives start().
ReceiverKept(f) ==
    /\ UNCHANGED queue
    /\ call' = f

\* The receiver is dropped: what is in the channel is lost, though answered.
DropReceiver(f) ==
    /\ queue' = <<>>
    /\ call' = Failed(f)

Handles(type) ==
    /\ queue # <<>>
    /\ Head(queue).command.type = type
    /\ commanded' = {Head(queue).command}

Received ==
    /\ queue' = Tail(queue)
    /\ call' = Promoted

\* Mutant of HandleTerminate: the loop goes on.
TerminateIgnored ==
    /\ Handles("terminate")
    /\ Interrupt
    /\ Leave("select")
    /\ UNCHANGED loopVars
    /\ Received

HandleTerminate ==
    /\ Handles("terminate")
    /\ Terminate
    /\ DropReceiver(Promoted)

HandlePause == Handles("pause") /\ Pause /\ Received

HandleResume == Handles("resume") /\ AutoScan /\ Received

HandleScan ==
    /\ Handles("scan")
    /\ \/ ScanBlock(Head(queue).command.from, Head(queue).command.to) /\ Received
       \/ ScanBlockFails(Head(queue).command.from) /\ DropReceiver(Promoted)

HandleCommand == HandleTerminate \/ HandlePause \/ HandleResume \/ HandleScan

\* A step that ends the task drops the receiver.
EndsQueue ==
    /\ IF pc' \in Live THEN UNCHANGED <<queue, call>> ELSE DropReceiver(call)
    /\ UNCHANGED commanded

CommandedHarvest == HarvestStep /\ EndsQueue

CommandedTrouble ==
    \/ (RpcFails \/ DbFails) /\ EndsQueue
    \/ (NodeStep \/ ReceiverDropped) /\ UNCHANGED commandVars

\* The web server ends with the process; its connections are closed.
CommandedRestart ==
    /\ Restart
    /\ DropReceiver(call)
    /\ commanded' = {}

CommandedNext ==
    \/ Ask \/ HandleCommand \/ CommandedHarvest
    \/ CommandedTrouble \/ CommandedRestart

CommandedSpec == CommandedInit /\ [][CommandedNext]_commandedVars

\* The runtime polls the task, which receives before it goes on harvesting.
CommandedLiveSpec ==
    /\ CommandedSpec
    /\ WF_commandedVars(CommandedHarvest)
    /\ WF_commandedVars(HandleCommand)
-----------------------------------------------------------------------------
(***************************************************************************)
(* Properties.                                                             *)
(***************************************************************************)
Waiting == {c \in Caller : call[c] = "waiting"}

\* Every variable has its type, and no range with its ends reversed is queued.
CommandsTypeOK ==
    /\ TypeOK
    /\ queue \in Seq([caller : Caller, command : CommandSet])
    /\ call \in [Caller -> {"idle", "waiting", "ok", "failed", "refused"}]
    /\ commanded \subseteq CommandSet
    /\ \A i \in DOMAIN queue : ~Reversed(queue[i].command)

\* A caller waits for an answer exactly while its command is queued beyond the
\* channel's capacity: room made by recv() goes to the one that waited longest,
\* and the end of the task answers them all and leaves nothing queued.
QueueFits ==
    /\ Waiting = {queue[i].caller : i \in Capacity + 1 .. Len(queue)}
    /\ pc \notin Live => queue = <<>>

\* Once a pause is handled, and a block had been processed, nothing is written
\* until another command is handled or the process is started again.
PauseHolds ==
    [][commanded = {[type |-> "pause"]} /\ end_height # Null
           /\ commanded' = commanded => UNCHANGED db]_commandedVars

\* A terminate that was accepted ends the task, whatever commands are queued
\* before it and wherever harvest() is (or the process is started again).
TerminateEnds ==
    (\E i \in DOMAIN queue : queue[i].command = Stop)
        ~> (pc \notin Live \/ used["restart"] > 0)

\* Callers whose command waits for room in the channel get an answer.
CallersAnswered == Waiting # {} ~> Waiting = {}

\* The scan of a range has come as far as the last processed block: of its
\* branch, all blocks above from are stored.
ScanComplete ==
    \A s \in commanded :
        s.type = "scan" /\ pc \in Live /\ last_processed_block # Null =>
            \A b \in Branch[last_processed_block] :
                Height[b] > s.from => b \in db.blocks

\* ... and from itself is stored too (tools.rs: "Scan blocks from `from` to
\* `to`").
ScanIncludesFrom ==
    \A s \in commanded :
        s.type = "scan" /\ pc = "scan" /\ Height[last_processed_block] >= s.to =>
            \E b \in db.blocks : Height[b] = s.from
=============================================================================
