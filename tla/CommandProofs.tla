----------------------------- MODULE CommandProofs -----------------------------
(***************************************************************************)
(* The harvester behind its command channel is a harvester: what holds of  *)
(* Spec holds however it is steered.  And a pause holds.                   *)
(***************************************************************************)
EXTENDS Commands, ChainProofs

\* What the web server lets through: no range that is reversed.
Accepted == {cmd \in CommandSet : ~Reversed(cmd)}

QueueInv == queue \in Seq([caller : Caller, command : Accepted])

\* The command at the head of the queue has been accepted.
LEMMA HeadAccepted ==
    ASSUME QueueInv, queue # <<>>
    PROVE  /\ Head(queue).command \in Accepted
           /\ Tail(queue) \in Seq([caller : Caller, command : Accepted])
<1> DEFINE S == [caller : Caller, command : Accepted]
<1>1. queue \in Seq(S)
    BY DEF QueueInv
<1> HIDE DEF S
<1>2. Head(queue) \in S /\ Tail(queue) \in Seq(S)
    BY <1>1
<1> QED
    BY <1>2 DEF S

\* An accepted scan is of a range of heights in order.
LEMMA ScanRange ==
    ASSUME NEW cmd \in Accepted, cmd.type = "scan"
    PROVE  cmd.from \in Heights /\ cmd.to \in Heights /\ cmd.from <= cmd.to
<1>1. cmd.from \in Heights /\ cmd.to \in Heights /\ ~(cmd.from > cmd.to)
    BY DEF Accepted, CommandSet, Reversed
<1>2. Heights \subseteq Nat
    BY HeightType DEF Heights
<1>3. cmd.from \in Nat /\ cmd.to \in Nat
    BY <1>1, <1>2
<1>4. \A m, n \in Nat : ~(m > n) => m <= n
    OBVIOUS
<1> QED
    BY <1>1, <1>3, <1>4

\* Only accepted commands are queued.
LEMMA QueueInvStep ==
    QueueInv /\ [CommandedNext]_commandedVars => QueueInv'
<1> SUFFICES ASSUME QueueInv, [CommandedNext]_commandedVars
             PROVE  QueueInv'
    OBVIOUS
<1>1. ASSUME NEW c \in Caller, NEW cmd \in Request, SendCommand(c, cmd)
      PROVE  QueueInv'
    <2>1. cmd \in Accepted
        BY <1>1, CommandAssumption DEF SendCommand, Accepted
    <2> QED
        BY <1>1, <2>1 DEF SendCommand, QueueInv
<1>2. CASE Ask
    BY <1>1, <1>2 DEF Ask, RefuseRange, SendFails, QueueInv
<1>3. queue' = queue => QueueInv'
    BY DEF QueueInv
<1>4. queue' = <<>> => QueueInv'
    BY DEF QueueInv
<1>5. CASE HandleCommand
    <2>1. queue # <<>> /\ (queue' = Tail(queue) \/ queue' = <<>>)
        BY <1>5
        DEF HandleCommand, HandleTerminate, HandlePause, HandleResume, HandleScan,
            Handles, Received, DropReceiver
    <2> QED
        BY <1>4, <2>1, HeadAccepted DEF QueueInv
<1>6. CASE CommandedHarvest \/ CommandedTrouble \/ CommandedRestart
    BY <1>3, <1>4, <1>6
    DEF CommandedHarvest, CommandedTrouble, CommandedRestart, EndsQueue,
        DropReceiver, commandVars
<1>7. CASE UNCHANGED commandedVars
    BY <1>3, <1>7 DEF commandedVars, commandVars
<1> QED
    BY <1>2, <1>5, <1>6, <1>7 DEF CommandedNext

\* Each step of the steered harvester is one of Harvester, or leaves it alone.
LEMMA CommandedStep ==
    ASSUME QueueInv, [CommandedNext]_commandedVars
    PROVE  [Next]_vars
<1>1. CASE Ask
    BY <1>1 DEF Ask, Asks, RefuseRange, SendFails, SendCommand
<1>2. CASE HandleTerminate \/ HandlePause \/ HandleResume
    BY <1>2 DEF HandleTerminate, HandlePause, HandleResume, Next, SteadyNext
<1>3. CASE HandleScan
    <2> DEFINE cmd == Head(queue).command
    <2>1. cmd.from \in Heights /\ cmd.to \in Heights /\ cmd.from <= cmd.to
        BY <1>3, HeadAccepted, ScanRange DEF HandleScan, Handles
    <2>2. ScanBlock(cmd.from, cmd.to) \/ ScanBlockFails(cmd.from)
        BY <1>3 DEF HandleScan
    <2> HIDE DEF cmd
    <2> QED
        BY <2>1, <2>2 DEF Next, Rescan
<1>4. CASE CommandedHarvest \/ CommandedTrouble \/ CommandedRestart
    BY <1>4 DEF CommandedHarvest, CommandedTrouble, CommandedRestart, Next, SteadyNext
<1>5. CASE UNCHANGED commandedVars
    BY <1>5 DEF commandedVars
<1> QED
    BY <1>1, <1>2, <1>3, <1>4, <1>5 DEF CommandedNext, HandleCommand

\* The harvester behind the channel, steered by any number of callers, behaves
\* like Harvester: its theorems hold of the service too.
THEOREM CommandedImplements == CommandedSpec => Spec
<1>1. CommandedInit => Init /\ QueueInv
    BY DEF CommandedInit, CommandInit, QueueInv
<1>2. QueueInv /\ [CommandedNext]_commandedVars => [Next]_vars
    BY CommandedStep
<1> QED
    BY <1>1, <1>2, QueueInvStep, PTL DEF CommandedSpec, Spec

\* The rows of btc_utxos stay the taproot outputs of the stored blocks, however
\* the harvester is steered.
THEOREM CommandedRowsAreBacked == CommandedSpec => []UtxoBacked
BY CommandedImplements, RowsAreBacked, PTL
-----------------------------------------------------------------------------
(***************************************************************************)
(* A pause holds.                                                          *)
(***************************************************************************)
PauseCommand == [type |-> "pause"]

\* After a pause harvest() has nothing to do: it wants no block above the last.
PauseInv ==
    commanded = {PauseCommand} /\ end_height # Null =>
        /\ pc \in {"select", "scan", "stopped", "panicked"}
        /\ last_processed_block \in Block
        /\ end_height <= Height[last_processed_block]
        /\ pc = "scan" => desired_height = end_height

\* The other commands are told from a pause.
LEMMA PauseHandled ==
    ASSUME NEW type \in {"terminate", "resume", "scan"}, Handles(type)
    PROVE  commanded' # {PauseCommand}
<1>1. Head(queue).command.type # PauseCommand.type
    BY DEF Handles, PauseCommand
<1> QED
    BY <1>1 DEF Handles

\* A step of a paused harvester finds nothing to do.
LEMMA PausedHarvest ==
    ASSUME Shape, PauseInv, HarvestStep, commanded = {PauseCommand}, end_height # Null
    PROVE  BeginHarvest \/ HarvestDone
<1>1. /\ pc \in {"select", "scan", "stopped", "panicked"}
      /\ last_processed_block \in Block
      /\ end_height <= Height[last_processed_block] /\ end_height \in Nat
      /\ pc = "scan" => desired_height = end_height
      /\ Height[last_processed_block] \in Nat
    BY HeightType DEF PauseInv, Shape
<1>2. pc = "scan" => ~(NextNum <= desired_height)
    BY <1>1 DEF NextNum
<1> QED
    BY <1>1, <1>2
    DEF HarvestStep, FirstBlock, ScanNext, ScanFork, NotMinedYet, WalkBack, StartFork,
        ForkPanics, ProcessorStep, BlockDone, StatementRejected, EventPanics, Processing

\* Every step keeps PauseInv.
LEMMA PauseInvStep ==
    Shape /\ PauseInv /\ [CommandedNext]_commandedVars => PauseInv'
<1> SUFFICES ASSUME Shape, PauseInv, [CommandedNext]_commandedVars,
                    commanded' = {PauseCommand}, end_height' # Null
             PROVE  PauseInv'
    BY DEF PauseInv
<1>1. Null \notin Nat /\ Null \notin Block
    BY BlockAssumption
<1>2. CASE HandlePause
    <2>1. /\ pc' = "select" /\ last_processed_block' = last_processed_block
          /\ end_height' = PausedAt
        BY <1>2 DEF HandlePause, Pause, Leave
    <2>2. /\ last_processed_block \in Block
          /\ end_height' = Height[last_processed_block]
          /\ Height[last_processed_block] \in Nat
        BY <2>1, HeightType DEF PausedAt, Shape
    <2> QED
        BY <2>1, <2>2 DEF PauseInv
<1>3. CASE HandleTerminate \/ HandleResume \/ HandleScan
    BY <1>3, PauseHandled DEF HandleTerminate, HandleResume, HandleScan
<1>4. CASE CommandedHarvest
    <2>1. /\ commanded = {PauseCommand} /\ end_height' = end_height
          /\ HarvestStep
        BY <1>4
        DEF CommandedHarvest, EndsQueue, HarvestStep, BeginHarvest, FirstBlock,
            HarvestDone, ScanNext, ScanFork, NotMinedYet, WalkBack, StartFork, ForkPanics,
            ProcessorStep, BlockDone, StatementRejected, EventPanics, loopVars
    <2>2. BeginHarvest \/ HarvestDone
        BY <2>1, PausedHarvest
    <2> QED
        BY <1>1, <2>1, <2>2
        DEF PauseInv, BeginHarvest, HarvestDone, Leave, loopVars
<1>5. CASE CommandedTrouble
    <2>1. /\ commanded = {PauseCommand} /\ end_height' = end_height
          /\ last_processed_block' = last_processed_block
          /\ \/ pc' = pc /\ desired_height' = desired_height
             \/ pc' \in {"select", "panicked"}
        BY <1>5
        DEF CommandedTrouble, EndsQueue, commandVars, RpcFails, DbFails, NodeStep,
            ReceiverDropped, Leave, AfterError, loopVars
    <2> QED
        BY <2>1 DEF PauseInv
<1>6. CASE CommandedRestart
    BY <1>6 DEF CommandedRestart
<1>7. CASE Ask \/ UNCHANGED commandedVars
    <2>1. UNCHANGED <<commanded, pc, end_height, last_processed_block, desired_height>>
        BY <1>7
        DEF Ask, Asks, RefuseRange, SendFails, SendCommand, vars, loopVars,
            commandedVars, commandVars
    <2> QED
        BY <2>1 DEF PauseInv
<1> QED
    BY <1>2, <1>3, <1>4, <1>5, <1>6, <1>7 DEF CommandedNext, HandleCommand

\* Once a pause is handled and a block had been processed, nothing is written
\* until another command, or a restart of the process.
THEOREM PauseStopsWriting == CommandedSpec => PauseHolds
<1>1. CommandedInit => PauseInv
    BY DEF CommandedInit, CommandInit, PauseInv
<1>2. ASSUME Shape, PauseInv, QueueInv, [CommandedNext]_commandedVars,
             commanded = {PauseCommand}, end_height # Null
      PROVE  UNCHANGED db
    <2>1. phase # "commit"
        BY <1>2 DEF PauseInv, Shape, Processing
    <2> QED
        BY <1>2, <2>1, CommandedStep, StoreChanges
<1>3. Shape /\ PauseInv /\ QueueInv /\ [CommandedNext]_commandedVars =>
          [commanded = {[type |-> "pause"]} /\ end_height # Null
               /\ commanded' = commanded => UNCHANGED db]_commandedVars
    BY <1>2 DEF PauseCommand
<1>4. CommandedInit => QueueInv
    BY DEF CommandedInit, CommandInit, QueueInv
<1>5. CommandedSpec => []Shape
    BY CommandedImplements, ShapeHolds, PTL
<1> QED
    BY <1>1, <1>3, <1>4, <1>5, QueueInvStep, PauseInvStep, PTL
    DEF CommandedSpec, PauseHolds
-----------------------------------------------------------------------------
(***************************************************************************)
(* The channel and its callers.                                            *)
(***************************************************************************)
Answers == {"idle", "waiting", "ok", "failed", "refused"}

\* A caller is in the queue at most once, has been answered when its command is
\* in the channel, and waits when it is beyond the channel's capacity.
CallersInv ==
    /\ call \in [Caller -> Answers]
    /\ \A i, j \in DOMAIN queue : queue[i].caller = queue[j].caller => i = j
    /\ \A i \in DOMAIN queue :
           call[queue[i].caller] = IF i <= Capacity THEN "ok" ELSE "waiting"
    /\ \A c \in Caller : call[c] = "waiting" =>
           \E i \in DOMAIN queue : i > Capacity /\ queue[i].caller = c
    /\ pc \notin Live => queue = <<>>

\* What a queue of accepted commands is made of.
LEMMA QueueFacts ==
    ASSUME QueueInv
    PROVE  /\ Len(queue) \in Nat /\ DOMAIN queue = 1 .. Len(queue)
           /\ \A i \in 1 .. Len(queue) : queue[i].caller \in Caller
           /\ Capacity \in Nat /\ Capacity >= 1
           /\ queue # <<>> => Len(queue) >= 1
<1> DEFINE S == [caller : Caller, command : Accepted]
<1>1. queue \in Seq(S)
    BY DEF QueueInv
<1>2. \A x \in S : x.caller \in Caller
    OBVIOUS
<1> HIDE DEF S
<1> QED
    BY <1>1, <1>2, CommandAssumption

\* A caller that sends joins the end of the queue.
LEMMA CallersSend ==
    ASSUME QueueInv, CallersInv, NEW c \in Caller, NEW cmd, SendCommand(c, cmd)
    PROVE  CallersInv'
<1> DEFINE e == [caller |-> c, command |-> cmd]
           n == Len(queue)
<1>1. /\ call[c] = "idle" /\ pc \in Live /\ pc' = pc
      /\ queue' = Append(queue, e)
      /\ call' = [call EXCEPT ![c] = IF n < Capacity THEN "ok" ELSE "waiting"]
    BY DEF SendCommand, Asks, vars
<1>2. /\ n \in Nat /\ DOMAIN queue = 1 .. n /\ Capacity \in Nat
      /\ \A i \in 1 .. n : queue[i].caller \in Caller
    BY QueueFacts
<1>3. /\ DOMAIN queue' = 1 .. n + 1
      /\ \A i \in 1 .. n : queue'[i] = queue[i]
      /\ queue'[n + 1].caller = c
    <2>1. \E S : queue \in Seq(S)
        BY DEF QueueInv
    <2> QED
        BY <1>1, <1>2, <2>1
<1> HIDE DEF e, n
<1>4. \A i \in 1 .. n : queue[i].caller # c
    BY <1>1, <1>2 DEF CallersInv
<1>5. call' \in [Caller -> Answers]
    BY <1>1 DEF CallersInv, Answers
<1>6. ASSUME NEW i \in 1 .. n + 1, NEW j \in 1 .. n + 1,
             queue'[i].caller = queue'[j].caller
      PROVE  i = j
    <2>1. (i \in 1 .. n \/ i = n + 1) /\ (j \in 1 .. n \/ j = n + 1)
        BY <1>2
    <2> QED
        BY <1>2, <1>3, <1>4, <1>6, <2>1 DEF CallersInv
<1>7. ASSUME NEW i \in 1 .. n + 1
      PROVE  call'[queue'[i].caller] = IF i <= Capacity THEN "ok" ELSE "waiting"
    <2>1. CASE i \in 1 .. n
        BY <1>1, <1>2, <1>3, <1>4, <2>1 DEF CallersInv
    <2>2. CASE i = n + 1
        <3>1. n < Capacity <=> i <= Capacity
            BY <1>2, <2>2
        <3>2. call'[c] = IF n < Capacity THEN "ok" ELSE "waiting"
            BY <1>1 DEF CallersInv
        <3> QED
            BY <1>3, <2>2, <3>1, <3>2
    <2> QED
        BY <1>2, <2>1, <2>2
<1>8. ASSUME NEW d \in Caller, call'[d] = "waiting"
      PROVE  \E i \in 1 .. n + 1 : i > Capacity /\ queue'[i].caller = d
    <2>1. CASE d = c
        <3>1. ~(n < Capacity)
            BY <1>1, <1>8, <2>1 DEF CallersInv
        <3>2. n + 1 \in 1 .. n + 1 /\ n + 1 > Capacity
            BY <1>2, <3>1
        <3> QED
            BY <1>3, <2>1, <3>2
    <2>2. CASE d # c
        <3>1. call[d] = "waiting"
            BY <1>1, <1>8, <2>2 DEF CallersInv
        <3>2. PICK i \in 1 .. n : i > Capacity /\ queue[i].caller = d
            BY <1>2, <3>1 DEF CallersInv
        <3> QED
            BY <1>2, <1>3, <3>2
    <2> QED
        BY <2>1, <2>2
<1> QED
    BY <1>1, <1>3, <1>5, <1>6, <1>7, <1>8 DEF CallersInv

\* The callers as recv() leaves them, before the queue has moved on.
LEMMA PromotedFacts ==
    ASSUME QueueInv, CallersInv
    PROVE  /\ Promoted \in [Caller -> Answers]
           /\ \A i \in DOMAIN queue : Promoted[queue[i].caller] =
                  IF i <= Capacity + 1 THEN "ok" ELSE "waiting"
           /\ \A c \in Caller : Promoted[c] = "waiting" =>
                  \E i \in DOMAIN queue : i > Capacity + 1 /\ queue[i].caller = c
<1> DEFINE n == Len(queue)
           k == Capacity + 1
<1>1. /\ n \in Nat /\ DOMAIN queue = 1 .. n /\ Capacity \in Nat
      /\ \A i \in 1 .. n : queue[i].caller \in Caller
    BY QueueFacts
<1>2. CASE n > Capacity
    <2>1. /\ k \in 1 .. n /\ k \in Nat
          /\ Promoted = [call EXCEPT ![queue[k].caller] = "ok"]
        BY <1>1, <1>2 DEF Promoted
    <2> HIDE DEF n
    <2>2. ASSUME NEW i \in 1 .. n
          PROVE  Promoted[queue[i].caller] = IF i <= k THEN "ok" ELSE "waiting"
        <3>1. CASE i = k
            BY <1>1, <2>1, <3>1 DEF CallersInv
        <3>2. CASE i # k
            <4>1. queue[i].caller # queue[k].caller
                BY <1>1, <2>1, <3>2 DEF CallersInv
            <4>2. Promoted[queue[i].caller] = call[queue[i].caller]
                BY <1>1, <2>1, <4>1 DEF CallersInv
            <4>3. i <= Capacity <=> i <= k
                BY <1>1, <3>2
            <4> QED
                BY <1>1, <4>2, <4>3 DEF CallersInv
        <3> QED
            BY <3>1, <3>2
    <2>3. ASSUME NEW c \in Caller, Promoted[c] = "waiting"
          PROVE  \E i \in 1 .. n : i > k /\ queue[i].caller = c
        <3>1. c # queue[k].caller /\ call[c] = "waiting"
            BY <1>1, <2>1, <2>3 DEF CallersInv
        <3>2. PICK i \in 1 .. n : i > Capacity /\ queue[i].caller = c
            BY <1>1, <3>1 DEF CallersInv
        <3>3. i # k /\ i > k
            BY <1>1, <3>1, <3>2
        <3> QED
            BY <3>2, <3>3
    <2>4. Promoted \in [Caller -> Answers]
        BY <2>1 DEF CallersInv, Answers
    <2> QED
        BY <1>1, <2>2, <2>3, <2>4
<1>3. CASE ~(n > Capacity)
    <2>1. Promoted = call
        BY <1>3 DEF Promoted
    <2> HIDE DEF n
    <2>2. \A i \in 1 .. n : i <= Capacity /\ i <= Capacity + 1 /\ ~(i > Capacity)
        BY <1>1, <1>3
    <2> QED
        BY <1>1, <2>1, <2>2 DEF CallersInv
<1> QED
    BY <1>2, <1>3

\* recv() takes the head of the queue and promotes a waiting caller.
LEMMA CallersReceived ==
    ASSUME QueueInv, CallersInv, queue # <<>>, Received, pc' \in Live
    PROVE  CallersInv'
<1> DEFINE n == Len(queue)
<1>1. /\ n \in Nat /\ n >= 1 /\ DOMAIN queue = 1 .. n /\ Capacity \in Nat
      /\ Capacity >= 1
      /\ \A i \in 1 .. n : queue[i].caller \in Caller
    BY QueueFacts
<1>2. call' = Promoted /\ queue' = Tail(queue)
    BY DEF Received
<1>3. /\ DOMAIN queue' = 1 .. n - 1
      /\ \A i \in 1 .. n - 1 : queue'[i] = queue[i + 1]
    <2>1. \E S : queue \in Seq(S)
        BY DEF QueueInv
    <2> QED
        BY <1>1, <1>2, <2>1
<1> HIDE DEF n
<1>4. \A i \in 1 .. n - 1 : i + 1 \in 1 .. n
    BY <1>1
<1>5. ASSUME NEW i \in 1 .. n - 1, NEW j \in 1 .. n - 1,
             queue'[i].caller = queue'[j].caller
      PROVE  i = j
    <2>1. queue[i + 1].caller = queue[j + 1].caller
        BY <1>3, <1>5
    <2>2. i + 1 \in DOMAIN queue /\ j + 1 \in DOMAIN queue
        BY <1>1, <1>4
    <2>3. i + 1 = j + 1
        BY <2>1, <2>2, Zenon DEF CallersInv
    <2> QED
        BY <1>1, <2>3
<1>6. ASSUME NEW i \in 1 .. n - 1
      PROVE  call'[queue'[i].caller] = IF i <= Capacity THEN "ok" ELSE "waiting"
    <2>1. Promoted[queue[i + 1].caller] = IF i + 1 <= Capacity + 1 THEN "ok" ELSE "waiting"
        BY <1>1, <1>4, PromotedFacts
    <2>2. i + 1 <= Capacity + 1 <=> i <= Capacity
        BY <1>1
    <2> QED
        BY <1>2, <1>3, <2>1, <2>2
<1>7. ASSUME NEW c \in Caller, call'[c] = "waiting"
      PROVE  \E i \in 1 .. n - 1 : i > Capacity /\ queue'[i].caller = c
    <2>1. PICK i \in 1 .. n : i > Capacity + 1 /\ queue[i].caller = c
        BY <1>1, <1>2, <1>7, PromotedFacts
    <2>2. i - 1 \in 1 .. n - 1 /\ i - 1 > Capacity /\ (i - 1) + 1 = i
        BY <1>1, <2>1
    <2> QED
        BY <1>3, <2>1, <2>2
<1> QED
    BY <1>2, <1>3, <1>5, <1>6, <1>7, PromotedFacts DEF CallersInv

\* When the receiver is dropped every waiting caller has its answer.
LEMMA CallersDropped ==
    ASSUME NEW f \in [Caller -> Answers], DropReceiver(f)
    PROVE  CallersInv'
<1>1. queue' = <<>> /\ call' = [c \in Caller |-> IF f[c] = "waiting" THEN "failed" ELSE f[c]]
    BY DEF DropReceiver, Failed
<1>2. call' \in [Caller -> Answers] /\ \A c \in Caller : call'[c] # "waiting"
    BY <1>1 DEF Answers
<1> QED
    BY <1>1, <1>2 DEF CallersInv

\* Every step keeps the callers and the queue in agreement.
LEMMA CallersInvStep ==
    QueueInv /\ CallersInv /\ [CommandedNext]_commandedVars => CallersInv'
<1> SUFFICES ASSUME QueueInv, CallersInv, [CommandedNext]_commandedVars
             PROVE  CallersInv'
    OBVIOUS
<1>1. Promoted \in [Caller -> Answers] /\ call \in [Caller -> Answers]
    BY PromotedFacts DEF CallersInv
<1>2. ASSUME NEW c \in Caller, NEW cmd \in Request,
             RefuseRange(c, cmd) \/ SendFails(c, cmd)
      PROVE  CallersInv'
    <2>1. PICK answer \in {"refused", "failed"} : call' = [call EXCEPT ![c] = answer]
        BY <1>2 DEF RefuseRange, SendFails
    <2>2. call[c] = "idle" /\ queue' = queue /\ pc' = pc
        BY <1>2 DEF RefuseRange, SendFails, Asks, vars
    <2>3. \A i \in DOMAIN queue : queue[i].caller # c
        BY <2>2 DEF CallersInv
    <2>4. call' \in [Caller -> Answers]
        BY <1>1, <2>1 DEF Answers
    <2>5. \A d \in Caller : d # c => call'[d] = call[d]
        BY <1>1, <2>1
    <2>6. call'[c] # "waiting"
        BY <1>1, <2>1
    <2>7. \A i \in DOMAIN queue : queue[i].caller \in Caller
        BY QueueFacts
    <2> QED
        BY <2>2, <2>3, <2>4, <2>5, <2>6, <2>7 DEF CallersInv
<1>3. CASE Ask
    BY <1>2, <1>3, CallersSend DEF Ask
<1>4. CASE HandleTerminate
    BY <1>1, <1>4, CallersDropped DEF HandleTerminate
<1>5. CASE HandlePause \/ HandleResume
    <2>1. queue # <<>> /\ Received /\ pc' = "select"
        BY <1>5 DEF HandlePause, HandleResume, Handles, Pause, AutoScan, Leave
    <2> QED
        BY <2>1, CallersReceived DEF Live
<1>6. CASE HandleScan
    <2>1. CASE Received /\ queue # <<>> /\ pc' = "select"
        BY <2>1, CallersReceived DEF Live
    <2>2. CASE DropReceiver(Promoted)
        BY <1>1, <2>2, CallersDropped
    <2> QED
        BY <1>6, <2>1, <2>2 DEF HandleScan, Handles, ScanBlock, Leave
<1>7. CASE EndsQueue
    <2>1. CASE DropReceiver(call)
        BY <1>1, <2>1, CallersDropped
    <2>2. CASE pc' \in Live /\ UNCHANGED <<queue, call>>
        BY <2>2 DEF CallersInv
    <2> QED
        BY <1>7, <2>1, <2>2 DEF EndsQueue
<1>8. CASE CommandedHarvest \/ CommandedRestart
    BY <1>1, <1>7, <1>8, CallersDropped DEF CommandedHarvest, CommandedRestart
<1>9. CASE UNCHANGED <<queue, call, pc>>
    BY <1>9 DEF CallersInv
<1>10. CASE CommandedTrouble
    BY <1>7, <1>9, <1>10
    DEF CommandedTrouble, NodeStep, ReceiverDropped, commandVars
<1>11. CASE UNCHANGED commandedVars
    BY <1>9, <1>11 DEF commandedVars, commandVars, vars
<1> QED
    BY <1>3, <1>4, <1>5, <1>6, <1>8, <1>10, <1>11 DEF CommandedNext, HandleCommand

\* A caller waits exactly while its command is queued beyond the capacity of the
\* channel, for every number of callers and every capacity.
THEOREM QueueAlwaysFits == CommandedSpec => []QueueFits
<1>1. CommandedInit => CallersInv
    BY DEF CommandedInit, CommandInit, Init, CallersInv, Answers, Live
<1>2. QueueInv /\ CallersInv => QueueFits
    <2> SUFFICES ASSUME QueueInv, CallersInv
                 PROVE  QueueFits
        OBVIOUS
    <2> DEFINE n == Len(queue)
    <2>1. /\ n \in Nat /\ DOMAIN queue = 1 .. n /\ Capacity \in Nat
          /\ \A i \in 1 .. n : queue[i].caller \in Caller
        BY QueueFacts
    <2> HIDE DEF n
    <2>2. ASSUME NEW c \in Waiting
          PROVE  \E i \in Capacity + 1 .. n : queue[i].caller = c
        <3>1. PICK i \in 1 .. n : i > Capacity /\ queue[i].caller = c
            BY <2>1 DEF Waiting, CallersInv
        <3>2. i \in Capacity + 1 .. n
            BY <2>1, <3>1
        <3> QED
            BY <3>1, <3>2
    <2>3. ASSUME NEW i \in Capacity + 1 .. n
          PROVE  queue[i].caller \in Waiting
        <3>1. i \in 1 .. n /\ ~(i <= Capacity)
            BY <2>1
        <3> QED
            BY <2>1, <3>1 DEF Waiting, CallersInv
    <2> QED
        BY <2>2, <2>3 DEF QueueFits, CallersInv, n
<1>3. CommandedInit => QueueInv
    BY DEF CommandedInit, CommandInit, QueueInv
<1> QED
    BY <1>1, <1>2, <1>3, QueueInvStep, CallersInvStep, PTL DEF CommandedSpec
-----------------------------------------------------------------------------
(***************************************************************************)
(* A scan is complete.                                                     *)
(***************************************************************************)

\* No two blocks of S have the same number.
OneOfEach(S) == \A a, b \in S : Height[a] = Height[b] => a = b

NumbersInv == OneOfEach(db.blocks) /\ OneOfEach(txn.blocks)

\* Of the branch of b, all blocks above from are in S.
Covers(b, from, S) == \A c \in Branch[b] : Height[c] > from => c \in S

InWork == {work[i] : i \in DOMAIN work}

\* Where harvest() is after a scan from the number from: what is stored of the
\* last block's branch, and on a fork, what is stored or still to be.
Scanned(from) ==
    /\ last_processed_block \in Block
    /\ pc # "first"
    /\ Covers(last_processed_block, from, db.blocks)
    /\ pc = "process" =>
           /\ Parent[block] = last_processed_block
           /\ phase \in {"block", "tx"} => work = <<block>>
           /\ db.blocks \subseteq txn.blocks
           /\ phase \in {"tx", "commit"} => block \in txn.blocks
    /\ pc = "walk" =>
           /\ Height[block] = Height[last_processed_block] + 1
           /\ \A i \in DOMAIN work : Height[work[i]] = Height[block] - (i - 1)
           /\ Branch[block] \subseteq InWork \cup Branch[CurrentBlock]
    /\ pc = "fork" =>
           /\ Covers(block, from, txn.blocks \cup InWork)
           /\ phase = "tx" => Head(work) \in txn.blocks
           /\ phase = "commit" => work = <<>>

ScanInv == \A s \in commanded : s.type = "scan" /\ pc \in Live => Scanned(s.from)

\* Every step keeps the numbers of the stored blocks apart.
LEMMA NumbersInvStep ==
    ASSUME Shape, NumbersInv, [Next]_vars
    PROVE  NumbersInv'
<1>1. CASE UNCHANGED <<db, txn>>
    BY <1>1 DEF NumbersInv
<1>2. CASE Close(db) \/ Close(txn)
    BY <1>2 DEF Close, NumbersInv
<1>3. CASE db' = db /\ txn' = db
    BY <1>3 DEF NumbersInv
<1>4. CASE ProcessorStep /\ StartBlock
    <2>1. /\ db' = db
          /\ txn'.blocks = BlockRows(Head(work)).blocks
        BY <1>4 DEF ProcessorStep, StartBlock, UpsertTransactions
    <2>2. OneOfEach(BlockRows(Head(work)).blocks)
        BY DEF BlockRows, UpsertBlock, NumbersInv, OneOfEach, Shape, ProcessorTypeOK, Stores
    <2> QED
        BY <2>1, <2>2 DEF NumbersInv
<1>5. CASE ProcessorStep /\ ProcessTx
    <2>1. db' = db /\ txn'.blocks = txn.blocks
        BY <1>5 DEF ProcessorStep, ProcessTx, SpentRows, CreateUtxos, SpendUtxos
    <2> QED
        BY <2>1 DEF NumbersInv
<1>6. CASE StartFork
    <2>1. db' = db /\ txn'.blocks \subseteq db.blocks
        BY <1>6 DEF StartFork, ProcessFork, UnspendSince, DeleteBlocksSince
    <2> QED
        BY <2>1 DEF NumbersInv, OneOfEach
<1> QED
    BY <1>1, <1>2, <1>3, <1>4, <1>5, <1>6
    DEF Next, Rescan, SteadyNext, HarvestStep, BeginHarvest, FirstBlock, HarvestDone, ScanNext,
        ScanFork, NotMinedYet, WalkBack, ForkPanics, ProcessorStep, BlockDone, Commit,
        StatementRejected, EventPanics, Process, NodeStep, RpcFails, DbFails, Drop,
        ReceiverDropped, Terminate, Pause, AutoScan, Interrupt, Restart, ScanBlock,
        ScanBlockFails, vars, processorVars

\* Where nothing is in work, only the last block and what is stored count.
LEMMA ScannedIdle ==
    ASSUME NEW from, Scanned(from), pc' \in {"select", "scan"},
           last_processed_block' = last_processed_block,
           db.blocks \subseteq db'.blocks
    PROVE  Scanned(from)'
BY DEF Scanned, Covers

\* The next block continues the last one, or the walk down a fork begins.
LEMMA ScannedScan ==
    ASSUME Shape, NEW from, Scanned(from), ScanNext \/ ScanFork
    PROVE  Scanned(from)'
<1>1. CASE ScanNext
    <2>1. PICK b \in Block :
              /\ Parent[b] = last_processed_block /\ block' = b
              /\ work' = <<b>> /\ phase' = "block" /\ txn' = db /\ db' = db
              /\ pc' = "process" /\ last_processed_block' = last_processed_block
        BY <1>1 DEF ScanNext, Process, ScannedAt, loopVars
    <2> QED
        BY <2>1 DEF Scanned
<1>2. CASE ScanFork
    <2>1. PICK b \in Block :
              /\ Height[b] = Height[last_processed_block] + 1 /\ block' = b
              /\ work' = <<>> /\ db' = db
              /\ pc' = "walk" /\ last_processed_block' = last_processed_block
        BY <1>2 DEF ScanFork, ScannedAt, NextNum, loopVars, processorVars, Shape
    <2>2. CurrentBlock' = b
        BY <2>1 DEF CurrentBlock
    <2> QED
        BY <2>1, <2>2 DEF Scanned
<1> QED
    BY <1>1, <1>2

\* The walk: the block it looks at is one below those it has collected.
LEMMA WalkFacts ==
    ASSUME Shape, NEW from, Scanned(from), pc = "walk"
    PROVE  /\ work \in Seq(Block) /\ Len(work) \in Nat /\ DOMAIN work = 1 .. Len(work)
           /\ block \in Block /\ Height[block] \in Nat
           /\ CurrentBlock \in Block
           /\ Height[CurrentBlock] = Height[block] - Len(work)
           /\ work # <<>> =>
                  /\ Last(work) \in Block
                  /\ Height[Last(work)] = Height[CurrentBlock] + 1
<1>1. /\ work \in Seq(Block) /\ Len(work) \in Nat /\ DOMAIN work = 1 .. Len(work)
      /\ block \in Block /\ Height[block] \in Nat
      /\ \A i \in 1 .. Len(work) : work[i] \in Block /\ Height[work[i]] # 0
    BY BlockFacts DEF Shape, ProcessorTypeOK
<1>2. CASE work = <<>>
    BY <1>1, <1>2 DEF CurrentBlock
<1>3. CASE work # <<>>
    <2>1. Len(work) \in 1 .. Len(work) /\ Last(work) = work[Len(work)]
        BY <1>1, <1>3 DEF Last
    <2>2. Height[work[Len(work)]] = Height[block] - (Len(work) - 1)
        BY <1>1, <2>1 DEF Scanned
    <2>3. CurrentBlock = Parent[work[Len(work)]]
        BY <1>3, <2>1 DEF CurrentBlock
    <2> QED
        BY <1>1, <1>3, <2>1, <2>2, <2>3, BlockFacts
<1> QED
    BY <1>2, <1>3

\* get_fork_blocks() takes one step down the fork.
LEMMA ScannedWalkBack ==
    ASSUME Shape, NEW from, Scanned(from), WalkBack
    PROVE  Scanned(from)'
<1> DEFINE c == CurrentBlock
<1>1. /\ pc = "walk" /\ pc' = pc /\ db' = db /\ block' = block
      /\ last_processed_block' = last_processed_block
      /\ work' = Append(work, c)
      /\ Height[c] # 0
    BY DEF WalkBack, AncestorFound, loopVars
<1>2. /\ work \in Seq(Block) /\ Len(work) \in Nat /\ DOMAIN work = 1 .. Len(work)
      /\ c \in Block /\ Height[c] = Height[block] - Len(work)
    BY <1>1, WalkFacts
<1> HIDE DEF c
<1>3. /\ DOMAIN work' = 1 .. Len(work) + 1
      /\ \A i \in 1 .. Len(work) : work'[i] = work[i]
      /\ work'[Len(work) + 1] = c
      /\ Len(work') = Len(work) + 1 /\ work' # <<>>
    BY <1>1, <1>2
<1>4. CurrentBlock' = Parent[c]
    BY <1>2, <1>3 DEF CurrentBlock, Last
<1>5. Branch[c] = {c} \cup Branch[Parent[c]]
    <2>1. Parent[c] # Null
        BY <1>1, <1>2, BlockFacts
    <2> QED
        BY <1>2, <2>1, BranchUnfold DEF BranchStep
<1>6. InWork' = InWork \cup {c}
    BY <1>2, <1>3 DEF InWork
<1>7. Branch[block] \subseteq InWork' \cup Branch[Parent[c]]
    BY <1>1, <1>5, <1>6 DEF Scanned, c
<1>8. ASSUME NEW i \in DOMAIN work'
      PROVE  Height[work'[i]] = Height[block] - (i - 1)
    <2>1. CASE i = Len(work) + 1
        BY <1>2, <1>3, <2>1
    <2>2. CASE i # Len(work) + 1
        <3>1. i \in 1 .. Len(work)
            BY <1>2, <1>3, <2>2
        <3> QED
            BY <1>1, <1>2, <1>3, <3>1 DEF Scanned
    <2> QED
        BY <2>1, <2>2
<1> QED
    BY <1>1, <1>4, <1>7, <1>8 DEF Scanned

\* The walk ends at a stored block, or so low that what is below does not count:
\* every block of the new branch is stored or to be stored.
LEMMA ForkCovers ==
    ASSUME Shape, NumbersInv, NEW from \in Nat, Scanned(from), pc = "walk",
           AncestorFound, work # <<>>
    PROVE  Covers(block, from,
                  {b \in db.blocks : Height[b] < Height[Last(work)]} \cup InWork)
<1> DEFINE c == CurrentBlock
           last == last_processed_block
<1>1. /\ c \in Block /\ Height[c] \in Nat
      /\ Height[Last(work)] = Height[c] + 1
      /\ Height[c] <= Height[last] /\ last \in Block /\ Height[last] \in Nat
    <2>1. Len(work) \in Nat /\ Len(work) # 0
        BY WalkFacts
    <2> QED
        BY <2>1, WalkFacts, BlockFacts DEF Scanned
<1>2. Covers(last, from, db.blocks) /\ Branch[block] \subseteq InWork \cup Branch[c]
    BY DEF Scanned
<1>3. Descends(c) /\ Descends(last)
    BY <1>1, BranchDescends
<1>4. c \in db.blocks \/ Height[c] = 0
    BY DEF AncestorFound, HasBlock
<1> HIDE DEF c, last
<1> SUFFICES ASSUME NEW b \in Branch[c], Height[b] > from
             PROVE  b \in db.blocks /\ Height[b] < Height[Last(work)]
    BY <1>2 DEF Covers
<1>5. b \in Block /\ Height[b] \in Nat /\ Height[b] <= Height[c]
    BY <1>3, BlockFacts DEF Descends
<1>6. Height[c] > from
    BY <1>1, <1>5
<1>7. c \in db.blocks
    BY <1>1, <1>4, <1>6
<1>8. PICK a \in Branch[last] : Height[a] = Height[c]
    <2>1. Height[c] \in 0 .. Height[last]
        BY <1>1
    <2> QED
        BY <1>3, <2>1 DEF Descends
<1>9. a = c
    BY <1>2, <1>6, <1>7, <1>8 DEF Covers, NumbersInv, OneOfEach
<1>10. b \in Branch[last]
    BY <1>3, <1>8, <1>9 DEF Descends
<1> QED
    BY <1>1, <1>2, <1>5, <1>10 DEF Covers

\* process_fork() begins.
LEMMA ScannedStartFork ==
    ASSUME Shape, NumbersInv, NEW from \in Nat, Scanned(from), StartFork
    PROVE  Scanned(from)'
<1> DEFINE n == Height[Last(work)]
<1>1. /\ pc = "walk" /\ pc' = "fork" /\ AncestorFound /\ work # <<>>
      /\ work' = work /\ phase' = "block" /\ db' = db /\ block' = block
      /\ last_processed_block' = last_processed_block
      /\ txn' = UnspendSince(DeleteBlocksSince(db, n), n)
    BY DEF StartFork, ProcessFork, loopVars
<1>2. n \in Nat /\ db.blocks \subseteq Block
    BY <1>1, WalkFacts, BlockFacts DEF Shape, ProcessorTypeOK, Stores
<1> HIDE DEF n
<1>3. txn'.blocks = {b \in db.blocks : Height[b] < n}
    BY <1>1, <1>2, BlockFacts DEF UnspendSince, DeleteBlocksSince
<1>4. Covers(block, from, {b \in db.blocks : Height[b] < n} \cup InWork)
    BY <1>1, ForkCovers DEF n
<1>5. InWork' = InWork
    BY <1>1 DEF InWork
<1>6. Covers(block', from, txn'.blocks \cup InWork')
    BY <1>1, <1>3, <1>4, <1>5
<1> QED
    BY <1>1, <1>6 DEF Scanned, Covers

\* A block, or a transaction of it, is written to the open transaction.
LEMMA ScannedProcessor ==
    ASSUME Shape, NEW from, Scanned(from), ProcessorStep
    PROVE  Scanned(from)'
<1> DEFINE b == Head(work)
<1>1. /\ pc \in {"process", "fork"} /\ pc' = pc /\ db' = db /\ block' = block
      /\ last_processed_block' = last_processed_block
      /\ work \in Seq(Block) /\ work # <<>> /\ Len(work) \in Nat
      /\ phase \in {"block", "tx"}
    BY DEF ProcessorStep, Processing, StartBlock, ProcessTx, loopVars, Shape, ProcessorTypeOK
<1>2. InWork = {b} \cup {Tail(work)[i] : i \in DOMAIN Tail(work)} /\ b \in InWork
    BY <1>1, ListedFacts DEF InWork
<1>3. CASE StartBlock
    <2>1. /\ txn'.blocks = txn.blocks \cup {b} /\ phase' = "tx" /\ work' = work
        BY <1>3, BlockRowsFacts DEF StartBlock, UpsertTransactions
    <2>2. InWork' = InWork
        BY <2>1 DEF InWork
    <2>3. CASE pc = "process"
        <3>1. b = block /\ work = <<block>>
            BY <1>1, <2>3 DEF Scanned
        <3> QED
            BY <1>1, <2>1, <2>3, <3>1 DEF Scanned, Covers
    <2>4. CASE pc = "fork"
        BY <1>1, <2>1, <2>2, <2>4 DEF Scanned, Covers
    <2> QED
        BY <1>1, <2>3, <2>4
<1>4. CASE ProcessTx
    <2>1. /\ txn'.blocks = txn.blocks /\ phase = "tx"
          /\ \/ work' = work /\ phase' = "tx"
             \/ work' = Tail(work) /\ phase' = "block" /\ Len(work) > 1
             \/ work' = Tail(work) /\ phase' = "commit" /\ Len(work) <= 1
        BY <1>1, <1>4 DEF ProcessTx, SpentRows, CreateUtxos, SpendUtxos
    <2>2. CASE pc = "process"
        <3>1. work = <<block>> /\ Len(work) = 1
            BY <1>1, <2>2 DEF Scanned
        <3> QED
            BY <1>1, <2>1, <2>2, <3>1 DEF Scanned, Covers
    <2>3. CASE pc = "fork"
        <3>1. b \in txn.blocks
            BY <2>1, <2>3 DEF Scanned
        <3>2. txn'.blocks \cup InWork' = txn.blocks \cup InWork
            BY <1>2, <2>1, <3>1 DEF InWork
        <3>3. phase' = "commit" => work' = <<>>
            BY <1>1, <2>1
        <3>4. phase' = "tx" => Head(work') \in txn'.blocks
            BY <2>1, <3>1
        <3>5. Covers(block', from, txn'.blocks \cup InWork')
            BY <1>1, <2>3, <3>2 DEF Scanned
        <3> QED
            BY <1>1, <2>3, <3>3, <3>4, <3>5 DEF Scanned, Covers
    <2> QED
        BY <1>1, <2>2, <2>3
<1> QED
    BY <1>3, <1>4 DEF ProcessorStep

\* What a commit stores of the branch of the block it ends with.
LEMMA ScannedCommit ==
    ASSUME Shape, NEW from \in Nat, Scanned(from), phase = "commit"
    PROVE  /\ block \in Block
           /\ Covers(block, from, txn.blocks)
           /\ pc = "process" => db.blocks \subseteq txn.blocks
<1>1. pc \in {"process", "fork"} /\ block \in Block
    BY DEF Shape, Processing
<1>2. CASE pc = "process"
    <2>1. /\ Parent[block] = last_processed_block /\ last_processed_block # Null
          /\ db.blocks \subseteq txn.blocks /\ block \in txn.blocks
          /\ Covers(last_processed_block, from, db.blocks)
        BY <1>2, BlockFacts DEF Scanned
    <2>2. Branch[block] = {block} \cup Branch[last_processed_block]
        BY <1>1, <2>1, BranchUnfold DEF BranchStep
    <2> QED
        BY <1>1, <2>1, <2>2 DEF Covers
<1>3. CASE pc = "fork"
    <2>1. work = <<>> /\ Covers(block, from, txn.blocks \cup InWork)
        BY <1>3 DEF Scanned
    <2>2. InWork = {}
        BY <2>1 DEF InWork
    <2> QED
        BY <1>1, <1>3, <2>1, <2>2
<1> QED
    BY <1>1, <1>2, <1>3

\* Every step of the harvester that no command causes keeps the scan complete,
\* or ends the task.
LEMMA ScannedStep ==
    ASSUME Shape, NumbersInv, NEW from \in Nat, Scanned(from),
           HarvestStep \/ RpcFails \/ DbFails \/ NodeStep \/ ReceiverDropped
    PROVE  pc' \in Live => Scanned(from)'
<1>1. pc # "first" /\ last_processed_block # Null
    BY BlockFacts DEF Scanned
<1>2. CASE BeginHarvest
    BY <1>1, <1>2, ScannedIdle DEF BeginHarvest, processorVars, loopVars
<1>3. CASE FirstBlock
    BY <1>1, <1>3 DEF FirstBlock
<1>4. CASE HarvestDone \/ NotMinedYet
    BY <1>4, ScannedIdle DEF HarvestDone, NotMinedYet, Leave, processorVars, loopVars
<1>5. CASE ScanNext \/ ScanFork
    BY <1>5, ScannedScan
<1>6. CASE WalkBack
    BY <1>6, ScannedWalkBack
<1>7. CASE StartFork
    BY <1>7, ScannedStartFork
<1>8. CASE ForkPanics \/ EventPanics
    BY <1>8 DEF ForkPanics, EventPanics, Leave, Live
<1>9. CASE ProcessorStep
    BY <1>9, ScannedProcessor
<1>10. CASE BlockDone
    <2>1. /\ phase = "commit" /\ db' = txn /\ pc' = "scan"
          /\ last_processed_block' = block
        BY <1>10 DEF BlockDone, Commit, Close
    <2>2. block \in Block /\ Covers(block, from, txn.blocks)
        BY <2>1, ScannedCommit
    <2> QED
        BY <2>1, <2>2 DEF Scanned, Covers
<1>11. CASE StatementRejected \/ RpcFails
    <2>1. /\ db' = db /\ last_processed_block' = last_processed_block
          /\ pc' \in {"select", "panicked"}
        BY <1>11 DEF StatementRejected, RpcFails, Close, Leave, AfterError, loopVars
    <2> QED
        BY <2>1, ScannedIdle DEF Live
<1>12. CASE DbFails
    <2>1. /\ last_processed_block' = last_processed_block
          /\ pc' = "panicked" \/ (pc = "process" /\ pc' = "select")
          /\ db' = db \/ (phase = "commit" /\ db' = txn)
        BY <1>1, <1>12 DEF DbFails, Drop, Close, Leave, AfterError, loopVars
    <2>2. pc = "process" => db.blocks \subseteq db'.blocks
        BY <2>1, ScannedCommit
    <2> QED
        BY <2>1, <2>2, ScannedIdle DEF Live
<1>13. CASE NodeStep \/ ReceiverDropped
    <2>1. UNCHANGED <<db, txn, phase, work, pc, last_processed_block, block>>
        BY <1>13 DEF NodeStep, ReceiverDropped, processorVars, loopVars
    <2>2. CurrentBlock' = CurrentBlock /\ InWork' = InWork
        BY <2>1 DEF CurrentBlock, InWork
    <2> QED
        BY <2>1, <2>2 DEF Scanned, Covers
<1> QED
    BY <1>2, <1>3, <1>4, <1>5, <1>6, <1>7, <1>8, <1>9, <1>10, <1>11, <1>12, <1>13
    DEF HarvestStep

\* When a scan is received, its first block is the last processed one: nothing
\* of its branch is above from yet.
LEMMA ScanBegins ==
    ASSUME NEW from, NEW to, ScanBlock(from, to)
    PROVE  Scanned(from)'
<1>1. PICK b \in Block : Height[b] = from /\ last_processed_block' = b
    BY DEF ScanBlock, ScanFrom, ScannedAt
<1>2. pc' = "select"
    BY DEF ScanBlock, Leave
<1>3. Descends(b) /\ Height[b] \in Nat
    BY BranchDescends, BlockFacts
<1>4. \A c \in Branch[b] : ~(Height[c] > from)
    BY <1>1, <1>3, BlockFacts DEF Descends
<1> QED
    BY <1>1, <1>2, <1>4 DEF Scanned, Covers

\* Every step keeps ScanInv.
LEMMA ScanInvStep ==
    ASSUME Shape, NumbersInv, QueueInv, commanded \subseteq Accepted, ScanInv,
           [CommandedNext]_commandedVars
    PROVE  ScanInv' /\ (commanded \subseteq Accepted)'
<1>1. CASE HandleCommand
    <2>1. /\ Head(queue).command \in Accepted /\ commanded' = {Head(queue).command}
        BY <1>1, HeadAccepted
        DEF HandleCommand, HandleTerminate, HandlePause, HandleResume, HandleScan, Handles
    <2>2. CASE Head(queue).command.type # "scan"
        BY <2>1, <2>2 DEF ScanInv
    <2>3. CASE Head(queue).command.type = "scan"
        <3>1. HandleScan
            BY <1>1, <2>3
            DEF HandleCommand, HandleTerminate, HandlePause, HandleResume, Handles
        <3>2. CASE ScanBlock(Head(queue).command.from, Head(queue).command.to)
            BY <2>1, <3>2, ScanBegins DEF ScanInv
        <3>3. CASE pc' = "panicked"
            BY <2>1, <3>3 DEF ScanInv, Live
        <3> QED
            BY <3>1, <3>2, <3>3 DEF HandleScan, ScanBlockFails, Leave
    <2> QED
        BY <2>1, <2>2, <2>3
<1>2. CASE CommandedHarvest \/ CommandedTrouble
    <2>1. /\ commanded' = commanded
          /\ HarvestStep \/ RpcFails \/ DbFails \/ NodeStep \/ ReceiverDropped
        BY <1>2 DEF CommandedHarvest, CommandedTrouble, EndsQueue, commandVars
    <2>2. pc \notin Live => pc' \notin Live
        BY <2>1
        DEF HarvestStep, BeginHarvest, FirstBlock, HarvestDone, ScanNext, ScanFork,
            NotMinedYet, WalkBack, StartFork, ForkPanics, ProcessorStep, BlockDone,
            StatementRejected, EventPanics, Processing, RpcFails, DbFails, NodeStep,
            ReceiverDropped, Live
    <2>3. ASSUME NEW s \in commanded, s.type = "scan", pc' \in Live
          PROVE  Scanned(s.from)'
        <3>1. s.from \in Nat
            <4>1. s.from \in Heights
                BY <2>3, ScanRange
            <4> QED
                BY <4>1, HeightType DEF Heights
        <3>2. Scanned(s.from)
            BY <2>2, <2>3 DEF ScanInv
        <3> DEFINE from == s.from
        <3> HIDE DEF from
        <3>3. from \in Nat /\ Scanned(from)
            BY <3>1, <3>2 DEF from
        <3>4. Scanned(from)'
            BY <2>1, <2>3, <3>3, ScannedStep
        <3> QED
            BY <3>4 DEF from
    <2> QED
        BY <2>1, <2>3 DEF ScanInv
<1>3. CASE CommandedRestart
    BY <1>3 DEF CommandedRestart, ScanInv
<1>4. CASE Ask \/ UNCHANGED commandedVars
    <2>1. UNCHANGED <<db, txn, phase, work, pc, last_processed_block, block, commanded>>
        BY <1>4
        DEF Ask, Asks, RefuseRange, SendFails, SendCommand, vars, processorVars, loopVars,
            commandedVars, commandVars
    <2>2. CurrentBlock' = CurrentBlock /\ InWork' = InWork
        BY <2>1 DEF CurrentBlock, InWork
    <2> QED
        BY <2>1, <2>2 DEF ScanInv, Scanned, Covers
<1> QED
    BY <1>1, <1>2, <1>3, <1>4 DEF CommandedNext

\* While a scan is the last command, all blocks above from on the branch of the
\* last processed block are stored: no fork, failed call, lost commit or stored
\* block in the way leaves a gap in the range.
THEOREM ScansAreComplete == CommandedSpec => []ScanComplete
<1>1. CommandedInit => NumbersInv /\ QueueInv /\ commanded \subseteq Accepted /\ ScanInv
    BY DEF CommandedInit, CommandInit, Init, ProcessorInit, EmptyStore, NumbersInv,
           OneOfEach, QueueInv, ScanInv
<1>2. Shape /\ NumbersInv /\ QueueInv /\ [CommandedNext]_commandedVars => NumbersInv'
    BY CommandedStep, NumbersInvStep
<1>3. Shape /\ NumbersInv /\ QueueInv /\ commanded \subseteq Accepted /\ ScanInv
          /\ [CommandedNext]_commandedVars => ScanInv' /\ (commanded \subseteq Accepted)'
    BY ScanInvStep
<1>4. ScanInv => ScanComplete
    BY DEF ScanInv, ScanComplete, Scanned, Covers
<1>5. CommandedSpec => []Shape
    BY CommandedImplements, ShapeHolds, PTL
<1> QED
    BY <1>1, <1>2, <1>3, <1>4, <1>5, QueueInvStep, PTL DEF CommandedSpec

\* Every variable of the harvester behind its queue has its type, and no range
\* with its ends reversed is queued or handled.
THEOREM CommandsTypesHold == CommandedSpec => []CommandsTypeOK
<1>1. CommandedInit => CallersInv /\ QueueInv /\ commanded \subseteq Accepted
    BY DEF CommandedInit, CommandInit, Init, CallersInv, Answers, Live, QueueInv
<1>2. QueueInv /\ commanded \subseteq Accepted /\ [CommandedNext]_commandedVars
          => (commanded \subseteq Accepted)'
    BY HeadAccepted
    DEF CommandedNext, HandleCommand, HandleTerminate, HandlePause, HandleResume,
        HandleScan, Handles, CommandedHarvest, CommandedTrouble, CommandedRestart,
        EndsQueue, Ask, Asks, RefuseRange, SendFails, SendCommand, commandedVars,
        commandVars
<1>3. TypeOK /\ CallersInv /\ QueueInv /\ commanded \subseteq Accepted => CommandsTypeOK
    <2> SUFFICES ASSUME TypeOK, CallersInv, QueueInv, commanded \subseteq Accepted
                 PROVE  CommandsTypeOK
        OBVIOUS
    <2> DEFINE S == [caller : Caller, command : Accepted]
               R == [caller : Caller, command : CommandSet]
    <2>1. S \subseteq R /\ \A e \in S : ~Reversed(e.command)
        BY DEF Accepted
    <2>2. queue \in Seq(S)
        BY DEF QueueInv
    <2> HIDE DEF S, R
    <2>3. queue \in Seq(R) /\ \A i \in DOMAIN queue : queue[i] \in S
        BY <2>1, <2>2
    <2> QED
        BY <2>1, <2>3 DEF CommandsTypeOK, CallersInv, Answers, Accepted, R
<1>4. CommandedSpec => []TypeOK
    BY CommandedImplements, TypesHold, PTL
<1> QED
    BY <1>1, <1>2, <1>3, <1>4, QueueInvStep, CallersInvStep, PTL DEF CommandedSpec
=============================================================================
