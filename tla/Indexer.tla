-------------------------------- MODULE Indexer --------------------------------
(***************************************************************************)
(* The service of bin/bis/src/mono.rs: the harvester and the aggregator as *)
(* two tasks on one database, joined by the channel of balance changes.    *)
(* The harvester owns the only sender and the aggregator the receiver, so  *)
(* each learns of the other's end through the channel alone.               *)
(***************************************************************************)
EXTENDS Harvester, Aggregator

\* The aggregator is the other end of the channel, and takes its time.
ASSUME IndexerAssumption == Buffered

indexerVars == <<vars, aggregatorVars>>

\* The harvester's variables that the aggregator does not share
harvesterOwn == <<processorVars, tip, pc, loopVars, desired_height, block, used>>

\* Every variable of both tasks has its type.
IndexerTypeOK == TypeOK /\ AggregatorTypeOK

IndexerInit == Init /\ AggregatorInit

\* Mutant of SenderGone: create_aggregator keeps a clone of the sender.
SenderKept == FALSE

\* The harvester's start() has returned or panicked: its sender is gone.
SenderGone == pc \notin Live

HarvesterSide == HarvestStep /\ UNCHANGED aggregatorVars

AggregatorSide ==
    /\ \/ AggregatorStep
       \/ SenderGone /\ ChannelClosed
    /\ UNCHANGED harvesterOwn

\* A failed call of the harvester, or a command to it
HarvesterTrouble ==
    /\ RpcFails \/ DbFails \/ Terminate \/ Pause \/ AutoScan \/ Rescan
    /\ UNCHANGED aggregatorVars

AggregatorTrouble ==
    /\ TransactionFails
    /\ Uses("receiver")
    /\ UNCHANGED <<processorVars, tip, pc, loopVars, desired_height, block>>

\* SIGTERM or SIGINT reaches both tasks, in either order: the harvester as a
\* Terminate command, the aggregator as a notification.
Signal ==
    /\ NotifyShutdown
    /\ UNCHANGED <<harvesterOwn, channel, receiving>>

\* The process is started again, after a crash or after it has stopped.
ProcessRestart == Restart /\ AggregatorRestart

ClockAndNode ==
    \/ NodeStep /\ UNCHANGED aggregatorVars
    \/ HourPasses /\ UNCHANGED <<harvesterOwn, channel, receiving>>

IndexerNext ==
    \/ HarvesterSide \/ AggregatorSide
    \/ HarvesterTrouble \/ AggregatorTrouble
    \/ Signal \/ ProcessRestart \/ ClockAndNode

IndexerSpec == IndexerInit /\ [][IndexerNext]_indexerVars

\* The runtime polls both tasks.
IndexerLiveSpec ==
    /\ IndexerSpec
    /\ WF_indexerVars(HarvesterSide)
    /\ WF_indexerVars(AggregatorSide)
-----------------------------------------------------------------------------
(***************************************************************************)
(* Properties.                                                             *)
(***************************************************************************)

\* Both tasks are between two transactions and no message is under way.
Quiet ==
    /\ phase = "idle"
    /\ receiving
    /\ apc = "recv"
    /\ channel = <<>>

UnspentOf(a) == SumOf(UnspentByOwner(db, a))

\* What a has in coinbase outputs that still cool down
CoolingOf(a) == Total(pending_events, a)

Undisturbed == \A k \in Limited : k # "rpc" => used[k] = 0

\* Until the database fails or a command interrupts it, the service keeps one
\* account: when it is quiet, what the API answers for the balance of an address,
\* with what still cools down, is what it answers for its unspent outputs
\* (README: "This process ensures that the system maintains accurate state even
\* when the blockchain undergoes reorganization").
BalancesMatchStore ==
    Undisturbed /\ Quiet =>
        \A a \in Address : balances[a] + CoolingOf(a) = UnspentOf(a)

\* The aggregator does not panic while nothing fails (README: "Retrieves all
\* events from the reorganization point", there may be none).
AggregatorSurvives == Undisturbed => apc # "panicked"

\* Graceful shutdown: once the harvester has stopped, an aggregator that has not
\* panicked handles every message left and stops, whenever it is notified (or the
\* process is started again).  Two things may keep it from that, though the README
\* says "will be notified and drain all the events in the channel" of all: a Reorg
\* for which it finds no row, and a failure before its cleanup.
ShutdownDrains ==
    pc = "stopped" /\ apc # "panicked" ~>
        \/ apc = "stopped"
        \/ pc # "stopped"
        \/ NothingToInvert
        \/ apc = "panicked" /\ shutdown # "cleanup" /\ used["receiver"] > 0
=============================================================================
