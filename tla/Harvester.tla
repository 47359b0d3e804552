------------------------------ MODULE Harvester ------------------------------
(***************************************************************************)
(* harvester/mod.rs: the task that follows the node's chain.  start() is   *)
(* one select! loop.  Its second branch sleeps and then runs harvest(),    *)
(* which awaits the node and the database many times; its first, preferred *)
(* branch receives a command, and whenever one is ready the future of the  *)
(* second is dropped wherever it awaits.  pc is where that future is:      *)
(*   select   sleeping, or about to ask for the desired height             *)
(*   first    choosing the first block since the task was started          *)
(*   scan     the while loop of harvest()                                  *)
(*   walk     get_fork_blocks()                                            *)
(*   process  block_processor.process()        } at the processor's phase  *)
(*   fork     block_processor.process_fork()   }                           *)
(*   stopped, panicked     start() returned Ok, or the task panicked       *)
(*                                                                         *)
(* The commands of lib.rs arrive when they like; which one is next is the  *)
(* caller's choice.  RPC errors, database errors, commands and restarts    *)
(* are bounded by Bound, which no property depends on.                     *)
(***************************************************************************)
EXTENDS BlockProcessor, BitcoinNode

CONSTANTS
    StartHeight,    \* start_block of the configuration, or Null
    Bound           \* how often each kind of event in Limited may happen

Limited == {"rpc", "db", "receiver", "command", "restart"}

ASSUME HarvesterAssumption ==
    /\ StartHeight \in Nat \cup {Null}
    /\ Bound \in [Limited -> Nat]

VARIABLES
    pc,
    last_processed_block,
    start_height,
    end_height,
    desired_height,
    block,          \* the block harvest() is handling
    used            \* how often each kind of event in Limited has happened

loopVars == <<last_processed_block, start_height, end_height>>
vars == <<processorVars, channel, receiving, tip, pc, loopVars,
          desired_height, block, used>>

Live == {"select", "first", "scan", "walk", "process", "fork"}

\* Every variable has its type, in particular no walk goes below the genesis
\* block, whose parent is not a block.
TypeOK ==
    /\ ProcessorTypeOK
    /\ ChannelTypeOK
    /\ NodeTypeOK
    /\ pc \in Live \cup {"stopped", "panicked"}
    /\ last_processed_block \in Block \cup {Null}
    /\ start_height \in Nat \cup {Null}
    /\ end_height \in Nat \cup {Null}
    /\ desired_height \in Nat
    /\ block \in Block \cup {Null}
    /\ used \in [Limited -> Nat]

Init ==
    /\ ProcessorInit
    /\ channel = <<>>
    /\ receiving = TRUE
    /\ tip \in Block
    /\ pc = "select"
    /\ last_processed_block = Null
    /\ start_height = StartHeight
    /\ end_height = Null
    /\ desired_height = 0
    /\ block = Null
    /\ used = [k \in Limited |-> 0]

Uses(k) ==
    /\ used[k] < Bound[k]
    /\ used' = [used EXCEPT ![k] = @ + 1]

\* The future of harvest() is gone and control is at l.
Leave(l) ==
    /\ pc' = l
    /\ desired_height' = 0
    /\ block' = Null
-----------------------------------------------------------------------------
\* The sleep is over: harvest() up to the desired height.
BeginHarvest ==
    /\ pc = "select"
    /\ desired_height' = IF end_height # Null THEN end_height ELSE TipNumber
    /\ pc' = IF last_processed_block = Null THEN "first" ELSE "scan"
    /\ UNCHANGED <<processorVars, channel, receiving, tip, loopVars, block, used>>

OrDefault(h, d) == IF h = Null THEN d ELSE h

StartNum ==
    LET configured == OrDefault(start_height, desired_height)
        stored == LatestBlockNum(db) + 1
    IN  IF db.blocks = {} \/ stored < configured THEN configured ELSE stored

\* last_processed_block is set before the block is processed.
FirstBlock ==
    /\ pc = "first"
    /\ \E b \in ScannedAt(StartNum) :
           /\ last_processed_block' = b
           /\ block' = b
           /\ Process(b)
    /\ pc' = "process"
    /\ UNCHANGED <<tip, start_height, end_height, desired_height, used>>

\* Mutant of HarvestDone: > for >=.
HarvestDoneAbove ==
    /\ pc = "scan"
    /\ Height[last_processed_block] > desired_height
    /\ Leave("select")
    /\ UNCHANGED <<processorVars, channel, receiving, tip, loopVars, used>>

\* while: the chain has been followed up to the desired height
HarvestDone ==
    /\ pc = "scan"
    /\ Height[last_processed_block] >= desired_height
    /\ Leave("select")
    /\ UNCHANGED <<processorVars, channel, receiving, tip, loopVars, used>>

\* Mutant of NextNum: the last block again.
SameNum == Height[last_processed_block]

NextNum == Height[last_processed_block] + 1

\* while: the next block continues the last one ...
ScanNext ==
    /\ pc = "scan"
    /\ NextNum <= desired_height
    /\ \E b \in ScannedAt(NextNum) :
           /\ Parent[b] = last_processed_block
           /\ block' = b
           /\ Process(b)
    /\ pc' = "process"
    /\ UNCHANGED <<tip, loopVars, desired_height, used>>

\* ... or it does not: handle_reorg() starts to collect the fork's blocks.
ScanFork ==
    /\ pc = "scan"
    /\ NextNum <= desired_height
    /\ \E b \in ScannedAt(NextNum) :
           /\ Parent[b] # last_processed_block
           /\ block' = b
    /\ pc' = "walk"
    /\ UNCHANGED <<processorVars, channel, receiving, tip, loopVars,
                   desired_height, used>>

\* The node has no block with the wanted number: harvest() returns an error
\* and the loop of start() tries again.
NotMinedYet ==
    /\ \/ pc = "first" /\ ScannedAt(StartNum) = {}
       \/ /\ pc = "scan"
          /\ NextNum <= desired_height
          /\ ScannedAt(NextNum) = {}
    /\ Leave("select")
    /\ UNCHANGED <<processorVars, channel, receiving, tip, loopVars, used>>
-----------------------------------------------------------------------------
\* get_fork_blocks: the block it looks at; work is fork_blocks_reversed.
CurrentBlock == IF work = <<>> THEN block ELSE Parent[Last(work)]

\* Mutant of AncestorFound: no end at the genesis block.
AncestorStored == HasBlock(db, CurrentBlock)

AncestorFound == Height[CurrentBlock] = 0 \/ HasBlock(db, CurrentBlock)

WalkBack ==
    /\ pc = "walk"
    /\ ~AncestorFound
    /\ work' = Append(work, CurrentBlock)
    /\ UNCHANGED <<db, txn, phase, idx, relevant, channel, receiving, tip, pc,
                   loopVars, desired_height, block, used>>

\* Mutant of StartFork: only the lowest block of the fork is stored.
StartLowest ==
    /\ pc = "walk"
    /\ AncestorFound
    /\ work # <<>>
    /\ ProcessFork(<<Last(work)>>)
    /\ pc' = "fork"
    /\ UNCHANGED <<tip, loopVars, desired_height, block, used>>

StartFork ==
    /\ pc = "walk"
    /\ AncestorFound
    /\ work # <<>>
    /\ ProcessFork(work)
    /\ pc' = "fork"
    /\ UNCHANGED <<tip, loopVars, desired_height, block, used>>

\* handle_reorg's expect() on an empty list, or send() without a receiver
ForkPanics ==
    /\ pc = "walk"
    /\ AncestorFound
    /\ work = <<>> \/ ~receiving
    /\ Leave("panicked")
    /\ Close(db)
    /\ UNCHANGED <<channel, receiving, tip, loopVars, used>>
-----------------------------------------------------------------------------
Processing == pc \in {"process", "fork"}

ProcessorStep ==
    /\ Processing
    /\ StartBlock \/ ProcessTx
    /\ UNCHANGED <<tip, pc, loopVars, desired_height, block, used>>

BlockDone ==
    /\ Processing
    /\ Commit
    /\ last_processed_block' = block
    /\ block' = Null
    /\ pc' = "scan"
    /\ UNCHANGED <<tip, start_height, end_height, desired_height, used>>

\* start() retries an error of process() but not one of process_fork().
AfterError == IF pc = "process" THEN "select" ELSE "panicked"

StatementRejected ==
    /\ Processing
    /\ Rejected
    /\ Close(db)
    /\ Leave(AfterError)
    /\ UNCHANGED <<channel, receiving, tip, loopVars, used>>

EventPanics ==
    /\ Processing
    /\ SendPanics
    /\ Close(db)
    /\ Leave("panicked")
    /\ UNCHANGED <<channel, receiving, tip, loopVars, used>>

\* The steps the runtime takes while nothing fails.
HarvestStep ==
    \/ BeginHarvest \/ FirstBlock \/ HarvestDone \/ ScanNext \/ ScanFork
    \/ NotMinedYet \/ WalkBack \/ StartFork \/ ForkPanics \/ ProcessorStep
    \/ BlockDone \/ StatementRejected \/ EventPanics
-----------------------------------------------------------------------------
(***************************************************************************)
(* Failures.                                                               *)
(***************************************************************************)

\* A call to the node fails: Error::Client, which start() retries.  The walk
\* calls the node for the parent of a block it has collected.
RpcFails ==
    /\ Uses("rpc")
    /\ \/ pc = "select" /\ end_height = Null
       \/ pc = "first"
       \/ pc = "scan" /\ NextNum <= desired_height
       \/ pc = "walk" /\ work # <<>>
    /\ Leave("select")
    /\ Close(db)
    /\ UNCHANGED <<channel, receiving, tip, loopVars>>

\* The database fails.  Outside process() that ends the task: Error::Sqlx from
\* get_latest_block_num, Error::Other from is_processed and process_fork.
DbFails ==
    /\ Uses("db")
    /\ pc \in {"first", "walk", "process", "fork"}
    /\ Drop
    /\ Leave(AfterError)
    /\ UNCHANGED <<channel, receiving, tip, loopVars>>

\* The aggregator's task ends, and with it the receiver.
ReceiverDropped ==
    /\ Uses("receiver")
    /\ receiving
    /\ receiving' = FALSE
    /\ channel' = <<>>
    /\ UNCHANGED <<processorVars, tip, pc, loopVars, desired_height, block>>

\* The process is killed, or found stopped, and started again: the tables are
\* all that is left.
Restart ==
    /\ Uses("restart")
    /\ Drop
    /\ Leave("select")
    /\ last_processed_block' = Null
    /\ start_height' = StartHeight
    /\ end_height' = Null
    /\ channel' = <<>>
    /\ receiving' = TRUE
    /\ UNCHANGED tip
-----------------------------------------------------------------------------
(***************************************************************************)
(* Commands.  Each drops the future of harvest() first.                    *)
(***************************************************************************)
Interrupt ==
    /\ Uses("command")
    /\ pc \in Live
    /\ Drop
    /\ UNCHANGED <<channel, receiving, tip>>

Terminate ==
    /\ Interrupt
    /\ Leave("stopped")
    /\ UNCHANGED loopVars

\* Mutant of PausedAt: up to the block after the last one.
PausedAfter == IF last_processed_block = Null THEN Null
               ELSE Height[last_processed_block] + 1

\* end_height becomes the last processed height, which is None before the
\* first block.
PausedAt == IF last_processed_block = Null THEN Null
            ELSE Height[last_processed_block]

Pause ==
    /\ Interrupt
    /\ Leave("select")
    /\ end_height' = PausedAt
    /\ UNCHANGED <<last_processed_block, start_height>>

AutoScan ==
    /\ Interrupt
    /\ Leave("select")
    /\ end_height' = Null
    /\ UNCHANGED <<last_processed_block, start_height>>

\* Mutant of ScanFrom: the first block of the range is taken as processed.
ScanFromNext(from) ==
    /\ last_processed_block' \in ScannedAt(from + 1)
    /\ UNCHANGED start_height

\* scan_from: from itself becomes the last processed block.
ScanFrom(from) ==
    /\ start_height' = IF /\ last_processed_block # Null
                          /\ Height[last_processed_block] < from
                       THEN from ELSE start_height
    /\ last_processed_block' \in ScannedAt(from)

ScanBlock(from, to) ==
    /\ Interrupt
    /\ ScanFrom(from)
    /\ end_height' = to
    /\ Leave("select")

\* Mutant of ScanBlockFails: scan_from waits for a block the node does not have.
ScanBlockWaits(from) ==
    /\ Interrupt
    /\ ScannedAt(from) # {} /\ used["rpc"] < Bound["rpc"]
    /\ Leave("panicked")
    /\ UNCHANGED loopVars

\* scan_from fails, for want of the block or of the node: start() returns the
\* error, whatever it is.
ScanBlockFails(from) ==
    /\ Interrupt
    /\ ScannedAt(from) = {} \/ used["rpc"] < Bound["rpc"]
    /\ Leave("panicked")
    /\ UNCHANGED loopVars

Heights == {Height[b] : b \in Block}

\* Command::ScanBlock; numbers no block has are like one that is out of range.
Rescan ==
    \/ \E from, to \in Heights : from <= to /\ ScanBlock(from, to)
    \/ \E from \in Heights : ScanBlockFails(from)
-----------------------------------------------------------------------------
(***************************************************************************)
(* SteadyNext is one run of the task: everything that may happen to it but *)
(* a restart of the process and the scan-block command, which both make it *)
(* follow the chain from somewhere else.                                   *)
(***************************************************************************)
NodeStep ==
    /\ \E b \in Block : NodeAdvance(b)
    /\ UNCHANGED <<processorVars, channel, receiving, pc, loopVars,
                   desired_height, block, used>>

SteadyNext ==
    \/ HarvestStep
    \/ NodeStep
    \/ RpcFails \/ DbFails \/ ReceiverDropped
    \/ Terminate \/ Pause \/ AutoScan

Next ==
    \/ SteadyNext
    \/ Restart
    \/ Rescan

SteadySpec == Init /\ [][SteadyNext]_vars

Spec == Init /\ [][Next]_vars
-----------------------------------------------------------------------------
(***************************************************************************)
(* Safety.                                                                 *)
(***************************************************************************)

\* The rows of btc_utxos are exactly the taproot outputs of the transactions
\* of the stored blocks.  Whatever fails, is interrupted or is restarted,
\* db_tx and the cascading deletes of process_fork leave no row behind and
\* lose none.
UtxoBacked ==
    {o \in OutPoint : db.utxos[o] # NoRow}
        = UNION {TaprootOuts(t) : t \in UNION {TxSet(b) : b \in db.blocks}}

\* A row marked spent in block n is spent by a transaction of the stored block
\* n: process_fork's unspend_utxos_spent_since_block and the rollbacks take
\* back every mark whose block they remove.
SpentIsReal ==
    \A o \in OutPoint : db.utxos[o] \in Nat =>
        \E b \in db.blocks : Height[b] = db.utxos[o] /\ o \in SpentIn(b)

\* The stored blocks are one chain: no two have the same height, and all but
\* the lowest have their parent stored.
Linked(S) ==
    /\ \A a, b \in S : Height[a] = Height[b] => a = b
    /\ \A a, b \in S : Height[a] < Height[b] => Parent[b] \in S

\* harvest() and handle_reorg() keep the stored blocks a chain, through any
\* number of forks, failed calls, lost commits, pauses and resumptions.
ChainLinked == Linked(db.blocks)

\* A spend of an output of an earlier block is never lost: when blocks are
\* stored, an output of a block that was and stays stored which they spend is
\* marked as spent (README: "Marks spent UTXOs from transaction inputs").
SpendRecorded ==
    [][\A b \in db'.blocks \ db.blocks, c \in db.blocks \cap db'.blocks :
           \A t \in TxSet(c) : \A o \in TaprootOuts(t) \cap SpentIn(b) :
               db'.utxos[o] \in Nat]_vars

\* The events still counted once every Reorg(n) behind them has inverted those
\* of blocks n and higher.
Counted == {i \in DOMAIN channel :
    /\ channel[i].type = "event"
    /\ \A j \in i..Len(channel) :
           channel[j].type = "reorg" => channel[i].block < channel[j].block}

\* harvest() has come as far as it was to go, and every block on the way there
\* is stored: whatever failed was tried again, with success.
CaughtUp ==
    /\ pc = "scan"
    /\ Height[last_processed_block] >= desired_height
    /\ \A b \in Branch[last_processed_block] :
           Height[b] >= OrDefault(StartHeight, 0) => b \in db.blocks

\* Errors of process() are "safe to retry" (mod.rs): once the blocks that failed
\* have been processed, what the aggregator is told agrees with the tables; an
\* address owns in unspent rows what its events, less the inverted ones, add up
\* to.
EventsMatchStore ==
    CaughtUp => \A a \in Address :
        SumOf(UnspentByOwner(db, a))
          = SumFunctionOnSet([i \in Counted |-> channel[i].amount],
                             {i \in Counted : channel[i].addr = a})

NotSteered == used["command"] = 0 /\ used["restart"] = 0

\* No block is retried around: the block the loop continues from is stored,
\* while only calls to the node fail.
RetryKeepsBlocks ==
    pc = "scan" /\ NotSteered /\ used["db"] = 0 =>
        last_processed_block \in db.blocks

\* The rows left unspent are the outputs no stored block spends.
UtxoExact ==
    \A o \in OutPoint : db.utxos[o] = Null =>
        \A b \in db.blocks : o \notin SpentIn(b)

\* handle_reorg finds fork blocks: "blocks should exist. qed" (while no commit's
\* reply is lost, to a failure or to a command).
ForkNotEmpty ==
    pc = "walk" /\ AncestorFound /\ NotSteered /\ used["db"] = 0 =>
        work # <<>>

\* What GET raw/block/latest answers never decreases while the process runs:
\* a fork is only stored once it is as high as what it replaces.
LatestNeverDrops ==
    [][db.blocks # {} =>
           db'.blocks # {} /\ LatestBlockNum(db') >= LatestBlockNum(db)]_vars

\* The stored blocks keep the promise of IndexedChain: through forks, failures,
\* lost commits, pauses and resumptions they only grow at the head, or have a
\* suffix replaced by a branch that is at least as high, in one transaction.
Chain == INSTANCE IndexedChain WITH stored <- db.blocks
ChainSpec == Chain!Spec
-----------------------------------------------------------------------------
(***************************************************************************)
(* Liveness, under the fairness of Commands, when only calls to the node   *)
(* fail.                                                                   *)
(***************************************************************************)

\* Rows are in the way of the next block: its number is taken, or an output of
\* one of its transactions is.  The database rejects it each time it is tried.
Obstructed ==
    \E b \in ScannedAt(NextNum) :
        \/ \E c \in db.blocks : Height[c] = NextNum
        \/ \E t \in TxSet(b) : ~UtxoKeysFree(db, TaprootOuts(t))

\* When the node's tip has come to rest, not below start_block, and the task is
\* neither ended nor paused, it has followed the chain to the tip and stays
\* there: the tip is the last processed block, and without a command or a restart
\* it is stored.  After a restart it may be waiting for a number above the stored
\* ones; and an interrupted commit, or a scan of a stored range, can leave rows
\* that are in its way.
CatchesUp ==
    <>[](TipNumber >= OrDefault(StartHeight, 0) /\ pc \in Live /\ end_height = Null =>
             \/ last_processed_block = tip
                /\ (NotSteered => tip \in db.blocks)
             \/ used["restart"] > 0 /\ last_processed_block = Null
                /\ StartNum > TipNumber
             \/ ~NotSteered /\ last_processed_block # Null /\ Obstructed)
=============================================================================
