---------------------------- MODULE ProgressProofs ----------------------------
(***************************************************************************)
(* What the chain of ChainInv means for a run of the harvester: the latest *)
(* stored number never drops; while only the node fails, handle_reorg      *)
(* never finds an empty fork and no block is retried around; and the       *)
(* stored blocks keep the promise of IndexedChain.                         *)
(***************************************************************************)
EXTENDS ChainProofs
-----------------------------------------------------------------------------
(***************************************************************************)
(* The latest number.                                                      *)
(***************************************************************************)

\* When the stored blocks follow the last processed one, there is a latest.
LEMMA LatestExists ==
    ASSUME NEW s \in Stores, NEW last \in Block \cup {Null},
           s.blocks # {}, Follows(last, s.blocks)
    PROVE  /\ \A b \in s.blocks : Height[b] <= LatestBlockNum(s)
           /\ LatestBlockNum(s) \in {Height[b] : b \in s.blocks}
<1> DEFINE S == s.blocks
<1>1. /\ S \subseteq Block /\ last \in Block
      /\ \A b \in S : Height[b] \in Nat /\ Height[b] <= Height[last] + 1
      /\ last \in S \/ \E b \in S : Height[b] = Height[last] + 1
      /\ Height[last] \in Nat
    BY BlockFacts DEF Stores, Follows
<1>2. \E n \in {Height[b] : b \in S} : \A b \in S : Height[b] <= n
    <2>1. CASE \E b \in S : Height[b] = Height[last] + 1
        BY <1>1, <2>1
    <2>2. CASE ~ \E b \in S : Height[b] = Height[last] + 1
        <3>1. \A b \in S : Height[b] <= Height[last]
            BY <1>1, <2>2
        <3> QED
            BY <1>1, <2>2, <3>1
    <2> QED
        BY <2>1, <2>2
<1> QED
    BY <1>2 DEF LatestBlockNum

\* What a transaction is about to commit reaches as high as what is stored.
LEMMA CommitReaches ==
    ASSUME Shape, ChainInv, phase = "commit", db.blocks # {}
    PROVE  /\ \A b \in db.blocks : Height[b] <= Height[block]
           /\ block \in txn.blocks
           /\ Height[block] = Height[last_processed_block] + 1
<1>1. pc \in {"process", "fork"} /\ last_processed_block \in Block
    BY DEF Shape, Processing
<1>2. \A b \in db.blocks : Height[b] <= Height[last_processed_block] + 1
    BY <1>1, BlockFacts DEF ChainInv, Follows
<1>3. CASE pc = "process"
    BY <1>2, <1>3 DEF ChainInv, Processed
<1>4. CASE pc = "fork"
    <2>1. work = <<>> /\ {work[i] : i \in DOMAIN work} = {}
        BY <1>4 DEF ChainInv, Forked
    <2> QED
        BY <1>2, <1>4, <2>1 DEF ChainInv, Forked
<1> QED
    BY <1>1, <1>3, <1>4

\* A commit does not lower the latest number.
LEMMA CommitRaisesLatest ==
    ASSUME Shape, ChainInv, phase = "commit", db.blocks # {}
    PROVE  txn.blocks # {} /\ LatestBlockNum(txn) >= LatestBlockNum(db)
<1>1. /\ db \in Stores /\ txn \in Stores
      /\ last_processed_block \in Block \cup {Null} /\ block \in Block \cup {Null}
      /\ Follows(last_processed_block, db.blocks)
      /\ Follows(block, txn.blocks)
    BY CommitStoresChain DEF Shape, ProcessorTypeOK, ChainInv
<1>2. /\ \A b \in db.blocks : Height[b] <= Height[block]
      /\ block \in txn.blocks
    BY CommitReaches
<1>3. PICK b \in db.blocks : LatestBlockNum(db) = Height[b]
    BY <1>1, LatestExists
<1>4. PICK c \in txn.blocks : LatestBlockNum(txn) = Height[c] /\ Height[block] <= Height[c]
    BY <1>1, <1>2, LatestExists
<1>5. Height[b] \in Nat /\ Height[c] \in Nat /\ Height[block] \in Nat
    BY <1>1, <1>2, BlockFacts DEF Stores
<1> QED
    BY <1>2, <1>3, <1>4, <1>5

\* The answer of GET raw/block/latest never decreases while the process runs,
\* through any number of forks, lost replies, pauses and resumptions.
THEOREM LatestOnlyGrows == SteadySpec => LatestNeverDrops
<1>1. ASSUME Shape, ChainInv, [SteadyNext]_vars, db.blocks # {}
      PROVE  db'.blocks # {} /\ LatestBlockNum(db') >= LatestBlockNum(db)
    <2>1. CASE phase = "commit" /\ db' = txn
        BY <1>1, <2>1, CommitRaisesLatest
    <2>2. CASE db' = db
        <3>1. PICK b \in db.blocks : LatestBlockNum(db) = Height[b]
            BY <1>1, LatestExists DEF Shape, ProcessorTypeOK, ChainInv
        <3>2. LatestBlockNum(db) \in Nat
            BY <1>1, <3>1, BlockFacts DEF Shape, ProcessorTypeOK, Stores
        <3> QED
            BY <1>1, <2>2, <3>2
    <2> QED
        BY <1>1, <2>1, <2>2, StoreChanges DEF Next
<1>2. Shape /\ ChainInv /\ [SteadyNext]_vars =>
          [db.blocks # {} =>
               db'.blocks # {} /\ LatestBlockNum(db') >= LatestBlockNum(db)]_vars
    BY <1>1
<1>3. ChainInv /\ Shape /\ [SteadyNext]_vars => ChainInv'
    BY ChainInvStep
<1> QED
    BY <1>2, <1>3, ChainInvInit, SteadyShape, PTL DEF SteadySpec, LatestNeverDrops
-----------------------------------------------------------------------------
(***************************************************************************)
(* The fork found is never empty.                                          *)
(***************************************************************************)

\* While no reply of a commit is lost, nothing is stored above the last block.
NoneAbove ==
    NotSteered /\ used["db"] = 0 /\ last_processed_block # Null =>
        \A b \in db.blocks : Height[b] <= Height[last_processed_block]

\* Every step keeps the stored blocks at or below the last one.
LEMMA NoneAboveStep ==
    Shape /\ ChainInv /\ NoneAbove /\ [SteadyNext]_vars => NoneAbove'
<1> SUFFICES ASSUME Shape, ChainInv, NoneAbove, [SteadyNext]_vars,
                    NotSteered', used'["db"] = 0, last_processed_block' # Null,
                    NEW b \in db'.blocks
             PROVE  Height[b] <= Height[last_processed_block']
    BY DEF NoneAbove
<1>1. used \in [Limited -> Nat] /\ db.blocks \subseteq Block
    BY DEF Shape, ProcessorTypeOK, Stores
<1>2. CASE FirstBlock
    <2>1. db.blocks = {} /\ db' = db
        BY <1>2 DEF ChainInv, Follows, FirstBlock, Process
    <2> QED
        BY <2>1
<1>3. CASE BlockDone
    <2>1. phase = "commit" /\ db' = txn /\ last_processed_block' = block
        BY <1>3 DEF BlockDone, Commit, Close
    <2>2. UNCHANGED used
        BY <1>3 DEF BlockDone
    <2>3. pc \in {"process", "fork"} /\ last_processed_block \in Block /\ block \in Block
        BY <2>1 DEF Shape, Processing
    <2>4. CASE pc = "process" /\ db.blocks = {}
        <3>1. b = block
            BY <2>1, <2>4 DEF ChainInv, Processed
        <3> QED
            BY <2>1, <2>3, <3>1, BlockFacts
    <2>5. CASE pc = "process" /\ db.blocks # {}
        <3>1. b = block \/ b \in db.blocks
            BY <2>1, <2>5 DEF ChainInv, Processed
        <3>2. \A c \in db.blocks : Height[c] <= Height[block]
            BY <2>1, <2>5, CommitReaches
        <3> QED
            BY <2>1, <2>3, <3>1, <3>2, BlockFacts
    <2>6. CASE pc = "fork"
        <3>1. work = <<>> /\ {work[i] : i \in DOMAIN work} = {}
            BY <2>1, <2>6 DEF ChainInv, Forked
        <3> QED
            BY <2>1, <2>6, <3>1 DEF ChainInv, Forked
    <2> QED
        BY <2>3, <2>4, <2>5, <2>6
<1>4. CASE UNCHANGED <<db, used, last_processed_block>>
    BY <1>4 DEF NoneAbove, NotSteered
<1>5. CASE HarvestStep /\ ~FirstBlock /\ ~BlockDone
    <2>1. UNCHANGED <<db, used, last_processed_block>>
        BY <1>5
        DEF HarvestStep, BeginHarvest, HarvestDone, ScanNext, ScanFork, NotMinedYet,
            WalkBack, StartFork, ForkPanics, ProcessorStep, StatementRejected,
            EventPanics, Process, ProcessFork, StartBlock, ProcessTx, Close,
            loopVars, processorVars
    <2> QED
        BY <1>4, <2>1
<1>6. CASE NodeStep
    BY <1>4, <1>6 DEF NodeStep, processorVars, loopVars
<1>7. CASE RpcFails
    <2>1. UNCHANGED <<db, last_processed_block>> /\ used["db"] = 0 /\ NotSteered
        BY <1>1, <1>7 DEF RpcFails, Close, loopVars, Uses, NotSteered
    <2> QED
        BY <2>1 DEF NoneAbove
<1>8. CASE ReceiverDropped
    <2>1. UNCHANGED <<db, last_processed_block>> /\ used["db"] = 0 /\ NotSteered
        BY <1>1, <1>8 DEF ReceiverDropped, processorVars, loopVars, Uses, NotSteered
    <2> QED
        BY <2>1 DEF NoneAbove
<1>9. CASE DbFails
    <2>1. used' = [used EXCEPT !["db"] = @ + 1] /\ used["db"] \in Nat
        BY <1>1, <1>9 DEF DbFails, Uses, Limited
    <2> QED
        BY <1>1, <2>1 DEF Limited
<1>10. CASE Terminate \/ Pause \/ AutoScan
    <2>1. used' = [used EXCEPT !["command"] = @ + 1] /\ used["command"] \in Nat
        BY <1>1, <1>10 DEF Terminate, Pause, AutoScan, Interrupt, Uses, Limited
    <2> QED
        BY <1>1, <2>1 DEF Limited, NotSteered
<1>11. CASE UNCHANGED vars
    BY <1>4, <1>11 DEF vars, processorVars, loopVars
<1> QED
    BY <1>2, <1>3, <1>5, <1>6, <1>7, <1>8, <1>9, <1>10, <1>11 DEF SteadyNext

\* handle_reorg's expect("blocks should exist. qed") holds as long as no reply
\* of a commit is lost, to a failure of the database or to a command.
THEOREM ForkHasBlocks == SteadySpec => []ForkNotEmpty
<1>1. Init => NoneAbove
    BY DEF Init, NoneAbove
<1>2. Shape /\ ChainInv /\ NoneAbove => ForkNotEmpty
    <2> SUFFICES ASSUME Shape, ChainInv, NoneAbove, pc = "walk", AncestorFound,
                        NotSteered, used["db"] = 0, work = <<>>
                 PROVE  FALSE
        BY DEF ForkNotEmpty
    <2>1. /\ CurrentBlock = block /\ last_processed_block \in Block
          /\ Height[block] = Height[last_processed_block] + 1
        BY DEF CurrentBlock, Shape, ChainInv, Walked
    <2>2. Height[block] # 0 /\ ~(Height[block] <= Height[last_processed_block])
        BY <2>1, BlockFacts
    <2> QED
        BY <2>1, <2>2, BlockFacts DEF AncestorFound, HasBlock, NoneAbove
<1>3. ChainInv /\ Shape /\ [SteadyNext]_vars => ChainInv'
    BY ChainInvStep
<1> QED
    BY <1>1, <1>2, <1>3, ChainInvInit, NoneAboveStep, SteadyShape, PTL DEF SteadySpec
-----------------------------------------------------------------------------
(***************************************************************************)
(* The block the loop continues from is stored.                            *)
(***************************************************************************)

\* While the first block of empty tables is written, they have the outputs of
\* its transactions so far and nothing else.
FirstRows ==
    pc = "process" /\ db.blocks = {} /\ phase = "tx" =>
        \A o \in OutPoint : txn.utxos[o] # NoRow =>
            \E i \in 1 .. idx - 1 : o[1] = Txs[block][i]

\* Empty tables have no rows of outputs.
LEMMA NoRows ==
    ASSUME NEW s \in Stores, Consistent(s, {}), s.blocks = {}, NEW o \in OutPoint
    PROVE  s.utxos[o] = NoRow
<1>1. s.txs[o[1]] = NoRow
    BY OutPointFields DEF Consistent
<1> QED
    BY <1>1 DEF Consistent

\* Every step keeps FirstRows.
LEMMA FirstRowsStep ==
    Shape /\ StoreInv /\ ChainInv /\ FirstRows /\ [SteadyNext]_vars => FirstRows'
<1> SUFFICES ASSUME Shape, StoreInv, ChainInv, FirstRows, [SteadyNext]_vars,
                    pc' = "process", db'.blocks = {}, phase' = "tx",
                    NEW o \in OutPoint, txn'.utxos[o] # NoRow
             PROVE  \E i \in 1 .. idx' - 1 : o[1] = Txs[block'][i]
    BY DEF FirstRows
<1>1. CASE ProcessorStep
    <2>1. /\ pc = "process" /\ db' = db /\ block' = block /\ db.blocks = {}
          /\ work = <<block>> /\ Head(work) = block /\ block \in Block
          /\ txn \in Stores
        <3>1. pc = "process" /\ db' = db /\ block' = block /\ phase \in {"block", "tx"}
            BY <1>1 DEF ProcessorStep, StartBlock, ProcessTx
        <3>2. work = <<block>>
            BY <3>1 DEF ChainInv, Processed
        <3> QED
            BY <3>1, <3>2 DEF Shape, ProcessorTypeOK
    <2>2. CASE StartBlock
        <3>1. /\ phase = "block" /\ txn.blocks = {}
              /\ txn' = UpsertTransactions(UpsertBlock(txn, block), block)
            BY <2>1, <2>2 DEF StartBlock, BlockRows, ChainInv, Processed
        <3>2. Consistent(txn, {})
            BY <3>1 DEF StoreInv, Unprocessed
        <3>3. txn'.utxos = txn.utxos
            BY <2>1, <3>1 DEF UpsertTransactions, UpsertBlock, Stores
        <3> QED
            BY <2>1, <3>1, <3>2, <3>3, NoRows
    <2>3. CASE ProcessTx
        <3>1. /\ phase = "tx" /\ idx \in 1 .. Len(Txs[block]) /\ idx' = idx + 1
              /\ Len(Txs[block]) \in Nat
              /\ CurrentTx = Txs[block][idx]
              /\ txn' = CreateUtxos(SpendUtxos(txn, Spends, Height[block]),
                                    TaprootOuts(CurrentTx))
              /\ Spends \subseteq relevant /\ relevant \subseteq OutPoint
            BY <2>1, <2>3, TxsNonEmpty
            DEF ProcessTx, Shape, ProcessorTypeOK, SpentRows, CurrentTx, Spends
        <3>2. CASE o \in TaprootOuts(CurrentTx)
            <4>1. o[1] = Txs[block][idx] /\ idx \in 1 .. idx' - 1
                BY <3>1, <3>2 DEF TaprootOuts
            <4> QED
                BY <2>1, <4>1
        <3>3. CASE o \notin TaprootOuts(CurrentTx)
            <4>1. Height[block] \in Nat
                BY <2>1, BlockFacts
            <4>2. SpendUtxos(txn, Spends, Height[block]) \in Stores
                BY <2>1, <3>1, <4>1, SpendUtxosType
            <4>3. o \in Spends \/ txn.utxos[o] # NoRow
                BY <2>1, <3>1, <3>3, <4>2 DEF CreateUtxos, SpendUtxos, Stores
            <4>4. txn.utxos[o] # NoRow
                BY <3>1, <4>3 DEF StoreInv
            <4>5. PICK i \in 1 .. idx - 1 : o[1] = Txs[block][i]
                BY <2>1, <3>1, <4>4 DEF FirstRows
            <4>6. i \in 1 .. idx' - 1
                BY <3>1
            <4> QED
                BY <2>1, <4>5, <4>6
        <3> QED
            BY <3>2, <3>3
    <2> QED
        BY <1>1, <2>2, <2>3 DEF ProcessorStep
<1>2. CASE NodeStep \/ ReceiverDropped \/ UNCHANGED vars
    <2>1. UNCHANGED <<pc, db, txn, phase, idx, block>>
        BY <1>2 DEF NodeStep, ReceiverDropped, vars, processorVars
    <2> QED
        BY <2>1 DEF FirstRows
<1>3. ProcessorStep \/ NodeStep \/ ReceiverDropped \/ UNCHANGED vars
    <2>1. ASSUME HarvestStep
          PROVE  ProcessorStep
        BY <2>1
        DEF HarvestStep, BeginHarvest, FirstBlock, HarvestDone, ScanNext, ScanFork,
            NotMinedYet, WalkBack, StartFork, ForkPanics, BlockDone, StatementRejected,
            EventPanics, Leave, AfterError, Process
    <2>2. ~(RpcFails \/ DbFails \/ Terminate \/ Pause \/ AutoScan)
        BY DEF RpcFails, DbFails, Terminate, Pause, AutoScan, Leave, AfterError
    <2> QED
        BY <2>1, <2>2 DEF SteadyNext
<1> QED
    BY <1>1, <1>2, <1>3

\* No statement for the first block of empty tables is rejected.
LEMMA FirstAccepted ==
    ASSUME Shape, StoreInv, ChainInv, FirstRows, pc = "process", db.blocks = {}
    PROVE  ~Rejected
<1>1. block \in Block /\ txn \in Stores
    BY DEF Shape, ProcessorTypeOK
<1>2. ASSUME phase = "block"
      PROVE  BlockKeyHolds(BlockRows(Head(work)), Head(work))
    <2>1. work = <<block>> /\ Head(work) = block /\ txn.blocks = {}
        BY <1>2 DEF ChainInv, Processed
    <2> QED
        BY <1>1, <2>1 DEF BlockKeyHolds, BlockRows, UpsertBlock, Stores
<1>3. ASSUME phase = "tx"
      PROVE  UtxoKeysFree(SpentRows, TaprootOuts(CurrentTx))
    <2>1. work = <<block>> /\ Head(work) = block
        BY <1>3 DEF ChainInv, Processed
    <2>2. /\ idx \in 1 .. Len(Txs[block]) /\ CurrentTx = Txs[block][idx]
          /\ Len(Txs[block]) \in Nat /\ DOMAIN Txs[block] = 1 .. Len(Txs[block])
          /\ SpentRows = SpendUtxos(txn, Spends, Height[block])
          /\ Spends \subseteq relevant
        BY <1>1, <1>3, <2>1, TxsNonEmpty DEF Shape, CurrentTx, SpentRows, Spends
    <2>3. ASSUME NEW o \in TaprootOuts(CurrentTx)
          PROVE  SpentRows.utxos[o] = NoRow
        <3>1. o \in OutPoint /\ o[1] = Txs[block][idx]
            BY <2>2 DEF TaprootOuts
        <3>2. txn.utxos[o] = NoRow
            <4>1. ASSUME NEW i \in 1 .. idx - 1
                  PROVE  o[1] # Txs[block][i]
                <5>1. i \in DOMAIN Txs[block] /\ idx \in DOMAIN Txs[block] /\ i # idx
                    BY <2>2
                <5> QED
                    BY <1>1, <3>1, <5>1, TxAssumption
            <4> QED
                BY <1>3, <3>1, <4>1 DEF FirstRows
        <3>3. o \notin Spends
            BY <1>3, <2>2, <3>2 DEF StoreInv
        <3> QED
            BY <1>1, <2>2, <3>1, <3>2, <3>3 DEF SpendUtxos, Stores
    <2> QED
        BY <2>3 DEF UtxoKeysFree
<1> QED
    BY <1>2, <1>3 DEF Rejected

\* While only the node fails, the last block is stored, or is being stored as
\* the first.
LastStored ==
    NotSteered /\ used["db"] = 0 /\ pc \in Live /\ last_processed_block # Null =>
        \/ last_processed_block \in db.blocks
        \/ pc = "process" /\ db.blocks = {}

\* Every step keeps LastStored.
LEMMA LastStoredStep ==
    Shape /\ StoreInv /\ ChainInv /\ FirstRows /\ LastStored /\ [SteadyNext]_vars
        => LastStored'
<1> SUFFICES ASSUME Shape, StoreInv, ChainInv, FirstRows, LastStored, [SteadyNext]_vars,
                    NotSteered', used'["db"] = 0, pc' \in Live,
                    last_processed_block' # Null
             PROVE  \/ last_processed_block' \in db'.blocks
                    \/ pc' = "process" /\ db'.blocks = {}
    BY DEF LastStored
<1>1. used \in [Limited -> Nat]
    BY DEF Shape
<1>2. CASE FirstBlock
    BY <1>2 DEF FirstBlock, Process, ChainInv, Follows
<1>3. CASE BlockDone
    <2>1. phase = "commit" /\ db' = txn /\ last_processed_block' = block
        BY <1>3 DEF BlockDone, Commit, Close
    <2>2. pc \in {"process", "fork"}
        BY <2>1 DEF Shape, Processing
    <2>3. CASE pc = "process"
        BY <2>1, <2>3 DEF ChainInv, Processed
    <2>4. CASE pc = "fork"
        <3>1. work = <<>> /\ {work[i] : i \in DOMAIN work} = {}
            BY <2>1, <2>4 DEF ChainInv, Forked
        <3> QED
            BY <2>1, <2>4, <3>1 DEF ChainInv, Forked
    <2> QED
        BY <2>2, <2>3, <2>4
<1>4. CASE StatementRejected
    <2>1. /\ UNCHANGED <<db, used, last_processed_block>> /\ Processing /\ Rejected
          /\ pc' = "select" \/ pc' = "panicked"
        BY <1>4 DEF StatementRejected, Close, Leave, AfterError, loopVars
    <2>2. ~(pc = "process" /\ db.blocks = {})
        BY <2>1, FirstAccepted
    <2> QED
        BY <2>1, <2>2 DEF LastStored, Processing, Live, NotSteered
<1>5. CASE ForkPanics \/ EventPanics
    BY <1>5 DEF ForkPanics, EventPanics, Leave, Live
<1>6. CASE BeginHarvest \/ HarvestDone \/ ScanNext \/ ScanFork \/ NotMinedYet \/ WalkBack
           \/ StartFork \/ ProcessorStep \/ NodeStep \/ UNCHANGED vars
    <2>1. UNCHANGED <<db, used, last_processed_block>>
        BY <1>6
        DEF BeginHarvest, HarvestDone, ScanNext, ScanFork, NotMinedYet, WalkBack,
            StartFork, ProcessorStep, NodeStep, vars, Process, ProcessFork, StartBlock,
            ProcessTx, loopVars, processorVars
    <2>2. pc \in Live /\ (pc = "process" => pc' = "process")
        BY <1>6
        DEF BeginHarvest, HarvestDone, ScanNext, ScanFork, NotMinedYet, WalkBack,
            StartFork, ProcessorStep, Processing, NodeStep, vars, Live
    <2> QED
        BY <2>1, <2>2 DEF LastStored, NotSteered
<1>7. CASE RpcFails
    <2>1. /\ UNCHANGED <<db, last_processed_block>> /\ pc \in Live /\ pc # "process"
          /\ used' = [used EXCEPT !["rpc"] = @ + 1]
        BY <1>7 DEF RpcFails, Close, loopVars, Uses, Live
    <2>2. used["db"] = 0 /\ NotSteered
        BY <1>1, <2>1 DEF NotSteered, Limited
    <2> QED
        BY <2>1, <2>2 DEF LastStored
<1>8. CASE ReceiverDropped
    <2>1. /\ UNCHANGED <<db, last_processed_block, pc>>
          /\ used' = [used EXCEPT !["receiver"] = @ + 1]
        BY <1>8 DEF ReceiverDropped, processorVars, loopVars, Uses
    <2>2. used["db"] = 0 /\ NotSteered
        BY <1>1, <2>1 DEF NotSteered, Limited
    <2> QED
        BY <2>1, <2>2 DEF LastStored
<1>9. CASE DbFails
    <2>1. used' = [used EXCEPT !["db"] = @ + 1] /\ used["db"] \in Nat
        BY <1>1, <1>9 DEF DbFails, Uses, Limited
    <2> QED
        BY <1>1, <2>1 DEF Limited
<1>10. CASE Terminate \/ Pause \/ AutoScan
    <2>1. used' = [used EXCEPT !["command"] = @ + 1] /\ used["command"] \in Nat
        BY <1>1, <1>10 DEF Terminate, Pause, AutoScan, Interrupt, Uses, Limited
    <2> QED
        BY <1>1, <2>1 DEF Limited, NotSteered
<1> QED
    BY <1>2, <1>3, <1>4, <1>5, <1>6, <1>7, <1>8, <1>9, <1>10 DEF SteadyNext, HarvestStep

\* No block is retried around: while only calls to the node fail, the loop goes
\* on from a stored block.  (last_processed_block is set before the first block is
\* processed; nothing of it can be rejected.)
THEOREM RetriesKeepBlocks == SteadySpec => []RetryKeepsBlocks
<1>1. Init => FirstRows /\ LastStored
    BY DEF Init, FirstRows, LastStored
<1>2. Shape /\ LastStored => RetryKeepsBlocks
    BY BlockFacts DEF LastStored, RetryKeepsBlocks, Shape, Live
<1>3. ChainInv /\ Shape /\ [SteadyNext]_vars => ChainInv'
    BY ChainInvStep
<1>4. Shape /\ StoreInv /\ [SteadyNext]_vars => StoreInv'
    BY StoreInvStep DEF Next
<1> QED
    BY <1>1, <1>2, <1>3, <1>4, ChainInvInit, StoreInvInit, FirstRowsStep, LastStoredStep,
       SteadyShape, PTL
    DEF SteadySpec
-----------------------------------------------------------------------------
(***************************************************************************)
(* A run of the harvester implements IndexedChain: each step either leaves *)
(* the stored blocks alone, extends them at the head, or is the commit of  *)
(* a fork.  The invariant ForkInv says what that commit will replace.      *)
(***************************************************************************)
\* What is stored in process_fork()'s transaction once all its blocks are.
ForkChain == txn.blocks \cup {work[i] : i \in DOMAIN work}

\* Below number n the fork's chain is what is stored; from n up to its head it
\* has a block of every number.
Replaces(n) ==
    /\ \A b \in db.blocks : Height[b] < n => b \in ForkChain
    /\ \A b \in ForkChain : Height[b] < n => b \in db.blocks
    /\ \A m \in n .. Height[block] : \E b \in ForkChain : Height[b] = m

ForkInv == pc = "fork" => \E n \in 0 .. Height[block] : Replaces(n)

\* The walk and the delete of process_fork() establish ForkInv.
LEMMA ForkInvStartFork ==
    ASSUME Shape, ChainInv, StartFork
    PROVE  ForkInv'
<1> DEFINE l == Len(work)
<1>1. /\ pc = "walk" /\ work # <<>> /\ work \in Seq(Block)
      /\ work' = work /\ db' = db /\ block' = block
      /\ db.blocks \subseteq Block
    BY DEF StartFork, ProcessFork, Shape, ProcessorTypeOK, Stores
<1>2. /\ l \in Nat /\ l >= 1 /\ DOMAIN work = 1 .. l
      /\ Last(work) = work[l] /\ Last(work) \in Block
      /\ block \in Block /\ Height[block] \in Nat
      /\ \A b \in db.blocks : Height[b] \in Nat
    BY <1>1, BlockFacts DEF Last, Shape
<1>3. \A i \in 1 .. l : Height[work[i]] = Height[block] - (i - 1)
    BY <1>1, <1>2 DEF ChainInv, Walked
<1>4. PICK n \in Nat : n = Height[Last(work)]
    BY <1>2, BlockFacts
<1>5. /\ n = Height[block] - (l - 1)
      /\ txn'.blocks = {b \in db.blocks : Height[b] < n}
    <2>1. Height[work[l]] = Height[block] - (l - 1)
        BY <1>2, <1>3
    <2>2. txn' = UnspendSince(DeleteBlocksSince(db, n), n)
        BY <1>4 DEF StartFork, ProcessFork
    <2> QED
        BY <1>1, <1>2, <1>4, <2>1, <2>2 DEF UnspendSince, DeleteBlocksSince
<1> HIDE DEF l
<1>6. ForkChain' = {b \in db.blocks : Height[b] < n} \cup {work[i] : i \in 1 .. l}
    BY <1>1, <1>2, <1>5 DEF ForkChain
<1>7. \A b \in ForkChain' : Height[b] < n => b \in db.blocks
    <2>1. \A i \in 1 .. l : ~(Height[work[i]] < n)
        BY <1>2, <1>3, <1>5
    <2> QED
        BY <1>6, <2>1
<1>8. ASSUME NEW m \in n .. Height[block]
      PROVE  \E b \in ForkChain' : Height[b] = m
    <2>1. /\ Height[block] - m + 1 \in 1 .. l
          /\ Height[block] - ((Height[block] - m + 1) - 1) = m
        BY <1>2, <1>5
    <2>2. Height[work[Height[block] - m + 1]] = m
        BY <1>3, <2>1
    <2> QED
        BY <1>6, <2>1, <2>2
<1>9. n \in 0 .. Height[block]
    BY <1>2, <1>5
<1>10. Replaces(n)'
    BY <1>1, <1>6, <1>7, <1>8 DEF Replaces
<1> QED
    BY <1>1, <1>9, <1>10 DEF ForkInv

\* A block's row moves from the list to the tables; nothing else of the fork's
\* chain changes.
LEMMA ForkChainKept ==
    ASSUME Shape, ChainInv, pc = "fork", ProcessorStep
    PROVE  ForkChain' = ForkChain
<1>1. work \in Seq(Block) /\ work # <<>>
    BY DEF ProcessorStep, StartBlock, ProcessTx, Shape, ProcessorTypeOK
<1>2. {work[i] : i \in DOMAIN work}
          = {Head(work)} \cup {Tail(work)[i] : i \in DOMAIN Tail(work)}
    BY <1>1, ListedFacts
<1>3. CASE StartBlock
    <2>1. /\ phase = "block" /\ work' = work
          /\ txn' = UpsertTransactions(BlockRows(Head(work)), Head(work))
          /\ BlockKeyHolds(BlockRows(Head(work)), Head(work))
        BY <1>3 DEF StartBlock
    <2>2. txn'.blocks = txn.blocks \cup {Head(work)}
        BY <2>1, BlockRowsFacts DEF UpsertTransactions
    <2> QED
        BY <1>2, <2>1, <2>2 DEF ForkChain
<1>4. CASE ProcessTx
    <2>1. phase = "tx" /\ txn'.blocks = txn.blocks
        BY <1>4 DEF ProcessTx, SpentRows, CreateUtxos, SpendUtxos
    <2>2. Head(work) \in txn.blocks
        BY <2>1 DEF ChainInv, Forked
    <2>3. work' = work \/ work' = Tail(work)
        BY <1>4 DEF ProcessTx
    <2>4. CASE work' = work
        BY <2>1, <2>4 DEF ForkChain
    <2>5. CASE work' = Tail(work)
        BY <1>2, <2>1, <2>2, <2>5 DEF ForkChain
    <2> QED
        BY <2>3, <2>4, <2>5
<1> QED
    BY <1>3, <1>4 DEF ProcessorStep

\* Every step keeps ForkInv.
LEMMA ForkInvStep ==
    Shape /\ ChainInv /\ ForkInv /\ [SteadyNext]_vars => ForkInv'
<1> SUFFICES ASSUME Shape, ChainInv, ForkInv, [SteadyNext]_vars, pc' = "fork"
             PROVE  ForkInv'
    BY DEF ForkInv
<1>1. CASE StartFork
    BY <1>1, ForkInvStartFork
<1>2. CASE ProcessorStep
    <2>1. pc = "fork" /\ db' = db /\ block' = block
        BY <1>2 DEF ProcessorStep, StartBlock, ProcessTx
    <2>2. ForkChain' = ForkChain
        BY <1>2, <2>1, ForkChainKept
    <2> QED
        BY <2>1, <2>2 DEF ForkInv, Replaces
<1>3. CASE NodeStep \/ ReceiverDropped \/ UNCHANGED vars
    <2>1. UNCHANGED <<pc, db, txn, work, block>>
        BY <1>3 DEF NodeStep, ReceiverDropped, vars, processorVars
    <2> QED
        BY <2>1 DEF ForkInv, Replaces, ForkChain
<1>4. pc' # "fork" \/ StartFork \/ ProcessorStep \/ NodeStep \/ ReceiverDropped
          \/ UNCHANGED vars
    <2>1. ASSUME HarvestStep
          PROVE  pc' # "fork" \/ StartFork \/ ProcessorStep
        BY <2>1
        DEF HarvestStep, BeginHarvest, FirstBlock, HarvestDone, ScanNext, ScanFork,
            NotMinedYet, WalkBack, ForkPanics, BlockDone, StatementRejected,
            EventPanics, Leave, AfterError
    <2>2. ASSUME RpcFails \/ DbFails \/ Terminate \/ Pause \/ AutoScan
          PROVE  pc' # "fork"
        BY <2>2 DEF RpcFails, DbFails, Terminate, Pause, AutoScan, Leave, AfterError
    <2> QED
        BY <2>1, <2>2 DEF SteadyNext
<1> QED
    BY <1>1, <1>2, <1>3, <1>4
-----------------------------------------------------------------------------
(***************************************************************************)
(* The commits are steps of IndexedChain.                                  *)
(***************************************************************************)

\* In a chain the highest block is the only head.
LEMMA HeadFacts ==
    ASSUME NEW S \in SUBSET Block, Linked(S), NEW b \in S,
           \A c \in S : Height[c] <= Height[b]
    PROVE  Chain!HeadOf(S) = {b}
<1>1. \A c \in S : Height[c] \in Nat
    BY BlockFacts
<1>2. ASSUME NEW c \in S, \A d \in S : Height[d] <= Height[c]
      PROVE  c = b
    <2>1. Height[c] = Height[b]
        BY <1>1, <1>2
    <2> QED
        BY <2>1 DEF Linked
<1> QED
    BY <1>2 DEF Chain!HeadOf

\* The commit of one block extends the stored blocks, unless a commit whose
\* reply was lost has done so before.
LEMMA ProcessExtends ==
    ASSUME Shape, ChainInv, phase = "commit", pc = "process", db' = txn
    PROVE  Chain!Next \/ db'.blocks = db.blocks
<1> DEFINE last == last_processed_block
<1>1. /\ block \in Block /\ last \in Block /\ db.blocks \subseteq Block
      /\ Height[block] \in Nat /\ Height[last] \in Nat
      /\ \A b \in db.blocks : Height[b] \in Nat
    BY BlockFacts DEF Shape, ProcessorTypeOK, Stores
<1>2. /\ txn.blocks = db.blocks \cup {block}
      /\ \A b \in db.blocks : Height[b] = Height[block] => b = block
      /\ Linked(db.blocks) /\ Follows(last, db.blocks)
      /\ \/ block = last /\ db.blocks = {}
         \/ Parent[block] = last /\ Height[block] = Height[last] + 1
    BY DEF ChainInv, Processed
<1>3. CASE block \in db.blocks
    BY <1>2, <1>3
<1>4. CASE block \notin db.blocks
    <2>1. db.blocks = {} \/ Chain!HeadOf(db.blocks) = {Parent[block]}
        <3>1. SUFFICES ASSUME db.blocks # {}
                       PROVE  Chain!HeadOf(db.blocks) = {Parent[block]}
            OBVIOUS
        <3>2. /\ Parent[block] = last /\ Height[block] = Height[last] + 1
              /\ \A b \in db.blocks : Height[b] # Height[last] + 1
            BY <1>2, <1>4, <3>1
        <3>3. last \in db.blocks /\ \A b \in db.blocks : Height[b] <= Height[last] + 1
            BY <1>1, <1>2, <3>1, <3>2, BlockFacts DEF Follows
        <3>4. \A b \in db.blocks : Height[b] <= Height[last]
            BY <1>1, <3>2, <3>3
        <3> HIDE DEF last
        <3> QED
            BY <1>1, <1>2, <3>2, <3>3, <3>4, HeadFacts
    <2>2. Chain!Extend(block)
        BY <1>2, <2>1 DEF Chain!Extend
    <2> QED
        BY <1>1, <2>2 DEF Chain!Next
<1> QED
    BY <1>3, <1>4

\* The commit of a fork replaces the stored blocks from its lowest number on.
LEMMA ForkReorganizes ==
    ASSUME Shape, ChainInv, ForkInv, phase = "commit", pc = "fork", db' = txn
    PROVE  Chain!Next
<1>1. /\ block \in Block /\ last_processed_block \in Block
      /\ db.blocks \subseteq Block /\ txn.blocks \subseteq Block
      /\ Height[block] \in Nat /\ Height[last_processed_block] \in Nat
      /\ \A b \in db.blocks : Height[b] \in Nat
      /\ last_processed_block # Null
    BY BlockFacts DEF Shape, ProcessorTypeOK, Stores
<1>2. ForkChain = txn.blocks /\ work = <<>>
    BY DEF ForkChain, ChainInv, Forked
<1>3. /\ Linked(txn.blocks) /\ block \in txn.blocks
      /\ \A b \in txn.blocks : Height[b] <= Height[block]
      /\ Height[block] = Height[last_processed_block] + 1
    BY <1>2 DEF ForkChain, ChainInv, Forked
<1>4. PICK n \in 0 .. Height[block] : Replaces(n)
    BY DEF ForkInv
<1>5. \A b \in db.blocks : Height[b] <= Height[block]
    BY <1>1, <1>3 DEF ChainInv, Follows
<1>6. {b \in db.blocks : Height[b] < n} = {b \in db'.blocks : Height[b] < n}
    BY <1>2, <1>4 DEF Replaces
<1>7. ASSUME NEW b \in db.blocks
      PROVE  \E c \in db'.blocks : Height[c] = Height[b]
    <2>1. CASE Height[b] < n
        BY <1>2, <1>4, <2>1 DEF Replaces
    <2>2. CASE ~(Height[b] < n)
        <3>1. Height[b] \in n .. Height[block]
            BY <1>1, <1>4, <1>5, <2>2
        <3> QED
            BY <1>2, <1>4, <3>1 DEF Replaces
    <2> QED
        BY <2>1, <2>2
<1>8. Chain!IsChain(db'.blocks) /\ Chain!HeadOf(db'.blocks) = {block}
    BY <1>1, <1>3, HeadFacts DEF Chain!IsChain, Linked
<1>9. Chain!Reorganize(n, block)
    BY <1>5, <1>6, <1>7, <1>8 DEF Chain!Reorganize
<1> QED
    BY <1>1, <1>4, <1>9 DEF Chain!Next

\* A run of the harvester implements the chain that only grows at its head or
\* has a suffix replaced.
THEOREM ImplementsChain == SteadySpec => ChainSpec
<1>1. Init => Chain!Init
    BY DEF Init, ProcessorInit, EmptyStore, Chain!Init
<1>2. Init => ForkInv
    BY DEF Init, ForkInv
<1>3. ASSUME Shape, ChainInv, ForkInv, [SteadyNext]_vars
      PROVE  [Chain!Next]_(db.blocks)
    <2>1. CASE db' = db
        BY <2>1
    <2>2. CASE phase = "commit" /\ db' = txn
        <3>1. pc \in {"process", "fork"}
            BY <1>3, <2>2 DEF Shape, Processing
        <3> QED
            BY <1>3, <2>2, <3>1, ProcessExtends, ForkReorganizes
    <2> QED
        BY <1>3, <2>1, <2>2, StoreChanges DEF Next
<1>4. Shape /\ ChainInv /\ ForkInv /\ [SteadyNext]_vars => [Chain!Next]_(db.blocks)
    BY <1>3
<1>5. Shape /\ ChainInv /\ [SteadyNext]_vars => ChainInv'
    BY ChainInvStep
<1> QED
    BY <1>1, <1>2, <1>4, <1>5, ChainInvInit, ForkInvStep, SteadyShape, PTL
    DEF SteadySpec, ChainSpec, Chain!Spec
-----------------------------------------------------------------------------
(***************************************************************************)
(* What is written is new.                                                 *)
(***************************************************************************)

\* Only calls to the node fail, and no command comes.
Untroubled == NotSteered /\ used["db"] = 0

LEMMA UntroubledStep ==
    ASSUME Shape, [SteadyNext]_vars, Untroubled'
    PROVE  /\ Untroubled
           /\ HarvestStep \/ NodeStep \/ RpcFails \/ ReceiverDropped \/ UNCHANGED vars
<1>1. used \in [Limited -> Nat]
    BY DEF Shape
<1>2. CASE HarvestStep \/ NodeStep \/ UNCHANGED vars
    <2>1. UNCHANGED used
        BY <1>2
        DEF HarvestStep, BeginHarvest, FirstBlock, HarvestDone, ScanNext, ScanFork,
            NotMinedYet, WalkBack, StartFork, ForkPanics, ProcessorStep, BlockDone,
            StatementRejected, EventPanics, NodeStep, vars
    <2> QED
        BY <1>2, <2>1 DEF Untroubled, NotSteered
<1>3. CASE RpcFails \/ ReceiverDropped
    <2>1. \E k \in {"rpc", "receiver"} : used' = [used EXCEPT ![k] = @ + 1]
        BY <1>3 DEF RpcFails, ReceiverDropped, Uses
    <2> QED
        BY <1>1, <1>3, <2>1 DEF Untroubled, NotSteered, Limited
<1>4. ~(DbFails \/ Terminate \/ Pause \/ AutoScan)
    <2>1. ASSUME DbFails \/ Terminate \/ Pause \/ AutoScan
          PROVE  \E k \in {"db", "command"} : used' = [used EXCEPT ![k] = @ + 1]
        BY <2>1 DEF DbFails, Terminate, Pause, AutoScan, Interrupt, Uses
    <2> QED
        BY <1>1, <2>1 DEF Untroubled, NotSteered, Limited
<1> QED
    BY <1>2, <1>3, <1>4 DEF SteadyNext

\* What is stored and what is to be stored are on one branch.
LEMMA WrittenOnBranch ==
    ASSUME Shape, ChainInv, NoneAbove, LastStored, Untroubled, Processing
    PROVE  /\ block \in Block
           /\ txn.blocks \subseteq Branch[block]
           /\ \A i \in DOMAIN work : work[i] \in Branch[block]
<1>1. /\ pc \in {"process", "fork"} /\ phase \in {"block", "tx", "commit"}
      /\ block \in Block /\ last_processed_block \in Block
      /\ db.blocks \subseteq Block /\ txn.blocks \subseteq Block
      /\ work \in Seq(Block)
    BY DEF Shape, Processing, ProcessorTypeOK, Stores, Phases
<1>2. block \in Branch[block]
    BY <1>1, BranchDescends DEF Descends
<1>3. CASE pc = "process"
    <2>1. /\ \A i \in DOMAIN work : work[i] = block
          /\ txn.blocks \subseteq db.blocks \cup {block}
          /\ \/ db.blocks = {}
             \/ Parent[block] = last_processed_block
        BY <1>1, <1>3 DEF ChainInv, Processed
    <2>2. CASE db.blocks = {}
        BY <1>1, <1>2, <2>1, <2>2
    <2>3. CASE db.blocks # {}
        <3>1. /\ last_processed_block \in db.blocks /\ last_processed_block # Null
              /\ \A c \in db.blocks : Height[c] <= Height[last_processed_block]
              /\ Linked(db.blocks)
            BY <1>1, <1>3, <2>3, BlockFacts
            DEF LastStored, NoneAbove, Untroubled, Live, ChainInv
        <3>2. db.blocks \subseteq Branch[last_processed_block]
            BY <1>1, <3>1, LinkedBranch
        <3>3. Branch[block] = {block} \cup Branch[last_processed_block]
            BY <1>1, <2>1, <2>3, <3>1, BranchUnfold DEF BranchStep
        <3> QED
            BY <1>1, <2>1, <3>2, <3>3
    <2> QED
        BY <2>2, <2>3
<1>4. CASE pc = "fork"
    <2> DEFINE all == txn.blocks \cup {work[i] : i \in DOMAIN work}
    <2>1. /\ Linked(all) /\ block \in all
          /\ \A b \in all : Height[b] <= Height[block]
        BY <1>4 DEF ChainInv, Forked
    <2>2. all \subseteq Block
        BY <1>1
    <2>3. txn.blocks \subseteq all /\ \A i \in DOMAIN work : work[i] \in all
        OBVIOUS
    <2> HIDE DEF all
    <2>4. all \subseteq Branch[block]
        BY <2>1, <2>2, LinkedBranch
    <2> QED
        BY <1>1, <2>3, <2>4
<1> QED
    BY <1>1, <1>3, <1>4

\* No block to be written is in the tables.
NewBlocks ==
    phase \in {"block", "tx"} =>
        /\ \A i, j \in DOMAIN work : work[i] = work[j] => i = j
        /\ \A i \in DOMAIN work : phase = "block" \/ i > 1 => work[i] \notin txn.blocks

\* No output to be created has a row, and what is left of the query for the
\* outputs a block spends is unspent.
NewRows ==
    phase = "tx" =>
        /\ \A t \in Unprocessed : \A o \in TaprootOuts(t) : txn.utxos[o] = NoRow
        /\ \A o \in relevant : txn.utxos[o] = Null

\* Between two transactions the tables are the stored ones.
IdleTables == phase = "idle" => txn = db

Fresh == IdleTables /\ NewBlocks /\ NewRows

\* A block that is to follow the last one, or to be the first, is new.
LEMMA FreshBlock ==
    ASSUME Shape, ChainInv, NoneAbove, Untroubled, FirstBlock \/ ScanNext
    PROVE  Fresh'
<1>1. PICK b \in Block : /\ phase' = "block" /\ txn' = db /\ db' = db /\ work' = <<b>>
                         /\ \/ pc = "first"
                            \/ /\ Height[b] = Height[last_processed_block] + 1
                               /\ pc = "scan"
    BY DEF FirstBlock, ScanNext, Process, ScannedAt, NextNum
<1>2. b \notin db.blocks
    <2>1. CASE pc = "first"
        BY <2>1 DEF ChainInv, Follows
    <2>2. CASE pc = "scan" /\ Height[b] = Height[last_processed_block] + 1
        <3>1. last_processed_block \in Block
            BY <2>2 DEF Shape
        <3>2. \A c \in db.blocks : Height[c] <= Height[last_processed_block]
            BY <3>1, BlockFacts DEF NoneAbove, Untroubled
        <3> QED
            BY <2>2, <3>1, <3>2, BlockFacts
    <2> QED
        BY <1>1, <2>1, <2>2
<1>3. DOMAIN work' = {1} /\ work'[1] = b
    BY <1>1
<1> QED
    BY <1>1, <1>2, <1>3 DEF Fresh, IdleTables, NewBlocks, NewRows

\* The blocks of a fork are not stored, and all different.
LEMMA FreshFork ==
    ASSUME Shape, ChainInv, StartFork
    PROVE  Fresh'
<1>1. /\ phase' = "block" /\ work' = work /\ db' = db
      /\ txn'.blocks \subseteq db.blocks
      /\ work \in Seq(Block) /\ block \in Block
      /\ Walked
    BY DEF StartFork, ProcessFork, UnspendSince, DeleteBlocksSince, Shape,
           ProcessorTypeOK, ChainInv
<1>2. Height[block] \in Nat /\ DOMAIN work = 1 .. Len(work) /\ Len(work) \in Nat
    BY <1>1, BlockFacts
<1>3. ASSUME NEW i \in DOMAIN work, NEW j \in DOMAIN work, work[i] = work[j]
      PROVE  i = j
    <2>1. /\ Height[work[i]] = Height[block] - (i - 1)
          /\ Height[work[j]] = Height[block] - (j - 1)
        BY <1>1 DEF Walked
    <2>2. i \in Int /\ j \in Int
        BY <1>2
    <2> QED
        BY <1>2, <1>3, <2>1, <2>2
<1>4. \A i \in DOMAIN work : work[i] \notin txn'.blocks
    BY <1>1 DEF Walked
<1> QED
    BY <1>1, <1>3, <1>4 DEF Fresh, IdleTables, NewBlocks, NewRows

\* An output that has a row is one of a block stored, so not of another block
\* of the same branch.
LEMMA FreshStartBlock ==
    ASSUME ValidBranches, Shape, StoreInv, ChainInv, NoneAbove, LastStored, Untroubled,
           Fresh, ProcessorStep, StartBlock
    PROVE  Fresh'
<1> DEFINE b == Head(work)
<1>1. /\ phase = "block" /\ phase' = "tx" /\ work' = work /\ idx' = 1
      /\ BlockKeyHolds(BlockRows(b), b)
      /\ txn' = UpsertTransactions(BlockRows(b), b)
      /\ relevant' = RelevantUtxos(txn', SpentIn(b))
      /\ Processing
    BY DEF ProcessorStep, StartBlock
<1>2. work \in Seq(Block) /\ work # <<>> /\ txn \in Stores
    BY <1>1 DEF Shape, ProcessorTypeOK
<1>3. /\ b = work[1] /\ 1 \in DOMAIN work /\ b \in Block
      /\ DOMAIN work = 1 .. Len(work)
    BY <1>2
<1>4. txn'.blocks = txn.blocks \cup {b} /\ txn'.utxos = txn.utxos
    <2>1. BlockRows(b).blocks = txn.blocks \cup {b}
        BY <1>1, BlockRowsFacts
    <2> QED
        BY <1>1, <1>2, <2>1 DEF UpsertTransactions, BlockRows, UpsertBlock, Stores
<1>5. b \notin txn.blocks
    BY <1>1, <1>3 DEF Fresh, NewBlocks
<1>6. NewBlocks'
    BY <1>1, <1>3, <1>4 DEF Fresh, NewBlocks
<1>7. \A t \in Unprocessed' : t \in TxSet(b)
    BY <1>1, <1>3, TxsNonEmpty DEF Unprocessed, TxSet
<1>8. ASSUME NEW t \in TxSet(b), NEW o \in TaprootOuts(t)
      PROVE  txn'.utxos[o] = NoRow
    <2>1. o \in OutPoint /\ o[1] = t /\ Owner[o] # Null
        BY DEF TaprootOuts
    <2>2. Consistent(txn, {})
        BY <1>1 DEF StoreInv, Unprocessed
    <2>3. SUFFICES ASSUME txn.utxos[o] # NoRow
                   PROVE  FALSE
        BY <1>4
    <2>4. PICK c \in txn.blocks : t \in TxSet(c)
        BY <2>1, <2>2, <2>3, OutPointFields DEF Consistent
    <2>5. block \in Block /\ b \in Branch[block] /\ c \in Branch[block]
        BY <1>1, <1>3, <2>4, WrittenOnBranch
    <2>6. b = c
        BY <2>1, <2>4, <2>5 DEF ValidBranches
    <2> QED
        BY <1>5, <2>4, <2>6
<1>9. \A o \in relevant' : txn'.utxos[o] = Null
    BY <1>1 DEF RelevantUtxos
<1>10. NewRows'
    BY <1>7, <1>8, <1>9 DEF NewRows
<1> QED
    BY <1>1, <1>6, <1>10 DEF Fresh, IdleTables

\* What one turn of process_block's loop does to the rows
LEMMA TurnFacts ==
    ASSUME Shape, StoreInv, Fresh, ProcessTx
    PROVE  LET b == Head(work)
               outs == TaprootOuts(CurrentTx)
           IN  /\ phase = "tx" /\ b \in Block /\ Height[b] \in Nat
               /\ CurrentTx \in Tx /\ CurrentTx \in Unprocessed /\ CurrentTx \in TxSet(b)
               /\ Spends \in SUBSET Ins[CurrentTx]
               /\ txn.txs[CurrentTx] = b
               /\ \A o \in outs : txn.utxos[o] = NoRow
               /\ \A o \in Spends : o \in OutPoint /\ txn.utxos[o] = Null
               /\ txn'.blocks = txn.blocks /\ txn'.txs = txn.txs
               /\ \A o \in OutPoint :
                      txn'.utxos[o] = IF o \in outs THEN Null
                                      ELSE IF o \in Spends THEN Height[b]
                                      ELSE txn.utxos[o]
<1> DEFINE b == Head(work)
           outs == TaprootOuts(CurrentTx)
<1>1. /\ phase = "tx" /\ work \in Seq(Block) /\ work # <<>> /\ txn \in Stores
      /\ relevant \subseteq OutPoint /\ idx \in 1 .. Len(Txs[b])
    BY DEF ProcessTx, Shape, ProcessorTypeOK
<1>2. b \in Block
    BY <1>1
<1>3. /\ Height[b] \in Nat /\ Len(Txs[b]) \in Nat /\ Txs[b] \in Seq(Tx)
      /\ DOMAIN Txs[b] = 1 .. Len(Txs[b])
    BY <1>2, TxsNonEmpty, BlockFacts
<1>4. /\ CurrentTx \in Tx /\ CurrentTx \in TxSet(b)
      /\ CurrentTx \in Unprocessed
    BY <1>1, <1>3 DEF CurrentTx, TxSet, Unprocessed
<1>5. /\ \A o \in outs : txn.utxos[o] = NoRow
      /\ \A o \in relevant : txn.utxos[o] = Null
    BY <1>1, <1>4 DEF Fresh, NewRows
<1>6. txn.txs[CurrentTx] = b
    BY <1>1, <1>4 DEF StoreInv
<1>7. Spends \subseteq relevant /\ Spends \subseteq Ins[CurrentTx]
    BY DEF Spends
<1>8. /\ txn' = CreateUtxos(SpendUtxos(txn, Spends, Height[b]), outs)
      /\ SpendUtxos(txn, Spends, Height[b]) \in Stores
    <2>1. txn' = CreateUtxos(SpendUtxos(txn, Spends, Height[b]), outs)
        BY DEF ProcessTx, SpentRows
    <2>2. Spends \in SUBSET OutPoint
        BY <1>1, <1>7
    <2> HIDE DEF b
    <2>3. SpendUtxos(txn, Spends, Height[b]) \in Stores
        BY <1>1, <1>3, <2>2, SpendUtxosType
    <2> QED
        BY <2>1, <2>3
<1>9. /\ txn'.blocks = txn.blocks /\ txn'.txs = txn.txs
      /\ \A o \in OutPoint :
             txn'.utxos[o] = IF o \in outs THEN Null
                             ELSE IF o \in Spends THEN Height[b] ELSE txn.utxos[o]
    <2> HIDE DEF outs, b
    <2> QED
        BY <1>1, <1>8 DEF CreateUtxos, SpendUtxos, Stores
<1>10. \A o \in Spends : o \in OutPoint /\ txn.utxos[o] = Null
    BY <1>1, <1>5, <1>7
<1> HIDE DEF outs
<1> QED
    BY <1>1, <1>2, <1>3, <1>4, <1>5, <1>6, <1>7, <1>9, <1>10 DEF outs

LEMMA FreshProcessTx ==
    ASSUME Shape, StoreInv, Fresh, ProcessTx
    PROVE  Fresh'
<1> DEFINE b == Head(work)
           outs == TaprootOuts(CurrentTx)
<1>1. /\ phase = "tx" /\ b \in Block
      /\ txn'.blocks = txn.blocks
      /\ CurrentTx \in Unprocessed
      /\ \A o \in Spends : txn.utxos[o] = Null
      /\ \A o \in OutPoint :
             txn'.utxos[o] = IF o \in outs THEN Null
                             ELSE IF o \in Spends THEN Height[b] ELSE txn.utxos[o]
    BY TurnFacts
<1>2. /\ work \in Seq(Block) /\ work # <<>> /\ Len(work) \in Nat
      /\ idx \in 1 .. Len(Txs[b]) /\ Len(Txs[b]) \in Nat /\ Txs[b] \in Seq(Tx)
      /\ relevant \subseteq OutPoint
    BY <1>1, TxsNonEmpty DEF Shape, ProcessorTypeOK
<1>3. CASE idx # Len(Txs[b])
    <2>1. /\ work' = work /\ phase' = "tx" /\ idx' = idx + 1
          /\ relevant' = relevant \ Spends
        BY <1>3 DEF ProcessTx
    <2>2. NewBlocks'
        BY <1>1, <2>1 DEF Fresh, NewBlocks
    <2>3. ASSUME NEW t \in Unprocessed', NEW o \in TaprootOuts(t)
          PROVE  txn'.utxos[o] = NoRow
        <3>1. PICK i \in idx + 1 .. Len(Txs[b]) : t = Txs[b][i]
            BY <2>1 DEF Unprocessed
        <3>2. /\ i \in DOMAIN Txs[b] /\ idx \in DOMAIN Txs[b] /\ i # idx
              /\ i \in idx .. Len(Txs[b])
            BY <1>2
        <3>3. t \in Unprocessed /\ t # CurrentTx
            BY <1>1, <3>1, <3>2, TxAssumption DEF Unprocessed, CurrentTx
        <3>4. o \in OutPoint /\ o[1] = t /\ txn.utxos[o] = NoRow
            BY <1>1, <3>3 DEF TaprootOuts, Fresh, NewRows
        <3>5. o \notin outs /\ o \notin Spends
            BY <1>1, <3>3, <3>4, NoRowFacts DEF TaprootOuts
        <3> QED
            BY <1>1, <3>4, <3>5
    <2>4. ASSUME NEW o \in relevant'
          PROVE  txn'.utxos[o] = Null
        BY <1>1, <1>2, <2>1 DEF Fresh, NewRows
    <2> QED
        BY <2>1, <2>2, <2>3, <2>4 DEF Fresh, IdleTables, NewRows
<1>4. CASE idx = Len(Txs[b])
    <2>1. /\ work' = Tail(work)
          /\ phase' = "block" \/ phase' = "commit"
        BY <1>4 DEF ProcessTx
    <2>2. /\ DOMAIN work = 1 .. Len(work) /\ DOMAIN Tail(work) = 1 .. Len(work) - 1
          /\ \A i \in DOMAIN Tail(work) : Tail(work)[i] = work[i + 1]
        BY <1>2
    <2>3. \A i \in DOMAIN work' : i + 1 \in DOMAIN work /\ i + 1 > 1 /\ work'[i] = work[i + 1]
        BY <1>2, <2>1, <2>2
    <2>4. ASSUME NEW i \in DOMAIN work', NEW j \in DOMAIN work', work'[i] = work'[j]
          PROVE  i = j
        <3>1. i + 1 = j + 1
            BY <1>1, <2>3, <2>4 DEF Fresh, NewBlocks
        <3> QED
            BY <2>1, <2>2, <3>1
    <2>5. \A i \in DOMAIN work' : work'[i] \notin txn'.blocks
        BY <1>1, <2>3 DEF Fresh, NewBlocks
    <2> QED
        BY <2>1, <2>4, <2>5 DEF Fresh, IdleTables, NewBlocks, NewRows
<1> QED
    BY <1>3, <1>4

FreshInv == Untroubled => Fresh

\* Every step keeps FreshInv, on a tree that Bitcoin may have.
LEMMA FreshStep ==
    ASSUME ValidBranches, Shape, StoreInv, ChainInv, NoneAbove, LastStored, FreshInv,
           [SteadyNext]_vars
    PROVE  FreshInv'
<1> SUFFICES ASSUME Untroubled'
             PROVE  Fresh'
    BY DEF FreshInv
<1>1. /\ Untroubled /\ Fresh
      /\ HarvestStep \/ NodeStep \/ RpcFails \/ ReceiverDropped \/ UNCHANGED vars
    BY UntroubledStep DEF FreshInv
<1>2. CASE FirstBlock \/ ScanNext
    BY <1>1, <1>2, FreshBlock
<1>3. CASE StartFork
    BY <1>3, FreshFork
<1>4. CASE ProcessorStep
    BY <1>1, <1>4, FreshStartBlock, FreshProcessTx DEF ProcessorStep
<1>5. CASE BlockDone \/ ForkPanics \/ StatementRejected \/ EventPanics \/ RpcFails
    <2>1. phase' = "idle" /\ txn' = db'
        BY <1>5
        DEF BlockDone, Commit, ForkPanics, StatementRejected, EventPanics, RpcFails, Close
    <2> QED
        BY <2>1 DEF Fresh, IdleTables, NewBlocks, NewRows
<1>6. CASE WalkBack
    <2>1. phase = "idle" /\ UNCHANGED <<db, txn, phase>>
        BY <1>6 DEF WalkBack, Shape, Processing
    <2> QED
        BY <1>1, <2>1 DEF Fresh, IdleTables, NewBlocks, NewRows
<1>7. CASE BeginHarvest \/ HarvestDone \/ ScanFork \/ NotMinedYet \/ NodeStep
           \/ ReceiverDropped \/ UNCHANGED vars
    <2>1. UNCHANGED processorVars
        BY <1>7
        DEF BeginHarvest, HarvestDone, ScanFork, NotMinedYet, NodeStep, ReceiverDropped, vars
    <2> QED
        BY <1>1, <2>1 DEF processorVars, Fresh, IdleTables, NewBlocks, NewRows, Unprocessed
<1> QED
    BY <1>1, <1>2, <1>3, <1>4, <1>5, <1>6, <1>7 DEF HarvestStep

\* The database rejects no statement.
LEMMA Accepted ==
    ASSUME Shape, StoreInv, ChainInv, NoneAbove, Untroubled, Fresh, Processing
    PROVE  ~Rejected
<1> DEFINE b == Head(work)
<1>1. ASSUME phase = "block"
      PROVE  BlockKeyHolds(BlockRows(b), b)
    <2>1. work \in Seq(Block) /\ work # <<>> /\ txn \in Stores
        BY <1>1 DEF Shape, ProcessorTypeOK
    <2>2. b = work[1] /\ 1 \in DOMAIN work /\ b \in Block
        BY <2>1
    <2>3. b \notin txn.blocks
        BY <1>1, <2>2 DEF Fresh, NewBlocks
    <2>4. \A c \in txn.blocks : Height[c] # Height[b]
        <3>1. CASE pc = "process"
            <4>1. /\ b = block /\ txn.blocks = db.blocks /\ block \in Block
                  /\ last_processed_block \in Block
                  /\ \/ db.blocks = {}
                     \/ Height[block] = Height[last_processed_block] + 1
                BY <1>1, <2>2, <3>1 DEF ChainInv, Processed, Shape
            <4>2. \A c \in db.blocks : Height[c] <= Height[last_processed_block]
                BY <4>1, BlockFacts DEF NoneAbove, Untroubled
            <4>3. \A c \in db.blocks : Height[c] \in Nat
                BY BlockFacts DEF Shape, ProcessorTypeOK, Stores
            <4> QED
                BY <4>1, <4>2, <4>3, BlockFacts
        <3>2. CASE pc = "fork"
            <4>1. Linked(txn.blocks \cup {work[i] : i \in DOMAIN work})
                BY <3>2 DEF ChainInv, Forked
            <4> QED
                BY <2>2, <2>3, <4>1 DEF Linked
        <3> QED
            BY <3>1, <3>2 DEF Processing
    <2> QED
        BY <2>1, <2>2, <2>4 DEF BlockKeyHolds, BlockRows, UpsertBlock, Stores
<1>2. ASSUME phase = "tx"
      PROVE  UtxoKeysFree(SpentRows, TaprootOuts(CurrentTx))
    <2>1. /\ work \in Seq(Block) /\ work # <<>> /\ txn \in Stores
          /\ idx \in 1 .. Len(Txs[b])
        BY <1>2 DEF Shape, ProcessorTypeOK
    <2>2. CurrentTx \in Unprocessed
        <3>1. b \in Block
            BY <2>1
        <3>2. Len(Txs[b]) \in Nat
            BY <3>1, TxsNonEmpty
        <3> QED
            BY <1>2, <2>1, <3>2 DEF Unprocessed, CurrentTx
    <2>3. /\ \A o \in TaprootOuts(CurrentTx) : txn.utxos[o] = NoRow /\ o \in OutPoint
          /\ \A o \in Spends : txn.utxos[o] = Null
        BY <1>2, <2>2 DEF Fresh, NewRows, TaprootOuts, Spends
    <2>4. \A o \in TaprootOuts(CurrentTx) : o \notin Spends
        BY <2>3, NoRowFacts
    <2> QED
        BY <2>1, <2>3, <2>4 DEF UtxoKeysFree, SpentRows, SpendUtxos, Stores
<1> QED
    BY <1>1, <1>2 DEF Rejected
=============================================================================
