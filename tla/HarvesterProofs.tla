-------------------------- MODULE HarvesterProofs --------------------------
(***************************************************************************)
(* Theorems about Harvester, for every tree of blocks, every bound and     *)
(* every interleaving.                                                     *)
(***************************************************************************)
EXTENDS HarvesterInv, SumProofs

USE DEF Live, Limited
-----------------------------------------------------------------------------
(***************************************************************************)
(* Statements of IndexStore keep the tables' types.                        *)
(***************************************************************************)

\* A block's transactions are a non-empty list of transactions.
LEMMA TxsNonEmpty ==
    ASSUME NEW b \in Block
    PROVE  Txs[b] \in Seq(Tx) /\ Len(Txs[b]) \in Nat /\ Len(Txs[b]) > 0
BY TxAssumption

\* The first field of an outpoint is a txid.
LEMMA OutPointFields ==
    ASSUME NEW o \in OutPoint
    PROVE  o[1] \in Tx
BY TxAssumption

\* The tail of a non-empty list is a list, and empty only for a list of one.
LEMMA TailFacts ==
    ASSUME NEW S, NEW s \in Seq(S), s # <<>>
    PROVE  /\ Tail(s) \in Seq(S)
           /\ Len(s) > 1 => Tail(s) # <<>>
<1>1. Tail(s) \in Seq(S)
    OBVIOUS
<1>2. Len(Tail(s)) = Len(s) - 1 /\ Len(s) \in Nat
    OBVIOUS
<1>3. Len(s) > 1 => Len(Tail(s)) # 0
    BY <1>2
<1>4. Len(<<>>) = 0
    OBVIOUS
<1>5. Tail(s) = <<>> => Len(Tail(s)) = 0
    BY <1>4, Zenon
<1> QED
    BY <1>1, <1>3, <1>5, Zenon

\* The tables of a new database have their types.
LEMMA EmptyStoreType == EmptyStore \in Stores
BY StoreAssumption DEF EmptyStore, Stores

\* INSERT INTO btc_blocks keeps the tables' types.
LEMMA UpsertBlockType ==
    ASSUME NEW s \in Stores, NEW b \in Block
    PROVE  UpsertBlock(s, b) \in Stores
BY DEF UpsertBlock, Stores

\* The upserts of a block's transactions keep the tables' types.
LEMMA UpsertTransactionsType ==
    ASSUME NEW s \in Stores, NEW b \in Block
    PROVE  UpsertTransactions(s, b) \in Stores
BY DEF UpsertTransactions, Stores

\* The cascading delete keeps the tables' types.
LEMMA DeleteBlocksSinceType ==
    ASSUME NEW s \in Stores, NEW n \in Nat
    PROVE  DeleteBlocksSince(s, n) \in Stores
BY OutPointFields DEF DeleteBlocksSince, Stores

\* unspend_utxos_spent_since_block keeps the tables' types.
LEMMA UnspendSinceType ==
    ASSUME NEW s \in Stores, NEW n \in Nat
    PROVE  UnspendSince(s, n) \in Stores
BY DEF UnspendSince, Stores

\* Marking rows as spent keeps the tables' types.
LEMMA SpendUtxosType ==
    ASSUME NEW s \in Stores, NEW os \in SUBSET OutPoint, NEW n \in Nat
    PROVE  SpendUtxos(s, os, n) \in Stores
BY DEF SpendUtxos, Stores

\* Creating rows keeps the tables' types.
LEMMA CreateUtxosType ==
    ASSUME NEW s \in Stores, NEW os \in SUBSET OutPoint
    PROVE  CreateUtxos(s, os) \in Stores
BY DEF CreateUtxos, Stores

\* A block spends outpoints.
LEMMA SpentInType ==
    ASSUME NEW b \in Block
    PROVE  SpentIn(b) \subseteq OutPoint
<1>1. ASSUME NEW t \in TxSet(b)
      PROVE  Ins[t] \subseteq OutPoint
    BY <1>1, TxAssumption, TxsNonEmpty DEF TxSet
<1> QED
    BY <1>1 DEF SpentIn

\* Heights are natural numbers.
LEMMA HeightType ==
    ASSUME NEW b \in Block
    PROVE  Height[b] \in Nat
BY BlockAssumption
-----------------------------------------------------------------------------
(***************************************************************************)
(* Shape is inductive.                                                     *)
(***************************************************************************)

\* Control and data agree when the task is started.
LEMMA ShapeInit == Init => Shape
BY EmptyStoreType, HarvesterAssumption
   DEF Init, Shape, ProcessorInit, ProcessorTypeOK, NodeTypeOK, Phases, Processing

\* Closing the transaction on a typed value of the tables is idle and typed.
LEMMA CloseType ==
    ASSUME NEW s \in Stores, Close(s)
    PROVE  /\ ProcessorTypeOK'
           /\ phase' = "idle"
           /\ work' = <<>>
BY DEF Close, ProcessorTypeOK, Phases

\* A dropped future leaves the tables as they were or as it committed them.
LEMMA DropCloses ==
    ASSUME Drop
    PROVE  Close(db) \/ Close(txn)
BY DEF Drop

\* A step that ends the transaction and harvest() resets what belongs to them.
LEMMA ShapeClose ==
    ASSUME Shape, Close(db) \/ Close(txn),
           NEW l \in {"select", "stopped", "panicked"}, Leave(l)
    PROVE  /\ ProcessorTypeOK'
           /\ phase' = "idle" /\ work' = <<>>
           /\ pc' = l /\ desired_height' = 0 /\ block' = Null
BY CloseType DEF Shape, ProcessorTypeOK, Leave

\* Every step of the harvester, its failures, commands and restarts keep control
\* and data in agreement.
LEMMA ShapeStep == Shape /\ [Next]_vars => Shape'
<1> SUFFICES ASSUME Shape, [Next]_vars
             PROVE  Shape'
    OBVIOUS
<1> USE DEF Shape, NodeTypeOK, Processing, loopVars
<1>1. CASE BeginHarvest
    BY <1>1, BlockAssumption
    DEF BeginHarvest, processorVars, ProcessorTypeOK, TipNumber
<1>2. CASE FirstBlock
    <2>1. PICK b \in ScannedAt(StartNum) :
              last_processed_block' = b /\ block' = b /\ Process(b)
        BY <1>2 DEF FirstBlock
    <2>2. b \in Block
        BY DEF ScannedAt
    <2> QED
        BY <1>2, <2>1, <2>2 DEF FirstBlock, Process, ProcessorTypeOK, Phases
<1>3. CASE HarvestDone
    BY <1>3 DEF HarvestDone, Leave, processorVars, ProcessorTypeOK
<1>4. CASE ScanNext
    <2>1. PICK b \in ScannedAt(NextNum) : block' = b /\ Process(b)
        BY <1>4 DEF ScanNext
    <2>2. b \in Block
        BY DEF ScannedAt
    <2> QED
        BY <1>4, <2>1, <2>2 DEF ScanNext, Process, ProcessorTypeOK, Phases
<1>5. CASE ScanFork
    <2>1. block' \in Block
        BY <1>5 DEF ScanFork, ScannedAt
    <2> QED
        BY <1>5, <2>1 DEF ScanFork, processorVars, ProcessorTypeOK
<1>6. CASE NotMinedYet
    BY <1>6 DEF NotMinedYet, Leave, processorVars, ProcessorTypeOK
<1>7. CASE WalkBack
    <2>1. CurrentBlock \in Block
        <3>1. CASE work = <<>>
            BY <1>7, <3>1 DEF WalkBack, CurrentBlock
        <3>2. CASE work # <<>>
            <4>1. Len(work) \in DOMAIN work /\ Last(work) \in Block
                BY <3>2 DEF Last, ProcessorTypeOK
            <4>2. Height[Last(work)] # 0
                BY <1>7, <4>1 DEF WalkBack, Last
            <4> QED
                BY <3>2, <4>1, <4>2, BlockAssumption DEF CurrentBlock
        <3> QED
            BY <3>1, <3>2
    <2>2. Height[CurrentBlock] # 0
        BY <1>7 DEF WalkBack, AncestorFound
    <2>3. /\ work' \in Seq(Block)
          /\ \A i \in DOMAIN work' : Height[work'[i]] # 0
        BY <1>7, <2>1, <2>2 DEF WalkBack, ProcessorTypeOK
    <2> QED
        BY <1>7, <2>3 DEF WalkBack, ProcessorTypeOK
<1>8. CASE StartFork
    <2>1. Last(work) \in Block
        BY <1>8 DEF StartFork, Last, ProcessorTypeOK
    <2>2. txn' \in Stores
        BY <1>8, <2>1, HeightType, DeleteBlocksSinceType, UnspendSinceType
        DEF StartFork, ProcessFork, ProcessorTypeOK
    <2> QED
        BY <1>8, <2>2
        DEF StartFork, ProcessFork, Send, ProcessorTypeOK, Phases
<1>9. CASE ForkPanics
    BY <1>9, ShapeClose DEF ForkPanics
<1>10. CASE ProcessorStep
    <2> DEFINE b == Head(work)
    <2>1. CASE StartBlock
        <3>1. b \in Block
            BY <2>1 DEF StartBlock, ProcessorTypeOK
        <3>2. /\ txn' \in Stores
              /\ relevant' \subseteq OutPoint
            BY <2>1, <3>1, UpsertBlockType, UpsertTransactionsType, SpentInType
            DEF StartBlock, BlockRows, ProcessorTypeOK, RelevantUtxos
        <3>3. 1 \in 1 .. Len(Txs[b])
            BY <3>1, TxsNonEmpty
        <3> QED
            BY <1>10, <2>1, <3>2, <3>3
            DEF ProcessorStep, StartBlock, ProcessorTypeOK, Phases
    <2>2. CASE ProcessTx
        <3>1. b \in Block
            BY <2>2 DEF ProcessTx, ProcessorTypeOK
        <3>2. Spends \subseteq OutPoint
            BY DEF Spends, ProcessorTypeOK
        <3>3. SpentRows \in Stores
            BY <3>1, <3>2, HeightType, SpendUtxosType DEF SpentRows, ProcessorTypeOK
        <3>4. txn' \in Stores
            BY <2>2, <3>3, CreateUtxosType DEF ProcessTx, TaprootOuts
        <3>5. relevant' \subseteq OutPoint
            BY <2>2 DEF ProcessTx, ProcessorTypeOK
        <3>6. receiving' \in BOOLEAN
            BY <2>2 DEF ProcessTx, Send
        <3>7. CASE idx = Len(Txs[b])
            <4>1. /\ work' = Tail(work) /\ idx' = 0 /\ db' = db
                  /\ phase' = IF Len(work) > 1 THEN "block" ELSE "commit"
                BY <2>2, <3>7 DEF ProcessTx
            <4>2. work \in Seq(Block) /\ work # <<>>
                BY <2>2 DEF ProcessTx, ProcessorTypeOK
            <4>3. Tail(work) \in Seq(Block) /\ (Len(work) > 1 => Tail(work) # <<>>)
                BY <4>2, TailFacts
            <4>4. ProcessorTypeOK'
                BY <3>4, <3>5, <4>1, <4>3 DEF ProcessorTypeOK, Phases
            <4> QED
                BY <1>10, <3>6, <4>1, <4>3, <4>4 DEF ProcessorStep
        <3>8. CASE idx # Len(Txs[b])
            BY <1>10, <2>2, <3>1, <3>4, <3>5, <3>6, <3>8, TxsNonEmpty
            DEF ProcessorStep, ProcessTx, ProcessorTypeOK, Phases
        <3> QED
            BY <3>7, <3>8
    <2> QED
        BY <1>10, <2>1, <2>2 DEF ProcessorStep
<1>11. CASE BlockDone
    BY <1>11, CloseType DEF BlockDone, Commit, ProcessorTypeOK
<1>12. CASE StatementRejected
    BY <1>12, ShapeClose DEF StatementRejected, AfterError
<1>13. CASE EventPanics
    BY <1>13, ShapeClose DEF EventPanics
<1>14. CASE NodeStep
    BY <1>14 DEF NodeStep, NodeAdvance, processorVars, ProcessorTypeOK
<1>15. CASE RpcFails
    BY <1>15, ShapeClose DEF RpcFails, Uses
<1>16. CASE DbFails
    <2>1. Close(db) \/ Close(txn)
        BY <1>16, DropCloses DEF DbFails
    <2>2. /\ used' \in [Limited -> Nat]
          /\ UNCHANGED <<receiving, tip>>
          /\ UNCHANGED <<last_processed_block, start_height, end_height>>
        BY <1>16 DEF DbFails, Uses
    <2>3. CASE Leave("select")
        BY <2>1, <2>2, <2>3, ShapeClose
    <2>4. CASE Leave("panicked")
        BY <2>1, <2>2, <2>4, ShapeClose
    <2>5. Leave("select") \/ Leave("panicked")
        BY <1>16 DEF DbFails, AfterError, Leave
    <2> QED
        BY <2>3, <2>4, <2>5, Zenon
<1>17. CASE ReceiverDropped
    <2>1. /\ Uses("receiver") /\ receiving' = FALSE
          /\ UNCHANGED <<processorVars, tip, pc, loopVars, desired_height, block>>
        BY <1>17, Zenon DEF ReceiverDropped
    <2>2. used' \in [Limited -> Nat]
        BY <2>1 DEF Uses
    <2> QED
        BY <2>1, <2>2 DEF processorVars, ProcessorTypeOK
<1>18. CASE Restart
    BY <1>18, ShapeClose, DropCloses, HarvesterAssumption DEF Restart, Uses
<1>19. CASE Terminate
    BY <1>19, ShapeClose, DropCloses DEF Terminate, Interrupt, Uses
<1>20. CASE Pause
    BY <1>20, ShapeClose, DropCloses, HeightType DEF Pause, PausedAt, Interrupt, Uses
<1>21. CASE AutoScan
    BY <1>21, ShapeClose, DropCloses DEF AutoScan, Interrupt, Uses
<1>22. ASSUME NEW from \in Heights, NEW to \in Heights, ScanBlock(from, to)
       PROVE  Shape'
    <2>1. from \in Nat /\ to \in Nat
        BY HeightType DEF Heights
    <2>2. last_processed_block' \in Block
        BY <1>22 DEF ScanBlock, ScanFrom, ScannedAt
    <2> QED
        BY <1>22, <2>1, <2>2, ShapeClose, DropCloses
        DEF ScanBlock, ScanFrom, Interrupt, Uses
<1>23. ASSUME NEW from \in Heights, ScanBlockFails(from)
       PROVE  Shape'
    BY <1>23, ShapeClose, DropCloses DEF ScanBlockFails, Interrupt, Uses
<1>24. CASE UNCHANGED vars
    BY <1>24 DEF vars, processorVars, ProcessorTypeOK
<1> QED
    BY <1>1, <1>2, <1>3, <1>4, <1>5, <1>6, <1>7, <1>8, <1>9, <1>10, <1>11,
       <1>12, <1>13, <1>14, <1>15, <1>16, <1>17, <1>18, <1>19, <1>20, <1>21,
       <1>22, <1>23, <1>24
    DEF Next, Rescan, SteadyNext, HarvestStep

\* Control and data agree in every reachable state.
THEOREM ShapeHolds == Spec => []Shape
<1>1. Init => Shape
    BY ShapeInit
<1>2. Shape /\ [Next]_vars => Shape'
    BY ShapeStep
<1> QED
    BY <1>1, <1>2, PTL DEF Spec
-----------------------------------------------------------------------------
(***************************************************************************)
(* The statements keep the tables consistent.                              *)
(***************************************************************************)

\* A missing row is told from every value of a column.
LEMMA NoRowFacts == NoRow # Null /\ NoRow \notin Nat /\ NoRow \notin Block /\ Null \notin Nat
BY StoreAssumption, BlockAssumption

\* What a taproot output of a transaction is.
LEMMA TaprootFacts ==
    ASSUME NEW t \in Tx, NEW o \in TaprootOuts(t)
    PROVE  o \in OutPoint /\ o[1] = t /\ Owner[o] # Null
BY DEF TaprootOuts

\* A block's transactions are transactions.
LEMMA TxSetType ==
    ASSUME NEW b \in Block
    PROVE  TxSet(b) \subseteq Tx
BY TxsNonEmpty DEF TxSet

\* An empty database is consistent.
LEMMA ConsistentEmpty == Consistent(EmptyStore, {})
BY NoRowFacts DEF Consistent, EmptyStore

\* Deleting the blocks from n on, and the marks they made, leaves the tables
\* of the blocks below n.
LEMMA ConsistentDelete ==
    ASSUME NEW s \in Stores, NEW n \in Nat, Consistent(s, {})
    PROVE  Consistent(UnspendSince(DeleteBlocksSince(s, n), n), {})
<1> DEFINE gone == {b \in s.blocks : Height[b] >= n}
           r == UnspendSince(DeleteBlocksSince(s, n), n)
<1>1. /\ r.blocks = s.blocks \ gone
      /\ \A t \in Tx : r.txs[t] = IF s.txs[t] \in gone THEN NoRow ELSE s.txs[t]
    BY DEF UnspendSince, DeleteBlocksSince
<1>2. \A o \in OutPoint :
          r.utxos[o] = IF s.txs[o[1]] \in gone THEN NoRow
                       ELSE IF s.utxos[o] \in Nat /\ s.utxos[o] >= n THEN Null
                       ELSE s.utxos[o]
    BY NoRowFacts DEF UnspendSince, DeleteBlocksSince
<1>3. s.blocks \subseteq Block /\ NoRow \notin gone
    BY NoRowFacts DEF Stores
<1> HIDE DEF r, gone
<1>4. \A t \in Tx : r.txs[t] # NoRow => r.txs[t] \in r.blocks /\ t \in TxSet(r.txs[t])
    BY <1>1, <1>3 DEF Consistent
<1>5. \A o \in OutPoint : r.utxos[o] # NoRow => Owner[o] # Null /\ r.txs[o[1]] # NoRow
    BY <1>1, <1>2, <1>3, NoRowFacts, OutPointFields DEF Consistent
<1>6. ASSUME NEW b \in r.blocks, NEW t \in TxSet(b)
      PROVE  r.txs[t] = b \/ TaprootOuts(t) = {}
    BY <1>1, <1>3, TxSetType DEF Consistent
<1>7. ASSUME NEW b \in r.blocks, NEW t \in TxSet(b), NEW o \in TaprootOuts(t)
      PROVE  r.utxos[o] # NoRow
    <2>1. b \in s.blocks /\ b \notin gone /\ t \in Tx
        BY <1>1, <1>3, TxSetType
    <2>2. s.utxos[o] # NoRow /\ s.txs[t] = b
        BY <2>1 DEF Consistent
    <2>3. o \in OutPoint /\ o[1] = t
        BY <2>1, TaprootFacts
    <2> QED
        BY <1>2, <2>1, <2>2, <2>3, NoRowFacts
<1>8. ASSUME NEW o \in OutPoint, r.utxos[o] \in Nat
      PROVE  \E b \in r.blocks : Height[b] = r.utxos[o] /\ o \in SpentIn(b)
    <2>1. r.utxos[o] = s.utxos[o] /\ s.utxos[o] \in Nat /\ ~(s.utxos[o] >= n)
        BY <1>2, <1>8, NoRowFacts
    <2>2. PICK b \in s.blocks : Height[b] = s.utxos[o] /\ o \in SpentIn(b)
        BY <2>1 DEF Consistent
    <2>3. b \notin gone
        BY <2>1, <2>2 DEF gone
    <2> QED
        BY <1>1, <2>1, <2>2, <2>3
<1> QED
    BY <1>4, <1>5, <1>6, <1>7, <1>8 DEF Consistent, r

\* Inserting a block and its transactions leaves the outputs of these pending.
LEMMA ConsistentStart ==
    ASSUME NEW s \in Stores, NEW b \in Block, Consistent(s, {}),
           b \in UpsertBlock(s, b).blocks
    PROVE  LET r == UpsertTransactions(UpsertBlock(s, b), b)
           IN  /\ Consistent(r, TxSet(b))
               /\ b \in r.blocks
               /\ \A t \in TxSet(b) : r.txs[t] = b
               /\ r.utxos = s.utxos
               /\ r.blocks = UpsertBlock(s, b).blocks
<1> DEFINE u == UpsertBlock(s, b)
           r == UpsertTransactions(u, b)
<1>1. /\ u \in Stores
      /\ u.txs = s.txs /\ u.utxos = s.utxos
      /\ u.blocks = s.blocks \/ u.blocks = s.blocks \cup {b}
    BY UpsertBlockType DEF UpsertBlock, Stores
<1>2. b \in u.blocks /\ s.blocks \subseteq Block /\ TxSet(b) \subseteq Tx
    BY TxSetType DEF Stores
<1> HIDE DEF u
<1>3. /\ r.blocks = u.blocks /\ r.utxos = s.utxos
      /\ \A t \in Tx : r.txs[t] = IF t \in TxSet(b) THEN b ELSE s.txs[t]
    BY <1>1 DEF UpsertTransactions, Stores
<1> HIDE DEF r
<1>4. \A t \in Tx : r.txs[t] # NoRow => r.txs[t] \in r.blocks /\ t \in TxSet(r.txs[t])
    BY <1>1, <1>2, <1>3 DEF Consistent
<1>5. \A o \in OutPoint : r.utxos[o] # NoRow => Owner[o] # Null /\ r.txs[o[1]] # NoRow
    BY <1>1, <1>2, <1>3, NoRowFacts, OutPointFields DEF Consistent
<1>6. ASSUME NEW c \in r.blocks, NEW t \in TxSet(c)
      PROVE  r.txs[t] = c \/ t \in TxSet(b) \/ TaprootOuts(t) = {}
    BY <1>1, <1>2, <1>3, TxSetType DEF Consistent
<1>7. ASSUME NEW c \in r.blocks, NEW t \in TxSet(c), NEW o \in TaprootOuts(t)
      PROVE  r.utxos[o] # NoRow \/ (t \in TxSet(b) /\ r.txs[t] = c)
    <2>1. CASE c = b
        BY <1>2, <1>3, <2>1
    <2>2. CASE c # b
        <3>1. c \in s.blocks
            BY <1>1, <1>3, <2>2
        <3> QED
            BY <1>3, <3>1 DEF Consistent
    <2> QED
        BY <2>1, <2>2
<1>8. ASSUME NEW o \in OutPoint, r.utxos[o] \in Nat
      PROVE  \E c \in r.blocks : Height[c] = r.utxos[o] /\ o \in SpentIn(c)
    BY <1>1, <1>3, <1>8 DEF Consistent
<1>9. Consistent(r, TxSet(b))
    BY <1>4, <1>5, <1>6, <1>7, <1>8 DEF Consistent
<1> QED
    BY <1>2, <1>3, <1>9 DEF r, u

\* One transaction: its spends are marked and its outputs created, which the
\* database accepts only when none of them had a row.
LEMMA ConsistentTx ==
    ASSUME NEW s \in Stores, NEW b \in s.blocks, NEW t \in TxSet(b),
           NEW pending, NEW rest, NEW spends \in SUBSET OutPoint,
           Consistent(s, pending),
           \A x \in TxSet(b) : s.txs[x] = b,
           pending \subseteq rest \cup {t},
           spends \subseteq Ins[t],
           \A o \in spends : s.utxos[o] # NoRow,
           UtxoKeysFree(SpendUtxos(s, spends, Height[b]), TaprootOuts(t))
    PROVE  Consistent(CreateUtxos(SpendUtxos(s, spends, Height[b]), TaprootOuts(t)), rest)
<1> DEFINE m == SpendUtxos(s, spends, Height[b])
           r == CreateUtxos(m, TaprootOuts(t))
<1>1. /\ b \in Block /\ t \in Tx /\ Height[b] \in Nat
      /\ TaprootOuts(t) \subseteq OutPoint
    BY HeightType, TxSetType DEF Stores, TaprootOuts
<1>2. /\ m.blocks = s.blocks /\ m.txs = s.txs
      /\ \A o \in OutPoint : m.utxos[o] = IF o \in spends THEN Height[b] ELSE s.utxos[o]
    BY DEF SpendUtxos, Stores
<1>3. \A o \in TaprootOuts(t) : s.utxos[o] = NoRow
    BY <1>1, <1>2, NoRowFacts DEF UtxoKeysFree
<1>4. /\ r.blocks = s.blocks /\ r.txs = s.txs
      /\ \A o \in OutPoint :
             r.utxos[o] = IF o \in TaprootOuts(t) THEN Null
                          ELSE IF o \in spends THEN Height[b]
                          ELSE s.utxos[o]
    BY <1>1, <1>2, SpendUtxosType DEF CreateUtxos, Stores
<1> HIDE DEF m, r
<1>5. \A o \in OutPoint : s.utxos[o] # NoRow => r.utxos[o] # NoRow
    BY <1>1, <1>4, NoRowFacts
<1>6. \A x \in Tx : r.txs[x] # NoRow => r.txs[x] \in r.blocks /\ x \in TxSet(r.txs[x])
    BY <1>4 DEF Consistent
<1>7. ASSUME NEW o \in OutPoint, r.utxos[o] # NoRow
      PROVE  Owner[o] # Null /\ r.txs[o[1]] # NoRow
    <2>1. CASE o \in TaprootOuts(t)
        BY <1>1, <1>4, <2>1, TaprootFacts, NoRowFacts
    <2>2. CASE o \notin TaprootOuts(t)
        BY <1>4, <1>7, <2>2 DEF Consistent
    <2> QED
        BY <2>1, <2>2
<1>8. ASSUME NEW c \in r.blocks, NEW x \in TxSet(c), NEW o \in TaprootOuts(x)
      PROVE  r.utxos[o] # NoRow \/ (x \in rest /\ r.txs[x] = c)
    <2>1. o \in OutPoint
        BY DEF TaprootOuts
    <2>2. CASE s.utxos[o] # NoRow
        BY <1>5, <2>1, <2>2
    <2>3. CASE s.utxos[o] = NoRow
        <3>1. x \in pending /\ s.txs[x] = c
            BY <1>4, <2>3 DEF Consistent
        <3>2. CASE x = t
            BY <1>4, <2>1, <3>2, NoRowFacts
        <3>3. CASE x # t
            BY <1>4, <3>1, <3>3
        <3> QED
            BY <3>2, <3>3
    <2> QED
        BY <2>2, <2>3
<1>9. ASSUME NEW c \in r.blocks, NEW x \in TxSet(c)
      PROVE  r.txs[x] = c \/ x \in rest \/ TaprootOuts(x) = {}
    <2>1. CASE x # t
        BY <1>4, <2>1 DEF Consistent
    <2>2. ASSUME x = t, NEW o \in TaprootOuts(t)
          PROVE  s.txs[x] = c
        BY <1>3, <1>4, <2>2 DEF Consistent
    <2> QED
        BY <1>4, <2>1, <2>2
<1>10. ASSUME NEW o \in OutPoint, r.utxos[o] \in Nat
       PROVE  \E c \in r.blocks : Height[c] = r.utxos[o] /\ o \in SpentIn(c)
    <2>1. CASE o \in spends
        BY <1>3, <1>4, <1>10, <2>1, NoRowFacts DEF SpentIn
    <2>2. CASE o \notin spends
        BY <1>4, <1>10, <2>2, NoRowFacts DEF Consistent
    <2> QED
        BY <2>1, <2>2
<1>11. Consistent(r, rest)
    BY <1>6, <1>7, <1>8, <1>9, <1>10 DEF Consistent
<1> QED
    BY <1>11 DEF r, m
-----------------------------------------------------------------------------
(***************************************************************************)
(* StoreInv is inductive relative to Shape.                                *)
(***************************************************************************)

\* The tables are consistent when the service is first started.
LEMMA StoreInvInit == Init => StoreInv
BY ConsistentEmpty DEF Init, ProcessorInit, StoreInv, Unprocessed

\* The transaction ends on consistent tables.
LEMMA StoreInvClose ==
    ASSUME Shape, StoreInv, Drop \/ Close(db) \/ (phase = "commit" /\ Close(txn))
    PROVE  StoreInv'
<1>1. phase' = "idle" /\ \/ db' = db /\ txn' = db
                         \/ db' = txn /\ txn' = txn /\ phase = "commit"
    BY DEF Drop, Close
<1>2. Consistent(db', {}) /\ Consistent(txn', {})
    BY <1>1 DEF StoreInv, Unprocessed
<1> QED
    BY <1>1, <1>2 DEF StoreInv, Unprocessed

\* A step that leaves the processor alone.
LEMMA StoreInvStutter ==
    ASSUME StoreInv, UNCHANGED processorVars
    PROVE  StoreInv'
BY DEF StoreInv, Unprocessed, processorVars

\* process() starts its transaction from the committed tables.
LEMMA StoreInvProcess ==
    ASSUME StoreInv, NEW b \in Block, Process(b)
    PROVE  StoreInv'
BY DEF StoreInv, Unprocessed, Process

\* process_fork() deletes and unspends, which leaves consistent tables.
LEMMA StoreInvStartFork ==
    ASSUME Shape, StoreInv, StartFork
    PROVE  StoreInv'
<1>1. work \in Seq(Block) /\ work # <<>> /\ db \in Stores
    BY DEF StartFork, Shape, ProcessorTypeOK
<1>2. Height[Last(work)] \in Nat
    BY <1>1, HeightType DEF Last
<1>3. Consistent(txn', {})
    BY <1>1, <1>2, ConsistentDelete DEF StartFork, ProcessFork, StoreInv
<1> QED
    BY <1>3 DEF StartFork, ProcessFork, StoreInv, Unprocessed

\* process_block() inserts the rows of a block; its outputs are then pending.
LEMMA StoreInvStartBlock ==
    ASSUME Shape, StoreInv, StartBlock
    PROVE  StoreInv'
<1> DEFINE b == Head(work)
<1>1. b \in Block /\ txn \in Stores /\ phase = "block"
    BY DEF StartBlock, Shape, ProcessorTypeOK
<1>2. Consistent(txn, {}) /\ b \in UpsertBlock(txn, b).blocks
    BY <1>1 DEF StartBlock, StoreInv, Unprocessed, BlockRows, BlockKeyHolds
<1>3. /\ txn' = UpsertTransactions(UpsertBlock(txn, b), b)
      /\ work' = work /\ idx' = 1 /\ phase' = "tx" /\ db' = db
      /\ relevant' = RelevantUtxos(txn', SpentIn(b))
    BY DEF StartBlock, BlockRows
<1>4. /\ Consistent(txn', TxSet(b))
      /\ b \in txn'.blocks
      /\ \A t \in TxSet(b) : txn'.txs[t] = b
    BY <1>1, <1>2, <1>3, ConsistentStart
<1>5. \A o \in relevant' : txn'.utxos[o] # NoRow
    BY <1>3, NoRowFacts DEF RelevantUtxos
<1>6. Unprocessed' = TxSet(b)
    BY <1>1, <1>3, TxsNonEmpty DEF Unprocessed, TxSet
<1> QED
    BY <1>3, <1>4, <1>5, <1>6 DEF StoreInv

\* process_block() handles one transaction, whose outputs are no longer pending.
LEMMA StoreInvProcessTx ==
    ASSUME Shape, StoreInv, ProcessTx
    PROVE  StoreInv'
<1> DEFINE b == Head(work)
           t == Txs[b][idx]
<1>1. /\ phase = "tx" /\ txn \in Stores /\ b \in txn.blocks
      /\ idx \in 1 .. Len(Txs[b]) /\ relevant \subseteq OutPoint
      /\ \A x \in TxSet(b) : txn.txs[x] = b
      /\ \A o \in relevant : txn.utxos[o] # NoRow
      /\ Consistent(txn, Unprocessed)
      /\ CurrentTx = t
    BY DEF ProcessTx, Shape, ProcessorTypeOK, StoreInv, CurrentTx
<1>2. b \in Block /\ t \in TxSet(b)
    BY <1>1, TxsNonEmpty DEF Stores, TxSet
<1>3. Spends \subseteq OutPoint /\ Spends \subseteq Ins[t] /\ Spends \subseteq relevant
    BY <1>1 DEF Spends
<1>4. /\ txn' = CreateUtxos(SpendUtxos(txn, Spends, Height[b]), TaprootOuts(t))
      /\ UtxoKeysFree(SpendUtxos(txn, Spends, Height[b]), TaprootOuts(t))
      /\ db' = db
    BY <1>1 DEF ProcessTx, SpentRows
<1>5. Unprocessed \subseteq Unprocessed' \cup {t}
    <2>1. CASE idx = Len(Txs[b])
        BY <1>1, <1>2, <2>1, TxsNonEmpty DEF Unprocessed
    <2>2. CASE idx # Len(Txs[b])
        <3>1. phase' = "tx" /\ work' = work /\ idx' = idx + 1
            BY <2>2 DEF ProcessTx
        <3>2. Unprocessed' = {Txs[b][i] : i \in idx + 1 .. Len(Txs[b])}
            BY <3>1 DEF Unprocessed
        <3>3. Unprocessed = {Txs[b][i] : i \in idx .. Len(Txs[b])}
            BY <1>1 DEF Unprocessed
        <3>4. \A i \in idx .. Len(Txs[b]) : i = idx \/ i \in idx + 1 .. Len(Txs[b])
            BY <1>1, <1>2, TxsNonEmpty
        <3> QED
            BY <3>2, <3>3, <3>4
    <2> QED
        BY <2>1, <2>2
<1>6. /\ Consistent(txn', Unprocessed')
      /\ txn'.blocks = txn.blocks /\ txn'.txs = txn.txs
      /\ \A o \in OutPoint : txn.utxos[o] # NoRow => txn'.utxos[o] # NoRow
    <2>1. \A o \in Spends : txn.utxos[o] # NoRow
        BY <1>1, <1>3
    <2> HIDE DEF b, t
    <2>2. Consistent(CreateUtxos(SpendUtxos(txn, Spends, Height[b]), TaprootOuts(t)),
                     Unprocessed')
        BY <1>1, <1>2, <1>3, <1>4, <1>5, <2>1, ConsistentTx
    <2>3. /\ txn'.blocks = txn.blocks /\ txn'.txs = txn.txs
          /\ \A o \in OutPoint : txn.utxos[o] # NoRow => txn'.utxos[o] # NoRow
        BY <1>1, <1>2, <1>4, NoRowFacts, HeightType DEF CreateUtxos, SpendUtxos, Stores
    <2> QED
        BY <1>4, <2>2, <2>3
<1>7. relevant' \subseteq relevant /\ (phase' = "tx" => work' = work)
    BY DEF ProcessTx
<1> QED
    BY <1>1, <1>4, <1>6, <1>7 DEF StoreInv, Unprocessed

\* Every step keeps the committed tables and those of the open transaction
\* consistent.
LEMMA StoreInvStep == Shape /\ StoreInv /\ [Next]_vars => StoreInv'
<1> SUFFICES ASSUME Shape, StoreInv, [Next]_vars
             PROVE  StoreInv'
    OBVIOUS
<1>1. CASE FirstBlock \/ ScanNext
    <2>1. PICK b \in Block : Process(b)
        BY <1>1 DEF FirstBlock, ScanNext, ScannedAt
    <2> QED
        BY <2>1, StoreInvProcess
<1>2. CASE WalkBack
    <2>1. pc = "walk" /\ UNCHANGED <<db, txn, phase, idx, relevant>>
        BY <1>2 DEF WalkBack
    <2>2. phase = "idle"
        BY <2>1 DEF Shape, Processing
    <2> QED
        BY <2>1, <2>2 DEF StoreInv, Unprocessed
<1>3. CASE StartFork
    BY <1>3, StoreInvStartFork
<1>4. CASE ProcessorStep
    BY <1>4, StoreInvStartBlock, StoreInvProcessTx DEF ProcessorStep
<1>5. CASE BlockDone
    BY <1>5, StoreInvClose DEF BlockDone, Commit
<1>6. CASE ForkPanics \/ StatementRejected \/ EventPanics \/ RpcFails
    BY <1>6, StoreInvClose DEF ForkPanics, StatementRejected, EventPanics, RpcFails
<1>7. CASE DbFails \/ Restart
    BY <1>7, StoreInvClose DEF DbFails, Restart
<1>8. CASE Interrupt
    BY <1>8, StoreInvClose DEF Interrupt
<1>9. CASE Terminate \/ Pause \/ AutoScan
           \/ (\E from, to \in Heights : from <= to /\ ScanBlock(from, to))
           \/ (\E from \in Heights : ScanBlockFails(from))
    BY <1>8, <1>9 DEF Terminate, Pause, AutoScan, ScanBlock, ScanBlockFails
<1>10. CASE BeginHarvest \/ HarvestDone \/ ScanFork \/ NotMinedYet \/ NodeStep
            \/ ReceiverDropped \/ UNCHANGED vars
    BY <1>10, StoreInvStutter
    DEF BeginHarvest, HarvestDone, ScanFork, NotMinedYet, NodeStep, ReceiverDropped, vars
<1> QED
    BY <1>1, <1>2, <1>3, <1>4, <1>5, <1>6, <1>7, <1>9, <1>10
    DEF Next, Rescan, SteadyNext, HarvestStep

\* The tables of btc_blocks, btc_transactions and btc_utxos fit each other in
\* every reachable state, and in the open transaction but for pending outputs.
THEOREM StoreInvHolds == Spec => []StoreInv
<1>1. Init => StoreInv
    BY StoreInvInit
<1>2. Shape /\ StoreInv /\ [Next]_vars => StoreInv'
    BY StoreInvStep
<1> QED
    BY <1>1, <1>2, ShapeHolds, PTL DEF Spec

\* Consistent tables have a row for each taproot output of a stored block, and no
\* others.
LEMMA ConsistentRows == Shape /\ StoreInv => UtxoBacked
<1> SUFFICES ASSUME Shape, StoreInv
             PROVE  UtxoBacked
    OBVIOUS
<1>1. /\ db.blocks \subseteq Block
      /\ Consistent(db, {})
    BY DEF Shape, ProcessorTypeOK, Stores, StoreInv
<1>2. ASSUME NEW o \in OutPoint, db.utxos[o] # NoRow
      PROVE  \E b \in db.blocks : \E t \in TxSet(b) : o \in TaprootOuts(t)
    <2>1. Owner[o] # Null /\ db.txs[o[1]] # NoRow /\ o[1] \in Tx
        BY <1>1, <1>2, OutPointFields DEF Consistent
    <2>2. db.txs[o[1]] \in db.blocks /\ o[1] \in TxSet(db.txs[o[1]])
        BY <1>1, <2>1 DEF Consistent
    <2> QED
        BY <2>1, <2>2 DEF TaprootOuts
<1>3. ASSUME NEW b \in db.blocks, NEW t \in TxSet(b), NEW o \in TaprootOuts(t)
      PROVE  o \in OutPoint /\ db.utxos[o] # NoRow
    BY <1>1 DEF Consistent, TaprootOuts
<1> QED
    BY <1>2, <1>3 DEF UtxoBacked

\* Consistent tables mark as spent what a stored block spends.
LEMMA ConsistentSpends == StoreInv => SpentIsReal
BY DEF StoreInv, Consistent, SpentIsReal

\* The rows of btc_utxos are the taproot outputs of the stored blocks.
THEOREM RowsAreBacked == Spec => []UtxoBacked
BY ConsistentRows, ShapeHolds, StoreInvHolds, PTL

\* A row marked spent in block n is spent by the stored block n.
THEOREM SpendsAreReal == Spec => []SpentIsReal
BY ConsistentSpends, StoreInvHolds, PTL
-----------------------------------------------------------------------------
\* The committed tables change only when a transaction commits.
LEMMA StoreChanges ==
    ASSUME [Next]_vars
    PROVE  db' = db \/ (phase = "commit" /\ db' = txn)
<1>1. CASE FirstBlock \/ ScanNext
    BY <1>1 DEF FirstBlock, ScanNext, Process
<1>2. CASE StartFork
    BY <1>2 DEF StartFork, ProcessFork
<1>3. CASE ProcessorStep
    BY <1>3 DEF ProcessorStep, StartBlock, ProcessTx
<1>4. CASE BlockDone
    BY <1>4 DEF BlockDone, Commit, Close
<1>5. CASE ForkPanics \/ StatementRejected \/ EventPanics \/ RpcFails
    BY <1>5 DEF ForkPanics, StatementRejected, EventPanics, RpcFails, Close
<1>6. CASE DbFails \/ Restart \/ Interrupt
    BY <1>6 DEF DbFails, Restart, Interrupt, Drop, Close
<1>7. CASE Terminate \/ Pause \/ AutoScan
           \/ (\E from, to \in Heights : from <= to /\ ScanBlock(from, to))
           \/ (\E from \in Heights : ScanBlockFails(from))
    BY <1>6, <1>7 DEF Terminate, Pause, AutoScan, ScanBlock, ScanBlockFails
<1>8. CASE BeginHarvest \/ HarvestDone \/ ScanFork \/ NotMinedYet \/ WalkBack
            \/ NodeStep \/ ReceiverDropped \/ UNCHANGED vars
    BY <1>8
    DEF BeginHarvest, HarvestDone, ScanFork, NotMinedYet, WalkBack, NodeStep,
        ReceiverDropped, vars, processorVars
<1> QED
    BY <1>1, <1>2, <1>3, <1>4, <1>5, <1>6, <1>7, <1>8
    DEF Next, Rescan, SteadyNext, HarvestStep
-----------------------------------------------------------------------------
(***************************************************************************)
(* No spend of an output of an earlier block is lost, whatever fails, is   *)
(* interrupted, scanned again or restarted: the invariant SpendInv,        *)
(* relative to Shape and StoreInv.                                         *)
(***************************************************************************)
\* Block b, which the open transaction stores, spends output o of a block that
\* was and stays stored.
SpendsStored(b, o) ==
    /\ b \in txn.blocks \ db.blocks
    /\ o \in OutPoint /\ o \in SpentIn(b)
    /\ \E c \in db.blocks \cap txn.blocks : \E t \in TxSet(c) : o \in TaprootOuts(t)

\* The spend is still to be marked: the row is among the relevant ones and its
\* spender among the transactions to come.
Due(b, o) ==
    /\ phase = "tx"
    /\ b = Head(work)
    /\ o \in relevant
    /\ \E i \in idx .. Len(Txs[b]) : o \in Ins[Txs[b][i]]

SpendInv ==
    /\ \A i \in DOMAIN work : work[i] \in db.blocks =>
           phase # "idle" /\ work[i] \in txn.blocks
    /\ \A b \in Block, o \in OutPoint :
           SpendsStored(b, o) => txn.utxos[o] \in Nat \/ Due(b, o)

\* No transaction is open when the service is first started.
LEMMA SpendInvInit == Init => SpendInv
BY DEF Init, ProcessorInit, SpendInv, SpendsStored

\* A transaction that ends, or begins on the committed tables, owes no spend.
LEMMA SpendInvFresh ==
    ASSUME \/ work' = <<>>
           \/ \E b \in Block : work' = <<b>> /\ phase' # "idle",
           txn' = db'
    PROVE  SpendInv'
BY DEF SpendInv, SpendsStored

\* The open transaction ends.
LEMMA SpendInvClose ==
    ASSUME Drop \/ Close(db) \/ Close(txn)
    PROVE  SpendInv'
<1>1. work' = <<>> /\ txn' = db'
    BY DEF Drop, Close
<1> QED
    BY <1>1, SpendInvFresh

\* process_block() queries the outputs its block spends: all the rows of other
\* stored blocks that are not marked yet.
LEMMA SpendInvStartBlock ==
    ASSUME Shape, StoreInv, SpendInv, StartBlock
    PROVE  SpendInv'
<1> DEFINE h == Head(work)
<1>1. /\ phase = "block" /\ phase' = "tx" /\ work' = work /\ idx' = 1 /\ db' = db
      /\ work \in Seq(Block) /\ work # <<>> /\ h \in Block
      /\ txn \in Stores /\ db.blocks \subseteq Block
      /\ txn' = UpsertTransactions(UpsertBlock(txn, h), h)
      /\ h \in UpsertBlock(txn, h).blocks
      /\ relevant' = RelevantUtxos(txn', SpentIn(h))
    BY DEF StartBlock, Shape, ProcessorTypeOK, Stores, BlockRows, BlockKeyHolds
<1>2. /\ Consistent(txn, {})
      /\ txn'.utxos = txn.utxos
      /\ txn'.blocks = txn.blocks \cup {h}
    <2>1. Consistent(txn, {})
        BY <1>1 DEF StoreInv, Unprocessed
    <2>2. txn'.blocks = UpsertBlock(txn, h).blocks /\ txn'.utxos = txn.utxos
        BY <1>1, <2>1, ConsistentStart
    <2>3. UpsertBlock(txn, h).blocks = txn.blocks \cup {h}
        BY <1>1 DEF UpsertBlock, Stores
    <2> QED
        BY <2>1, <2>2, <2>3
<1>3. h \in db.blocks => h \in txn.blocks
    <2>1. 1 \in DOMAIN work /\ h = work[1]
        BY <1>1
    <2> QED
        BY <2>1 DEF SpendInv
<1> HIDE DEF h
<1>4. ASSUME NEW b \in Block, NEW o \in OutPoint, SpendsStored(b, o)'
      PROVE  txn'.utxos[o] \in Nat \/ Due(b, o)'
    <2>1. PICK c \in db.blocks \cap txn.blocks :
              \E t \in TxSet(c) : o \in TaprootOuts(t)
        BY <1>1, <1>2, <1>3, <1>4 DEF SpendsStored
    <2>2. txn.utxos[o] # NoRow /\ txn.utxos[o] \in Nat \cup {Null, NoRow}
        BY <1>1, <1>2, <2>1 DEF Consistent, Stores
    <2>3. CASE b \in txn.blocks
        <3>1. SpendsStored(b, o)
            BY <1>1, <1>4, <2>1, <2>3 DEF SpendsStored
        <3>2. ~Due(b, o)
            BY <1>1 DEF Due
        <3> QED
            BY <1>2, <3>1, <3>2 DEF SpendInv
    <2>4. CASE b \notin txn.blocks /\ txn.utxos[o] = Null
        <3>1. b = h /\ o \in SpentIn(b)
            BY <1>2, <1>4, <2>4 DEF SpendsStored
        <3>2. o \in relevant'
            BY <1>1, <1>2, <2>4, <3>1 DEF RelevantUtxos
        <3>3. PICK x \in TxSet(b) : o \in Ins[x]
            BY <3>1 DEF SpentIn
        <3>4. \E i \in 1 .. Len(Txs[b]) : o \in Ins[Txs[b][i]]
            BY <3>3, TxsNonEmpty DEF TxSet
        <3> QED
            BY <1>1, <3>1, <3>2, <3>4 DEF Due, h
    <2> QED
        BY <1>2, <2>2, <2>3, <2>4
<1>5. \A i \in DOMAIN work' : work'[i] \in db'.blocks =>
          phase' # "idle" /\ work'[i] \in txn'.blocks
    BY <1>1, <1>2 DEF SpendInv
<1> QED
    BY <1>4, <1>5 DEF SpendInv

\* The spends of one transaction are marked, or remain due.
LEMMA SpendInvProcessTx ==
    ASSUME Shape, StoreInv, SpendInv, ProcessTx
    PROVE  SpendInv'
<1> DEFINE h == Head(work)
           n == Len(Txs[h])
<1>1. /\ phase = "tx" /\ phase' # "idle" /\ db' = db
      /\ work \in Seq(Block) /\ work # <<>> /\ h \in Block
      /\ txn \in Stores /\ relevant \subseteq OutPoint
      /\ idx \in 1 .. n /\ n \in Nat
      /\ txn' = CreateUtxos(SpentRows, TaprootOuts(CurrentTx))
      /\ UtxoKeysFree(SpentRows, TaprootOuts(CurrentTx))
      /\ SpentRows = SpendUtxos(txn, Spends, Height[h])
      /\ CurrentTx = Txs[h][idx]
      /\ Spends = relevant \cap Ins[CurrentTx]
      /\ \/ idx = n /\ work' = Tail(work)
         \/ /\ idx # n /\ work' = work /\ idx' = idx + 1 /\ phase' = "tx"
            /\ relevant' = relevant \ Spends
    BY TxsNonEmpty
    DEF ProcessTx, Shape, ProcessorTypeOK, SpentRows, CurrentTx, Spends
<1>2. Height[h] \in Nat /\ TaprootOuts(CurrentTx) \subseteq OutPoint
    BY <1>1, HeightType DEF TaprootOuts
<1> HIDE DEF h, n
<1>3. /\ txn'.blocks = txn.blocks
      /\ \A o \in OutPoint :
             txn.utxos[o] \in Nat \/ o \in Spends => txn'.utxos[o] \in Nat
    <2>1. SpentRows \in Stores
        BY <1>1, <1>2, SpendUtxosType
    <2>2. /\ SpentRows.blocks = txn.blocks
          /\ \A o \in OutPoint :
                 SpentRows.utxos[o] = IF o \in Spends THEN Height[h] ELSE txn.utxos[o]
        BY <1>1, <1>2 DEF SpendUtxos, Stores
    <2>3. /\ txn'.blocks = SpentRows.blocks
          /\ \A o \in OutPoint : txn'.utxos[o] =
                 IF o \in TaprootOuts(CurrentTx) THEN Null ELSE SpentRows.utxos[o]
        BY <1>1, <2>1 DEF CreateUtxos, Stores
    <2>4. ASSUME NEW o \in OutPoint, txn.utxos[o] \in Nat \/ o \in Spends
          PROVE  txn'.utxos[o] \in Nat
        <3>1. SpentRows.utxos[o] \in Nat
            BY <1>2, <2>2, <2>4
        <3>2. o \notin TaprootOuts(CurrentTx)
            BY <1>1, <3>1, NoRowFacts DEF UtxoKeysFree
        <3> QED
            BY <2>3, <3>1, <3>2
    <2> QED
        BY <2>2, <2>3, <2>4
<1>4. ASSUME NEW b \in Block, NEW o \in OutPoint, SpendsStored(b, o)'
      PROVE  txn'.utxos[o] \in Nat \/ Due(b, o)'
    <2>1. txn.utxos[o] \in Nat \/ Due(b, o)
        BY <1>1, <1>3, <1>4 DEF SpendsStored, SpendInv
    <2>2. CASE txn.utxos[o] \in Nat \/ o \in Spends
        BY <1>3, <2>2
    <2>3. CASE Due(b, o) /\ o \notin Spends
        <3>1. b = h /\ o \in relevant
            BY <2>3 DEF Due, h
        <3>2. PICK i \in idx .. n : o \in Ins[Txs[h][i]]
            BY <2>3, <3>1 DEF Due, n
        <3>3. i # idx
            BY <1>1, <2>3, <3>1, <3>2
        <3>4. idx # n /\ i \in idx + 1 .. n
            BY <1>1, <3>2, <3>3
        <3>5. phase' = "tx" /\ work' = work /\ idx' = idx + 1 /\ o \in relevant'
            BY <1>1, <2>3, <3>1, <3>4
        <3> QED
            BY <3>1, <3>2, <3>4, <3>5 DEF Due, h, n
    <2> QED
        BY <2>1, <2>2, <2>3
<1>5. ASSUME NEW i \in DOMAIN work', work'[i] \in db'.blocks
      PROVE  phase' # "idle" /\ work'[i] \in txn'.blocks
    <2>1. \E j \in DOMAIN work : work'[i] = work[j]
        <3>1. CASE work' = work
            BY <1>5, <3>1
        <3>2. CASE work' = Tail(work)
            <4>1. /\ Len(work) \in Nat /\ DOMAIN work = 1 .. Len(work)
                  /\ DOMAIN Tail(work) = 1 .. Len(work) - 1
                  /\ \A k \in 1 .. Len(work) - 1 : Tail(work)[k] = work[k + 1]
                BY <1>1
            <4>2. i + 1 \in DOMAIN work /\ work'[i] = work[i + 1]
                BY <1>5, <3>2, <4>1
            <4> QED
                BY <4>2
        <3> QED
            BY <1>1, <3>1, <3>2
    <2> QED
        BY <1>1, <1>3, <1>5, <2>1 DEF SpendInv
<1> QED
    BY <1>4, <1>5 DEF SpendInv

\* A fork's transaction begins with nothing but rows of stored blocks.
LEMMA SpendInvStartFork ==
    ASSUME Shape, SpendInv, StartFork
    PROVE  SpendInv'
<1>1. /\ phase = "idle" /\ work' = work /\ db' = db
      /\ txn'.blocks \subseteq db.blocks
    BY DEF StartFork, ProcessFork, Shape, Processing, UnspendSince, DeleteBlocksSince
<1>2. \A i \in DOMAIN work' : work'[i] \notin db'.blocks
    BY <1>1 DEF SpendInv
<1> QED
    BY <1>1, <1>2 DEF SpendInv, SpendsStored

\* Every step keeps SpendInv.
LEMMA SpendInvStep ==
    Shape /\ StoreInv /\ SpendInv /\ [Next]_vars => SpendInv'
<1> SUFFICES ASSUME Shape, StoreInv, SpendInv, [Next]_vars
             PROVE  SpendInv'
    OBVIOUS
<1>1. CASE FirstBlock \/ ScanNext
    <2>1. PICK b \in Block : Process(b)
        BY <1>1 DEF FirstBlock, ScanNext, ScannedAt
    <2>2. work' = <<b>> /\ phase' # "idle" /\ txn' = db'
        BY <2>1 DEF Process
    <2> QED
        BY <2>2, SpendInvFresh
<1>2. CASE WalkBack
    <2>1. /\ pc = "walk" /\ UNCHANGED <<db, txn, phase, idx, relevant>>
          /\ work' = Append(work, CurrentBlock)
          /\ CurrentBlock \notin db.blocks
          /\ work \in Seq(Block)
        BY <1>2 DEF WalkBack, AncestorFound, HasBlock, Shape, ProcessorTypeOK
    <2>2. phase = "idle"
        BY <2>1 DEF Shape, Processing
    <2>3. ASSUME NEW i \in DOMAIN work'
          PROVE  work'[i] \notin db'.blocks
        <3>1. /\ DOMAIN work' = 1 .. Len(work) + 1 /\ DOMAIN work = 1 .. Len(work)
              /\ Len(work) \in Nat
            BY <2>1
        <3>2. CASE i = Len(work) + 1
            BY <2>1, <3>2
        <3>3. CASE i \in DOMAIN work
            BY <2>1, <2>2, <3>3 DEF SpendInv
        <3> QED
            BY <3>1, <3>2, <3>3
    <2>4. \A b \in Block, o \in OutPoint :
              SpendsStored(b, o)' => txn'.utxos[o] \in Nat \/ Due(b, o)'
        BY <2>1, <2>2 DEF SpendInv, SpendsStored, Due
    <2> QED
        BY <2>3, <2>4 DEF SpendInv
<1>3. CASE StartFork
    BY <1>3, SpendInvStartFork
<1>4. CASE ProcessorStep
    BY <1>4, SpendInvStartBlock, SpendInvProcessTx DEF ProcessorStep
<1>5. CASE BlockDone \/ ForkPanics \/ StatementRejected \/ EventPanics \/ RpcFails
    BY <1>5, SpendInvClose
    DEF BlockDone, Commit, ForkPanics, StatementRejected, EventPanics, RpcFails
<1>6. CASE DbFails \/ Restart
    BY <1>6, SpendInvClose DEF DbFails, Restart
<1>7. CASE Interrupt
    BY <1>7, SpendInvClose DEF Interrupt
<1>8. CASE Terminate \/ Pause \/ AutoScan
           \/ (\E from, to \in Heights : from <= to /\ ScanBlock(from, to))
           \/ (\E from \in Heights : ScanBlockFails(from))
    BY <1>7, <1>8 DEF Terminate, Pause, AutoScan, ScanBlock, ScanBlockFails
<1>9. CASE BeginHarvest \/ HarvestDone \/ ScanFork \/ NotMinedYet \/ NodeStep
            \/ ReceiverDropped \/ UNCHANGED vars
    <2>1. UNCHANGED processorVars
        BY <1>9
        DEF BeginHarvest, HarvestDone, ScanFork, NotMinedYet, NodeStep,
            ReceiverDropped, vars
    <2> QED
        BY <2>1 DEF SpendInv, SpendsStored, Due, processorVars
<1> QED
    BY <1>1, <1>2, <1>3, <1>4, <1>5, <1>6, <1>8, <1>9
    DEF Next, Rescan, SteadyNext, HarvestStep

\* When blocks are stored, an output of a block that was and stays stored which
\* they spend is marked as spent.
THEOREM SpendsAreRecorded == Spec => SpendRecorded
<1>1. ASSUME Shape, SpendInv, [Next]_vars,
             NEW b \in db'.blocks \ db.blocks, NEW c \in db.blocks \cap db'.blocks,
             NEW t \in TxSet(c), NEW o \in TaprootOuts(t) \cap SpentIn(b)
      PROVE  db'.utxos[o] \in Nat
    <2>1. phase = "commit" /\ db' = txn
        BY <1>1, StoreChanges
    <2>2. b \in Block /\ o \in OutPoint /\ SpendsStored(b, o)
        BY <1>1, <2>1 DEF Shape, ProcessorTypeOK, Stores, TaprootOuts, SpendsStored
    <2>3. ~Due(b, o)
        BY <2>1 DEF Due
    <2> QED
        BY <1>1, <2>1, <2>2, <2>3 DEF SpendInv
<1>2. Shape /\ SpendInv /\ [Next]_vars =>
          [\A b \in db'.blocks \ db.blocks, c \in db.blocks \cap db'.blocks :
               \A t \in TxSet(c) : \A o \in TaprootOuts(t) \cap SpentIn(b) :
                   db'.utxos[o] \in Nat]_vars
    BY <1>1
<1> QED
    BY <1>2, SpendInvInit, SpendInvStep, ShapeHolds, StoreInvHolds, PTL
    DEF Spec, SpendRecorded
-----------------------------------------------------------------------------
(***************************************************************************)
(* The messages of the harvester have their types, and its amounts are     *)
(* sums over the outputs of one transaction.                               *)
(***************************************************************************)

\* The amounts of finitely many outputs can be added up.
LEMMA SumOfType ==
    ASSUME NEW os \in SUBSET OutPoint, IsFiniteSet(os)
    PROVE  SumOf(os) \in Nat
<1>1. \A o \in os : Amount[o] \in Nat
    BY TxAssumption
<1> QED
    BY <1>1, SumNat DEF SumOf

\* A transaction has finitely many outputs and inputs, and a coinbase no input.
LEMMA TxFinite ==
    ASSUME NEW t \in Tx, NEW spends \in SUBSET Ins[t]
    PROVE  /\ TaprootOuts(t) \in SUBSET OutPoint /\ IsFiniteSet(TaprootOuts(t))
           /\ spends \in SUBSET OutPoint /\ IsFiniteSet(spends)
           /\ t \in Coinbase => spends = {}
<1>1. TaprootOuts(t) \in SUBSET {o \in OutPoint : o[1] = t}
    BY DEF TaprootOuts
<1>2. IsFiniteSet({o \in OutPoint : o[1] = t}) /\ IsFiniteSet(Ins[t])
    BY TxAssumption
<1>3. IsFiniteSet(TaprootOuts(t)) /\ IsFiniteSet(spends)
    BY <1>1, <1>2, FS_Subset
<1> QED
    BY <1>1, <1>3, TxAssumption

LEMMA BalanceUpdateType ==
    ASSUME NEW t \in Tx, NEW spends \in SUBSET Ins[t], NEW a
    PROVE  /\ BalanceUpdate(t, spends, a) \in Int
           /\ t \in Coinbase => BalanceUpdate(t, spends, a) >= 0
<1> DEFINE P == {o \in TaprootOuts(t) : Owner[o] = a}
           Q == {o \in spends : Owner[o] = a}
<1>1. P \in SUBSET TaprootOuts(t) /\ Q \in SUBSET spends
    OBVIOUS
<1>2. /\ P \in SUBSET OutPoint /\ IsFiniteSet(P)
      /\ Q \in SUBSET OutPoint /\ IsFiniteSet(Q)
    BY <1>1, TxFinite, FS_Subset
<1>3. SumOf(P) \in Nat /\ SumOf(Q) \in Nat
    BY <1>2, SumOfType
<1>4. t \in Coinbase => SumOf(Q) = 0
    <2>1. t \in Coinbase => Q = {}
        BY TxFinite
    <2> QED
        BY <2>1, SumEmpty DEF SumOf
<1>5. BalanceUpdate(t, spends, a) = SumOf(P) - SumOf(Q)
    BY DEF BalanceUpdate
<1> HIDE DEF P, Q
<1> QED
    BY <1>3, <1>4, <1>5

\* The addresses whose balance a transaction changes: owners of its outputs and
\* of those it spends
Changed(t, spends) == {a \in Address : BalanceUpdate(t, spends, a) # 0}

LEMMA ChangedFinite ==
    ASSUME NEW t \in Tx, NEW spends \in SUBSET Ins[t]
    PROVE  IsFiniteSet(Changed(t, spends))
<1> DEFINE os == TaprootOuts(t) \cup spends
<1>1. IsFiniteSet(os)
    BY TxFinite, FS_Union
<1>2. IsFiniteSet({Owner[o] : o \in os})
    BY <1>1, FiniteImage
<1>3. ASSUME NEW a \in Changed(t, spends)
      PROVE  a \in {Owner[o] : o \in os}
    <2> SUFFICES ASSUME a \notin {Owner[o] : o \in os}
                 PROVE  FALSE
        OBVIOUS
    <2>1. /\ {o \in TaprootOuts(t) : Owner[o] = a} = {}
          /\ {o \in spends : Owner[o] = a} = {}
        OBVIOUS
    <2>2. BalanceUpdate(t, spends, a) = 0 - 0
        BY <2>1, SumEmpty DEF BalanceUpdate, SumOf
    <2> QED
        BY <2>2 DEF Changed
<1> QED
    BY <1>2, <1>3, FS_Subset

\* The events of a transaction, in any order
LEMMA TxEventsSent ==
    ASSUME NEW n \in Nat, NEW t \in Tx, NEW spends \in SUBSET Ins[t],
           NEW events \in TxEvents(n, t, spends)
    PROVE  events \in Seq(SentMessages)
<1> DEFINE m == [a \in Changed(t, spends) |-> Event(n, t, a, BalanceUpdate(t, spends, a))]
           S == {m[a] : a \in Changed(t, spends)}
<1>1. IsFiniteSet(S)
    BY ChangedFinite, FiniteImage
<1>2. Cardinality(S) \in Nat
    BY <1>1, FS_CardinalityType
<1>3. S = {Event(n, t, a, BalanceUpdate(t, spends, a)) : a \in Changed(t, spends)}
    OBVIOUS
<1>4. events \in [1 .. Cardinality(S) -> S]
    BY <1>3 DEF TxEvents, SetToSeqs, Changed
<1>5. ASSUME NEW e \in S
      PROVE  e \in SentMessages
    <2>1. PICK a \in Changed(t, spends) : e = Event(n, t, a, BalanceUpdate(t, spends, a))
        BY <1>3
    <2>2. /\ BalanceUpdate(t, spends, a) \in Int
          /\ t \in Coinbase => BalanceUpdate(t, spends, a) >= 0
        BY BalanceUpdateType
    <2>3. a \in Address
        BY DEF Changed
    <2> DEFINE v == BalanceUpdate(t, spends, a)
    <2> HIDE DEF v
    <2>4. Event(n, t, a, v) \in Events
        <3>1. (t \in Coinbase) \in BOOLEAN
            OBVIOUS
        <3> QED
            BY <2>2, <2>3, <3>1 DEF Event, Events, v
    <2>5. /\ Event(n, t, a, v).tx = t /\ Event(n, t, a, v).amount = v
          /\ Event(n, t, a, v).coinbase <=> t \in Coinbase
        BY DEF Event
    <2>6. Event(n, t, a, v) \in SentMessages
        BY <2>2, <2>4, <2>5 DEF SentMessages, Messages, v
    <2> QED
        BY <2>1, <2>6 DEF v
<1> HIDE DEF S
<1>6. events \in [1 .. Cardinality(S) -> SentMessages]
    BY <1>4, <1>5
<1> QED
    BY <1>2, <1>6

LEMMA SendKeeps ==
    ASSUME NEW S, channel \in Seq(S), NEW ms \in Seq(S), Send(ms)
    PROVE  channel' \in Seq(S)
BY DEF Send

\* Whatever the harvester sends is a message of the channel.
LEMMA ChannelStep ==
    ASSUME Shape, channel \in Seq(SentMessages), [Next]_vars
    PROVE  channel' \in Seq(SentMessages)
<1>1. CASE UNCHANGED channel
    BY <1>1
<1>2. CASE channel' = <<>>
    BY <1>2
<1>3. CASE ProcessorStep /\ ProcessTx
    <2> DEFINE h == Head(work)
    <2>1. phase = "tx" /\ h \in Block /\ idx \in 1 .. Len(Txs[h])
        BY <1>3 DEF ProcessTx, Shape, ProcessorTypeOK
    <2>2. CurrentTx \in Tx /\ Height[h] \in Nat
        BY <2>1, TxsNonEmpty, HeightType DEF CurrentTx
    <2>3. Spends \in SUBSET Ins[CurrentTx]
        BY DEF Spends
    <2>4. PICK events \in TxEvents(Height[h], CurrentTx, Spends) :
              IF events = <<>> THEN UNCHANGED <<channel, receiving>> ELSE Send(events)
        BY <1>3 DEF ProcessTx
    <2>5. events \in Seq(SentMessages)
        BY <2>2, <2>3, TxEventsSent
    <2> QED
        BY <2>4, <2>5, SendKeeps
<1>4. CASE StartFork
    <2> DEFINE n == Height[Last(work)]
    <2>1. Send(<<Reorg(n)>>)
        BY <1>4 DEF StartFork, ProcessFork
    <2>2. n \in Nat
        <3>1. work \in Seq(Block) /\ work # <<>>
            BY <1>4 DEF StartFork, Shape, ProcessorTypeOK
        <3>2. Last(work) \in Block
            BY <3>1 DEF Last
        <3> QED
            BY <3>2, HeightType
    <2> HIDE DEF n
    <2>3. Reorg(n) \in SentMessages
        BY <2>2 DEF Reorg, Messages, SentMessages
    <2>4. <<Reorg(n)>> \in Seq(SentMessages)
        BY <2>3
    <2> QED
        BY <2>1, <2>4, SendKeeps
<1> QED
    BY <1>1, <1>2, <1>3, <1>4
    DEF Next, Rescan, SteadyNext, HarvestStep, BeginHarvest, FirstBlock, HarvestDone, ScanNext,
        ScanFork, NotMinedYet, WalkBack, ForkPanics, ProcessorStep, StartBlock, BlockDone,
        Commit, StatementRejected, EventPanics, Process, NodeStep, RpcFails, DbFails,
        ReceiverDropped, Terminate, Pause, AutoScan, Interrupt, Restart, ScanBlock,
        ScanBlockFails, vars

\* Every variable of the harvester has its type, whatever fails, is interrupted
\* or is restarted: among others, the walk back never asks for the parent of the
\* genesis block, and every message sent is one the aggregator can handle.
THEOREM TypesHold == Spec => []TypeOK
<1>1. Init => channel \in Seq(SentMessages)
    BY DEF Init
<1>2. Shape /\ channel \in Seq(SentMessages) /\ [Next]_vars
          => (channel \in Seq(SentMessages))'
    BY ChannelStep
<1>3. Shape /\ channel \in Seq(SentMessages) => TypeOK
    BY DEF Shape, TypeOK, ChannelTypeOK, SentMessages
<1> QED
    BY <1>1, <1>2, <1>3, ShapeHolds, PTL DEF Spec
=============================================================================
