--------------------------- MODULE BlockProcessor ---------------------------
(***************************************************************************)
(* harvester/processor.rs: writing a block, or all blocks of a fork, to    *)
(* the tables inside one database transaction while sending the balance    *)
(* changes of each Bitcoin transaction to the aggregator.                  *)
(*                                                                         *)
(* The steps are those between the awaits that matter: a block's rows and  *)
(* the query for the outputs it spends (nothing is sent), then one step    *)
(* per Bitcoin transaction (all its statements run before its events are   *)
(* sent, and sending does not await), then the commit.                     *)
(***************************************************************************)
EXTENDS IndexStore, EventChannel, FiniteSets, SequencesExt

VARIABLES
    db,         \* the committed tables
    txn,        \* the tables as the open transaction sees them; db if none is
    phase,      \* where process / process_fork is
    work,       \* blocks still to be processed, in the order of the code
    idx,        \* the next transaction of the block being processed
    relevant    \* relevant_utxos of that block

processorVars == <<db, txn, phase, work, idx, relevant>>

Phases == {"idle", "block", "tx", "commit"}

ProcessorTypeOK ==
    /\ db \in Stores
    /\ txn \in Stores
    /\ phase \in Phases
    /\ work \in Seq(Block)
    /\ idx \in Nat
    /\ relevant \subseteq OutPoint

ProcessorInit ==
    /\ db = EmptyStore
    /\ txn = EmptyStore
    /\ phase = "idle"
    /\ work = <<>>
    /\ idx = 0
    /\ relevant = {}

\* The database transaction is over and the tables are s: it was committed
\* (s = txn), or rolled back because its future was dropped or failed (s = db).
Close(s) ==
    /\ db' = s
    /\ txn' = s
    /\ phase' = "idle"
    /\ work' = <<>>
    /\ idx' = 0
    /\ relevant' = {}

\* The future is dropped or its connection fails.  When COMMIT has been sent
\* the server may have carried it out all the same.
Drop == Close(db) \/ (phase = "commit" /\ Close(txn))
-----------------------------------------------------------------------------
\* process, up to the call of process_block
Process(b) ==
    /\ phase' = "block"
    /\ txn' = db
    /\ work' = <<b>>
    /\ UNCHANGED <<db, idx, relevant, channel, receiving>>

\* process_fork, up to its loop; bs is fork_blocks_reversed, the head first.
ProcessFork(bs) ==
    LET begin_block_num == Height[Last(bs)]
    IN  /\ txn' = UnspendSince(DeleteBlocksSince(db, begin_block_num),
                               begin_block_num)
        /\ Send(<<Reorg(begin_block_num)>>)
        /\ phase' = "block"
        /\ work' = bs
        /\ UNCHANGED <<db, idx, relevant>>

\* process_block, from its start to the loop over the transactions
BlockRows(b) == UpsertBlock(txn, b)

\* Mutant of StartBlock: the query for the spent outputs runs on the pool.
StartBlockOnPool ==
    LET b == Head(work)
        s == UpsertTransactions(BlockRows(b), b)
    IN  /\ phase = "block"
        /\ BlockKeyHolds(BlockRows(b), b)
        /\ txn' = s
        /\ relevant' = RelevantUtxos(db, SpentIn(b))
        /\ idx' = 1
        /\ phase' = "tx"
        /\ UNCHANGED <<db, work, channel, receiving>>

StartBlock ==
    LET b == Head(work)
        s == UpsertTransactions(BlockRows(b), b)
    IN  /\ phase = "block"
        /\ BlockKeyHolds(BlockRows(b), b)
        /\ txn' = s
        /\ relevant' = RelevantUtxos(s, SpentIn(b))
        /\ idx' = 1
        /\ phase' = "tx"
        /\ UNCHANGED <<db, work, channel, receiving>>
-----------------------------------------------------------------------------
SumOf(os) == SumFunctionOnSet(Amount, os)

\* balance_updates: what transaction t, which spends the rows in spends, does
\* to the balance of address a.
BalanceUpdate(t, spends, a) ==
    SumOf({o \in TaprootOuts(t) : Owner[o] = a})
        - SumOf({o \in spends : Owner[o] = a})

\* The events of t; the order of one transaction's events is that of a HashMap.
TxEvents(n, t, spends) ==
    LET changed == {a \in Address : BalanceUpdate(t, spends, a) # 0}
    IN  SetToSeqs({Event(n, t, a, BalanceUpdate(t, spends, a)) : a \in changed})

CurrentTx == Txs[Head(work)][idx]
Spends == relevant \cap Ins[CurrentTx]

\* The rows after the transaction's spends; its outputs are created on these.
SpentRows == SpendUtxos(txn, Spends, Height[Head(work)])

\* process_block, one turn of the loop over the transactions, and the end of
\* the block after the last turn
ProcessTx ==
    LET b == Head(work)
        outs == TaprootOuts(CurrentTx)
        isLast == idx = Len(Txs[b])
    IN  /\ phase = "tx"
        /\ UtxoKeysFree(SpentRows, outs)
        /\ txn' = CreateUtxos(SpentRows, outs)
        /\ relevant' = IF isLast THEN {} ELSE relevant \ Spends
        /\ \E events \in TxEvents(Height[b], CurrentTx, Spends) :
               IF events = <<>> THEN UNCHANGED <<channel, receiving>>
                                ELSE Send(events)
        /\ idx' = IF isLast THEN 0 ELSE idx + 1
        /\ work' = IF isLast THEN Tail(work) ELSE work
        /\ phase' = CASE ~isLast -> "tx"
                      [] isLast /\ Len(work) > 1 -> "block"
                      [] OTHER -> "commit"
        /\ UNCHANGED db

\* Mutant of Commit: db_tx is dropped.
NoCommit ==
    /\ phase = "commit"
    /\ Close(db)
    /\ UNCHANGED <<channel, receiving>>

\* db_tx.commit() and its acknowledgement
Commit ==
    /\ phase = "commit"
    /\ Close(txn)
    /\ UNCHANGED <<channel, receiving>>

\* A statement the database rejects: the foreign key of a transaction row when
\* the block's own row was not inserted, or the primary key of a utxo row.
Rejected ==
    \/ phase = "block" /\ ~BlockKeyHolds(BlockRows(Head(work)), Head(work))
    \/ phase = "tx" /\ ~UtxoKeysFree(SpentRows, TaprootOuts(CurrentTx))

\* send().unwrap() without a receiver
SendPanics ==
    /\ ~receiving
    /\ phase = "tx"
    /\ UtxoKeysFree(SpentRows, TaprootOuts(CurrentTx))
    /\ \E a \in Address : BalanceUpdate(CurrentTx, Spends, a) # 0
=============================================================================
