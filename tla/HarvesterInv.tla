---------------------------- MODULE HarvesterInv ----------------------------
(***************************************************************************)
(* The inductive invariants behind the safety properties of Harvester.     *)
(* Shape and StoreInv hold of Spec, ChainInv of SteadySpec.  Invariants    *)
(* that serve one theorem only stand beside its proof.                     *)
(***************************************************************************)
EXTENDS Harvester

\* Control and data agree: what is set where.
Shape ==
    /\ ProcessorTypeOK
    /\ NodeTypeOK
    /\ receiving \in BOOLEAN
    /\ pc \in Live \cup {"stopped", "panicked"}
    /\ last_processed_block \in Block \cup {Null}
    /\ start_height \in Nat \cup {Null}
    /\ end_height \in Nat \cup {Null}
    /\ desired_height \in Nat
    /\ block \in Block \cup {Null}
    /\ used \in [Limited -> Nat]
    /\ phase # "idle" <=> Processing
    /\ phase \in {"block", "tx"} => work # <<>>
    /\ phase = "tx" => idx \in 1 .. Len(Txs[Head(work)])
    /\ pc \in {"walk", "process", "fork"} => block \in Block
    /\ pc \in {"scan", "walk", "process", "fork"} => last_processed_block \in Block
    /\ pc = "walk" => \A i \in DOMAIN work : Height[work[i]] # 0
    /\ pc \notin {"walk", "process", "fork"} => work = <<>>

\* The transactions of the current block whose outputs are not created yet.
Unprocessed ==
    IF phase = "tx"
    THEN {Txs[Head(work)][i] : i \in idx .. Len(Txs[Head(work)])}
    ELSE {}

\* The tables s are consistent but for the outputs of the transactions in
\* pending.  A transaction that pays to taproot belongs to the one stored block
\* it is in: its rows could not be created twice.
Consistent(s, pending) ==
    /\ \A t \in Tx : s.txs[t] # NoRow =>
           s.txs[t] \in s.blocks /\ t \in TxSet(s.txs[t])
    /\ \A o \in OutPoint : s.utxos[o] # NoRow =>
           Owner[o] # Null /\ s.txs[o[1]] # NoRow
    /\ \A b \in s.blocks : \A t \in TxSet(b) : \A o \in TaprootOuts(t) :
           s.utxos[o] # NoRow \/ (t \in pending /\ s.txs[t] = b)
    /\ \A b \in s.blocks : \A t \in TxSet(b) :
           s.txs[t] = b \/ t \in pending \/ TaprootOuts(t) = {}
    /\ \A o \in OutPoint : s.utxos[o] \in Nat =>
           \E b \in s.blocks : Height[b] = s.utxos[o] /\ o \in SpentIn(b)

StoreInv ==
    /\ phase = "tx" =>
           /\ Head(work) \in txn.blocks
           /\ \A t \in TxSet(Head(work)) : txn.txs[t] = Head(work)
           /\ \A o \in relevant : txn.utxos[o] # NoRow
    /\ Consistent(db, {})
    /\ Consistent(txn, Unprocessed)
-----------------------------------------------------------------------------
\* The last processed block and the stored chain: nothing is stored above its
\* successor's height, and unless a block is stored there (a commit whose reply
\* was lost) it is itself stored.
Follows(last, S) ==
    /\ last = Null => S = {}
    /\ last # Null /\ S # {} =>
           /\ \A b \in S : Height[b] <= Height[last] + 1
           /\ last \in S \/ \E b \in S : Height[b] = Height[last] + 1

\* process(): the block follows the last one, or is the first.
Processed ==
    /\ work \in {<<>>, <<block>>}
    /\ phase \in {"block", "tx"} => work = <<block>>
    /\ \/ block = last_processed_block /\ db.blocks = {}
       \/ /\ Parent[block] = last_processed_block
          /\ Height[block] = Height[last_processed_block] + 1
    /\ phase = "block" => txn.blocks = db.blocks
    /\ phase \in {"tx", "commit"} =>
           /\ txn.blocks = db.blocks \cup {block}
           /\ \A b \in db.blocks : Height[b] = Height[block] => b = block

\* get_fork_blocks(): the blocks collected go down from the new head, one by
\* one, and none is stored.
Walked ==
    /\ Height[block] = Height[last_processed_block] + 1
    /\ work # <<>> => work[1] = block
    /\ \A i \in DOMAIN work :
           /\ Height[work[i]] = Height[block] - (i - 1)
           /\ work[i] \notin db.blocks
           /\ i + 1 \in DOMAIN work => work[i + 1] = Parent[work[i]]

\* process_fork(): what is stored and what is left to store are one chain, up
\* to the new head.
Forked ==
    LET all == txn.blocks \cup {work[i] : i \in DOMAIN work}
    IN  /\ Linked(all)
        /\ block \in all
        /\ \A b \in all : Height[b] <= Height[block]
        /\ Height[block] = Height[last_processed_block] + 1
        /\ phase = "tx" => Head(work) \in txn.blocks
        /\ phase = "commit" => work = <<>>

ChainInv ==
    /\ Linked(db.blocks)
    /\ Follows(last_processed_block, db.blocks)
    /\ pc = "first" => last_processed_block = Null
    /\ pc = "process" => Processed
    /\ pc = "walk" => Walked
    /\ pc = "fork" => Forked
=============================================================================
