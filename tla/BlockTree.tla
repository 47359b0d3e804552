----------------------------- MODULE BlockTree -----------------------------
(***************************************************************************)
(* The data the indexer reads: the tree of all blocks the Bitcoin node may *)
(* ever serve, with the transactions in them.  Everything here is constant *)
(* and external to the repository; the shape is that of the headers and    *)
(* bodies that harvester/client.rs hands to the rest of the code.          *)
(*                                                                         *)
(* A hash identifies its block and a txid its transaction, so blocks and   *)
(* transactions are atomic values.  One transaction may be in two blocks   *)
(* (it is mined again on the other side of a fork).                        *)
(***************************************************************************)
EXTENDS Bitcoin, Integers, Sequences, FiniteSets

CONSTANTS
    Block,      \* all blocks of the tree
    Parent,     \* header.previous_block_hash, Null for the genesis block
    Height,     \* header.height
    Txs,        \* body.txdata: the transactions of a block, in order
    OutPoint,   \* all outputs, each <<txid, vout>>
    Ins,        \* the outputs a transaction spends (its txin.previous_output)
    Owner,      \* the address an output pays to, Null when it is not p2tr
    Amount      \* the value of an output

ASSUME BlockAssumption ==
    /\ Null \notin Block
    /\ Null \notin Nat
    /\ Height \in [Block -> Nat]
    /\ Parent \in [Block -> Block \cup {Null}]
    /\ \A b \in Block : Height[b] = 0 <=> Parent[b] = Null
    /\ \A a, b \in Block : Height[a] = 0 /\ Height[b] = 0 => a = b
    /\ \A b \in Block : Parent[b] # Null => Height[Parent[b]] = Height[b] - 1

\* Every block has a coinbase transaction, so none is empty; and no block has a
\* transaction twice.  A transaction has finitely many inputs and outputs, and
\* a coinbase no input that spends an output.
ASSUME TxAssumption ==
    /\ Txs \in [Block -> Seq(Tx)]
    /\ \A b \in Block :
           /\ Len(Txs[b]) > 0
           /\ \A i, j \in DOMAIN Txs[b] : Txs[b][i] = Txs[b][j] => i = j
    /\ OutPoint \subseteq Tx \X Nat
    /\ Ins \in [Tx -> SUBSET OutPoint]
    /\ Owner \in [OutPoint -> Address \cup {Null}]
    /\ Amount \in [OutPoint -> Nat]
    /\ \A t \in Tx : IsFiniteSet({o \in OutPoint : o[1] = t}) /\ IsFiniteSet(Ins[t])
    /\ \A t \in Coinbase : Ins[t] = {}

TxSet(b) == {Txs[b][i] : i \in DOMAIN Txs[b]}

\* The outputs of t that the indexer tracks (script.is_p2tr()).
TaprootOuts(t) == {o \in OutPoint : o[1] = t /\ Owner[o] # Null}

\* The outputs some transaction of block b spends.
SpentIn(b) == UNION {Ins[t] : t \in TxSet(b)}

\* The blocks from b down to the genesis block.
Branch[b \in Block] ==
    {b} \cup (IF Parent[b] = Null THEN {} ELSE Branch[Parent[b]])

\* What the rules of Bitcoin say of a branch, for taproot outputs: no two of its
\* blocks create the same one, and none spends one that a higher block creates.
\* No definition needs it; it is what one theorem and the trees checked assume.
ValidBranches ==
    \A b \in Block : \A c, d \in Branch[b], o \in OutPoint :
        Owner[o] # Null /\ o[1] \in TxSet(d) =>
            /\ o[1] \in TxSet(c) => c = d
            /\ o \in SpentIn(c) => Height[d] <= Height[c]
=============================================================================
