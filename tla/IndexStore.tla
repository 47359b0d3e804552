----------------------------- MODULE IndexStore -----------------------------
(***************************************************************************)
(* The tables the harvester writes (migrations/20241120123711_bitcoin.sql) *)
(* and the statements it runs on them (sqlx_postgres/bitcoin.rs).  A value *)
(* of the tables is a record, so that an open database transaction is a    *)
(* second such record that replaces the first when it commits:             *)
(*   blocks   the rows of btc_blocks (hash is the key, number is unique)   *)
(*   txs      btc_transactions: txid -> block_hash, or NoRow               *)
(*   utxos    btc_utxos: outpoint -> spent_block (Null when unspent), or   *)
(*            NoRow                                                        *)
(* Columns no statement of the harvester reads are left out.               *)
(***************************************************************************)
EXTENDS BlockTree

CONSTANT NoRow      \* a primary key without a row

ASSUME StoreAssumption ==
    /\ NoRow \notin Block
    /\ NoRow \notin Nat \cup {Null}

Stores == [blocks : SUBSET Block,
           txs    : [Tx -> Block \cup {NoRow}],
           utxos  : [OutPoint -> Nat \cup {Null, NoRow}]]

EmptyStore == [blocks |-> {},
               txs    |-> [t \in Tx |-> NoRow],
               utxos  |-> [o \in OutPoint |-> NoRow]]
-----------------------------------------------------------------------------
HasBlock(s, b) == b \in s.blocks

\* The greatest number stored; only asked of a store that has a block.
LatestBlockNum(s) ==
    CHOOSE n \in {Height[b] : b \in s.blocks} :
        \A b \in s.blocks : Height[b] <= n

\* Mutant of UpsertBlock: without the UNIQUE constraint on the number.
UpsertBlockByHash(s, b) == [s EXCEPT !.blocks = @ \cup {b}]

\* INSERT ... ON CONFLICT DO NOTHING: a row with the same number (hence also
\* one with the same hash) makes the statement a no-op, not an error.
UpsertBlock(s, b) ==
    IF \E c \in s.blocks : Height[c] = Height[b]
    THEN s
    ELSE [s EXCEPT !.blocks = @ \cup {b}]

\* The foreign key btc_transactions.block_hash -> btc_blocks.hash.
BlockKeyHolds(s, b) == b \in s.blocks

\* One upsert per transaction of b; a conflict on txid updates block_hash.
UpsertTransactions(s, b) ==
    [s EXCEPT !.txs = [t \in Tx |-> IF t \in TxSet(b) THEN b ELSE @[t]]]

\* Mutants of DeleteBlocksSince: one block too many; no cascade to the outputs.
DeleteOneMore(s, n) ==
    LET gone == {b \in s.blocks : Height[b] + 1 >= n}
    IN  [blocks |-> s.blocks \ gone,
         txs    |-> [t \in Tx |-> IF s.txs[t] \in gone THEN NoRow ELSE s.txs[t]],
         utxos  |-> [o \in OutPoint |-> IF s.txs[o[1]] \in gone THEN NoRow
                                                                ELSE s.utxos[o]]]
DeleteWithoutCascade(s, n) ==
    LET gone == {b \in s.blocks : Height[b] >= n}
    IN  [s EXCEPT !.blocks = @ \ gone,
                  !.txs = [t \in Tx |-> IF s.txs[t] \in gone THEN NoRow ELSE s.txs[t]]]

\* ON DELETE CASCADE takes the transactions of a deleted block, and the utxo
\* rows of a deleted transaction, with it.
DeleteBlocksSince(s, n) ==
    LET gone == {b \in s.blocks : Height[b] >= n}
    IN  [blocks |-> s.blocks \ gone,
         txs    |-> [t \in Tx |-> IF s.txs[t] \in gone THEN NoRow ELSE s.txs[t]],
         utxos  |-> [o \in OutPoint |-> IF s.txs[o[1]] \in gone THEN NoRow
                                                                ELSE s.utxos[o]]]

\* Mutant of UnspendSince: left out.
KeepSpent(s, n) == s

UnspendSince(s, n) ==
    [s EXCEPT !.utxos = [o \in OutPoint |->
        IF @[o] \in Nat /\ @[o] >= n THEN Null ELSE @[o]]]

\* The unspent rows among the given outpoints.
RelevantUtxos(s, os) == {o \in os : s.utxos[o] = Null}

SpendUtxos(s, os, n) ==
    [s EXCEPT !.utxos = [o \in OutPoint |-> IF o \in os THEN n ELSE @[o]]]

\* What GET processed/p2tr/{address}/utxo answers
UnspentByOwner(s, a) == {o \in OutPoint : Owner[o] = a /\ s.utxos[o] = Null}

\* A plain INSERT: a row that is there already violates the primary key.
UtxoKeysFree(s, os) == \A o \in os : s.utxos[o] = NoRow

CreateUtxos(s, os) ==
    [s EXCEPT !.utxos = [o \in OutPoint |-> IF o \in os THEN Null ELSE @[o]]]
=============================================================================
