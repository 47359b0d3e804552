------------------------------ MODULE Bitcoin ------------------------------
(***************************************************************************)
(* The names both halves of the indexer use.  A txid identifies its        *)
(* transaction and an address its owner, so both are atomic values.        *)
(***************************************************************************)
CONSTANTS
    Tx,         \* all transactions
    Coinbase,   \* the coinbase transactions
    Address,    \* the taproot (p2tr) addresses
    Null        \* "None" / SQL NULL

ASSUME NameAssumption ==
    /\ Coinbase \subseteq Tx
    /\ Null \notin Address
=============================================================================
