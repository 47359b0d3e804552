---------------------------- MODULE BitcoinNode ----------------------------
(***************************************************************************)
(* The Bitcoin node behind rpc_client.rs, as harvester/client.rs uses it.  *)
(* The node is external: it has one tip, and moves to any branch that is   *)
(* longer (blocks have equal work here, so "more work" is "higher").  An   *)
(* answer for a hash never changes, which is why fetching a hash by number *)
(* and then the header and body by that hash is one step of the model.     *)
(***************************************************************************)
EXTENDS BlockTree

VARIABLE tip

NodeTypeOK == tip \in Block

NodeAdvance(b) ==
    /\ Height[b] > Height[tip]
    /\ tip' = b

\* Client::get_tip_number
TipNumber == Height[tip]

\* Client::scan_block(Some(n)): the block of the active chain with number n,
\* as a set that is empty when the node answers "Block height out of range".
ScannedAt(n) == {b \in Branch[tip] \cap Block : Height[b] = n}
=============================================================================
