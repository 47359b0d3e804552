---------------------------- MODULE MCHarvester ----------------------------
(***************************************************************************)
(* Small trees of blocks for Harvester.                                    *)
(*                                                                         *)
(*   g0 -- a1 -- a2 -- a3 -- a4       a4 lets the node return to branch a  *)
(*           \                                                             *)
(*            b2 -- b3                                                     *)
(***************************************************************************)
EXTENDS Harvester

MCBlock == {"g0", "a1", "a2", "a3", "a4", "b2", "b3"}

MCParent ==
    [b \in MCBlock |->
        CASE b = "g0" -> Null
          [] b = "a1" -> "g0"
          [] b \in {"a2", "b2"} -> "a1"
          [] b = "a3" -> "a2"
          [] b = "a4" -> "a3"
          [] b = "b3" -> "b2"]

MCHeight ==
    [b \in MCBlock |->
        CASE b = "g0" -> 0
          [] b = "a1" -> 1
          [] b \in {"a2", "b2"} -> 2
          [] b \in {"a3", "b3"} -> 3
          [] b = "a4" -> 4]

MCCoinbase == {"cg0", "ca1", "ca2", "ca3", "ca4", "cb2", "cb3"}

MCTx == MCCoinbase \cup {"pay", "move", "back"}

\* ca1 and pay fund A; move takes the output of pay to B, in a2 or, on the
\* other branch, in b3; back spends move.
MCTxs ==
    [b \in MCBlock |->
        CASE b = "g0" -> <<"cg0">>
          [] b = "a1" -> <<"ca1", "pay">>
          [] b = "a2" -> <<"ca2", "move">>
          [] b = "a3" -> <<"ca3", "back">>
          [] b = "a4" -> <<"ca4">>
          [] b = "b2" -> <<"cb2">>
          [] b = "b3" -> <<"cb3", "move">>]

\* The same tree with a transaction and its spender in one fork (b2, b3).
MCTxsInFork ==
    [MCTxs EXCEPT !["b2"] = <<"cb2", "move">>, !["b3"] = <<"cb3", "back">>]

MCOutPoint ==
    {<<"ca1", 0>>, <<"pay", 0>>, <<"pay", 1>>, <<"move", 0>>, <<"move", 1>>,
     <<"back", 0>>, <<"cb2", 0>>}

MCIns ==
    [t \in MCTx |->
        CASE t = "move" -> {<<"pay", 0>>}
          [] t = "back" -> {<<"move", 0>>}
          [] OTHER -> {}]

MCAddress == {"A", "B"}

\* The second output of pay is not taproot.
MCOwner ==
    [o \in MCOutPoint |->
        CASE o = <<"pay", 1>> -> Null
          [] o \in {<<"move", 0>>, <<"cb2", 0>>} -> "B"
          [] OTHER -> "A"]

MCAmount ==
    [o \in MCOutPoint |->
        CASE o = <<"pay", 0>> -> 3
          [] o = <<"move", 0>> -> 2
          [] OTHER -> 1]

\* The tree without the way back from b3 to branch a
MCShortBlock == MCBlock \ {"a3", "a4"}
Short(f) == [b \in MCShortBlock |-> f[b]]
MCShortParent == Short(MCParent)
MCShortHeight == Short(MCHeight)
MCShortTxs == Short(MCTxs)

\* These are trees that Bitcoin may have.
ASSUME MCBranches == ValidBranches

\* Bounds: nothing goes wrong; one of everything; one kind of trouble.
Calm == [k \in Limited |-> 0]
Trouble == [k \in Limited |-> IF k = "command" THEN 2 ELSE 1]
DbTrouble == [Calm EXCEPT !["db"] = 1]
OneRestart == [Calm EXCEPT !["restart"] = 1]
=============================================================================
