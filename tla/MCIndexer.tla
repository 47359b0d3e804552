------------------------------- MODULE MCIndexer -------------------------------
(***************************************************************************)
(* Indexer on the tree of MCHarvester, with a short cooldown.              *)
(***************************************************************************)
EXTENDS Indexer, MCHarvester

\* No coinbase pays to taproot.
MCOwnerNoCoinbase ==
    [o \in MCOutPoint |-> IF o[1] \in MCCoinbase THEN Null ELSE MCOwner[o]]

\* Nor is there an address but A.
MCOneAddress == {"A"}
MCOwnerOne ==
    [o \in MCOutPoint |-> IF MCOwnerNoCoinbase[o] = "A" THEN "A" ELSE Null]

\* Bounds: a command arrives and the database fails once under the aggregator;
\* it fails once there and the process is started again.
FollowTrouble == [Calm EXCEPT !["command"] = 1, !["receiver"] = 1]
CrashTrouble == [Calm EXCEPT !["receiver"] = 1, !["restart"] = 1]
=============================================================================
