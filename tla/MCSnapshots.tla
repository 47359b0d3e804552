------------------------------ MODULE MCSnapshots ------------------------------
(***************************************************************************)
(* Snapshots with days of two hours, weeks of two days and months of three *)
(* days.                                                                   *)
(***************************************************************************)
EXTENDS Snapshots

MCTx == {"ca1", "pay", "ca2", "move"}

MCCoinbase == {"ca1", "ca2"}

MCAddress == {"A"}

\* A is paid in block 1 and pays in block 2; block 2 is replaced, which takes the
\* payment back, and A pays again; the coinbase of block 1 is credited late.
MCScript ==
    <<Event(1, "ca1", "A", 5), Event(1, "pay", "A", 3), Event(2, "move", "A", -2),
      Reorg(2), Event(3, "move", "A", -1)>>
=============================================================================
