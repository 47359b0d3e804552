----------------------------- MODULE ChainProofs -----------------------------
(***************************************************************************)
(* The stored blocks are one chain, throughout a run of the harvester: the *)
(* inductive invariant ChainInv, relative to Shape.                        *)
(***************************************************************************)
EXTENDS HarvesterProofs

\* What the proofs use of the tree of blocks.
LEMMA BlockFacts ==
    /\ Null \notin Block
    /\ \A b \in Block : Height[b] \in Nat
    /\ \A b \in Block : Height[b] # 0 =>
           Parent[b] \in Block /\ Height[Parent[b]] = Height[b] - 1
    /\ \A a, b \in Block : Height[a] = 0 /\ Height[b] = 0 => a = b
BY BlockAssumption

-----------------------------------------------------------------------------
(***************************************************************************)
(* The branch of a block.                                                  *)
(***************************************************************************)
BranchStep(f, b) == {b} \cup (IF Parent[b] = Null THEN {} ELSE f[Parent[b]])

\* A set of blocks that has with a block its parent.
Closed(U) == \A b \in U : Parent[b] # Null => Parent[b] \in U

\* The recursive definition of Branch has a solution, the smallest closed sets.
LEMMA BranchUnfold ==
    ASSUME NEW b \in Block
    PROVE  Branch[b] = BranchStep(Branch, b)
<1> DEFINE Up(x) == {U \in SUBSET Block : x \in U /\ Closed(U)}
           g == [x \in Block |-> {c \in Block : \A U \in Up(x) : c \in U}]
<1>1. \A x \in Block : Parent[x] # Null => Parent[x] \in Block
    BY BlockAssumption
<1>2. ASSUME NEW x \in Block
      PROVE  g[x] = BranchStep(g, x)
    <2>1. x \in g[x]
        OBVIOUS
    <2>2. CASE Parent[x] = Null
        <3>1. {x} \in Up(x)
            BY <2>2 DEF Closed
        <3> QED
            BY <2>1, <2>2, <3>1 DEF BranchStep
    <2>3. CASE Parent[x] # Null
        <3> DEFINE p == Parent[x]
        <3>1. p \in Block
            BY <1>1, <2>3
        <3>2. Up(x) \subseteq Up(p)
            BY <2>3 DEF Closed
        <3>3. g[p] \subseteq g[x]
            BY <3>1, <3>2
        <3>4. {x} \cup g[p] \in Up(x)
            <4>1. p \in g[p]
                BY <3>1
            <4>2. ASSUME NEW y \in g[p], Parent[y] # Null
                  PROVE  Parent[y] \in g[p]
                BY <1>1, <3>1, <4>2 DEF Closed
            <4>3. {x} \cup g[p] \in SUBSET Block
                BY <3>1
            <4> HIDE DEF g
            <4> QED
                BY <4>1, <4>2, <4>3 DEF Closed
        <3>5. g[x] \subseteq {x} \cup g[p]
            BY <3>4
        <3> QED
            BY <2>1, <2>3, <3>3, <3>5 DEF BranchStep
    <2> QED
        BY <2>2, <2>3
<1> HIDE DEF g
<1>3. g = [x \in Block |-> BranchStep(g, x)]
    <2>1. g = [x \in Block |-> g[x]]
        BY DEF g
    <2> QED
        BY <1>2, <2>1
<1>4. Branch = [x \in Block |-> BranchStep(Branch, x)]
    BY <1>3, Zenon DEF Branch, BranchStep
<1> QED
    BY <1>4

\* A branch has one block of each height up to that of its head at least, none
\* above it, and the branches of its blocks.
Descends(b) ==
    /\ b \in Branch[b]
    /\ Branch[b] \subseteq Block
    /\ \A c \in Branch[b] : Height[c] <= Height[b]
    /\ \A c \in Branch[b] : Branch[c] \subseteq Branch[b]
    /\ \A n \in 0 .. Height[b] : \E c \in Branch[b] : Height[c] = n

LEMMA BranchDescends ==
    ASSUME NEW b \in Block
    PROVE  Descends(b)
<1> DEFINE T == {n \in Nat : \A x \in Block : Height[x] = n => Descends(x)}
<1>1. ASSUME NEW x \in Block, Height[x] = 0
      PROVE  Descends(x)
    <2>1. Branch[x] = {x}
        <3>1. Parent[x] = Null
            BY <1>1, BlockAssumption
        <3> QED
            BY <3>1, BranchUnfold DEF BranchStep
    <2> QED
        BY <1>1, <2>1 DEF Descends
<1>2. ASSUME NEW n \in Nat, n \in T, NEW x \in Block, Height[x] = n + 1
      PROVE  Descends(x)
    <2> DEFINE p == Parent[x]
    <2>1. p \in Block /\ Height[p] = n /\ p # Null
        BY <1>2, BlockFacts
    <2>2. Descends(p)
        BY <1>2, <2>1
    <2>3. Branch[x] = {x} \cup Branch[p]
        BY <2>1, BranchUnfold DEF BranchStep
    <2> HIDE DEF p
    <2>4. \A c \in Branch[x] : Height[c] <= Height[x]
        BY <1>2, <2>1, <2>2, <2>3, BlockFacts DEF Descends
    <2>5. \A c \in Branch[x] : Branch[c] \subseteq Branch[x]
        BY <2>2, <2>3 DEF Descends
    <2>6. ASSUME NEW m \in 0 .. Height[x]
          PROVE  \E c \in Branch[x] : Height[c] = m
        <3>1. CASE m = n + 1
            BY <1>2, <2>3, <3>1
        <3>2. CASE m # n + 1
            <4>1. m \in 0 .. Height[p]
                BY <1>2, <2>1, <3>2
            <4> QED
                BY <2>2, <2>3, <4>1 DEF Descends
        <3> QED
            BY <3>1, <3>2
    <2> QED
        BY <2>2, <2>3, <2>4, <2>5, <2>6 DEF Descends
<1>3. Nat \subseteq T
    <2>1. 0 \in T
        BY <1>1
    <2>2. \A n \in Nat : n \in T => n + 1 \in T
        BY <1>2
    <2> HIDE DEF T
    <2> QED
        BY <2>1, <2>2, NumberInduction
<1> QED
    BY <1>3, BlockFacts

\* The blocks of a chain are on the branch of its highest one.
LEMMA LinkedBranch ==
    ASSUME NEW S \in SUBSET Block, Linked(S), NEW b \in S,
           \A c \in S : Height[c] <= Height[b]
    PROVE  S \subseteq Branch[b]
<1> DEFINE T == {n \in Nat : \A d \in S : Height[d] = n =>
                     \A c \in S : Height[c] <= n => c \in Branch[d]}
<1>1. 0 \in T
    <2> SUFFICES ASSUME NEW d \in S, Height[d] = 0, NEW c \in S, Height[c] <= 0
                 PROVE  c \in Branch[d]
        OBVIOUS
    <2>1. c = d
        BY BlockFacts
    <2> QED
        BY <2>1, BranchDescends DEF Descends
<1>2. ASSUME NEW n \in Nat, n \in T
      PROVE  n + 1 \in T
    <2> SUFFICES ASSUME NEW d \in S, Height[d] = n + 1, NEW c \in S, Height[c] <= n + 1
                 PROVE  c \in Branch[d]
        OBVIOUS
    <2>1. CASE Height[c] = n + 1
        <3>1. c = d
            BY <2>1 DEF Linked
        <3> QED
            BY <3>1, BranchDescends DEF Descends
    <2>2. CASE Height[c] # n + 1
        <3>1. Height[c] <= n
            BY <2>2, BlockFacts
        <3>2. Parent[d] \in S /\ Height[Parent[d]] = n /\ Parent[d] # Null
            BY <3>1, BlockFacts DEF Linked
        <3>3. c \in Branch[Parent[d]]
            BY <1>2, <3>1, <3>2
        <3> QED
            BY <3>2, <3>3, BranchUnfold DEF BranchStep
    <2> QED
        BY <2>1, <2>2
<1>3. Nat \subseteq T
    <2> HIDE DEF T
    <2> QED
        BY <1>1, <1>2, NumberInduction
<1>4. Height[b] \in T
    BY <1>3, BlockFacts
<1> QED
    BY <1>4

-----------------------------------------------------------------------------
\* Nothing is stored when the service is first started.
LEMMA ChainInvInit == Init => ChainInv
BY DEF Init, ProcessorInit, EmptyStore, ChainInv, Linked, Follows
-----------------------------------------------------------------------------
(***************************************************************************)
(* The end of the database transaction.                                    *)
(***************************************************************************)

\* Whether the commit is acknowledged or its reply is lost, what it stores is a
\* chain that the block handled, and the last one before it, can go on from.
LEMMA CommitStoresChain ==
    ASSUME Shape, ChainInv, phase = "commit"
    PROVE  /\ Linked(txn.blocks)
           /\ Follows(block, txn.blocks)
           /\ Follows(last_processed_block, txn.blocks)
<1>1. /\ pc \in {"process", "fork"}
      /\ block \in Block /\ last_processed_block \in Block
      /\ db.blocks \subseteq Block /\ txn.blocks \subseteq Block
      /\ block # Null /\ last_processed_block # Null
    BY BlockFacts DEF Shape, Processing, ProcessorTypeOK, Stores
<1>2. Height[block] \in Nat /\ Height[last_processed_block] \in Nat
    BY <1>1, BlockFacts
<1>3. CASE pc = "process"
    <2>1. /\ txn.blocks = db.blocks \cup {block}
          /\ \A b \in db.blocks : Height[b] = Height[block] => b = block
          /\ Linked(db.blocks)
          /\ Follows(last_processed_block, db.blocks)
          /\ \/ block = last_processed_block /\ db.blocks = {}
             \/ /\ Parent[block] = last_processed_block
                /\ Height[block] = Height[last_processed_block] + 1
        BY <1>3 DEF ChainInv, Processed
    <2>2. CASE db.blocks = {}
        BY <1>1, <1>2, <2>1, <2>2 DEF Linked, Follows
    <2>3. CASE db.blocks # {}
        <3>1. /\ Parent[block] = last_processed_block
              /\ Height[block] = Height[last_processed_block] + 1
              /\ \A b \in db.blocks : Height[b] <= Height[block]
              /\ last_processed_block \in db.blocks \/ block \in db.blocks
            BY <1>1, <2>1, <2>3 DEF Follows
        <3>2. CASE block \in db.blocks
            <4>1. txn.blocks = db.blocks
                BY <2>1, <3>2
            <4>2. Follows(block, db.blocks)
                BY <1>1, <1>2, <3>1, <3>2, BlockFacts DEF Follows
            <4> QED
                BY <2>1, <4>1, <4>2, Zenon
        <3>3. CASE last_processed_block \in db.blocks
            <4>1. \A a, b \in txn.blocks : Height[a] = Height[b] => a = b
                BY <2>1 DEF Linked
            <4>2. \A a, b \in txn.blocks : Height[a] < Height[b] => Parent[b] \in txn.blocks
                BY <1>1, <1>2, <2>1, <3>1, <3>3, BlockFacts DEF Linked
            <4> QED
                BY <1>1, <1>2, <2>1, <3>1, <4>1, <4>2, BlockFacts DEF Linked, Follows
        <3> QED
            BY <3>1, <3>2, <3>3
    <2> QED
        BY <2>2, <2>3
<1>4. CASE pc = "fork"
    <2>1. /\ Linked(txn.blocks)
          /\ block \in txn.blocks
          /\ \A b \in txn.blocks : Height[b] <= Height[block]
          /\ Height[block] = Height[last_processed_block] + 1
        <3>1. work = <<>> /\ {work[i] : i \in DOMAIN work} = {}
            BY <1>4 DEF ChainInv, Forked
        <3> QED
            BY <1>4, <3>1 DEF ChainInv, Forked
    <2> QED
        BY <1>1, <1>2, <2>1, BlockFacts DEF Follows
<1> QED
    BY <1>1, <1>3, <1>4

\* The transaction ends otherwise than with success, and the loop with it.
LEMMA ChainInvDrop ==
    ASSUME Shape, ChainInv, Drop \/ Close(db),
           last_processed_block' = last_processed_block,
           pc' \in {"select", "stopped", "panicked"}
    PROVE  ChainInv'
<1>1. CASE Close(db)
    BY <1>1 DEF Close, ChainInv
<1>2. CASE phase = "commit" /\ Close(txn)
    BY <1>2, CommitStoresChain DEF Close, ChainInv
<1> QED
    BY <1>1, <1>2 DEF Drop

\* An acknowledged commit: the loop goes on from the block it handled.
LEMMA ChainInvBlockDone ==
    ASSUME Shape, ChainInv, BlockDone
    PROVE  ChainInv'
<1>1. /\ phase = "commit" /\ db' = txn
      /\ last_processed_block' = block /\ pc' = "scan"
    BY DEF BlockDone, Commit, Close
<1> QED
    BY <1>1, CommitStoresChain DEF ChainInv
-----------------------------------------------------------------------------
(***************************************************************************)
(* One block that follows the last one, or is the first.                   *)
(***************************************************************************)

\* The first block of a run is processed on empty tables, or not at all here:
\* ChainInv has no block stored before the task has a last one.
LEMMA ChainInvFirstBlock ==
    ASSUME Shape, ChainInv, FirstBlock
    PROVE  ChainInv'
<1>1. PICK b \in Block : /\ last_processed_block' = b /\ block' = b
                         /\ work' = <<b>> /\ phase' = "block"
                         /\ txn' = db /\ db' = db /\ pc' = "process"
    BY DEF FirstBlock, Process, ScannedAt
<1>2. db.blocks = {}
    BY DEF ChainInv, Follows, FirstBlock
<1>3. Processed'
    BY <1>1, <1>2 DEF Processed
<1>4. Follows(b, {})
    BY BlockFacts DEF Follows
<1> QED
    BY <1>1, <1>2, <1>3, <1>4 DEF ChainInv

\* The next block continues the last one, or a fork is to be walked.
LEMMA ChainInvScan ==
    ASSUME Shape, ChainInv, ScanNext \/ ScanFork
    PROVE  ChainInv'
<1>1. CASE ScanNext
    <2>1. PICK b \in Block :
              /\ Parent[b] = last_processed_block
              /\ Height[b] = Height[last_processed_block] + 1
              /\ block' = b /\ work' = <<b>> /\ phase' = "block"
              /\ txn' = db /\ db' = db /\ pc' = "process"
              /\ last_processed_block' = last_processed_block
        BY <1>1 DEF ScanNext, Process, ScannedAt, NextNum, loopVars
    <2>2. Processed'
        BY <2>1 DEF Processed
    <2> QED
        BY <2>1, <2>2 DEF ChainInv
<1>2. CASE ScanFork
    <2>1. PICK b \in Block :
              /\ Height[b] = Height[last_processed_block] + 1
              /\ block' = b /\ work' = <<>> /\ db' = db /\ pc' = "walk"
              /\ last_processed_block' = last_processed_block
        BY <1>2 DEF ScanFork, ScannedAt, NextNum, loopVars, processorVars, Shape
    <2>2. Walked'
        BY <2>1 DEF Walked
    <2> QED
        BY <2>1, <2>2 DEF ChainInv
<1> QED
    BY <1>1, <1>2

\* A block's own row: it is there, next to the blocks that were.
LEMMA BlockRowsFacts ==
    ASSUME Shape, phase = "block", BlockKeyHolds(BlockRows(Head(work)), Head(work))
    PROVE  /\ BlockRows(Head(work)).blocks = txn.blocks \cup {Head(work)}
           /\ \/ Head(work) \in txn.blocks
              \/ \A c \in txn.blocks : Height[c] # Height[Head(work)]
BY DEF BlockKeyHolds, BlockRows, UpsertBlock, Shape, ProcessorTypeOK, Stores

\* The blocks of a list are its head and those of its tail.
LEMMA ListedFacts ==
    ASSUME NEW S, NEW s \in Seq(S), s # <<>>
    PROVE  /\ {s[i] : i \in DOMAIN s} = {Head(s)} \cup {Tail(s)[i] : i \in DOMAIN Tail(s)}
           /\ Head(s) \in S
<1>1. /\ Head(s) = s[1] /\ Len(s) \in Nat /\ Len(s) >= 1 /\ DOMAIN s = 1 .. Len(s)
      /\ DOMAIN Tail(s) = 1 .. Len(s) - 1
      /\ \A i \in 1 .. Len(s) - 1 : Tail(s)[i] = s[i + 1]
    OBVIOUS
<1>2. ASSUME NEW i \in 1 .. Len(s)
      PROVE  s[i] \in {Head(s)} \cup {Tail(s)[j] : j \in DOMAIN Tail(s)}
    <2>1. CASE i = 1
        BY <1>1, <2>1
    <2>2. CASE i # 1
        <3>1. i - 1 \in 1 .. Len(s) - 1 /\ Tail(s)[i - 1] = s[i]
            BY <1>1, <2>2
        <3> QED
            BY <1>1, <3>1
    <2> QED
        BY <2>1, <2>2
<1>3. ASSUME NEW j \in 1 .. Len(s) - 1
      PROVE  j + 1 \in 1 .. Len(s) /\ Tail(s)[j] = s[j + 1]
    BY <1>1
<1> QED
    BY <1>1, <1>2, <1>3

\* A block's row joins the chain of the open transaction.
LEMMA ChainInvStartBlock ==
    ASSUME Shape, ChainInv, ProcessorStep, StartBlock
    PROVE  ChainInv'
<1> DEFINE b == Head(work)
<1>1. /\ phase = "block" /\ phase' = "tx" /\ work' = work /\ db' = db
      /\ pc' = pc /\ last_processed_block' = last_processed_block /\ block' = block
      /\ txn' = UpsertTransactions(BlockRows(b), b)
      /\ BlockKeyHolds(BlockRows(b), b)
      /\ pc \in {"process", "fork"}
    BY DEF ProcessorStep, StartBlock, loopVars, Processing
<1>2. /\ txn'.blocks = txn.blocks \cup {b}
      /\ b \in txn.blocks \/ \A c \in txn.blocks : Height[c] # Height[b]
    BY <1>1, BlockRowsFacts DEF UpsertTransactions
<1>3. work \in Seq(Block) /\ work # <<>>
    BY <1>1 DEF Shape, ProcessorTypeOK
<1>4. ASSUME pc = "process"
      PROVE  Processed'
    <2>1. /\ work = <<block>> /\ txn.blocks = db.blocks
          /\ \/ block = last_processed_block /\ db.blocks = {}
             \/ /\ Parent[block] = last_processed_block
                /\ Height[block] = Height[last_processed_block] + 1
        BY <1>1, <1>4 DEF ChainInv, Processed
    <2>2. b = block
        BY <2>1
    <2>3. \A c \in db.blocks : Height[c] = Height[block] => c = block
        BY <1>2, <2>1, <2>2 DEF ChainInv, Linked
    <2> QED
        BY <1>1, <1>2, <2>1, <2>2, <2>3 DEF Processed
<1>5. ASSUME pc = "fork"
      PROVE  Forked'
    <2>1. b \in {work[i] : i \in DOMAIN work}
        BY <1>3
    <2>2. txn'.blocks \cup {work'[i] : i \in DOMAIN work'}
              = txn.blocks \cup {work[i] : i \in DOMAIN work}
        BY <1>1, <1>2, <2>1
    <2> QED
        BY <1>1, <1>2, <1>5, <2>2 DEF ChainInv, Forked
<1> QED
    BY <1>1, <1>4, <1>5 DEF ChainInv

\* A transaction does not touch btc_blocks; after the last one a fork goes on
\* with its next block.
LEMMA ChainInvProcessTx ==
    ASSUME Shape, ChainInv, ProcessorStep, ProcessTx
    PROVE  ChainInv'
<1>1. /\ phase = "tx" /\ db' = db /\ txn'.blocks = txn.blocks
      /\ pc' = pc /\ last_processed_block' = last_processed_block /\ block' = block
      /\ pc \in {"process", "fork"}
    BY DEF ProcessorStep, ProcessTx, loopVars, Processing, SpentRows, CreateUtxos, SpendUtxos
<1>2. /\ work \in Seq(Block) /\ work # <<>> /\ Len(work) \in Nat
    BY <1>1 DEF Shape, ProcessorTypeOK
<1>3. \/ work' = work /\ phase' = "tx"
      \/ work' = Tail(work) /\ phase' = "block" /\ Len(work) > 1
      \/ work' = Tail(work) /\ phase' = "commit" /\ Len(work) <= 1
    BY <1>2 DEF ProcessTx
<1>4. ASSUME pc = "process"
      PROVE  Processed'
    <2>1. work = <<block>> /\ Len(work) = 1
        BY <1>1, <1>4 DEF ChainInv, Processed
    <2>2. /\ work' \in {<<>>, <<block>>}
          /\ (phase' = "tx" /\ work' = work) \/ phase' = "commit"
        BY <1>3, <2>1
    <2> QED
        BY <1>1, <1>4, <2>1, <2>2 DEF ChainInv, Processed
<1>5. ASSUME pc = "fork"
      PROVE  Forked'
    <2>1. Head(work) \in txn.blocks
        BY <1>1, <1>5 DEF ChainInv, Forked
    <2>2. txn'.blocks \cup {work'[i] : i \in DOMAIN work'}
              = txn.blocks \cup {work[i] : i \in DOMAIN work}
        <3>1. CASE work' = work
            BY <1>1, <3>1
        <3>2. CASE work' = Tail(work)
            <4>1. {work[i] : i \in DOMAIN work}
                      = {Head(work)} \cup {Tail(work)[i] : i \in DOMAIN Tail(work)}
                BY <1>2, ListedFacts
            <4> QED
                BY <1>1, <2>1, <3>2, <4>1
        <3> QED
            BY <1>3, <3>1, <3>2
    <2>3. phase' = "commit" => work' = <<>>
        BY <1>2, <1>3
    <2>4. phase' = "tx" => Head(work') \in txn'.blocks
        BY <1>1, <1>3, <2>1
    <2> QED
        BY <1>1, <1>5, <2>2, <2>3, <2>4 DEF ChainInv, Forked
<1> QED
    BY <1>1, <1>4, <1>5 DEF ChainInv
-----------------------------------------------------------------------------
(***************************************************************************)
(* The fork: from the new head down to a stored block, and up again.       *)
(***************************************************************************)

\* get_fork_blocks() takes one step down the fork.
LEMMA ChainInvWalkBack ==
    ASSUME Shape, ChainInv, WalkBack
    PROVE  ChainInv'
<1>1. /\ pc = "walk" /\ pc' = pc /\ db' = db /\ block' = block
      /\ last_processed_block' = last_processed_block
      /\ work' = Append(work, CurrentBlock)
      /\ CurrentBlock \notin db.blocks
    BY DEF WalkBack, AncestorFound, HasBlock, loopVars
<1>2. /\ work \in Seq(Block) /\ block \in Block
      /\ Len(work) \in Nat /\ DOMAIN work = 1 .. Len(work)
      /\ \A i \in 1 .. Len(work) : work[i] \in Block /\ Height[work[i]] # 0
      /\ Height[block] \in Nat
    BY <1>1, BlockFacts DEF Shape, ProcessorTypeOK
<1>3. Walked
    BY <1>1 DEF ChainInv
<1>4. /\ DOMAIN work' = 1 .. Len(work) + 1
      /\ \A i \in 1 .. Len(work) : work'[i] = work[i]
      /\ work'[Len(work) + 1] = CurrentBlock
    BY <1>1, <1>2
<1>5. /\ Height[CurrentBlock] = Height[block] - Len(work)
      /\ work = <<>> => CurrentBlock = block
      /\ Len(work) > 0 => CurrentBlock = Parent[work[Len(work)]]
    <2>1. CASE work = <<>>
        BY <1>2, <2>1 DEF CurrentBlock
    <2>2. CASE work # <<>>
        <3>1. /\ Len(work) \in 1 .. Len(work)
              /\ CurrentBlock = Parent[work[Len(work)]]
            BY <1>2, <2>2 DEF CurrentBlock, Last
        <3>2. Height[work[Len(work)]] = Height[block] - (Len(work) - 1)
            BY <1>2, <1>3, <3>1 DEF Walked
        <3> QED
            BY <1>2, <2>2, <3>1, <3>2, BlockFacts
    <2> QED
        BY <2>1, <2>2
<1>6. ASSUME NEW i \in DOMAIN work'
      PROVE  /\ Height[work'[i]] = Height[block] - (i - 1)
             /\ work'[i] \notin db.blocks
             /\ i + 1 \in DOMAIN work' => work'[i + 1] = Parent[work'[i]]
    <2>1. CASE i = Len(work) + 1
        BY <1>1, <1>2, <1>4, <1>5, <2>1
    <2>2. CASE i = Len(work)
        BY <1>1, <1>2, <1>3, <1>4, <1>5, <1>6, <2>2 DEF Walked
    <2>3. CASE i + 1 \in 1 .. Len(work)
        BY <1>1, <1>2, <1>3, <1>4, <1>6, <2>3 DEF Walked
    <2> QED
        BY <1>2, <1>4, <1>6, <2>1, <2>2, <2>3
<1>7. work'[1] = block
    <2>1. CASE work = <<>>
        BY <1>2, <1>4, <1>5, <2>1
    <2>2. CASE work # <<>>
        BY <1>2, <1>3, <1>4, <2>2 DEF Walked
    <2> QED
        BY <2>1, <2>2
<1>8. Walked'
    BY <1>1, <1>3, <1>6, <1>7 DEF Walked
<1> QED
    BY <1>1, <1>8 DEF ChainInv

\* What is stored below the fork and the fork's blocks make one chain: the
\* lowest of the fork is a child of a stored block, or of the genesis block.
LEMMA ForkLinks ==
    ASSUME Shape, ChainInv, pc = "walk", AncestorFound, work # <<>>,
           NEW all, NEW kept,
           kept = {b \in db.blocks : Height[b] < Height[Last(work)]},
           all = kept \cup {work[i] : i \in DOMAIN work}
    PROVE  /\ Linked(all)
           /\ block \in all
           /\ \A b \in all : Height[b] <= Height[block]
<1> DEFINE n == Len(work)
<1>1. /\ n \in Nat /\ n >= 1 /\ DOMAIN work = 1 .. n /\ Last(work) = work[n]
      /\ \A i \in 1 .. n : work[i] \in Block /\ Height[work[i]] # 0
      /\ block \in Block /\ Height[block] \in Nat
      /\ db.blocks \subseteq Block
    BY BlockFacts DEF Shape, ProcessorTypeOK, Stores, Last
<1>2. /\ work[1] = block
      /\ \A i \in 1 .. n : Height[work[i]] = Height[block] - (i - 1)
      /\ \A i \in 1 .. n : i + 1 \in 1 .. n => work[i + 1] = Parent[work[i]]
      /\ Linked(db.blocks)
    BY <1>1 DEF ChainInv, Walked
<1>3. /\ CurrentBlock = Parent[work[n]]
      /\ Height[CurrentBlock] = 0 \/ CurrentBlock \in db.blocks
      /\ CurrentBlock \in Block
      /\ Height[CurrentBlock] = Height[work[n]] - 1
    BY <1>1, BlockFacts DEF CurrentBlock, AncestorFound, HasBlock
<1> HIDE DEF n
<1>4. /\ \A i \in 1 .. n : work[i] \in all
      /\ \A b \in all : b \in kept \/ \E i \in 1 .. n : b = work[i]
    <2>1. DOMAIN work = 1 .. n
        BY <1>1
    <2> QED
        BY <2>1
<1>5. /\ \A b \in all : b \in Block /\ Height[b] \in Nat
      /\ \A b \in kept : b \in db.blocks /\ Height[b] < Height[work[n]]
      /\ \A i \in 1 .. n : Height[work[i]] >= Height[work[n]]
                           /\ Height[work[i]] <= Height[block]
    BY <1>1, <1>2, BlockFacts
<1>6. ASSUME NEW a \in all, NEW b \in all, Height[a] = Height[b]
      PROVE  a = b
    <2>1. CASE a \in kept /\ b \in kept
        BY <1>2, <1>5, <1>6, <2>1 DEF Linked
    <2>2. ASSUME NEW i \in 1 .. n, NEW j \in 1 .. n, a = work[i], b = work[j]
          PROVE  a = b
        <3>1. Height[work[i]] = Height[block] - (i - 1)
            BY <1>2
        <3>2. Height[work[j]] = Height[block] - (j - 1)
            BY <1>2
        <3>3. i \in Int /\ j \in Int /\ Height[block] \in Int
            BY <1>1
        <3>4. i = j
            BY <1>6, <2>2, <3>1, <3>2, <3>3
        <3> QED
            BY <2>2, <3>4
    <2>3. ASSUME NEW i \in 1 .. n, NEW c \in kept
          PROVE  Height[c] # Height[work[i]]
        BY <1>1, <1>5, BlockFacts
    <2> QED
        BY <1>4, <1>6, <2>1, <2>2, <2>3
<1>7. ASSUME NEW a \in all, NEW b \in all, Height[a] < Height[b]
      PROVE  Parent[b] \in all
    <2>1. CASE b \in kept
        <3>1. a \in kept
            BY <1>1, <1>5, <1>7, <2>1
        <3>2. Parent[b] \in db.blocks
            BY <1>2, <1>5, <1>7, <2>1, <3>1 DEF Linked
        <3>3. Height[Parent[b]] = Height[b] - 1
            BY <1>5, <1>7, BlockFacts
        <3> QED
            BY <1>1, <1>5, <2>1, <3>2, <3>3
    <2>2. ASSUME NEW i \in 1 .. n, b = work[i], i # n
          PROVE  Parent[b] \in all
        <3>1. i + 1 \in 1 .. n
            BY <1>1, <2>2
        <3>2. work[i + 1] = Parent[b]
            BY <1>2, <2>2, <3>1
        <3> QED
            BY <1>4, <3>1, <3>2
    <2>3. CASE b = work[n]
        <3>1. Height[CurrentBlock] < Height[work[n]]
            BY <1>1, <1>3, BlockFacts
        <3>2. CASE CurrentBlock \in db.blocks
            BY <1>1, <1>3, <2>3, <3>1, <3>2
        <3>3. CASE Height[CurrentBlock] = 0
            <4>1. Height[a] = 0
                BY <1>3, <1>5, <1>7, <2>3, <3>3
            <4>2. a = CurrentBlock
                BY <1>3, <1>5, <3>3, <4>1, BlockFacts
            <4> QED
                BY <1>3, <2>3, <4>2
        <3> QED
            BY <1>3, <3>2, <3>3
    <2> QED
        BY <1>4, <2>1, <2>2, <2>3
<1>8. block \in all
    <2>1. 1 \in 1 .. n
        BY <1>1
    <2> QED
        BY <1>4, <1>2, <2>1
<1>9. \A b \in all : Height[b] <= Height[block]
    <2>1. Height[work[n]] <= Height[block] /\ Height[work[n]] \in Nat
        BY <1>1, <1>5, BlockFacts
    <2>2. ASSUME NEW b \in kept
          PROVE  Height[b] <= Height[block]
        BY <1>1, <1>5, <2>1, BlockFacts
    <2> QED
        BY <1>4, <1>5, <2>2
<1> QED
    BY <1>6, <1>7, <1>8, <1>9 DEF Linked

\* process_fork() opens its transaction on the lower part of the chain.
LEMMA ChainInvStartFork ==
    ASSUME Shape, ChainInv, StartFork
    PROVE  ChainInv'
<1>1. /\ pc = "walk" /\ AncestorFound /\ work # <<>>
      /\ pc' = "fork" /\ phase' = "block" /\ work' = work /\ db' = db
      /\ block' = block /\ last_processed_block' = last_processed_block
      /\ txn' = UnspendSince(DeleteBlocksSince(db, Height[Last(work)]), Height[Last(work)])
    BY DEF StartFork, ProcessFork, loopVars
<1>2. /\ db.blocks \subseteq Block
      /\ Last(work) \in Block
    BY <1>1 DEF Shape, ProcessorTypeOK, Stores, Last
<1>3. txn'.blocks = {b \in db.blocks : Height[b] < Height[Last(work)]}
    BY <1>1, <1>2, BlockFacts DEF UnspendSince, DeleteBlocksSince
<1>4. Height[block] = Height[last_processed_block] + 1
    BY <1>1 DEF ChainInv, Walked
<1>5. LET all == txn'.blocks \cup {work[i] : i \in DOMAIN work}
      IN  /\ Linked(all)
          /\ block \in all
          /\ \A b \in all : Height[b] <= Height[block]
    BY <1>1, <1>3, ForkLinks
<1>6. Forked'
    BY <1>1, <1>4, <1>5 DEF Forked
<1> QED
    BY <1>1, <1>6 DEF ChainInv
-----------------------------------------------------------------------------
\* The remaining steps of a run leave the tables, the last block and what is
\* being done to them alone.
LEMMA ChainInvStutter ==
    ASSUME Shape, ChainInv,
           BeginHarvest \/ HarvestDone \/ NotMinedYet \/ NodeStep
               \/ ReceiverDropped \/ UNCHANGED vars
    PROVE  ChainInv'
<1>1. /\ UNCHANGED <<db, txn, phase, work, last_processed_block>>
      /\ \/ UNCHANGED <<pc, block>>
         \/ pc' \in {"scan", "select"}
         \/ pc' = "first" /\ last_processed_block = Null
    BY DEF BeginHarvest, HarvestDone, NotMinedYet, NodeStep, ReceiverDropped,
           vars, processorVars, loopVars, Leave
<1>2. CASE UNCHANGED <<pc, block>>
    BY <1>1, <1>2 DEF ChainInv, Processed, Walked, Forked
<1>3. CASE pc' \in {"scan", "select"} \/ (pc' = "first" /\ last_processed_block = Null)
    BY <1>1, <1>3 DEF ChainInv
<1> QED
    BY <1>1, <1>2, <1>3

\* Every step of a run of the harvester keeps the chain.
LEMMA ChainInvStep == Shape /\ ChainInv /\ [SteadyNext]_vars => ChainInv'
<1> SUFFICES ASSUME Shape, ChainInv, [SteadyNext]_vars
             PROVE  ChainInv'
    OBVIOUS
<1>1. CASE FirstBlock
    BY <1>1, ChainInvFirstBlock
<1>2. CASE ScanNext \/ ScanFork
    BY <1>2, ChainInvScan
<1>3. CASE WalkBack
    BY <1>3, ChainInvWalkBack
<1>4. CASE StartFork
    BY <1>4, ChainInvStartFork
<1>5. CASE ProcessorStep
    BY <1>5, ChainInvStartBlock, ChainInvProcessTx DEF ProcessorStep
<1>6. CASE BlockDone
    BY <1>6, ChainInvBlockDone
<1>7. CASE ForkPanics \/ EventPanics \/ RpcFails
    BY <1>7, ChainInvDrop DEF ForkPanics, EventPanics, RpcFails, Leave, loopVars
<1>8. CASE StatementRejected \/ DbFails
    BY <1>8, ChainInvDrop DEF StatementRejected, DbFails, Leave, loopVars, AfterError
<1>9. CASE Terminate \/ Pause \/ AutoScan
    BY <1>9, ChainInvDrop DEF Terminate, Pause, AutoScan, Interrupt, Leave, loopVars
<1>10. CASE BeginHarvest \/ HarvestDone \/ NotMinedYet \/ NodeStep
               \/ ReceiverDropped \/ UNCHANGED vars
    BY <1>10, ChainInvStutter
<1> QED
    BY <1>1, <1>2, <1>3, <1>4, <1>5, <1>6, <1>7, <1>8, <1>9, <1>10
    DEF SteadyNext, HarvestStep

\* Control and data agree in one run of the harvester too.
LEMMA SteadyShape == SteadySpec => []Shape
<1>1. [SteadyNext]_vars => [Next]_vars
    BY DEF Next
<1> QED
    BY <1>1, ShapeInit, ShapeStep, PTL DEF SteadySpec

\* The stored blocks are one chain for as long as the process runs, whatever
\* fails, forks or is paused meanwhile.
THEOREM StoredChain == SteadySpec => []ChainLinked
<1>1. ChainInv => ChainLinked
    BY DEF ChainInv, ChainLinked
<1> QED
    BY <1>1, ChainInvInit, ChainInvStep, SteadyShape, PTL DEF SteadySpec
=============================================================================
