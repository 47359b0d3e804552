# Verification of the Bitcoin indexer

This project models the indexing service of this repository (`src/core` and
`src/bin/bis`): the task that follows a Bitcoin node's chain and writes its
taproot outputs to PostgreSQL, and the task that turns the balance changes the
first one sends into balances, with the commands that steer the first and the
snapshots of balances the web server answers from the second. The models are TLA+
modules, checked by TLC on small instances; every invariant and every action
property that a passing run checks is also proved with TLAPS for all values of the
constants (section 5), and liveness is what TLC alone checks (section 6). Paths are
relative to the repository (`src/...`); `harvester/mod.rs` stands for
`src/core/src/bitcoin/harvester/mod.rs` and so on.

## 1. The system

```
 Bitcoin node            commands (CLI, web server, signals)
   |  RPC                      |
 client.rs                 lib.rs   (queue of 100)
   \________   ________________/
            \ /
      harvester/mod.rs  --processor.rs-->  btc_blocks, btc_transactions, btc_utxos
             |
             |  unbounded channel: Event(balance change) | Reorg(block number)
             v
      aggregator.rs  ------------------>   btc_p2tr_events, pending_btc_p2tr_events,
             |                             btc_balances, statistic_btc_balances
   shutdown notification (mono.rs)
```

| Component | State | Operations |
|---|---|---|
| Harvester (`harvester/mod.rs`) | `last_processed_block`, `start_height`, `end_height`, and the point at which the future of `harvest()` awaits | one `select!` loop: a command is preferred and drops the future of `harvest()` wherever it is; `harvest()` finds the first block, scans up to a desired height, walks a fork back to a stored block |
| Processor (`processor.rs`) | an open database transaction, the blocks to do, `relevant_utxos` | `process`, `process_fork`, `process_block`; sends events and `Reorg` while the transaction is open |
| Index tables (`sqlx_postgres/bitcoin.rs`, the migration) | `btc_blocks`, `btc_transactions`, `btc_utxos`, their keys and cascades | upserts, cascading delete, spend and unspend |
| Node and client (`rpc_client.rs`, `client.rs`) | the node's tip | tip number, block by number, block by hash; every call may fail |
| Channel (`types.rs`, `mono.rs`) | messages in flight, whether the receiver lives | `send` (with `unwrap`), `recv` |
| Aggregator (`aggregator.rs`) | four tables, `last_block_number`, the pulled pending events, shutdown | `handle_event`, `handle_reorg`, `commit_pending_events`, `cleanup` |
| Service (`mono.rs`) | two tasks on one database | start, SIGTERM/SIGINT to both tasks, restart after a crash |
| Command handler (`lib.rs`), protected routes (`api/bitcoin.rs`), command line (`tools.rs`) | a queue of 100, callers waiting for an answer | terminate, pause, auto-scan, scan-block; the shutdown handler sends terminate the same way |
| Balance snapshots (`api/bitcoin.rs`) | the balance read first, the answer under construction | two queries without a transaction, a running balance backwards in time |
| Lookups by key, configuration, network check, deployment | none that the indexer reads | not modelled (section 7) |

What is hard here:

* **Cancellation.** A command drops `harvest()` at any await: a database
  transaction rolls back (or was committed without the task hearing of it) while
  messages of it have already been sent.
* **Forks.** A fork is found by walking back from a new head whose parent is not
  the last block, then deleted and rewritten in one transaction, head first. The
  node's tip moves between any two calls. Forks go there and back.
* **Retries.** `start()` retries the node's and the database's errors of
  `process()`, and ends on others; `harvest()` keeps `last_processed_block`
  across retries.
* **Crash and restart.** Only the tables survive; the harvester resumes from the
  highest stored number.
* **Two writers of one truth.** Tables and messages leave the harvester by
  different ways, so they can come apart, and the aggregator handles each message
  in transactions of its own, one of which commits by itself.
* **Commands.** They queue up, their senders wait for room, and the task may end
  with commands queued. A pause or a scan leaves the harvester between blocks it
  did not choose.
* **History rebuilt backwards.** A snapshot is the present balance less later
  changes, while changes are still being written.
* **Shutdown.** Both tasks are told separately; the aggregator has to drain what
  the harvester still sends, and must not end before it.

`PROJECT.json` lists each hazard at its line with the properties that would
catch it going wrong.

What makes each component correct:

* index tables: rows are those of the stored blocks, spent marks those of stored
  spenders, the stored blocks one chain;
* harvester: the stored chain only grows at the head or has a suffix replaced, no
  block is retried around, the highest number never drops, the tip is reached;
* commands: a pause stops all writing, a terminate ends the task, a scan leaves no
  gap, every caller is answered;
* snapshots: the balance the address had at the end of each step;
* channel and aggregator: what is sent adds up to the tables, a reorganization
  takes the balances back to what they were below the fork, the three forms of a
  balance agree, no coinbase is credited early or of an orphaned block, the
  aggregator survives a reorganization and drains the channel at a shutdown.

Section 3 says which of these the code does not keep, and when.

## 2. Modules

```
Bitcoin ── BlockTree ── IndexStore ──┐
   │            └────── BitcoinNode ─┤
   └── EventChannel ── BlockProcessor┴─ Harvester ─┬─ HarvesterInv
             │                            │        ├─ MCHarvester
             │                            │        └─ Commands ── MCCommands
             └── Aggregator ──────────────┴── Indexer ── MCIndexer
                       └── Snapshots ── MCSnapshots

SumProofs ─┬─ HarvesterProofs ── ChainProofs ─┬─ CommandProofs
           │                                  └─ ProgressProofs ─┐
           └─ AggregatorProofs ─┬────────────────────────────────┴─ IndexerProofs
                                └─ SnapshotProofs

Harvester implements IndexedChain (INSTANCE IndexedChain WITH stored <- db.blocks)
Commands  implements Harvester    (CommandedSpec => Spec)
```

| Module | Code | State and actions |
|---|---|---|
| `Bitcoin`, `BlockTree` | headers and bodies as `client.rs` delivers them | constants only: the tree of all blocks the node may ever serve, their transactions, outputs, owners and amounts. A hash is its block, a txid its transaction |
| `IndexStore` | statements of `sqlx_postgres/bitcoin.rs`, keys of the migration | one operator per statement on a record of the three tables |
| `BitcoinNode` | `rpc_client.rs`, `client.rs` | `tip`; `NodeAdvance` to any higher block; `ScannedAt(n)` |
| `EventChannel` | `types.rs`, `mono.rs` | `channel`, `receiving`; `Send` |
| `BlockProcessor` | `processor.rs` | `db` and `txn` (the committed tables and those the open transaction sees), `phase`, `work`, `idx`, `relevant`; `Process`, `ProcessFork`, `StartBlock`, `ProcessTx`, `Commit`, `Rejected`, `SendPanics` |
| `Harvester` | `harvester/mod.rs` | `pc` says where the future of `harvest()` is; one action per branch of the loops, per failure and per command |
| `IndexedChain` | what `harvest()` and `handle_reorg()` promise about `btc_blocks` | abstract: `Extend`, `Reorganize` |
| `Commands` | `lib.rs`, the protected routes of `api/bitcoin.rs`, `tools.rs`, the receiving branch of `start()` | `queue`: the channel followed by the senders that wait for room; `call`: what became of each request; `RefuseRange`, `SendFails`, `SendCommand`, one `Handle...` per command |
| `Aggregator` | `aggregator.rs` and its statements | tables as bags and functions; `HandleEvent`, `HandleReorg`, `PullPending`, `ProjectPulled`, `StartCleanup`, `ChannelClosed`, failures |
| `Snapshots` | `balance_snapshots` of `api/bitcoin.rs`, `get_btc_balance`, `get_balance_snapshots` | a reader beside the aggregator: `RefuseParams`, `ReadBalance`, `ReadChanges`; time in hours |
| `Indexer` | `mono.rs` | both tasks on one channel, signals, restart |
| `HarvesterInv` | | the inductive invariants that several proofs share |
| `SumProofs` | | induction over finite sets and over the numbers, and what a sum over a finite set does |
| `...Proofs` | | the proofs (section 5) |
| `MC...` | | trees of blocks, commands, a script of messages, and bounds for TLC |

Steps are cut where an await lets something else happen that matters. In
`process_block` that gives: the block's rows with the query for the outputs it
spends; then each Bitcoin transaction (its statements run first, sending does not
await); then `COMMIT`. A failure or a dropped future at `COMMIT` may find it
carried out (`Drop`). A message of the aggregator is one step, because its database
transaction is one and nobody else writes its tables; `commit_pending_events()`
is two, because its `DELETE ... RETURNING` runs on the pool, and the handler of
the snapshots is two for the same reason.

`start()` prefers a command over the future of `harvest()`, but a poll of
`harvest()` that has begun is not stopped by a command that arrives. `Commands`
therefore lets `harvest()` take steps while commands are queued; the preference
appears as fairness of `HandleCommand` and nowhere else.

Every module contains, before the definition concerned, operators named
"Mutant of X": X with a plausible bug. Each property is known to be violated when
X is replaced by its mutant, so none of them holds for want of anything to break it.

### Assumptions of the models

* One Bitcoin node with one tip, which moves only to a higher block.
* A PostgreSQL transaction is atomic and isolated; the reply to a `COMMIT` may be
  lost. Only this service writes the tables.
* The text forms of a hash used for storing and for looking up (`{:?}`,
  `to_string()`, `{:x}`) are the same, as they are in the `bitcoin` crate.
* A block has at least one transaction and none of them twice; a transaction may
  occur on both sides of a fork. That no taproot output is created in two blocks of
  one branch, nor spent below the block that creates it (`ValidBranches`), is
  true of the instances and a hypothesis of one theorem, `OneAccount`; the other
  proofs do not need it.
* The events of one transaction are sent in any order (the code iterates over a
  `HashMap`). The orphaned row `handle_reorg` takes for the last is any of them
  (its query has no `ORDER BY`), and so is the row of one step of the series that
  the snapshots meet last.
* All rows of one aggregator transaction fall in one hour, and `ReadChanges` in
  one hour too (`now()` is that of its one statement).
* Senders that wait for room in the command channel are served in the order they
  came, as tokio's semaphore does.
* Errors of the database in the aggregator are counted with the bound
  `"receiver"`, since outside cleanup they end the task that owns the receiver.

## 3. Runs

The tree of the harvester's runs is

```
g0 -- a1 -- a2 -- a3 -- a4
        \
         b2 -- b3
```

with `start_block` 1. Both branches hold a spend of an output of `a1`; one
transaction is in `a2` and in `b3`; `a3` spends an output created in `a2`. `b3`
is reached from `a2` by a fork, `a3` or `a4` from `b2` or `b3` by a fork back, so
forks of two and of three blocks, their undoing, and blocks that continue each
are all reached; when the retry of the first block has lost `a1`, the walk also
ends at the genesis block. In the indexer runs the cooldown of 100 blocks is scaled to
1 or 2, which this tree can wait out. `Bound` limits each kind of event the
environment may cause (failed RPC, failed database call, dropped receiver,
command, restart); an event may come at any point of the run, so one of each
already meets every await.

| Run | Spec | Bounds | Distinct states | Shows |
|---|---|---|---|---|
| `harvester_steady` | `SteadySpec` | 1 RPC, 1 db, 1 receiver, 2 commands | 20 000 | `TypeOK`, `ChainLinked`, `UtxoBacked`, `SpentIsReal`, `SpendRecorded`, `ForkNotEmpty`, `RetryKeepsBlocks`, `LatestNeverDrops`, and `ChainSpec`: the committed blocks implement `IndexedChain` |
| `harvester_follow` | `CommandedLiveSpec` | 2 callers, room for 1 command, 1 RPC, 1 restart, blocks g0 a1 a2 b2 b3 | 81 000 | `CommandsTypeOK`, `QueueFits`, `ScanComplete`, `PauseHolds`, and liveness: `TerminateEnds`, `CallersAnswered`, `CatchesUp` |
| `indexer_follow` | `IndexerLiveSpec` | 1 command, 1 failed aggregator transaction, 1 signal, one address | 277 000 | `BalancesMatchStore`, `ReorgCancels`, and liveness: `ShutdownDrains`. No coinbase pays to taproot here (the runs `reorg_*` show why) |
| `indexer_crash` | `IndexerSpec` | 1 failed aggregator transaction, 1 restart, 1 signal, 2 hours, blocks g0 a1 a2 b2 b3 | 343 000 | `IndexerTypeOK`, `ProjectionsAgree`, `MaturityRespected` |
| `snapshots` | `SnapshotsSpec` | 5 messages, 8 hours; days of 2, weeks of 4, months of 6 hours; every supported request | 1 500 000 | `SnapshotsTypeOK`, `SnapshotsRight` |

`SteadySpec` is one run of the harvester's task: everything but a restart and the
scan-block command, which both make it follow the chain from somewhere else;
`Spec` has these too. In runs with `Buffered = FALSE` the other end takes each
message at once, so the state is that of the harvester alone. `CHECK_DEADLOCK` is
off throughout: the node's tree is finite and a stopped task has no step.

Two callers and room for one command are enough for every relation of the queue:
a command handled at once, one that waits in the channel, one whose sender waits
for room, a caller refused for a reversed range, and one that finds the channel
closed. The requests are a pause, a resume, a terminate, a scan of `1..3` (below,
at or above what is stored, depending on when it comes) and a reversed scan. The
capacity of 100 and any number of callers are covered by the proof of `QueueFits`.

The hours of `snapshots` are scaled so that each request meets steps with no
hourly row, with one and with several, times before the service started, and a
step that has just begun. `SnapshotsRight` speaks of the times with at most one
row (the others are `snapshot_bucket`'s) and of spans that are whole numbers of
steps (`Aligned`: PostgreSQL's month by weeks starts on no week's beginning).

The runs with `expect: violation` are disagreements between the code and what the
repository says of it; TLC's counterexample is the scenario.

| Run | Property | What happens |
|---|---|---|
| `spend_in_fork` | `UtxoExact` | an output spent in a higher block of the fork that creates it stays unspent: forks are processed head first (`processor.rs:115`). The same is true of an output spent in its own block: the rows a block may spend are read before its outputs are written (`processor.rs:164`) |
| `retry_events` | `EventsMatchStore` | a database error in the middle of a block after the first rolls the rows back but not the events; the block is processed again with success and its events have been sent twice. With no failure the property holds of this instance |
| `restart_link` | `ChainLinked` | after a restart, the block above the highest stored number is stored without comparing its parent |
| `reorg_pending` | `BalancesMatchStore` | `Reorg` deletes pending coinbase events up to the last orphaned event row, also those from below the fork, which are still valid; an orphaned coinbase above that row stays |
| `reorg_empty` | `AggregatorSurvives` | `Reorg` without an event row to invert panics the aggregator; in the cleanup too, where what is behind it is never handled |
| `scan_range` | `ScanIncludesFrom` | a scan of `from..to` goes on from `from` as if it were processed, and never stores it |
| `snapshot_bucket` | `SnapshotsExact` | several hourly rows of one day overwrite each other's entry |

Three hypotheses of passing properties are outcomes of the same kind, for which
there is no run of their own: `RetryKeepsBlocks` and `ForkNotEmpty` exclude failed
database calls and commands (a first block whose processing failed is not tried
again; a lost reply to `COMMIT` makes the list of fork blocks empty), and
`CatchesUp` excludes a harvester whose next block is `Obstructed` by rows that an
interrupted commit or a scan of a stored range has left: the database rejects
that block every time it is tried.

The failed transaction and the command of `indexer_follow` reach both exceptions that
`ShutdownDrains` names: `b2` holds nothing but a coinbase, so going back from it to
branch a sends a `Reorg` without rows, which may be in the channel when a terminate
stops the harvester; and the database fails before, or during, the cleanup. The
command may be any of the four; a scan of a stored range is one more way to a
`Reorg` without rows. Addresses do not interact in any statement of the aggregator,
so one is enough here; `OneAccount` and `ReorgsCancel` are proved for any number, and
`indexer_crash` has two.

## 4. Fairness

`CommandedLiveSpec` assumes weak fairness of `CommandedHarvest` and of
`HandleCommand`, `IndexerLiveSpec` of `HarvesterSide` and `AggregatorSide`: the
tokio runtime polls a task that is ready, and the node and the database answer.
`select!` is biased, so a queued command is received after finitely many steps of
`harvest()`; with finitely many commands neither branch starves the other. Nothing
is assumed of the node's progress, of callers, failures, signals or the clock; they
may stop. `CatchesUp` therefore says: if the tip has come to rest at or above
`start_block`, it becomes the last processed block and stays it; in a run without a
command or a restart it is then stored. After a command or a restart the property
speaks of the last processed block only (a scan of the tip makes it that without
storing it), and it excuses a harvester that waits for a number above the stored
ones, or whose next block is `Obstructed`. It says nothing of a service that is
commanded for ever (each command restarts the sleep) or whose calls fail for ever.
`TerminateEnds` and `CallersAnswered` hold however `harvest()` proceeds.
`ShutdownDrains` says that once the harvester has stopped, an aggregator that has
not panicked drains the channel and stops. Its formula names what may keep it from
that: a `Reorg` for which there is no row (`NothingToInvert`), which panics in the
cleanup as before it, and a failure of its database before the cleanup, which ends
the task; in the cleanup a failed message is dropped and the next one handled. The
README of the repository states the drain without these exceptions (line 514); the
first needs no failure, and `reorg_empty` shows the same panic before a shutdown.

## 5. What is proved

For every tree of blocks that satisfies the assumptions of `BlockTree`, every
start block, every bound of the failures (which are arbitrary natural numbers),
every set of callers and requests, every capacity of the command channel, every
cooldown and every length of a day, week or month:

| Theorem | Module | Statement |
|---|---|---|
| `ShapeHolds` | `HarvesterProofs` | `Spec => []Shape` |
| `TypesHold` | `HarvesterProofs` | `Spec => []TypeOK` |
| `StoreInvHolds` | `HarvesterProofs` | `Spec => []StoreInv` |
| `RowsAreBacked` | `HarvesterProofs` | `Spec => []UtxoBacked` |
| `SpendsAreReal` | `HarvesterProofs` | `Spec => []SpentIsReal` |
| `SpendsAreRecorded` | `HarvesterProofs` | `Spec => SpendRecorded` |
| `StoredChain` | `ChainProofs` | `SteadySpec => []ChainLinked` |
| `LatestOnlyGrows` | `ProgressProofs` | `SteadySpec => LatestNeverDrops` |
| `ForkHasBlocks` | `ProgressProofs` | `SteadySpec => []ForkNotEmpty` |
| `RetriesKeepBlocks` | `ProgressProofs` | `SteadySpec => []RetryKeepsBlocks` |
| `ImplementsChain` | `ProgressProofs` | `SteadySpec => ChainSpec` |
| `CommandedImplements` | `CommandProofs` | `CommandedSpec => Spec` |
| `CommandedRowsAreBacked` | `CommandProofs` | `CommandedSpec => []UtxoBacked` |
| `PauseStopsWriting` | `CommandProofs` | `CommandedSpec => PauseHolds` |
| `QueueAlwaysFits` | `CommandProofs` | `CommandedSpec => []QueueFits` |
| `ScansAreComplete` | `CommandProofs` | `CommandedSpec => []ScanComplete` |
| `CommandsTypesHold` | `CommandProofs` | `CommandedSpec => []CommandsTypeOK` |
| `IndexerStoreSound` | `IndexerProofs` | `IndexerSpec => []UtxoBacked /\ []SpentIsReal` |
| `IndexerTypes` | `IndexerProofs` | `IndexerSpec => []IndexerTypeOK` |
| `OneBalance` | `IndexerProofs` | `IndexerSpec => []ProjectionsAgree` |
| `ReorgsCancel` | `IndexerProofs` | `IndexerSpec => ReorgCancels` (balances and event rows; pending events are not its subject) |
| `CoinbasesMature` | `IndexerProofs` | `IndexerSpec => MaturityRespected` |
| `OneAccount` | `IndexerProofs` | `ValidBranches`, `NoTaprootCoinbase` give `IndexerSpec => []BalancesMatchStore` |
| `SnapshotsTypesHold` | `SnapshotProofs` | `SnapshotsSpec => []SnapshotsTypeOK` |
| `SnapshotsAreRight` | `SnapshotProofs` | `SnapshotsSpec => SnapshotsRight` |

*Assumptions.* `NameAssumption`, `BlockAssumption`, `TxAssumption`,
`StoreAssumption`, `ChannelAssumption`, `HarvesterAssumption`, for commands
`CommandAssumption`, for the aggregator `AggregatorAssumption`, for the snapshots
`SnapshotAssumption`; TLC evaluates them on every run that uses the module. Of
the data they ask that the genesis block is the one block of height 0, that a
block's parent is one lower, that no block is empty or has a transaction twice,
that a transaction has finitely many inputs and outputs, and that a coinbase
spends nothing. `IndexerAssumption` says that the channel of the service keeps its
messages until the aggregator takes them.

`OneAccount` has two hypotheses more. `ValidBranches` is what Bitcoin's own rules
say of a branch; blocks that break them would have rows rejected. By
`NoTaprootCoinbase` no coinbase pays to taproot; without it the statement is false,
as `reorg_pending` shows. The instance of `indexer_follow`, which checks the
property, satisfies both.

*Induction.* Sums are folds over finite sets, branches are a recursive function of
the tree; what they hold for every set or block needs induction. The library's
induction theorems take an operator, so `SumProofs` states induction with a set in
its place, from the minimal elements of a well-founded relation
(`FiniteInduction`, `SubsetInduction`, `NumberInduction`): the members a property
holds of are a set by comprehension. From there `SumUnique` and `SumExists` show
that a sum over a finite set is the value of any function on its subsets that
adds one element at a time, and the other lemmas how sums split, add and rename
their index sets.

*Shape* is the type invariant without the contents of the channel, plus what
control says about data: a block is at hand exactly where the code has one, `idx`
points into it, a walk has collected no genesis block. `TypesHold` adds the
channel: an event's amount is a number because the sums it comes from are finite.

*StoreInv.* `UtxoBacked` alone is not inductive: it speaks of committed tables,
and those come from the open transaction. StoreInv therefore states `Consistent`
of both, where in the open transaction the outputs of the current block's
remaining transactions are still to come. The heart of the argument is that a
transaction that pays to taproot belongs to one stored block only, because its
rows could not be inserted twice (primary key), and that the delete from block n
and the unspending from block n take back the same blocks.

*SpendInv* (`SpendRecorded`). What a block in the open transaction spends of the
blocks that stay is either marked there already or still `Due`: its block is to
come, or its transaction is, and the row is among `relevant`. At the commit nothing
is due. It holds with restarts and scans, since it looks at one database
transaction only.

*ChainInv.* `ChainLinked` needs to know how the last processed block relates to
what is stored: nothing is stored above its successor's height, and it is stored
itself unless a commit whose reply was lost has stored its successor's height
(`Follows`). During a fork, what is left of the open transaction's chain and the
blocks still to be written are one chain up to the new head (`Forked`), because
the walk went down parent by parent over blocks that are not stored (`Walked`).
A restart and scan-block break `Follows`, hence `SteadySpec`; that the theorem
fails with a restart is what `restart_link` shows.

*Progress.* `LatestNeverDrops` follows from `Follows` and `Forked`: a fork ends one
above the last processed block, and nothing stored is higher. `ForkNotEmpty` needs
`NoneAbove`: while no commit is interrupted nothing is stored above the last
processed block, so the head of a fork is new. `RetryKeepsBlocks` needs
`LastStored` (the last processed block is stored, or is the first and in work) and,
because a first block that the database rejects would be lost, `FirstRows`: in
empty tables the only rows are those of the block's own earlier transactions, and a
block has no transaction twice, so no row of a first block is ever rejected.

*Refinement.* Only a commit changes `db.blocks`. A commit of `process()` is a step
`Extend` or a stutter; that of `process_fork()` is a step `Reorganize(n, block)`,
for which `ForkInv` carries the number n from the walk to the commit: what is
below n stays, and the fork's blocks take every number from n to the head's.

*Commands.* Every step of `Commands` is one of `Harvester` or a stutter
(`CommandedStep`, with `QueueInv`: what is queued was accepted, so a scan has
`from <= to`). `PauseInv`: from a handled pause on, the future of `harvest()` can
only find its `while` loop done. `CallersInv` relates every position in the queue
to the answer of its caller; a caller has at most one command in the queue, so when
the queue moves up one sender is let in and no other.

*Scans.* `ScanInv` says at each point of `harvest()` which blocks of the last
processed block's branch are stored above the scan's first number: on a fork, the
branch of the new head is covered by what the open transaction keeps and the
blocks still to be written. `Branch` is unfolded at one block (`BranchUnfold`) and
known to contain no block above its own (`BranchDescends`), so that what a fork
deletes is what the walk has put on the list. `NumbersInv`: no two stored blocks
have one number, with restarts too, since storing a block replaces the one of its
number.

*Aggregator.* `TablesInv` is the type of its tables with `ProjectionsAgree`: each
message changes a balance, an hourly row and the events by the same total, and
the inverted rows of a reorganization total the opposite of what they invert.
`ReorgRestores` takes it from there: the balance after `handle_reorg(n)` is the sum of
all rows, of which only those below n count (`NetAfterReorg`). It says nothing of the
pending events, which `reorg_pending` is about.
`CreditsInv`: only credits of coinbases cool down, what is pulled has waited, and
over any set of blocks the rows of a coinbase never amount to a debit; so the sum of
a coinbase's rows can leave zero only by a pull. `ReorgStep` needs no more than that
`handle_reorg` adds to the events from n on their own opposite.

*Service.* A step of `Indexer` is one of `Harvester`, or of the other side, which
shares only the channel with it (`IndexerStep`); for the aggregator's tables it is
one of `AnyStep`, where nothing is assumed of the channel but its type
(`SentMessages`).

*One account* (`OneAccount`). `BalancesMatchStore` speaks of a moment at which
nothing is under way, and what leads there is an account of what is. `LedgerInv`
takes any set X of block numbers, and an address: the events stored for blocks of
X, less those that a `Reorg` in the channel will invert (`Spared`), with the events
in the channel that no later `Reorg` inverts (`Sent`), come to the outputs the open
transaction has of blocks of X less those spent in blocks of X (`Worth`). It has
to hold for every X, because a fork turns what is known of X into what is known of
the numbers of X below the fork. Each side moves with one kind of step: sending
the events of a transaction, `StartFork` with its `Reorg`, taking an event, taking
a `Reorg`. That the account is never upset by a statement the database rejects
takes `Fresh` (`FreshStep`, `Accepted`): while nothing has failed, the rows that
the blocks in work are to write are not in the tables, because what the open
transaction holds and these blocks are one branch (`WrittenOnBranch`), on which no
output is created twice. `CalmInv` carries that together with what the harvester's
own proofs know of an undisturbed run, `NothingCools` that no amount waits for its
cooldown. At X all numbers, with an empty channel, the account is the property.

*Snapshots.* `ClosingInv`: the balance at the end of each past hour is the sum of
the changes up to it, and nothing is ever written for an hour to come. The sum of
the changes after a step of the series, which the handler subtracts from what it
read first, is split by the steps they fall into, and a step with one row is the
one case in which the overwritten entries leave none out.

## 6. What is only model-checked

* Liveness (`CatchesUp`, `TerminateEnds`, `CallersAnswered`, `ShutdownDrains`):
  beyond the prover.
* `BalancesMatchStore` where the instance has a coinbase that pays to taproot: it
  is violated there (`reorg_pending`), and `OneAccount` excludes it.
* The properties that the code violates (`UtxoExact`, `EventsMatchStore`,
  `AggregatorSurvives`, `ScanIncludesFrom`, `SnapshotsExact`, and with restarts
  `ChainLinked`).

## 7. What is not modelled, and why

* Of the web server, the lookups of a block or a transaction by its key. The
  queries of the other `raw` and `processed` routes are operators of `IndexStore`
  and `Snapshots`, and properties speak of their answers: `LatestNeverDrops` of the
  latest number over time, `BalancesMatchStore` of a balance and the unspent
  outputs beside it.
* Configuration and start-up (`cli.rs`, `config.rs`, `main.rs`): parsing. The check
  that node and database are of one network (`client.rs:87`) is one comparison
  before the tasks exist.
* Metrics, logging, deployment, and the integration tests.
* The length of the sleep, and of every other delay; that commands which keep
  arriving faster than the poll period keep the harvester from scanning needs a
  clock.
* The calendar: a month is a whole number of days, and no change of time zone
  falls in it.
* Statements nobody calls: `remove_utxo`, `remove_utxos_since_block`,
  `unspend_utxo`.
* Columns no property tells apart: timestamps, sizes, scripts, the `action`
  column (the sign of an amount).
* Overflow of amounts: they are sums of satoshis, bounded by the supply.

A harvester that is steered while the aggregator runs is `Indexer` with the four
commands of `Harvester`, scan-block and its failure among them (`Rescan`), not with
their queue; both are proved to keep the tables sound, and the queue adds nothing
the aggregator could see.

What no property shows, because nothing in the repository rules it out: that a
coinbase is lost between the two transactions of `commit_pending_events()`, that
cleanup drops a message whose transaction failed, and that during a fork
`last_block_number` runs ahead of the blocks still to come (`MaturityRespected`
measures by it). `PROJECT.json` lists them with their lines.

## 8. Running

In this directory, `tlc -workers 2 -config <run>.cfg <module>` with the module that
`PROJECT.json` names for the run (each takes less than three minutes), and `tlapm
<module>Proofs.tla` for the proofs.
