------------------------------ MODULE Aggregator ------------------------------
(***************************************************************************)
(* bitcoin/aggregator.rs: the task that turns the messages of the          *)
(* harvester into balances.  It owns four tables:                          *)
(*   p2tr_events     btc_p2tr_events, a bag of rows: nothing identifies a  *)
(*                   row but its serial number, which nobody reads         *)
(*   pending_events  pending_btc_p2tr_events, coinbase events cooling down *)
(*   balances        btc_balances (an address without a row has 0)         *)
(*   statistics      statistic_btc_balances: per address, hour -> change   *)
(*                                                                         *)
(* A message is handled in one database transaction, here one step, that   *)
(* nobody else writes to.  commit_pending_events() comes after it in two   *)
(* more: a DELETE ... RETURNING that commits by itself, and a transaction. *)
(***************************************************************************)
EXTENDS EventChannel, Bags, FiniteSetsExt

CONSTANTS
    Maturity,   \* blocks a coinbase event waits for: 100 in the code
    LastHour    \* bound: the clock stops at this hour

ASSUME AggregatorAssumption == Maturity \in Nat /\ LastHour \in Nat

VARIABLES
    p2tr_events,
    pending_events,
    balances,
    statistics,
    hour,               \* Utc::now() cut down to the hour
    last_block_number,
    pulled,             \* events taken from pending_events, not yet projected
    apc,                \* where the task is
    shutdown            \* shutdown_notify, and whether cleanup() runs

tables == <<p2tr_events, pending_events, balances, statistics>>
aggregatorVars == <<tables, hour, last_block_number, pulled, apc, shutdown>>

Hours == 0 .. LastHour

\* A row of btc_p2tr_events; it does not say whether it is of a coinbase.
Rows == [block : Nat, tx : Tx, addr : Address, amount : Int]

\* f has a number for some elements of S.
IsIntsOn(f, S) == DOMAIN f \subseteq S /\ \A x \in DOMAIN f : f[x] \in Int

IsBagOf(B, S) == IsABag(B) /\ BagToSet(B) \subseteq S

\* The tables and the task have their types; only coinbase events cool down.
AggregatorTypeOK ==
    /\ IsBagOf(p2tr_events, Rows)
    /\ IsBagOf(pending_events, {e \in Events : e.coinbase})
    /\ IsBagOf(pulled, {e \in Events : e.coinbase})
    /\ balances \in [Address -> Int]
    /\ DOMAIN statistics = Address
    /\ \A a \in Address : IsIntsOn(statistics[a], Hours)
    /\ hour \in Hours
    /\ last_block_number \in Nat
    /\ apc \in {"recv", "pull", "project", "stopped", "panicked"}
    /\ shutdown \in {"no", "notified", "cleanup"}
    /\ apc = "project" <=> pulled # EmptyBag

AggregatorInit ==
    /\ p2tr_events = EmptyBag
    /\ pending_events = EmptyBag
    /\ balances = [a \in Address |-> 0]
    /\ statistics = [a \in Address |-> <<>>]
    /\ hour = 0
    /\ last_block_number = 0
    /\ pulled = EmptyBag
    /\ apc = "recv"
    /\ shutdown = "no"
-----------------------------------------------------------------------------
\* A bag with every element replaced; F gives different elements different ones.
MapBag(F(_), B) ==
    LET S == BagToSet(B)
    IN  [y \in {F(x) : x \in S} |-> B[CHOOSE x \in S : F(x) = y]]

SubBagWhere(B, P(_)) == [x \in {y \in BagToSet(B) : P(y)} |-> B[x]]

\* What the rows of a bag add to the balance of a.
Total(B, a) ==
    SumFunctionOnSet([r \in BagToSet(B) |-> B[r] * r.amount],
                     {r \in BagToSet(B) : r.addr = a})

\* The upsert of statistic_btc_balances for each row of B that is of address a:
\* hours without one keep having no row.
AddedNow(changes, B, a) ==
    IF \E r \in BagToSet(B) : r.addr = a
    THEN [h \in DOMAIN changes \cup {hour} |->
             (IF h \in DOMAIN changes THEN changes[h] ELSE 0)
                 + (IF h = hour THEN Total(B, a) ELSE 0)]
    ELSE changes

Row(e) == [block |-> e.block, tx |-> e.tx, addr |-> e.addr, amount |-> e.amount]

\* Mutant of Inverted: the amount keeps its sign.
NotInverted(r) == r

\* BtcP2trEvent::reorg
Inverted(r) == [r EXCEPT !.amount = -@]

\* Mutant of Project: without update_statistic_balance_change.
ProjectBalanceOnly(B) ==
    /\ p2tr_events' = p2tr_events (+) B
    /\ balances' = [a \in Address |-> balances[a] + Total(B, a)]
    /\ UNCHANGED statistics

\* insert_event, update_total_balance and update_statistic_balance_change for
\* each row of B, in the open transaction
Project(B) ==
    /\ p2tr_events' = p2tr_events (+) B
    /\ balances' = [a \in Address |-> balances[a] + Total(B, a)]
    /\ statistics' = [a \in Address |-> AddedNow(statistics[a], B, a)]

\* Mutant of PendingUpTo: < n + 2 for <= n.
PendingOneEarly(n) == SubBagWhere(pending_events, LAMBDA e : e.block <= n + 1)

\* pull_pending_p2tr_events
PendingUpTo(n) == SubBagWhere(pending_events, LAMBDA e : e.block <= n)
-----------------------------------------------------------------------------
\* Mutant of EventTransaction: the branches swapped.
EventSwapped(e) ==
    IF ~e.coinbase
    THEN /\ pending_events' = pending_events (+) SetToBag({e})
         /\ UNCHANGED <<p2tr_events, balances, statistics>>
    ELSE /\ Project(SetToBag({Row(e)}))
         /\ UNCHANGED pending_events

\* The transaction of handle_event
EventTransaction(e) ==
    IF e.coinbase
    THEN /\ pending_events' = pending_events (+) SetToBag({e})
         /\ UNCHANGED <<p2tr_events, balances, statistics>>
    ELSE /\ Project(SetToBag({Row(e)}))
         /\ UNCHANGED pending_events

\* Mutant of RowsSince: the rows of the common ancestor too.
RowsSinceAncestor(n) == SubBagWhere(p2tr_events, LAMBDA r : r.block >= n - 1)

\* get_p2tr_events_since_block
RowsSince(n) == SubBagWhere(p2tr_events, LAMBDA r : r.block >= n)

\* The transaction of handle_reorg: last is the row that came last, and the
\* query has no ORDER BY.
ReorgTransaction(n, last) ==
    /\ Project(MapBag(Inverted, RowsSince(n)))
    /\ pending_events' = pending_events (-) PendingUpTo(last.block)

Receive(type) ==
    /\ apc = "recv"
    /\ channel # <<>>
    /\ Head(channel).type = type
    /\ channel' = Tail(channel)
    /\ UNCHANGED receiving

\* The number of a block with a new event is the first sight of that block.
HandleEvent ==
    LET e == Head(channel)
        isNew == e.block > last_block_number
    IN  /\ Receive("event")
        /\ EventTransaction(e)
        /\ last_block_number' = IF isNew THEN e.block ELSE last_block_number
        /\ apc' = IF isNew /\ e.block >= Maturity THEN "pull" ELSE "recv"
        /\ UNCHANGED <<hour, pulled, shutdown>>

HandleReorg ==
    LET n == Head(channel).block
    IN  /\ Receive("reorg")
        /\ \E last \in BagToSet(RowsSince(n)) :
               /\ ReorgTransaction(n, last)
               /\ last_block_number' = last.block
        /\ UNCHANGED <<hour, pulled, apc, shutdown>>

\* commit_pending_events, its DELETE on the pool ...
PullPending ==
    LET mature == PendingUpTo(last_block_number - Maturity)
    IN  /\ apc = "pull"
        /\ pending_events' = pending_events (-) mature
        /\ pulled' = mature
        /\ apc' = IF mature = EmptyBag THEN "recv" ELSE "project"
        /\ UNCHANGED <<p2tr_events, balances, statistics, hour,
                       last_block_number, shutdown, channel, receiving>>

\* ... and its transaction
ProjectPulled ==
    /\ apc = "project"
    /\ Project(MapBag(Row, pulled))
    /\ pulled' = EmptyBag
    /\ apc' = "recv"
    /\ UNCHANGED <<pending_events, hour, last_block_number, shutdown,
                   channel, receiving>>
-----------------------------------------------------------------------------
\* The task ends and drops its receiver with what is in it.
End(l) ==
    /\ apc' = l
    /\ pulled' = EmptyBag
    /\ receiving' = FALSE
    /\ channel' = <<>>
    /\ UNCHANGED <<hour, last_block_number, shutdown>>

\* A Reorg is next, and no row is of the blocks it names.
NothingToInvert ==
    /\ channel # <<>>
    /\ Head(channel).type = "reorg"
    /\ RowsSince(Head(channel).block) = EmptyBag

\* handle_reorg's unwrap() on a query without rows, in cleanup() as before it
ReorgPanics ==
    /\ apc = "recv"
    /\ NothingToInvert
    /\ End("panicked")
    /\ UNCHANGED tables

\* The select! prefers messages; cleanup() starts when none is there.
StartCleanup ==
    /\ apc = "recv"
    /\ channel = <<>>
    /\ shutdown = "notified"
    /\ shutdown' = "cleanup"
    /\ UNCHANGED <<tables, hour, last_block_number, pulled, apc,
                   channel, receiving>>

\* recv() returns None once every sender is gone, which the caller knows.
ChannelClosed ==
    /\ apc = "recv"
    /\ channel = <<>>
    /\ End("stopped")
    /\ UNCHANGED tables

AggregatorStep ==
    \/ HandleEvent \/ HandleReorg \/ PullPending \/ ProjectPulled
    \/ ReorgPanics \/ StartCleanup
-----------------------------------------------------------------------------
(***************************************************************************)
(* Failures and the outside.                                               *)
(***************************************************************************)

\* What a failed statement or commit leaves in the tables: the transaction was
\* rolled back, or committed although its reply was lost.
FailedTransaction ==
    \/ UNCHANGED tables
    \/ apc = "recv" /\ Head(channel).type = "event" /\ EventTransaction(Head(channel))
    \/ /\ apc = "recv" /\ Head(channel).type = "reorg"
       /\ \E last \in BagToSet(RowsSince(Head(channel).block)) :
              ReorgTransaction(Head(channel).block, last)
    \/ /\ apc = "pull"
       /\ pending_events' = pending_events (-) PendingUpTo(last_block_number - Maturity)
       /\ UNCHANGED <<p2tr_events, balances, statistics>>
    \/ apc = "project" /\ Project(MapBag(Row, pulled)) /\ UNCHANGED pending_events

\* An error ends the task, but cleanup() goes on with the next message.
TransactionFails ==
    /\ \/ apc = "recv" /\ channel # <<>>
       \/ apc \in {"pull", "project"}
    /\ FailedTransaction
    /\ IF shutdown = "cleanup"
       THEN /\ channel' = IF apc = "recv" THEN Tail(channel) ELSE channel
            /\ pulled' = EmptyBag
            /\ apc' = "recv"
            /\ UNCHANGED <<receiving, hour, last_block_number, shutdown>>
       ELSE End("panicked")

\* run()'s shutdown_handler
NotifyShutdown ==
    /\ shutdown = "no"
    /\ shutdown' = "notified"
    /\ UNCHANGED <<tables, hour, last_block_number, pulled, apc>>

HourPasses ==
    /\ hour < LastHour
    /\ hour' = hour + 1
    /\ UNCHANGED <<tables, last_block_number, pulled, apc, shutdown>>

\* What a new process starts from; its channel is new too.
AggregatorRestart ==
    /\ last_block_number' = 0
    /\ pulled' = EmptyBag
    /\ apc' = "recv"
    /\ shutdown' = "no"
    /\ UNCHANGED <<tables, hour>>
-----------------------------------------------------------------------------
(***************************************************************************)
(* Properties.                                                             *)
(***************************************************************************)

\* An address has one balance, however it is computed: its row in btc_balances,
\* the sum of its rows in btc_p2tr_events, and the sum of its hourly changes
\* agree, through reorganizations, late coinbases, failures and restarts.
ProjectionsAgree ==
    \A a \in Address :
        /\ balances[a] = Total(p2tr_events, a)
        /\ balances[a] = SumFunction(statistics[a])

\* What the rows of blocks n and higher amount to for transaction t and address a
NetSince(n, t, a) ==
    Total(SubBagWhere(p2tr_events, LAMBDA r : r.block >= n /\ r.tx = t), a)

\* What the rows below block n amount to for address a
NetBelow(n, a) == Total(SubBagWhere(p2tr_events, LAMBDA r : r.block < n), a)

\* Handling Reorg(n) takes every balance back to what the rows below block n had
\* made of it, and leaves no transaction worth anything from n on, even when those
\* numbers were reorganized before and the rows of both are there.
ReorgCancels ==
    [][HandleReorg => \A n \in {Head(channel).block}, a \in Address :
           /\ balances[a]' = NetBelow(n, a)
           /\ \A t \in Tx : NetSince(n, t, a)' = 0]_<<aggregatorVars, channel, receiving>>

\* No coinbase is credited before an event Maturity blocks above it was seen
\* (README: "Only projects them after cooldown period").
MaturityRespected ==
    [][\A t \in Coinbase, a \in Address :
           NetSince(0, t, a) = 0 /\ NetSince(0, t, a)' # 0 =>
               \E r \in BagToSet(p2tr_events') :
                   r.tx = t /\ r.block + Maturity <= last_block_number]_aggregatorVars
=============================================================================
