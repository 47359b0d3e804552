------------------------------- MODULE Snapshots -------------------------------
(***************************************************************************)
(* GET aggregated/p2tr/{address} (api/bitcoin.rs, balance_snapshots): the  *)
(* balance of an address at regular times, rebuilt from the hourly changes *)
(* the aggregator writes.  The handler makes two queries and no            *)
(* transaction: the balance of now, then the changes of a series of times, *)
(* newest first; it subtracts one change after the other.                  *)
(*                                                                         *)
(* Time is in hours from hour 0 on, which begins both a day and a week.    *)
(***************************************************************************)
EXTENDS Aggregator

CONSTANTS
    DayHours, WeekHours, MonthHours,    \* 24, 168 and 672 to 744
    Script                              \* what the harvester sends meanwhile

ASSUME SnapshotAssumption ==
    /\ DayHours \in Nat \ {0, 1} /\ WeekHours \in Nat /\ MonthHours \in Nat
    /\ WeekHours % DayHours = 0 /\ WeekHours > DayHours
    /\ MonthHours % DayHours = 0 /\ MonthHours > WeekHours
    /\ Script \in Seq(Messages)

VARIABLES
    reader,     \* where the handler is
    query,      \* the address and the parameters of the request
    total,      \* the balance the first query returned
    snapshots,  \* the answer: time -> balance
    closing     \* the balances at the end of each hour so far (for checking)

readerVars == <<reader, query, total, snapshots>>
snapshotVars == <<aggregatorVars, channel, receiving, readerVars, closing>>

\* AggregatedBalanceParams: time_span and granularity
Queries == [addr : Address, span : {MonthHours, WeekHours, DayHours},
            step : {WeekHours, DayHours, 1}]

\* Every variable has its type.
SnapshotsTypeOK ==
    /\ AggregatorTypeOK
    /\ ChannelTypeOK
    /\ reader \in {"idle", "between", "answered", "refused"}
    /\ query \in Queries \cup {Null}
    /\ total \in Int
    /\ IsIntsOn(snapshots, Int)
    /\ closing \in Seq([Address -> Int]) /\ Len(closing) = hour

SnapshotsInit ==
    /\ AggregatorInit
    /\ channel = Script
    /\ receiving = TRUE
    /\ reader = "idle"
    /\ query = Null
    /\ total = 0
    /\ snapshots = <<>>
    /\ closing = <<>>
-----------------------------------------------------------------------------
\* The match on the parameters: all but the weeks of a day.
Supported(q) == q.step <= q.span

RefuseParams(q) ==
    /\ reader = "idle"
    /\ ~Supported(q)
    /\ reader' = "refused"
    /\ query' = q
    /\ UNCHANGED <<aggregatorVars, channel, receiving, total, snapshots, closing>>

\* get_btc_balance; an address without a row has nothing.
ReadBalance(q) ==
    /\ reader = "idle"
    /\ Supported(q)
    /\ reader' = "between"
    /\ query' = q
    /\ total' = balances[q.addr]
    /\ UNCHANGED <<aggregatorVars, channel, receiving, snapshots, closing>>

\* date_trunc(step, t)
Trunc(t) == t - (t % query.step)

\* generate_series(date_trunc(now) - span, date_trunc(now), step)
Series ==
    {Trunc(hour) - query.span + k * query.step : k \in 0 .. query.span \div query.step}

Changes == statistics[query.addr]

\* The rows of the LEFT JOIN for time t: one with 0 when there is none.
RowsAt(t) == {h \in DOMAIN Changes : Trunc(h) = t}

ChangeOf(hs) == SumFunctionOnSet(Changes, hs)

\* Mutant of RunningBalance: the change is subtracted before, not after.
RunningBalanceEarly(t, last) ==
    total - ChangeOf(UNION {RowsAt(u) : u \in {v \in Series : v >= t}})

\* running_balance when the last of the rows of t is met: each row overwrites
\* the entry of the one before it.
RunningBalance(t, last) ==
    total - ChangeOf(UNION {RowsAt(u) : u \in {v \in Series : v > t}})
          - ChangeOf(RowsAt(t) \ last)

\* get_balance_snapshots and the loop over its rows; ORDER BY leaves open which
\* row of a time comes last.
ReadChanges ==
    /\ reader = "between"
    /\ reader' = "answered"
    /\ \E lasts \in SUBSET DOMAIN Changes :
           /\ \A t \in Series :
                  RowsAt(t) # {} => Cardinality(lasts \cap RowsAt(t)) = 1
           /\ lasts \subseteq UNION {RowsAt(t) : t \in Series}
           /\ snapshots' = [t \in Series |-> RunningBalance(t, lasts \cap RowsAt(t))]
    /\ UNCHANGED <<aggregatorVars, channel, receiving, query, total, closing>>

AggregatorRuns == AggregatorStep /\ UNCHANGED <<readerVars, closing>>

TimePasses ==
    /\ HourPasses
    /\ closing' = Append(closing, balances)
    /\ UNCHANGED <<channel, receiving, readerVars>>

SnapshotsNext ==
    \/ \E q \in Queries : RefuseParams(q) \/ ReadBalance(q)
    \/ ReadChanges \/ AggregatorRuns \/ TimePasses

SnapshotsSpec == SnapshotsInit /\ [][SnapshotsNext]_snapshotVars
-----------------------------------------------------------------------------
(***************************************************************************)
(* Properties.                                                             *)
(***************************************************************************)

\* A month is no whole number of weeks: the times of its series are then not
\* the ones date_trunc gives, and match no row.
Aligned == query.span % query.step = 0

\* The balance of the address when hour h ended, or now
BalanceAt(h) ==
    CASE h < 0                 -> 0
      [] h >= 0 /\ h < hour    -> closing[h + 1][query.addr]
      [] OTHER                 -> balances[query.addr]

\* What the aggregator wrote between the two queries of the handler
Missed == balances[query.addr] - total

\* The answer for the time t is the balance at the end of the step that begins
\* at t, less what the handler missed.
RightAt(t) == snapshots'[t] + Missed = BalanceAt(t + query.step - 1)

\* The balance rebuilt backwards from the hourly changes is the one the address
\* had, through reorganizations and late coinbases, for each time with at most
\* one hourly row; a write between the two queries shifts all times alike.
SnapshotsRight ==
    [][ReadChanges /\ Aligned =>
           \A t \in Series : Cardinality(RowsAt(t)) <= 1 => RightAt(t)]_snapshotVars

\* ... and so it is for every time (REQUIREMENT.md: "Return snapshots of P2TR
\* balances for a given time span and granularity").
SnapshotsExact ==
    [][ReadChanges /\ Aligned => \A t \in Series : RightAt(t)]_snapshotVars
=============================================================================
