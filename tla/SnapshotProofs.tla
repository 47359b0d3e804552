---------------------------- MODULE SnapshotProofs ----------------------------
(***************************************************************************)
(* The balances of the past that balance_snapshots rebuilds from hourly    *)
(* changes are the ones the address had.                                   *)
(***************************************************************************)
EXTENDS Snapshots, AggregatorProofs

\* The elements of S up to h, and those after it
UpTo(S, h) == {g \in S : g <= h}
After(S, h) == {g \in S : g > h}

\* Nothing is written for an hour to come, and the balance at the end of an hour
\* is the sum of the changes up to it: later writes leave those hours alone.
ClosingInv ==
    /\ closing \in Seq([Address -> Int]) /\ Len(closing) = hour
    /\ \A a \in Address : \A g \in DOMAIN statistics[a] : g <= hour
    /\ \A a \in Address : \A h \in 0 .. hour - 1 :
           closing[h + 1][a]
               = SumFunctionOnSet(statistics[a], UpTo(DOMAIN statistics[a], h))

\* The handler of the request.
ReaderInv ==
    /\ reader \in {"idle", "between", "answered", "refused"}
    /\ query \in Queries \cup {Null}
    /\ reader = "between" => query \in Queries
    /\ total \in Int
    /\ IsIntsOn(snapshots, Int)

SnapshotsInv ==
    /\ TablesInv
    /\ channel \in Seq(Messages) /\ receiving \in BOOLEAN
    /\ ClosingInv
    /\ ReaderInv
-----------------------------------------------------------------------------
(***************************************************************************)
(* Hours and their steps.                                                  *)
(***************************************************************************)

\* A time is a multiple of the step and a rest.
LEMMA Division ==
    ASSUME NEW t \in Int, NEW d \in Nat, d > 0
    PROVE  /\ t \div d \in Int /\ (t % d) \in 0 .. d - 1
           /\ t = d * (t \div d) + (t % d)
OBVIOUS

\* Multiples of the step lie a step apart.
LEMMA Multiples ==
    ASSUME NEW i \in Int, NEW j \in Int, NEW d \in Nat, d > 0
    PROVE  /\ i < j => d * i + d <= d * j
           /\ d * i < d * j => i < j
           /\ d * i + d * j = d * (i + j)
           /\ d * i - d * j = d * (i - j)
<1>1. ASSUME NEW m \in Int, NEW n \in Int, m < n
      PROVE  d * m + d <= d * n
    <2>1. n - m >= 1 /\ n - m \in Nat
        BY <1>1
    <2>2. d * (n - m) >= d
        BY <2>1
    <2> QED
        BY <2>2
<1>2. d * i < d * j => i < j
    <2> SUFFICES ASSUME i >= j
                 PROVE  d * i >= d * j
        OBVIOUS
    <2>1. i = j \/ j < i
        OBVIOUS
    <2> QED
        BY <1>1, <2>1
<1> QED
    BY <1>1, <1>2

\* What a request may ask for, in hours.
LEMMA QueryFacts ==
    ASSUME NEW q \in Queries
    PROVE  /\ q.addr \in Address /\ q.span \in Nat
           /\ q.step \in Nat /\ q.step > 0
BY SnapshotAssumption DEF Queries

\* The rows that belong to a time of the series after t are those of the hours
\* after the step that begins at t.
LEMMA LaterRows ==
    ASSUME query \in Queries, Aligned, hour \in Nat, NEW t \in Series,
           NEW g \in Nat, g <= hour
    PROVE  (Trunc(g) \in Series /\ Trunc(g) > t) <=> g > t + query.step - 1
<1> DEFINE d == query.step
           s == query.span
           now == hour \div d
           n == s \div d
           i == g \div d
<1>1. d \in Nat /\ d > 0 /\ s \in Nat /\ s % d = 0
    BY QueryFacts DEF Aligned
<1> HIDE DEF d, s
<1>2. /\ now \in Int /\ n \in Int /\ i \in Int
      /\ s = d * n
      /\ Trunc(hour) = d * now
      /\ Trunc(g) = d * i /\ d * i <= g /\ g < d * i + d
    <2>1. \A u \in Int : Trunc(u) = u - (u % d)
        BY DEF Trunc, d
    <2>2. \A u \in Nat : Trunc(u) = d * (u \div d) /\ (u % d) \in 0 .. d - 1
        BY <1>1, <2>1, Division
    <2>3. s = d * n
        BY <1>1, Division
    <2>4. (g % d) \in 0 .. d - 1 /\ g = d * i + (g % d) /\ i \in Int
        BY <1>1, Division
    <2>5. Trunc(hour) = d * now /\ Trunc(g) = d * i
        BY <2>2
    <2>6. now \in Int /\ n \in Int
        BY <1>1
    <2> HIDE DEF now, n, i
    <2>7. d * i <= g /\ g < d * i + d
        BY <1>1, <2>4
    <2> QED
        BY <2>3, <2>4, <2>5, <2>6, <2>7
<1> HIDE DEF now, n, i
<1>3. Series = {(d * now) - s + k * d : k \in 0 .. n}
    BY <1>2 DEF Series, d, s, n
<1>4. \A k \in 0 .. n : (d * now) - s + k * d = d * (now - n + k)
    BY <1>1, <1>2, Multiples
<1>5. PICK k \in 0 .. n : t = d * (now - n + k)
    BY <1>3, <1>4
<1> DEFINE j == now - n + k
<1>6. j \in Int /\ t = d * j
    BY <1>2, <1>5
<1>7. i > j <=> g > t + d - 1
    <2>1. i > j => d * j + d <= d * i
        BY <1>1, <1>2, <1>6, Multiples
    <2>2. i <= j => d * i <= d * j
        BY <1>1, <1>2, <1>6, Multiples
    <2>3. d * i \in Int /\ d * j \in Int
        BY <1>1, <1>2, <1>6
    <2> QED
        BY <1>1, <1>2, <1>6, <2>1, <2>2, <2>3
<1>8. i > j <=> Trunc(g) > t
    BY <1>1, <1>2, <1>6, Multiples
<1>9. i > j => Trunc(g) \in Series
    <2> SUFFICES ASSUME i > j
                 PROVE  Trunc(g) \in Series
        OBVIOUS
    <2>1. i <= now
        <3>1. d * i < d * now + d
            <4>1. (hour % d) \in 0 .. d - 1 /\ hour = d * now + (hour % d)
                BY <1>1, Division DEF now
            <4> QED
                BY <1>1, <1>2, <4>1
        <3>2. d * now + d = d * (now + 1)
            BY <1>1, <1>2
        <3> QED
            BY <1>1, <1>2, <3>1, <3>2, Multiples
    <2>2. i - now + n \in 0 .. n
        BY <1>2, <1>5, <1>6, <2>1
    <2> DEFINE m == i - now + n
    <2>3. (d * now) - s + m * d = d * (now - n + m)
        BY <1>4, <2>2
    <2>4. now - n + m = i
        BY <1>2
    <2> QED
        BY <1>2, <1>3, <2>2, <2>3, <2>4
<1> QED
    BY <1>7, <1>8, <1>9 DEF d
-----------------------------------------------------------------------------
(***************************************************************************)
(* The hourly changes.                                                     *)
(***************************************************************************)

\* The changes of an address are finitely many integers, in hours that came.
LEMMA ChangesFacts ==
    ASSUME SnapshotsInv, NEW a \in Address
    PROVE  /\ Summable(statistics[a], DOMAIN statistics[a])
           /\ DOMAIN statistics[a] \subseteq Nat
           /\ \A g \in DOMAIN statistics[a] : g <= hour
           /\ hour \in Nat
           /\ balances[a] \in Int
           /\ balances[a] = SumFunctionOnSet(statistics[a], DOMAIN statistics[a])
<1>1. /\ IsIntsOn(statistics[a], Hours) /\ hour \in Hours /\ balances[a] \in Int
      /\ balances[a] = SumFunctionOnSet(statistics[a], DOMAIN statistics[a])
    BY DEF SnapshotsInv, TablesInv, AggregatorTypeOK, ProjectionsAgree, SumFunction
<1>2. IsFiniteSet(Hours) /\ Hours \subseteq Nat
    BY AggregatorAssumption, FS_Interval DEF Hours
<1>3. IsFiniteSet(DOMAIN statistics[a])
    BY <1>1, <1>2, FS_Subset DEF IsIntsOn
<1> QED
    BY <1>1, <1>2, <1>3 DEF IsIntsOn, Summable, SnapshotsInv, ClosingInv

\* Some of the changes can be summed too.
LEMMA SomeChanges ==
    ASSUME SnapshotsInv, NEW a \in Address, NEW S \in SUBSET DOMAIN statistics[a]
    PROVE  /\ Summable(statistics[a], S)
           /\ SumFunctionOnSet(statistics[a], S) \in Int
<1>1. Summable(statistics[a], S)
    BY ChangesFacts, FS_Subset DEF Summable
<1> QED
    BY <1>1, SumType

\* Changes up to an hour and after it are all of them.
LEMMA ChangesSplit ==
    ASSUME SnapshotsInv, NEW a \in Address, NEW h \in Int
    PROVE  balances[a] = SumFunctionOnSet(statistics[a], UpTo(DOMAIN statistics[a], h))
                       + SumFunctionOnSet(statistics[a], After(DOMAIN statistics[a], h))
<1> DEFINE D == DOMAIN statistics[a]
<1>1. /\ UpTo(D, h) \cup After(D, h) = D /\ UpTo(D, h) \cap After(D, h) = {}
      /\ UpTo(D, h) \in SUBSET D /\ After(D, h) \in SUBSET D
    BY ChangesFacts DEF UpTo, After
<1>2. Summable(statistics[a], UpTo(D, h)) /\ Summable(statistics[a], After(D, h))
    BY <1>1, SomeChanges
<1>3. balances[a] = SumFunctionOnSet(statistics[a], D)
    BY ChangesFacts
<1> HIDE DEF D
<1>4. SumFunctionOnSet(statistics[a], UpTo(D, h) \cup After(D, h))
          = SumFunctionOnSet(statistics[a], UpTo(D, h))
            + SumFunctionOnSet(statistics[a], After(D, h))
    BY <1>1, <1>2, SumUnion
<1> QED
    BY <1>1, <1>3, <1>4 DEF D

\* The balance at the end of an hour, past or not, is the sum of the changes up
\* to it.
LEMMA BalanceAtHour ==
    ASSUME SnapshotsInv, query \in Queries, NEW h \in Int
    PROVE  BalanceAt(h) = SumFunctionOnSet(Changes, UpTo(DOMAIN Changes, h))
<1> DEFINE a == query.addr
           D == DOMAIN statistics[a]
<1>1. a \in Address
    BY QueryFacts
<1>2. /\ D \subseteq Nat /\ hour \in Nat /\ \A g \in D : g <= hour
      /\ balances[a] = SumFunctionOnSet(statistics[a], D)
    BY <1>1, ChangesFacts
<1> SUFFICES BalanceAt(h) = SumFunctionOnSet(statistics[a], UpTo(D, h))
    BY DEF Changes
<1>3. CASE h < 0
    <2>1. UpTo(D, h) = {}
        BY <1>2, <1>3 DEF UpTo
    <2>2. BalanceAt(h) = 0
        BY <1>3 DEF BalanceAt
    <2> QED
        BY <2>1, <2>2, SumEmpty
<1>4. CASE 0 <= h /\ h < hour
    <2>1. h \in 0 .. hour - 1
        BY <1>2, <1>4
    <2>2. BalanceAt(h) = closing[h + 1][a]
        BY <1>2, <1>4 DEF BalanceAt
    <2> QED
        BY <1>1, <2>1, <2>2 DEF SnapshotsInv, ClosingInv
<1>5. CASE hour <= h
    <2>1. UpTo(D, h) = D
        BY <1>2, <1>5 DEF UpTo
    <2>2. BalanceAt(h) = balances[a]
        BY <1>2, <1>5 DEF BalanceAt
    <2> QED
        BY <1>2, <2>1, <2>2
<1> QED
    BY <1>2, <1>3, <1>4, <1>5
-----------------------------------------------------------------------------
(***************************************************************************)
(* The answer.                                                             *)
(***************************************************************************)
Later(t) == UNION {RowsAt(u) : u \in {v \in Series : v > t}}

LEMMA SeriesType ==
    ASSUME query \in Queries, hour \in Nat
    PROVE  Series \subseteq Int
<1>1. query.span \in Nat /\ query.step \in Nat /\ query.step > 0
    BY QueryFacts
<1>2. Trunc(hour) \in Int
    BY <1>1 DEF Trunc
<1> QED
    BY <1>1, <1>2 DEF Series

\* What the running balance of a time leaves out.
LEMMA LaterIsAfter ==
    ASSUME SnapshotsInv, query \in Queries, Aligned, NEW t \in Series
    PROVE  Later(t) = After(DOMAIN Changes, t + query.step - 1)
<1>1. /\ DOMAIN Changes \subseteq Nat /\ hour \in Nat
      /\ \A g \in DOMAIN Changes : g <= hour
    BY QueryFacts, ChangesFacts DEF Changes
<1>2. \A g \in DOMAIN Changes :
          (Trunc(g) \in Series /\ Trunc(g) > t) <=> g > t + query.step - 1
    BY <1>1, LaterRows
<1> QED
    BY <1>2 DEF Later, RowsAt, After

\* Every entry of the answer is a balance.
LEMMA RunningType ==
    ASSUME SnapshotsInv, query \in Queries, NEW t, NEW last
    PROVE  /\ RunningBalance(t, last) \in Int
           /\ ChangeOf(Later(t)) \in Int
           /\ RunningBalance(t, last)
                  = total - ChangeOf(Later(t)) - ChangeOf(RowsAt(t) \ last)
<1>1. Later(t) \in SUBSET DOMAIN Changes /\ RowsAt(t) \ last \in SUBSET DOMAIN Changes
    BY DEF Later, RowsAt
<1>2. ChangeOf(Later(t)) \in Int /\ ChangeOf(RowsAt(t) \ last) \in Int
    BY <1>1, QueryFacts, SomeChanges DEF ChangeOf, Changes
<1>3. total \in Int
    BY DEF SnapshotsInv, ReaderInv
<1>4. RunningBalance(t, last) = total - ChangeOf(Later(t)) - ChangeOf(RowsAt(t) \ last)
    BY DEF RunningBalance, Later
<1> QED
    BY <1>2, <1>3, <1>4

\* The entry of a time with at most one row.
LEMMA RightEntry ==
    ASSUME SnapshotsInv, query \in Queries, Aligned, NEW t \in Series,
           Cardinality(RowsAt(t)) <= 1, NEW last,
           RowsAt(t) # {} => Cardinality(last \cap RowsAt(t)) = 1
    PROVE  RunningBalance(t, last \cap RowsAt(t)) + Missed = BalanceAt(t + query.step - 1)
<1> DEFINE h == t + query.step - 1
           D == DOMAIN Changes
           R == RowsAt(t)
<1>1. /\ h \in Int /\ query.addr \in Address
      /\ total \in Int /\ balances[query.addr] \in Int
    BY QueryFacts, ChangesFacts, SeriesType DEF SnapshotsInv, ReaderInv
<1>2. R \ (last \cap R) = {}
    <2>1. IsFiniteSet(R)
        BY <1>1, SomeChanges DEF RowsAt, Changes, Summable
    <2>2. CASE R # {}
        <3>1. Cardinality(last \cap R) = 1
            BY <2>2
        <3>2. last \cap R \in SUBSET R
            OBVIOUS
        <3> DEFINE L == last \cap R
        <3> HIDE DEF R, L
        <3>3. L = R
            <4>1. Cardinality(L) <= Cardinality(R)
                BY <2>1, <3>2, FS_Subset DEF L
            <4>2. Cardinality(R) \in Nat
                BY <2>1, FS_CardinalityType
            <4>3. Cardinality(L) = Cardinality(R)
                BY <3>1, <4>1, <4>2 DEF L, R
            <4> QED
                BY <2>1, <3>2, <4>3, FS_Subset DEF L
        <3> QED
            BY <3>3 DEF L
    <2> QED
        BY <2>2
<1>3. RunningBalance(t, last \cap R) = total - ChangeOf(After(D, h)) - 0
    BY <1>2, RunningType, LaterIsAfter, SumEmpty DEF ChangeOf
<1>4. balances[query.addr] = ChangeOf(UpTo(D, h)) + ChangeOf(After(D, h))
    BY <1>1, ChangesSplit DEF ChangeOf, Changes
<1>5. BalanceAt(h) = ChangeOf(UpTo(D, h))
    BY <1>1, BalanceAtHour DEF ChangeOf
<1>6. ChangeOf(UpTo(D, h)) \in Int /\ ChangeOf(After(D, h)) \in Int
    BY <1>1, SomeChanges DEF ChangeOf, Changes, UpTo, After
<1> HIDE DEF D, R
<1> QED
    BY <1>1, <1>3, <1>4, <1>5, <1>6 DEF Missed, R

\* What ReadChanges answers is right, and is an answer.
LEMMA AnswerIsRight ==
    ASSUME SnapshotsInv, ReadChanges
    PROVE  /\ IsIntsOn(snapshots', Int)
           /\ Aligned => \A t \in Series : Cardinality(RowsAt(t)) <= 1 => RightAt(t)
<1>1. PICK lasts \in SUBSET DOMAIN Changes :
          /\ \A t \in Series : RowsAt(t) # {} => Cardinality(lasts \cap RowsAt(t)) = 1
          /\ snapshots' = [t \in Series |-> RunningBalance(t, lasts \cap RowsAt(t))]
    BY DEF ReadChanges
<1>2. query \in Queries /\ hour \in Nat
    BY DEF ReadChanges, SnapshotsInv, ReaderInv, TablesInv, AggregatorTypeOK, Hours
<1>3. IsIntsOn(snapshots', Int)
    BY <1>1, <1>2, SeriesType, RunningType DEF IsIntsOn
<1>4. ASSUME Aligned, NEW t \in Series, Cardinality(RowsAt(t)) <= 1
      PROVE  RightAt(t)
    <2>1. snapshots'[t] = RunningBalance(t, lasts \cap RowsAt(t))
        BY <1>1
    <2>2. RunningBalance(t, lasts \cap RowsAt(t)) + Missed = BalanceAt(t + query.step - 1)
        BY <1>1, <1>2, <1>4, RightEntry
    <2> QED
        BY <2>1, <2>2 DEF RightAt
<1> QED
    BY <1>3, <1>4
-----------------------------------------------------------------------------
(***************************************************************************)
(* The past stays as it was.                                               *)
(***************************************************************************)

\* A row written now leaves the changes of earlier hours alone.
LEMMA AddedLater ==
    ASSUME NEW changes, \A g \in DOMAIN changes : changes[g] \in Int /\ g <= hour,
           hour \in Nat, DOMAIN changes \subseteq Nat, NEW B, NEW a
    PROVE  LET added == AddedNow(changes, B, a)
           IN  /\ \A g \in DOMAIN added : g <= hour
               /\ \A h \in Int : h < hour =>
                      /\ UpTo(DOMAIN added, h) = UpTo(DOMAIN changes, h)
                      /\ \A g \in UpTo(DOMAIN changes, h) : added[g] = changes[g]
<1>1. CASE AddedNow(changes, B, a) = changes
    BY <1>1 DEF UpTo
<1>2. CASE AddedNow(changes, B, a) # changes
    <2> DEFINE added == AddedNow(changes, B, a)
               v(h) == IF h = hour THEN Total(B, a) ELSE 0
    <2>1. added = [h \in DOMAIN changes \cup {hour} |->
                      (IF h \in DOMAIN changes THEN changes[h] ELSE 0) + v(h)]
        BY <1>2 DEF AddedNow
    <2>2. \A h \in Nat : h # hour => v(h) = 0
        OBVIOUS
    <2> HIDE DEF added, v
    <2>3. DOMAIN added = DOMAIN changes \cup {hour}
        BY <2>1
    <2>4. \A g \in DOMAIN changes : g # hour => added[g] = changes[g]
        BY <2>1, <2>2
    <2> QED
        BY <2>3, <2>4 DEF UpTo, added
<1> QED
    BY <1>1, <1>2

\* A step of the aggregator adds to the changes of the present hour only.
LEMMA ChangesStep ==
    ASSUME TablesStep, DOMAIN statistics = Address, NEW a \in Address
    PROVE  \/ statistics'[a] = statistics[a]
           \/ \E B : statistics'[a] = AddedNow(statistics[a], B, a)
<1>1. ASSUME NEW B, Project(B)
      PROVE  statistics'[a] = AddedNow(statistics[a], B, a)
    BY <1>1 DEF Project
<1> QED
    BY <1>1 DEF TablesStep, EventTransaction, ReorgTransaction, tables

\* The balances at the end of past hours are still the sums of the changes.
LEMMA ClosingKept ==
    ASSUME SnapshotsInv, TablesStep, hour' = hour, closing' = closing
    PROVE  ClosingInv'
<1> SUFFICES ASSUME NEW a \in Address
             PROVE  /\ \A g \in DOMAIN statistics'[a] : g <= hour
                    /\ \A h \in 0 .. hour - 1 : closing[h + 1][a]
                           = SumFunctionOnSet(statistics'[a],
                                              UpTo(DOMAIN statistics'[a], h))
    BY DEF ClosingInv, SnapshotsInv
<1>1. /\ Summable(statistics[a], DOMAIN statistics[a])
      /\ DOMAIN statistics[a] \subseteq Nat /\ hour \in Nat
      /\ \A g \in DOMAIN statistics[a] : g <= hour
    BY ChangesFacts
<1>2. \A h \in 0 .. hour - 1 : closing[h + 1][a]
          = SumFunctionOnSet(statistics[a], UpTo(DOMAIN statistics[a], h))
    BY DEF SnapshotsInv, ClosingInv
<1>3. CASE statistics'[a] = statistics[a]
    BY <1>1, <1>2, <1>3
<1>4. ASSUME NEW B, statistics'[a] = AddedNow(statistics[a], B, a)
      PROVE  /\ \A g \in DOMAIN statistics'[a] : g <= hour
             /\ \A h \in 0 .. hour - 1 :
                    SumFunctionOnSet(statistics'[a], UpTo(DOMAIN statistics'[a], h))
                        = SumFunctionOnSet(statistics[a], UpTo(DOMAIN statistics[a], h))
    <2> DEFINE f == statistics[a]
               g == statistics'[a]
    <2>1. \A x \in DOMAIN f : f[x] \in Int /\ x <= hour
        BY <1>1 DEF Summable
    <2>2. /\ \A x \in DOMAIN g : x <= hour
          /\ \A h \in Int : h < hour =>
                 /\ UpTo(DOMAIN g, h) = UpTo(DOMAIN f, h)
                 /\ \A x \in UpTo(DOMAIN f, h) : g[x] = f[x]
        BY <1>1, <1>4, <2>1, AddedLater
    <2>3. ASSUME NEW h \in 0 .. hour - 1
          PROVE  SumFunctionOnSet(g, UpTo(DOMAIN g, h)) = SumFunctionOnSet(f, UpTo(DOMAIN f, h))
        <3>1. h \in Int /\ h < hour
            BY <1>1
        <3>2. IsFiniteSet(UpTo(DOMAIN f, h))
            BY SomeChanges DEF UpTo, Summable
        <3> HIDE DEF f, g
        <3> QED
            BY <2>2, <3>1, <3>2, SumSame
    <2> QED
        BY <2>2, <2>3
<1>5. DOMAIN statistics = Address
    BY DEF SnapshotsInv, TablesInv, AggregatorTypeOK
<1> QED
    BY <1>2, <1>3, <1>4, <1>5, ChangesStep

\* An hour ends with the balances it ends with.
LEMMA ClosingGrows ==
    ASSUME SnapshotsInv, TimePasses
    PROVE  ClosingInv'
<1>1. /\ hour' = hour + 1 /\ statistics' = statistics
      /\ closing' = Append(closing, balances)
    BY DEF TimePasses, HourPasses, tables
<1>2. /\ closing \in Seq([Address -> Int]) /\ Len(closing) = hour /\ hour \in Nat
      /\ balances \in [Address -> Int]
    BY DEF SnapshotsInv, ClosingInv, TablesInv, AggregatorTypeOK, Hours
<1>3. closing' \in Seq([Address -> Int]) /\ Len(closing') = hour + 1
    BY <1>1, <1>2
<1>4. ASSUME NEW a \in Address
      PROVE  /\ \A g \in DOMAIN statistics[a] : g <= hour + 1
             /\ \A h \in 0 .. hour : closing'[h + 1][a]
                    = SumFunctionOnSet(statistics[a], UpTo(DOMAIN statistics[a], h))
    <2>1. /\ DOMAIN statistics[a] \subseteq Nat
          /\ \A g \in DOMAIN statistics[a] : g <= hour
          /\ balances[a] = SumFunctionOnSet(statistics[a], DOMAIN statistics[a])
        BY ChangesFacts
    <2>2. UpTo(DOMAIN statistics[a], hour) = DOMAIN statistics[a]
        BY <2>1 DEF UpTo
    <2>3. closing'[hour + 1] = balances
        BY <1>1, <1>2
    <2>4. \A h \in 0 .. hour - 1 : closing'[h + 1] = closing[h + 1]
        BY <1>1, <1>2
    <2>5. \A h \in 0 .. hour - 1 : closing[h + 1][a]
              = SumFunctionOnSet(statistics[a], UpTo(DOMAIN statistics[a], h))
        BY DEF SnapshotsInv, ClosingInv
    <2>6. ASSUME NEW h \in 0 .. hour
          PROVE  closing'[h + 1][a]
                     = SumFunctionOnSet(statistics[a], UpTo(DOMAIN statistics[a], h))
        <3>1. CASE h = hour
            BY <2>1, <2>2, <2>3, <3>1
        <3>2. CASE h # hour
            <4>1. h \in 0 .. hour - 1
                BY <1>2, <3>2
            <4> QED
                BY <2>4, <2>5, <4>1
        <3> QED
            BY <3>1, <3>2
    <2>7. \A g \in DOMAIN statistics[a] : g <= hour + 1
        BY <1>2, <2>1
    <2> QED
        BY <2>6, <2>7
<1>5. (hour + 1) - 1 = hour
    BY <1>2
<1> QED
    BY <1>1, <1>3, <1>4, <1>5 DEF ClosingInv
-----------------------------------------------------------------------------
(***************************************************************************)
(* The invariant.                                                          *)
(***************************************************************************)
LEMMA SnapshotsInvInit ==
    ASSUME SnapshotsInit
    PROVE  SnapshotsInv
<1>1. TablesInv
    BY TablesInvInit DEF SnapshotsInit
<1>2. ClosingInv
    BY DEF SnapshotsInit, AggregatorInit, ClosingInv
<1>3. ReaderInv
    BY DEF SnapshotsInit, ReaderInv, IsIntsOn
<1> QED
    BY <1>1, <1>2, <1>3, SnapshotAssumption DEF SnapshotsInit, SnapshotsInv

LEMMA ReaderStep ==
    ASSUME SnapshotsInv, [SnapshotsNext]_snapshotVars
    PROVE  ReaderInv'
<1>1. ReaderInv
    BY DEF SnapshotsInv
<1>2. ASSUME NEW q \in Queries, RefuseParams(q)
      PROVE  ReaderInv'
    BY <1>1, <1>2 DEF RefuseParams, ReaderInv
<1>3. ASSUME NEW q \in Queries, ReadBalance(q)
      PROVE  ReaderInv'
    <2>1. balances[q.addr] \in Int
        BY QueryFacts, ChangesFacts
    <2> QED
        BY <1>1, <1>3, <2>1 DEF ReadBalance, ReaderInv
<1>4. CASE ReadChanges
    BY <1>1, <1>4, AnswerIsRight DEF ReadChanges, ReaderInv
<1>5. CASE UNCHANGED readerVars
    BY <1>1, <1>5 DEF readerVars, ReaderInv
<1> QED
    BY <1>2, <1>3, <1>4, <1>5
    DEF SnapshotsNext, AggregatorRuns, TimePasses, snapshotVars

\* Every step keeps the invariant.
LEMMA SnapshotsInvStep ==
    SnapshotsInv /\ [SnapshotsNext]_snapshotVars => SnapshotsInv'
<1> SUFFICES ASSUME SnapshotsInv, [SnapshotsNext]_snapshotVars
             PROVE  SnapshotsInv'
    OBVIOUS
<1>1. AnyStep
    BY DEF SnapshotsNext, RefuseParams, ReadBalance, ReadChanges, AggregatorRuns,
           TimePasses, snapshotVars, AnyStep
<1>2. TablesInv'
    BY <1>1, TablesInvStep DEF SnapshotsInv
<1>3. channel' \in Seq(Messages) /\ receiving' \in BOOLEAN
    <2>1. /\ channel' = channel \/ channel' = <<>> \/ (channel # <<>> /\ channel' = Tail(channel))
          /\ receiving' = receiving \/ receiving' = FALSE
        BY DEF SnapshotsNext, RefuseParams, ReadBalance, ReadChanges, AggregatorRuns,
               TimePasses, snapshotVars, AggregatorStep, HandleEvent, HandleReorg, Receive,
               PullPending, ProjectPulled, ReorgPanics, StartCleanup, End
    <2>2. channel # <<>> => Tail(channel) \in Seq(Messages)
        BY DEF SnapshotsInv
    <2>3. <<>> \in Seq(Messages)
        OBVIOUS
    <2> QED
        BY <2>1, <2>2, <2>3 DEF SnapshotsInv
<1>4. ASSUME TimePasses
      PROVE  ClosingInv'
    BY <1>4, ClosingGrows
<1>5. ASSUME hour' = hour, closing' = closing
      PROVE  ClosingInv'
    <2>1. TablesStep
        BY <1>1, StepTables DEF SnapshotsInv
    <2> QED
        BY <1>5, <2>1, ClosingKept
<1>6. ClosingInv'
    BY <1>4, <1>5
    DEF SnapshotsNext, RefuseParams, ReadBalance, ReadChanges, AggregatorRuns,
        snapshotVars, aggregatorVars, AggregatorStep, HandleEvent, HandleReorg,
        PullPending, ProjectPulled, ReorgPanics, StartCleanup, End
<1> QED
    BY <1>2, <1>3, <1>6, ReaderStep DEF SnapshotsInv

LEMMA SnapshotsInvHolds == SnapshotsSpec => []SnapshotsInv
BY SnapshotsInvInit, SnapshotsInvStep, PTL DEF SnapshotsSpec

\* Every variable of the handler and of the aggregator beside it has its type.
THEOREM SnapshotsTypesHold == SnapshotsSpec => []SnapshotsTypeOK
<1>1. SnapshotsInv => SnapshotsTypeOK
    BY DEF SnapshotsInv, SnapshotsTypeOK, TablesInv, ChannelTypeOK, ClosingInv, ReaderInv
<1> QED
    BY <1>1, SnapshotsInvHolds, PTL

\* What balance_snapshots answers for a time with at most one hourly row is the
\* balance the address had at the end of the step that begins there, whatever
\* was reorganized or credited late in between, for every address, span and
\* step, every sequence of messages, and every length of day, week and month.
THEOREM SnapshotsAreRight == SnapshotsSpec => SnapshotsRight
<1>1. SnapshotsInv =>
          [ReadChanges /\ Aligned =>
               \A t \in Series : Cardinality(RowsAt(t)) <= 1 => RightAt(t)]_snapshotVars
    BY AnswerIsRight
<1> QED
    BY <1>1, SnapshotsInvHolds, PTL DEF SnapshotsRight
=============================================================================
