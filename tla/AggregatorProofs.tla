--------------------------- MODULE AggregatorProofs ---------------------------
(***************************************************************************)
(* Proofs about Aggregator: its tables have their types, balances, rows    *)
(* and hourly changes agree, a reorganization cancels what it should, and  *)
(* coinbases are credited late.  All rest on what the handlers do to sums  *)
(* over bags of rows.                                                      *)
(***************************************************************************)
EXTENDS Aggregator, SumProofs

-----------------------------------------------------------------------------
(***************************************************************************)
(* Totals of bags.                                                         *)
(***************************************************************************)

\* The rows of B can be totalled.
HasTotal(B) ==
    /\ IsABag(B)
    /\ IsFiniteSet(BagToSet(B))
    /\ \A r \in BagToSet(B) : r.amount \in Int

Weight(B) == [r \in BagToSet(B) |-> B[r] * r.amount]

RowsOf(B, a) == {r \in BagToSet(B) : r.addr = a}

LEMMA TotalIsSum ==
    ASSUME NEW B, NEW a
    PROVE  Total(B, a) = SumFunctionOnSet(Weight(B), RowsOf(B, a))
BY DEF Total, Weight, RowsOf

LEMMA WeightSummable ==
    ASSUME NEW B, HasTotal(B), NEW S \in SUBSET BagToSet(B)
    PROVE  Summable(Weight(B), S)
<1>1. IsFiniteSet(S)
    BY FS_Subset DEF HasTotal
<1>2. ASSUME NEW r \in S
      PROVE  Weight(B)[r] \in Int
    <2>1. B[r] \in Int /\ r.amount \in Int
        BY DEF HasTotal, IsABag, BagToSet
    <2> QED
        BY <2>1 DEF Weight
<1> QED
    BY <1>1, <1>2 DEF Summable

LEMMA TotalType ==
    ASSUME NEW B, HasTotal(B), NEW a
    PROVE  Total(B, a) \in Int
<1>1. RowsOf(B, a) \in SUBSET BagToSet(B)
    BY DEF RowsOf
<1> QED
    BY <1>1, TotalIsSum, WeightSummable, SumType

LEMMA TotalEmpty ==
    ASSUME NEW B, BagToSet(B) = {}, NEW a
    PROVE  Total(B, a) = 0
<1>1. RowsOf(B, a) = {}
    BY DEF RowsOf
<1> QED
    BY <1>1, TotalIsSum, SumEmpty

LEMMA Distributes ==
    ASSUME NEW i \in Int, NEW j \in Int, NEW k \in Int
    PROVE  (i + j) * k = i * k + j * k
OBVIOUS

\* The rows of two bags together
LEMMA TotalAdded ==
    ASSUME NEW B, NEW C, HasTotal(B), HasTotal(C), NEW a
    PROVE  Total(B (+) C, a) = Total(B, a) + Total(C, a)
<1> DEFINE D == RowsOf(B, a) \cup RowsOf(C, a)
           u == [r \in D |-> IF r \in BagToSet(B) THEN Weight(B)[r] ELSE 0]
           v == [r \in D |-> IF r \in BagToSet(C) THEN Weight(C)[r] ELSE 0]
<1>1. RowsOf(B (+) C, a) = D
    BY DEF RowsOf, BagToSet, (+)
<1>2. /\ RowsOf(B, a) \in SUBSET BagToSet(B)
      /\ RowsOf(C, a) \in SUBSET BagToSet(C)
      /\ D \in SUBSET BagToSet(B (+) C)
    BY <1>1 DEF RowsOf
<1>3. /\ Summable(Weight(B), RowsOf(B, a))
      /\ Summable(Weight(C), RowsOf(C, a))
    BY <1>2, WeightSummable
<1>4. IsFiniteSet(D)
    BY <1>3, FS_Union DEF Summable
<1>5. Summable(u, D) /\ Summable(v, D)
    BY <1>3, <1>4 DEF Summable, RowsOf
<1>6. ASSUME NEW r \in D
      PROVE  Weight(B (+) C)[r] = u[r] + v[r]
    <2>1. r \in BagToSet(B) => B[r] \in Int /\ r.amount \in Int
        BY DEF HasTotal, IsABag, BagToSet
    <2>2. r \in BagToSet(C) => C[r] \in Int /\ r.amount \in Int
        BY DEF HasTotal, IsABag, BagToSet
    <2>3. r \in BagToSet(B (+) C)
        BY <1>2
    <2>4. Weight(B (+) C)[r] = (B (+) C)[r] * r.amount
        BY <2>3 DEF Weight
    <2>5. (B (+) C)[r] = (IF r \in BagToSet(B) THEN B[r] ELSE 0)
                             + (IF r \in BagToSet(C) THEN C[r] ELSE 0)
        BY <2>3 DEF BagToSet, (+)
    <2>6. CASE r \in BagToSet(B) /\ r \in BagToSet(C)
        BY <2>1, <2>2, <2>4, <2>5, <2>6, Distributes DEF Weight
    <2>7. CASE r \in BagToSet(B) /\ r \notin BagToSet(C)
        BY <2>1, <2>4, <2>5, <2>7 DEF Weight
    <2>8. CASE r \notin BagToSet(B) /\ r \in BagToSet(C)
        BY <2>2, <2>4, <2>5, <2>8 DEF Weight
    <2> QED
        BY <2>6, <2>7, <2>8 DEF RowsOf
<1>7. /\ \A r \in RowsOf(B, a) : u[r] = Weight(B)[r]
      /\ \A r \in D \ RowsOf(B, a) : u[r] = 0
      /\ \A r \in RowsOf(C, a) : v[r] = Weight(C)[r]
      /\ \A r \in D \ RowsOf(C, a) : v[r] = 0
    BY DEF RowsOf
<1>8. RowsOf(B, a) \in SUBSET D /\ RowsOf(C, a) \in SUBSET D
    OBVIOUS
<1> HIDE DEF D, u, v
<1>9. SumFunctionOnSet(Weight(B (+) C), D)
          = SumFunctionOnSet(u, D) + SumFunctionOnSet(v, D)
    BY <1>5, <1>6, SumPlus
<1>10. SumFunctionOnSet(u, D) = SumFunctionOnSet(Weight(B), RowsOf(B, a))
    <2>1. SumFunctionOnSet(u, D) = SumFunctionOnSet(u, RowsOf(B, a))
        BY <1>5, <1>7, <1>8, SumExtend
    <2> QED
        BY <1>3, <1>7, <2>1, SumSame DEF Summable
<1>11. SumFunctionOnSet(v, D) = SumFunctionOnSet(Weight(C), RowsOf(C, a))
    <2>1. SumFunctionOnSet(v, D) = SumFunctionOnSet(v, RowsOf(C, a))
        BY <1>5, <1>7, <1>8, SumExtend
    <2> QED
        BY <1>3, <1>7, <2>1, SumSame DEF Summable
<1> QED
    BY <1>1, <1>9, <1>10, <1>11, TotalIsSum

\* m sends the rows of B to those of C one to one, with their counts and all but
\* the amounts.
Renames(m, B, C) ==
    /\ BagToSet(C) = {m[x] : x \in BagToSet(B)}
    /\ \A x, y \in BagToSet(B) : m[x] = m[y] => x = y
    /\ \A x \in BagToSet(B) :
           /\ C[m[x]] = B[x]
           /\ m[x].block = x.block /\ m[x].tx = x.tx /\ m[x].addr = x.addr

\* ... with the opposite amounts
LEMMA TotalOpposite ==
    ASSUME NEW B, NEW C, NEW m, HasTotal(B), IsABag(C), Renames(m, B, C),
           \A x \in BagToSet(B) : m[x].amount = -x.amount, NEW a
    PROVE  HasTotal(C) /\ Total(C, a) = -Total(B, a)
<1> DEFINE n == [x \in BagToSet(B) |-> -Weight(B)[x]]
<1>1. RowsOf(B, a) \in SUBSET BagToSet(B)
    BY DEF RowsOf
<1>2. Summable(Weight(B), RowsOf(B, a)) /\ Summable(Weight(B), BagToSet(B))
    BY <1>1, WeightSummable
<1>3. ASSUME NEW x \in BagToSet(B)
      PROVE  Weight(C)[m[x]] = n[x]
    <2>1. Weight(C)[m[x]] = B[x] * (-x.amount)
        BY DEF Renames, Weight
    <2>2. B[x] \in Int /\ x.amount \in Int
        BY DEF HasTotal, IsABag, BagToSet
    <2>3. Weight(B)[x] = B[x] * x.amount
        BY DEF Weight
    <2>4. B[x] * (-x.amount) = -(B[x] * x.amount)
        BY <2>2
    <2> QED
        BY <2>1, <2>3, <2>4
<1>4. RowsOf(C, a) = {m[x] : x \in RowsOf(B, a)}
    BY DEF RowsOf, Renames
<1>5. \A x, y \in BagToSet(B) : m[x] = m[y] => x = y
    BY DEF Renames
<1>6. \A x \in BagToSet(B) : n[x] = -Weight(B)[x] /\ n[x] \in Int
    BY <1>2 DEF Summable
<1> HIDE DEF n
<1>7. Summable(n, RowsOf(B, a)) /\ Summable(n, BagToSet(B))
    BY <1>1, <1>2, <1>6 DEF Summable
<1>8. SumFunctionOnSet(Weight(C), RowsOf(C, a)) = SumFunctionOnSet(n, RowsOf(B, a))
    BY <1>1, <1>3, <1>4, <1>5, <1>7, SumRenamed
<1>9. SumFunctionOnSet(n, RowsOf(B, a)) = -SumFunctionOnSet(Weight(B), RowsOf(B, a))
    BY <1>1, <1>2, <1>6, SumNegated
<1>10. IsFiniteSet(BagToSet(C))
    <2>1. IsFiniteSet({m[x] : x \in BagToSet(B)})
        BY FiniteImage DEF HasTotal
    <2> QED
        BY <2>1 DEF Renames
<1>11. HasTotal(C)
    BY <1>10 DEF HasTotal, Renames
<1> QED
    BY <1>8, <1>9, <1>11, TotalIsSum

\* The part of B in R
Within(B, R) == [x \in {y \in BagToSet(B) : y \in R} |-> B[x]]

LEMMA WithinHasTotal ==
    ASSUME NEW B, NEW R, HasTotal(B)
    PROVE  HasTotal(Within(B, R)) /\ BagToSet(Within(B, R)) = BagToSet(B) \cap R
<1>1. BagToSet(Within(B, R)) = BagToSet(B) \cap R
    BY DEF Within, BagToSet
<1>2. IsFiniteSet(BagToSet(B) \cap R)
    BY FS_Subset DEF HasTotal
<1> QED
    BY <1>1, <1>2 DEF HasTotal, Within, IsABag, BagToSet

\* A bag is in two parts.
LEMMA TotalSplit ==
    ASSUME NEW B, NEW R, HasTotal(B), NEW a
    PROVE  Total(B, a) = Total(Within(B, R), a) + Total(Within(B, BagToSet(B) \ R), a)
<1> DEFINE C == Within(B, R)
           D == Within(B, BagToSet(B) \ R)
<1>1. HasTotal(C) /\ HasTotal(D)
    BY WithinHasTotal
<1>2. C (+) D = B
    <2>1. B = [x \in BagToSet(B) |-> B[x]]
        BY DEF HasTotal, IsABag, BagToSet
    <2>2. \A x \in BagToSet(B) : B[x] \in Int
        BY DEF HasTotal, IsABag, BagToSet
    <2>3. DOMAIN (C (+) D) = BagToSet(B)
        BY DEF Within, BagToSet, (+)
    <2>4. ASSUME NEW x \in BagToSet(B)
          PROVE  (C (+) D)[x] = B[x]
        BY <2>2 DEF Within, BagToSet, (+)
    <2>5. C (+) D = [x \in BagToSet(B) |-> B[x]]
        BY <2>3, <2>4 DEF (+)
    <2> QED
        BY <2>1, <2>5
<1> QED
    BY <1>1, <1>2, TotalAdded

LEMMA WithinAdded ==
    ASSUME NEW B, NEW C, NEW R
    PROVE  Within(B (+) C, R) = Within(B, R) (+) Within(C, R)
BY DEF Within, BagToSet, (+)
-----------------------------------------------------------------------------
(***************************************************************************)
(* The invariant of the tables.                                            *)
(***************************************************************************)

\* The tables have their types and finitely many rows, and the three ways to
\* compute a balance agree.
TablesInv ==
    /\ AggregatorTypeOK
    /\ \A B \in {p2tr_events, pending_events, pulled} : IsFiniteSet(BagToSet(B))
    /\ ProjectionsAgree

\* A step of the aggregator, of what fails it or of what stops and starts it
AnyStep ==
    \/ AggregatorStep \/ ChannelClosed \/ TransactionFails
    \/ NotifyShutdown \/ HourPasses \/ AggregatorRestart
    \/ UNCHANGED aggregatorVars

\* What a step does to the tables is what one of the transactions does, or
\* nothing.
TablesStep ==
    \/ UNCHANGED tables
    \/ channel # <<>> /\ Head(channel) \in Events /\ EventTransaction(Head(channel))
    \/ \E n \in Nat : \E last \in BagToSet(RowsSince(n)) : ReorgTransaction(n, last)
    \/ /\ pending_events' = pending_events (-) PendingUpTo(last_block_number - Maturity)
       /\ UNCHANGED <<p2tr_events, balances, statistics>>
    \/ Project(MapBag(Row, pulled)) /\ UNCHANGED pending_events

LEMMA HeadOfChannel ==
    ASSUME channel \in Seq(Messages), channel # <<>>
    PROVE  /\ Head(channel) \in Messages
           /\ Head(channel).type = "event" => Head(channel) \in Events
           /\ Head(channel).type = "reorg" => Head(channel).block \in Nat
<1>1. Head(channel) \in Messages
    OBVIOUS
<1> QED
    BY <1>1 DEF Messages, Events

LEMMA StepTables ==
    ASSUME channel \in Seq(Messages), AnyStep
    PROVE  TablesStep
<1>1. CASE HandleEvent
    BY <1>1, HeadOfChannel DEF HandleEvent, Receive, TablesStep
<1>2. CASE HandleReorg
    BY <1>2, HeadOfChannel DEF HandleReorg, Receive, TablesStep
<1>3. CASE PullPending
    BY <1>3 DEF PullPending, TablesStep
<1>4. CASE ProjectPulled
    BY <1>4 DEF ProjectPulled, TablesStep
<1>5. CASE TransactionFails
    BY <1>5, HeadOfChannel DEF TransactionFails, FailedTransaction, TablesStep
<1>6. CASE UNCHANGED tables
    BY <1>6 DEF TablesStep
<1> QED
    BY <1>1, <1>2, <1>3, <1>4, <1>5, <1>6
    DEF AnyStep, AggregatorStep, ReorgPanics, StartCleanup, ChannelClosed, NotifyShutdown,
        HourPasses, AggregatorRestart, aggregatorVars, tables

\* A bag of rows, or of events, can be totalled.
LEMMA RowsHaveTotal ==
    ASSUME NEW B, IsBagOf(B, Rows) \/ IsBagOf(B, Events), IsFiniteSet(BagToSet(B))
    PROVE  HasTotal(B)
BY DEF IsBagOf, HasTotal, Rows, Events

LEMMA BagsAdded ==
    ASSUME NEW S, NEW B, NEW C, IsBagOf(B, S), IsBagOf(C, S),
           IsFiniteSet(BagToSet(B)), IsFiniteSet(BagToSet(C))
    PROVE  IsBagOf(B (+) C, S) /\ IsFiniteSet(BagToSet(B (+) C))
<1>1. BagToSet(B (+) C) = BagToSet(B) \cup BagToSet(C)
    BY DEF BagToSet, (+)
<1>2. IsFiniteSet(BagToSet(B (+) C))
    BY <1>1, FS_Union
<1> QED
    BY <1>2 DEF IsBagOf, IsABag, BagToSet, (+)

LEMMA BagsSubtracted ==
    ASSUME NEW S, NEW B, NEW C, IsBagOf(B, S), IsABag(C), IsFiniteSet(BagToSet(B))
    PROVE  IsBagOf(B (-) C, S) /\ IsFiniteSet(BagToSet(B (-) C))
<1>1. BagToSet(B (-) C) \in SUBSET BagToSet(B)
    BY DEF BagToSet, (-)
<1>2. IsFiniteSet(BagToSet(B (-) C))
    BY <1>1, FS_Subset
<1> QED
    BY <1>2 DEF IsBagOf, IsABag, BagToSet, (-)

LEMMA BagOfOne ==
    ASSUME NEW S, NEW x \in S
    PROVE  IsBagOf(SetToBag({x}), S) /\ IsFiniteSet(BagToSet(SetToBag({x})))
<1>1. BagToSet(SetToBag({x})) = {x}
    BY DEF BagToSet, SetToBag
<1> QED
    BY <1>1, FS_Singleton DEF IsBagOf, IsABag, BagToSet, SetToBag

\* Rows, and events, are equal when their fields are.
LEMMA SameRow ==
    ASSUME NEW x \in Rows, NEW y \in Rows,
           x.block = y.block, x.tx = y.tx, x.addr = y.addr, x.amount = y.amount
    PROVE  x = y
BY DEF Rows

LEMMA SameEvent ==
    ASSUME NEW x \in Events, NEW y \in Events,
           x.block = y.block, x.tx = y.tx, x.addr = y.addr, x.amount = y.amount,
           x.coinbase = y.coinbase
    PROVE  x = y
<1>1. x.type = y.type
    BY DEF Events
<1> QED
    BY <1>1 DEF Events

\* The rows a reorganization inserts
LEMMA InvertedBag ==
    ASSUME NEW B, IsBagOf(B, Rows), IsFiniteSet(BagToSet(B))
    PROVE  LET C == MapBag(Inverted, B)
               m == [x \in BagToSet(B) |-> Inverted(x)]
           IN  /\ IsBagOf(C, Rows)
               /\ IsFiniteSet(BagToSet(C))
               /\ Renames(m, B, C)
               /\ \A x \in BagToSet(B) : m[x].amount = -x.amount
<1> DEFINE C == MapBag(Inverted, B)
           m == [x \in BagToSet(B) |-> Inverted(x)]
<1>1. ASSUME NEW x \in BagToSet(B)
      PROVE  /\ x \in Rows /\ Inverted(x) \in Rows
             /\ Inverted(x).block = x.block /\ Inverted(x).tx = x.tx
             /\ Inverted(x).amount = -x.amount /\ Inverted(x).addr = x.addr
    <2>1. x \in Rows
        BY DEF IsBagOf
    <2> QED
        BY <2>1 DEF Rows, Inverted
<1>2. ASSUME NEW x \in BagToSet(B), NEW y \in BagToSet(B), Inverted(x) = Inverted(y)
      PROVE  x = y
    <2>1. -x.amount = -y.amount
        BY <1>1, <1>2
    <2>2. x.amount \in Int /\ y.amount \in Int
        BY <1>1 DEF Rows
    <2>3. x.block = y.block /\ x.tx = y.tx /\ x.addr = y.addr
        BY <1>1, <1>2
    <2> QED
        BY <1>1, <2>1, <2>2, <2>3, SameRow
<1>3. BagToSet(C) = {m[x] : x \in BagToSet(B)}
    BY DEF MapBag, BagToSet
<1>4. ASSUME NEW x \in BagToSet(B)
      PROVE  C[m[x]] = B[x]
    <2>1. C[m[x]] = B[CHOOSE y \in BagToSet(B) : Inverted(y) = Inverted(x)]
        BY DEF MapBag
    <2>2. (CHOOSE y \in BagToSet(B) : Inverted(y) = Inverted(x)) = x
        BY <1>2
    <2> QED
        BY <2>1, <2>2
<1>5. IsABag(C)
    <2>1. C = [y \in DOMAIN C |-> C[y]]
        BY DEF MapBag
    <2>2. \A x \in BagToSet(B) : B[x] \in {n \in Nat : n > 0}
        BY DEF IsBagOf, IsABag, BagToSet
    <2> HIDE DEF C
    <2>3. \A y \in DOMAIN C : C[y] \in {n \in Nat : n > 0}
        BY <1>3, <1>4, <2>2 DEF BagToSet
    <2> QED
        BY <2>1, <2>3 DEF IsABag
<1>6. IsFiniteSet(BagToSet(C))
    BY <1>3, FiniteImage
<1>7. IsBagOf(C, Rows)
    BY <1>1, <1>3, <1>5 DEF IsBagOf
<1>8. Renames(m, B, C)
    BY <1>1, <1>2, <1>3, <1>4 DEF Renames
<1> QED
    BY <1>1, <1>6, <1>7, <1>8

\* The rows of the pulled events
LEMMA RowBag ==
    ASSUME NEW B, IsBagOf(B, {e \in Events : e.coinbase}), IsFiniteSet(BagToSet(B))
    PROVE  LET C == MapBag(Row, B)
               m == [x \in BagToSet(B) |-> Row(x)]
           IN  /\ IsBagOf(C, Rows)
               /\ IsFiniteSet(BagToSet(C))
               /\ Renames(m, B, C)
               /\ \A x \in BagToSet(B) : m[x].amount = x.amount
<1> DEFINE C == MapBag(Row, B)
           m == [x \in BagToSet(B) |-> Row(x)]
<1>1. ASSUME NEW x \in BagToSet(B)
      PROVE  /\ x \in Events /\ x.coinbase /\ Row(x) \in Rows
             /\ Row(x).amount = x.amount /\ Row(x).addr = x.addr
             /\ Row(x).block = x.block /\ Row(x).tx = x.tx
             /\ x.coinbase = TRUE
    <2>1. x \in Events /\ x.coinbase
        BY DEF IsBagOf
    <2> QED
        BY <2>1 DEF Events, Rows, Row
<1>2. ASSUME NEW x \in BagToSet(B), NEW y \in BagToSet(B), Row(x) = Row(y)
      PROVE  x = y
    <2>1. /\ x.block = y.block /\ x.tx = y.tx /\ x.addr = y.addr
          /\ x.amount = y.amount
        BY <1>2 DEF Row
    <2>2. x.coinbase = y.coinbase
        BY <1>1
    <2> QED
        BY <1>1, <2>1, <2>2, SameEvent
<1>3. BagToSet(C) = {m[x] : x \in BagToSet(B)}
    BY DEF MapBag, BagToSet
<1>4. ASSUME NEW x \in BagToSet(B)
      PROVE  C[m[x]] = B[x]
    <2>1. C[m[x]] = B[CHOOSE y \in BagToSet(B) : Row(y) = Row(x)]
        BY DEF MapBag
    <2>2. (CHOOSE y \in BagToSet(B) : Row(y) = Row(x)) = x
        BY <1>2
    <2> QED
        BY <2>1, <2>2
<1>5. IsABag(C)
    <2>1. C = [y \in DOMAIN C |-> C[y]]
        BY DEF MapBag
    <2>2. \A x \in BagToSet(B) : B[x] \in {n \in Nat : n > 0}
        BY DEF IsBagOf, IsABag, BagToSet
    <2> HIDE DEF C
    <2>3. \A y \in DOMAIN C : C[y] \in {n \in Nat : n > 0}
        BY <1>3, <1>4, <2>2 DEF BagToSet
    <2> QED
        BY <2>1, <2>3 DEF IsABag
<1>6. IsFiniteSet(BagToSet(C))
    BY <1>3, FiniteImage
<1>7. IsBagOf(C, Rows)
    BY <1>1, <1>3, <1>5 DEF IsBagOf
<1>8. Renames(m, B, C)
    BY <1>1, <1>2, <1>3, <1>4 DEF Renames
<1> QED
    BY <1>1, <1>6, <1>7, <1>8

\* update_statistic_balance_change adds to the changes what the rows add to the
\* balance.
LEMMA AddedNowSum ==
    ASSUME NEW changes, IsIntsOn(changes, Hours), hour \in Hours,
           NEW B, HasTotal(B), NEW a, LastHour \in Nat
    PROVE  LET added == AddedNow(changes, B, a)
           IN  /\ IsIntsOn(added, Hours)
               /\ SumFunction(added) = SumFunction(changes) + Total(B, a)
<1> DEFINE added == AddedNow(changes, B, a)
           D == DOMAIN changes
           E == D \cup {hour}
           u == [h \in E |-> IF h \in D THEN changes[h] ELSE 0]
           v == [h \in E |-> IF h = hour THEN Total(B, a) ELSE 0]
<1>1. Total(B, a) \in Int
    BY TotalType
<1>2. IsFiniteSet(Hours)
    BY FS_Interval DEF Hours
<1>3. IsFiniteSet(D) /\ IsFiniteSet(E)
    <2>1. D \in SUBSET Hours /\ E \in SUBSET Hours
        BY DEF IsIntsOn
    <2> QED
        BY <1>2, <2>1, FS_Subset
<1>4. \A h \in D : changes[h] \in Int
    BY DEF IsIntsOn
<1>5. Summable(changes, D) /\ Summable(u, E) /\ Summable(v, E)
    BY <1>1, <1>3, <1>4 DEF Summable
<1>6. SumFunction(changes) = SumFunctionOnSet(changes, D)
    BY DEF SumFunction
<1>7. SumFunctionOnSet(changes, D) \in Int
    BY <1>5, SumType
<1>8. CASE \E r \in BagToSet(B) : r.addr = a
    <2>1. added = [h \in E |-> u[h] + v[h]]
        BY <1>8 DEF AddedNow
    <2> HIDE DEF added
    <2>2. DOMAIN added = E /\ \A h \in E : added[h] = u[h] + v[h]
        BY <2>1
    <2>3. /\ \A h \in E \ D : u[h] = 0
          /\ \A h \in D : u[h] = changes[h]
          /\ \A h \in E \ {hour} : v[h] = 0
          /\ v[hour] = Total(B, a)
          /\ D \in SUBSET E /\ {hour} \in SUBSET E
        OBVIOUS
    <2>4. IsIntsOn(added, Hours)
        <3>1. E \subseteq Hours
            BY DEF IsIntsOn
        <3>2. \A h \in E : u[h] \in Int /\ v[h] \in Int
            BY <1>5 DEF Summable
        <3> HIDE DEF E, u, v
        <3> QED
            BY <2>2, <3>1, <3>2 DEF IsIntsOn
    <2> HIDE DEF D, E, u, v
    <2>5. SumFunction(added) = SumFunctionOnSet(added, E)
        BY <2>2 DEF SumFunction
    <2>6. SumFunctionOnSet(added, E) = SumFunctionOnSet(u, E) + SumFunctionOnSet(v, E)
        BY <1>5, <2>2, SumPlus
    <2>7. SumFunctionOnSet(u, E) = SumFunctionOnSet(u, D)
        BY <1>5, <2>3, SumExtend
    <2>8. SumFunctionOnSet(u, D) = SumFunctionOnSet(changes, D)
        BY <1>3, <2>3, SumSame
    <2>9. SumFunctionOnSet(v, E) = SumFunctionOnSet(v, {hour})
        BY <1>5, <2>3, SumExtend
    <2>10. SumFunctionOnSet(v, {hour}) = Total(B, a)
        BY <1>1, <2>3, SumOne
    <2> QED
        BY <1>6, <2>4, <2>5, <2>6, <2>7, <2>8, <2>9, <2>10 DEF added
<1>9. CASE \A r \in BagToSet(B) : r.addr # a
    <2>1. added = changes
        BY <1>9 DEF AddedNow
    <2>2. Total(B, a) = 0
        <3>1. RowsOf(B, a) = {}
            BY <1>9 DEF RowsOf
        <3> QED
            BY <3>1, TotalIsSum, SumEmpty
    <2> QED
        BY <1>6, <1>7, <2>1, <2>2
<1> QED
    BY <1>8, <1>9

\* The part of TablesInv that Project can disturb
Accounts ==
    /\ IsBagOf(p2tr_events, Rows)
    /\ IsFiniteSet(BagToSet(p2tr_events))
    /\ balances \in [Address -> Int]
    /\ DOMAIN statistics = Address
    /\ \A a \in Address : IsIntsOn(statistics[a], Hours)
    /\ ProjectionsAgree

LEMMA ProjectKeepsAccounts ==
    ASSUME Accounts, hour \in Hours,
           NEW B, IsBagOf(B, Rows), IsFiniteSet(BagToSet(B)), Project(B)
    PROVE  Accounts'
<1>1. HasTotal(p2tr_events) /\ HasTotal(B)
    BY RowsHaveTotal DEF Accounts
<1>2. /\ p2tr_events' = p2tr_events (+) B
      /\ balances' = [a \in Address |-> balances[a] + Total(B, a)]
      /\ statistics' = [a \in Address |-> AddedNow(statistics[a], B, a)]
    BY DEF Project
<1>3. IsBagOf(p2tr_events', Rows) /\ IsFiniteSet(BagToSet(p2tr_events'))
    BY <1>2, BagsAdded DEF Accounts
<1>4. \A a \in Address : Total(B, a) \in Int
    BY <1>1, TotalType
<1>5. balances' \in [Address -> Int]
    BY <1>2, <1>4 DEF Accounts
<1>6. ASSUME NEW a \in Address
      PROVE  /\ IsIntsOn(statistics'[a], Hours)
             /\ SumFunction(statistics'[a]) = SumFunction(statistics[a]) + Total(B, a)
    <2>1. statistics'[a] = AddedNow(statistics[a], B, a)
        BY <1>2
    <2>2. IsIntsOn(statistics[a], Hours)
        BY DEF Accounts
    <2> QED
        BY <1>1, <2>1, <2>2, AddedNowSum, AggregatorAssumption
<1>7. ASSUME NEW a \in Address
      PROVE  /\ balances'[a] = Total(p2tr_events', a)
             /\ balances'[a] = SumFunction(statistics'[a])
    <2>1. /\ balances[a] = Total(p2tr_events, a)
          /\ balances[a] = SumFunction(statistics[a])
        BY DEF Accounts, ProjectionsAgree
    <2>2. balances'[a] = balances[a] + Total(B, a)
        BY <1>2
    <2>3. Total(p2tr_events', a) = Total(p2tr_events, a) + Total(B, a)
        BY <1>1, <1>2, TotalAdded
    <2> QED
        BY <1>6, <2>1, <2>2, <2>3
<1> QED
    BY <1>2, <1>3, <1>5, <1>6, <1>7 DEF Accounts, ProjectionsAgree

LEMMA RowsSinceBag ==
    ASSUME NEW n, IsBagOf(p2tr_events, Rows), IsFiniteSet(BagToSet(p2tr_events))
    PROVE  IsBagOf(RowsSince(n), Rows) /\ IsFiniteSet(BagToSet(RowsSince(n)))
<1>1. BagToSet(RowsSince(n)) \in SUBSET BagToSet(p2tr_events)
    BY DEF RowsSince, SubBagWhere, BagToSet
<1>2. IsFiniteSet(BagToSet(RowsSince(n)))
    BY <1>1, FS_Subset
<1> QED
    BY <1>2 DEF IsBagOf, IsABag, RowsSince, SubBagWhere, BagToSet

LEMMA PendingUpToBag ==
    ASSUME NEW n, NEW S, IsBagOf(pending_events, S), IsFiniteSet(BagToSet(pending_events))
    PROVE  IsBagOf(PendingUpTo(n), S) /\ IsFiniteSet(BagToSet(PendingUpTo(n)))
<1>1. BagToSet(PendingUpTo(n)) \in SUBSET BagToSet(pending_events)
    BY DEF PendingUpTo, SubBagWhere, BagToSet
<1>2. IsFiniteSet(BagToSet(PendingUpTo(n)))
    BY <1>1, FS_Subset
<1> QED
    BY <1>2 DEF IsBagOf, IsABag, PendingUpTo, SubBagWhere, BagToSet

\* Every transaction keeps the accounts.
LEMMA AccountsKept ==
    ASSUME TablesInv, TablesStep
    PROVE  Accounts'
<1>1. /\ Accounts
      /\ hour \in Hours
      /\ IsBagOf(pulled, {e \in Events : e.coinbase})
      /\ IsFiniteSet(BagToSet(pulled))
    BY DEF TablesInv, AggregatorTypeOK, Accounts
<1>2. CASE UNCHANGED <<p2tr_events, balances, statistics>>
    BY <1>1, <1>2 DEF Accounts, ProjectionsAgree
<1>3. CASE \E e \in Events : Project(SetToBag({Row(e)}))
    <2>1. PICK e \in Events : Project(SetToBag({Row(e)}))
        BY <1>3
    <2>2. Row(e) \in Rows
        BY DEF Row, Rows, Events
    <2> QED
        BY <1>1, <2>1, <2>2, BagOfOne, ProjectKeepsAccounts
<1>4. CASE \E n \in Nat : Project(MapBag(Inverted, RowsSince(n)))
    <2>1. PICK n \in Nat : Project(MapBag(Inverted, RowsSince(n)))
        BY <1>4
    <2>2. IsBagOf(RowsSince(n), Rows) /\ IsFiniteSet(BagToSet(RowsSince(n)))
        BY <1>1, RowsSinceBag DEF Accounts
    <2>3. /\ IsBagOf(MapBag(Inverted, RowsSince(n)), Rows)
          /\ IsFiniteSet(BagToSet(MapBag(Inverted, RowsSince(n))))
        BY <2>2, InvertedBag
    <2> QED
        BY <1>1, <2>1, <2>3, ProjectKeepsAccounts
<1>5. CASE Project(MapBag(Row, pulled))
    <2>1. /\ IsBagOf(MapBag(Row, pulled), Rows)
          /\ IsFiniteSet(BagToSet(MapBag(Row, pulled)))
        BY <1>1, RowBag
    <2> QED
        BY <1>1, <1>5, <2>1, ProjectKeepsAccounts
<1> QED
    BY <1>2, <1>3, <1>4, <1>5
    DEF TablesStep, EventTransaction, ReorgTransaction, tables

\* ... and what cools down
LEMMA PendingKept ==
    ASSUME TablesInv, TablesStep
    PROVE  /\ IsBagOf(pending_events', {e \in Events : e.coinbase})
           /\ IsFiniteSet(BagToSet(pending_events'))
<1> DEFINE S == {e \in Events : e.coinbase}
<1>1. IsBagOf(pending_events, S) /\ IsFiniteSet(BagToSet(pending_events))
    BY DEF TablesInv, AggregatorTypeOK
<1> HIDE DEF S
<1>2. UNCHANGED pending_events
      \/ (\E e \in S : pending_events' = pending_events (+) SetToBag({e}))
      \/ (\E n : pending_events' = pending_events (-) PendingUpTo(n))
    BY DEF TablesStep, EventTransaction, ReorgTransaction, tables, S
<1>3. IsBagOf(pending_events', S) /\ IsFiniteSet(BagToSet(pending_events'))
    <2>1. CASE UNCHANGED pending_events
        BY <1>1, <2>1
    <2>2. CASE \E e \in S : pending_events' = pending_events (+) SetToBag({e})
        BY <1>1, <2>2, BagOfOne, BagsAdded
    <2>3. CASE \E n : pending_events' = pending_events (-) PendingUpTo(n)
        <3>1. PICK n : pending_events' = pending_events (-) PendingUpTo(n)
            BY <2>3
        <3>2. IsABag(PendingUpTo(n))
            BY <1>1, PendingUpToBag DEF IsBagOf
        <3> QED
            BY <1>1, <3>1, <3>2, BagsSubtracted
    <2> QED
        BY <1>2, <2>1, <2>2, <2>3
<1> QED
    BY <1>3 DEF S

\* The bag with nothing in it
LEMMA EmptyBagOf ==
    ASSUME NEW S
    PROVE  IsBagOf(EmptyBag, S) /\ IsFiniteSet(BagToSet(EmptyBag))
<1>1. BagToSet(EmptyBag) = {}
    BY DEF EmptyBag, SetToBag, BagToSet
<1> QED
    BY <1>1, FS_EmptySet DEF IsBagOf, IsABag, EmptyBag, SetToBag, BagToSet

\* Control and data of the task
Control ==
    /\ IsBagOf(pulled, {e \in Events : e.coinbase})
    /\ IsFiniteSet(BagToSet(pulled))
    /\ hour \in Hours
    /\ last_block_number \in Nat
    /\ apc \in {"recv", "pull", "project", "stopped", "panicked"}
    /\ shutdown \in {"no", "notified", "cleanup"}
    /\ apc = "project" <=> pulled # EmptyBag

LEMMA ControlKept ==
    ASSUME TablesInv, channel \in Seq(Messages), AnyStep
    PROVE  Control'
<1> USE EmptyBagOf
<1>1. Control
    BY DEF TablesInv, AggregatorTypeOK, Control
<1>2. CASE HandleEvent
    <2>1. apc = "recv" /\ Head(channel).block \in Nat
        BY <1>2, HeadOfChannel DEF HandleEvent, Receive, Events
    <2>2. apc' \in {"pull", "recv"} /\ last_block_number' \in Nat
        BY <1>1, <1>2, <2>1 DEF HandleEvent, Control
    <2> QED
        BY <1>1, <1>2, <2>1, <2>2 DEF HandleEvent, Control
<1>3. CASE HandleReorg
    <2>1. PICK last \in BagToSet(RowsSince(Head(channel).block)) :
              last_block_number' = last.block
        BY <1>3 DEF HandleReorg
    <2>2. last \in Rows
        BY <2>1 DEF RowsSince, SubBagWhere, BagToSet, TablesInv, AggregatorTypeOK, IsBagOf
    <2> QED
        BY <1>1, <1>3, <2>1, <2>2 DEF HandleReorg, Control, Rows
<1>4. CASE PullPending
    <2>1. /\ IsBagOf(pulled', {e \in Events : e.coinbase})
          /\ IsFiniteSet(BagToSet(pulled'))
        BY <1>4, PendingUpToBag DEF PullPending, TablesInv, AggregatorTypeOK
    <2> QED
        BY <1>1, <1>4, <2>1 DEF PullPending, Control
<1>5. CASE ProjectPulled
    BY <1>1, <1>5 DEF ProjectPulled, Control
<1>6. CASE ReorgPanics \/ ChannelClosed
    BY <1>1, <1>6 DEF ReorgPanics, ChannelClosed, End, Control
<1>7. CASE TransactionFails
    BY <1>1, <1>7 DEF TransactionFails, End, Control
<1>8. CASE StartCleanup \/ NotifyShutdown
    BY <1>1, <1>8 DEF StartCleanup, NotifyShutdown, Control
<1>9. CASE HourPasses
    <2>1. hour' \in Hours
        BY <1>1, <1>9, AggregatorAssumption DEF HourPasses, Control, Hours
    <2> QED
        BY <1>1, <1>9, <2>1 DEF HourPasses, Control
<1>10. CASE AggregatorRestart
    BY <1>1, <1>10 DEF AggregatorRestart, Control
<1>11. CASE UNCHANGED aggregatorVars
    BY <1>1, <1>11 DEF aggregatorVars, Control
<1> QED
    BY <1>2, <1>3, <1>4, <1>5, <1>6, <1>7, <1>8, <1>9, <1>10, <1>11
    DEF AnyStep, AggregatorStep

\* The invariant holds at the start ...
LEMMA TablesInvInit ==
    ASSUME AggregatorInit
    PROVE  TablesInv
<1>1. /\ IsBagOf(EmptyBag, Rows) /\ IsBagOf(EmptyBag, {e \in Events : e.coinbase})
      /\ IsFiniteSet(BagToSet(EmptyBag))
    BY EmptyBagOf
<1>2. \A a \in Address : IsIntsOn(statistics[a], Hours) /\ SumFunction(statistics[a]) = 0
    BY SumEmpty DEF AggregatorInit, IsIntsOn, SumFunction
<1>3. \A a \in Address : Total(p2tr_events, a) = 0
    BY TotalEmpty DEF AggregatorInit, EmptyBag, SetToBag, BagToSet
<1>4. ProjectionsAgree
    BY <1>2, <1>3 DEF AggregatorInit, ProjectionsAgree
<1>5. hour \in Hours
    BY AggregatorAssumption DEF AggregatorInit, Hours
<1> QED
    BY <1>1, <1>2, <1>4, <1>5 DEF AggregatorInit, TablesInv, AggregatorTypeOK

\* ... and every step keeps it.
LEMMA TablesInvStep ==
    ASSUME TablesInv, channel \in Seq(Messages), AnyStep
    PROVE  TablesInv'
<1>1. TablesStep
    BY StepTables
<1>2. /\ Accounts' /\ Control'
      /\ IsBagOf(pending_events', {e \in Events : e.coinbase})
      /\ IsFiniteSet(BagToSet(pending_events'))
    BY <1>1, AccountsKept, PendingKept, ControlKept
<1> QED
    BY <1>2 DEF TablesInv, AggregatorTypeOK, Accounts, Control
-----------------------------------------------------------------------------
(***************************************************************************)
(* What the rows of some blocks and transactions amount to.                *)
(***************************************************************************)
Of(X, T) == {r \in Rows : r.block \in X /\ r.tx \in T}

Net(B, X, T, a) == Total(Within(B, Of(X, T)), a)

\* A finite bag of rows
IsLedger(B) == IsBagOf(B, Rows) /\ IsFiniteSet(BagToSet(B))

Since(n) == {k \in Nat : k >= n}

\* The blocks of X from n on, and those before
From(X, n) == X \cap Since(n)
Before(X, n) == X \ Since(n)

\* What a reorganization at n adds to the rows B
InvertedSince(B, n) == MapBag(Inverted, SubBagWhere(B, LAMBDA r : r.block >= n))

\* The rows of B that NetSince counts
RowsSinceOf(B, n, t) == SubBagWhere(B, LAMBDA r : r.block >= n /\ r.tx = t)

LEMMA NetType ==
    ASSUME NEW B, IsLedger(B), NEW X, NEW T, NEW a
    PROVE  Net(B, X, T, a) \in Int
BY RowsHaveTotal, WithinHasTotal, TotalType DEF IsLedger, Net

LEMMA NetAdded ==
    ASSUME NEW B, NEW C, IsLedger(B), IsLedger(C), NEW X, NEW T, NEW a
    PROVE  Net(B (+) C, X, T, a) = Net(B, X, T, a) + Net(C, X, T, a)
<1>1. HasTotal(Within(B, Of(X, T))) /\ HasTotal(Within(C, Of(X, T)))
    BY RowsHaveTotal, WithinHasTotal DEF IsLedger
<1> QED
    BY <1>1, WithinAdded, TotalAdded DEF Net

\* Blocks can be counted in two parts.
LEMMA NetSplit ==
    ASSUME NEW B, IsLedger(B), NEW X, NEW n, NEW T, NEW a
    PROVE  Net(B, X, T, a) = Net(B, From(X, n), T, a) + Net(B, Before(X, n), T, a)
<1> DEFINE W == Within(B, Of(X, T))
           Y == Since(n)
<1>1. HasTotal(W)
    BY RowsHaveTotal, WithinHasTotal DEF IsLedger
<1>2. Within(W, Of(Y, T)) = Within(B, Of(From(X, n), T))
    BY DEF Within, BagToSet, Of, From
<1>3. Within(W, BagToSet(W) \ Of(Y, T)) = Within(B, Of(Before(X, n), T))
    BY DEF Within, BagToSet, Of, Before
<1> HIDE DEF W
<1>4. Total(W, a) = Total(Within(W, Of(Y, T)), a)
                        + Total(Within(W, BagToSet(W) \ Of(Y, T)), a)
    BY <1>1, TotalSplit
<1> QED
    BY <1>2, <1>3, <1>4 DEF Net, W

\* Nothing of the transactions, nothing net
LEMMA NetOfNone ==
    ASSUME NEW B, NEW X, NEW T, NEW a, BagToSet(B) \cap Of(X, T) = {}
    PROVE  Net(B, X, T, a) = 0
<1>1. BagToSet(Within(B, Of(X, T))) = {}
    BY DEF Within, BagToSet
<1> QED
    BY <1>1, TotalEmpty DEF Net

\* Credits without a debit
LEMMA NetOfCredits ==
    ASSUME NEW B, IsLedger(B), \A r \in BagToSet(B) : r.amount >= 0,
           NEW X, NEW T, NEW a
    PROVE  Net(B, X, T, a) >= 0
<1> DEFINE W == Within(B, Of(X, T))
<1>1. HasTotal(W) /\ BagToSet(W) = BagToSet(B) \cap Of(X, T)
    BY RowsHaveTotal, WithinHasTotal DEF IsLedger
<1> HIDE DEF W
<1>2. IsFiniteSet(RowsOf(W, a))
    BY <1>1, FS_Subset DEF HasTotal, RowsOf
<1>3. ASSUME NEW r \in RowsOf(W, a)
      PROVE  Weight(W)[r] \in Nat
    <2>1. W[r] \in Nat /\ r.amount \in Nat
        BY <1>1 DEF HasTotal, IsABag, BagToSet, RowsOf
    <2>2. Weight(W)[r] = W[r] * r.amount
        BY DEF Weight, RowsOf
    <2> QED
        BY <2>1, <2>2
<1>4. SumFunctionOnSet(Weight(W), RowsOf(W, a)) \in Nat
    BY <1>2, <1>3, SumNat
<1> QED
    BY <1>4, TotalIsSum DEF Net, W

\* After the inverted rows of blocks n and higher are added, only lower blocks
\* count.
LEMMA NetAfterReorg ==
    ASSUME NEW B, IsLedger(B), NEW n \in Nat, NEW X \in SUBSET Nat, NEW T, NEW a
    PROVE  Net(B (+) InvertedSince(B, n), X, T, a) = Net(B, Before(X, n), T, a)
<1> DEFINE S == SubBagWhere(B, LAMBDA r : r.block >= n)
           C == MapBag(Inverted, S)
           V == Within(B, Of(From(X, n), T))
           W == Within(C, Of(X, T))
           m == [x \in BagToSet(S) |-> Inverted(x)]
<1>1. /\ BagToSet(S) = {r \in BagToSet(B) : r.block >= n}
      /\ \A r \in BagToSet(S) : S[r] = B[r]
    BY DEF SubBagWhere, BagToSet
<1>2. IsLedger(S)
    <2>1. BagToSet(S) \in SUBSET BagToSet(B)
        BY <1>1
    <2>2. IsFiniteSet(BagToSet(S))
        BY <2>1, FS_Subset DEF IsLedger
    <2> QED
        BY <2>2 DEF IsLedger, IsBagOf, IsABag, SubBagWhere, BagToSet
<1> HIDE DEF S
<1>3. /\ IsLedger(C)
      /\ Renames(m, S, C)
      /\ \A x \in BagToSet(S) : m[x].amount = -x.amount
    BY <1>2, InvertedBag DEF IsLedger
<1> HIDE DEF C, m
<1>4. HasTotal(V) /\ HasTotal(W)
    BY <1>3, RowsHaveTotal, WithinHasTotal DEF IsLedger
<1>5. /\ BagToSet(V) = BagToSet(B) \cap Of(From(X, n), T)
      /\ BagToSet(W) = BagToSet(C) \cap Of(X, T)
      /\ \A r \in BagToSet(V) : V[r] = B[r]
      /\ \A r \in BagToSet(W) : W[r] = C[r]
    BY DEF Within, BagToSet
<1> HIDE DEF V, W
<1>6. BagToSet(V) = {x \in BagToSet(S) : m[x] \in Of(X, T)}
    <2>1. \A x \in BagToSet(S) : m[x].block = x.block /\ m[x].tx = x.tx /\ m[x] \in Rows
        BY <1>3 DEF Renames, IsLedger, IsBagOf
    <2>2. \A x \in BagToSet(B) : x \in Rows /\ x.block \in Nat
        BY DEF IsLedger, IsBagOf, Rows
    <2>3. ASSUME NEW x \in BagToSet(V)
          PROVE  x \in BagToSet(S) /\ m[x] \in Of(X, T)
        <3>1. x \in BagToSet(S)
            BY <1>1, <1>5, <2>2 DEF Of, Since, From
        <3> QED
            BY <1>5, <2>1, <3>1 DEF Of, From
    <2>4. ASSUME NEW x \in BagToSet(S), m[x] \in Of(X, T)
          PROVE  x \in BagToSet(V)
        <3>1. x \in BagToSet(B) /\ x.block >= n /\ x \in Rows /\ x.block \in Nat
            BY <1>1, <2>2
        <3>2. x.block \in X /\ x.tx \in T
            BY <2>1, <2>4 DEF Of
        <3> QED
            BY <1>5, <3>1, <3>2 DEF Of, Since, From
    <2> QED
        BY <2>3, <2>4
<1>7. Renames(m, V, W)
    <2>1. ASSUME NEW x \in BagToSet(V)
          PROVE  m[x] \in BagToSet(W) /\ W[m[x]] = V[x]
        <3>1. x \in BagToSet(S) /\ m[x] \in Of(X, T)
            BY <1>6
        <3>2. m[x] \in BagToSet(C) /\ C[m[x]] = S[x]
            BY <1>3, <3>1 DEF Renames
        <3>3. m[x] \in BagToSet(W)
            BY <1>5, <3>1, <3>2
        <3>4. W[m[x]] = C[m[x]] /\ V[x] = B[x] /\ S[x] = B[x]
            BY <1>1, <1>5, <3>1, <3>3
        <3> QED
            BY <3>2, <3>3, <3>4
    <2>2. BagToSet(W) = {m[x] : x \in BagToSet(V)}
        <3>1. ASSUME NEW y \in BagToSet(W)
              PROVE  \E x \in BagToSet(V) : y = m[x]
            <4>1. PICK x \in BagToSet(S) : y = m[x]
                BY <1>3, <1>5 DEF Renames
            <4>2. x \in BagToSet(V)
                BY <1>5, <1>6, <4>1
            <4> QED
                BY <4>1, <4>2
        <3> QED
            BY <2>1, <3>1
    <2> QED
        BY <1>3, <1>6, <2>1, <2>2 DEF Renames
<1>8. \A x \in BagToSet(V) : m[x].amount = -x.amount
    BY <1>3, <1>6
<1>9. Total(W, a) = -Total(V, a)
    BY <1>4, <1>7, <1>8, TotalOpposite DEF HasTotal
<1>10. Net(B (+) C, X, T, a) = Net(B, X, T, a) + Total(W, a)
    BY <1>3, NetAdded DEF Net, W
<1>11. Net(B, X, T, a) = Net(B, From(X, n), T, a) + Net(B, Before(X, n), T, a)
    BY NetSplit
<1>12. Net(B, From(X, n), T, a) = Total(V, a)
    BY DEF Net, V
<1>13. Total(V, a) \in Int /\ Net(B, Before(X, n), T, a) \in Int
    BY <1>4, TotalType, NetType
<1>14. C = InvertedSince(B, n)
    BY DEF InvertedSince, C, S
<1> QED
    BY <1>9, <1>10, <1>11, <1>12, <1>13, <1>14

\* All rows are counted.
LEMMA NetOfAll ==
    ASSUME NEW B, IsLedger(B), NEW a
    PROVE  Net(B, Nat, Tx, a) = Total(B, a)
<1>1. BagToSet(B) \subseteq Of(Nat, Tx)
    BY DEF IsLedger, IsBagOf, Of, Rows
<1>2. Within(B, Of(Nat, Tx)) = [x \in BagToSet(B) |-> B[x]]
    BY <1>1 DEF Within
<1>3. B = [x \in BagToSet(B) |-> B[x]]
    BY DEF IsLedger, IsBagOf, IsABag, BagToSet
<1> QED
    BY <1>2, <1>3 DEF Net

\* What one row adds to the blocks of X
LEMMA NetOfOne ==
    ASSUME NEW r \in Rows, NEW X, NEW a
    PROVE  /\ IsLedger(SetToBag({r}))
           /\ Net(SetToBag({r}), X, Tx, a)
                  = IF r.block \in X /\ r.addr = a THEN r.amount ELSE 0
<1> DEFINE B == SetToBag({r})
           W == Within(B, Of(X, Tx))
<1>1. IsLedger(B) /\ BagToSet(B) = {r} /\ B[r] = 1
    BY BagOfOne DEF IsLedger, SetToBag, BagToSet
<1> HIDE DEF B
<1>2. /\ HasTotal(W)
      /\ BagToSet(W) = {r} \cap Of(X, Tx)
      /\ \A x \in BagToSet(W) : W[x] = B[x]
    BY <1>1, RowsHaveTotal, WithinHasTotal DEF IsLedger, Within, BagToSet
<1>3. r \in Of(X, Tx) <=> r.block \in X
    BY DEF Of, Rows
<1>4. r.amount \in Int
    BY DEF Rows
<1> HIDE DEF W
<1>5. CASE r.block \in X /\ r.addr = a
    <2>1. RowsOf(W, a) = {r} /\ Weight(W)[r] = r.amount
        BY <1>1, <1>2, <1>3, <1>4, <1>5 DEF RowsOf, Weight
    <2>2. SumFunctionOnSet(Weight(W), {r}) = r.amount
        BY <1>4, <2>1, SumOne
    <2> QED
        BY <1>1, <1>5, <2>1, <2>2, TotalIsSum DEF Net, W, B
<1>6. CASE ~(r.block \in X /\ r.addr = a)
    <2>1. RowsOf(W, a) = {}
        BY <1>2, <1>3, <1>6 DEF RowsOf
    <2>2. SumFunctionOnSet(Weight(W), {}) = 0
        BY SumEmpty
    <2> QED
        BY <1>1, <1>6, <2>1, <2>2, TotalIsSum DEF Net, W, B
<1> QED
    BY <1>5, <1>6

LEMMA NetSinceIsNet ==
    ASSUME NEW B, IsLedger(B), NEW n \in Nat, NEW t, NEW a
    PROVE  Total(RowsSinceOf(B, n, t), a) = Net(B, Since(n), {t}, a)
<1>1. \A x \in BagToSet(B) : x \in Of(Since(n), {t}) <=> x.block >= n /\ x.tx = t
    BY DEF IsLedger, IsBagOf, Of, Since, Rows
<1>2. RowsSinceOf(B, n, t) = Within(B, Of(Since(n), {t}))
    BY <1>1 DEF RowsSinceOf, SubBagWhere, Within
<1> QED
    BY <1>2 DEF Net

-----------------------------------------------------------------------------
(***************************************************************************)
(* Coinbases.                                                              *)
(***************************************************************************)

CoolingEvents == {e \in Events : e.coinbase /\ e.tx \in Coinbase /\ e.amount >= 0}

\* Only credits of coinbases cool down, each until a block Maturity higher is
\* seen; and whichever blocks are counted, a coinbase never debits on the whole.
CreditsInv ==
    /\ BagToSet(pending_events) \subseteq CoolingEvents
    /\ BagToSet(pulled) \subseteq CoolingEvents
    /\ \A e \in BagToSet(pulled) : e.block + Maturity <= last_block_number
    /\ \A X \in SUBSET Nat, t \in Coinbase, a \in Address :
           Net(p2tr_events, X, {t}, a) >= 0

LEMMA TablesAreLedgers ==
    ASSUME TablesInv
    PROVE  /\ IsLedger(p2tr_events)
           /\ \A n : /\ MapBag(Inverted, RowsSince(n)) = InvertedSince(p2tr_events, n)
                    /\ IsLedger(InvertedSince(p2tr_events, n))
           /\ IsLedger(MapBag(Row, pulled))
           /\ BagToSet(MapBag(Row, pulled)) = {Row(e) : e \in BagToSet(pulled)}
<1>1. IsLedger(p2tr_events)
    BY DEF TablesInv, AggregatorTypeOK, IsLedger
<1>2. \A n : IsLedger(RowsSince(n))
    BY <1>1, RowsSinceBag DEF IsLedger
<1>3. ASSUME NEW n
      PROVE  /\ MapBag(Inverted, RowsSince(n)) = InvertedSince(p2tr_events, n)
             /\ IsLedger(InvertedSince(p2tr_events, n))
    <2>1. IsLedger(MapBag(Inverted, RowsSince(n)))
        BY <1>2, InvertedBag DEF IsLedger
    <2>2. MapBag(Inverted, RowsSince(n)) = InvertedSince(p2tr_events, n)
        BY DEF RowsSince, InvertedSince
    <2> QED
        BY <2>1, <2>2
<1>4. IsLedger(MapBag(Row, pulled))
    BY RowBag DEF TablesInv, AggregatorTypeOK, IsLedger
<1>5. BagToSet(MapBag(Row, pulled)) = {Row(e) : e \in BagToSet(pulled)}
    BY DEF MapBag, BagToSet
<1> QED
    BY <1>1, <1>2, <1>3, <1>4, <1>5

LEMMA NetBelowIsNet ==
    ASSUME NEW B, IsLedger(B), NEW n \in Nat, NEW a
    PROVE  Total(SubBagWhere(B, LAMBDA r : r.block < n), a) = Net(B, Before(Nat, n), Tx, a)
<1>1. \A x \in BagToSet(B) : x \in Of(Before(Nat, n), Tx) <=> x.block < n
    BY DEF IsLedger, IsBagOf, Of, Before, Since, Rows
<1>2. SubBagWhere(B, LAMBDA r : r.block < n) = Within(B, Of(Before(Nat, n), Tx))
    BY <1>1 DEF SubBagWhere, Within
<1> QED
    BY <1>2 DEF Net

\* HandleReorg(n) takes a balance back to what the rows below block n made of it ...
LEMMA ReorgRestores ==
    ASSUME TablesInv, channel \in Seq(Messages), HandleReorg,
           NEW n, n = Head(channel).block, NEW a \in Address
    PROVE  balances[a]' = NetBelow(n, a)
<1>1. n \in Nat
    BY HeadOfChannel DEF HandleReorg, Receive
<1>2. p2tr_events' = p2tr_events (+) InvertedSince(p2tr_events, n)
    BY TablesAreLedgers DEF HandleReorg, ReorgTransaction, Project
<1>3. IsLedger(p2tr_events) /\ IsLedger(p2tr_events')
    BY <1>2, TablesAreLedgers, BagsAdded DEF IsLedger
<1>4. TablesInv'
    BY TablesInvStep DEF AnyStep, AggregatorStep
<1>5. balances[a]' = Net(p2tr_events', Nat, Tx, a)
    BY <1>3, <1>4, NetOfAll DEF TablesInv, ProjectionsAgree
<1>6. Net(p2tr_events', Nat, Tx, a) = Net(p2tr_events, Before(Nat, n), Tx, a)
    BY <1>1, <1>2, <1>3, NetAfterReorg
<1> QED
    BY <1>1, <1>3, <1>5, <1>6, NetBelowIsNet DEF NetBelow

\* ... and cancels what the rows of blocks n and higher amount to.
LEMMA ReorgStep ==
    ASSUME TablesInv, channel \in Seq(Messages), HandleReorg,
           NEW n, n = Head(channel).block, NEW t, NEW a
    PROVE  NetSince(n, t, a)' = 0
<1> DEFINE C == InvertedSince(p2tr_events, n)
<1>1. n \in Nat
    BY HeadOfChannel DEF HandleReorg, Receive
<1>2. p2tr_events' = p2tr_events (+) C
    BY TablesAreLedgers DEF HandleReorg, ReorgTransaction, Project
<1>3. IsLedger(p2tr_events) /\ IsLedger(C)
    BY TablesAreLedgers
<1>4. IsLedger(p2tr_events')
    BY <1>2, <1>3, BagsAdded DEF IsLedger
<1>5. Since(n) \in SUBSET Nat /\ Before(Since(n), n) = {}
    BY DEF Since, Before
<1>6. Net(p2tr_events', Since(n), {t}, a) = Net(p2tr_events, Before(Since(n), n), {t}, a)
    BY <1>1, <1>2, <1>3, <1>5, NetAfterReorg
<1>7. Net(p2tr_events, Before(Since(n), n), {t}, a) = 0
    BY <1>5, NetOfNone DEF Of
<1>8. Total(RowsSinceOf(p2tr_events', n, t), a) = 0
    BY <1>1, <1>4, <1>6, <1>7, NetSinceIsNet
<1> QED
    BY <1>8 DEF NetSince, RowsSinceOf, SubBagWhere

\* What a transaction of the database does to what a coinbase amounts to
LEMMA NetStep ==
    ASSUME TablesInv, channel \in Seq(SentMessages), TablesStep,
           NEW X \in SUBSET Nat, NEW t \in Coinbase, NEW a \in Address
    PROVE  \/ Net(p2tr_events', X, {t}, a) = Net(p2tr_events, X, {t}, a)
           \/ \E n \in Nat :
                  Net(p2tr_events', X, {t}, a) = Net(p2tr_events, Before(X, n), {t}, a)
           \/ /\ p2tr_events' = p2tr_events (+) MapBag(Row, pulled)
              /\ Net(p2tr_events', X, {t}, a)
                     = Net(p2tr_events, X, {t}, a) + Net(MapBag(Row, pulled), X, {t}, a)
<1>1. CASE UNCHANGED p2tr_events
    BY <1>1
<1>2. CASE /\ channel # <<>> /\ Head(channel) \in Events
           /\ ~Head(channel).coinbase
           /\ Project(SetToBag({Row(Head(channel))}))
    <2> DEFINE e == Head(channel)
               C == SetToBag({Row(e)})
    <2>1. Row(e) \in Rows /\ Row(e).tx = e.tx /\ e.type = "event"
        BY <1>2 DEF Row, Rows, Events
    <2>2. e \in SentMessages
        BY <1>2
    <2>3. Row(e).tx # t
        BY <1>2, <2>1, <2>2 DEF SentMessages
    <2>4. IsLedger(C) /\ BagToSet(C) = {Row(e)}
        BY <2>1, BagOfOne DEF IsLedger, SetToBag, BagToSet
    <2> HIDE DEF e, C
    <2>5. Net(C, X, {t}, a) = 0
        BY <2>3, <2>4, NetOfNone DEF Of
    <2>6. p2tr_events' = p2tr_events (+) C
        BY <1>2 DEF Project, C, e
    <2>7. Net(p2tr_events', X, {t}, a) = Net(p2tr_events, X, {t}, a) + Net(C, X, {t}, a)
        BY <2>4, <2>6, TablesAreLedgers, NetAdded
    <2>8. Net(p2tr_events, X, {t}, a) \in Int
        BY TablesAreLedgers, NetType
    <2> QED
        BY <2>5, <2>7, <2>8
<1>3. CASE \E n \in Nat : Project(MapBag(Inverted, RowsSince(n)))
    <2>1. PICK n \in Nat : Project(MapBag(Inverted, RowsSince(n)))
        BY <1>3
    <2>2. p2tr_events' = p2tr_events (+) InvertedSince(p2tr_events, n)
        BY <2>1, TablesAreLedgers DEF Project
    <2>3. Net(p2tr_events', X, {t}, a) = Net(p2tr_events, Before(X, n), {t}, a)
        BY <2>2, TablesAreLedgers, NetAfterReorg
    <2> QED
        BY <2>3
<1>4. CASE Project(MapBag(Row, pulled))
    <2>1. p2tr_events' = p2tr_events (+) MapBag(Row, pulled)
        BY <1>4 DEF Project
    <2> QED
        BY <2>1, TablesAreLedgers, NetAdded
<1> QED
    BY <1>1, <1>2, <1>3, <1>4
    DEF TablesStep, EventTransaction, ReorgTransaction, tables

LEMMA PulledCredits ==
    ASSUME TablesInv, CreditsInv, NEW X, NEW t, NEW a
    PROVE  Net(MapBag(Row, pulled), X, {t}, a) >= 0
<1>1. ASSUME NEW r \in BagToSet(MapBag(Row, pulled))
      PROVE  r.amount >= 0
    <2>1. PICK e \in BagToSet(pulled) : r = Row(e)
        BY TablesAreLedgers
    <2>2. e.amount >= 0
        BY DEF CreditsInv, CoolingEvents
    <2> QED
        BY <2>1, <2>2 DEF Row
<1> QED
    BY <1>1, TablesAreLedgers, NetOfCredits

LEMMA SentAreMessages ==
    ASSUME channel \in Seq(SentMessages)
    PROVE  channel \in Seq(Messages)
BY DEF SentMessages

LEMMA CreditsInvStep ==
    ASSUME TablesInv, CreditsInv, channel \in Seq(SentMessages), AnyStep
    PROVE  CreditsInv'
<1>1. TablesStep
    BY SentAreMessages, StepTables
<1>2. BagToSet(pending_events') \subseteq CoolingEvents
    <2>1. CASE UNCHANGED pending_events
        BY <2>1 DEF CreditsInv
    <2>2. CASE /\ channel # <<>> /\ Head(channel) \in Events
               /\ Head(channel).coinbase
               /\ pending_events' = pending_events (+) SetToBag({Head(channel)})
        <3>1. Head(channel) \in CoolingEvents
            <4>1. Head(channel) \in SentMessages /\ Head(channel).type = "event"
                BY <2>2 DEF Events
            <4> QED
                BY <2>2, <4>1 DEF SentMessages, CoolingEvents
        <3>2. BagToSet(pending_events') = BagToSet(pending_events) \cup {Head(channel)}
            BY <2>2 DEF BagToSet, SetToBag, (+)
        <3> QED
            BY <3>1, <3>2 DEF CreditsInv
    <2>3. CASE \E n : pending_events' = pending_events (-) PendingUpTo(n)
        <3>1. BagToSet(pending_events') \subseteq BagToSet(pending_events)
            BY <2>3 DEF BagToSet, (-)
        <3> QED
            BY <3>1 DEF CreditsInv
    <2> QED
        BY <1>1, <2>1, <2>2, <2>3
        DEF TablesStep, EventTransaction, ReorgTransaction, tables
<1>3. /\ BagToSet(pulled') \subseteq CoolingEvents
      /\ \A e \in BagToSet(pulled') : e.block + Maturity <= last_block_number'
    <2>1. CASE PullPending
        <3>1. BagToSet(pulled') = {e \in BagToSet(pending_events) :
                                      e.block <= last_block_number - Maturity}
            BY <2>1 DEF PullPending, PendingUpTo, SubBagWhere, BagToSet
        <3>2. last_block_number' = last_block_number /\ last_block_number \in Nat
            BY <2>1 DEF PullPending, TablesInv, AggregatorTypeOK
        <3>3. BagToSet(pulled') \subseteq CoolingEvents
            BY <3>1 DEF CreditsInv
        <3>4. \A e \in CoolingEvents : e.block \in Nat
            BY DEF CoolingEvents, Events
        <3> QED
            BY <3>1, <3>2, <3>3, <3>4, AggregatorAssumption
    <2>2. CASE pulled' = EmptyBag
        BY <2>2 DEF EmptyBag, SetToBag, BagToSet
    <2>3. CASE UNCHANGED <<pulled, last_block_number>>
        BY <2>3 DEF CreditsInv
    <2>4. CASE HandleEvent \/ HandleReorg
        <3>1. apc = "recv" /\ UNCHANGED pulled
            BY <2>4 DEF HandleEvent, HandleReorg, Receive
        <3>2. pulled = EmptyBag
            BY <3>1 DEF TablesInv, AggregatorTypeOK
        <3> QED
            BY <3>1, <3>2, <2>2
    <2> QED
        BY <2>1, <2>2, <2>3, <2>4
        DEF AnyStep, AggregatorStep, ProjectPulled, ReorgPanics, StartCleanup, ChannelClosed,
            End, TransactionFails, NotifyShutdown, HourPasses, AggregatorRestart,
            aggregatorVars
<1>4. ASSUME NEW X \in SUBSET Nat, NEW t \in Coinbase, NEW a \in Address
      PROVE  Net(p2tr_events', X, {t}, a) >= 0
    <2>1. /\ \A Y \in SUBSET Nat : Net(p2tr_events, Y, {t}, a) >= 0
          /\ Net(MapBag(Row, pulled), X, {t}, a) >= 0
        BY PulledCredits DEF CreditsInv
    <2>2. /\ Net(p2tr_events, X, {t}, a) \in Int
          /\ Net(MapBag(Row, pulled), X, {t}, a) \in Int
        BY TablesAreLedgers, NetType
    <2>3. \A n \in Nat : Net(p2tr_events, Before(X, n), {t}, a) >= 0
        <3>1. \A n \in Nat : Before(X, n) \in SUBSET Nat
            BY DEF Before
        <3> QED
            BY <2>1, <3>1
    <2>4. Net(p2tr_events, X, {t}, a) >= 0
        BY <2>1
    <2> DEFINE T == {t}
    <2>5. \/ Net(p2tr_events', X, T, a) = Net(p2tr_events, X, T, a)
          \/ \E n \in Nat :
                 Net(p2tr_events', X, T, a) = Net(p2tr_events, Before(X, n), T, a)
          \/ Net(p2tr_events', X, T, a)
                 = Net(p2tr_events, X, T, a) + Net(MapBag(Row, pulled), X, T, a)
        BY <1>1, NetStep
    <2>6. /\ \A n \in Nat : Net(p2tr_events, Before(X, n), T, a) >= 0
          /\ Net(p2tr_events, X, T, a) >= 0 /\ Net(MapBag(Row, pulled), X, T, a) >= 0
          /\ Net(p2tr_events, X, T, a) \in Int /\ Net(MapBag(Row, pulled), X, T, a) \in Int
        BY <2>1, <2>2, <2>3, <2>4
    <2> HIDE DEF T
    <2>7. Net(p2tr_events', X, T, a) >= 0
        BY <2>5, <2>6
    <2> QED
        BY <2>7 DEF T
<1> QED
    BY <1>2, <1>3, <1>4 DEF CreditsInv

LEMMA CreditsInvInit ==
    ASSUME AggregatorInit
    PROVE  CreditsInv
<1>1. BagToSet(EmptyBag) = {}
    BY DEF EmptyBag, SetToBag, BagToSet
<1>2. \A X, T, a : Net(p2tr_events, X, T, a) = 0
    BY <1>1, NetOfNone DEF AggregatorInit
<1>3. \A X \in SUBSET Nat, t \in Coinbase, a \in Address :
          Net(p2tr_events, X, {t}, a) >= 0
    BY <1>2
<1> QED
    BY <1>1, <1>3 DEF AggregatorInit, CreditsInv

\* A coinbase that begins to be credited has waited.
LEMMA MaturityStep ==
    ASSUME TablesInv, CreditsInv, channel \in Seq(SentMessages), TablesStep,
           NEW t \in Coinbase, NEW a \in Address,
           NetSince(0, t, a) = 0, NetSince(0, t, a)' # 0
    PROVE  \E r \in BagToSet(p2tr_events') :
               r.tx = t /\ r.block + Maturity <= last_block_number
<1> DEFINE X == Since(0)
           C == MapBag(Row, pulled)
<1>1. IsLedger(p2tr_events) /\ IsLedger(C)
    BY TablesAreLedgers
<1>2. IsLedger(p2tr_events')
    BY AccountsKept DEF Accounts, IsLedger
<1>3. Net(p2tr_events, X, {t}, a) = 0
    <2>1. Total(RowsSinceOf(p2tr_events, 0, t), a) = 0
        BY DEF NetSince, RowsSinceOf
    <2> QED
        BY <1>1, <2>1, NetSinceIsNet
<1>4. Net(p2tr_events', X, {t}, a) # 0
    <2>1. Total(RowsSinceOf(p2tr_events', 0, t), a) # 0
        BY DEF NetSince, RowsSinceOf, SubBagWhere
    <2> QED
        BY <1>2, <2>1, NetSinceIsNet
<1>5. X \in SUBSET Nat
    BY DEF Since
<1> HIDE DEF X
<1>6. CASE \E n \in Nat :
               Net(p2tr_events', X, {t}, a) = Net(p2tr_events, Before(X, n), {t}, a)
    <2>1. PICK n \in Nat :
              Net(p2tr_events', X, {t}, a) = Net(p2tr_events, Before(X, n), {t}, a)
        BY <1>6
    <2> DEFINE low == Net(p2tr_events, Before(X, n), {t}, a)
               high == Net(p2tr_events, From(X, n), {t}, a)
    <2>2. low >= 0 /\ high >= 0
        BY <1>5 DEF CreditsInv, Before, From
    <2>3. low \in Int /\ high \in Int
        BY <1>1, NetType
    <2>4. Net(p2tr_events, X, {t}, a) = high + low
        BY <1>1, NetSplit
    <2> HIDE DEF low, high
    <2>5. low = 0
        BY <1>3, <2>2, <2>3, <2>4
    <2> QED
        BY <1>4, <2>1, <2>5 DEF low
<1>7. CASE /\ p2tr_events' = p2tr_events (+) C
           /\ Net(p2tr_events', X, {t}, a) = Net(p2tr_events, X, {t}, a) + Net(C, X, {t}, a)
    <2>1. Net(C, X, {t}, a) # 0
        BY <1>3, <1>4, <1>7
    <2>2. PICK r \in BagToSet(C) : r.tx = t
        BY <2>1, NetOfNone DEF Of
    <2>3. PICK e \in BagToSet(pulled) : r = Row(e)
        BY <2>2, TablesAreLedgers
    <2>4. r.block + Maturity <= last_block_number
        BY <2>3 DEF CreditsInv, Row
    <2>5. r \in BagToSet(p2tr_events')
        BY <1>7, <2>2 DEF BagToSet, (+)
    <2> QED
        BY <2>2, <2>4, <2>5
<1> QED
    BY <1>3, <1>4, <1>5, <1>6, <1>7, NetStep
=============================================================================
