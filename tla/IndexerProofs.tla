---------------------------- MODULE IndexerProofs ----------------------------
(***************************************************************************)
(* Both tasks keep their invariants in the whole service: they share the   *)
(* channel and nothing else, and what the harvester sends is what the      *)
(* aggregator expects.                                                     *)
(***************************************************************************)
EXTENDS Indexer, ProgressProofs, AggregatorProofs

\* The aggregator's part of a step: the channel, and the end of the receiver.
OtherSide ==
    /\ UNCHANGED <<harvesterOwn, receiving>>
       \/ /\ UNCHANGED <<processorVars, tip, pc, loopVars, desired_height, block>>
          /\ receiving' \in BOOLEAN
          /\ used' \in [Limited -> Nat]

\* A step of the service is one of Harvester's, or of the other side.
LEMMA IndexerStep ==
    ASSUME Shape, [IndexerNext]_indexerVars
    PROVE  [Next]_vars \/ OtherSide
<1>1. CASE HarvesterSide \/ HarvesterTrouble \/ ProcessRestart
    BY <1>1 DEF HarvesterSide, HarvesterTrouble, ProcessRestart, Next, SteadyNext
<1>2. CASE AggregatorSide
    <2>1. UNCHANGED harvesterOwn
        BY <1>2 DEF AggregatorSide
    <2>2. receiving' = receiving \/ receiving' = FALSE
        BY <1>2
        DEF AggregatorSide, AggregatorStep, HandleEvent, HandleReorg, Receive, PullPending,
            ProjectPulled, ReorgPanics, StartCleanup, ChannelClosed, End
    <2> QED
        BY <2>1, <2>2 DEF OtherSide, harvesterOwn, Shape
<1>3. CASE AggregatorTrouble
    <2>1. receiving' = receiving \/ receiving' = FALSE
        BY <1>3 DEF AggregatorTrouble, TransactionFails, End
    <2>2. used' \in [Limited -> Nat]
        BY <1>3 DEF AggregatorTrouble, Uses, Shape, Limited
    <2> QED
        BY <1>3, <2>1, <2>2 DEF AggregatorTrouble, OtherSide, Shape
<1>4. CASE Signal
    BY <1>4 DEF Signal, OtherSide
<1>5. CASE ClockAndNode
    BY <1>5 DEF ClockAndNode, OtherSide, Next, SteadyNext
<1>6. CASE UNCHANGED indexerVars
    BY <1>6 DEF indexerVars
<1> QED
    BY <1>1, <1>2, <1>3, <1>4, <1>5, <1>6 DEF IndexerNext

\* The harvester's invariants do not mention what the other side changes.
LEMMA OtherSideKeeps ==
    ASSUME Shape, StoreInv, OtherSide
    PROVE  Shape' /\ StoreInv'
<1>1. /\ UNCHANGED <<processorVars, tip, pc, loopVars, desired_height, block>>
      /\ receiving' \in BOOLEAN
      /\ used' \in [Limited -> Nat]
    BY DEF OtherSide, harvesterOwn, Shape
<1>2. StoreInv'
    BY <1>1, StoreInvStutter
<1> QED
    BY <1>1, <1>2
    DEF Shape, processorVars, loopVars, ProcessorTypeOK, NodeTypeOK, Processing

\* Control and data of the harvester agree, and its tables are consistent, in
\* every state of the service.
LEMMA IndexerInvariant == IndexerSpec => [](Shape /\ StoreInv)
<1>1. IndexerInit => Shape /\ StoreInv
    BY ShapeInit, StoreInvInit DEF IndexerInit
<1>2. Shape /\ StoreInv /\ [IndexerNext]_indexerVars => (Shape /\ StoreInv)'
    <2> SUFFICES ASSUME Shape, StoreInv, [IndexerNext]_indexerVars
                 PROVE  Shape' /\ StoreInv'
        OBVIOUS
    <2>1. CASE [Next]_vars
        BY <2>1, ShapeStep, StoreInvStep
    <2>2. CASE OtherSide
        BY <2>2, OtherSideKeeps
    <2> QED
        BY <2>1, <2>2, IndexerStep
<1> QED
    BY <1>1, <1>2, PTL DEF IndexerSpec

\* However the two tasks interleave, fail, are shut down and are started again,
\* the rows of btc_utxos are the taproot outputs of the stored blocks, and each
\* row marked spent is spent by the stored block it names.
THEOREM IndexerStoreSound == IndexerSpec => []UtxoBacked /\ []SpentIsReal
BY IndexerInvariant, ConsistentRows, ConsistentSpends, PTL
-----------------------------------------------------------------------------
(***************************************************************************)
(* The aggregator's side.                                                  *)
(***************************************************************************)

\* Every step of the service is, for the aggregator's own variables, one of its
\* steps or none.
LEMMA IndexerAnyStep ==
    ASSUME [IndexerNext]_indexerVars
    PROVE  AnyStep
BY DEF IndexerNext, indexerVars, HarvesterSide, AggregatorSide, HarvesterTrouble,
       AggregatorTrouble, Signal, ProcessRestart, ClockAndNode, AnyStep

\* The aggregator only takes messages from the channel.
LEMMA AggregatorChannel ==
    ASSUME channel \in Seq(SentMessages),
           AggregatorStep \/ ChannelClosed \/ TransactionFails
    PROVE  channel' \in Seq(SentMessages)
<1>1. channel' = channel \/ channel' = <<>> \/ (channel # <<>> /\ channel' = Tail(channel))
    BY DEF AggregatorStep, HandleEvent, HandleReorg, Receive, PullPending, ProjectPulled,
           ReorgPanics, StartCleanup, ChannelClosed, TransactionFails, End
<1>2. channel # <<>> => Tail(channel) \in Seq(SentMessages)
    OBVIOUS
<1>3. <<>> \in Seq(SentMessages)
    OBVIOUS
<1> QED
    BY <1>1, <1>2, <1>3

LEMMA IndexerChannel ==
    ASSUME Shape, channel \in Seq(SentMessages), [IndexerNext]_indexerVars
    PROVE  channel' \in Seq(SentMessages)
<1>1. CASE [Next]_vars
    BY <1>1, ChannelStep
<1>2. CASE AggregatorStep \/ ChannelClosed \/ TransactionFails
    BY <1>2, AggregatorChannel
<1>3. CASE UNCHANGED channel
    BY <1>3
<1> QED
    BY <1>1, <1>2, <1>3
    DEF IndexerNext, HarvesterSide, AggregatorSide, HarvesterTrouble, AggregatorTrouble,
        Signal, ProcessRestart, ClockAndNode, Next, SteadyNext, indexerVars, harvesterOwn

\* What holds of both tasks and the channel between them
IndexerInv ==
    /\ Shape
    /\ channel \in Seq(SentMessages)
    /\ TablesInv
    /\ CreditsInv

LEMMA IndexerInvHolds == IndexerSpec => []IndexerInv
<1>1. IndexerInit => IndexerInv
    <2> SUFFICES ASSUME IndexerInit
                 PROVE  IndexerInv
        OBVIOUS
    <2>1. channel \in Seq(SentMessages)
        BY DEF IndexerInit, Init
    <2> QED
        BY <2>1, ShapeInit, TablesInvInit, CreditsInvInit DEF IndexerInit, IndexerInv
<1>2. IndexerInv /\ [IndexerNext]_indexerVars /\ Shape' => IndexerInv'
    <2> SUFFICES ASSUME IndexerInv, [IndexerNext]_indexerVars, Shape'
                 PROVE  IndexerInv'
        OBVIOUS
    <2>1. AnyStep
        BY IndexerAnyStep
    <2>2. channel' \in Seq(SentMessages)
        BY IndexerChannel DEF IndexerInv
    <2>3. TablesInv' /\ CreditsInv'
        BY <2>1, SentAreMessages, TablesInvStep, CreditsInvStep DEF IndexerInv
    <2> QED
        BY <2>2, <2>3 DEF IndexerInv
<1> QED
    BY <1>1, <1>2, IndexerInvariant, PTL DEF IndexerSpec

\* Every variable of both tasks has its type, through failures, shutdowns and
\* restarts; in particular only coinbase events ever cool down, and nothing is
\* pulled from pending_btc_p2tr_events but what commit_pending_events() holds.
THEOREM IndexerTypes == IndexerSpec => []IndexerTypeOK
<1>1. IndexerInv => IndexerTypeOK
    BY DEF IndexerInv, IndexerTypeOK, TypeOK, ChannelTypeOK, Shape, SentMessages, TablesInv
<1> QED
    BY <1>1, IndexerInvHolds, PTL

\* The row of an address in btc_balances, the sum of its rows in btc_p2tr_events
\* and the sum of its hourly changes are one number, whatever the harvester
\* sends, whenever the clock moves on, and wherever a transaction of the
\* aggregator fails, is cut off or is committed without a reply.
THEOREM OneBalance == IndexerSpec => []ProjectionsAgree
<1>1. IndexerInv => ProjectionsAgree
    BY DEF IndexerInv, TablesInv
<1> QED
    BY <1>1, IndexerInvHolds, PTL

\* After handle_reorg(n), every balance is what the rows below block n had made of
\* it, and the rows from n on amount to nothing for every transaction and address,
\* however often those numbers were reorganized before: inverting the inverted
\* rows again cancels them too.
THEOREM ReorgsCancel == IndexerSpec => ReorgCancels
<1>1. IndexerInv =>
          [HandleReorg => \A n \in {Head(channel).block}, a \in Address :
               /\ balances[a]' = NetBelow(n, a)
               /\ \A t \in Tx : NetSince(n, t, a)' = 0]_<<aggregatorVars, channel, receiving>>
    BY SentAreMessages, ReorgRestores, ReorgStep DEF IndexerInv
<1> QED
    BY <1>1, IndexerInvHolds, PTL DEF ReorgCancels

\* A coinbase is credited to nobody before an event of a block Maturity higher
\* was handled, across reorganizations, failures and restarts.
THEOREM CoinbasesMature == IndexerSpec => MaturityRespected
<1>1. IndexerInv /\ [IndexerNext]_indexerVars =>
          [\A t \in Coinbase, a \in Address :
               NetSince(0, t, a) = 0 /\ NetSince(0, t, a)' # 0 =>
                   \E r \in BagToSet(p2tr_events') :
                       r.tx = t /\ r.block + Maturity <= last_block_number]_aggregatorVars
    <2> SUFFICES ASSUME IndexerInv, [IndexerNext]_indexerVars,
                        NEW t \in Coinbase, NEW a \in Address,
                        NetSince(0, t, a) = 0, NetSince(0, t, a)' # 0
                 PROVE  \E r \in BagToSet(p2tr_events') :
                            r.tx = t /\ r.block + Maturity <= last_block_number
        OBVIOUS
    <2>1. TablesStep
        BY IndexerAnyStep, SentAreMessages, StepTables DEF IndexerInv
    <2> QED
        BY <2>1, MaturityStep DEF IndexerInv
<1> QED
    BY <1>1, IndexerInvHolds, PTL DEF IndexerSpec, MaturityRespected
-----------------------------------------------------------------------------
(***************************************************************************)
(* What is sent.                                                           *)
(***************************************************************************)

\* The numbers below every Reorg of C after position i: events of those blocks
\* that stand before it will still count when all of C is handled.
Spared(C, i) ==
    {k \in Nat : \A j \in DOMAIN C : j > i /\ C[j].type = "reorg" => k < C[j].block}

\* What the message m adds to the balance of a, if its block is one of X
Part(m, X, a) ==
    IF m.type = "event" /\ m.addr = a /\ m.block \in X THEN m.amount ELSE 0

Parts(C, X, a) == [i \in DOMAIN C |-> Part(C[i], X \cap Spared(C, i), a)]

\* What the events of C for blocks of X amount to once all of C is handled
Sent(C, X, a) == SumFunctionOnSet(Parts(C, X, a), DOMAIN C)

LEMMA PartType ==
    ASSUME NEW m \in Messages, NEW X, NEW a
    PROVE  Part(m, X, a) \in Int
BY DEF Part, Messages, Events

LEMMA PartsSummable ==
    ASSUME NEW C \in Seq(Messages), NEW X, NEW a
    PROVE  Summable(Parts(C, X, a), DOMAIN C)
<1>1. DOMAIN C = 1 .. Len(C) /\ Len(C) \in Nat
    OBVIOUS
<1>2. IsFiniteSet(DOMAIN C)
    BY <1>1, FS_Interval
<1>3. ASSUME NEW i \in DOMAIN C
      PROVE  Parts(C, X, a)[i] \in Int
    <2>1. C[i] \in Messages
        OBVIOUS
    <2> DEFINE Y == X \cap Spared(C, i)
    <2>2. Part(C[i], Y, a) \in Int
        BY <2>1, PartType
    <2>3. Parts(C, X, a)[i] = Part(C[i], Y, a)
        BY DEF Parts
    <2> QED
        BY <2>2, <2>3
<1> QED
    BY <1>2, <1>3 DEF Summable

LEMMA SentType ==
    ASSUME NEW C \in Seq(Messages), NEW X, NEW a
    PROVE  Sent(C, X, a) \in Int
BY PartsSummable, SumType DEF Sent

LEMMA NothingSent ==
    ASSUME NEW X, NEW a
    PROVE  Sent(<<>>, X, a) = 0 /\ Spared(<<>>, 0) = Nat
<1>1. DOMAIN <<>> = {}
    OBVIOUS
<1>2. SumFunctionOnSet(Parts(<<>>, X, a), {}) = 0
    BY SumEmpty
<1> QED
    BY <1>1, <1>2 DEF Sent, Spared

\* The first message is handled: the others are as before.
LEMMA SentTail ==
    ASSUME NEW C \in Seq(Messages), C # <<>>, NEW X, NEW a
    PROVE  Sent(C, X, a)
               = Part(Head(C), X \cap Spared(Tail(C), 0), a) + Sent(Tail(C), X, a)
<1> DEFINE R == Tail(C)
           D == DOMAIN R
           m == [i \in D |-> i + 1]
           f == Parts(C, X, a)
<1>1. /\ R \in Seq(Messages) /\ Len(C) \in Nat /\ Len(C) > 0
      /\ DOMAIN C = 1 .. Len(C) /\ D = 1 .. Len(C) - 1
      /\ \A i \in D : R[i] = C[i + 1]
      /\ Head(C) = C[1]
    OBVIOUS
<1> HIDE DEF R
<1>2. /\ 1 \in DOMAIN C
      /\ DOMAIN C \ {1} = {m[i] : i \in D}
      /\ \A i, j \in D : m[i] = m[j] => i = j
    <2>1. \A i \in DOMAIN C \ {1} : i - 1 \in D /\ i = m[i - 1]
        BY <1>1
    <2>2. \A i \in D : m[i] \in DOMAIN C \ {1}
        BY <1>1
    <2>3. 1 \in DOMAIN C /\ \A i, j \in D : m[i] = m[j] => i = j
        BY <1>1
    <2> HIDE DEF m, D
    <2>4. DOMAIN C \ {1} = {m[i] : i \in D}
        BY <2>1, <2>2
    <2> QED
        BY <2>3, <2>4
<1>3. ASSUME NEW i \in D \cup {0}
      PROVE  Spared(C, i + 1) = Spared(R, i)
    <2>1. ASSUME NEW k \in Spared(C, i + 1), NEW j \in D, j > i, R[j].type = "reorg"
          PROVE  k < R[j].block
        <3>1. j + 1 \in DOMAIN C /\ j + 1 > i + 1 /\ C[j + 1] = R[j]
            BY <1>1, <2>1
        <3> QED
            BY <2>1, <3>1 DEF Spared
    <2>2. ASSUME NEW k \in Spared(R, i), NEW j \in DOMAIN C, j > i + 1,
                 C[j].type = "reorg"
          PROVE  k < C[j].block
        <3>1. j - 1 \in D /\ j - 1 > i /\ R[j - 1] = C[j]
            BY <1>1, <2>2
        <3> QED
            BY <2>2, <3>1 DEF Spared
    <2> QED
        BY <2>1, <2>2 DEF Spared
<1>4. \A i \in D : f[m[i]] = Parts(R, X, a)[i]
    <2> TAKE i \in D
    <2>1. m[i] = i + 1 /\ i + 1 \in DOMAIN C /\ C[i + 1] = R[i]
        BY <1>1
    <2>2. Spared(C, i + 1) = Spared(R, i)
        BY <1>3
    <2> QED
        BY <2>1, <2>2 DEF Parts
<1>5. f[1] = Part(Head(C), X \cap Spared(R, 0), a)
    <2>1. Spared(C, 1) = Spared(R, 0)
        BY <1>3
    <2> QED
        BY <1>1, <1>2, <2>1 DEF Parts
<1>6. Summable(f, DOMAIN C) /\ Summable(Parts(R, X, a), D)
    BY <1>1, PartsSummable
<1> HIDE DEF f, m, D
<1>7. SumFunctionOnSet(f, DOMAIN C) = f[1] + SumFunctionOnSet(f, DOMAIN C \ {1})
    BY <1>2, <1>6, SumRemove
<1>8. SumFunctionOnSet(f, {m[i] : i \in D}) = SumFunctionOnSet(Parts(R, X, a), D)
    BY <1>2, <1>4, <1>6, SumRenamed
<1> QED
    BY <1>2, <1>5, <1>7, <1>8 DEF Sent, f, R, D

\* ... and the others spare the same blocks, but for a Reorg.
LEMMA SparedTail ==
    ASSUME NEW C \in Seq(Messages), C # <<>>
    PROVE  /\ Head(C).type = "event" => Spared(C, 0) = Spared(Tail(C), 0)
           /\ Head(C).type = "reorg" =>
                  Spared(C, 0) = Before(Spared(Tail(C), 0), Head(C).block)
<1> DEFINE R == Tail(C)
<1>1. /\ R \in Seq(Messages) /\ Len(C) \in Nat /\ Len(C) > 0
      /\ DOMAIN C = 1 .. Len(C) /\ DOMAIN R = 1 .. Len(C) - 1
      /\ \A i \in DOMAIN R : R[i] = C[i + 1]
      /\ Head(C) = C[1] /\ C[1] \in Messages
    OBVIOUS
<1> HIDE DEF R
<1>2. ASSUME NEW k \in Nat
      PROVE  k \in Spared(C, 0) <=>
                 k \in Spared(R, 0) /\ (C[1].type = "reorg" => k < C[1].block)
    <2>1. ASSUME k \in Spared(C, 0), NEW j \in DOMAIN R, R[j].type = "reorg"
          PROVE  k < R[j].block
        <3>1. j + 1 \in DOMAIN C /\ j + 1 > 0 /\ C[j + 1] = R[j]
            BY <1>1, <2>1
        <3> QED
            BY <2>1, <3>1 DEF Spared
    <2>2. ASSUME k \in Spared(R, 0), C[1].type = "reorg" => k < C[1].block,
                 NEW j \in DOMAIN C, C[j].type = "reorg"
          PROVE  k < C[j].block
        <3>1. CASE j = 1
            BY <2>2, <3>1
        <3>2. CASE j # 1
            <4>1. j - 1 \in DOMAIN R /\ j - 1 > 0 /\ R[j - 1] = C[j]
                BY <1>1, <2>2, <3>2
            <4> QED
                BY <2>2, <4>1 DEF Spared
        <3> QED
            BY <3>1, <3>2
    <2>3. 1 \in DOMAIN C /\ 1 > 0
        BY <1>1
    <2> QED
        BY <2>1, <2>2, <2>3 DEF Spared
<1>3. \A S : Spared(C, 0) \subseteq Nat /\ Spared(R, 0) \subseteq Nat
    BY DEF Spared
<1>4. C[1].type = "event" => Spared(C, 0) = Spared(R, 0)
    BY <1>2, <1>3
<1>5. ASSUME C[1].type = "reorg"
      PROVE  Spared(C, 0) = Before(Spared(R, 0), C[1].block)
    <2>1. C[1].block \in Nat
        BY <1>1, <1>5 DEF Messages, Events
    <2>2. \A k \in Nat : k \in Spared(C, 0) <=> k \in Before(Spared(R, 0), C[1].block)
        BY <1>2, <1>5, <2>1 DEF Before, Since
    <2>3. Before(Spared(R, 0), C[1].block) \subseteq Nat
        BY <1>3 DEF Before
    <2> QED
        BY <1>3, <2>2, <2>3
<1> QED
    BY <1>1, <1>4, <1>5 DEF R

\* A Reorg is sent: the events before it count below its number only.
LEMMA SentReorg ==
    ASSUME NEW C \in Seq(Messages), NEW n \in Nat, NEW X, NEW a
    PROVE  LET D == C \o <<Reorg(n)>>
           IN  /\ Sent(D, X, a) = Sent(C, Before(X, n), a)
               /\ Spared(D, 0) = Before(Spared(C, 0), n)
<1> DEFINE D == C \o <<Reorg(n)>>
           Y == Before(X, n)
           f == Parts(D, X, a)
           g == Parts(C, Y, a)
<1>1. /\ Reorg(n) \in Messages /\ Reorg(n).type = "reorg" /\ Reorg(n).block = n
    BY DEF Reorg, Messages
<1>2. /\ D \in Seq(Messages) /\ Len(C) \in Nat
      /\ DOMAIN C = 1 .. Len(C) /\ DOMAIN D = 1 .. Len(C) + 1
      /\ \A i \in DOMAIN C : D[i] = C[i]
      /\ D[Len(C) + 1] = Reorg(n)
    BY <1>1
<1> HIDE DEF D
<1>3. ASSUME NEW i \in 0 .. Len(C)
      PROVE  Spared(D, i) = Before(Spared(C, i), n)
    <2>1. ASSUME NEW k \in Spared(D, i)
          PROVE  k \in Before(Spared(C, i), n)
        <3>1. Len(C) + 1 \in DOMAIN D /\ Len(C) + 1 > i
            BY <1>2
        <3>2. k \in Nat /\ k < n
            BY <1>1, <1>2, <3>1 DEF Spared
        <3>3. k \in Spared(C, i)
            BY <1>2 DEF Spared
        <3> QED
            BY <3>2, <3>3 DEF Before, Since
    <2>2. ASSUME NEW k \in Before(Spared(C, i), n)
          PROVE  k \in Spared(D, i)
        <3>1. k \in Nat /\ k < n /\ k \in Spared(C, i)
            BY DEF Before, Since, Spared
        <3>2. \A j \in DOMAIN D : j \in DOMAIN C \/ j = Len(C) + 1
            BY <1>2
        <3> QED
            BY <1>1, <1>2, <3>1, <3>2 DEF Spared
    <2> QED
        BY <2>1, <2>2
<1>4. \A i \in DOMAIN C : f[i] = g[i]
    <2> TAKE i \in DOMAIN C
    <2>1. Spared(D, i) = Before(Spared(C, i), n)
        BY <1>2, <1>3
    <2>2. X \cap Before(Spared(C, i), n) = Y \cap Spared(C, i)
        BY DEF Before
    <2>3. i \in DOMAIN D /\ D[i] = C[i]
        BY <1>2
    <2> QED
        BY <2>1, <2>2, <2>3 DEF Parts
<1>5. \A i \in DOMAIN D \ DOMAIN C : f[i] = 0
    BY <1>1, <1>2 DEF Parts, Part
<1>6. Summable(f, DOMAIN D) /\ DOMAIN C \in SUBSET DOMAIN D /\ IsFiniteSet(DOMAIN C)
    <2>1. Summable(f, DOMAIN D) /\ Summable(Parts(C, X, a), DOMAIN C)
        BY <1>2, PartsSummable
    <2>2. \A i \in DOMAIN C : i \in DOMAIN D
        BY <1>2
    <2> HIDE DEF f
    <2> QED
        BY <2>1, <2>2 DEF Summable
<1> HIDE DEF f, g
<1>7. SumFunctionOnSet(f, DOMAIN D) = SumFunctionOnSet(f, DOMAIN C)
    BY <1>5, <1>6, SumExtend
<1>8. SumFunctionOnSet(f, DOMAIN C) = SumFunctionOnSet(g, DOMAIN C)
    BY <1>4, <1>6, SumSame
<1>9. Spared(D, 0) = Before(Spared(C, 0), n)
    BY <1>2, <1>3
<1>10. Sent(D, X, a) = Sent(C, Before(X, n), a)
    BY <1>7, <1>8 DEF Sent, f, g
<1> QED
    BY <1>9, <1>10 DEF D

\* Events are sent: they count beside those before them.
LEMMA SentEvents ==
    ASSUME NEW C \in Seq(Messages), NEW es \in Seq(Messages),
           \A i \in DOMAIN es : es[i].type = "event", NEW X, NEW a
    PROVE  /\ Sent(C \o es, X, a) = Sent(C, X, a) + Sent(es, X, a)
           /\ Spared(C \o es, 0) = Spared(C, 0)
<1> DEFINE D == C \o es
           m == [i \in DOMAIN es |-> Len(C) + i]
           f == Parts(D, X, a)
           new == {m[i] : i \in DOMAIN es}
<1>1. /\ D \in Seq(Messages) /\ Len(C) \in Nat /\ Len(es) \in Nat
      /\ DOMAIN C = 1 .. Len(C) /\ DOMAIN es = 1 .. Len(es)
      /\ DOMAIN D = 1 .. Len(C) + Len(es)
      /\ \A i \in DOMAIN C : D[i] = C[i]
      /\ \A i \in DOMAIN es : D[Len(C) + i] = es[i]
    OBVIOUS
<1> HIDE DEF D
<1>2. /\ DOMAIN D = DOMAIN C \cup new /\ DOMAIN C \cap new = {}
      /\ \A i, j \in DOMAIN es : m[i] = m[j] => i = j
    <2>1. \A i \in DOMAIN es : m[i] \in DOMAIN D \ DOMAIN C
        BY <1>1
    <2>2. \A i \in DOMAIN D \ DOMAIN C : i - Len(C) \in DOMAIN es /\ i = m[i - Len(C)]
        BY <1>1
    <2>3. /\ \A i, j \in DOMAIN es : m[i] = m[j] => i = j
          /\ DOMAIN C \subseteq DOMAIN D
        BY <1>1
    <2> HIDE DEF m
    <2>4. DOMAIN D = DOMAIN C \cup new
        <3>1. \A j \in new : j \in DOMAIN D
            BY <2>1
        <3>2. \A j \in DOMAIN D \ DOMAIN C : j \in new
            BY <2>2
        <3> HIDE DEF new
        <3> QED
            BY <2>3, <3>1, <3>2
    <2>5. DOMAIN C \cap new = {}
        BY <2>1
    <2> QED
        BY <2>3, <2>4, <2>5
<1>3. ASSUME NEW i \in 0 .. Len(C)
      PROVE  Spared(D, i) = Spared(C, i)
    <2>1. \A j \in DOMAIN D : D[j].type = "reorg" => j \in DOMAIN C
        <3>1. \A j \in DOMAIN D \ DOMAIN C : j - Len(C) \in DOMAIN es /\ D[j] = es[j - Len(C)]
            <4> TAKE j \in DOMAIN D \ DOMAIN C
            <4>1. j - Len(C) \in DOMAIN es /\ j = Len(C) + (j - Len(C))
                BY <1>1
            <4> QED
                BY <1>1, <4>1
        <3> QED
            BY <3>1
    <2>2. \A j \in DOMAIN C : j \in DOMAIN D /\ D[j] = C[j]
        BY <1>1
    <2> QED
        BY <2>1, <2>2 DEF Spared
<1>4. \A i \in DOMAIN es : Spared(es, i) = Nat /\ Spared(D, Len(C) + i) = Nat
    <2> TAKE i \in DOMAIN es
    <2>1. ASSUME NEW j \in DOMAIN D, j > Len(C) + i
          PROVE  D[j].type = "event"
        <3>1. j - Len(C) \in DOMAIN es /\ j = Len(C) + (j - Len(C))
            BY <1>1, <2>1
        <3> QED
            BY <1>1, <3>1
    <2> QED
        BY <2>1 DEF Spared
<1>5. \A i \in DOMAIN C : f[i] = Parts(C, X, a)[i]
    <2> TAKE i \in DOMAIN C
    <2>1. Spared(D, i) = Spared(C, i) /\ i \in DOMAIN D /\ D[i] = C[i]
        BY <1>1, <1>3
    <2> QED
        BY <2>1 DEF Parts
<1>6. \A i \in DOMAIN es : f[m[i]] = Parts(es, X, a)[i]
    <2> TAKE i \in DOMAIN es
    <2>1. m[i] = Len(C) + i /\ Len(C) + i \in DOMAIN D /\ D[Len(C) + i] = es[i]
        BY <1>1
    <2>2. Spared(es, i) = Spared(D, Len(C) + i)
        BY <1>4
    <2> QED
        BY <2>1, <2>2 DEF Parts
<1>7. /\ Summable(f, DOMAIN D) /\ Summable(Parts(C, X, a), DOMAIN C)
      /\ Summable(Parts(es, X, a), DOMAIN es)
    BY <1>1, PartsSummable
<1> HIDE DEF f, m
<1>8. IsFiniteSet(DOMAIN C) /\ IsFiniteSet(new)
    BY <1>7, FiniteImage DEF Summable
<1> HIDE DEF new
<1>9. Summable(f, DOMAIN C) /\ Summable(f, new)
    BY <1>2, <1>7, <1>8 DEF Summable
<1>10. SumFunctionOnSet(f, DOMAIN D) = SumFunctionOnSet(f, DOMAIN C) + SumFunctionOnSet(f, new)
    BY <1>2, <1>9, SumUnion
<1>11. SumFunctionOnSet(f, DOMAIN C) = Sent(C, X, a)
    BY <1>5, <1>8, SumSame DEF Sent
<1>12. SumFunctionOnSet(f, new) = Sent(es, X, a)
    BY <1>2, <1>6, <1>7, SumRenamed DEF Sent, new
<1>13. Spared(D, 0) = Spared(C, 0)
    BY <1>1, <1>3
<1> QED
    BY <1>10, <1>11, <1>12, <1>13 DEF Sent, f, D

\* The events of a transaction are one for each balance it changes.
LEMMA TxEventsFacts ==
    ASSUME NEW n \in Nat, NEW t \in Tx, NEW spends \in SUBSET Ins[t],
           NEW events \in TxEvents(n, t, spends)
    PROVE  /\ events \in Seq(Messages)
           /\ \A i \in DOMAIN events : \E x \in Changed(t, spends) :
                  events[i] = Event(n, t, x, BalanceUpdate(t, spends, x))
           /\ \A x \in Changed(t, spends) : \E i \in DOMAIN events :
                  events[i] = Event(n, t, x, BalanceUpdate(t, spends, x))
           /\ \A i, j \in DOMAIN events : events[i] = events[j] => i = j
<1> DEFINE v(x) == BalanceUpdate(t, spends, x)
           S == {Event(n, t, x, v(x)) : x \in Changed(t, spends)}
<1>1. /\ events \in [1 .. Cardinality(S) -> S]
      /\ \A x \in S : \E i \in DOMAIN events : events[i] = x
      /\ \A i, j \in DOMAIN events : events[i] = events[j] => i = j
    <2> DEFINE I == 1 .. Cardinality(S)
    <2>1. IsFiniteSet(S)
        <3> DEFINE m == [x \in Changed(t, spends) |-> Event(n, t, x, v(x))]
        <3>1. S = {m[x] : x \in Changed(t, spends)}
            OBVIOUS
        <3>2. IsFiniteSet(Changed(t, spends))
            BY ChangedFinite
        <3> HIDE DEF m, S
        <3> QED
            BY <3>1, <3>2, FiniteImage
    <2>2. events \in [I -> S] /\ \A i, j \in I : i # j => events[i] # events[j]
        BY DEF TxEvents, SetToSeqs, Changed
    <2> HIDE DEF S, v
    <2>3. Cardinality(S) \in Nat
        BY <2>1, FS_CardinalityType
    <2>4. IsFiniteSet(I) /\ Cardinality(I) = Cardinality(S)
        BY <2>3, FS_Interval
    <2>5. \A i, j \in I : events[i] = events[j] => i = j
        BY <2>2
    <2> HIDE DEF I
    <2>6. events \in Injection(I, S)
        BY <2>2, <2>5 DEF Injection, IsInjective
    <2>7. events \in Surjection(I, S)
        BY <2>1, <2>4, <2>6, FS_Injection
    <2> QED
        BY <2>2, <2>5, <2>7 DEF I, Surjection
<1>2. events \in Seq(Messages)
    <2>1. events \in Seq(SentMessages)
        BY TxEventsSent
    <2>2. SentMessages \subseteq Messages
        BY DEF SentMessages
    <2> HIDE DEF S, v
    <2> QED
        BY <2>1, <2>2
<1>3. \A i \in DOMAIN events : events[i] \in S
    BY <1>1
<1>4. \A x \in Changed(t, spends) : Event(n, t, x, v(x)) \in S
    OBVIOUS
<1>5. \A s \in S : \E x \in Changed(t, spends) : s = Event(n, t, x, v(x))
    OBVIOUS
<1> HIDE DEF S
<1> QED
    BY <1>1, <1>2, <1>3, <1>4, <1>5

\* What they amount to is what the transaction does to each balance.
LEMMA SentOfTx ==
    ASSUME NEW n \in Nat, NEW t \in Tx, NEW spends \in SUBSET Ins[t],
           NEW events \in TxEvents(n, t, spends), NEW X, NEW a \in Address
    PROVE  Sent(events, X, a) = IF n \in X \cap Nat THEN BalanceUpdate(t, spends, a) ELSE 0
<1> DEFINE v(x) == BalanceUpdate(t, spends, x)
           f == Parts(events, X, a)
<1>1. /\ \A x \in Changed(t, spends) : \E i \in DOMAIN events : events[i] = Event(n, t, x, v(x))
      /\ \A i, j \in DOMAIN events : events[i] = events[j] => i = j
    BY TxEventsFacts
<1>2. events \in Seq(Messages)
    BY TxEventsFacts
<1>3. ASSUME NEW i \in DOMAIN events
      PROVE  /\ events[i].type = "event" /\ events[i].block = n
             /\ events[i].addr \in Changed(t, spends)
             /\ events[i].amount = v(events[i].addr)
             /\ events[i] = Event(n, t, events[i].addr, v(events[i].addr))
    <2>1. PICK x \in Changed(t, spends) : events[i] = Event(n, t, x, v(x))
        BY TxEventsFacts
    <2> QED
        BY <2>1 DEF Event
<1>4. \A i \in DOMAIN events : Spared(events, i) = Nat
    BY <1>3 DEF Spared
<1>5. \A i \in DOMAIN events :
          f[i] = IF events[i].addr = a /\ n \in X \cap Nat THEN v(a) ELSE 0
    BY <1>3, <1>4 DEF Parts, Part
<1>6. v(a) \in Int
    BY BalanceUpdateType
<1>7. IsFiniteSet(DOMAIN events)
    BY <1>2, PartsSummable DEF Summable
<1>8. a \in Changed(t, spends) <=> v(a) # 0
    BY DEF Changed
<1>9. ASSUME a \in Changed(t, spends) /\ n \in X \cap Nat
      PROVE  Sent(events, X, a) = v(a)
    <2>2. PICK i \in DOMAIN events : events[i] = Event(n, t, a, v(a))
        BY <1>1, <1>9
    <2>3. events[i].addr = a
        BY <2>2 DEF Event
    <2>4. \A j \in DOMAIN events : j # i => events[j].addr # a
        BY <1>1, <1>3, <2>2
    <2>5. f[i] = v(a) /\ \A j \in DOMAIN events : j # i => f[j] = 0
        BY <1>5, <1>9, <2>3, <2>4
    <2> HIDE DEF f, v
    <2>6. SumFunctionOnSet(f, DOMAIN events) = v(a)
        BY <1>6, <1>7, <2>5, SumSingle
    <2>7. Sent(events, X, a) = v(a)
        BY <2>6 DEF Sent, f
    <2> QED
        BY <2>7
<1>10. ASSUME ~(a \in Changed(t, spends) /\ n \in X \cap Nat)
       PROVE  Sent(events, X, a) = 0
    <2>1. \A i \in DOMAIN events : f[i] = 0
        BY <1>3, <1>5, <1>8, <1>10
    <2>2. SumFunctionOnSet(f, DOMAIN events) = 0
        <3> HIDE DEF f
        <3> QED
            BY <1>7, <2>1, SumZero
    <2>3. Sent(events, X, a) = 0
        BY <2>2 DEF Sent
    <2> QED
        BY <2>3
<1>11. Sent(events, X, a) = IF n \in X \cap Nat THEN v(a) ELSE 0
    BY <1>8, <1>9, <1>10
<1> QED
    BY <1>11

-----------------------------------------------------------------------------
(***************************************************************************)
(* What the tables are worth.                                              *)
(***************************************************************************)

\* The outputs that have a row in the tables s
Stored(s) == {o \in OutPoint : s.utxos[o] # NoRow}

\* What blocks of X paid to a, and which outputs of a they spent
Created(s, X, a) == {o \in Stored(s) : Owner[o] = a /\ Height[s.txs[o[1]]] \in X}
SpentAt(s, X, a) == {o \in Stored(s) : Owner[o] = a /\ s.utxos[o] \in X}

\* What the blocks of X, as the tables s tell, do to the balance of a
Worth(s, X, a) == SumOf(Created(s, X, a)) - SumOf(SpentAt(s, X, a))

LEMMA SumOfParts ==
    ASSUME NEW S, NEW R, S \subseteq OutPoint, R \subseteq OutPoint,
           IsFiniteSet(S), IsFiniteSet(R)
    PROVE  /\ SumOf(S) \in Int
           /\ S \cap R = {} => SumOf(S \cup R) = SumOf(S) + SumOf(R)
<1>1. Summable(Amount, S) /\ Summable(Amount, R)
    BY TxAssumption DEF Summable
<1>2. SumOf(S) \in Int
    BY <1>1, SumType DEF SumOf
<1>3. S \cap R = {} => SumOf(S \cup R) = SumOf(S) + SumOf(R)
    BY <1>1, SumUnion DEF SumOf
<1> QED
    BY <1>2, <1>3

LEMMA WorthFinite ==
    ASSUME NEW s, IsFiniteSet(Stored(s)), NEW X, NEW a
    PROVE  /\ Created(s, X, a) \subseteq OutPoint /\ IsFiniteSet(Created(s, X, a))
           /\ SpentAt(s, X, a) \subseteq OutPoint /\ IsFiniteSet(SpentAt(s, X, a))
<1>1. /\ Created(s, X, a) \in SUBSET Stored(s) /\ SpentAt(s, X, a) \in SUBSET Stored(s)
      /\ Stored(s) \subseteq OutPoint
    BY DEF Created, SpentAt, Stored
<1> QED
    BY <1>1, FS_Subset

\* Equal rows are worth the same.
LEMMA WorthSame ==
    ASSUME NEW s, NEW r, NEW X, NEW Y, NEW a,
           Created(s, X, a) = Created(r, Y, a), SpentAt(s, X, a) = SpentAt(r, Y, a)
    PROVE  Worth(s, X, a) = Worth(r, Y, a)
BY DEF Worth

\* All blocks together make what is unspent.
LEMMA WorthOfAll ==
    ASSUME Shape, StoreInv, IsFiniteSet(Stored(db)), NEW a \in Address
    PROVE  Worth(db, Nat, a) = UnspentOf(a)
<1> DEFINE U == UnspentByOwner(db, a)
           C == Created(db, Nat, a)
           S == SpentAt(db, Nat, a)
<1>1. /\ db \in Stores /\ Consistent(db, {})
    BY DEF Shape, ProcessorTypeOK, StoreInv
<1>2. ASSUME NEW o \in OutPoint
      PROVE  /\ o \in C <=> Owner[o] = a /\ db.utxos[o] # NoRow
             /\ o \in S <=> Owner[o] = a /\ db.utxos[o] \in Nat
             /\ o \in U <=> Owner[o] = a /\ db.utxos[o] = Null
    <2>1. db.utxos[o] # NoRow => db.txs[o[1]] \in Block
        BY <1>1, OutPointFields DEF Consistent, Stores
    <2>2. db.utxos[o] # NoRow => Height[db.txs[o[1]]] \in Nat
        BY <2>1, BlockFacts
    <2> QED
        BY <2>2, NoRowFacts DEF Created, SpentAt, Stored, UnspentByOwner
<1>3. C \subseteq OutPoint /\ S \subseteq OutPoint /\ U \subseteq OutPoint
    BY DEF Created, SpentAt, Stored, UnspentByOwner
<1>4. IsFiniteSet(C) /\ IsFiniteSet(S)
    BY WorthFinite
<1> HIDE DEF U, C, S
<1>5. C = S \cup U /\ S \cap U = {}
    <2>1. \A o \in OutPoint : db.utxos[o] \in Nat \cup {Null, NoRow}
        BY <1>1 DEF Stores
    <2> QED
        BY <1>2, <1>3, <2>1, NoRowFacts
<1>6. IsFiniteSet(U)
    BY <1>4, <1>5, FS_Subset
<1>7. SumOf(C) = SumOf(S) + SumOf(U) /\ SumOf(S) \in Int /\ SumOf(U) \in Int
    BY <1>3, <1>4, <1>5, <1>6, SumOfParts
<1> QED
    BY <1>7 DEF Worth, UnspentOf, U, C, S

\* A transaction is worth what its events say.
LEMMA WorthOfTx ==
    ASSUME Shape, StoreInv, Fresh, ProcessTx, IsFiniteSet(Stored(txn)),
           NEW X \in SUBSET Nat, NEW a \in Address
    PROVE  /\ IsFiniteSet(Stored(txn'))
           /\ Worth(txn', X, a)
                  = Worth(txn, X, a)
                    + IF Height[Head(work)] \in X
                      THEN BalanceUpdate(CurrentTx, Spends, a) ELSE 0
<1> DEFINE h == Height[Head(work)]
           t == CurrentTx
           outs == TaprootOuts(t)
           P == {o \in outs : Owner[o] = a}
           Q == {o \in Spends : Owner[o] = a}
           C == Created(txn, X, a)
           S == SpentAt(txn, X, a)
<1>1. /\ h \in Nat /\ t \in Tx /\ Spends \in SUBSET Ins[t]
      /\ Height[txn.txs[t]] = h
      /\ \A o \in outs : txn.utxos[o] = NoRow
      /\ \A o \in Spends : o \in OutPoint /\ txn.utxos[o] = Null
      /\ txn'.txs = txn.txs
      /\ \A o \in OutPoint :
             txn'.utxos[o] = IF o \in outs THEN Null
                             ELSE IF o \in Spends THEN h ELSE txn.utxos[o]
    BY TurnFacts
<1>2. /\ outs \subseteq OutPoint /\ IsFiniteSet(outs)
      /\ Spends \subseteq OutPoint /\ IsFiniteSet(Spends)
      /\ \A o \in outs : o[1] = t
    BY <1>1, TxFinite DEF TaprootOuts
<1>3. /\ P \subseteq OutPoint /\ IsFiniteSet(P) /\ Q \subseteq OutPoint /\ IsFiniteSet(Q)
    <2>1. P \in SUBSET outs /\ Q \in SUBSET Spends
        OBVIOUS
    <2> HIDE DEF P, Q, outs
    <2> QED
        BY <1>2, <2>1, FS_Subset
<1>4. BalanceUpdate(t, Spends, a) = SumOf(P) - SumOf(Q)
    BY DEF BalanceUpdate
<1>5. /\ C \subseteq OutPoint /\ IsFiniteSet(C) /\ S \subseteq OutPoint /\ IsFiniteSet(S)
    BY WorthFinite
<1>6. Stored(txn') = Stored(txn) \cup outs
    BY <1>1, <1>2, NoRowFacts DEF Stored
<1>7. IsFiniteSet(Stored(txn'))
    BY <1>2, <1>6, FS_Union
<1> HIDE DEF outs
<1>8. /\ Created(txn', X, a) = IF h \in X THEN C \cup P ELSE C
      /\ C \cap P = {}
    <2>1. ASSUME NEW o \in OutPoint
          PROVE  /\ o \in Created(txn', X, a) <=> o \in C \/ (o \in P /\ h \in X)
                 /\ ~(o \in C /\ o \in P)
        BY <1>1, <1>2, NoRowFacts DEF Created, Stored
    <2>2. Created(txn', X, a) \subseteq OutPoint
        BY DEF Created, Stored
    <2> HIDE DEF C, P
    <2> QED
        BY <1>3, <1>5, <2>1, <2>2
<1>9. /\ SpentAt(txn', X, a) = IF h \in X THEN S \cup Q ELSE S
      /\ S \cap Q = {}
    <2>1. ASSUME NEW o \in OutPoint
          PROVE  /\ o \in SpentAt(txn', X, a) <=> o \in S \/ (o \in Q /\ h \in X)
                 /\ ~(o \in S /\ o \in Q)
        <3>1. Null \notin X /\ NoRow \notin X
            BY NoRowFacts
        <3>2. o \in outs => o \notin Spends
            BY <1>1, NoRowFacts
        <3> QED
            BY <1>1, <1>2, <3>1, <3>2, NoRowFacts DEF SpentAt, Stored
    <2>2. SpentAt(txn', X, a) \subseteq OutPoint
        BY DEF SpentAt, Stored
    <2> HIDE DEF S, Q
    <2> QED
        BY <1>3, <1>5, <2>1, <2>2
<1> HIDE DEF C, P, S, Q, h, t
<1>10. /\ SumOf(C) \in Int /\ SumOf(P) \in Int /\ SumOf(S) \in Int /\ SumOf(Q) \in Int
       /\ SumOf(C \cup P) = SumOf(C) + SumOf(P)
       /\ SumOf(S \cup Q) = SumOf(S) + SumOf(Q)
    BY <1>3, <1>5, <1>8, <1>9, SumOfParts
<1>11. Worth(txn, X, a) = SumOf(C) - SumOf(S)
    BY DEF Worth, C, S
<1>12. Worth(txn', X, a) = Worth(txn, X, a) + IF h \in X THEN BalanceUpdate(t, Spends, a) ELSE 0
    BY <1>4, <1>8, <1>9, <1>10, <1>11 DEF Worth
<1> QED
    BY <1>7, <1>12 DEF h, t

\* The transactions of a block that is new had no rows.
LEMMA WorthOfStart ==
    ASSUME ValidBranches, Shape, StoreInv, ChainInv, NoneAbove, LastStored, Untroubled,
           Fresh, ProcessorStep, StartBlock, NEW X \in SUBSET Nat, NEW a \in Address
    PROVE  /\ Stored(txn') = Stored(txn)
           /\ Worth(txn', X, a) = Worth(txn, X, a)
<1> DEFINE b == Head(work)
<1>1. /\ phase = "block" /\ work \in Seq(Block) /\ work # <<>> /\ txn \in Stores
      /\ txn' = UpsertTransactions(BlockRows(b), b)
      /\ phase' = "tx" /\ work' = work /\ idx' = 1
    BY DEF ProcessorStep, StartBlock, Shape, ProcessorTypeOK
<1>2. b \in Block /\ Len(Txs[b]) \in Nat /\ Txs[b] \in Seq(Tx)
    BY <1>1, TxsNonEmpty
<1>3. Unprocessed' = TxSet(b)
    BY <1>1, <1>2 DEF Unprocessed, TxSet
<1>4. /\ txn'.utxos = txn.utxos
      /\ \A t \in Tx : t \notin TxSet(b) => txn'.txs[t] = txn.txs[t]
    BY <1>1 DEF UpsertTransactions, BlockRows, UpsertBlock, Stores
<1>5. \A t \in TxSet(b) : \A o \in TaprootOuts(t) : txn.utxos[o] = NoRow
    BY <1>1, <1>3, <1>4, FreshStartBlock DEF Fresh, NewRows
<1>6. Consistent(txn, {})
    BY <1>1 DEF StoreInv, Unprocessed
<1>7. Stored(txn') = Stored(txn)
    BY <1>4 DEF Stored
<1>8. ASSUME NEW o \in Stored(txn)
      PROVE  txn'.txs[o[1]] = txn.txs[o[1]]
    <2>1. o \in OutPoint /\ txn.utxos[o] # NoRow /\ Owner[o] # Null /\ o[1] \in Tx
        BY <1>6, OutPointFields DEF Stored, Consistent
    <2>2. o[1] \notin TxSet(b)
        BY <1>5, <2>1 DEF TaprootOuts
    <2> QED
        BY <1>4, <2>1, <2>2
<1>9. Created(txn', X, a) = Created(txn, X, a)
    BY <1>7, <1>8 DEF Created
<1>10. SpentAt(txn', X, a) = SpentAt(txn, X, a)
    BY <1>4, <1>7 DEF SpentAt
<1> QED
    BY <1>7, <1>9, <1>10, WorthSame

\* What process_fork() deletes and takes back leaves what the blocks below did:
\* no output that goes was spent by a block that stays.
LEMMA WorthOfFork ==
    ASSUME ValidBranches, Shape, StoreInv, ChainInv, NoneAbove, LastStored, Untroubled,
           pc = "walk", NEW n \in Nat, NEW X \in SUBSET Nat, NEW a \in Address
    PROVE  LET s == UnspendSince(DeleteBlocksSince(db, n), n)
           IN  /\ Stored(s) \subseteq Stored(db)
               /\ Worth(s, X, a) = Worth(db, Before(X, n), a)
<1> DEFINE s == UnspendSince(DeleteBlocksSince(db, n), n)
           last == last_processed_block
<1>1. /\ db \in Stores /\ db.blocks \subseteq Block /\ Consistent(db, {})
      /\ last \in Block
    BY DEF Shape, ProcessorTypeOK, Stores, StoreInv
<1>2. db.blocks \subseteq Branch[last]
    <2>1. last \in db.blocks /\ \A c \in db.blocks : Height[c] <= Height[last]
        BY <1>1, BlockFacts DEF LastStored, NoneAbove, Untroubled, Live
    <2> QED
        BY <1>1, <2>1, LinkedBranch DEF ChainInv
<1>3. ASSUME NEW o \in OutPoint
      PROVE  /\ db.utxos[o] # NoRow =>
                    db.txs[o[1]] \in db.blocks /\ Height[db.txs[o[1]]] \in Nat
             /\ s.utxos[o] = IF db.txs[o[1]] \in db.blocks /\ Height[db.txs[o[1]]] >= n
                             THEN NoRow
                             ELSE IF db.utxos[o] \in Nat /\ db.utxos[o] >= n THEN Null
                             ELSE db.utxos[o]
             /\ s.utxos[o] # NoRow => s.txs[o[1]] = db.txs[o[1]]
    <2>1. o[1] \in Tx
        BY OutPointFields
    <2>2. /\ db.utxos[o] # NoRow =>
                 db.txs[o[1]] \in db.blocks /\ Height[db.txs[o[1]]] \in Nat
        BY <1>1, <2>1, BlockFacts DEF Consistent
    <2> QED
        BY <1>1, <2>1, <2>2, NoRowFacts DEF UnspendSince, DeleteBlocksSince, Stores
<1> HIDE DEF s
<1>4. ASSUME NEW o \in OutPoint, db.utxos[o] \in Nat
      PROVE  Height[db.txs[o[1]]] <= db.utxos[o]
    <2>1. PICK c \in db.blocks : Height[c] = db.utxos[o] /\ o \in SpentIn(c)
        BY <1>1, <1>4 DEF Consistent
    <2>2. /\ Owner[o] # Null
          /\ db.txs[o[1]] \in db.blocks /\ o[1] \in TxSet(db.txs[o[1]])
        BY <1>1, <1>4, NoRowFacts, OutPointFields DEF Consistent
    <2> QED
        BY <1>1, <1>2, <2>1, <2>2 DEF ValidBranches
<1>5. ASSUME NEW o \in OutPoint
      PROVE  /\ o \in Stored(s) => o \in Stored(db)
             /\ o \in Created(s, X, a) <=> o \in Created(db, Before(X, n), a)
             /\ o \in SpentAt(s, X, a) <=> o \in SpentAt(db, Before(X, n), a)
    <2>1. Null \notin X /\ NoRow \notin X
        BY NoRowFacts
    <2>2. o \in Stored(s) => o \in Stored(db)
        BY <1>3, NoRowFacts DEF Stored
    <2>3. o \in Created(s, X, a) <=> o \in Created(db, Before(X, n), a)
        BY <1>3, NoRowFacts DEF Created, Stored, Before, Since
    <2>4. o \in SpentAt(s, X, a) <=> o \in SpentAt(db, Before(X, n), a)
        <3>1. CASE db.utxos[o] \in Nat
            <4>1. db.utxos[o] < n => s.utxos[o] = db.utxos[o]
                BY <1>3, <1>4, <3>1, NoRowFacts
            <4>2. db.utxos[o] >= n => s.utxos[o] \in {NoRow, Null}
                BY <1>3, <3>1
            <4>3. /\ o \in SpentAt(db, Before(X, n), a)
                         <=> Owner[o] = a /\ db.utxos[o] \in X /\ db.utxos[o] < n
                  /\ o \in SpentAt(s, X, a) <=> Owner[o] = a /\ s.utxos[o] \in X
                BY <2>1, <3>1, NoRowFacts DEF SpentAt, Stored, Before, Since
            <4> QED
                BY <2>1, <3>1, <4>1, <4>2, <4>3
        <3>2. CASE db.utxos[o] \notin Nat
            <4>1. db.utxos[o] \in {Null, NoRow}
                BY <1>1, <3>2 DEF Stores
            <4>2. s.utxos[o] \in {Null, NoRow}
                BY <1>3, <3>2, <4>1
            <4> QED
                BY <2>1, <4>1, <4>2 DEF SpentAt, Before
        <3> QED
            BY <3>1, <3>2
    <2> QED
        BY <2>2, <2>3, <2>4
<1>6. \A r, Y : /\ Stored(r) \subseteq OutPoint
                /\ Created(r, Y, a) \subseteq OutPoint /\ SpentAt(r, Y, a) \subseteq OutPoint
    BY DEF Stored, Created, SpentAt
<1>7. Created(s, X, a) = Created(db, Before(X, n), a)
    <2> DEFINE C == Created(s, X, a)
               D == Created(db, Before(X, n), a)
    <2>1. C \subseteq OutPoint /\ D \subseteq OutPoint /\ \A o \in OutPoint : o \in C <=> o \in D
        BY <1>5, <1>6
    <2> HIDE DEF C, D
    <2>2. C = D
        BY <2>1
    <2> QED
        BY <2>2 DEF C, D
<1>8. SpentAt(s, X, a) = SpentAt(db, Before(X, n), a)
    <2> DEFINE C == SpentAt(s, X, a)
               D == SpentAt(db, Before(X, n), a)
    <2>1. C \subseteq OutPoint /\ D \subseteq OutPoint /\ \A o \in OutPoint : o \in C <=> o \in D
        BY <1>5, <1>6
    <2> HIDE DEF C, D
    <2>2. C = D
        BY <2>1
    <2> QED
        BY <2>2 DEF C, D
<1>9. Stored(s) \subseteq Stored(db)
    BY <1>5, <1>6
<1>10. Worth(s, X, a) = Worth(db, Before(X, n), a)
    BY <1>7, <1>8, WorthSame
<1> QED
    BY <1>9, <1>10 DEF s
-----------------------------------------------------------------------------
(***************************************************************************)
(* One account.  The theorem assumes what the rules of Bitcoin say of a    *)
(* branch, and that no coinbase pays to taproot: handle_reorg forgets of   *)
(* those that cool down also some that stay.                               *)
(***************************************************************************)
NoTaprootCoinbase == \A t \in Coinbase : TaprootOuts(t) = {}

\* Messages about other transactions
PlainMessages == {m \in SentMessages : m.type = "event" => ~m.coinbase}

NothingCools ==
    /\ channel \in Seq(PlainMessages)
    /\ pending_events = EmptyBag
    /\ pulled = EmptyBag

\* What leaves the harvester's data alone
Apart ==
    /\ UNCHANGED <<processorVars, tip, pc, loopVars, desired_height, block, used>>
    /\ UNCHANGED <<channel, receiving, p2tr_events>>

\* The steps the service takes while it is undisturbed
LEMMA UndisturbedStep ==
    ASSUME Shape, [IndexerNext]_indexerVars, Undisturbed'
    PROVE  /\ Undisturbed /\ Untroubled /\ Untroubled'
           /\ \/ (HarvestStep \/ RpcFails) /\ UNCHANGED aggregatorVars
              \/ AggregatorSide
              \/ NodeStep /\ UNCHANGED aggregatorVars
              \/ Apart
<1>1. used \in [Limited -> Nat]
    BY DEF Shape
<1>2. Untroubled' /\ (Undisturbed => Untroubled)
    BY DEF Undisturbed, Untroubled, NotSteered, Limited
<1>3. CASE HarvesterSide \/ AggregatorSide \/ Signal \/ ClockAndNode \/ UNCHANGED indexerVars
    <2>1. UNCHANGED used
        BY <1>3
        DEF HarvesterSide, AggregatorSide, Signal, ClockAndNode, indexerVars, vars,
            harvesterOwn, HarvestStep, BeginHarvest, FirstBlock, HarvestDone, ScanNext,
            ScanFork, NotMinedYet, WalkBack, StartFork, ForkPanics, ProcessorStep,
            BlockDone, StatementRejected, EventPanics, NodeStep
    <2>2. Undisturbed
        BY <2>1 DEF Undisturbed
    <2>3. Signal \/ (HourPasses /\ UNCHANGED <<harvesterOwn, channel, receiving>>)
              \/ UNCHANGED indexerVars => Apart
        BY DEF Signal, HourPasses, NotifyShutdown, Apart, harvesterOwn, indexerVars, vars,
               aggregatorVars, tables
    <2> QED
        BY <1>2, <1>3, <2>2, <2>3 DEF HarvesterSide, ClockAndNode
<1>4. CASE HarvesterTrouble /\ RpcFails
    <2>1. used' = [used EXCEPT !["rpc"] = @ + 1]
        BY <1>4 DEF RpcFails, Uses
    <2>2. Undisturbed
        BY <1>1, <2>1 DEF Undisturbed, Limited
    <2> QED
        BY <1>2, <1>4, <2>2 DEF HarvesterTrouble
<1>5. ~(/\ HarvesterTrouble \/ AggregatorTrouble \/ ProcessRestart
        /\ ~RpcFails)
    <2>1. ASSUME HarvesterTrouble \/ AggregatorTrouble \/ ProcessRestart, ~RpcFails
          PROVE  \E k \in Limited : k # "rpc" /\ used' = [used EXCEPT ![k] = @ + 1]
        BY <2>1
        DEF HarvesterTrouble, AggregatorTrouble, ProcessRestart, DbFails, Terminate, Pause,
            AutoScan, Rescan, ScanBlock, ScanBlockFails, Interrupt, Restart, Uses,
            Limited
    <2>2. ASSUME NEW k \in Limited, k # "rpc", used' = [used EXCEPT ![k] = @ + 1]
          PROVE  FALSE
        <3>1. used'[k] = used[k] + 1 /\ used[k] \in Nat
            BY <1>1, <2>2
        <3>2. used'[k] = 0
            BY <2>2 DEF Undisturbed
        <3> QED
            BY <3>1, <3>2
    <2> QED
        BY <2>1, <2>2
<1>6. CASE RpcFails /\ (AggregatorTrouble \/ ProcessRestart)
    <2>1. used' = [used EXCEPT !["rpc"] = @ + 1]
        BY <1>6 DEF RpcFails, Uses
    <2>2. \E k \in {"receiver", "restart"} : used' = [used EXCEPT ![k] = @ + 1]
        BY <1>6 DEF AggregatorTrouble, ProcessRestart, Restart, Uses
    <2>3. FALSE
        BY <1>1, <2>1, <2>2 DEF Limited
    <2> QED
        BY <2>3
<1> QED
    BY <1>3, <1>4, <1>5, <1>6 DEF IndexerNext

\* What holds of the harvester while the service is undisturbed
CalmInv == Undisturbed => ChainInv /\ NoneAbove /\ FirstRows /\ LastStored /\ Fresh

LEMMA CalmStep ==
    ASSUME ValidBranches, Shape, StoreInv, CalmInv, [IndexerNext]_indexerVars
    PROVE  CalmInv'
<1> SUFFICES ASSUME Undisturbed'
             PROVE  (ChainInv /\ NoneAbove /\ FirstRows /\ LastStored /\ Fresh)'
    BY DEF CalmInv
<1>1. /\ Undisturbed /\ Untroubled /\ Untroubled'
      /\ \/ (HarvestStep \/ RpcFails) /\ UNCHANGED aggregatorVars
         \/ AggregatorSide
         \/ NodeStep /\ UNCHANGED aggregatorVars
         \/ Apart
    BY UndisturbedStep
<1>2. ChainInv /\ NoneAbove /\ FirstRows /\ LastStored /\ Fresh
    BY <1>1 DEF CalmInv
<1>3. CASE HarvestStep \/ RpcFails \/ NodeStep
    <2>1. SteadyNext
        BY <1>3 DEF SteadyNext
    <2>2. ChainInv' /\ NoneAbove' /\ FirstRows' /\ LastStored'
        BY <1>2, <2>1, ChainInvStep, NoneAboveStep, FirstRowsStep, LastStoredStep
    <2>3. FreshInv'
        BY <1>2, <2>1, FreshStep DEF FreshInv
    <2> QED
        BY <1>1, <2>2, <2>3 DEF FreshInv
<1>4. CASE AggregatorSide \/ Apart
    <2>1. UNCHANGED <<processorVars, pc, last_processed_block, block, used>>
        BY <1>4 DEF AggregatorSide, Apart, harvesterOwn, loopVars
    <2>2. UNCHANGED <<db, txn, phase, work, idx, relevant, pc, last_processed_block,
                      block, used>>
        BY <2>1 DEF processorVars
    <2>3. ChainInv'
        BY <1>2, <2>2 DEF ChainInv, Processed, Walked, Forked
    <2>4. NoneAbove' /\ FirstRows' /\ LastStored'
        BY <1>2, <2>2 DEF NoneAbove, FirstRows, LastStored, NotSteered
    <2>5. Fresh'
        BY <1>2, <2>2 DEF Fresh, IdleTables, NewBlocks, NewRows, Unprocessed
    <2> QED
        BY <2>3, <2>4, <2>5
<1> QED
    BY <1>1, <1>3, <1>4

\* The tables have finitely many rows.
RowsInv == IsFiniteSet(Stored(db)) /\ IsFiniteSet(Stored(txn))

LEMMA RowsStep ==
    ASSUME Shape, StoreInv, RowsInv, [Next]_vars \/ UNCHANGED <<db, txn>>
    PROVE  RowsInv'
<1>1. db' = db \/ db' = txn
    BY StoreChanges
<1>2. txn' = txn \/ txn' = db \/ StartFork \/ StartBlock \/ ProcessTx
    BY DEF Next, Rescan, SteadyNext, HarvestStep, BeginHarvest, FirstBlock, HarvestDone, ScanNext,
        ScanFork, NotMinedYet, WalkBack, ForkPanics, ProcessorStep, BlockDone,
        Commit, StatementRejected, EventPanics, Process, NodeStep, RpcFails, DbFails,
        ReceiverDropped, Terminate, Pause, AutoScan, Interrupt, Restart, ScanBlock,
        ScanBlockFails, vars, processorVars, Drop, Close
<1>3. db \in Stores /\ txn \in Stores
    BY DEF Shape, ProcessorTypeOK
<1>4. ASSUME StartFork
      PROVE  Stored(txn') \subseteq Stored(db)
    BY <1>3, <1>4, NoRowFacts
    DEF StartFork, ProcessFork, UnspendSince, DeleteBlocksSince, Stored, Stores
<1>5. ASSUME StartBlock
      PROVE  Stored(txn') = Stored(txn)
    BY <1>3, <1>5 DEF StartBlock, UpsertTransactions, BlockRows, UpsertBlock, Stored, Stores
<1>6. ASSUME ProcessTx
      PROVE  IsFiniteSet(Stored(txn'))
    <2> DEFINE outs == TaprootOuts(CurrentTx)
               h == Height[Head(work)]
    <2>1. /\ phase = "tx" /\ work \in Seq(Block) /\ work # <<>>
          /\ idx \in 1 .. Len(Txs[Head(work)])
          /\ relevant \subseteq OutPoint
          /\ txn' = CreateUtxos(SpendUtxos(txn, Spends, h), outs)
        BY <1>6 DEF ProcessTx, Shape, ProcessorTypeOK, SpentRows
    <2>2. Head(work) \in Block
        BY <2>1
    <2>3. CurrentTx \in Tx
        BY <2>1, <2>2, TxsNonEmpty DEF CurrentTx
    <2>4. IsFiniteSet(outs)
        BY <2>3, TxFinite
    <2>5. /\ h \in Nat /\ Spends \subseteq OutPoint
          /\ \A o \in Spends : txn.utxos[o] # NoRow
        BY <2>1, <2>2, BlockFacts DEF Spends, StoreInv
    <2>6. SpendUtxos(txn, Spends, h) \in Stores
        BY <1>3, <2>5, SpendUtxosType
    <2> HIDE DEF outs, h
    <2>7. Stored(txn') \subseteq Stored(txn) \cup outs
        BY <1>3, <2>1, <2>5, <2>6 DEF Stored, CreateUtxos, SpendUtxos, Stores
    <2>8. IsFiniteSet(Stored(txn) \cup outs)
        BY <2>4, FS_Union DEF RowsInv
    <2> QED
        BY <2>7, <2>8, FS_Subset
<1>7. IsFiniteSet(Stored(txn'))
    <2>1. \A S \in SUBSET Stored(db) : IsFiniteSet(S)
        BY FS_Subset DEF RowsInv
    <2> QED
        BY <1>2, <1>4, <1>5, <1>6, <2>1 DEF RowsInv
<1> QED
    BY <1>1, <1>7 DEF RowsInv

\* The transaction of a turn, and the messages it sends
LEMMA TurnSends ==
    ASSUME Shape, ProcessTx
    PROVE  LET n == Height[Head(work)]
           IN  /\ phase = "tx" /\ n \in Nat /\ CurrentTx \in Tx
               /\ Spends \in SUBSET Ins[CurrentTx]
               /\ \E events \in TxEvents(n, CurrentTx, Spends) :
                      \/ events = <<>> /\ UNCHANGED <<channel, receiving>>
                      \/ events # <<>> /\ Send(events)
<1>1. /\ phase = "tx" /\ work \in Seq(Block) /\ work # <<>>
      /\ idx \in 1 .. Len(Txs[Head(work)])
    BY DEF ProcessTx, Shape, ProcessorTypeOK
<1>2. Head(work) \in Block
    BY <1>1
<1>3. Height[Head(work)] \in Nat /\ CurrentTx \in Tx
    BY <1>1, <1>2, TxsNonEmpty, BlockFacts DEF CurrentTx
<1>4. Spends \in SUBSET Ins[CurrentTx]
    BY DEF Spends
<1>5. \E events \in TxEvents(Height[Head(work)], CurrentTx, Spends) :
          IF events = <<>> THEN UNCHANGED <<channel, receiving>> ELSE Send(events)
    BY DEF ProcessTx
<1> QED
    BY <1>1, <1>3, <1>4, <1>5

\* Without taproot outputs, a coinbase changes no balance.
LEMMA PlainEvents ==
    ASSUME NoTaprootCoinbase, NEW n \in Nat, NEW t \in Tx, NEW spends \in SUBSET Ins[t],
           NEW events \in TxEvents(n, t, spends)
    PROVE  events \in Seq(PlainMessages)
<1>1. events \in Seq(SentMessages)
    BY TxEventsSent
<1>2. ASSUME NEW i \in DOMAIN events, t \in Coinbase
      PROVE  FALSE
    <2>1. PICK x \in Changed(t, spends) :
              events[i] = Event(n, t, x, BalanceUpdate(t, spends, x))
        BY TxEventsFacts
    <2>2. TaprootOuts(t) = {} /\ spends = {}
        BY <1>2, TxFinite DEF NoTaprootCoinbase
    <2> DEFINE P == {o \in TaprootOuts(t) : Owner[o] = x}
               Q == {o \in spends : Owner[o] = x}
    <2>3. P = {} /\ Q = {} /\ SumOf({}) = 0
        BY <2>2, SumEmpty DEF SumOf
    <2>4. BalanceUpdate(t, spends, x) = SumOf(P) - SumOf(Q)
        BY DEF BalanceUpdate
    <2> HIDE DEF P, Q
    <2>5. BalanceUpdate(t, spends, x) = 0
        BY <2>3, <2>4
    <2> QED
        BY <2>5 DEF Changed
<1>3. ASSUME NEW i \in DOMAIN events
      PROVE  events[i] \in PlainMessages
    <2>1. events[i] \in SentMessages
        BY <1>1
    <2>2. PICK x \in Changed(t, spends) :
              events[i] = Event(n, t, x, BalanceUpdate(t, spends, x))
        BY TxEventsFacts
    <2>3. events[i].type = "event" /\ events[i].tx = t
        BY <2>2 DEF Event
    <2> QED
        BY <1>2, <2>1, <2>3 DEF PlainMessages, SentMessages
<1> QED
    BY <1>1, <1>3

\* Nothing cools down, ever.
LEMMA PlainStep ==
    ASSUME NoTaprootCoinbase, Shape, TablesInv, NothingCools, [IndexerNext]_indexerVars
    PROVE  NothingCools'
<1> USE DEF NothingCools
<1>1. AnyStep /\ channel \in Seq(Messages)
    <2>1. PlainMessages \subseteq Messages
        BY DEF PlainMessages, SentMessages
    <2> QED
        BY <2>1, IndexerAnyStep
<1>2. channel # <<>> => ~(Head(channel) \in Events /\ Head(channel).coinbase)
    <2>1. ASSUME channel # <<>>
          PROVE  Head(channel) \in PlainMessages
        BY <2>1
    <2> QED
        BY <2>1 DEF PlainMessages, Events
<1>3. channel' \in Seq(PlainMessages)
    <2>1. CASE UNCHANGED channel \/ channel' = <<>>
        <3>1. <<>> \in Seq(PlainMessages)
            OBVIOUS
        <3> QED
            BY <2>1, <3>1, Zenon
    <2>2. CASE channel # <<>> /\ channel' = Tail(channel)
        BY <2>2
    <2>3. CASE ProcessTx
        <3>1. PICK events \in TxEvents(Height[Head(work)], CurrentTx, Spends) :
                  UNCHANGED channel \/ Send(events)
            BY <2>3, TurnSends
        <3>2. events \in Seq(PlainMessages)
            BY <2>3, TurnSends, PlainEvents
        <3> QED
            BY <3>1, <3>2, SendKeeps
    <2>4. CASE StartFork
        <3> DEFINE n == Height[Last(work)]
        <3>1. Send(<<Reorg(n)>>)
            BY <2>4 DEF StartFork, ProcessFork
        <3>2. n \in Nat
            <4>1. work \in Seq(Block) /\ work # <<>>
                BY <2>4 DEF StartFork, Shape, ProcessorTypeOK
            <4>2. Last(work) \in Block
                BY <4>1 DEF Last
            <4> QED
                BY <4>2, BlockFacts
        <3> HIDE DEF n
        <3>3. Reorg(n) \in PlainMessages
            BY <3>2 DEF Reorg, Messages, SentMessages, PlainMessages
        <3>4. <<Reorg(n)>> \in Seq(PlainMessages)
            BY <3>3
        <3> QED
            BY <3>1, <3>4, SendKeeps
    <2>5. CASE AggregatorStep \/ ChannelClosed \/ TransactionFails
        BY <2>1, <2>2, <2>5
        DEF AggregatorStep, HandleEvent, HandleReorg, Receive, PullPending, ProjectPulled,
            ReorgPanics, StartCleanup, ChannelClosed, TransactionFails, End
    <2> QED
        BY <2>1, <2>3, <2>4, <2>5
        DEF IndexerNext, HarvesterSide, AggregatorSide, HarvesterTrouble, AggregatorTrouble,
            Signal, ProcessRestart, ClockAndNode, HarvestStep, BeginHarvest, FirstBlock,
            HarvestDone, ScanNext, ScanFork, NotMinedYet, WalkBack, ForkPanics,
            ProcessorStep, StartBlock, BlockDone, Commit, StatementRejected, EventPanics,
            Process, NodeStep, RpcFails, DbFails, Terminate, Pause, AutoScan, Rescan,
            ScanBlock, ScanBlockFails, Interrupt, Restart, indexerVars, vars, harvesterOwn
<1>4. \A C : EmptyBag (-) C = EmptyBag
    <2>1. DOMAIN EmptyBag = {}
        BY DEF EmptyBag, SetToBag
    <2> QED
        BY <2>1 DEF EmptyBag, SetToBag, (-)
<1>5. pending_events' = EmptyBag
    <2>1. TablesStep
        BY <1>1, StepTables
    <2> QED
        BY <1>2, <1>4, <2>1 DEF TablesStep, EventTransaction, ReorgTransaction, tables
<1>6. pulled' = EmptyBag
    <2>1. \A n : PendingUpTo(n) = EmptyBag
        <3>1. BagToSet(EmptyBag) = {}
            BY DEF EmptyBag, SetToBag, BagToSet
        <3> QED
            BY <3>1 DEF PendingUpTo, SubBagWhere, EmptyBag, SetToBag
    <2> QED
        BY <1>1, <2>1
        DEF AnyStep, AggregatorStep, HandleEvent, HandleReorg, PullPending, ProjectPulled,
            ReorgPanics, StartCleanup, ChannelClosed, TransactionFails, End,
            NotifyShutdown, HourPasses, AggregatorRestart, aggregatorVars
<1> QED
    BY <1>3, <1>5, <1>6

\* What the rows of blocks of X amount to, less those still to be inverted, and
\* what is under way, is what those blocks are worth in the harvester's tables.
Match(X, a) ==
    Net(p2tr_events, X \cap Spared(channel, 0), Tx, a) + Sent(channel, X, a)
        = Worth(txn, X, a)

LedgerInv ==
    Undisturbed /\ receiving => \A X \in SUBSET Nat, a \in Address : Match(X, a)

\* A transaction's events are sent with its rows.
LEMMA MatchTx ==
    ASSUME Shape, StoreInv, TablesInv, Fresh, RowsInv, channel \in Seq(Messages),
           ProcessTx, UNCHANGED p2tr_events,
           NEW X \in SUBSET Nat, NEW a \in Address, Match(X, a)
    PROVE  Match(X, a)'
<1> DEFINE n == Height[Head(work)]
           v == IF n \in X THEN BalanceUpdate(CurrentTx, Spends, a) ELSE 0
<1>1. n \in Nat /\ CurrentTx \in Tx /\ Spends \in SUBSET Ins[CurrentTx]
    BY TurnSends
<1>2. Worth(txn', X, a) = Worth(txn, X, a) + v
    BY WorthOfTx DEF RowsInv
<1>3. PICK events \in TxEvents(n, CurrentTx, Spends) :
          \/ events = <<>> /\ UNCHANGED channel
          \/ events # <<>> /\ Send(events)
    BY TurnSends
<1> HIDE DEF n
<1>4. events \in Seq(Messages) /\ \A i \in DOMAIN events : events[i].type = "event"
    <2>1. \A x : Event(n, CurrentTx, x, BalanceUpdate(CurrentTx, Spends, x)).type = "event"
        BY DEF Event
    <2> QED
        BY <1>1, <2>1, TxEventsFacts
<1>5. channel' = channel \o events
    <2>1. CASE events = <<>>
        BY <1>3, <2>1
    <2>2. CASE events # <<>>
        BY <1>3, <2>2, IndexerAssumption DEF Send
    <2> QED
        BY <2>1, <2>2
<1>6. /\ Sent(channel', X, a) = Sent(channel, X, a) + Sent(events, X, a)
      /\ Spared(channel', 0) = Spared(channel, 0)
    BY <1>4, <1>5, SentEvents
<1>7. Sent(events, X, a) = v
    <2>1. Sent(events, X, a)
              = IF n \in X \cap Nat THEN BalanceUpdate(CurrentTx, Spends, a) ELSE 0
        BY <1>1, SentOfTx
    <2> QED
        BY <1>1, <2>1
<1>8. /\ Sent(channel, X, a) \in Int /\ Sent(events, X, a) \in Int
      /\ Net(p2tr_events, X \cap Spared(channel, 0), Tx, a) \in Int
    <2>1. Sent(channel, X, a) \in Int /\ Sent(events, X, a) \in Int
        BY <1>4, SentType
    <2>2. IsLedger(p2tr_events)
        BY TablesAreLedgers
    <2> QED
        BY <2>1, <2>2, NetType
<1> HIDE DEF v
<1>9. Net(p2tr_events', X \cap Spared(channel', 0), Tx, a)
          = Net(p2tr_events, X \cap Spared(channel, 0), Tx, a)
    BY <1>6
<1> QED
    BY <1>2, <1>6, <1>7, <1>8, <1>9 DEF Match

\* A Reorg is sent with the deletion of the blocks it names.
LEMMA MatchFork ==
    ASSUME ValidBranches, Shape, StoreInv, ChainInv, NoneAbove, LastStored, Untroubled,
           IdleTables, channel \in Seq(Messages), StartFork, UNCHANGED p2tr_events,
           NEW X \in SUBSET Nat, NEW a \in Address,
           \A Y \in SUBSET Nat : Match(Y, a)
    PROVE  Match(X, a)'
<1> DEFINE n == Height[Last(work)]
           Y == Before(X, n)
<1>1. /\ pc = "walk" /\ work # <<>> /\ work \in Seq(Block) /\ txn = db
      /\ txn' = UnspendSince(DeleteBlocksSince(db, n), n)
      /\ Send(<<Reorg(n)>>)
    BY DEF StartFork, ProcessFork, Shape, ProcessorTypeOK, IdleTables, Processing
<1>2. n \in Nat
    <2>1. Last(work) \in Block
        BY <1>1 DEF Last
    <2> QED
        BY <2>1, BlockFacts
<1> HIDE DEF n
<1>3. channel' = channel \o <<Reorg(n)>>
    BY <1>1, IndexerAssumption DEF Send
<1>4. Y \in SUBSET Nat
    BY DEF Before
<1>5. Worth(txn', X, a) = Worth(txn, Y, a)
    BY <1>1, <1>2, WorthOfFork
<1>6. /\ Sent(channel', X, a) = Sent(channel, Y, a)
      /\ Spared(channel', 0) = Before(Spared(channel, 0), n)
    BY <1>2, <1>3, SentReorg
<1>7. X \cap Spared(channel', 0) = Y \cap Spared(channel, 0)
    BY <1>6 DEF Before
<1>8. Match(Y, a)
    BY <1>4
<1> HIDE DEF Y
<1> QED
    BY <1>5, <1>6, <1>7, <1>8 DEF Match

\* A row is added for the event that is taken.
LEMMA MatchEvent ==
    ASSUME TablesInv, NothingCools, HandleEvent, UNCHANGED txn,
           NEW X \in SUBSET Nat, NEW a \in Address, Match(X, a)
    PROVE  Match(X, a)'
<1> DEFINE e == Head(channel)
           R == Tail(channel)
           Y == X \cap Spared(R, 0)
           r == Row(e)
           B == SetToBag({r})
<1>1. /\ channel # <<>> /\ channel' = R /\ e.type = "event"
    BY DEF HandleEvent, Receive
<1>2. channel \in Seq(Messages) /\ e \in Events /\ ~e.coinbase
    <2>1. PlainMessages \subseteq Messages
        BY DEF PlainMessages, SentMessages
    <2>2. channel \in Seq(Messages) /\ e \in PlainMessages
        BY <1>1, <2>1 DEF NothingCools
    <2> QED
        BY <1>1, <2>2 DEF PlainMessages, SentMessages, Messages
<1>3. p2tr_events' = p2tr_events (+) B
    BY <1>2 DEF HandleEvent, EventTransaction, Project
<1>5. r \in Rows /\ r.block = e.block /\ r.addr = e.addr /\ r.amount = e.amount
    BY <1>2 DEF Row, Rows, Events
<1> HIDE DEF r
<1>6. /\ IsLedger(B)
      /\ Net(B, Y, Tx, a) = IF r.block \in Y /\ r.addr = a THEN r.amount ELSE 0
    BY <1>5, NetOfOne
<1>7. IsLedger(p2tr_events)
    BY TablesAreLedgers
<1> HIDE DEF B
<1>8. Net(p2tr_events', Y, Tx, a) = Net(p2tr_events, Y, Tx, a) + Net(B, Y, Tx, a)
    BY <1>3, <1>6, <1>7, NetAdded
<1>9. Part(e, Y, a) = Net(B, Y, Tx, a)
    BY <1>1, <1>5, <1>6 DEF Part
<1>10. Sent(channel, X, a) = Part(e, Y, a) + Sent(R, X, a)
    BY <1>1, <1>2, SentTail
<1>11. Spared(channel, 0) = Spared(R, 0)
    BY <1>1, <1>2, SparedTail
<1>12. /\ Net(p2tr_events, Y, Tx, a) \in Int /\ Net(B, Y, Tx, a) \in Int
    BY <1>6, <1>7, NetType
<1>13. Sent(R, X, a) \in Int
    <2>1. R \in Seq(Messages)
        BY <1>1, <1>2
    <2> HIDE DEF R
    <2> QED
        BY <2>1, SentType
<1>14. Net(p2tr_events, Y, Tx, a) + Sent(channel, X, a) = Worth(txn, X, a)
    BY <1>11 DEF Match
<1> HIDE DEF Y, R, e
<1>15. Net(p2tr_events', Y, Tx, a) + Sent(R, X, a) = Worth(txn, X, a)
    BY <1>8, <1>9, <1>10, <1>12, <1>13, <1>14
<1> QED
    BY <1>1, <1>15 DEF Match, Y

\* The rows of a reorganization invert those of the blocks it names.
LEMMA MatchReorg ==
    ASSUME TablesInv, NothingCools, HandleReorg, UNCHANGED txn,
           NEW X \in SUBSET Nat, NEW a \in Address, Match(X, a)
    PROVE  Match(X, a)'
<1> DEFINE e == Head(channel)
           R == Tail(channel)
           Y == X \cap Spared(R, 0)
           n == e.block
<1>1. /\ channel # <<>> /\ channel' = R /\ e.type = "reorg"
      /\ p2tr_events' = p2tr_events (+) MapBag(Inverted, RowsSince(n))
    BY DEF HandleReorg, Receive, ReorgTransaction, Project
<1>2. channel \in Seq(Messages) /\ n \in Nat
    <2>1. PlainMessages \subseteq Messages
        BY DEF PlainMessages, SentMessages
    <2>2. channel \in Seq(Messages)
        BY <2>1 DEF NothingCools
    <2> QED
        BY <1>1, <2>2, HeadOfChannel
<1>3. /\ IsLedger(p2tr_events)
      /\ p2tr_events' = p2tr_events (+) InvertedSince(p2tr_events, n)
    BY <1>1, TablesAreLedgers
<1>4. Sent(channel, X, a) = Part(e, Y, a) + Sent(R, X, a)
    BY <1>1, <1>2, SentTail
<1>5. Spared(channel, 0) = Before(Spared(R, 0), n)
    BY <1>1, <1>2, SparedTail
<1>6. Part(e, Y, a) = 0
    BY <1>1 DEF Part
<1>7. Sent(R, X, a) \in Int
    <2>1. R \in Seq(Messages)
        BY <1>1, <1>2
    <2> HIDE DEF R
    <2> QED
        BY <2>1, SentType
<1>8. X \cap Spared(channel, 0) = Before(Y, n) /\ Y \in SUBSET Nat
    BY <1>5 DEF Before
<1> HIDE DEF Y, R, e, n
<1>9. Net(p2tr_events', Y, Tx, a) = Net(p2tr_events, Before(Y, n), Tx, a)
    BY <1>2, <1>3, <1>8, NetAfterReorg
<1>10. Net(p2tr_events', Y, Tx, a) + Sent(R, X, a) = Worth(txn, X, a)
    BY <1>4, <1>6, <1>7, <1>8, <1>9 DEF Match
<1> QED
    BY <1>1, <1>10 DEF Match, Y

\* Every step of the service keeps the account.
LEMMA LedgerStep ==
    ASSUME ValidBranches, Shape, StoreInv, TablesInv, CalmInv, RowsInv, NothingCools,
           LedgerInv, [IndexerNext]_indexerVars
    PROVE  LedgerInv'
<1> SUFFICES ASSUME Undisturbed', receiving', NEW X \in SUBSET Nat, NEW a \in Address
             PROVE  Match(X, a)'
    BY DEF LedgerInv
<1>1. /\ Undisturbed /\ Untroubled
      /\ \/ (HarvestStep \/ RpcFails) /\ UNCHANGED aggregatorVars
         \/ AggregatorSide
         \/ NodeStep /\ UNCHANGED aggregatorVars
         \/ Apart
    BY UndisturbedStep
<1>2. ChainInv /\ NoneAbove /\ LastStored /\ Fresh
    BY <1>1 DEF CalmInv
<1>3. channel \in Seq(Messages)
    <2>1. PlainMessages \subseteq Messages
        BY DEF PlainMessages, SentMessages
    <2> QED
        BY <2>1 DEF NothingCools
<1>4. receiving
    BY <1>1
    DEF HarvestStep, BeginHarvest, FirstBlock, HarvestDone, ScanNext, ScanFork,
        NotMinedYet, WalkBack, StartFork, ForkPanics, ProcessorStep, BlockDone, Commit,
        StatementRejected, EventPanics, Process, ProcessFork, StartBlock, ProcessTx, Send,
        RpcFails, NodeStep, Apart, AggregatorSide, AggregatorStep, HandleEvent, HandleReorg,
        Receive, PullPending, ProjectPulled, ReorgPanics, StartCleanup, ChannelClosed, End
<1>5. \A Y \in SUBSET Nat : Match(Y, a)
    BY <1>1, <1>4 DEF LedgerInv
<1>6. CASE UNCHANGED <<p2tr_events, channel>> /\ Worth(txn', X, a) = Worth(txn, X, a)
    BY <1>5, <1>6 DEF Match
<1>7. CASE HarvestStep /\ UNCHANGED aggregatorVars
    <2>1. UNCHANGED p2tr_events
        BY <1>7 DEF aggregatorVars, tables
    <2>2. CASE ProcessorStep /\ ProcessTx
        BY <1>2, <1>3, <1>5, <2>1, <2>2, MatchTx
    <2>3. CASE StartFork
        BY <1>1, <1>2, <1>3, <1>5, <2>1, <2>3, MatchFork DEF Fresh
    <2>4. CASE ProcessorStep /\ StartBlock
        <3>1. Worth(txn', X, a) = Worth(txn, X, a)
            BY <1>1, <1>2, <2>4, WorthOfStart
        <3>2. UNCHANGED channel
            BY <2>4 DEF StartBlock
        <3> QED
            BY <1>6, <2>1, <3>1, <3>2
    <2>5. CASE FirstBlock \/ ScanNext \/ ForkPanics
        <3>1. phase = "idle"
            BY <2>5 DEF FirstBlock, ScanNext, ForkPanics, Shape, Processing
        <3>2. txn' = db /\ txn = db /\ UNCHANGED channel
            BY <1>2, <2>5, <3>1
            DEF FirstBlock, ScanNext, ForkPanics, Process, Close, Fresh, IdleTables
        <3> QED
            BY <1>6, <2>1, <3>2
    <2>6. ~StatementRejected
        BY <1>1, <1>2, Accepted DEF StatementRejected
    <2>7. ~EventPanics
        BY <1>4 DEF EventPanics, SendPanics
    <2>8. CASE BeginHarvest \/ HarvestDone \/ ScanFork \/ NotMinedYet \/ WalkBack \/ BlockDone
        <3>1. UNCHANGED <<txn, channel>>
            BY <2>8
            DEF BeginHarvest, HarvestDone, ScanFork, NotMinedYet, WalkBack, BlockDone,
                Commit, Close, processorVars
        <3> QED
            BY <1>6, <2>1, <3>1
    <2> QED
        BY <1>7, <2>2, <2>3, <2>4, <2>5, <2>6, <2>7, <2>8 DEF HarvestStep, ProcessorStep
<1>8. CASE (RpcFails \/ NodeStep) /\ UNCHANGED aggregatorVars
    <2>1. RpcFails => phase = "idle"
        BY DEF RpcFails, Shape, Processing
    <2>2. txn' = txn /\ UNCHANGED <<channel, p2tr_events>>
        BY <1>2, <1>8, <2>1
        DEF RpcFails, NodeStep, Close, processorVars, Fresh, IdleTables, aggregatorVars, tables
    <2> QED
        BY <1>6, <2>2
<1>9. CASE AggregatorSide
    <2>1. UNCHANGED txn
        BY <1>9 DEF AggregatorSide, harvesterOwn, processorVars
    <2>2. CASE HandleEvent
        BY <1>5, <2>1, <2>2, MatchEvent
    <2>3. CASE HandleReorg
        BY <1>5, <2>1, <2>3, MatchReorg
    <2>4. ~ProjectPulled
        BY DEF ProjectPulled, TablesInv, AggregatorTypeOK, NothingCools
    <2>5. CASE PullPending \/ StartCleanup
        BY <1>6, <2>1, <2>5 DEF PullPending, StartCleanup, tables
    <2>6. ~(ReorgPanics \/ ChannelClosed)
        BY DEF ReorgPanics, ChannelClosed, End
    <2> QED
        BY <1>9, <2>2, <2>3, <2>4, <2>5, <2>6 DEF AggregatorSide, AggregatorStep
<1>10. CASE Apart
    BY <1>6, <1>10 DEF Apart, processorVars
<1> QED
    BY <1>1, <1>7, <1>8, <1>9, <1>10

\* What holds when nothing has happened yet
LEMMA LedgerInit ==
    IndexerInit => CalmInv /\ RowsInv /\ NothingCools /\ LedgerInv
<1> SUFFICES ASSUME IndexerInit
             PROVE  CalmInv /\ RowsInv /\ NothingCools /\ LedgerInv
    OBVIOUS
<1>1. /\ db = EmptyStore /\ txn = EmptyStore /\ phase = "idle" /\ channel = <<>>
      /\ p2tr_events = EmptyBag /\ pending_events = EmptyBag /\ pulled = EmptyBag
      /\ pc = "select" /\ last_processed_block = Null
    BY DEF IndexerInit, Init, ProcessorInit, AggregatorInit
<1>2. CalmInv
    <2>1. ChainInv
        BY ChainInvInit DEF IndexerInit
    <2>2. NoneAbove /\ FirstRows /\ LastStored /\ Fresh
        BY <1>1 DEF NoneAbove, FirstRows, LastStored, Fresh, IdleTables, NewBlocks, NewRows
    <2> QED
        BY <2>1, <2>2 DEF CalmInv
<1>3. Stored(EmptyStore) = {}
    BY DEF Stored, EmptyStore
<1>4. RowsInv
    BY <1>1, <1>3, FS_EmptySet DEF RowsInv
<1>5. NothingCools
    <2>1. <<>> \in Seq(PlainMessages)
        OBVIOUS
    <2> QED
        BY <1>1, <2>1, Zenon DEF NothingCools
<1>6. ASSUME NEW X \in SUBSET Nat, NEW a \in Address
      PROVE  Match(X, a)
    <2> DEFINE Y == X \cap Spared(<<>>, 0)
    <2>1. Sent(<<>>, X, a) = 0
        BY NothingSent
    <2>2. Net(EmptyBag, Y, Tx, a) = 0
        <3>1. BagToSet(Within(EmptyBag, Of(Y, Tx))) = {}
            BY DEF Within, BagToSet, EmptyBag, SetToBag
        <3> QED
            BY <3>1, TotalEmpty DEF Net
    <2>3. Worth(EmptyStore, X, a) = 0
        <3>1. Created(EmptyStore, X, a) = {} /\ SpentAt(EmptyStore, X, a) = {}
            BY <1>3 DEF Created, SpentAt
        <3>2. SumOf({}) = 0
            BY SumEmpty DEF SumOf
        <3> QED
            BY <3>1, <3>2 DEF Worth
    <2> QED
        BY <1>1, <2>1, <2>2, <2>3 DEF Match
<1> QED
    BY <1>2, <1>4, <1>5, <1>6 DEF LedgerInv

\* Until the database fails or a command interrupts it, the service keeps one
\* account: when both tasks are between two messages, every address has in
\* btc_balances what it has in unspent rows of btc_utxos, after any number of
\* forks and of failed calls to the node.
THEOREM OneAccount ==
    ASSUME ValidBranches, NoTaprootCoinbase
    PROVE  IndexerSpec => []BalancesMatchStore
<1>1. StoreInv /\ Shape /\ TablesInv /\ CalmInv /\ RowsInv /\ NothingCools /\ LedgerInv
          => BalancesMatchStore
    <2> SUFFICES ASSUME Shape, StoreInv, TablesInv, CalmInv, RowsInv, NothingCools,
                        LedgerInv, Undisturbed, Quiet, NEW a \in Address
                 PROVE  balances[a] + CoolingOf(a) = UnspentOf(a)
        BY DEF BalancesMatchStore
    <2>1. phase = "idle" /\ channel = <<>> /\ txn = db /\ receiving
        BY DEF Quiet, CalmInv, Fresh, IdleTables
    <2>2. Match(Nat, a)
        BY <2>1 DEF LedgerInv
    <2>3. Sent(<<>>, Nat, a) = 0 /\ Nat \cap Spared(<<>>, 0) = Nat
        BY NothingSent
    <2>4. IsLedger(p2tr_events)
        BY TablesAreLedgers
    <2>5. Net(p2tr_events, Nat, Tx, a) = Total(p2tr_events, a)
        BY <2>4, NetOfAll
    <2>6. Worth(db, Nat, a) = UnspentOf(a)
        BY WorthOfAll DEF RowsInv
    <2>7. CoolingOf(a) = 0
        <3>1. BagToSet(EmptyBag) = {}
            BY DEF EmptyBag, SetToBag, BagToSet
        <3> QED
            BY <3>1, TotalEmpty DEF CoolingOf, NothingCools
    <2>8. balances[a] = Total(p2tr_events, a) /\ balances[a] \in Int
        BY DEF TablesInv, ProjectionsAgree, AggregatorTypeOK
    <2> QED
        BY <2>1, <2>2, <2>3, <2>5, <2>6, <2>7, <2>8 DEF Match
<1>2.   /\ Shape /\ StoreInv /\ IndexerInv
        /\ CalmInv /\ RowsInv /\ NothingCools /\ LedgerInv
        /\ [IndexerNext]_indexerVars
      => CalmInv' /\ RowsInv' /\ NothingCools' /\ LedgerInv'
    <2> SUFFICES ASSUME Shape, StoreInv, IndexerInv, CalmInv, RowsInv, NothingCools,
                        LedgerInv, [IndexerNext]_indexerVars
                 PROVE  CalmInv' /\ RowsInv' /\ NothingCools' /\ LedgerInv'
        OBVIOUS
    <2>1. TablesInv
        BY DEF IndexerInv
    <2>2. [Next]_vars \/ UNCHANGED <<db, txn>>
        BY IndexerStep DEF OtherSide, harvesterOwn, processorVars
    <2> QED
        BY <2>1, <2>2, CalmStep, RowsStep, PlainStep, LedgerStep
<1>3. IndexerInv => TablesInv
    BY DEF IndexerInv
<1> QED
    BY <1>1, <1>2, <1>3, LedgerInit, IndexerInvariant, IndexerInvHolds, PTL DEF IndexerSpec
=============================================================================
