SPECIFICATION SteadySpec
CONSTANTS
    Null = Null
    NoRow = NoRow
    Block <- MCBlock
    Parent <- MCParent
    Height <- MCHeight
    Tx <- MCTx
    OutPoint <- MCOutPoint
    Ins <- MCIns
    Address <- MCAddress
    Owner <- MCOwner
    Amount <- MCAmount
    Coinbase <- MCCoinbase
    StartHeight = 1
    Txs <- MCTxs
    Bound <- Trouble
    Buffered = FALSE
INVARIANT TypeOK
INVARIANT ChainLinked
INVARIANT UtxoBacked
INVARIANT SpentIsReal
INVARIANT ForkNotEmpty
INVARIANT RetryKeepsBlocks
PROPERTY SpendRecorded
PROPERTY ChainSpec
PROPERTY LatestNeverDrops
CHECK_DEADLOCK FALSE
