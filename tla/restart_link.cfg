SPECIFICATION Spec
CONSTANTS
    Null = Null
    NoRow = NoRow
    Block <- MCBlock
    Parent <- MCParent
    Height <- MCHeight
    Tx <- MCTx
    OutPoint <- MCOutPoint
    Ins <- MCIns
    Address <- MCAddress
    Owner <- MCOwner
    Amount <- MCAmount
    Coinbase <- MCCoinbase
    StartHeight = 1
    Txs <- MCTxs
    Bound <- OneRestart
    Buffered = FALSE
INVARIANT ChainLinked
CHECK_DEADLOCK FALSE
