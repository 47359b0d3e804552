SPECIFICATION IndexerSpec
CONSTANTS
    Null = Null
    NoRow = NoRow
    Block <- MCBlock
    Parent <- MCParent
    Height <- MCHeight
    Tx <- MCTx
    OutPoint <- MCOutPoint
    Ins <- MCIns
    Address <- MCAddress
    Owner <- MCOwner
    Amount <- MCAmount
    Coinbase <- MCCoinbase
    StartHeight = 1
    Txs <- MCTxs
    Bound <- Calm
    Buffered = TRUE
    Maturity = 2
    LastHour = 0
INVARIANT BalancesMatchStore
CHECK_DEADLOCK FALSE
