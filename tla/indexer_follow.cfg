SPECIFICATION IndexerLiveSpec
CONSTANTS
    Null = Null
    NoRow = NoRow
    Block <- MCBlock
    Parent <- MCParent
    Height <- MCHeight
    Tx <- MCTx
    OutPoint <- MCOutPoint
    Ins <- MCIns
    Address <- MCOneAddress
    Owner <- MCOwnerOne
    Amount <- MCAmount
    Coinbase <- MCCoinbase
    StartHeight = 1
    Txs <- MCTxs
    Bound <- FollowTrouble
    Buffered = TRUE
    Maturity = 1
    LastHour = 0
INVARIANT BalancesMatchStore
PROPERTY ReorgCancels
PROPERTY ShutdownDrains
CHECK_DEADLOCK FALSE
