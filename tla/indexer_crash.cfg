SPECIFICATION IndexerSpec
CONSTANTS
    Null = Null
    NoRow = NoRow
    Block <- MCShortBlock
    Parent <- MCShortParent
    Height <- MCShortHeight
    Tx <- MCTx
    OutPoint <- MCOutPoint
    Ins <- MCIns
    Address <- MCAddress
    Owner <- MCOwner
    Amount <- MCAmount
    Coinbase <- MCCoinbase
    StartHeight = 1
    Txs <- MCShortTxs
    Bound <- CrashTrouble
    Buffered = TRUE
    Maturity = 1
    LastHour = 1
INVARIANT IndexerTypeOK
INVARIANT ProjectionsAgree
PROPERTY MaturityRespected
CHECK_DEADLOCK FALSE
