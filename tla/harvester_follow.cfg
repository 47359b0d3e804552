SPECIFICATION CommandedLiveSpec
CONSTANTS
    Null = Null
    NoRow = NoRow
    Block <- MCShortBlock
    Parent <- MCShortParent
    Height <- MCShortHeight
    Tx <- MCTx
    OutPoint <- MCOutPoint
    Ins <- MCIns
    Address <- MCAddress
    Owner <- MCOwner
    Amount <- MCAmount
    Coinbase <- MCCoinbase
    StartHeight = 1
    Txs <- MCShortTxs
    Bound <- Steered
    Buffered = FALSE
    Caller = {op1, op2}
    Request <- MCRequest
    Capacity = 1
INVARIANT CommandsTypeOK
INVARIANT QueueFits
INVARIANT ScanComplete
PROPERTY PauseHolds
PROPERTY TerminateEnds
PROPERTY CallersAnswered
PROPERTY CatchesUp
CHECK_DEADLOCK FALSE
