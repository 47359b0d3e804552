SPECIFICATION CommandedSpec
CONSTANTS
    Null = Null
    NoRow = NoRow
    Block <- MCShortBlock
    Parent <- MCShortParent
    Height <- MCShortHeight
    Tx <- MCTx
    OutPoint <- MCOutPoint
    Ins <- MCIns
    Address <- MCAddress
    Owner <- MCOwner
    Amount <- MCAmount
    Coinbase <- MCCoinbase
    StartHeight = 1
    Txs <- MCShortTxs
    Bound <- OneCommand
    Buffered = FALSE
    Caller = {op1}
    Request <- MCRequest
    Capacity = 1
INVARIANT ScanIncludesFrom
CHECK_DEADLOCK FALSE
