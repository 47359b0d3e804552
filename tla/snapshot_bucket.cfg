SPECIFICATION SnapshotsSpec
CONSTANTS
    Null = Null
    Tx <- MCTx
    Coinbase <- MCCoinbase
    Address <- MCAddress
    Buffered = TRUE
    Maturity = 1
    LastHour = 7
    DayHours = 2
    WeekHours = 4
    MonthHours = 6
    Script <- MCScript
PROPERTY SnapshotsExact
CHECK_DEADLOCK FALSE
