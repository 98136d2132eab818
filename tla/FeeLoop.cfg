SPECIFICATION FairSpec
CONSTANTS
    Drain = Drain
    MIN_RELAY_TX_FEE = 1000
    TxSizes <- MCTxSizes
    Requests <- MCRequests
INVARIANTS TypeOK Conservation RatePaid CycleClosed
PROPERTY Termination
CHECK_DEADLOCK FALSE
