SPECIFICATION FairSpec
CONSTANTS
    Coins <- Outputs
    Own = "native"
    Commands <- CommandLines
    Drain = Drain
    FeePerInput = 1
    Masking = TRUE
INVARIANTS NothingLeftBehind StopsAtTarget ChangeFound BalanceComplete
PROPERTY CommandEnds
CHECK_DEADLOCK FALSE
