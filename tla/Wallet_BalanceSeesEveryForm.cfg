SPECIFICATION Spec
CONSTANTS
    Coins <- Outputs
    Own = "native"
    Commands <- CommandLines
    Drain = Drain
    FeePerInput = 1
    Masking = FALSE
INVARIANT BalanceSeesEveryForm
CHECK_DEADLOCK FALSE
