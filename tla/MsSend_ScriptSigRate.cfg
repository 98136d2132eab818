SPECIFICATION Spec
CONSTANTS
    Calls <- MCCalls
    Answers <- MCAnswers
    MaxInputs = 2
    MS_SIG_SIZE_ESTIMATE = 73
    MS_SIG_SIZE_ESTIMATE_TAP = 66
    RealSigSizes <- MCRealSigSizes
    MIN_RELAY_TX_FEE = 1000
    Drain = Drain
INVARIANT ScriptSigRateHolds
CHECK_DEADLOCK FALSE
