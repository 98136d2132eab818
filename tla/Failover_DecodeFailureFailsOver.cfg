SPECIFICATION NetSpec
CONSTANTS
    Kind <- Providers
    Retries = 2
    MaxCalls = 2
    BaseDelay = 500
    MaxDelay = 2000
    RetryAfterMax = 30000
    RetryAfters <- Headers
INVARIANT DecodeFailureFailsOver
CHECK_DEADLOCK FALSE
