SPECIFICATION ComponentsSpec
CONSTANTS
    Kind <- Providers
    Retries = 2
    MaxCalls = 2
    BaseDelay = 500
    MaxDelay = 2000
    RetryAfterMax = 30000
    RetryAfters <- Headers
    Scans <- SomeScans
    Targets <- SomeTargets
    Fees = {0, 1}
    FeeKb = 10
    SendAll = SendAll
    Order <- GroupOrder
    TapTweak <- Tweaks
    Listings <- SomeListings
    MaxBuilds = 2
    Programs <- SomePrograms
    Strings <- SomeStrings
    HrpLen <- Hrps
    Nobody = Nobody
    NoScript = NoScript
    KeydataLen <- Lengths
    KeydataRank <- Ranks
    Size <- Sizes
    ZeroTail <- Tails
    Tx <- Txs
    Utxo <- SomeUtxo
    TypeRank <- TypeRanks
    Files <- SomeFiles
    Partners <- SomePartners
    Nothing = Nothing
    WordCounts <- SomeCounts
    LexiconSize = 8
    MAX_WORD_REPEATS = 2
    SeedLines <- SomeSeedLines
    PassphraseLines <- SomePassphrases
    Mnemonics = {"mnemonic", "repetitive"}
    Repetitive = {"repetitive"}
    Forms = {"p2sh", "p2wsh", "p2tr"}
    Owners <- MCOwners
    Derivers <- MCDerivers
    Counts = {1, 3, 4}
    Thresholds = {0, 1, 2, 4}
    ForeignKeys <- MCForeignKeys
    MS_MAX_PUBKEYS = 3
    TAPSCRIPT_NUMEQUAL = "numequalverify"
    Calls <- MCCalls
    Answers <- MCAnswers
    MaxInputs = 2
    MS_SIG_SIZE_ESTIMATE = 73
    MS_SIG_SIZE_ESTIMATE_TAP = 66
    RealSigSizes <- MCRealSigSizes
    MIN_RELAY_TX_FEE = 1000
    Drain = Drain
INVARIANTS
    AllTypesOK
    EveryBackendTried RefusedOnce BroadcastHappened WaitBounded
    SpentAsShown TickHolds
    CandidatesVerify
    OwnAddressPaid StandardIffPaid
    OwnFilesRead NothingLost MergeOrderFree
    PrintedSeedOpens StandardWallet
    SameScript SignaturesFit DistinctSigners
    WitnessRateHolds RefusalIsFinal
PROPERTIES
    CallEnds DrawEnds QuorumCompletes FeeLoopSpec
CHECK_DEADLOCK FALSE
