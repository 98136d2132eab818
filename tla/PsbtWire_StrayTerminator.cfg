SPECIFICATION WireSpec
CONSTANTS
    KeydataLen <- Lengths
    KeydataRank <- Ranks
    Size <- Sizes
    ZeroTail <- Tails
    Tx <- Txs
    Utxo <- SomeUtxo
    TypeRank <- TypeRanks
    Files <- SomeFiles
    Partners <- SomePartners
    Nothing = Nothing
INVARIANT StrayTerminatorTruncated
CHECK_DEADLOCK FALSE
