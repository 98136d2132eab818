SPECIFICATION FairSpec
CONSTANTS
    NoDoc = NoDoc
    Key = {"ka", "kb", "kc"}
    Draft = {"t1"}
    Parties <- ThreeParties
    Inputs <- OneInput
    Form <- OneForm
    Quorum <- OneQuorum
    Threshold <- OneThreshold
    Walk <- OneKeyEach
    Requests <- AllRequests
    ForeignDocs <- NoForeign
INVARIANT OpenCopiesMerge
PROPERTIES FinalStays QuorumCompletes
