SPECIFICATION Spec
CONSTANTS
    NoDoc = NoDoc
    Key = {"ka", "kb", "kc", "kx"}
    Draft = {"t1", "t2"}
    Parties <- TwoParties
    Inputs <- TwoInputs
    Form <- MixedForm
    Quorum <- MixedQuorum
    Threshold <- MixedThreshold
    Walk <- MixedWalk
    Requests <- GoodRequests
    ForeignDocs <- MixedForeign
INVARIANT ThresholdMet
PROPERTIES SignaturesKept PromiseSpec
