SPECIFICATION MCSpec
CONSTANTS
    NumLayers = 2
    MaxSeqLen = 3
    CacheBatch = 1
    ResidualWindow = 1
    Strategies = {"static", "turboquant"}
    DraftTokens = 2
    Vocabulary = {"a", "eos"}
    Eos = "eos"
    Setups <- MCSetups
    Requests <- MCRequests
    MaxRequests = 2
    MaxDeaths = 1
INVARIANTS ReadsWholeContext LosslessUntilRejection
