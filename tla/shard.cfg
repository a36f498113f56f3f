SPECIFICATION FairSpec
CONSTANTS
    Wallets = {w1, w2}
    None = None
    Tick = Tick
    NumShards = 4
    LayerStart <- MixedStart
    LayerEnd <- MixedEnd
    Moe <- MixedExperts
    MaxTokens = 3
    Ejectable = {w1}
    MaxPosts = 2
    Repeats = FALSE
    PromptRpc = TRUE
PROPERTY StalledIsRetried
INVARIANT TypeOK
INVARIANT StepsInOrder
INVARIANT OneInFlight
INVARIANT ResumeIsPinned
INVARIANT RowIsComplete
INVARIANT EverySubmitted
