SPECIFICATION Spec
CONSTANTS
    Wallets = {w1, w2}
    None = None
    Tick = Tick
    NumShards = 3
    LayerStart <- DenseStart
    LayerEnd <- DenseEnd
    Moe <- NoExperts
    MaxTokens = 2
    Ejectable = {}
    MaxPosts = 1
    Repeats = FALSE
    PromptRpc = FALSE
INVARIANT StepsInOrder
