CONSTANTS
    w1 = w1  w2 = w2
    None = None
    Wallets <- TwoWallets
    Early <- OneWallet
    Tokens = {0, 1}
    Greedy <- Path
    NumShards = 2
    PromptLen = 1
    EmptyLen = 1
    MaxTokens = 3
    MaxDraft = 2
    MaxTrouble = 1
SPECIFICATION FairSpec
CHECK_DEADLOCK FALSE
INVARIANT TypeOK
INVARIANT Lossless
INVARIANT SoleMinerStaysInStep
 
