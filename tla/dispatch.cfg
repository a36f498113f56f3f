CONSTANTS
    r1 = r1  r2 = r2  w1 = w1  w2 = w2  c1 = c1  c2 = c2
    None = None
    Requests <- OneRequest
    Wallets <- OneWallet
    Conns <- TwoConns
    ShardRouted <- Nothing
    PriorRows <- Nothing
    Ejectable <- Nothing
    Described <- OneRequest
    Reauthorize = FALSE
    MaxPosts = 1
SPECIFICATION FairSpec
PROPERTY VanishedMinerReleased
PROPERTY PromptIsOffered
INVARIANT TypeOK
INVARIANT NoStrandedAssignment
INVARIANT RegistryLive
