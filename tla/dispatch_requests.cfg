CONSTANTS
    r1 = r1  r2 = r2  w1 = w1  w2 = w2  c1 = c1  c2 = c2
    None = None
    Requests <- TwoRequests
    Wallets <- TwoWallets
    Conns <- OneConn
    ShardRouted <- Second
    PriorRows <- Second
    Ejectable <- FirstWallet
    Described <- OneRequest
    Reauthorize = FALSE
    MaxPosts = 1
SPECIFICATION Spec
INVARIANT UnwrapNeverPanics
 
INVARIANT CreditedWasOffered
