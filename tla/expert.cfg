CONSTANTS
    Requests = {r1}
    Experts <- TwoExperts
    Selections <- OneOrTwo
    Wallets <- FourWallets
    None = None
    VramOf <- Vram
    Form <- Forms
    Primaries <- First
    Settled <- All
    Rogue <- Second
    Flaky <- OneAndThree
    Ejectable <- Fourth
    MinVram = 16
    MaxRetries = 1
    MaxTokens = 1
    MaxCalls = 1
    MaxLeaves = 1
SPECIFICATION FairSpec
CHECK_DEADLOCK FALSE
INVARIANT TypeOK
 
INVARIANT TermsWereAsked
PROPERTY JoinEnds
