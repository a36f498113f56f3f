CONSTANTS
    Requests = {r1}
    Experts <- OneExpert
    Selections <- One
    Wallets <- ThreeWallets
    None = None
    VramOf <- Vram
    Form <- Alike
    Primaries <- First
    Settled <- All
    Rogue <- Nobody
    Flaky <- All
    Ejectable <- Nobody
    MinVram = 8
    MaxRetries = 2
    MaxTokens = 2
    MaxCalls = 2
    MaxLeaves = 1
SPECIFICATION Spec
CHECK_DEADLOCK FALSE
INVARIANT TermsAreCurrent
