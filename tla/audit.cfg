CONSTANTS
    r1 = r1  r2 = r2  w1 = w1  w2 = w2
    None = None
    Receipts <- TwoReceipts
    Wallets <- TwoWallets
    MinerOf <- OneMiner
    Trusted <- TrustedList
    EjectAfter = 2
    MaxDbFaults = 1
    MaxCrashes = 1
SPECIFICATION FairSpec
INVARIANT TypeOK
INVARIANT VerdictsAreTrusted
INVARIANT NoStaleDispatch
INVARIANT PunishedWasDivergent
INVARIANT EjectedIsRepeatOffender
PROPERTY SampledIsAudited
INVARIANT EscapesOnlyByFault
