CONSTANTS
    s1 = s1  s2 = s2  q1 = q1  w1 = w1  a1 = a1  a2 = a2
    None = None
    Rows <- OneRow
    Requests <- OneRequest
    Wallets <- OneWallet
    RequestOf <- SameRequest
    WalletOf <- SameWallet
    Addrs <- TwoAddrs
    MaxRounds = 2
    Due = 1
    MinPayout = 1
    DbFails = FALSE
    MaxCrashes = 2
    MaxPayFaults = 1
SPECIFICATION FairSpec
PROPERTY ReceivedIsDecided
PROPERTY RevealedIsPaid
 
INVARIANT StrandedWasRevealed
