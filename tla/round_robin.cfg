CONSTANTS
    Wallets = {w1, w2, w3}
    None = None
SPECIFICATION Spec
PROPERTY NobodyStarves
