SPECIFICATION Spec
CONSTANTS
    Coins = 2
    NewTokens = 3
    Fund = 1
    LeftOuts <- MCLeftOuts
    SupplyCap = 3
    ClaimCap = 2
    HeightCap = 1
INVARIANTS
    ExportsStart
