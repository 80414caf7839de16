SPECIFICATION Spec
CONSTANTS
    stranger = stranger
    badAddr = badAddr
    Stranger = stranger
    BadAddr = badAddr
    Unit = 2
    NVals = 2
    NDels = 1
    ValOf <- MCOne
    PeriodCap = 1
    MaxVals = 2
    LastHeight = 1
    OldHeights = {1}
    NReds = 0
    NUbds = 0
    NEntries = 1
    AllowLists <- MCGoodLists
    Powers = {1, 2}
    MaxAmount = 0
INVARIANTS
    PrepCompletes
