SPECIFICATION MCSpec
CONSTANTS
    stranger = stranger
    badAddr = badAddr
    Stranger = stranger
    BadAddr = badAddr
    NVals = 3
    NDels = 3
    ValOf <- MCThree
    Unit = 2
    PeriodCap = 2
    MaxVals = 2
    LastHeight = 1
    OldHeights = {1}
    NReds = 1
    NUbds = 1
    NEntries = 2
    AllowLists <- MCLists
    Powers = {0, 1}
    MaxAmount = 3
INVARIANTS
    TypeOK
    LedgerBalanced
    RefCountsMatch
    StartsDistinct
    NoFault
    DistrGenesisValid
    ListDecidesExport
    HeightsReset
    ExportedCanSign
PROPERTIES
    StepsBalanceBooks
    ValidatorSetKept
    ExportReturns
