CONSTANTS
    MaxNodes = 2
    MaxRuns = 1
    Counts <- MCTwo
    StakeLists <- MCOneStake
    PortLists <- MCNoPorts
    GasPrices = {"0.0001stake", "0.001stake"}
    DefaultGas = "0.0001stake"
    Malformed = malformed
    Remainders <- MCNothing
    malformed = malformed
    Balance = 500
    DefaultStake = 100
SPECIFICATION Spec
INVARIANT InvalidStakeDefaults
