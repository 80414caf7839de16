CONSTANTS
    MaxNodes = 3
    MaxRuns = 2
    Counts <- MCCounts
    StakeLists <- MCStakes
    PortLists <- MCPorts
    GasPrices = {"0.0001stake"}
    DefaultGas = "0.0001stake"
    Malformed = malformed
    Remainders <- MCRemainders
    malformed = malformed
    Balance = 500
    DefaultStake = 100
SPECIFICATION Spec
INVARIANT TypeOK
INVARIANT OneChain
INVARIANT GenesisComplete
INVARIANT OperatorsHaveKeys
INVARIANT ListenersApart
INVARIANT PeersReachable
INVARIANT SuccessExplained
