SPECIFICATION Spec
CONSTANTS
    p0 = p0
    p1 = p1
    gov = gov
    elsewhere = elsewhere
    ParamValues <- MCParamValues
    Default = p0
    Absent = Absent
    LeftOut = LeftOut
    Malformed = Malformed
    Failed = Failed
    None = None
    Addresses <- MCAddresses
    NoAddress = NoAddress
    GovAddress = gov
    Blocks <- MCBlocks
    MaxBlocks = 3
    MaxCrashes = 1
    MaxChains = 1
INVARIANT TypeOK
PROPERTIES
    ImplementsLedger
    ExportsExplained
    CatchesUp
CHECK_DEADLOCK FALSE
