CONSTANTS
    Cont = 32
    IntLimit = 1024
    FieldLimit = 16
    Authorities <- MCAuthorities
    Spares <- MCSpares
    Inputs <- MCInputs
SPECIFICATION Spec
INVARIANTS
    TypeOK
    NeverPanics
    FillsBuffer
    RoundTrip
    DecodesByGrammar
PROPERTIES
    CodecEnds
