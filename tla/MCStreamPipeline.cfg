SPECIFICATION FairSpec
CONSTANTS
    N = 6
    Workers = 2
    FaultyIO = TRUE
INVARIANTS
    TypeOK
    WrittenInOrder
    InFlightBounded
    FailureIsReported
    ReturnIsClean
PROPERTIES
    Terminates
    ImplementsOrderedPipe
