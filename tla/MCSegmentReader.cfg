SPECIFICATION ReaderSpec
CONSTANTS
    Byte = {0, 1}
    Marker <- MCMarker
    MaxFed = 9
    MaxChunk = 4
INVARIANTS
    ReaderTypeOK
    SplitsLikeWhole
CHECK_DEADLOCK FALSE
