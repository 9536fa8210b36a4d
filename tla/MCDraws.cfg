\* Lists of up to five shuffled from anywhere in a block of three bytes.
SPECIFICATION DrawSpec
CONSTANTS
    BlockLen = 3
    MaxRead = 7
    MaxHanded = 14
    ByteBits = 2
    MaxSize = 5
INVARIANTS
    DrawTypeOK
    ReadsAreContiguous
    DrawsAreUniform
CHECK_DEADLOCK FALSE
