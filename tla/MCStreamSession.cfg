\* One or two transmissions of five GOPs in all, joined late and with losses.
SPECIFICATION Spec
CONSTANTS
    MaxRuns = 2
    MaxGops = 5
    GopLengths = {1, 2}
    GroupSizes = {0, 2}
    Firsts = {1}
    MaxLosses = 2
    MaxLate = 2
    None = None
INVARIANTS
    TypeOK
    NoKeystreamReuse
    InStepReceiverRestores
    OutOfStepForGood
CHECK_DEADLOCK FALSE
