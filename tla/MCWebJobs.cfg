\* Up to four requests of a page in every overlap, with sweeps throughout.
SPECIFICATION VisitedSpec
CONSTANTS
    MaxPrepares = 2
    MaxLocks = 2
    MaxUnlocks = 1
    MaxFetches = 1
    MaxRequests = 4
    Viewers = {w1}
    None = None
INVARIANTS TypeOK PassedLockRestores HandedOverIsExact
PROPERTY AbandonedIsDeleted
CHECK_DEADLOCK FALSE
