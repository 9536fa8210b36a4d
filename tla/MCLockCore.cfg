SPECIFICATION Spec
CONSTANTS
    Features <- MCFeatures
    Slots <- MCSlots
    Carriers <- MCCarriers
    Traps <- MCTraps
    Orders <- MCOrders
    Requests <- MCRequests
    Again <- MCAgain
    Kinds = {"video", "audio"}
    Keys = {k1, k2}
    MaxLocks = 2
    MayCrash = TRUE
    None = None
    Torn = Torn
    Reshape = Reshape
SYMMETRY Symmetry
INVARIANTS
    TypeOK
    UnlockRestores
    ShippedIsScrambled
    ProvenNeverMismatch
    SignedManifestVerifies
PROPERTIES
    RefusedLeavesNoOutput
CHECK_DEADLOCK FALSE
