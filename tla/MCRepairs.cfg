SPECIFICATION Spec
CONSTANTS
    Features = {"mv", "q_sign"}
    Slots <- MCSlots
    Carriers <- MCCarriers
    Traps <- MCTraps
    Orders <- MCOrders
    Requests <- MCRequests
    Again = {}
    Kinds = {"video"}
    Keys = {k1}
    MaxLocks = 1
    MayCrash = FALSE
    None = None
    Torn = Torn
    Reshape = Reshape
INVARIANTS
    RepairsSuffice
CHECK_DEADLOCK FALSE
