SPECIFICATION Spec
CONSTANTS
    Carriers <- MCCarriers
    Options <- MCOptions
    PsiPeriod = 2
    TimeBits = 3
    Workers = 2
    MaxStray = 1
    MayDamage = TRUE
    None = None
    Plain = Plain
    Noise = Noise
INVARIANTS
    TypeOK
    DemuxReassembles
    LockedKeepsUnits
    ExactIffInOrder
    DamageStaysLocal
