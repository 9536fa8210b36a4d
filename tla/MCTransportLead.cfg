SPECIFICATION Spec
CONSTANTS
    Carriers <- LeadingCarriers
    Options <- MCOptions
    PsiPeriod = 2
    TimeBits = 3
    Workers = 2
    MaxStray = 1
    MayDamage = FALSE
    None = None
    Plain = Plain
    Noise = Noise
INVARIANTS
    EveryUnitComesBack
