SPECIFICATION Spec
CONSTANTS
    Streams <- MCStreams
    Formats <- MCFormats
    Quant <- MCQuant
    Plans <- MCPlans
    Layers <- MCLayers
    MaxChunk = 3
    None = None
INVARIANTS
    TypeOK
    ReaderLikeWhole
    LockedFramesAreLegal
    MisframedOnlyByOverlap
