SPECIFICATION Spec
CONSTANTS
    Blocks <- SomeBlocks
    MaxU32 <- SmallMax
    Envelopes <- NoEnvelope
INVARIANT
    FinalizedIsFound
