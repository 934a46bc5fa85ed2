SPECIFICATION FairSpec
CONSTANTS
    Blocks <- SomeBlocks
    MaxU32 <- SmallMax
    Envelopes <- EitherEnvelope
INVARIANTS
    TypeOK
    ConfirmedIsFinal
PROPERTY
    CheckReturns
