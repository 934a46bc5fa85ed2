SPECIFICATION FairSpec
CONSTANTS
    MaxReconnect <- Attempts
    MaxCalls <- ThreeCalls
INVARIANTS
    TypeOK
    CompleteOrError
PROPERTY
    CallEnds
