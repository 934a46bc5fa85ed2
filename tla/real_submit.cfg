SPECIFICATION FairSpec
CONSTANTS
    MaxRetries = 3
    Nonces <- NewOrUsed
INVARIANTS
    TypeOK
    PaidAtMostOnce
    PostsBounded
PROPERTY
    ImplementsPayment
    CallReturns
