SPECIFICATION FairSpec
CONSTANTS
    rpcx = rpcx
    rpc = rpc
    alias = alias
    private = private
    malformed = malformed
    Url <- Urls
    Reachable <- Answering
    Rpcx <- rpcx
    Rpc <- rpc
    Names <- HostNames
    NodeUrls <- SomeNodeUrls
    BackupUrls <- SomeBackups
    AccountCounts <- NoneOrTwo
    Kinds <- AmountOrCall
    Amounts <- TwoAmounts
    MaxTx = 3
INVARIANTS
    TypeOK
    FailoverInOrder
    RefusedOnlyIfDown
    PanicOnlyWithoutAccounts
    RoundsAreDistinct
    ScriptsBeforeRun
    ExitTellsOutcome
PROPERTY
    ImplementsSummary
    OnlyRunWaits
