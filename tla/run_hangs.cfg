SPECIFICATION FairSpec
CONSTANTS
    h1 = h1
    h2 = h2
    h3 = h3
    Hash <- TwoHashes
    Capacity = 1
    MaxInFlight = 2
    Interval = 0
    Duration = 1
    Grace = 1
    WaitCap = 7200
    CollectorWait = 1
    CheckDelay = 0
    TxTimeout = 1
    MaxWait = 2
    BatchSize = 1
    AccountCounts <- SomeAccounts
    CheckOutcomes <- Answers
    Repeats <- NoHash
    MaxTx = 2
    MaxTasks = 1
    MaxQueue = 2
    Horizon = 3
CHECK_DEADLOCK FALSE
PROPERTY
    RunReturns
