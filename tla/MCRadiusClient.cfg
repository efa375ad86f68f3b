\* The limits of the code made small: the list fills, the identifiers wrap
\* over a pending request, the failover comes before the last retry.
SPECIFICATION FairSpec
CONSTANTS
    Addrs = {a}
    Secrets <- TwoAuth
    IdSpace = 3
    MaxEntries = 2
    MaxRetries = 3
    NumFailover = 1
    FirstWait = 1
    MaxWait = 2
    RetryInterval = 2
INVARIANTS
    TypeOK
    PendingIdsUnique
    CountCoversQueue
    TimelyTimer
    SecretCurrent
PROPERTY QueueDrains
