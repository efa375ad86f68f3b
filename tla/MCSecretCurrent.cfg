\* Two accounting servers with different secrets.
SPECIFICATION Spec
CONSTANTS
    Addrs = {a}
    Secrets <- TwoAcct
    IdSpace = 3
    MaxEntries = 2
    MaxRetries = 3
    NumFailover = 1
    FirstWait = 1
    MaxWait = 2
    RetryInterval = 2
INVARIANT SecretCurrent
