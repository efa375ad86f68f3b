\* One client, messages of up to three fragments, both delivery efforts.
SPECIFICATION FairSpec
CONSTANTS
    Clients = {c1}
    LineLens = {0, 1, 4}
    UninitLens = {0, 5}
    FragMax = 2
    ScanRetries = 2
    AckRetries = 2
    MaxMsgs = 2
    Dumps <- MCDumps
INVARIANTS
    TypeOK
    Tiling
    RetryBudget
    SocketBalance
    FreshAck
    AckedPrefix
    AttemptNumbering
PROPERTY MessageEnds
\* After MaxMsgs messages, or a bad command line, a client stops.
CHECK_DEADLOCK FALSE
