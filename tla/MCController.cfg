\* Two slots for three connections: one may be left out.
SPECIFICATION FairSpec
CONSTANTS
    p1 = p1
    p2 = p2
    p3 = p3
    Procs = {p1, p2, p3}
    RecordOf <- MCRecordOf
    MaxClients = 2
    Backlog = 2
    FdLimit = 3
INVARIANTS
    TypeOK
    NeverBlocksInRead
    SlotsConsistent
    ReadMeansStored
PROPERTIES
    ImplementsSink
    RecordsRead
    TcpClientEnds
\* When every tcpclient is done the controller waits in select.
CHECK_DEADLOCK FALSE
