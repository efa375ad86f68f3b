\* One client, two messages.
SPECIFICATION Spec
CONSTANTS
    Clients = {c1}
    APs = {ap1}
    Stations = {sta}
    FailingAPs = {}
    LineLens = {1}
    UninitLens = {}
    FragMax = 2
    CsvRoom = 2
    ScanRetries = 1
    AckRetries = 2
    MaxMsgs = 2
    MaxRelays = 2
    MaxAir = 1
    NoData = NoData
INVARIANT GuaranteedDelivery
\* A client that has sent its messages waits at its prompt.
CHECK_DEADLOCK FALSE
