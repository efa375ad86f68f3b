\* Two clients and a station share an access point where tcpclient may fail.
SPECIFICATION Spec
CONSTANTS
    Clients = {c1, c2}
    APs = {ap1}
    Stations = {sta}
    FailingAPs = {ap1}
    LineLens = {1}
    UninitLens = {}
    FragMax = 2
    CsvRoom = 2
    ScanRetries = 1
    AckRetries = 2
    MaxMsgs = 1
    MaxRelays = 1
    MaxAir = 1
    NoData = NoData
SYMMETRY ClientSymmetry
INVARIANT AckHasSource
PROPERTY ClientRefined
\* A client that has sent its messages waits at its prompt.
CHECK_DEADLOCK FALSE
