\* One message of two frames, two access points.
SPECIFICATION Spec
CONSTANTS
    Clients = {c1}
    APs = {ap1, ap2}
    Stations = {}
    FailingAPs = {}
    LineLens = {3}
    UninitLens = {}
    FragMax = 2
    CsvRoom = 1
    ScanRetries = 1
    AckRetries = 2
    MaxMsgs = 1
    MaxRelays = 2
    MaxAir = 1
    NoData = NoData
SYMMETRY APSymmetry
INVARIANTS
    RowsFitTogether
    GuaranteedDelivery
\* A client that has sent its messages waits at its prompt.
CHECK_DEADLOCK FALSE
