\* An access point with a driver that may answer from a template.
SPECIFICATION Spec
CONSTANTS
    APs = {ap1}
    Offloading = {ap1}
    c1 = c1
    c2 = c2
    sta = sta
    NoData = NoData
    MaxRelays = 3
    Requests <- MCRequests
INVARIANTS
    TypeOK
    AckAfterRelay
    AckConservation
