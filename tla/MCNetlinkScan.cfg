\* Two radios, other programs scanning on both, a queue of three messages.
SPECIFICATION FairSpec
CONSTANTS
    Radios = {wlan0, wlan1}
    MyRadio = wlan0
    QueueMax = 3
    MaxCalls = 2
INVARIANTS
    RefusedIsReported
    ExactWhenAlone
PROPERTY CallReturns
\* After MaxCalls calls and the end of every scan nothing need happen.
CHECK_DEADLOCK FALSE
