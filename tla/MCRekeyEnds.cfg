\* One station; the access point replaces the GTK and the station asks for a new one.
SPECIFICATION FairSpec
CONSTANTS
    s1 = s1
    s2 = s2
    Stations = {s1}
    PairwiseCount = 1
    GroupCount = 1
    MaxAir = 1
    Budgets <- MCTwoRekeys
    DriverMayFail = FALSE
PROPERTY RekeyEnds
\* When the budget is used up and no timeout is left, nothing happens.
CHECK_DEADLOCK FALSE
