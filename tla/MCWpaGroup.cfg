\* Every message is sent twice if need be, and both copies may be on the air.
SPECIFICATION TimerSpec
CONSTANTS
    s1 = s1
    s2 = s2
    Stations = {s1, s2}
    PairwiseCount = 2
    GroupCount = 2
    MaxAir = 2
    Budgets <- MCBudgets
    DriverMayFail = FALSE
INVARIANTS TypeOK CountExact KeysAgree
PROPERTIES UpdatedHasGtk RekeyEndsOrSilent
\* When the budget is used up and no timeout is left, nothing happens.
CHECK_DEADLOCK FALSE
