CONSTANTS
    s1 = s1
    s2 = s2
    None = None
    Shorts = {s1, s2}
    Start <- Folded
    Collateral = 2
    Collaterals = {2}
    TokenMin = 1
    TokenSlack = 1
    FeeMax = 1
    ChangeMin = 1
    MaxInputs = 3
    MinInterval = 2
    PayHold = 1
    PendingMs = 1
    LastTime = 2
    Payments = 1
    OperatorTidies = 1
SPECIFICATION FairSpec
INVARIANTS
    HoldsRespected
    TidyIsTidy
    AutoTidiesApart
PROPERTIES
    NotRunningForGood
CHECK_DEADLOCK FALSE
