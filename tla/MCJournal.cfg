CONSTANTS
    Bills <- OnePayment
    Ids = {i1}
    Lovelace = "lovelace"
    Day = 2
    MaxTime = 3
    NoBill = NoBill
SPECIFICATION Spec
CHECK_DEADLOCK FALSE
INVARIANTS
    HandedOutIsCounted
    NothingElseIsCounted
    MemoryMatchesDisk
    LogKnowsWhoWaits
