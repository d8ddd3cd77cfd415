CONSTANTS
    r1 = r1
    r2 = r2
    a = a
    b = b
    shop = shop
    Requests = {r1, r2}
    Agents = {a, b}
    Operators = {o1}
    Releaser = Releaser
    UTxOs = {u1}
    Q <- CheapAndDearQ
    Policies <- OnePolicy
    Unreadable = Unreadable
    Edits <- OnePolicyOrNone
    Overheads = {1}
    Hold = 1
    Lovelace = "lovelace"
    Day = 2
    Hour = 1
    Mainnet = FALSE
    MaxTime = 0
    NoBill = NoBill
    NoOne = NoOne
SPECIFICATION FairSpec
INVARIANTS
    NoSharedInput
PROPERTIES
    ImplementsJournal
    EveryRequestIsAnswered
    ExpiredIsReleased
