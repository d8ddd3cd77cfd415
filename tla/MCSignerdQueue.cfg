CONSTANTS
    r1 = r1
    r2 = r2
    a = a
    b = b
    shop = shop
    Requests = {r1, r2}
    Agents = {a}
    Operators = {o1, o2}
    Releaser = Releaser
    UTxOs = {u1}
    Q <- DearQ
    Policies <- RoomForBoth
    Unreadable = Unreadable
    Edits = {}
    Overheads = {1}
    Hold = 0
    Lovelace = "lovelace"
    Day = 1
    Hour = 1
    Mainnet = FALSE
    MaxTime = 2
    NoBill = NoBill
    NoOne = NoOne
SPECIFICATION Spec
SYMMETRY Symmetry
INVARIANTS
    HeldForTheQueue
    SignedOnce
    NoneQueuedForTheGone
    CapHolds
