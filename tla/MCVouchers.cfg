CONSTANTS
    r1 = r1
    r2 = r2
    r3 = r3
    a = a
    b = b
    shop = shop
    Agents = {a}
    Requests = {r1, r2, r3}
    Q <- OneAgentQ
    Channels = {c1, c2}
    Asset = "lovelace"
    Policies <- ThreeOrTwo
    Deposits = {1}
    MaxSigned = 3
    Losses = {"kill", "powercut", "records"}
    NoEntry = NoEntry
    NoOne = NoOne
    Lovelace = "lovelace"
    Day = 2
    Hour = 1
    Mainnet = FALSE
SPECIFICATION Spec
SYMMETRY Symmetry
INVARIANTS
    RedeemableIsCounted
    NoUnitIsCountedTwice
    IndexKnowsTheMost
    VouchersWithinCap
    VoucherHoldsMatch
    LockedWithinLimit
