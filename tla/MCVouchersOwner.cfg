CONSTANTS
    r1 = r1
    r2 = r2
    r3 = r3
    a = a
    b = b
    shop = shop
    Agents = {a, b}
    Requests = {r1, r2}
    Q <- TwoAgentsQ
    Channels = {c1}
    Asset = "lovelace"
    Policies <- RoomForThree
    Deposits = {1}
    MaxSigned = 3
    Losses = {"kill", "records"}
    NoEntry = NoEntry
    NoOne = NoOne
    Lovelace = "lovelace"
    Day = 2
    Hour = 1
    Mainnet = FALSE
SPECIFICATION Spec
PROPERTIES
    ChannelStaysItsOwners
