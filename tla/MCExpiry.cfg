CONSTANTS
    t1 = t1
    t3 = t3
    None = None
    Txs = {t1, t3}
    Ttl <- SoonTtl
    Dual = {t1}
    Mute = {t3}
    Margin = 2
    Batch = 1
    Lag = 1
    Depth = 1
    LastSlot = 6
    Rounds = 6
    Hitches = 1
SPECIFICATION FairSpec
INVARIANTS
    ReleasedNeverLands
    BothOrNeither
PROPERTIES
    NobodyIsCrowdedOut
