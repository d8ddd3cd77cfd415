CONSTANTS
    a = a
    b = b
    w1 = w1
    mistyped = mistyped
    p1 = p1
    p2 = p2
    r1 = r1
    r2 = r2
    Unreadable = Unreadable
    Nothing = Nothing
    NoOne = NoOne
    OperatorToken = OperatorToken
    NoToken = NoToken
    Wallets = {w1}
    NotWords = {mistyped}
    Passphrases = {p1, p2}
    Requests = {r1, r2}
    Agents = {a, b}
    Environments <- MCEnvironments
    Busy <- MCBusy
    Policies <- MCPolicies
    Served <- MCServed
    MaxEdits = 2

SPECIFICATION Spec

SYMMETRY Symmetry

INVARIANTS
    LooseFilesAreSeen
    WordsAreNeverLost
    CleanHereStartsThere
    PolicyIsTheFile
    AuthorityIsTheTokens
    NobodyIsForgotten
    HeldForWhoWaits
    HandedOutIsRecorded

CHECK_DEADLOCK FALSE
