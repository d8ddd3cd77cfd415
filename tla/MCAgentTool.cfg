CONSTANTS
    c1 = c1
    c2 = c2
    quote = quote
    report1 = report1
    NoTool = NoTool
    NoOne = NoOne
    Undefined = Undefined
    Calls = {c1, c2}
    Asks <- MCAsks
    Entries <- MCEntries
    Destinations <- MCDestinations
    MaxCharged = 3

SPECIFICATION Spec

SYMMETRY Symmetry

INVARIANTS
    PaymentsReachWhatIsAllowed
    ReportsTellTheSpend
    LostAnswersCostNothing

CHECK_DEADLOCK FALSE
