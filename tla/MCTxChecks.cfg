CONSTANTS
    MaxFee = 1
    MaxRide = 1
    FEE_MAX = 1
    COLLATERAL_MAX = 1
    Authorised <- MCAuthorised
    Payments <- MCPayments
    Channels <- MCChannels
    NoOffer = NoOffer
    Offers <- MCOffers
    Deposits = {1}
    Steps <- MCSteps
SPECIFICATION ChecksSpec
INVARIANTS
    PaymentsCostWhatIsCounted
    StepsCostWhatTheyAreFor
CHECK_DEADLOCK FALSE
