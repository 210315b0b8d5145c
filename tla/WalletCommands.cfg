CONSTANTS
    x = x
    y = y
    Commands <- MCCommands
    Runs <- MCRuns
    Wallets = 2
    Amount = 2
    Gas = 1
    Funds = 5
    MaxOwed = 2
    MaxPolls = 2
SPECIFICATION Spec
INVARIANTS
    TypeOK
    NoNonceGap
    ClaimReportIsLowerBound
    NothingSentIsLost
PROPERTY SentArePaid
CHECK_DEADLOCK FALSE
