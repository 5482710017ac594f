CONSTANTS
    Token = {1}
    Enabled = TRUE
    MaxCalls = 0
    MaxAnonymous = 1
    MaxLost = 0
SPECIFICATION FairAccounts
PROPERTIES ResendReturns
CHECK_DEADLOCK FALSE
