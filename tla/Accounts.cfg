CONSTANTS
    Token = {1, 2}
    Enabled = TRUE
    MaxCalls = 2
    MaxAnonymous = 3
    MaxLost = 1
SPECIFICATION FairAccounts
INVARIANTS PagesTellTheTruth
PROPERTIES PagesComeToRest
CHECK_DEADLOCK FALSE
