CONSTANTS
    MaxAttempts = 2
    Length = 2
    r1 = r1
    Code = {r1}
    NoCode = NoCode
    Ticket <- Tickets
    Enabled = TRUE
    MaxTries = 3
    MaxOther = 1
    MaxLost = 1
SPECIFICATION FairSpec
INVARIANTS GuessesAreBounded RecoveryCodesAreScarce
PROPERTIES TokensAreSentOnce CheckInEnds
CHECK_DEADLOCK FALSE
