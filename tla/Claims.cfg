CONSTANTS
    Claim = {1, 2, 3}
    MaxOpenClaims = 2
    MaxClicks = 3
    MaxLost = 1
SPECIFICATION FairSpec
INVARIANTS PrintedDesignIsShown
PROPERTIES WithdrawnStaysWithdrawn CodesReachTheirBuyer
CHECK_DEADLOCK FALSE
