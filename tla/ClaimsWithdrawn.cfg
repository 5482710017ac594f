CONSTANTS
    Claim = {1}
    MaxOpenClaims = 1
    MaxClicks = 2
    MaxLost = 0
SPECIFICATION FairSpec
INVARIANTS WithdrawnIsDead
CHECK_DEADLOCK FALSE
