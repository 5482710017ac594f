CONSTANTS
    Conv = 3
    Enabled = FALSE
    MaxTexts = 2
    MaxOwner = 2
    MaxFinder = 2
    MaxLost = 1
SPECIFICATION Spec
INVARIANTS NothingIsSentTwice ReadWasShown
CHECK_DEADLOCK FALSE
