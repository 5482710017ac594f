CONSTANTS
    c1 = c1
    c2 = c2
    Chip = {c1, c2}
    NoChip = NoChip
    Field = {"status"}
    Verified = TRUE
    Links <- Pairs
    MaxCalls = 2
    MaxCard = 2
    MaxLost = 1
SPECIFICATION FairSpec
INVARIANTS PageShowsTheRow
PROPERTIES DoneMeansItOpens NoStickerTakenUnasked OnlyLinkedStickersAreWritten CardComesBack
CHECK_DEADLOCK FALSE
