CONSTANTS
    Worker = {w1, w2}
    Browser = {b1, b2}
    AddressOf <- OneHidden
    Event = {e1, e2}
    DedupWindow = 0
    Cooldown = 1
    Retention = 1
    Watched = 1
    Codes = {FALSE}
    Status = {"safe", "lost"}
    Disclosure = {}
    Notify = {}
    Crashes = TRUE
    MaxReads = 2
    MaxTime = 1
SPECIFICATION FairSpec
INVARIANTS NoReadIsInvented ReadsAreMissedOnlyByRace
PROPERTIES EveryEventIsPurged
CHECK_DEADLOCK FALSE
