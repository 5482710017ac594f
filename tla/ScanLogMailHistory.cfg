CONSTANTS
    Worker = {w1}
    Browser = {b1}
    AddressOf <- OwnAddresses
    Event = {e1, e2}
    DedupWindow = 1
    Cooldown = 2
    Retention = 2
    Watched = 1
    Codes = {FALSE, TRUE}
    Status = {"safe", "lost"}
    Disclosure = {"always", "on_reply"}
    Notify = {}
    Crashes = FALSE
    MaxReads = 3
    MaxTime = 4
SPECIFICATION Spec
SYMMETRY Symmetry
INVARIANTS MailAgreesWithHistory
CHECK_DEADLOCK FALSE
