CONSTANTS
    Worker = {w1, w2}
    Browser = {b1, b2}
    AddressOf <- OneAddress
    Event = {e1, e2, e3}
    DedupWindow = 1
    Cooldown = 2
    Retention = 2
    Watched = 1
    Codes = {TRUE}
    Status = {}
    Disclosure = {}
    Notify = {}
    Crashes = TRUE
    MaxReads = 2
    MaxTime = 4
SPECIFICATION Spec
SYMMETRY Symmetry
INVARIANTS TypeOK ScansAreDeduplicated
PROPERTIES MailsAreSpaced SharedPlacesAreKept
CHECK_DEADLOCK FALSE
