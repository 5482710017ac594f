CONSTANTS
    Worker = {w1}
    Thread = {t1}
    MaxMessages = 2
    Retention = 2
    Cooldown = 1
    Settings <- Named
    Emails = {FALSE}
    Crashes = FALSE
    LastRead = 3
    LastCrash = 2
SPECIFICATION Spec

INVARIANTS RetiredCodeNeverNames
CHECK_DEADLOCK FALSE
