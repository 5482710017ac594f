CONSTANTS
    Worker = {w1}
    Thread = {t1}
    MaxMessages = 2
    Retention = 2
    Cooldown = 1
    Settings <- Everyday
    Emails = {FALSE}
    Crashes = FALSE
    LastRead = 3
    LastCrash = 2
SPECIFICATION Spec

PROPERTIES ActiveIsNotPurged
CHECK_DEADLOCK FALSE
