CONSTANTS
    Worker = {w1, w2}
    Thread = {t1}
    MaxMessages = 3
    Retention = 2
    Cooldown = 1
    Settings <- Reported
    Emails = {TRUE}
    Crashes = TRUE
    LastRead = 0
    LastCrash = 2
SPECIFICATION Spec
SYMMETRY Symmetry
INVARIANTS NameIsEarned StopMeansStop
PROPERTIES ReplyMailsAreSpaced DecisionsStand
CHECK_DEADLOCK FALSE
