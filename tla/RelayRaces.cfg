CONSTANTS
    Worker = {w1, w2}
    Thread = {t1}
    MaxMessages = 2
    Retention = 2
    Cooldown = 1
    Settings <- Reported
    Emails = {FALSE}
    Crashes = TRUE
    LastRead = 4
    LastCrash = 1
SPECIFICATION FairSpec
INVARIANTS MessageLimit LateMessagesAreFew UnreadIsNeverLost
PROPERTIES EveryConversationEnds
CHECK_DEADLOCK FALSE
