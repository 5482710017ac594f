CONSTANTS
    s1 = s1
    s2 = s2
    AppTab = {a1, a2}
    ScanTab = {s1, s2}
    Scans <- Two
    Logins = 1
SPECIFICATION FairSpec
INVARIANTS OwnerIsNotAnnounced HandedOffWasTaken
PROPERTIES ScanSettles ImplementsScanDecision
CHECK_DEADLOCK FALSE
