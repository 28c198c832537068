SPECIFICATION FairSpec
CONSTANTS
    Tabs = {t1, t2}
    Thieves = {h}
    Grace = 4
    AccessTtl = 5
    SessionTtl = 6
    Latency = 1
    Faults = {"db", "lost"}
    MaxSid = 1
    MaxJti = 3
    MaxNow = 7
CHECK_DEADLOCK FALSE
INVARIANTS TypeOK OnlyStrayedRevoked CurrentThenGrace
PROPERTIES RefreshEnds
