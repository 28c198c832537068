SPECIFICATION Spec
CONSTANTS
    Tabs = {t1}
    Thieves = {}
    Grace = 4
    AccessTtl = 5
    SessionTtl = 7
    Latency = 1
    Faults = {}
    MaxSid = 1
    MaxJti = 3
    MaxNow = 8
CHECK_DEADLOCK FALSE
INVARIANT ExpiredIsNotAnonymous
