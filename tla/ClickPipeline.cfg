SPECIFICATION FairSpec
CONSTANTS
    Instances = {i1}
    Urls = {u1, u2}
    FlushSize = 2
    MaxBuffers = {1, 3}
    Attempts = 2
    MaxStalls = 1
    Slots = 2
    MaxClicks = 2
    MaxFaults = 1
INVARIANTS TypeOK CountsAreExact NothingVanishes
PROPERTIES PendingEnds
