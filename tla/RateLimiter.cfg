SPECIFICATION Spec
CONSTANTS
    Instances = {i1}
    Requests = {r1, r2}
    Limiters <- AllLimiters
    Window = 2
    Limit = 2
    Latency = 1
    MaxLate = 1
SYMMETRY Symmetry
INVARIANTS TypeOK NoDoubleBurst NoLockout MissesBlock
