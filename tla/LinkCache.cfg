SPECIFICATION Spec
CONSTANTS
    Instances = {i1, i2}
    Requests = {r1}
    Writers = {w1, w2}
    Delay = 3
    UrlTtl = 6
    NegTtl = 2
    Grace = 4
    AnonymousMax = 3
    Users = {TRUE}
    Latency = 1
    Faults = {}
    Expiries = {Never, 2}
    MaxWrites = 2
    MaxNow = 6
    MaxPipe = 3
    Never = Never
    NoRow = NoRow
    NoEntry = NoEntry
    NoFlight = NoFlight
    Nobody = Nobody
SYMMETRY Symmetry
INVARIANTS TypeOK StaleIsDoomed
PROPERTIES BoundedStaleness
