SPECIFICATION FairSpec
CONSTANTS
    Instances = {i1}
    Requests = {r1}
    Writers = {w1}
    Delay = 1
    UrlTtl = 1
    NegTtl = 1
    Grace = 2
    AnonymousMax = 3
    Users = {TRUE, FALSE}
    Latency = 1
    Faults = {"skip", "timeout", "lose", "database", "crash"}
    Expiries = {Never}
    MaxWrites = 2
    MaxNow = 4
    MaxPipe = 1
    Never = Never
    NoRow = NoRow
    NoEntry = NoEntry
    NoFlight = NoFlight
    Nobody = Nobody
INVARIANTS NoOldTarget
PROPERTIES StalenessWithinTtl RequestsEnd
