SPECIFICATION FairLinksSpec
CONSTANTS
    ListPages = {1, 2}
    Limit = 1
    Initial = 2
    MaxCode = 3
    MaxOps = 2
    MaxTurns = 2
    MaxLosses = 1
    NoData = NoData
INVARIANTS LinksTypeOK GhostIsDoomed SettledIsServer
PROPERTIES DeletedRowLeaves
CHECK_DEADLOCK FALSE
