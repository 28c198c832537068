SPECIFICATION FairSpec
CONSTANTS
    i1 = i1
    i2 = i2
    c1 = c1
    c2 = c2
    c3 = c3
    Instances = {i1, i2}
    Callers = {c1, c2, c3}
    Host <- MCHost
    BlockSize = 2
    MaxSeq = 6
    NoCaller = NoCaller
INVARIANTS TypeOK
PROPERTIES RefinesUniqueIds NoBlockBurned CallsEnd
