SPECIFICATION FairSpec
CONSTANTS
    Calls = {c1, c2, c3, c4}
    FailureThreshold = 3
    WindowMs = 2
    OpenMs = 4
    CallMs = 3
INVARIANTS TypeOK OneProbe NoStragglers
PROPERTIES OpensAtThreshold Recovers
