SPECIFICATION FairSpec
CONSTANTS
    Users = {anna, ben}
    Former = anna
    Data = {d1, d2}
    MaxSid = 2
    MaxExpiry = 1
    MaxMoves = 2
    MaxFaults = 1
    Nobody = Nobody
INVARIANTS TypeOK NothingOfOthers
PROPERTIES LiveSessionServes WaitingEnds GuestLeaves
CHECK_DEADLOCK FALSE
