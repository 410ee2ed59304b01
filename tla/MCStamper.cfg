SPECIFICATION FairSpec
CONSTANTS
    w1 = w1
    w2 = w2
    w3 = w3
    Workers = {w1, w2, w3}
    Bytes = 2
    ByteBits = 2
    Costs <- MCCosts
CHECK_DEADLOCK FALSE
INVARIANTS
    NoSendAfterClose
    NotFoundOnlyIfStopped
    ReturnedMeetsCost
PROPERTIES
    WorkersEnd
