SPECIFICATION Spec
CONSTANTS
    hello = hello
    world = world
    fwd = fwd
    rev = rev
    None = None
    Contents = {hello, world}
    Orders <- MCOrders
    MaxCost = 2
    Nodes = {1, 2}
    MinCost = 1
    Announces <- MCAnnounces
    Attempts = {0, 2}
    StampCosts = {1}
    NodeCosts = {0, 1}
    MaxCalls = 2
    SenderHashLength = 2
    MaxMessageSize = 3
    Bytes = {0, 1}
CHECK_DEADLOCK FALSE
INVARIANT
    CompactSendable
