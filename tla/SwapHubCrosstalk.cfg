SPECIFICATION Spec
CONSTANTS
    N = N
    P = P
    Q = Q
    a = a
    b = b
    c = c
    nP = nP
    nQ = nQ
    pN = pN
    qN = qN
    NoBudget = NoBudget
    Item <- MCItem
    Size <- MCSize
    Priority = {0}
    Device <- MCDevice
    Session <- MCSession
    Owner <- MCOwner
    Peer <- MCPeer
    Gossips <- MCDevice
    Capacity <- MCCapacity
    Unacceptable = {}
    MAX_OFFER_ITEMS = 3
    InitialStates <- MCInitialStates
CHECK_DEADLOCK FALSE
INVARIANT SentWasAccepted
