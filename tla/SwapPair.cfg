SPECIFICATION FairSpec
CONSTANTS
    A = A
    B = B
    a = a
    b = b
    c = c
    d = d
    e = e
    sA = sA
    sB = sB
    NoBudget = NoBudget
    Item <- MCItem
    Size <- MCSize
    Priority = {0}
    Device <- MCDevice
    Session <- MCSession
    Owner <- MCOwner
    Peer <- MCPeer
    Gossips <- MCDevice
    Capacity <- MCCapacity
    Unacceptable = {e}
    MAX_OFFER_ITEMS = 1
    InitialStates <- MCInitialStates
CHECK_DEADLOCK FALSE
INVARIANT TypeOK
INVARIANT SentWasAccepted
INVARIANT RevokedNotTakenIn
PROPERTY RevocationApplied
PROPERTY LockedStaysHome
PROPERTY FollowsStateMachine
PROPERTY EverySwapEnds
PROPERTY UndisturbedSwapsComplete
