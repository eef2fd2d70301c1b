SPECIFICATION FairSpec
CONSTANTS
    p1 = p1
    p2 = p2
    h1 = h1
    h2 = h2
    None = None
    Poll <- MCPoll
    Handshake <- MCHandshake
    MaxDown = 2
    MaxUp = 2
    MaxDisturbances = 2
CHECK_DEADLOCK FALSE
INVARIANT TypeOK
INVARIANT QueueOrPoll
INVARIANT OnePoller
INVARIANT ReceivedInOrder
PROPERTY EverySendEnds
PROPERTY QueuedIsFetched
