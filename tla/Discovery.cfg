SPECIFICATION Spec
CONSTANTS
    Host <- MCHost
    Peer <- MCPeer
    PeerAt <- MCPeerAt
    NoPeer = NoPeer
    Overlapping <- MCOverlapping
    MaxStarts = 2
    h1 = h1
    h2 = h2
    h3 = h3
    p = p
CHECK_DEADLOCK FALSE
INVARIANT TypeOK
INVARIANT QuietAfterStop
PROPERTY ImplementsDiscoveryPort
PROPERTY AnsweringPeerFound
