SPECIFICATION Spec
CONSTANTS
    Peer <- MCPeer
    Node <- MCNode
    n = n
    q = q
    MaxEvents = 2
    Window = 2
    SwappableSlots = 2
    MaxAge = 2
    MaxTime = 3
    MaxAttempts = 4
INVARIANT TypeOK
INVARIANT NoBurst
INVARIANT ForgetsNothingRecent
PROPERTY ForgivenByReciprocity
