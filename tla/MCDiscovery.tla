---------------------------- MODULE MCDiscovery ----------------------------
EXTENDS Discovery, TLC
CONSTANTS h1, h2, h3, p

MCHost == {h1, h2, h3}
MCPeer == {p}
MCPeerAt == h1 :> p @@ h2 :> p @@ h3 :> NoPeer
MCOverlapping == {"web"}

ASSUME CallsAwaited
=============================================================================
