---------------------------- MODULE MCEncounters ----------------------------
EXTENDS Encounters
CONSTANTS n, q

MCPeer == {n, q}
MCNode == {n}
=============================================================================
