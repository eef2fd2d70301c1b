---------------------------- MODULE MCNodeStart ----------------------------
EXTENDS NodeStart
CONSTANTS h, k1, k2

MCHash == {h}
MCKey == {k1, k2}
=============================================================================
