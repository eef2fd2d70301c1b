--------------------------- MODULE MCBleTransport ---------------------------
EXTENDS BleTransport, TLC
CONSTANTS A, B, c

MCDevice == {A, B}
MCCaller == {c}
MCMtu == {4, 6}
MCSizes == {0, 3}
MCMaxMessages == A :> 2 @@ B :> 1
=============================================================================
