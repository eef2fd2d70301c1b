SPECIFICATION BleSpec
CONSTANTS
    Device <- MCDevice
    Caller <- MCCaller
    Mtu <- MCMtu
    Sizes <- MCSizes
    MaxMessages <- MCMaxMessages
    MaxConnects = 2
    A = A
    B = B
    c = c
INVARIANT BleTypeOK
INVARIANT WholeAndInOrder
PROPERTY EveryBleSendEnds
