SPECIFICATION Spec
CONSTANTS
    a = a
    b = b
    d = d
    c1 = c1
    c2 = c2
    NoBudget = NoBudget
    Item <- MCItem
    Size <- MCSize
    Priority = {0}
    Caller <- MCCaller
    MaxTotalSlots = 4
    Capacities <- MCCapacities
    ConfiguredCapacity <- MCConfigured
SYMMETRY Symmetry
PROPERTY LockHolds
