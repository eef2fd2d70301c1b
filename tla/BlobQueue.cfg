SPECIFICATION Spec
CONSTANTS
    x = x
    y = y
    c1 = c1
    c2 = c2
    Blob <- MCBlob
    Caller <- MCCaller
    Overlapping = FALSE
    BaseDelay = 1
    MaxDelay = 2
    MaxAttempts = 2
    MaxTime = 1
    MaxQueue = 2
SYMMETRY Symmetry
INVARIANT TypeOK
INVARIANT NothingForgotten
PROPERTY NeverGivesUpEarly
