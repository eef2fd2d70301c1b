SPECIFICATION Spec
CONSTANTS
    Window = 2
    Interval = 2
    MaxInterval = 7
    Multiplier = 2
    EmptyWindows = 2
    StartCallback <- MCStartCallback
    EndCallback <- MCEndCallback
INVARIANT TypeOK
INVARIANT OneChain
INVARIANT IntervalFollowsSilence
PROPERTY KeepsScanning
