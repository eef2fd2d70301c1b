SPECIFICATION Spec
CONSTANTS
    Hash <- MCHash
    Key <- MCKey
    h = h
    k1 = k1
    k2 = k2
    MaxStarts = 3
CHECK_DEADLOCK FALSE
INVARIANT TypeOK
INVARIANT ReadsWhatWasSaved
INVARIANT OneIdentity
