----------------------------- MODULE MCSwapPair -----------------------------
(* SwapService between two devices A and B, one swap each.  A starts over  *)
(* its capacity, or with nothing; B holds a locked item besides what it    *)
(* offers, and has a byte budget that item c does not fit.  The token of   *)
(* item e cannot be verified.                                              *)
EXTENDS SwapService, TLC

CONSTANTS A, B, a, b, c, d, e, sA, sB

MCItem == {a, b, c, d, e}
MCSize == [i \in MCItem |-> IF i = c THEN 2 ELSE 1]
MCDevice == {A, B}
MCSession == {sA, sB}
MCOwner == [s \in MCSession |-> IF s = sA THEN A ELSE B]
MCPeer == [s \in MCSession |-> IF s = sA THEN B ELSE A]

Cap(lockable, swappable, bytes) ==
    [maxLockableSlots |-> lockable, swappableSlots |-> swappable, maxTotalBytes |-> bytes]

MCCapacity == [x \in MCDevice |-> IF x = A THEN Cap(1, 1, NoBudget) ELSE Cap(1, 2, 3)]

Holding(swappable, locked) ==
    [i \in swappable \cup locked |-> [locked |-> i \in locked, priority |-> 0]]

OnDevices(atA, atB) == [x \in MCDevice |-> IF x = A THEN atA ELSE atB]

MCLibraries ==
    {OnDevices(Holding({a, c}, {}), Holding({b}, {d})),
     OnDevices(Holding({}, {}), Holding({b}, {d})),
     OnDevices(Holding({b}, {}), Holding({}, {d}))}

MCCalmLibraries ==
    {OnDevices(Holding({a}, {}), Holding({b}, {d})),
     OnDevices(Holding({e}, {}), Holding({b}, {d}))}

(* No device starts with a takedown of what it holds.                      *)
MCLogs ==
    {OnDevices({}, {}),
     OnDevices({[item |-> d, authorized |-> TRUE], [item |-> b, authorized |-> FALSE]},
               {[item |-> a, authorized |-> FALSE]}),
     OnDevices({[item |-> c, authorized |-> FALSE]}, {[item |-> c, authorized |-> TRUE]})}

MCSuppressed == {OnDevices({}, {}), OnDevices({a}, {b})}

(* What the users do happens in the states that begin with one edit.       *)
MCEdited ==
    [library : {OnDevices(Holding({a}, {}), Holding({b}, {d}))},
     log : {OnDevices({[item |-> d, authorized |-> TRUE], [item |-> a, authorized |-> FALSE]}, {})},
     suppressed : {OnDevices({}, {})}, faults : {{"storage"}}, edits : {1}]

(* What can go wrong either does, or nothing does and every item fits.     *)
MCInitialStates ==
    [library : MCLibraries, log : MCLogs, suppressed : MCSuppressed, faults : {FaultKinds},
     edits : {0}]
        \cup [library : MCCalmLibraries, log : MCLogs, suppressed : MCSuppressed, faults : {{}},
              edits : {0}]
        \cup MCEdited

(* The hypothesis under which the properties of a pair are proved for any  *)
(* number of devices.                                                      *)
ASSUME PairAssumption == InPairs
=============================================================================
